----------------------------- MODULE RunInputs -----------------------------
(* What qory gets onto this machine for a run: the sources of its harness   *)
(* (Sources), its own repositories (Fetch), and what the setup in the       *)
(* container adds to them (Setup).  They share no state, and a behaviour is *)
(* of one of them.                                                          *)
EXTENDS Sources

CONSTANTS Jobs, Heads, Trees, Folders, MaxWrites  \* Fetch's
VARIABLES job, remotes, folder, used, walled, hold, step, at, clones, private, changes
fetch == <<job, remotes, folder, used, walled, hold, step, at, clones, private, changes>>
F == INSTANCE Fetch
ASSUME JobsAreLists == F!FetchAssumption

CONSTANTS Places, notCopied, Cases, MaxLines  \* Setup's
VARIABLES setup, working, toAdd, config, service, written, end, reader, copied, done, home, keeps, env, stage
container == <<setup, working, toAdd, config, service, written, end, reader, copied, done, home, keeps, env, stage>>
S == INSTANCE Setup
ASSUME CasesAreTrees == S!SetupAssumption

VARIABLE part  \* the one of the three a behaviour is of
-----------------------------------------------------------------------------
NoSources ==
  /\ form = "hex" /\ id = None /\ remote = Nothing /\ ref = NoRef /\ clone = [c \in Commits |-> "none"]
NoFetch ==
  /\ job = <<>> /\ remotes = <<>> /\ folder = <<>> /\ used = FALSE /\ walled = FALSE /\ hold = FALSE
  /\ step = "" /\ at = 0 /\ clones = <<>> /\ private = {} /\ changes = 0
NoSetup ==
  /\ setup = <<>> /\ working = <<>> /\ toAdd = {} /\ config = <<>> /\ service = FALSE /\ written = 0 /\ end = 0
  /\ reader = "" /\ copied = 0 /\ done = FALSE /\ home = <<>> /\ keeps = <<>> /\ env = <<>> /\ stage = ""

PartsInit ==
  /\ Init
  /\ \/ part = "sources" /\ NoFetch /\ NoSetup
     \/ part = "fetch" /\ NoSources /\ F!Init /\ NoSetup
     \/ part = "setup" /\ NoSources /\ NoFetch /\ S!Init
PartsNext ==
  /\ UNCHANGED part
  /\ \/ part = "sources" /\ Next /\ UNCHANGED <<fetch, container>>
     \/ part = "fetch" /\ F!Next /\ UNCHANGED <<vars, container>>
     \/ part = "setup" /\ S!Next /\ UNCHANGED <<vars, fetch>>
parts == <<part, vars, fetch, container>>
PartsSpec == PartsInit /\ [][PartsNext]_parts

(* Fetch: git acts on no key or link another program put into the folder,  *)
(* and what is fetched is what the list and the documents say.             *)
FetchesAsListed == part = "fetch" => F!FetchesAsListed
(* Setup: the image's copy fills in what the commit does not track, the     *)
(* start commands are the commit's and their output is whole, and the agent *)
(* starts on the run's variables and a home of its own.                     *)
StartsOnTheCommit == part = "setup" => S!StartsOnTheCommit
=============================================================================
