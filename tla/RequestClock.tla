---------------------------- MODULE RequestClock ----------------------------
(* The times and tries of the pool's requests (internal/provisioner,        *)
(* Client.do, nextTime and take): callers of one Client at a time, each of  *)
(* which sends a request of an identity, again after a wait that doubles,   *)
(* with the clock's second as its time. The clock is the machine's, which   *)
(* may be set back; the waits are timers of their own.                      *)
(*                                                                          *)
(* What is sent and answered is Pool's: here an answer is one that is used, *)
(* or a failure.                                                            *)
EXTENDS Integers, RequestTimes
CONSTANTS
  Ids,        \* the identities: method, URL and body without the time
  None,
  Tries,      \* the code's tries, 5 there
  Ticks,      \* ticks of the clock in a second
  MaxCalls,   \* bound: calls of do
  MaxSecond,  \* bound: seconds the clock goes to while nobody waits for it
  MaxWaited,  \* bound: seconds it goes to, more than the waits of all calls take
  MaxBacks    \* bound: times the clock is set back
ASSUME NoneAssumption == None \notin Ids
ASSUME TriesAssumption == Tries \in Nat \ {0} /\ Ticks \in Nat \ {0}
ASSUME BoundsAssumption == MaxCalls \in Nat /\ MaxSecond \in Nat /\ MaxWaited \in Nat /\ MaxBacks \in Nat

VARIABLES
  try, wait, left,  \* per caller: its tries so far, the ticks of its next wait, and until its timer fires
  tick,             \* the clock's, within its second
  last, pruned,     \* the Client's: identities and the second they were sent at
  calls             \* bound: calls so far
own == <<pc, request, try, wait, left>>
clock == <<second, tick>>
client == <<last, pruned>>
vars == <<own, clock, client, sent, backs, calls>>

GoTo(c, step) == pc' = [pc EXCEPT ![c] = step]
Ends(c) ==
  request' = [request EXCEPT ![c] = None] /\ try' = [try EXCEPT ![c] = 0] /\ wait' = [wait EXCEPT ![c] = 0]
Waits(c, step, n) == GoTo(c, step) /\ left' = [left EXCEPT ![c] = n]

-----------------------------------------------------------------------------
Do(c, i) ==
  /\ pc[c] = "idle" /\ calls < MaxCalls
  /\ GoTo(c, "time") /\ calls' = calls + 1
  /\ request' = [request EXCEPT ![c] = i] /\ try' = [try EXCEPT ![c] = 1]
  /\ wait' = [wait EXCEPT ![c] = Ticks]
  /\ UNCHANGED <<left, clock, client, sent, backs>>

(* take, under the client's lock: at another second than the one last       *)
(* pruned, what was sent at another one is forgotten; then the identity is  *)
(* kept at this second, or waits for the next.                              *)
\* Mutant: everything is forgotten.
KeptNothing == {}
Kept == IF second = pruned THEN last ELSE {x \in last : x[2] = second}
Held(c) == \E x \in Kept : x[1] = request[c]

Take(c) ==
  /\ pc[c] = "time" /\ ~Held(c)
  /\ GoTo(c, "sent") /\ last' = Kept \cup {<<request[c], second>>} /\ pruned' = second
  /\ sent' = IF backs = 0 THEN sent \cup {<<request[c], second>>} ELSE sent
  /\ UNCHANGED <<request, try, wait, left, clock, backs, calls>>

TakeWaits(c) ==
  /\ pc[c] = "time" /\ Held(c)
  /\ Waits(c, "held", Ticks - tick) /\ last' = Kept /\ pruned' = second
  /\ UNCHANGED <<request, try, wait, clock, sent, backs, calls>>

HeldOver(c) ==
  /\ pc[c] = "held" /\ left[c] = 0 /\ GoTo(c, "time")
  /\ UNCHANGED <<request, try, wait, left, clock, client, sent, backs, calls>>

(* do: an answer that is used ends the call; a failure is tried again after *)
(* a wait of a second, two, four and so on, or is the error.                *)
Finished(c) ==
  /\ pc[c] = "sent" /\ GoTo(c, "idle") /\ Ends(c)
  /\ UNCHANGED <<left, clock, client, sent, backs, calls>>

Failed(c) ==
  /\ pc[c] = "sent" /\ try[c] < Tries
  /\ Waits(c, "backoff", wait[c])
  /\ UNCHANGED <<request, try, wait, clock, client, sent, backs, calls>>

TryAgain(c) ==
  /\ pc[c] = "backoff" /\ left[c] = 0
  /\ GoTo(c, "time") /\ try' = [try EXCEPT ![c] = @ + 1]
  /\ wait' = [wait EXCEPT ![c] = 2 * @]
  /\ UNCHANGED <<request, left, clock, client, sent, backs, calls>>

(* ctx is done, which each wait and each send watches.                      *)
Cancelled(c) ==
  /\ pc[c] \in {"held", "sent", "backoff"} /\ Waits(c, "idle", 0) /\ Ends(c)
  /\ UNCHANGED <<clock, client, sent, backs, calls>>

-----------------------------------------------------------------------------
(* Time passes, for the clock and the timers.                               *)
Passes ==
  /\ second < MaxSecond \/ (second < MaxWaited /\ \E c \in Goroutines : left[c] > 0)
  /\ IF tick + 1 = Ticks THEN second' = second + 1 /\ tick' = 0 ELSE tick' = tick + 1 /\ UNCHANGED second
  /\ left' = [c \in Goroutines |-> IF left[c] = 0 THEN 0 ELSE left[c] - 1]
  /\ UNCHANGED <<pc, request, try, wait, client, sent, backs, calls>>

(* The clock alone is set back, to the start of an earlier second.          *)
SetBack(s) ==
  /\ backs < MaxBacks
  /\ second' = s /\ tick' = 0 /\ backs' = backs + 1
  /\ UNCHANGED <<own, client, sent, calls>>

Init ==
  /\ pc = [c \in Goroutines |-> "idle"] /\ request = [c \in Goroutines |-> None] /\ try = [c \in Goroutines |-> 0]
  /\ wait = [c \in Goroutines |-> 0]
  /\ left = [c \in Goroutines |-> 0] /\ second = 0 /\ tick = 0
  /\ last = {} /\ pruned = -1 /\ sent = {} /\ backs = 0 /\ calls = 0

Step(c) == Take(c) \/ TakeWaits(c) \/ HeldOver(c) \/ Finished(c) \/ Failed(c) \/ TryAgain(c)
Next ==
  \/ Passes
  \/ \E s \in 0..(second - 1) : SetBack(s)
  \/ \E c \in Goroutines : Step(c) \/ Cancelled(c) \/ \E i \in Ids : Do(c, i)

(* Goroutines go on, their requests end, and time passes.                      *)
Spec == Init /\ [][Next]_vars /\ WF_vars(Passes) /\ \A c \in Goroutines : WF_vars(Step(c))

-----------------------------------------------------------------------------
TypeOK ==
  /\ pc \in [Goroutines -> {"idle", "time", "held", "sent", "backoff"}]
  /\ request \in [Goroutines -> Ids \cup {None}]
  /\ \A c \in Goroutines : pc[c] # "idle" => request[c] \in Ids
  /\ try \in [Goroutines -> 0..Tries] /\ wait \in [Goroutines -> Nat] /\ left \in [Goroutines -> Nat]
  /\ second \in Nat /\ tick \in 0..(Ticks - 1)
  /\ last \subseteq Ids \X Nat /\ pruned \in Int /\ sent \subseteq Ids \X Nat
  /\ backs \in Nat /\ calls \in Nat
=============================================================================
