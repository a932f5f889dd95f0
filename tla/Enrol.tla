------------------------------- MODULE Enrol -------------------------------
(***************************************************************************)
(* qory access-key enrol on this machine (cmd/accesskey.go,                *)
(* cmd/accesskey_answer.go): the files of forager.yaml's directory it      *)
(* writes (internal/foragerdir), one file operation a step, so that it may *)
(* stop between any two; and what a run does with them after its signed    *)
(* discovery (cmd/server.go). Key commands hold the key lock exclusively   *)
(* from before they look (module KeyLocks), so there is one command.       *)
(*                                                                         *)
(* Qory Apiary is external. Commands with --print write nothing here.      *)
(***************************************************************************)
EXTENDS Naturals

CONSTANTS Codes,        \* enrolment codes for this machine
          Keys, NoKey,  \* key pairs; the server's id of one is the key itself
          MaxStops      \* bound: commands that crash, or return at a failed step

ASSUME NoKeyAssumption == NoKey \notin Keys
ASSUME StopsAssumption == MaxStops \in Nat

VARIABLES
  pc,       \* the step the command is at, "idle" without one
  code,     \* its code
  replace,  \* whether it has --replace
  key,      \* the key it enrols or finishes
  secret, new, replaced,  \* access-key-secret, .new and .replaced
  aside,    \* the keys in access-key-secret.old.<time>
  pending,  \* enrolment-pending: at most one <<code, key>>
  fresh,    \* whether it is younger than PendingFor
  answer,   \* enrolment-answer: at most one <<code, key>>
  forager,  \* the key whose id forager.yaml names
  marker,   \* the stored-secrets marker
  runKey,   \* the key of a run past its signed discovery, until it settles
  net,      \* requests sent that the server may still get
  usedBy,   \* per code: the key the server enrolled with it
  taken,    \* keys active for a node, a pool or a gateway
  foreign,  \* keys active for another kind than the code's
  made,     \* history: the keys made
  unkept,   \* history: an enrolment-answer could not be written
  stops     \* bound: commands that stopped

command == <<code, replace, key>>
secrets == <<secret, new, replaced, aside>>
records == <<pending, fresh, answer, forager, marker>>
server == <<net, usedBy, taken, foreign>>
history == <<made, unkept, stops>>
vars == <<pc, command, secrets, records, runKey, server, history>>

Held == {secret, new, replaced} \cup aside
Answers(k) == \E c \in Codes : <<c, k>> \in answer     \* answeredFor
PendingOf(k) == fresh /\ <<code, k>> \in pending       \* Dir.Pending

(* The key of the answer kept for this command: the new key's, else the     *)
(* secret's; none for another code, or for a key neither file holds.        *)
AnswerKept == IF <<code, new>> \in answer THEN new
              ELSE IF <<code, secret>> \in answer THEN secret ELSE NoKey

-----------------------------------------------------------------------------
(* enrol, up to the request.                                                *)

Begin(c, r) ==
  /\ pc = "idle"
  /\ pc' = "look" /\ code' = c /\ replace' = r /\ key' = NoKey
  /\ UNCHANGED <<secrets, records, runKey, server, history>>

(* Mutant: the key of a kept answer is taken as already placed.             *)
FinishKeptPlaced ==
  /\ pc = "look" /\ AnswerKept # NoKey
  /\ pc' = "removePending" /\ key' = AnswerKept /\ marker' = TRUE
  /\ UNCHANGED <<code, replace, secrets, pending, fresh, answer, forager, runKey, server, history>>

(* The server answered this command before: it is finished from the answer. *)
FinishKept ==
  /\ pc = "look" /\ AnswerKept # NoKey
  /\ pc' = "place" /\ key' = AnswerKept /\ marker' = TRUE
  /\ UNCHANGED <<code, replace, secrets, pending, fresh, answer, forager, runKey, server, history>>

RefuseHeld ==
  /\ pc = "look" /\ AnswerKept = NoKey
  /\ secret # NoKey /\ ~PendingOf(secret) /\ ~replace
  /\ pc' = "idle"
  /\ UNCHANGED <<command, secrets, records, runKey, server, history>>

Goes == pc = "look" /\ AnswerKept = NoKey /\ (secret = NoKey \/ PendingOf(secret) \/ replace)

(* The same code within its 15 minutes takes the key made for it, from      *)
(* access-key-secret, where a swap that stopped left it, or from .new.      *)
Retry ==
  /\ Goes
  /\ key' = IF secret # NoKey /\ PendingOf(secret) THEN secret ELSE new
  /\ key' # NoKey /\ PendingOf(key')
  /\ pc' = "send" /\ marker' = TRUE
  /\ UNCHANGED <<code, replace, secrets, pending, fresh, answer, forager, runKey, server, history>>

NoRetry == Goes /\ ~(secret # NoKey /\ PendingOf(secret)) /\ ~(new # NoKey /\ PendingOf(new))

(* The new key of another code's kept answer may be active: it stays.       *)
RefuseAnswered ==
  /\ NoRetry /\ new # NoKey /\ Answers(new)
  /\ pc' = "idle" /\ marker' = TRUE
  /\ UNCHANGED <<command, secrets, pending, fresh, answer, forager, runKey, server, history>>

(* MoveNewAside: a link to a name that no file has, then the unlink.        *)
LinkAside(next) ==
  /\ aside' = aside \cup {new}
  /\ pc' = next
  /\ UNCHANGED <<secret, new, replaced>>

(* Mutant: a new key is moved aside without a look at the kept answer.      *)
LookAsideAlways ==
  /\ NoRetry /\ new # NoKey
  /\ LinkAside("unlinkNew") /\ marker' = TRUE
  /\ UNCHANGED <<command, pending, fresh, answer, forager, runKey, server, history>>

LookAside ==
  /\ NoRetry /\ new # NoKey /\ ~Answers(new)
  /\ LinkAside("unlinkNew") /\ marker' = TRUE
  /\ UNCHANGED <<command, pending, fresh, answer, forager, runKey, server, history>>

LookNone ==
  /\ NoRetry /\ new = NoKey
  /\ pc' = "make" /\ marker' = TRUE
  /\ UNCHANGED <<command, secrets, pending, fresh, answer, forager, runKey, server, history>>

UnlinkNew ==
  /\ pc \in {"unlinkNew", "discardUnlink"}
  /\ new' = NoKey
  /\ pc' = IF pc = "unlinkNew" THEN "make" ELSE "idle"
  /\ UNCHANGED <<command, secret, replaced, aside, records, runKey, server, history>>

MakeKey(k) ==
  /\ pc = "make" /\ k \in Keys \ made
  /\ new' = k /\ key' = k /\ made' = made \cup {k}
  /\ pc' = "pendRemove"
  /\ UNCHANGED <<code, replace, secret, replaced, aside, records, runKey, server, unkept, stops>>

MakeKeyFails ==
  /\ pc = "make" /\ pc' = "idle"
  /\ UNCHANGED <<command, secrets, records, runKey, server, history>>

(* WritePending removes the record there, then creates its own.             *)
PendRemove ==
  /\ pc = "pendRemove" /\ pc' = "pendWrite" /\ pending' = {}
  /\ UNCHANGED <<command, secrets, fresh, answer, forager, marker, runKey, server, history>>

PendWrite ==
  /\ pc = "pendWrite" /\ pc' = "send" /\ pending' = {<<code, key>>} /\ fresh' = TRUE
  /\ UNCHANGED <<command, secrets, answer, forager, marker, runKey, server, history>>

Send ==
  /\ pc = "send" /\ pc' = "wait" /\ net' = net \cup {<<code, key>>}
  /\ UNCHANGED <<command, secrets, records, runKey, usedBy, taken, foreign, history>>

-----------------------------------------------------------------------------
(* What the answer does.                                                    *)

Enrolled ==
  /\ pc = "wait" /\ usedBy[code] = key /\ key \in taken
  /\ pc' = "keep"
  /\ UNCHANGED <<command, secrets, records, runKey, server, history>>

(* refuseKind: the key is kept nowhere.                                     *)
KindRefused ==
  /\ pc = "wait" /\ usedBy[code] = key /\ key \in foreign
  /\ pc' = "deleteNew"
  /\ UNCHANGED <<command, secrets, records, runKey, server, history>>

DeleteNew ==
  /\ pc = "deleteNew" /\ pc' = "endPending"
  /\ new' = IF new = key THEN NoKey ELSE new
  /\ UNCHANGED <<command, secret, replaced, aside, records, runKey, server, history>>

EndPending ==
  /\ pc = "endPending" /\ pc' = "idle" /\ pending' = {}
  /\ UNCHANGED <<command, secrets, fresh, answer, forager, marker, runKey, server, history>>

(* unauthorized, key_invalid, and a 201 that pins the fixture key: the      *)
(* pending enrolment ends and the key made for it is moved aside, but for a *)
(* key that a kept answer names.                                            *)
Refused ==
  /\ pc = "wait"
  /\ pc' = IF Answers(key) THEN "idle" ELSE "discard"
  /\ net' = net \ {<<code, key>>}
  /\ UNCHANGED <<command, secrets, records, runKey, usedBy, taken, foreign, history>>

Discard ==
  /\ pc = "discard" /\ pending' = {}
  /\ pc' = IF new = key THEN "discardLink" ELSE "idle"
  /\ UNCHANGED <<command, secrets, fresh, answer, forager, marker, runKey, server, history>>

(* Mutant: the secret of a refused enrolment is deleted.                    *)
DiscardLost ==
  /\ pc = "discardLink" /\ pc' = "discardUnlink"
  /\ UNCHANGED <<command, secrets, records, runKey, server, history>>

DiscardLink ==
  /\ pc = "discardLink" /\ LinkAside("discardUnlink")
  /\ UNCHANGED <<command, records, runKey, server, history>>

(* key_limit, rate_limited, an unsigned answer, or none: the key and the    *)
(* record stay. Without an answer the server may still get the request.     *)
NotCompleted ==
  /\ pc = "wait" /\ pc' = "idle"
  /\ net' \in {net, net \ {<<code, key>>}}
  /\ UNCHANGED <<command, secrets, records, runKey, usedBy, taken, foreign, history>>

-----------------------------------------------------------------------------
(* finishEnrolment, from the answer's record to its removal.                *)

(* An answer that cannot be kept stops nothing.                             *)
Keep ==
  /\ pc = "keep" /\ pc' = "place"
  /\ \/ answer' = {<<code, key>>} /\ UNCHANGED unkept
     \/ unkept' = TRUE /\ UNCHANGED answer
  /\ UNCHANGED <<command, secrets, pending, fresh, forager, marker, runKey, server, made, stops>>

(* placeKey, for a key still in .new: .replaced first gets the old secret.  *)
Place ==
  /\ pc = "place"
  /\ pc' = IF new # key THEN "forager" ELSE IF secret = NoKey THEN "swap" ELSE "unlinkReplaced"
  /\ UNCHANGED <<command, secrets, records, runKey, server, history>>

UnlinkReplaced ==
  /\ pc = "unlinkReplaced" /\ pc' = "linkReplaced" /\ replaced' = NoKey
  /\ UNCHANGED <<command, secret, new, aside, records, runKey, server, history>>

LinkReplaced ==
  /\ pc = "linkReplaced" /\ pc' = "swap" /\ replaced' = secret
  /\ UNCHANGED <<command, secret, new, aside, records, runKey, server, history>>

(* Mutant: the answer is removed once the new secret is in place.           *)
SwapForgets ==
  /\ pc = "swap" /\ pc' = "forager" /\ secret' = new /\ new' = NoKey /\ answer' = {}
  /\ UNCHANGED <<command, replaced, aside, pending, fresh, forager, marker, runKey, server, history>>

Swap ==
  /\ pc = "swap" /\ pc' = "forager" /\ secret' = new /\ new' = NoKey
  /\ UNCHANGED <<command, replaced, aside, records, runKey, server, history>>

WriteForager ==
  /\ pc = "forager" /\ forager' = key
  /\ pc' = "removeReplaced"
  /\ UNCHANGED <<command, secrets, pending, fresh, answer, marker, runKey, server, history>>

RemoveReplaced ==
  /\ pc = "removeReplaced" /\ pc' = "removePending" /\ replaced' = NoKey
  /\ UNCHANGED <<command, secret, new, aside, records, runKey, server, history>>

RemovePending ==
  /\ pc = "removePending" /\ pc' = "removeAnswer" /\ pending' = {}
  /\ UNCHANGED <<command, secrets, fresh, answer, forager, marker, runKey, server, history>>

RemoveAnswer ==
  /\ pc = "removeAnswer" /\ pc' = "idle" /\ answer' = {}
  /\ UNCHANGED <<command, secrets, pending, fresh, forager, marker, runKey, server, history>>

(* A step fails and the command returns its error, or it is killed: what    *)
(* was written stays, the lock goes.                                        *)
Stop ==
  /\ pc # "idle" /\ stops < MaxStops
  /\ pc' = "idle" /\ stops' = stops + 1
  /\ UNCHANGED <<command, secrets, records, runKey, server, unkept, made>>

-----------------------------------------------------------------------------
(* A run, the server and the clock.                                         *)

(* A run's signed discovery succeeds: it read a secret and the id of the    *)
(* same active key.                                                         *)
RunDiscovers ==
  /\ runKey = NoKey /\ secret = forager /\ secret \in taken
  /\ runKey' = secret
  /\ UNCHANGED <<pc, command, secrets, records, server, history>>

(* settleMarker, under the key lock: for a secret that changed meanwhile    *)
(* it does nothing.                                                         *)
RunSettles ==
  /\ runKey # NoKey /\ pc = "idle"
  /\ runKey' = NoKey
  /\ IF secret = runKey THEN aside' = {} /\ marker' \in BOOLEAN
                        ELSE UNCHANGED <<aside, marker>>
  /\ UNCHANGED <<pc, command, secret, new, replaced, pending, fresh, answer, forager, server, history>>

(* The server enrols the key of a code not used yet.                        *)
ServerEnrols(c, k) ==
  /\ <<c, k>> \in net /\ usedBy[c] = NoKey
  /\ usedBy' = [usedBy EXCEPT ![c] = k]
  /\ net' = net \ {<<c, k>>}
  /\ \/ taken' = taken \cup {k} /\ UNCHANGED foreign
     \/ foreign' = foreign \cup {k} /\ UNCHANGED taken
  /\ UNCHANGED <<pc, command, secrets, records, runKey, history>>

PendingExpires ==
  /\ pending # {} /\ fresh
  /\ fresh' = FALSE
  /\ UNCHANGED <<pc, command, secrets, pending, answer, forager, marker, runKey, server, history>>

(* A machine without a key, or with one it enrolled before.                 *)
Init ==
  /\ pc = "idle" /\ code \in Codes /\ replace = FALSE /\ key = NoKey
  /\ secret \in Keys \cup {NoKey} /\ forager = secret
  /\ made = {secret} \ {NoKey} /\ taken = made /\ marker = (secret # NoKey)
  /\ new = NoKey /\ replaced = NoKey /\ aside = {}
  /\ pending = {} /\ fresh = FALSE /\ answer = {} /\ runKey = NoKey
  /\ unkept = FALSE /\ net = {} /\ usedBy = [c \in Codes |-> NoKey] /\ foreign = {} /\ stops = 0

CommandStep ==
  \/ FinishKept \/ RefuseHeld \/ Retry \/ RefuseAnswered \/ LookAside \/ LookNone \/ UnlinkNew
  \/ \E k \in Keys : MakeKey(k)
  \/ MakeKeyFails \/ PendRemove \/ PendWrite \/ Send
  \/ Enrolled \/ KindRefused \/ DeleteNew \/ EndPending \/ Refused \/ Discard \/ DiscardLink
  \/ NotCompleted \/ Keep \/ Place \/ UnlinkReplaced \/ LinkReplaced \/ Swap \/ WriteForager
  \/ RemoveReplaced \/ RemovePending \/ RemoveAnswer

Next ==
  \/ CommandStep \/ Stop
  \/ \E c \in Codes : \E r \in BOOLEAN : Begin(c, r)
  \/ RunDiscovers \/ RunSettles \/ PendingExpires
  \/ \E c \in Codes, k \in Keys : ServerEnrols(c, k)

Spec == Init /\ [][Next]_vars /\ WF_vars(CommandStep)

-----------------------------------------------------------------------------
(* Type invariant: the records hold one enrolment at most.                  *)
MaybeKey == Keys \cup {NoKey}
Steps == {"idle", "look", "unlinkNew", "make", "pendRemove", "pendWrite", "send", "wait", "deleteNew",
          "endPending", "discard", "discardLink", "discardUnlink", "keep", "place", "unlinkReplaced",
          "linkReplaced", "swap", "forager", "removeReplaced", "removePending", "removeAnswer"}
AtMostOne(s) == \A x, y \in s : x = y
TypeOK ==
  /\ pc \in Steps /\ code \in Codes /\ replace \in BOOLEAN /\ key \in MaybeKey
  /\ secret \in MaybeKey /\ new \in MaybeKey /\ replaced \in MaybeKey /\ aside \subseteq Keys
  /\ pending \subseteq Codes \X Keys /\ AtMostOne(pending) /\ fresh \in BOOLEAN
  /\ answer \subseteq Codes \X Keys /\ AtMostOne(answer)
  /\ forager \in MaybeKey /\ marker \in BOOLEAN /\ runKey \in MaybeKey
  /\ net \subseteq Codes \X Keys /\ usedBy \in [Codes -> MaybeKey]
  /\ taken \subseteq Keys /\ foreign \subseteq Keys /\ made \subseteq Keys
  /\ unkept \in BOOLEAN /\ stops \in Nat

(* access-key-secret and forager.yaml get a key only once the server        *)
(* enrolled it for a kind this machine takes: never one that was refused,   *)
(* lost, or only staged, whatever commands ran and stopped before.          *)
OnlyEnrolled == {secret, forager} \subseteq taken \cup {NoKey}

(* The key of a kept answer stays where its command looks for it: no other  *)
(* command moves it aside, deletes it or puts another in its place.         *)
KeptKeyStays == ~unkept => \A c \in Codes, k \in Keys : <<c, k>> \in answer => k \in {secret, new}

(* A machine whose access-key-secret is not the key forager.yaml names has  *)
(* a kept answer that finishes it without the server.                       *)
Finishable ==
  ~unkept /\ secret # forager => \E c \in Codes, k \in Keys : <<c, k>> \in answer /\ k \in {secret, new}

(* An active key's last copy goes only while another active key is this     *)
(* machine's, in access-key-secret and named by forager.yaml, or finished   *)
(* from the kept answer.                                                    *)
NeverLeftWithoutKey ==
  [][\A k \in taken : (~unkept /\ k \in Held /\ k \notin Held') =>
       /\ secret' \in taken \ {k}
       /\ forager' = secret' \/ \E c \in Codes, n \in {secret', new'} : <<c, n>> \in answer']_vars

(* A code whose answer is kept here is not sent again: the server would     *)
(* refuse it, and the key that it enrolled would be taken as refused.       *)
NotSentAgain == [][~unkept /\ pc = "send" => \A k \in Keys : <<code, k>> \notin answer]_vars

(* A command whose answer is kept ends with that key in access-key-secret   *)
(* and forager.yaml, unless it stops on the way: each later try is the same.*)
FinishesKept ==
  \A c \in Codes, k \in Keys :
    (pc = "look" /\ code = c /\ <<c, k>> \in answer)
      ~> (pc = "idle" /\ ((secret = k /\ forager = k) \/ <<c, k>> \in answer))

=============================================================================
