---------------------------- MODULE RequestTimes ----------------------------
(* What the requests of one Client (internal/provisioner) share of their    *)
(* times, and what is promised of them: the server takes a request once, by *)
(* its bytes, so that no two tries may be the same.  RequestClock says how  *)
(* the steps come about.                                                    *)
CONSTANT Goroutines  \* the callers of the Client

VARIABLES
  pc, request,  \* per caller: its step, and the identity it sends
  second,       \* the clock's second, which is the time of a request
  sent,         \* history: each identity and time sent before the clock was set back
  backs         \* history: times the clock was set back

(* Client: while the clock is not set back, one identity is never sent with *)
(* one time twice, by a later try or by another caller.                     *)
NeverTwice ==
  [][\A c \in Goroutines :
       backs = 0 /\ pc[c] = "time" /\ pc'[c] = "sent"
         => <<request[c], second>> \notin sent]_<<pc, request, second, sent, backs>>
=============================================================================
