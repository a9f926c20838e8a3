------------------------------- MODULE DapRpc -------------------------------
(***************************************************************************)
(* What send_request promises its callers, whatever happens in between: a  *)
(* call hears what the adapter said to it and to no other call, it hears   *)
(* it once, and a call that ends without an answer never hears one.        *)
(***************************************************************************)
CONSTANTS
  Requests,   \* the requests made
  Bodies,     \* what an adapter may say to a request
  Silent,     \* nothing yet
  Without     \* the call ended without an answer

VARIABLES
  said,    \* what the adapter said to each request
  heard    \* what the call that made the request returned with

Init ==
  /\ said = [r \in Requests |-> Silent]
  /\ heard = [r \in Requests |-> Silent]

\* The adapter decides its answer.
Say(r) ==
  /\ said[r] = Silent
  /\ \E b \in Bodies : said' = [said EXCEPT ![r] = b]
  /\ UNCHANGED heard

\* The call returns with it.
Hear(r) ==
  /\ heard[r] = Silent /\ said[r] \in Bodies
  /\ heard' = [heard EXCEPT ![r] = said[r]]
  /\ UNCHANGED said

\* The call ends without an answer: it did not ask for one, could not write its
\* request, or was dropped.
GiveUp(r) ==
  /\ heard[r] = Silent
  /\ heard' = [heard EXCEPT ![r] = Without]
  /\ UNCHANGED said

Next == \E r \in Requests : Say(r) \/ Hear(r) \/ GiveUp(r)

Spec == Init /\ [][Next]_<<said, heard>>

=============================================================================
