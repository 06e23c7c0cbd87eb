-------------------------- MODULE RequestLifecycle --------------------------
(* What hitl_requests and hitl_responses promise the coordinator, which      *)
(* reads a request's status and its latest response when a run is called     *)
(* again: a request stays once it is raised, is never open again once it was *)
(* closed, and is resolved only with a response. Nothing promises that it is *)
(* decided once: a later decision may replace an earlier one.                *)
CONSTANTS Request, Op, None

VARIABLES row, answer

Init ==
  /\ row = [r \in Request |-> "absent"]
  /\ answer = [r \in Request |-> None]

\* Over the limit, a request is denied as it is raised.
Raise(r) ==
  /\ row[r] = "absent"
  /\ \E s \in {"pending", "denied"} : row' = [row EXCEPT ![r] = s]
  /\ UNCHANGED answer

Respond(r, o) ==
  /\ row[r] # "absent"
  /\ answer' = [answer EXCEPT ![r] = o]
  /\ UNCHANGED row

Resolve(r) ==
  /\ answer[r] # None
  /\ row' = [row EXCEPT ![r] = "resolved"]
  /\ UNCHANGED answer

Deny(r) ==
  /\ row[r] # "absent"
  /\ row' = [row EXCEPT ![r] = "denied"]
  /\ UNCHANGED answer

Next ==
  \E r \in Request :
    Raise(r) \/ Resolve(r) \/ Deny(r) \/ \E o \in Op : Respond(r, o)

Spec == Init /\ [][Next]_<<row, answer>>
=============================================================================
