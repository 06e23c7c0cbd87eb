---------------------------- MODULE RunLifecycle ----------------------------
(* What flex_runs.status promises its readers (the task list, the resume     *)
(* and decline routes, the debug view): the life of each run, whoever        *)
(* drives it.                                                                *)

CONSTANT Run

VARIABLE status

Awaiting == {"awaiting_hitl", "awaiting_human"}
Terminal == {"completed", "failed", "cancelled"}
Status == {"absent", "pending", "running"} \union Awaiting \union Terminal

Allowed ==
  [s \in Status |->
     CASE s = "absent"   -> {"pending"}
       [] s = "pending"  -> {"running", "failed", "cancelled"}
       [] s = "running"  -> Awaiting \union Terminal
       [] s \in Awaiting -> {"running", "completed", "failed"}
       [] s \in Terminal -> {}]

Init == status = [r \in Run |-> "absent"]

Move(r, s) ==
  /\ s \in Allowed[status[r]]
  /\ status' = [status EXCEPT ![r] = s]

Next == \E r \in Run, s \in Status : Move(r, s)

Spec == Init /\ [][Next]_status
=============================================================================
