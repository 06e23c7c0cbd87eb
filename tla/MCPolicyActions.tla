-------------------------- MODULE MCPolicyActions --------------------------
(* Two nodes. Node 1 asks when it completes: approval asks again, rejection  *)
(* jumps back; or it has the run replanned. Node 2 jumps back or pauses. The *)
(* post-conditions of node 1 have the run replanned, those of node 2 ask,    *)
(* with no follow-up. At the start an event is emitted.                      *)
EXTENDS PolicyActions, TLC

CONSTANTS ask, redraft, back, halt, guard1, guard2, begin,           \* policies
          question, again, rejected, redo, jump, wait, replan, recheck, tell

MCPolicy == {ask, redraft, back, halt, guard1, guard2, begin}
MCAction == {question, again, rejected, redo, jump, wait, replan, recheck, tell}

On(event, n) == [on |-> event, node |-> n, if |-> TRUE]

MCTrigger ==
  ask :> On("complete", 1) @@ redraft :> On("complete", 1)
    @@ back :> On("complete", 2) @@ halt :> On("complete", 2)
    @@ guard1 :> On("postCondition", 1) @@ guard2 :> On("postCondition", 2)
    @@ begin :> On("start", 1)

MCFirst ==
  ask :> question @@ redraft :> redo @@ back :> jump @@ halt :> wait
    @@ guard1 :> replan @@ guard2 :> recheck @@ begin :> tell

Plain(type) == [type |-> type, to |-> 1, max |-> 1, approve |-> None, reject |-> None]

MCDetail ==
  question :> [Plain("hitl") EXCEPT !.approve = again, !.reject = rejected]
    @@ again :> Plain("hitl") @@ rejected :> Plain("goto")
    @@ redo :> Plain("replan") @@ jump :> Plain("goto") @@ wait :> Plain("pause")
    @@ replan :> Plain("replan") @@ recheck :> Plain("hitl") @@ tell :> Plain("emit")

MCOwner ==
  question :> ask @@ again :> ask @@ rejected :> ask @@ redo :> redraft @@ jump :> back
    @@ wait :> halt @@ replan :> guard1 @@ recheck :> guard2 @@ tell :> begin

MCAllowed == [p \in MCPolicy |-> 1]
=============================================================================
