------------------------------- MODULE LimaJobs -------------------------------
(***************************************************************************)
(* What a scheduler pipe promises the processes that submit tasks to it:   *)
(* every task gets exactly one result, results come in dispatch order, and *)
(* no task waits for ever.                                                 *)
(***************************************************************************)
EXTENDS Integers

CONSTANT NumTasks

VARIABLES
  count,    \* tasks submitted so far
  result    \* the outcome of each task, "no" while there is none

vars == <<count, result>>

Init == count = 0 /\ result = [t \in 1 .. NumTasks |-> "no"]

Submit == count < NumTasks /\ count' = count + 1 /\ UNCHANGED result

Finish(t, r) ==
  /\ t <= count /\ result[t] = "no"
  /\ \A u \in 1 .. t - 1 : result[u] # "no"
  /\ result' = [result EXCEPT ![t] = r]
  /\ UNCHANGED count

FinishSome == \E t \in 1 .. NumTasks, r \in {"ok", "error"} : Finish(t, r)

Next == Submit \/ FinishSome

Spec == Init /\ [][Next]_vars

FairSpec == Spec /\ WF_vars(FinishSome)

=============================================================================
