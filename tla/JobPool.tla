------------------------------ MODULE JobPool ------------------------------
(***************************************************************************)
(* What a thread pool promises (src/include/common/TThreadPool.hh): every  *)
(* run of a job that was asked for is executed, one at a time for one job, *)
(* at most Capacity at a time in all, and each exactly once.               *)
(***************************************************************************)
EXTENDS Naturals, FiniteSets

CONSTANTS
    Jobs,         \* the job objects
    Capacity      \* how many jobs may be executed at a time

VARIABLES
    waiting,      \* for each job: the runs asked for and not yet taken on
    stage,        \* for each job: is a run of it taken on, and executed?
    ran           \* for each job: how often it was executed

vars == <<waiting, stage, ran>>

TakenOn == {j \in Jobs : stage[j] # "free"}

Init ==
    /\ waiting = [j \in Jobs |-> 0]
    /\ stage = [j \in Jobs |-> "free"]
    /\ ran = [j \in Jobs |-> 0]

Submit(j) ==
    /\ waiting' = [waiting EXCEPT ![j] = @ + 1]
    /\ UNCHANGED <<stage, ran>>

TakeOn(j) ==
    /\ waiting[j] > 0 /\ stage[j] = "free"
    /\ Cardinality(TakenOn) < Capacity
    /\ waiting' = [waiting EXCEPT ![j] = @ - 1]
    /\ stage' = [stage EXCEPT ![j] = "taken"]
    /\ UNCHANGED ran

Execute(j) ==
    /\ stage[j] = "taken"
    /\ stage' = [stage EXCEPT ![j] = "executed"]
    /\ ran' = [ran EXCEPT ![j] = @ + 1]
    /\ UNCHANGED waiting

Release(j) ==
    /\ stage[j] = "executed"
    /\ stage' = [stage EXCEPT ![j] = "free"]
    /\ UNCHANGED <<waiting, ran>>

Next == \E j \in Jobs : Submit(j) \/ TakeOn(j) \/ Execute(j) \/ Release(j)

\* What never happens, whoever asks.
Safety == Init /\ [][Next]_vars

\* What was asked for is done as long as there is capacity for it.
Fairness ==
    \A j \in Jobs : WF_vars(TakeOn(j)) /\ WF_vars(Execute(j)) /\ WF_vars(Release(j))

Spec == Safety /\ Fairness
=============================================================================
