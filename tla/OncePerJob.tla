----------------------------- MODULE OncePerJob -----------------------------
(***************************************************************************)
(* What an idempotency key promises: a job is performed once, however often *)
(* it is asked for, and whoever asked is told of it only afterwards.       *)
(***************************************************************************)
CONSTANTS
  Jobs,     \* things that are to be done once
  Effects   \* records that doing a job can leave

VARIABLES
  effects,  \* the records that each job has left
  told      \* jobs reported as done to the client that asked

vars == <<effects, told>>

Init ==
  /\ effects = [j \in Jobs |-> {}]
  /\ told = {}

Perform(j, e) ==
  /\ effects[j] = {}
  /\ effects' = [effects EXCEPT ![j] = {e}]
  /\ UNCHANGED told

Tell(j) ==
  /\ effects[j] # {}
  /\ told' = told \union {j}
  /\ UNCHANGED effects

Next ==
  \E j \in Jobs : Tell(j) \/ \E e \in Effects : Perform(j, e)

Spec == Init /\ [][Next]_vars
=============================================================================
