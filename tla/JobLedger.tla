------------------------------- MODULE JobLedger -------------------------------
(***************************************************************************)
(* What the job queue promises for the jobs it accepts, without passes,    *)
(* claims, messages or time: a job is run by at most one worker at a time, *)
(* a success is counted once, and only for a run that was outstanding, and *)
(* a job that has succeeded as often as it was asked to is not run again.  *)
(***************************************************************************)
EXTENDS Integers

CONSTANTS
  Jobs,    \* every job there may be
  Limits   \* how many successes a job may be asked for

VARIABLES
  open,   \* jobs accepted and not deleted
  out,    \* jobs with an outstanding run, deleted ones included
  limit,  \* per job, how many successes it was asked for
  won     \* per job, successes counted

ledger == <<open, out, limit, won>>

Init ==
  /\ open = {} /\ out = {}
  /\ limit = [j \in Jobs |-> 0] /\ won = [j \in Jobs |-> 0]

\* A job that was never seen before is accepted.
Accept(j) ==
  /\ j \notin open \cup out
  /\ open' = open \cup {j}
  /\ \E n \in Limits : limit' = [limit EXCEPT ![j] = n]
  /\ UNCHANGED <<out, won>>

\* A run starts.  The job may have been deleted by somebody else meanwhile.
Start(j) ==
  /\ j \notin out
  /\ won[j] < limit[j]
  /\ out' = out \cup {j}
  /\ UNCHANGED <<open, limit, won>>

\* The run answers; a success counts unless the job was deleted.
Answer(j) ==
  /\ j \in out
  /\ out' = out \ {j}
  /\ \/ UNCHANGED won
     \/ j \in open /\ won' = [won EXCEPT ![j] = @ + 1]
  /\ UNCHANGED <<open, limit>>

\* Jobs are deleted, with what was counted for them.
Close(S) ==
  /\ open' = open \ S
  /\ won' = [j \in Jobs |-> IF j \in S THEN 0 ELSE won[j]]
  /\ UNCHANGED <<out, limit>>

Next ==
  \/ \E j \in Jobs : Accept(j) \/ Start(j) \/ Answer(j)
  \/ \E S \in SUBSET open : Close(S)

Spec == Init /\ [][Next]_ledger
================================================================================
