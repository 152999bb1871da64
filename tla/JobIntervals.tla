---------------------------- MODULE JobIntervals ----------------------------
(* OctyJobs with a history of when each document was last published, to say  *)
(* how far apart the runs of a job are.                                      *)
EXTENDS OctyJobs
\* Half minutes since a message for each document was last published.
VARIABLE since

TimedInit == Init /\ since = [r \in Rows |-> MaxAge]
Sending == since' = [r \in Rows |-> IF queued'[r] > queued[r] THEN 0 ELSE since[r]]
Ageing == since' = [r \in Rows |-> IF since[r] < MaxAge THEN since[r] + 1 ELSE MaxAge]
TimedNext == (Step /\ Sending) \/ (Elapse /\ Ageing)
TimedSpec == TimedInit /\ [][TimedNext]_<<vars, since>>

\* A job whose time_interval is n minutes is not published again until n minutes, to
\* the nearest minute, have passed: the interval runs from the stamp that the end of
\* the pass writes, later than the message.
IntervalRespected ==
  [][\A r \in Rows : queued'[r] > queued[r] =>
       RoundedMinutes(since[r]) >= Interval[born[r].kind]]_<<vars, since>>
=============================================================================
