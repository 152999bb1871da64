---------------------------- MODULE MCOctyJobsPods ----------------------------
(* Instances of JobIntervals and JobClaims for TLC, side by side: a job with an *)
(* interval and passes that take no time ("interval"), and a job without one    *)
(* and passes that take up to PassTime ("claims"), whose account stays.          *)
EXTENDS MCOctyJobs, JobIntervals, JobClaims
VARIABLE part

PodsInit == TimedInit /\ ClaimsInit /\ part \in {"interval", "claims"}
IntervalNext ==
  /\ part = "interval" /\ UNCHANGED left
  /\ TimedNext
  /\ took' = [t \in Ticks |-> 0]
  /\ \A h \in Handlers : \A j \in creating'[h] : j.kind = twice
ClaimNext ==
  /\ part = "claims" /\ UNCHANGED since
  /\ ClaimsNext /\ UNCHANGED accounts
  /\ \A r \in Rows : Live(r)' <= 1
  /\ \A h \in Handlers : \A j \in creating'[h] : j.kind = once
PodsNext == (IntervalNext \/ ClaimNext) /\ UNCHANGED part
PodsSpec == PodsInit /\ [][PodsNext]_<<vars, since, left, part>>
===============================================================================
