------------------------------ MODULE MCOctyJobs ------------------------------
(* Instances of OctyJobs for TLC. *)
EXTENDS OctyJobs, TLC
CONSTANTS a1, a2, once, twice, loop, segment, other, item, p1, p2

\* "once" runs a single time, as soon as possible, and tolerates one failure, like
\* the jobs that poll a training; "twice" is a limited job with an interval of a
\* minute; "loop" runs every minute without limits, like past segmentation.
MCDesired == [k \in Kinds |-> (once :> 1 @@ twice :> 2 @@ loop :> 0)[k]]
MCThreshold == [k \in Kinds |-> (once :> 1 @@ twice :> 1 @@ loop :> 0)[k]]
MCInterval == [k \in Kinds |-> (once :> 0 @@ twice :> 1 @@ loop :> 1)[k]]
MCAlt == [k \in Kinds |-> IF k = loop THEN segment ELSE other]
MCRequires == [k \in Kinds |-> {item}]
MCHolds == [a \in Accounts |-> IF a = a1 THEN {item} ELSE {}]
OnePod == [t \in Ticks |-> p1]
TwoPods == [t \in Ticks |-> IF t = 1 THEN p1 ELSE p2]

===============================================================================
