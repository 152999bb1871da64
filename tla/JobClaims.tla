------------------------------ MODULE JobClaims ------------------------------
(* OctyJobs with a history of how long the claims have to live that the passes *)
(* act under, to say how long a document is a pass's own.                      *)
EXTENDS OctyJobs
\* Of each pass and document: half minutes the claim had left when the pass came to act
\* for the document, less those that have passed since.
VARIABLE left

ClaimsInit == Init /\ left = [t \in Ticks |-> [r \in Rows |-> 0]]
Claiming ==
  left' = [t \in Ticks |-> [r \in Rows |->
            IF r \in Owned(t)' \ Owned(t) THEN claims'[r].ttl ELSE left[t][r]]]
RunningDown == left' = [t \in Ticks |-> [r \in Rows |-> IF left[t][r] > 0 THEN left[t][r] - 1 ELSE 0]]
ClaimsNext == (Step /\ Claiming) \/ (Elapse /\ RunningDown)
ClaimsSpec == ClaimsInit /\ [][ClaimsNext]_<<vars, left>>

\* A pass has a document to itself for as long as the claim had left that it made or found
\* there, however long the pass takes: passes of different pods act for the same document
\* only when the claim of one of them has run out under it.  (A claim that a pod finds is
\* its own, from an earlier pass; claim_pending_job does not renew it.)
ClaimExclusive ==
  \A t, u \in Ticks : Pod[t] # Pod[u] =>
    \A r \in Owned(t) \cap Owned(u) : left[t][r] = 0 \/ left[u][r] = 0
=============================================================================
