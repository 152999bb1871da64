------------------------------ MODULE GatewayCalls ------------------------------
(***************************************************************************)
(* The data gateway wants to know on whose behalf a call to the document    *)
(* store is made.  The shared client says so in a header; the helpers that   *)
(* some services and workers have of their own, for what the shared client   *)
(* does not offer (find with a sort, insert-many, update-many, delete-many,  *)
(* aggregate), do not.  Named says whether they do: FALSE is the code as it  *)
(* is, TRUE what its README says of every request.                           *)
(***************************************************************************)
CONSTANT Named

ASSUME NamedAssumption == Named \in BOOLEAN

\* A call without the header is answered 400 before anything is looked up: it costs no
\* fault, has no effect, and its caller takes the answer for an internal error.
Refused(NoFault) == ~Named /\ NoFault
===============================================================================
