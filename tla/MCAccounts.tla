------------------------------ MODULE MCAccounts ------------------------------
(* An instance for TLC in two parts.  In "creation" nothing exists yet, and calls  *)
(* fail or updates are published, MaxFaults of them; in "updates" the account has been created, *)
(* MaxUpdates updates are published, so that one may overtake another, and one call  *)
(* fails.  Rows of services other than the job service are written in the second     *)
(* part only, and failed authentications counted in the first only.                  *)
EXTENDS Accounts, TLC
CONSTANTS profiles, jobs
VARIABLE part
MCCleanups == <<profiles, jobs>>
Created ==
  /\ docs = [a \in Accounts |-> Fresh] /\ cache = docs
  /\ bucket = [a \in Accounts |-> "ready"] /\ commands = [a \in Accounts |-> Jobs]
  /\ rows = [s \in Services |-> IF s = jobs THEN {PayloadName(a) : a \in Accounts} ELSE {}]
  /\ updates = [k \in Keys |-> <<>>] /\ sent = [k \in Keys |-> 0]
  /\ created = [a \in Accounts |-> "ok"] /\ deleted = [a \in Accounts |-> "no"]
  /\ holders = Accounts /\ token = [a \in Accounts |-> Gone]
  /\ attempts = [a \in Accounts |-> 0]
  /\ since = [a \in Accounts |-> {docs[a]}]
  /\ proc = [p \in Procs |-> Idle] /\ faults = 0
MCInit == (part = "creation" /\ Init) \/ (part = "updates" /\ Created)
MCNext ==
  /\ Next /\ UNCHANGED part
  /\ part = "creation" => rows'[profiles] = {} /\ \A k \in Keys : sent'[k] + faults' <= MaxFaults
  /\ part = "updates" => faults' <= 1 /\ UNCHANGED attempts
MCSpec == MCInit /\ [][MCNext]_<<vars, part>> /\ \A k \in Keys : WF_vars(Consume(k))
===============================================================================
