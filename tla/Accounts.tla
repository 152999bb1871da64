------------------------------- MODULE Accounts -------------------------------
(***************************************************************************)
(* The account service: accounts are created, authenticated, updated by    *)
(* messages and deleted, over a document (MongoDB), a cached copy of it     *)
(* (Redis), a bucket (S3), the commands that create the account's jobs, and *)
(* the rows other services keep for the account.  Every call to a store is  *)
(* a step of its own: requests of several clients and the consumers of the  *)
(* three update queues interleave between them, and any call may fail with  *)
(* or without having had its effect.                                        *)
(***************************************************************************)
EXTENDS Integers, Sequences, FiniteSets

CONSTANTS
  Accounts,      \* the ids accounts may be created with (generate_uid never repeats one)
  Keys,          \* routing keys of updates; each key sets fields no other key sets
  Cleanups,      \* the services a deletion is fanned out to, in order
  JobService,    \* the one of them that creates jobs from commands
  Jobs,          \* how many jobs a new account gets
  Admins,        \* requests to create or delete that are in progress at a time
  Holders,       \* authentications in progress at a time
  MaxUpdates,    \* bound: updates published per key
  Prefetch,      \* deliveries of a queue the broker hands to its consumer ahead
  AttemptLimit,  \* failed authentications before the holder is warned
  MaxFaults      \* bound: calls that fail and requests that are cut off

Clients == Admins \cup Holders
ASSUME AccountsAssumption ==
  /\ Accounts # {} /\ Keys # {}
  /\ Jobs \in Nat /\ MaxUpdates \in Nat /\ AttemptLimit \in Nat /\ MaxFaults \in Nat
  /\ Prefetch \in Nat \ {0}
  /\ Clients \cap Keys = {} /\ Admins \cap Holders = {}
  /\ Cleanups \in Seq({Cleanups[i] : i \in 1 .. Len(Cleanups)}) /\ Cleanups # <<>>
  /\ JobService \in {Cleanups[i] : i \in 1 .. Len(Cleanups)}

VARIABLES
  docs,      \* docs[a]: the account's document (the last value set by each key), or Gone
  cache,     \* cache[a]: the copy under pk:<public key>, or Gone
  bucket,    \* bucket[a] \in {"none", "made", "ready"}
  commands,  \* commands[a]: job commands published for the account
  rows,      \* rows[s]: the account names under which service s holds rows
  updates,   \* updates[k]: the updates of key k, each [acc, val], as they are next
             \* delivered; val 0 lacks its part
  sent,      \* sent[k]: updates published with key k
  created,   \* created[a]: how its creation was answered
  deleted,   \* deleted[a]: how its last deletion was answered
  holders,   \* accounts whose keys have reached their holder
  token,     \* token[a]: what the valid token of the account carries, or Gone
  attempts,  \* attempts[a]: failed authentications of the last half hour, capped
  since,     \* since[a]: the documents a has had since no request was last in progress,
             \* with Gone when it had none then (history)
  proc,      \* proc[p]: where request or consumer p is
  faults     \* failed calls so far

stores == <<docs, cache, bucket, commands, rows>>
queues == <<updates, sent>>
answers == <<created, deleted>>
clients == <<holders, token, attempts>>
vars == <<stores, queues, answers, clients, since, proc, faults>>

Procs == Clients \cup Keys
Gone == <<>>
Fresh == [k \in Keys |-> 0]
Services == {Cleanups[i] : i \in 1 .. Len(Cleanups)}
\* The two names of an account: the string account_id the service gives it and the
\* _id the driver gives its document, which tokens carry and services key rows on.
PayloadName(a) == <<"account_id", a>>
TokenName(a) == <<"_id", a>>
Idle == [at |-> "idle", op |-> "none", acc |-> CHOOSE a \in Accounts : TRUE,
         seen |-> Gone, val |-> 0]

Init ==
  /\ docs = [a \in Accounts |-> Gone] /\ cache = [a \in Accounts |-> Gone]
  /\ bucket = [a \in Accounts |-> "none"] /\ commands = [a \in Accounts |-> 0]
  /\ rows = [s \in Services |-> {}]
  /\ updates = [k \in Keys |-> <<>>] /\ sent = [k \in Keys |-> 0]
  /\ created = [a \in Accounts |-> "no"] /\ deleted = [a \in Accounts |-> "no"]
  /\ holders = {} /\ token = [a \in Accounts |-> Gone]
  /\ attempts = [a \in Accounts |-> 0]
  /\ since = [a \in Accounts |-> {Gone}]
  /\ proc = [p \in Procs |-> Idle] /\ faults = 0

At(p, at) == proc[p].at = at
Acc(p) == proc[p].acc
Goto(p, at) == proc' = [proc EXCEPT ![p].at = at]
Begin(p, op, at, a) == proc' = [proc EXCEPT ![p] = [Idle EXCEPT !.op = op, !.at = at, !.acc = a]]
End(p) == proc' = [proc EXCEPT ![p] = Idle]
NoFault == UNCHANGED faults
Fault == faults < MaxFaults /\ faults' = faults + 1
\* A call that reports an error may have had its effect or not.
Maybe(f, a, new) == {f, [f EXCEPT ![a] = new]}
\* The documents become d, and what they are is remembered until the next pause.
Becomes(d) ==
  docs' = d /\ since' = [a \in Accounts |-> since[a] \cup ({d[a]} \ {Gone})]
KeepDocs == UNCHANGED <<docs, since>>
-------------------------------------------------------------------------------
(* Creation. *)

CreateRequest(p, a) ==
  /\ At(p, "idle") /\ created[a] = "no"
  /\ created' = [created EXCEPT ![a] = "asked"]
  /\ Begin(p, "create", "insert", a)
  /\ UNCHANGED <<stores, queues, deleted, clients, since, faults>>

InsertAccount(p) ==
  LET a == Acc(p) IN
  /\ At(p, "insert")
  /\ \/ /\ NoFault /\ Becomes([docs EXCEPT ![a] = Fresh])
        /\ Goto(p, "cache") /\ UNCHANGED created
     \/ /\ Fault /\ (KeepDocs \/ Becomes([docs EXCEPT ![a] = Fresh]))
        /\ End(p) /\ created' = [created EXCEPT ![a] = "failed"]
  /\ UNCHANGED <<cache, bucket, commands, rows, queues, deleted, clients>>

\* A cache write that fails has the document taken back.
CacheNewAccount(p) ==
  LET a == Acc(p) IN
  /\ At(p, "cache")
  /\ \/ NoFault /\ cache' = [cache EXCEPT ![a] = docs[a]] /\ Goto(p, "bucket")
     \/ Fault /\ cache' \in Maybe(cache, a, docs[a]) /\ Goto(p, "undo")
  /\ UNCHANGED <<docs, bucket, commands, rows, queues, answers, clients, since>>

\* That is a call of its own, whose failure nobody looks at.
TakeBack(p) ==
  LET a == Acc(p) IN
  /\ At(p, "undo")
  /\ \/ NoFault /\ Becomes([docs EXCEPT ![a] = Gone])
     \/ Fault /\ (KeepDocs \/ Becomes([docs EXCEPT ![a] = Gone]))
  /\ End(p) /\ created' = [created EXCEPT ![a] = "failed"]
  /\ UNCHANGED <<cache, bucket, commands, rows, queues, deleted, clients>>

CreateBucket(p) ==
  LET a == Acc(p) IN
  /\ At(p, "bucket")
  /\ \/ NoFault /\ bucket' = [bucket EXCEPT ![a] = "made"] /\ Goto(p, "configure")
     \/ Fault /\ bucket' \in Maybe(bucket, a, "made") /\ Goto(p, "find")
  /\ UNCHANGED <<docs, cache, commands, rows, queues, answers, clients, since>>

\* Mutant: a bucket that could not be configured is not rolled back.
ConfigureUnchecked(p) ==
  LET a == Acc(p) IN
  /\ At(p, "configure") /\ Goto(p, "email")
  /\ \/ NoFault /\ bucket' = [bucket EXCEPT ![a] = "ready"]
     \/ Fault /\ bucket' \in Maybe(bucket, a, "ready")
  /\ UNCHANGED <<docs, cache, commands, rows, queues, answers, clients, since>>

\* Four calls to S3; when one fails the account is rolled back, the bucket is not.
ConfigureBucket(p) ==
  LET a == Acc(p) IN
  /\ At(p, "configure")
  /\ \/ NoFault /\ bucket' = [bucket EXCEPT ![a] = "ready"] /\ Goto(p, "email")
     \/ Fault /\ bucket' \in Maybe(bucket, a, "ready") /\ Goto(p, "find")
  /\ UNCHANGED <<docs, cache, commands, rows, queues, answers, clients, since>>

\* The folders are made and the keys are mailed; neither failure is looked at.
EmailKeys(p) ==
  /\ At(p, "email")
  /\ \/ NoFault /\ holders' = holders \cup {Acc(p)}
     \/ Fault /\ UNCHANGED holders
  /\ Goto(p, "jobs")
  /\ UNCHANGED <<stores, queues, answers, token, attempts, since>>

\* The command of each job is published; the first that is refused ends the request.
PublishJob(p) ==
  LET a == Acc(p) IN
  /\ At(p, "jobs")
  /\ \/ /\ commands[a] < Jobs /\ NoFault
        /\ commands' = [commands EXCEPT ![a] = @ + 1]
        /\ UNCHANGED <<proc, created, holders>>
     \/ /\ commands[a] < Jobs /\ Fault
        /\ commands' \in Maybe(commands, a, commands[a] + 1)
        /\ End(p) /\ created' = [created EXCEPT ![a] = "partial"] /\ UNCHANGED holders
     \/ /\ commands[a] = Jobs /\ NoFault
        /\ End(p) /\ created' = [created EXCEPT ![a] = "ok"]
        /\ holders' = holders \cup {a} /\ UNCHANGED commands
  /\ UNCHANGED <<docs, cache, bucket, rows, queues, deleted, token, attempts, since>>
-------------------------------------------------------------------------------
(* Deletion.  "find", "uncache" and "remove" are the repository's deletion, *)
(* which the rollback of a creation uses too and whose errors it ignores.   *)

DeleteRequest(p, a) ==
  /\ At(p, "idle") /\ created[a] \notin {"no", "asked"}
  /\ Begin(p, "delete", "lookup", a)
  /\ UNCHANGED <<stores, queues, answers, clients, since, faults>>

Answer(p, result) ==
  /\ End(p)
  /\ IF proc[p].op = "create"
     THEN created' = [created EXCEPT ![Acc(p)] = "rolledback"] /\ UNCHANGED deleted
     ELSE deleted' = [deleted EXCEPT ![Acc(p)] = result] /\ UNCHANGED created

LookUp(p) ==
  /\ At(p, "lookup")
  /\ \/ NoFault /\ docs[Acc(p)] # Gone /\ Goto(p, "drop") /\ UNCHANGED answers
     \/ NoFault /\ docs[Acc(p)] = Gone /\ Answer(p, "unknown")
     \/ Fault /\ Answer(p, "failed")
  /\ UNCHANGED <<stores, queues, clients, since>>

\* A bucket that is not there cannot be deleted either: the request fails.
DropBucket(p) ==
  LET a == Acc(p) IN
  /\ At(p, "drop")
  /\ \/ /\ bucket[a] # "none" /\ NoFault
        /\ bucket' = [bucket EXCEPT ![a] = "none"] /\ Goto(p, "find") /\ UNCHANGED answers
     \/ bucket[a] = "none" /\ NoFault /\ Answer(p, "failed") /\ UNCHANGED bucket
     \/ Fault /\ bucket' \in Maybe(bucket, a, "none") /\ Answer(p, "failed")
  /\ UNCHANGED <<docs, cache, commands, rows, queues, clients, since>>

\* After the repository's deletion: the answer of a rollback, or the fan-out.
Removed(p) ==
  IF proc[p].op = "create" THEN Answer(p, "failed")
  ELSE proc' = [proc EXCEPT ![p].at = "fanout", ![p].val = 1] /\ UNCHANGED answers

FindAccount(p) ==
  /\ At(p, "find")
  /\ \/ NoFault /\ docs[Acc(p)] # Gone /\ Goto(p, "uncache") /\ UNCHANGED answers
     \/ NoFault /\ docs[Acc(p)] = Gone /\ Removed(p)
     \/ Fault /\ Answer(p, "failed")
  /\ UNCHANGED <<stores, queues, clients, since>>

DeleteCachedAccount(p) ==
  LET a == Acc(p) IN
  /\ At(p, "uncache")
  /\ \/ NoFault /\ cache' = [cache EXCEPT ![a] = Gone] /\ Goto(p, "remove") /\ UNCHANGED answers
     \/ Fault /\ cache' \in Maybe(cache, a, Gone) /\ Answer(p, "failed")
  /\ UNCHANGED <<docs, bucket, commands, rows, queues, clients, since>>

RemoveAccount(p) ==
  LET a == Acc(p) IN
  /\ At(p, "remove")
  /\ \/ NoFault /\ Becomes([docs EXCEPT ![a] = Gone]) /\ Removed(p)
     \/ Fault /\ (KeepDocs \/ Becomes([docs EXCEPT ![a] = Gone])) /\ Answer(p, "failed")
  /\ UNCHANGED <<cache, bucket, commands, rows, queues, clients>>

\* Up to five immediate attempts.  Any status but 500, 502 and 504 is taken for done,
\* a refusal too; an attempt that reports an error may have been carried out.
PostWithRetry(s, name, done) ==
  \/ done /\ NoFault /\ rows' = [rows EXCEPT ![s] = @ \ {name}]
  \/ done /\ Fault /\ UNCHANGED rows
  \/ ~done /\ Fault /\ rows' \in Maybe(rows, s, rows[s] \ {name})

\* The first service that cannot be reached ends the request: the rest is never asked.
FanOut(p) ==
  LET a == Acc(p)  i == proc[p].val  s == Cleanups[i] IN
  /\ At(p, "fanout")
  /\ \/ /\ PostWithRetry(s, PayloadName(a), TRUE)
        /\ IF i = Len(Cleanups) THEN Answer(p, "ok")
           ELSE proc' = [proc EXCEPT ![p].val = i + 1] /\ UNCHANGED answers
     \/ PostWithRetry(s, PayloadName(a), FALSE) /\ Answer(p, "failed")
  /\ UNCHANGED <<docs, cache, bucket, commands, queues, clients, since>>
-------------------------------------------------------------------------------
(* Authentication: the cache is written again from the document, then asked. *)

AuthRequest(p, a) ==
  /\ At(p, "idle") /\ a \in holders
  /\ Begin(p, "auth", "refresh", a)
  /\ UNCHANGED <<stores, queues, answers, clients, since, faults>>

\* Mutant: a copy that is there is not written again.
RefreshMissingOnly(p) ==
  LET a == Acc(p) IN
  /\ \/ At(p, "refresh") /\ NoFault /\ docs[a] # Gone /\ cache[a] = Gone /\ UNCHANGED cache
        /\ proc' = [proc EXCEPT ![p].at = "store", ![p].seen = docs[a]]
     \/ /\ At(p, "refresh") /\ NoFault /\ (docs[a] = Gone \/ cache[a] # Gone)
        /\ UNCHANGED cache /\ Goto(p, "verify")
     \/ At(p, "store") /\ NoFault /\ cache' = [cache EXCEPT ![a] = proc[p].seen]
        /\ Goto(p, "verify")
  /\ proc[p].op = "auth"
  /\ UNCHANGED <<docs, bucket, commands, rows, queues, answers, clients, since>>

RefreshAccountDataCache(p) ==
  LET a == Acc(p) IN
  /\ \/ At(p, "refresh") /\ NoFault /\ docs[a] # Gone /\ UNCHANGED cache
        /\ proc' = [proc EXCEPT ![p].at = "store", ![p].seen = docs[a]]
     \/ At(p, "refresh") /\ NoFault /\ docs[a] = Gone /\ UNCHANGED cache /\ Goto(p, "verify")
     \/ At(p, "refresh") /\ Fault /\ UNCHANGED cache /\ End(p)
     \/ At(p, "store") /\ NoFault /\ cache' = [cache EXCEPT ![a] = proc[p].seen]
        /\ Goto(p, "verify")
     \/ At(p, "store") /\ Fault /\ cache' \in Maybe(cache, a, proc[p].seen) /\ End(p)
  /\ proc[p].op = "auth"
  /\ UNCHANGED <<docs, bucket, commands, rows, queues, answers, clients, since>>

\* The keys are verified against the cached copy; the token carries that copy.
VerifyAccountKeys(p) ==
  LET a == Acc(p) IN
  /\ At(p, "verify")
  /\ \/ /\ NoFault /\ cache[a] # Gone
        /\ token' = [token EXCEPT ![a] = cache[a]] /\ End(p)
     \/ NoFault /\ cache[a] = Gone /\ UNCHANGED token /\ End(p)
     \/ NoFault /\ cache[a] # Gone /\ UNCHANGED token /\ Goto(p, "log")
     \/ Fault /\ UNCHANGED token /\ End(p)
  /\ UNCHANGED <<stores, queues, answers, holders, attempts, since>>

\* A wrong secret key is recorded and, past the limit, the holder is warned; a record
\* that cannot be written warns nobody.
LogFailedAuth(p) ==
  LET a == Acc(p) IN
  /\ At(p, "log")
  /\ \/ NoFault /\ attempts' = [attempts EXCEPT ![a] = IF @ > AttemptLimit THEN @ ELSE @ + 1]
     \/ Fault /\ UNCHANGED attempts
  /\ End(p)
  /\ UNCHANGED <<stores, queues, answers, holders, token, since>>
-------------------------------------------------------------------------------
(* Updates: one queue and one consumer per routing key.  A delivery that is    *)
(* not answered as done is put back, but those the broker had already handed   *)
(* over behind it come first: a later update may overtake an earlier one.      *)

\* The first message of q in place j, those it had before it moved up.
Behind(q, j) ==
  [i \in 1 .. Len(q) |-> IF i < j THEN q[i + 1] ELSE IF i = j THEN q[1] ELSE q[i]]
Requeue(k) ==
  \E j \in 1 .. Len(updates[k]) :
    j <= Prefetch /\ updates' = [updates EXCEPT ![k] = Behind(@, j)]

\* The configuration service publishes for the account a valid token names.
PublishUpdate(k, a, wellFormed) ==
  /\ token[a] # Gone /\ sent[k] < MaxUpdates
  /\ sent' = [sent EXCEPT ![k] = @ + 1]
  /\ updates' = [updates EXCEPT ![k] =
                   Append(@, [acc |-> a, val |-> IF wellFormed THEN sent[k] + 1 ELSE 0])]
  /\ UNCHANGED <<stores, answers, clients, since, proc, faults>>

\* A message without the part its key asks for is rejected for good.
TakeUpdate(k) ==
  /\ At(k, "idle") /\ updates[k] # <<>>
  /\ LET m == Head(updates[k]) IN
     \/ m.val = 0 /\ updates' = [updates EXCEPT ![k] = Tail(@)] /\ UNCHANGED proc
     \/ /\ m.val # 0 /\ UNCHANGED updates
        /\ proc' = [proc EXCEPT ![k] = [Idle EXCEPT !.op = "update", !.at = "apply",
                                                    !.acc = m.acc, !.val = m.val]]
  /\ UNCHANGED <<stores, sent, answers, clients, since, faults>>

\* Mutant: the update inserts a document that is not there.
AppliedUpserts(a, k, v) ==
  [docs EXCEPT ![a] = [(IF @ = Gone THEN Fresh ELSE @) EXCEPT ![k] = v]]

\* update_one changes a document that is there and creates none.
Applied(a, k, v) == IF docs[a] = Gone THEN docs ELSE [docs EXCEPT ![a][k] = v]

ApplyUpdate(k) ==
  LET a == Acc(k) IN
  /\ At(k, "apply")
  /\ \/ /\ NoFault /\ Becomes(Applied(a, k, proc[k].val))
        /\ Goto(k, "reread") /\ UNCHANGED updates
     \/ /\ Fault /\ (KeepDocs \/ Becomes(Applied(a, k, proc[k].val)))
        /\ End(k) /\ Requeue(k)
  /\ UNCHANGED <<cache, bucket, commands, rows, sent, answers, clients>>

\* The document that was updated and the copy whose usage it keeps must both be there.
ReadUpdated(k) ==
  LET a == Acc(k) IN
  /\ \/ /\ At(k, "reread") /\ NoFault /\ docs[a] # Gone /\ UNCHANGED updates
        /\ proc' = [proc EXCEPT ![k].at = "usage", ![k].seen = docs[a]]
     \/ /\ At(k, "reread") /\ (IF docs[a] = Gone THEN NoFault ELSE Fault)
        /\ End(k) /\ Requeue(k)
     \/ At(k, "usage") /\ NoFault /\ cache[a] # Gone /\ Goto(k, "store") /\ UNCHANGED updates
     \/ /\ At(k, "usage") /\ (IF cache[a] = Gone THEN NoFault ELSE Fault)
        /\ End(k) /\ Requeue(k)
  /\ UNCHANGED <<stores, sent, answers, clients, since>>

\* Mutant: the update is stored and the delivery answered with an error.
StoreUnacknowledged(k) ==
  /\ At(k, "store") /\ NoFault
  /\ cache' = [cache EXCEPT ![Acc(k)] = proc[k].seen] /\ End(k)
  /\ UNCHANGED <<docs, bucket, commands, rows, queues, answers, clients, since>>

StoreUpdated(k) ==
  LET a == Acc(k) IN
  /\ At(k, "store")
  /\ \/ /\ NoFault /\ cache' = [cache EXCEPT ![a] = proc[k].seen]
        /\ updates' = [updates EXCEPT ![k] = Tail(@)]
     \/ Fault /\ cache' \in Maybe(cache, a, proc[k].seen) /\ Requeue(k)
  /\ End(k)
  /\ UNCHANGED <<docs, bucket, commands, rows, sent, answers, clients, since>>
-------------------------------------------------------------------------------
(* The rest of the system, and time. *)

\* A service stores rows for the account of a token it decoded.
ServiceWrites(s, a) ==
  /\ s # JobService /\ token[a] # Gone /\ TokenName(a) \notin rows[s]
  /\ rows' = [rows EXCEPT ![s] = @ \cup {TokenName(a)}]
  /\ UNCHANGED <<docs, cache, bucket, commands, queues, answers, clients, since, proc, faults>>

\* The job service takes a command, however late: it keeps the name of the payload.
JobServiceTakes(a) ==
  /\ commands[a] > 0 /\ PayloadName(a) \notin rows[JobService]
  /\ rows' = [rows EXCEPT ![JobService] = @ \cup {PayloadName(a)}]
  /\ UNCHANGED <<docs, cache, bucket, commands, queues, answers, clients, since, proc, faults>>

\* The hour of a token, or the half hour of failed attempts, is over.
Expire(a) ==
  /\ \/ token[a] # Gone /\ token' = [token EXCEPT ![a] = Gone] /\ UNCHANGED attempts
     \/ attempts[a] > 0 /\ attempts' = [attempts EXCEPT ![a] = 0] /\ UNCHANGED token
  /\ UNCHANGED <<stores, queues, answers, holders, since, proc, faults>>

\* An instance dies, or its client hangs up, between two calls.
CutOff(p) ==
  /\ ~At(p, "idle") /\ Fault /\ End(p)
  /\ created' = IF proc[p].op = "create" THEN [created EXCEPT ![Acc(p)] = "failed"] ELSE created
  /\ deleted' = IF proc[p].op = "delete" THEN [deleted EXCEPT ![Acc(p)] = "failed"] ELSE deleted
  /\ IF p \in Keys THEN Requeue(p) ELSE UNCHANGED updates
  /\ UNCHANGED <<stores, sent, clients, since>>

\* History: nothing is in progress, and what is remembered starts again.
Quiet ==
  /\ \A p \in Procs : At(p, "idle")
  /\ since # [a \in Accounts |-> {docs[a]}] /\ since' = [a \in Accounts |-> {docs[a]}]
  /\ UNCHANGED <<stores, queues, answers, clients, proc, faults>>

Handle(p) ==
  \/ InsertAccount(p) \/ CacheNewAccount(p) \/ TakeBack(p)
  \/ CreateBucket(p) \/ ConfigureBucket(p) \/ EmailKeys(p) \/ PublishJob(p)
  \/ LookUp(p) \/ DropBucket(p) \/ FindAccount(p) \/ DeleteCachedAccount(p)
  \/ RemoveAccount(p) \/ FanOut(p)
  \/ RefreshAccountDataCache(p) \/ VerifyAccountKeys(p) \/ LogFailedAuth(p)

Consume(k) == TakeUpdate(k) \/ ApplyUpdate(k) \/ ReadUpdated(k) \/ StoreUpdated(k)

Next ==
  \/ \E p \in Clients : Handle(p)
  \/ \E k \in Keys : Consume(k)
  \/ \E p \in Procs : CutOff(p)
  \/ \E p \in Admins, a \in Accounts : CreateRequest(p, a) \/ DeleteRequest(p, a)
  \/ \E p \in Holders, a \in Accounts : AuthRequest(p, a)
  \/ \E k \in Keys, a \in Accounts, w \in BOOLEAN : PublishUpdate(k, a, w)
  \/ \E s \in Services, a \in Accounts : ServiceWrites(s, a)
  \/ \E a \in Accounts : JobServiceTakes(a) \/ Expire(a)
  \/ Quiet

Spec == Init /\ [][Next]_vars
FairSpec == Spec /\ \A k \in Keys : WF_vars(Consume(k))
-------------------------------------------------------------------------------
(* Properties. *)

\* What the answer of a creation promises holds until somebody asks for the deletion
\* of the account: "ok" means a document, a copy of it, a configured bucket and every
\* job command; and when the bucket was the one call that failed, nothing is left
\* behind that could be authenticated against.
CreationAnswered ==
  \A a \in Accounts :
    /\ created[a] = "ok" /\ deleted[a] = "no" /\ (\A p \in Clients : proc[p].op # "delete")
         => docs[a] # Gone /\ cache[a] # Gone /\ bucket[a] = "ready" /\ commands[a] = Jobs
    /\ created[a] = "rolledback" /\ faults <= 1 => docs[a] = Gone /\ cache[a] = Gone

\* An account that a deletion reported gone is gone for good, however late an update
\* or a second deletion is; and its bucket went before its document.
DeletedForGood ==
  \A a \in Accounts :
    /\ deleted[a] \in {"ok", "unknown"} => docs[a] = Gone
    /\ docs[a] = Gone /\ created[a] \in {"ok", "partial"} => bucket[a] = "none"

\* A token carries the account as it was when nothing was last in progress, or as it
\* has been stored since: a slow request, or an update that was overtaken, may put an
\* older copy back into the cache, but none from before the last pause.
TokenSinceLastPause ==
  [][\A a \in Accounts :
       token'[a] \notin {token[a], Gone} /\ Gone \notin since[a] => token'[a] \in since[a]]_vars

\* An update of an account whose document and copy stay is applied and acknowledged:
\* it is not redelivered for ever.
UpdatesSettle ==
  \A k \in Keys : updates[k] # <<>> ~>
    (updates[k] = <<>> \/ \E a \in Accounts : docs[a] = Gone \/ cache[a] = Gone)
===============================================================================
