---------------------------- MODULE AccountsProofs ----------------------------
(* A deletion of an account is final: for any accounts, clients, updates,      *)
(* services and faults.                                                        *)
EXTENDS Accounts, TLAPS

Fields == [Keys -> Nat]
Docs == Fields \cup {Gone}
Messages == [acc : Accounts, val : Nat]

Provisioning == {"cache", "undo", "bucket", "configure", "email", "jobs"}
Removing == {"find", "uncache", "remove"}
Places == {"idle", "insert"} \cup Provisioning \cup Removing
             \cup {"lookup", "drop", "fanout"} \cup {"refresh", "store", "verify", "log"}
             \cup {"apply", "reread", "usage"}
Ops == {"none", "create", "delete", "auth", "update"}
Requests == [at : Places, op : Ops, acc : Accounts, seen : Docs, val : Nat]
ProcType == proc \in [Procs -> Requests]

Results == {"no", "asked", "ok", "partial", "failed", "rolledback", "unknown"}
StoreType ==
  /\ docs \in [Accounts -> Docs] /\ cache \in [Accounts -> Docs]
  /\ bucket \in [Accounts -> {"none", "made", "ready"}]
  /\ created \in [Accounts -> Results] /\ deleted \in [Accounts -> Results]
  /\ sent \in [Keys -> Nat] /\ updates \in [Keys -> Seq(Messages)]
\* A consumer only updates, and at work it has its message at the head of the queue.
InHand ==
  \A k \in Keys : /\ proc[k].op \in {"none", "update"}
                  /\ proc[k].at # "idle" => updates[k] # <<>>
Types == ProcType /\ StoreType /\ InHand

\* A creation in progress has not been answered, and no account has two of them.
Creating ==
  \A p \in Clients : proc[p].op = "create" =>
    /\ created[proc[p].acc] = "asked"
    /\ \A q \in Clients : proc[q].op = "create" /\ proc[q].acc = proc[p].acc => q = p

\* Only what has been answered is deleted.
Deleting ==
  /\ \A p \in Clients : proc[p].op = "delete" => created[proc[p].acc] \notin {"no", "asked"}
  /\ \A a \in Accounts : deleted[a] # "no" => created[a] \notin {"no", "asked"}

\* Which request can be where.
Stages ==
  \A p \in Clients :
    /\ proc[p].at \in Provisioning \cup {"insert"} => proc[p].op = "create"
    /\ proc[p].at \in {"lookup", "drop", "fanout"} => proc[p].op = "delete"
    /\ proc[p].at \in Removing => proc[p].op \in {"create", "delete"}

\* While an account is provisioned its document is there.
HasDocument ==
  \A p \in Clients : proc[p].at \in Provisioning => docs[proc[p].acc] # Gone

\* A deletion is past the bucket when it reaches the document, and past the document
\* when it reaches the other services.
InOrder ==
  \A p \in Clients : proc[p].op = "delete" =>
    /\ proc[p].at \in Removing => bucket[proc[p].acc] = "none"
    /\ proc[p].at = "fanout" => docs[proc[p].acc] = Gone

StageInv == Creating /\ Deleting /\ Stages /\ HasDocument /\ InOrder /\ DeletedForGood
DeletionInv == Types /\ StageInv

-----------------------------------------------------------------------------
(* What the operators of the model return. *)

\* A document is a function on the keys, and there is a key: it is not Gone.
LEMMA DocumentsExist == Fresh \in Fields /\ \A f \in Fields : f # Gone
<1>1. Fresh \in Fields BY DEF Fresh, Fields
<1>2. DOMAIN Gone = {} BY DEF Gone
<1>3. ASSUME NEW f \in Fields PROVE DOMAIN f # {} BY AccountsAssumption DEF Fields
<1> QED BY <1>1, <1>2, <1>3

\* Requests and consumers are different processes.
LEMMA ProcsAre ==
  /\ Clients \subseteq Procs /\ Keys \subseteq Procs /\ Clients \cap Keys = {}
  /\ Admins \subseteq Clients /\ Holders \subseteq Clients
BY AccountsAssumption DEF Procs, Clients

\* An idle process is a request of its own kind.
LEMMA IdleIs == Idle \in Requests /\ Idle.at = "idle" /\ Idle.op = "none"
<1>1. (CHOOSE a \in Accounts : TRUE) \in Accounts BY AccountsAssumption
<1>2. Gone \in Docs BY DEF Docs
<1>3. \A a \in Accounts, d \in Docs :
        [at |-> "idle", op |-> "none", acc |-> a, seen |-> d, val |-> 0] \in Requests
  BY DEF Requests, Places, Ops
<1> QED BY <1>1, <1>2, <1>3 DEF Idle

\* An update that is applied leaves documents that are there, there.
LEMMA AppliedKeeps ==
  ASSUME Types, NEW a \in Accounts, NEW k \in Keys, NEW v \in Nat
  PROVE /\ Applied(a, k, v) \in [Accounts -> Docs]
        /\ \A b \in Accounts : Applied(a, k, v)[b] = Gone <=> docs[b] = Gone
<1>1. CASE docs[a] = Gone BY <1>1 DEF Types, StoreType, Applied
<1>2. CASE docs[a] # Gone
  <2>1. docs[a] \in Fields BY <1>2 DEF Types, StoreType, Docs
  <2>2. [docs[a] EXCEPT ![k] = v] \in Fields BY <2>1 DEF Fields
  <2>3. Applied(a, k, v) = [docs EXCEPT ![a] = [docs[a] EXCEPT ![k] = v]] BY <1>2 DEF Applied
  <2> QED BY <2>1, <2>2, <2>3, DocumentsExist DEF Types, StoreType, Docs
<1> QED BY <1>1, <1>2

\* A message put back behind others loses none of them.
LEMMA BehindKeeps ==
  ASSUME NEW S, NEW q \in Seq(S), NEW j \in 1 .. Len(q)
  PROVE Behind(q, j) \in Seq(S) /\ Behind(q, j) # <<>>
<1>1. Len(q) \in Nat /\ 1 \in 1 .. Len(q) /\ \A i \in 1 .. Len(q) : q[i] \in S OBVIOUS
<1>2. \A i \in 1 .. Len(q) : i < j => i + 1 \in 1 .. Len(q) BY <1>1
<1>3. Behind(q, j) \in [1 .. Len(q) -> S] BY <1>1, <1>2 DEF Behind
<1>4. Behind(q, j) \in Seq(S) BY <1>1, <1>3
<1>5. DOMAIN Behind(q, j) = 1 .. Len(q) /\ DOMAIN <<>> = {} BY DEF Behind
<1> QED BY <1>1, <1>4, <1>5

\* A delivery that is put back: the queue keeps its messages and is not empty.
LEMMA RequeueKeeps ==
  ASSUME NEW S, updates \in [Keys -> Seq(S)], NEW k \in Keys, Requeue(k)
  PROVE /\ updates' \in [Keys -> Seq(S)]
        /\ \A i \in Keys : updates[i] # <<>> => updates'[i] # <<>>
<1>1. PICK j \in 1 .. Len(updates[k]) : updates' = [updates EXCEPT ![k] = Behind(updates[k], j)]
  BY DEF Requeue
<1>2. Behind(updates[k], j) \in Seq(S) /\ Behind(updates[k], j) # <<>> BY BehindKeeps
<1> QED BY <1>1, <1>2

-----------------------------------------------------------------------------
(* Types. *)

\* What a request or a consumer becomes is a request again.
LEMMA RequestMoves ==
  ASSUME ProcType, NEW p \in Procs
  PROVE /\ proc[p] \in Requests
        /\ \A x \in Places : Goto(p, x) => ProcType'
        /\ End(p) => ProcType'
        /\ \A x \in Places, o \in Ops, a \in Accounts : Begin(p, o, x, a) => ProcType'
        /\ \A x \in Places, d \in Docs : proc' = [proc EXCEPT ![p].at = x, ![p].seen = d] => ProcType'
        /\ \A x \in Places, v \in Nat : proc' = [proc EXCEPT ![p].at = x, ![p].val = v] => ProcType'
        /\ \A v \in Nat : proc' = [proc EXCEPT ![p].val = v] => ProcType'
<1>1. proc \in [Procs -> Requests] /\ proc[p] \in Requests BY DEF ProcType
<1>2. \A r \in Requests : proc' = [proc EXCEPT ![p] = r] => ProcType' BY <1>1 DEF ProcType
<1>3. /\ \A x \in Places : [proc[p] EXCEPT !.at = x] \in Requests
      /\ \A x \in Places, d \in Docs : [proc[p] EXCEPT !.at = x, !.seen = d] \in Requests
      /\ \A x \in Places, v \in Nat : [proc[p] EXCEPT !.at = x, !.val = v] \in Requests
      /\ \A v \in Nat : [proc[p] EXCEPT !.val = v] \in Requests
      /\ \A x \in Places, o \in Ops, a \in Accounts :
            [Idle EXCEPT !.op = o, !.at = x, !.acc = a] \in Requests
  BY <1>1, IdleIs, ProcsAre DEF Requests
<1>4. \A x \in Places : Goto(p, x) => ProcType' BY <1>1, <1>2, <1>3 DEF Goto
<1>5. End(p) => ProcType' BY <1>2, IdleIs, ProcsAre DEF End
<1>6. \A x \in Places, o \in Ops, a \in Accounts : Begin(p, o, x, a) => ProcType'
  BY <1>2, <1>3 DEF Begin
<1>7. \A x \in Places, d \in Docs : proc' = [proc EXCEPT ![p].at = x, ![p].seen = d] => ProcType'
  <2> SUFFICES ASSUME NEW x \in Places, NEW d \in Docs,
                      proc' = [proc EXCEPT ![p].at = x, ![p].seen = d]
               PROVE  ProcType'
    OBVIOUS
  <2>1. proc' = [proc EXCEPT ![p] = [proc[p] EXCEPT !.at = x, !.seen = d]] BY <1>1 DEF Requests
  <2> QED BY <1>2, <1>3, <2>1
<1>8. \A x \in Places, v \in Nat : proc' = [proc EXCEPT ![p].at = x, ![p].val = v] => ProcType'
  <2> SUFFICES ASSUME NEW x \in Places, NEW v \in Nat,
                      proc' = [proc EXCEPT ![p].at = x, ![p].val = v]
               PROVE  ProcType'
    OBVIOUS
  <2>1. proc' = [proc EXCEPT ![p] = [proc[p] EXCEPT !.at = x, !.val = v]] BY <1>1 DEF Requests
  <2> QED BY <1>2, <1>3, <2>1
<1>9. \A v \in Nat : proc' = [proc EXCEPT ![p].val = v] => ProcType' BY <1>1, <1>2, <1>3
<1> QED BY <1>1, <1>4, <1>5, <1>6, <1>7, <1>8, <1>9

\* A step of a client's request changes no other process and no queue.
LEMMA HandleTouchesOne ==
  ASSUME ProcType, NEW p \in Clients, Handle(p)
  PROVE updates' = updates /\ sent' = sent /\ \A q \in Procs : q # p => proc'[q] = proc[q]
<1> USE DEF ProcType, Goto, End, Answer, Removed, queues
<1>1. CASE InsertAccount(p) BY <1>1 DEF InsertAccount
<1>2. CASE CacheNewAccount(p) BY <1>2 DEF CacheNewAccount
<1>3. CASE CreateBucket(p) BY <1>3 DEF CreateBucket
<1>4. CASE ConfigureBucket(p) BY <1>4 DEF ConfigureBucket
<1>5. CASE EmailKeys(p) BY <1>5 DEF EmailKeys
<1>6. CASE PublishJob(p) BY <1>6 DEF PublishJob
<1>7. CASE LookUp(p) BY <1>7 DEF LookUp
<1>8. CASE DropBucket(p) BY <1>8 DEF DropBucket
<1>9. CASE FindAccount(p) BY <1>9 DEF FindAccount
<1>10. CASE DeleteCachedAccount(p) BY <1>10 DEF DeleteCachedAccount
<1>11. CASE RemoveAccount(p) BY <1>11 DEF RemoveAccount
<1>12. CASE FanOut(p) BY <1>12 DEF FanOut
<1>13. CASE RefreshAccountDataCache(p) BY <1>13 DEF RefreshAccountDataCache
<1>14. CASE VerifyAccountKeys(p) BY <1>14 DEF VerifyAccountKeys
<1>15. CASE LogFailedAuth(p) BY <1>15 DEF LogFailedAuth
<1>16. CASE TakeBack(p) BY <1>16 DEF TakeBack
<1> QED
  BY <1>1, <1>2, <1>3, <1>4, <1>5, <1>6, <1>7, <1>8, <1>9, <1>10, <1>11, <1>12, <1>13, <1>14, <1>15,
     <1>16 DEF Handle

\* A step of a client's request keeps the types.
LEMMA HandleKeepsTypes ==
  ASSUME Types, NEW p \in Clients, Handle(p)
  PROVE Types'
<1> USE DEF Types, At, Acc, NoFault, Fault, Maybe, Becomes, KeepDocs, stores, queues, answers, clients
<1>0. /\ p \in Procs /\ p \notin Keys
      /\ proc[p].acc \in Accounts /\ proc[p].seen \in Docs /\ proc[p].val \in Nat
      /\ Fresh \in Docs /\ Gone \in Docs
  BY ProcsAre, RequestMoves, DocumentsExist DEF Requests, Docs
<1>p. /\ \A x \in Places : Goto(p, x) => ProcType'
      /\ End(p) => ProcType'
      /\ \A v \in Nat : proc' = [proc EXCEPT ![p].at = "fanout", ![p].val = v] => ProcType'
      /\ \A v \in Nat : proc' = [proc EXCEPT ![p].val = v] => ProcType'
      /\ proc' = proc => ProcType'
  BY <1>0, RequestMoves DEF ProcType, Places
<1>r. /\ \A r : Answer(p, r) => ProcType'
      /\ Removed(p) => ProcType'
  BY <1>p DEF Answer, Removed
<1>h. InHand' BY <1>0, HandleTouchesOne, ProcsAre DEF InHand
<1>1. CASE InsertAccount(p)
  <2>1. ProcType' BY <1>1, <1>p, <1>r DEF InsertAccount, Places, Provisioning, Removing
  <2>2. StoreType' BY ZenonT(30), <1>1, <1>0 DEF StoreType, InsertAccount, Answer, Results
  <2> QED BY <1>h, <2>1, <2>2
<1>2. CASE CacheNewAccount(p)
  <2>1. ProcType' BY <1>2, <1>p, <1>r DEF CacheNewAccount, Places, Provisioning, Removing
  <2>2. StoreType' BY SMTT(30), <1>2, <1>0 DEF StoreType, CacheNewAccount, Answer, Results
  <2> QED BY <1>h, <2>1, <2>2
<1>3. CASE CreateBucket(p)
  <2>1. ProcType' BY <1>3, <1>p, <1>r DEF CreateBucket, Places, Provisioning, Removing
  <2>2. StoreType' BY <1>3, <1>0 DEF StoreType, CreateBucket, Answer, Results
  <2> QED BY <1>h, <2>1, <2>2
<1>4. CASE ConfigureBucket(p)
  <2>1. ProcType' BY <1>4, <1>p, <1>r DEF ConfigureBucket, Places, Provisioning, Removing
  <2>2. StoreType' BY <1>4, <1>0 DEF StoreType, ConfigureBucket, Answer, Results
  <2> QED BY <1>h, <2>1, <2>2
<1>5. CASE EmailKeys(p)
  <2>1. ProcType' BY <1>5, <1>p, <1>r DEF EmailKeys, Places, Provisioning, Removing
  <2>2. StoreType' BY <1>5, <1>0 DEF StoreType, EmailKeys, Answer, Results
  <2> QED BY <1>h, <2>1, <2>2
<1>6. CASE PublishJob(p)
  <2>1. ProcType' BY <1>6, <1>p, <1>r DEF PublishJob, Places, Provisioning, Removing
  <2>2. StoreType' BY <1>6, <1>0 DEF StoreType, PublishJob, Answer, Results
  <2> QED BY <1>h, <2>1, <2>2
<1>7. CASE LookUp(p)
  <2>1. ProcType' BY <1>7, <1>p, <1>r DEF LookUp, Places, Provisioning, Removing
  <2>2. StoreType' BY <1>7, <1>0 DEF StoreType, LookUp, Answer, Results
  <2> QED BY <1>h, <2>1, <2>2
<1>8. CASE DropBucket(p)
  <2>1. ProcType' BY <1>8, <1>p, <1>r DEF DropBucket, Places, Provisioning, Removing
  <2>2. StoreType' BY <1>8, <1>0 DEF StoreType, DropBucket, Answer, Results
  <2> QED BY <1>h, <2>1, <2>2
<1>9. CASE FindAccount(p)
  <2>1. ProcType' BY <1>9, <1>p, <1>r DEF FindAccount, Places, Removing
  <2>2. StoreType' BY <1>9, <1>0 DEF StoreType, FindAccount, Answer, Removed, Results
  <2> QED BY <1>h, <2>1, <2>2
<1>10. CASE DeleteCachedAccount(p)
  <2>1. ProcType' BY <1>10, <1>p, <1>r DEF DeleteCachedAccount, Places, Provisioning, Removing
  <2>2. StoreType' BY ZenonT(30), <1>10, <1>0 DEF StoreType, DeleteCachedAccount, Answer, Results
  <2> QED BY <1>h, <2>1, <2>2
<1>11. CASE RemoveAccount(p)
  <2>1. ProcType' BY <1>11, <1>p, <1>r DEF RemoveAccount, Places
  <2>2. StoreType' BY ZenonT(30), <1>11, <1>0 DEF StoreType, RemoveAccount, Answer, Removed, Results
  <2> QED BY <1>h, <2>1, <2>2
<1>12. CASE FanOut(p)
  <2>1. ProcType' BY <1>12, <1>0, <1>p, <1>r DEF FanOut, PostWithRetry
  <2>2. StoreType' BY <1>12, <1>0 DEF StoreType, FanOut, PostWithRetry, Answer, Removed, Results
  <2> QED BY <1>h, <2>1, <2>2
<1>13. CASE RefreshAccountDataCache(p)
  <2>1. docs[proc[p].acc] \in Docs BY <1>0 DEF StoreType
  <2>2. ProcType' BY <1>13, <1>0, <1>p, <2>1, RequestMoves DEF RefreshAccountDataCache, Places
  <2>3. StoreType' BY <1>13, <1>0 DEF StoreType, RefreshAccountDataCache
  <2> QED BY <1>h, <2>2, <2>3
<1>14. CASE VerifyAccountKeys(p)
  <2>1. ProcType' BY <1>14, <1>p, <1>r DEF VerifyAccountKeys, Places, Provisioning, Removing
  <2>2. StoreType' BY <1>14, <1>0 DEF StoreType, VerifyAccountKeys, Answer, Results
  <2> QED BY <1>h, <2>1, <2>2
<1>15. CASE LogFailedAuth(p)
  <2>1. ProcType' BY <1>15, <1>p, <1>r DEF LogFailedAuth, Places, Provisioning, Removing
  <2>2. StoreType' BY <1>15, <1>0 DEF StoreType, LogFailedAuth, Answer, Results
  <2> QED BY <1>h, <2>1, <2>2
<1>16. CASE TakeBack(p)
  <2>1. ProcType' BY <1>16, <1>p DEF TakeBack
  <2>2. StoreType' BY <1>16, <1>0 DEF StoreType, TakeBack, Results, Becomes, KeepDocs
  <2> QED BY <1>h, <2>1, <2>2
<1> QED
  BY <1>1, <1>2, <1>3, <1>4, <1>5, <1>6, <1>7, <1>8, <1>9, <1>10, <1>11, <1>12, <1>13, <1>14, <1>15,
     <1>16 DEF Handle

\* A step of the consumer of a queue keeps the types.
LEMMA ConsumeKeepsTypes ==
  ASSUME Types, NEW k \in Keys, Consume(k)
  PROVE Types'
<1> USE DEF Types, At, Acc, NoFault, Fault, Maybe, Becomes, KeepDocs, stores, queues, answers, clients
<1>0. /\ k \in Procs /\ proc[k].acc \in Accounts /\ proc[k].seen \in Docs /\ proc[k].val \in Nat
  BY ProcsAre, RequestMoves DEF Requests
<1>p. /\ \A x \in Places : Goto(k, x) => ProcType'
      /\ End(k) => ProcType'
      /\ proc' = proc => ProcType'
  BY <1>0, RequestMoves DEF ProcType
<1>1. CASE TakeUpdate(k)
  <2>1. updates[k] \in Seq(Messages) /\ updates[k] # <<>> BY <1>1 DEF TakeUpdate, StoreType
  <2>2. Head(updates[k]) \in Messages /\ Tail(updates[k]) \in Seq(Messages) BY <2>1
  <2> DEFINE r == [Idle EXCEPT !.op = "update", !.at = "apply", !.acc = Head(updates[k]).acc,
                               !.val = Head(updates[k]).val]
  <2>3. r \in Requests /\ r.op = "update"
    BY <2>2, IdleIs DEF Requests, Messages, Places, Ops
  <2>4. /\ proc[k].at = "idle"
        /\ \/ updates' = [updates EXCEPT ![k] = Tail(updates[k])] /\ proc' = proc
           \/ proc' = [proc EXCEPT ![k] = r] /\ updates' = updates
    BY <1>1 DEF TakeUpdate
  <2> HIDE DEF r
  <2>5. ProcType' BY <1>0, <2>3, <2>4 DEF ProcType
  <2>6. StoreType' BY <1>1, <2>2 DEF TakeUpdate, StoreType
  <2>7. InHand' BY <1>0, <2>1, <2>3, <2>4, ProcsAre DEF InHand, StoreType, ProcType
  <2> QED BY <2>5, <2>6, <2>7
<1>q. /\ updates \in [Keys -> Seq(Messages)]
      /\ Requeue(k) => /\ updates' \in [Keys -> Seq(Messages)]
                       /\ \A i \in Keys : updates[i] # <<>> => updates'[i] # <<>>
  BY RequeueKeeps DEF StoreType
<1>2. CASE ApplyUpdate(k)
  <2>1. ProcType' BY <1>2, <1>p DEF ApplyUpdate, Places
  <2>2. Applied(proc[k].acc, k, proc[k].val) \in [Accounts -> Docs] BY <1>0, AppliedKeeps
  <2>3. StoreType' BY <1>2, <1>q, <2>2 DEF ApplyUpdate, StoreType, Becomes, KeepDocs
  <2>4. /\ \A i \in Keys : i # k => proc'[i] = proc[i]
        /\ proc'[k].op \in {"none", "update"}
    BY <1>2, <1>0, IdleIs, ProcsAre DEF ApplyUpdate, Goto, End, InHand, ProcType, Requests
  <2>5. updates[k] # <<>> /\ \A i \in Keys : updates[i] # <<>> => updates'[i] # <<>>
    BY <1>2, <1>q DEF ApplyUpdate, InHand
  <2>6. InHand' BY <2>4, <2>5 DEF InHand
  <2> QED BY <2>1, <2>3, <2>6
<1>3. CASE ReadUpdated(k)
  <2>1. docs[proc[k].acc] \in Docs BY <1>0 DEF StoreType
  <2>2. ProcType' BY <1>3, <1>0, <1>p, <2>1, RequestMoves DEF ReadUpdated, Places
  <2>3. StoreType' BY <1>3, <1>q DEF ReadUpdated, StoreType
  <2>4. /\ \A i \in Keys : i # k => proc'[i] = proc[i]
        /\ proc'[k].op \in {"none", "update"}
    BY <1>3, <1>0, IdleIs, ProcsAre DEF ReadUpdated, Goto, End, InHand, ProcType, Requests
  <2>5. updates[k] # <<>> /\ \A i \in Keys : updates[i] # <<>> => updates'[i] # <<>>
    BY <1>3, <1>q DEF ReadUpdated, InHand
  <2>6. InHand' BY <2>4, <2>5 DEF InHand
  <2> QED BY <2>2, <2>3, <2>6
<1>4. CASE StoreUpdated(k)
  <2>1. ProcType' BY <1>4, <1>p DEF StoreUpdated
  <2>2. At(k, "store") /\ updates[k] \in Seq(Messages) BY <1>4 DEF StoreUpdated, StoreType
  <2>3. updates[k] # <<>> /\ Tail(updates[k]) \in Seq(Messages) BY <2>2 DEF InHand
  <2>4. StoreType' BY <1>4, <1>0, <1>q, <2>3 DEF StoreUpdated, StoreType
  <2>5. InHand' BY <1>4, <1>q, IdleIs, ProcsAre DEF StoreUpdated, End, InHand, StoreType, ProcType
  <2> QED BY <2>1, <2>4, <2>5
<1> QED BY <1>1, <1>2, <1>3, <1>4 DEF Consume

\* The end of a request that is cut off keeps the types.
LEMMA CutOffKeepsTypes ==
  ASSUME Types, NEW p \in Procs, CutOff(p)
  PROVE Types'
<1> USE DEF Types, Acc
<1>1. ProcType' BY RequestMoves DEF CutOff
<1>2. /\ updates' \in [Keys -> Seq(Messages)]
      /\ \A i \in Keys : updates[i] # <<>> => updates'[i] # <<>>
  BY RequeueKeeps DEF CutOff, StoreType
<1>3. StoreType' BY <1>2 DEF StoreType, CutOff, Results, stores
<1>4. InHand' BY <1>2, IdleIs, ProcsAre DEF InHand, CutOff, End, ProcType
<1> QED BY <1>1, <1>3, <1>4

\* The beginning of a request keeps the types.
LEMMA RequestsKeepTypes ==
  ASSUME Types, NEW p \in Clients, NEW a \in Accounts,
         CreateRequest(p, a) \/ DeleteRequest(p, a) \/ AuthRequest(p, a)
  PROVE Types'
<1> USE DEF Types
<1>1. PICK o \in Ops, x \in Places : Begin(p, o, x, a)
  BY DEF CreateRequest, DeleteRequest, AuthRequest, Ops, Places
<1>2. ProcType' BY <1>1, ProcsAre, RequestMoves
<1>3. StoreType'
  BY DEF CreateRequest, DeleteRequest, AuthRequest, StoreType, Results, stores, queues, answers
<1>4. InHand'
  <2>1. updates' = updates BY DEF CreateRequest, DeleteRequest, AuthRequest, queues
  <2> QED BY <1>1, <2>1, ProcsAre DEF InHand, Begin, ProcType
<1> QED BY <1>2, <1>3, <1>4

\* A publication keeps the types.
LEMMA PublishKeepsTypes ==
  ASSUME Types, NEW k \in Keys, NEW a \in Accounts, NEW w \in BOOLEAN, PublishUpdate(k, a, w)
  PROVE Types'
<1> USE DEF Types
<1> DEFINE m == [acc |-> a, val |-> IF w THEN sent[k] + 1 ELSE 0]
<1>1. m \in Messages BY DEF Messages, StoreType
<1>2. /\ updates[k] \in Seq(Messages) /\ updates' = [updates EXCEPT ![k] = Append(updates[k], m)]
      /\ UNCHANGED proc
  BY DEF PublishUpdate, StoreType
<1> HIDE DEF m
<1>3. Append(updates[k], m) \in Seq(Messages) /\ Append(updates[k], m) # <<>> BY <1>1, <1>2
<1>4. StoreType' BY <1>2, <1>3 DEF PublishUpdate, StoreType, stores, answers
<1>5. ProcType' /\ InHand' BY <1>2, <1>3 DEF ProcType, InHand, StoreType
<1> QED BY <1>4, <1>5

-----------------------------------------------------------------------------
(* Deletion.  What a step of a request does is first reduced to its own      *)
(* request and its own account.                                              *)

\* Other requests and other accounts are left alone.
OnlyOwn(p) ==
  /\ \A q \in Clients : q # p => proc'[q] = proc[q]
  /\ \A b \in Accounts : b # proc[p].acc =>
        /\ docs'[b] = docs[b] /\ bucket'[b] = bucket[b]
        /\ created'[b] = created[b] /\ deleted'[b] = deleted[b]

\* What a step may do to the account: a creation is answered once, by the request
\* itself and not as done without a document; only a deletion is answered as one, and
\* as done when the document is gone; a document comes by a creation and goes by one,
\* or after the bucket; a bucket comes by a creation.
OwnAccount(op, opAfter, a) ==
  /\ created'[a] # created[a] =>
        /\ op = "create" /\ opAfter = "none" /\ created'[a] \notin {"no", "asked"}
        /\ created'[a] \in {"ok", "partial"} => docs'[a] # Gone
  /\ deleted'[a] # deleted[a] => op = "delete" /\ (deleted'[a] \in {"ok", "unknown"} => docs'[a] = Gone)
  /\ docs'[a] # docs[a] =>
        op = "create" \/ (op = "delete" /\ docs'[a] = Gone /\ bucket'[a] = "none")
  /\ bucket'[a] # bucket[a] => op = "create" \/ bucket'[a] = "none"

\* What becomes of the request: it ends, or goes on at a place that fits.
OwnRequest(before, after, a) ==
  \/ after.op = "none" /\ after.at = "idle"
  \/ /\ after.op = before.op /\ after.acc = before.acc
     /\ after.at \in Provisioning => after.op = "create" /\ docs'[a] # Gone
     /\ after.at # "insert" /\ after.at # "lookup"
     /\ after.at \in {"drop", "fanout"} => after.op = "delete"
     /\ after.at \in Removing =>
          after.op = "create" \/ (after.op = "delete" /\ bucket'[a] = "none")
     /\ after.at = "fanout" => docs'[a] = Gone

LocalStep(p) ==
  /\ OnlyOwn(p)
  /\ OwnAccount(proc[p].op, proc'[p].op, proc[p].acc)
  /\ OwnRequest(proc[p], proc'[p], proc[p].acc)

\* Such a step keeps what is known of creations and deletions.
LEMMA LocalSteps ==
  ASSUME Types, StageInv, NEW p \in Clients, LocalStep(p)
  PROVE StageInv'
<1> DEFINE a == proc[p].acc
<1>0. /\ a \in Accounts /\ \A q \in Clients : proc[q].acc \in Accounts
      /\ \A q \in Clients : q # p => proc'[q] = proc[q]
      /\ \A b \in Accounts : b # a => /\ docs'[b] = docs[b] /\ bucket'[b] = bucket[b]
                                     /\ created'[b] = created[b] /\ deleted'[b] = deleted[b]
  BY ProcsAre, RequestMoves DEF Types, Requests, LocalStep, OnlyOwn
<1>1. OwnAccount(proc[p].op, proc'[p].op, a) /\ OwnRequest(proc[p], proc'[p], a) BY DEF LocalStep
<1> HIDE DEF a
<1> USE DEF StageInv
\* While p creates, nobody else creates or deletes its account, nor has anybody deleted it.
<1>2. proc[p].op = "create" =>
        /\ created[a] = "asked" /\ deleted[a] = "no"
        /\ \A q \in Clients : q # p /\ proc[q].acc = a => proc[q].op \notin {"create", "delete"}
  BY <1>0 DEF a, Creating, Deleting
<1>3. proc[p].op = "delete" =>
        /\ created[a] \notin {"no", "asked"}
        /\ \A q \in Clients : proc[q].acc = a => proc[q].op # "create"
  BY <1>0 DEF a, Creating, Deleting
<1>4. Creating'
  <2> SUFFICES ASSUME NEW q \in Clients, proc'[q].op = "create"
               PROVE  /\ created'[proc'[q].acc] = "asked"
                      /\ \A r \in Clients : proc'[r].op = "create" /\ proc'[r].acc = proc'[q].acc => r = q
    BY DEF Creating
  <2>1. \A r \in Clients : proc'[r].op = "create" => proc[r].op = "create" /\ proc'[r].acc = proc[r].acc
    BY <1>0, <1>1 DEF OwnRequest
  <2>2. created[proc[q].acc] = "asked" BY <2>1 DEF Creating
  <2>3. created'[proc[q].acc] = created[proc[q].acc]
    <3>1. CASE q = p BY <3>1, <1>1 DEF OwnAccount, a
    <3>2. CASE q # p BY <3>2, <1>0, <1>1, <1>2, <2>1 DEF OwnAccount
    <3> QED BY <3>1, <3>2
  <2> QED BY <2>1, <2>2, <2>3 DEF Creating
<1>5. Deleting'
  <2>1. \A b \in Accounts : created[b] \notin {"no", "asked"} => created'[b] \notin {"no", "asked"}
    BY <1>0, <1>1 DEF OwnAccount
  <2>2. \A q \in Clients : proc'[q].op = "delete" => proc[q].op = "delete" /\ proc'[q].acc = proc[q].acc
    BY <1>0, <1>1 DEF OwnRequest
  <2>3. \A b \in Accounts : deleted'[b] # "no" => created[b] \notin {"no", "asked"}
    BY <1>0, <1>1, <1>3 DEF OwnAccount, Deleting
  <2> QED BY <2>1, <2>2, <2>3, <1>0 DEF Deleting
<1>6. Stages'
  BY <1>0, <1>1 DEF OwnRequest, Stages, Provisioning, Removing
<1>7. HasDocument'
  <2> SUFFICES ASSUME NEW q \in Clients, proc'[q].at \in Provisioning
               PROVE  docs'[proc'[q].acc] # Gone
    BY DEF HasDocument
  <2>1. CASE q = p BY <2>1, <1>1 DEF OwnRequest, Provisioning, a
  <2>2. CASE q # p
    <3>1. proc[q].at \in Provisioning /\ proc'[q].acc = proc[q].acc BY <2>2, <1>0
    <3>2. proc[q].op = "create" /\ docs[proc[q].acc] # Gone BY <3>1 DEF Stages, HasDocument
    <3>3. docs'[proc[q].acc] = docs[proc[q].acc] BY <2>2, <3>2, <1>0, <1>1, <1>2, <1>3 DEF OwnAccount
    <3> QED BY <3>1, <3>2, <3>3
  <2> QED BY <2>1, <2>2
<1>8. InOrder'
  <2> SUFFICES ASSUME NEW q \in Clients, proc'[q].op = "delete"
               PROVE  /\ proc'[q].at \in Removing => bucket'[proc'[q].acc] = "none"
                      /\ proc'[q].at = "fanout" => docs'[proc'[q].acc] = Gone
    BY DEF InOrder
  <2>1. CASE q = p BY <2>1, <1>1 DEF OwnRequest, a
  <2>2. CASE q # p
    <3>1. proc'[q] = proc[q] /\ proc[q].op = "delete" BY <2>2, <1>0
    <3>2. /\ proc[q].at \in Removing => bucket[proc[q].acc] = "none"
          /\ proc[q].at = "fanout" => docs[proc[q].acc] = Gone
      BY <3>1 DEF InOrder
    <3>3. proc[q].acc = a => proc[p].op # "create" BY <2>2, <3>1, <1>2
    <3>4. /\ bucket[proc[q].acc] = "none" => bucket'[proc[q].acc] = "none"
          /\ docs[proc[q].acc] = Gone => docs'[proc[q].acc] = Gone
      BY <3>3, <1>0, <1>1 DEF OwnAccount
    <3> QED BY <3>1, <3>2, <3>4
  <2> QED BY <2>1, <2>2
<1>9. DeletedForGood'
  <2> SUFFICES ASSUME NEW b \in Accounts
               PROVE  /\ deleted'[b] \in {"ok", "unknown"} => docs'[b] = Gone
                      /\ docs'[b] = Gone /\ created'[b] \in {"ok", "partial"} => bucket'[b] = "none"
    BY DEF DeletedForGood
  <2>0. /\ deleted[b] \in {"ok", "unknown"} => docs[b] = Gone
        /\ docs[b] = Gone /\ created[b] \in {"ok", "partial"} => bucket[b] = "none"
    BY DEF DeletedForGood
  <2>1. CASE b # a BY <2>0, <2>1, <1>0
  <2>2. CASE b = a
    <3>1. deleted'[b] \in {"ok", "unknown"} => docs'[b] = Gone
      BY <2>0, <2>2, <1>1, <1>2 DEF OwnAccount
    <3>2. docs'[b] = Gone /\ created'[b] \in {"ok", "partial"} => bucket'[b] = "none"
      BY <2>0, <2>2, <1>1, <1>2 DEF OwnAccount
    <3> QED BY <3>1, <3>2
  <2> QED BY <2>1, <2>2
<1> QED BY <1>4, <1>5, <1>6, <1>7, <1>8, <1>9

\* The steps of a request are such steps.
LEMMA HandleIsLocal ==
  ASSUME Types, StageInv, NEW p \in Clients, Handle(p)
  PROVE LocalStep(p)
<1> DEFINE a == proc[p].acc
<1> USE DEF At, Acc, NoFault, Fault, Maybe, Becomes, KeepDocs, stores, queues, answers, clients
<1>0. /\ p \in Procs /\ proc[p] \in Requests /\ a \in Accounts /\ proc[p].val \in Nat
      /\ \A q \in Clients : q # p => proc'[q] = proc[q]
  BY ProcsAre, RequestMoves, HandleTouchesOne DEF Requests, Types
<1>t. /\ docs \in [Accounts -> Docs] /\ bucket \in [Accounts -> {"none", "made", "ready"}]
      /\ created \in [Accounts -> Results] /\ deleted \in [Accounts -> Results]
  BY DEF Types, StoreType
<1>p. /\ \A x : Goto(p, x) => proc'[p].at = x /\ proc'[p].op = proc[p].op /\ proc'[p].acc = a
      /\ End(p) => proc'[p].op = "none" /\ proc'[p].at = "idle"
  BY <1>0, IdleIs DEF Goto, End, Types, ProcType, Requests
<1>r. \A r : Answer(p, r) =>
        /\ proc'[p].op = "none" /\ proc'[p].at = "idle"
        /\ proc[p].op = "create" => created' = [created EXCEPT ![a] = "rolledback"] /\ deleted' = deleted
        /\ proc[p].op # "create" => deleted' = [deleted EXCEPT ![a] = r] /\ created' = created
  BY <1>p DEF Answer
<1>f. \A v \in Nat :
        (\/ proc' = [proc EXCEPT ![p].at = "fanout", ![p].val = v]
         \/ proc' = [proc EXCEPT ![p].val = v])
        => /\ proc'[p].op = proc[p].op /\ proc'[p].acc = a
           /\ proc'[p].at \in {"fanout", proc[p].at}
  BY <1>0 DEF Types, ProcType, Requests
<1>g. \A x, d : proc' = [proc EXCEPT ![p].at = x, ![p].seen = d]
        => proc'[p].op = proc[p].op /\ proc'[p].acc = a /\ proc'[p].at = x
  BY <1>0 DEF Types, ProcType, Requests
<1>s. /\ proc[p].at \in Provisioning \cup {"insert"} => proc[p].op = "create"
      /\ proc[p].at \in {"lookup", "drop", "fanout"} => proc[p].op = "delete"
      /\ proc[p].at \in Removing => proc[p].op \in {"create", "delete"}
      /\ proc[p].at \in Provisioning => docs[a] # Gone
      /\ proc[p].op = "delete" /\ proc[p].at \in Removing => bucket[a] = "none"
      /\ proc[p].op = "delete" /\ proc[p].at = "fanout" => docs[a] = Gone
  BY DEF StageInv, Stages, HasDocument, InOrder
<1> HIDE DEF a
<1>1. CASE InsertAccount(p)
  <2>1. OnlyOwn(p) BY <1>1, <1>0, <1>t, <1>r DEF InsertAccount, OnlyOwn, Removed, a
  <2>2. OwnAccount(proc[p].op, proc'[p].op, a)
    BY <1>1, <1>0, <1>t, <1>p, <1>r, <1>s DEF InsertAccount, OwnAccount, Provisioning, Removing, a
  <2>3. OwnRequest(proc[p], proc'[p], a)
    BY <1>1, <1>0, <1>t, <1>p, <1>r, <1>f, <1>g, <1>s, DocumentsExist
       DEF InsertAccount, OwnRequest, Provisioning, Removing, a
  <2> QED BY <2>1, <2>2, <2>3 DEF LocalStep, a
<1>2. CASE CacheNewAccount(p)
  <2>1. OnlyOwn(p) BY <1>2, <1>0, <1>t, <1>r DEF CacheNewAccount, OnlyOwn, Removed, a
  <2>2. OwnAccount(proc[p].op, proc'[p].op, a)
    BY <1>2, <1>0, <1>t, <1>p, <1>r, <1>s DEF CacheNewAccount, OwnAccount, Provisioning, Removing, a
  <2>3. OwnRequest(proc[p], proc'[p], a)
    BY <1>2, <1>0, <1>t, <1>p, <1>r, <1>f, <1>g, <1>s, DocumentsExist
       DEF CacheNewAccount, OwnRequest, Provisioning, Removing, a
  <2> QED BY <2>1, <2>2, <2>3 DEF LocalStep, a
<1>3. CASE CreateBucket(p)
  <2>1. OnlyOwn(p) BY <1>3, <1>0, <1>t, <1>r DEF CreateBucket, OnlyOwn, Removed, a
  <2>2. OwnAccount(proc[p].op, proc'[p].op, a)
    BY <1>3, <1>0, <1>t, <1>p, <1>r, <1>s DEF CreateBucket, OwnAccount, Provisioning, Removing, a
  <2>3. OwnRequest(proc[p], proc'[p], a)
    BY <1>3, <1>0, <1>t, <1>p, <1>r, <1>f, <1>g, <1>s, DocumentsExist
       DEF CreateBucket, OwnRequest, Provisioning, Removing, a
  <2> QED BY <2>1, <2>2, <2>3 DEF LocalStep, a
<1>4. CASE ConfigureBucket(p)
  <2>1. OnlyOwn(p) BY <1>4, <1>0, <1>t, <1>r DEF ConfigureBucket, OnlyOwn, Removed, a
  <2>2. OwnAccount(proc[p].op, proc'[p].op, a)
    BY <1>4, <1>0, <1>t, <1>p, <1>r, <1>s DEF ConfigureBucket, OwnAccount, Provisioning, Removing, a
  <2>3. OwnRequest(proc[p], proc'[p], a)
    BY <1>4, <1>0, <1>t, <1>p, <1>r, <1>f, <1>g, <1>s, DocumentsExist
       DEF ConfigureBucket, OwnRequest, Provisioning, Removing, a
  <2> QED BY <2>1, <2>2, <2>3 DEF LocalStep, a
<1>5. CASE EmailKeys(p)
  <2>1. OnlyOwn(p) BY <1>5, <1>0, <1>t, <1>r DEF EmailKeys, OnlyOwn, Removed, a
  <2>2. OwnAccount(proc[p].op, proc'[p].op, a)
    BY <1>5, <1>0, <1>t, <1>p, <1>r, <1>s DEF EmailKeys, OwnAccount, Provisioning, Removing, a
  <2>3. OwnRequest(proc[p], proc'[p], a)
    BY <1>5, <1>0, <1>t, <1>p, <1>r, <1>f, <1>g, <1>s, DocumentsExist
       DEF EmailKeys, OwnRequest, Provisioning, Removing, a
  <2> QED BY <2>1, <2>2, <2>3 DEF LocalStep, a
<1>6. CASE PublishJob(p)
  <2>1. OnlyOwn(p) BY <1>6, <1>0, <1>t, <1>r DEF PublishJob, OnlyOwn, Removed, a
  <2>2. OwnAccount(proc[p].op, proc'[p].op, a)
    BY <1>6, <1>0, <1>t, <1>p, <1>r, <1>s DEF PublishJob, OwnAccount, Provisioning, Removing, a
  <2>3. OwnRequest(proc[p], proc'[p], a)
    BY <1>6, <1>0, <1>t, <1>p, <1>r, <1>f, <1>g, <1>s, DocumentsExist
       DEF PublishJob, OwnRequest, Provisioning, Removing, a
  <2> QED BY <2>1, <2>2, <2>3 DEF LocalStep, a
<1>7. CASE LookUp(p)
  <2>1. OnlyOwn(p) BY <1>7, <1>0, <1>t, <1>r DEF LookUp, OnlyOwn, Removed, a
  <2>2. OwnAccount(proc[p].op, proc'[p].op, a)
    BY <1>7, <1>0, <1>t, <1>p, <1>r, <1>s DEF LookUp, OwnAccount, Provisioning, Removing, a
  <2>3. OwnRequest(proc[p], proc'[p], a)
    BY <1>7, <1>0, <1>t, <1>p, <1>r, <1>f, <1>g, <1>s, DocumentsExist
       DEF LookUp, OwnRequest, Provisioning, Removing, a
  <2> QED BY <2>1, <2>2, <2>3 DEF LocalStep, a
<1>8. CASE DropBucket(p)
  <2>1. OnlyOwn(p) BY <1>8, <1>0, <1>t, <1>r DEF DropBucket, OnlyOwn, Removed, a
  <2>2. OwnAccount(proc[p].op, proc'[p].op, a)
    BY <1>8, <1>0, <1>t, <1>p, <1>r, <1>s DEF DropBucket, OwnAccount, Provisioning, Removing, a
  <2>3. OwnRequest(proc[p], proc'[p], a)
    BY <1>8, <1>0, <1>t, <1>p, <1>r, <1>f, <1>g, <1>s, DocumentsExist
       DEF DropBucket, OwnRequest, Provisioning, Removing, a
  <2> QED BY <2>1, <2>2, <2>3 DEF LocalStep, a
<1>9. CASE FindAccount(p)
  <2>1. OnlyOwn(p) BY <1>9, <1>0, <1>t, <1>r DEF FindAccount, OnlyOwn, Removed, a
  <2>2. OwnAccount(proc[p].op, proc'[p].op, a)
    BY <1>9, <1>0, <1>t, <1>p, <1>r, <1>s DEF FindAccount, OwnAccount, Provisioning, Removing, a, Removed
  <2>3. OwnRequest(proc[p], proc'[p], a)
    BY <1>9, <1>0, <1>t, <1>p, <1>r, <1>f, <1>g, <1>s, DocumentsExist
       DEF FindAccount, OwnRequest, Provisioning, Removing, a, Removed
  <2> QED BY <2>1, <2>2, <2>3 DEF LocalStep, a
<1>10. CASE DeleteCachedAccount(p)
  <2>1. OnlyOwn(p) BY <1>10, <1>0, <1>t, <1>r DEF DeleteCachedAccount, OnlyOwn, Removed, a
  <2>2. OwnAccount(proc[p].op, proc'[p].op, a)
    BY <1>10, <1>0, <1>t, <1>p, <1>r, <1>s DEF DeleteCachedAccount, OwnAccount, Provisioning, Removing, a
  <2>3. OwnRequest(proc[p], proc'[p], a)
    BY <1>10, <1>0, <1>t, <1>p, <1>r, <1>f, <1>g, <1>s, DocumentsExist
       DEF DeleteCachedAccount, OwnRequest, Provisioning, Removing, a
  <2> QED BY <2>1, <2>2, <2>3 DEF LocalStep, a
<1>11. CASE RemoveAccount(p)
  <2>1. OnlyOwn(p) BY <1>11, <1>0, <1>t, <1>r DEF RemoveAccount, OnlyOwn, Removed, a
  <2>2. OwnAccount(proc[p].op, proc'[p].op, a)
    BY <1>11, <1>0, <1>t, <1>p, <1>r, <1>s DEF RemoveAccount, OwnAccount, Provisioning, Removing, a, Removed
  <2>3. OwnRequest(proc[p], proc'[p], a)
    BY <1>11, <1>0, <1>t, <1>p, <1>r, <1>f, <1>g, <1>s, DocumentsExist
       DEF RemoveAccount, OwnRequest, Provisioning, Removing, a, Removed
  <2> QED BY <2>1, <2>2, <2>3 DEF LocalStep, a
<1>12. CASE FanOut(p)
  <2>1. OnlyOwn(p) BY <1>12, <1>0, <1>t, <1>r DEF FanOut, OnlyOwn, Removed, a
  <2>2. OwnAccount(proc[p].op, proc'[p].op, a)
    BY <1>12, <1>0, <1>t, <1>p, <1>r, <1>s
       DEF FanOut, OwnAccount, Provisioning, Removing, a, PostWithRetry, Removed
  <2>3. OwnRequest(proc[p], proc'[p], a)
    BY <1>12, <1>0, <1>t, <1>p, <1>r, <1>f, <1>g, <1>s, DocumentsExist
       DEF FanOut, OwnRequest, Provisioning, Removing, a, PostWithRetry, Removed
  <2> QED BY <2>1, <2>2, <2>3 DEF LocalStep, a
<1>13. CASE RefreshAccountDataCache(p)
  <2>1. OnlyOwn(p) BY <1>13, <1>0, <1>t, <1>r DEF RefreshAccountDataCache, OnlyOwn, Removed, a
  <2>2. OwnAccount(proc[p].op, proc'[p].op, a)
    BY <1>13, <1>0, <1>t, <1>p, <1>r, <1>s
       DEF RefreshAccountDataCache, OwnAccount, Provisioning, Removing, a, Types, ProcType, Requests
  <2>3. OwnRequest(proc[p], proc'[p], a)
    BY <1>13, <1>0, <1>t, <1>p, <1>r, <1>f, <1>g, <1>s, DocumentsExist
       DEF RefreshAccountDataCache, OwnRequest, Provisioning, Removing, a, Types, ProcType, Requests
  <2> QED BY <2>1, <2>2, <2>3 DEF LocalStep, a
<1>14. CASE VerifyAccountKeys(p)
  <2>1. OnlyOwn(p) BY <1>14, <1>0, <1>t, <1>r DEF VerifyAccountKeys, OnlyOwn, Removed, a
  <2>2. OwnAccount(proc[p].op, proc'[p].op, a)
    BY <1>14, <1>0, <1>t, <1>p, <1>r, <1>s DEF VerifyAccountKeys, OwnAccount, Provisioning, Removing, a
  <2>3. OwnRequest(proc[p], proc'[p], a)
    BY <1>14, <1>0, <1>t, <1>p, <1>r, <1>f, <1>g, <1>s, DocumentsExist
       DEF VerifyAccountKeys, OwnRequest, Provisioning, Removing, a
  <2> QED BY <2>1, <2>2, <2>3 DEF LocalStep, a
<1>15. CASE LogFailedAuth(p)
  <2>1. OnlyOwn(p) BY <1>15, <1>0, <1>t, <1>r DEF LogFailedAuth, OnlyOwn, Removed, a
  <2>2. OwnAccount(proc[p].op, proc'[p].op, a)
    BY <1>15, <1>0, <1>t, <1>p, <1>r, <1>s DEF LogFailedAuth, OwnAccount, Provisioning, Removing, a
  <2>3. OwnRequest(proc[p], proc'[p], a)
    BY <1>15, <1>0, <1>t, <1>p, <1>r, <1>f, <1>g, <1>s, DocumentsExist
       DEF LogFailedAuth, OwnRequest, Provisioning, Removing, a
  <2> QED BY <2>1, <2>2, <2>3 DEF LocalStep, a
<1>16. CASE TakeBack(p)
  <2>1. OnlyOwn(p) BY <1>16, <1>0, <1>t DEF TakeBack, OnlyOwn, a
  <2>2. OwnAccount(proc[p].op, proc'[p].op, a)
    BY <1>16, <1>0, <1>t, <1>p, <1>s DEF TakeBack, OwnAccount, Provisioning, Removing, a
  <2>3. OwnRequest(proc[p], proc'[p], a) BY <1>16, <1>p DEF TakeBack, OwnRequest
  <2> QED BY <2>1, <2>2, <2>3 DEF LocalStep, a
<1> QED
  BY <1>1, <1>2, <1>3, <1>4, <1>5, <1>6, <1>7, <1>8, <1>9, <1>10, <1>11, <1>12, <1>13, <1>14, <1>15,
     <1>16 DEF Handle

\* So is the end of a request that is cut off.
LEMMA CutOffIsLocal ==
  ASSUME Types, StageInv, NEW p \in Clients, CutOff(p)
  PROVE LocalStep(p)
<1>1. /\ p \in Procs /\ proc[p] \in Requests /\ proc[p].acc \in Accounts
  BY ProcsAre, RequestMoves DEF Requests, Types
<1>2. /\ created' = [created EXCEPT ![proc[p].acc] = "failed"] \/ created' = created
      /\ deleted' = [deleted EXCEPT ![proc[p].acc] = "failed"] \/ deleted' = deleted
      /\ docs' = docs /\ bucket' = bucket /\ proc' = [proc EXCEPT ![p] = Idle]
      /\ proc[p].op # "create" => created' = created
      /\ proc[p].op # "delete" => deleted' = deleted
  BY DEF CutOff, End, Acc, stores
<1>3. proc'[p].op = "none" /\ proc'[p].at = "idle" BY <1>1, <1>2, IdleIs DEF Types, ProcType
<1>4. OnlyOwn(p) BY <1>1, <1>2, ProcsAre DEF OnlyOwn, Types, ProcType, StoreType
<1>5. OwnAccount(proc[p].op, proc'[p].op, proc[p].acc) BY <1>1, <1>2, <1>3 DEF OwnAccount, Types, StoreType
<1> QED BY <1>3, <1>4, <1>5 DEF LocalStep, OwnRequest

\* A request begins on an account that fits.
LEMMA RequestsBegin ==
  ASSUME Types, StageInv, NEW p \in Clients, NEW a \in Accounts,
         CreateRequest(p, a) \/ DeleteRequest(p, a) \/ AuthRequest(p, a)
  PROVE StageInv'
<1> USE DEF StageInv
<1>0. p \in Procs /\ \A q \in Clients : q \in Procs /\ proc[q].acc \in Accounts
  BY ProcsAre, RequestMoves DEF Requests, Types
<1>1. /\ \A q \in Clients : q # p => proc'[q] = proc[q]
      /\ proc'[p].acc = a
      /\ docs' = docs /\ bucket' = bucket /\ deleted' = deleted
      /\ \/ /\ proc'[p].op = "create" /\ proc'[p].at = "insert"
            /\ created[a] = "no" /\ created' = [created EXCEPT ![a] = "asked"]
         \/ /\ proc'[p].op = "delete" /\ proc'[p].at = "lookup"
            /\ created[a] \notin {"no", "asked"} /\ created' = created
         \/ proc'[p].op = "auth" /\ proc'[p].at = "refresh" /\ created' = created
  BY ZenonT(30), <1>0, IdleIs DEF CreateRequest, DeleteRequest, AuthRequest, Begin, Types, ProcType, Requests,
     stores, answers
<1>2. /\ created'[a] # created[a] => created[a] = "no" /\ created'[a] = "asked"
      /\ \A b \in Accounts : b # a => created'[b] = created[b]
      /\ proc'[p].op = "create" => created[a] = "no" /\ created'[a] = "asked"
  BY <1>1 DEF Types, StoreType
<1>3. Creating' BY <1>0, <1>1, <1>2 DEF Creating
<1>4. Deleting' BY <1>0, <1>1, <1>2 DEF Deleting
<1>5. Stages' BY <1>1 DEF Stages, Provisioning, Removing
<1>6. HasDocument' BY <1>1 DEF HasDocument, Provisioning
<1>7. InOrder' BY <1>1 DEF InOrder, Removing
<1>8. DeletedForGood' BY <1>1, <1>2 DEF DeletedForGood
<1> QED BY <1>3, <1>4, <1>5, <1>6, <1>7, <1>8

\* Steps that leave requests alone, and every document where it is or is not.
LEMMA KeptStages ==
  ASSUME StageInv, \A q \in Clients : proc'[q] = proc[q],
         \A b \in Accounts : docs'[b] = Gone <=> docs[b] = Gone,
         bucket' = bucket, created' = created, deleted' = deleted,
         \A q \in Clients : proc[q].acc \in Accounts
  PROVE StageInv'
<1>1. Creating' /\ Deleting' /\ Stages' BY DEF StageInv, Creating, Deleting, Stages
<1>2. HasDocument' /\ InOrder' BY DEF StageInv, HasDocument, InOrder
<1>3. DeletedForGood' BY DEF StageInv, DeletedForGood
<1> QED BY <1>1, <1>2, <1>3 DEF StageInv

\* A consumer inserts no document and removes none.
LEMMA ConsumeKeepsStages ==
  ASSUME Types, StageInv, NEW k \in Keys, Consume(k) \/ CutOff(k)
  PROVE StageInv'
<1>0. /\ k \in Procs /\ \A q \in Clients : q \in Procs /\ q # k /\ proc[q].acc \in Accounts
      /\ proc[k].acc \in Accounts /\ proc[k].val \in Nat /\ proc[k].op \in {"none", "update"}
  <2>1. k \in Procs /\ \A q \in Clients : q \in Procs /\ q # k BY ProcsAre
  <2>2. \A q \in Procs : proc[q].acc \in Accounts /\ proc[q].val \in Nat
    BY RequestMoves DEF Requests, Types
  <2>3. proc[k].op \in {"none", "update"} BY DEF Types, InHand
  <2> QED BY <2>1, <2>2, <2>3
<1>1. bucket' = bucket /\ created' = created /\ deleted' = deleted
  BY <1>0 DEF Consume, TakeUpdate, ApplyUpdate, ReadUpdated, StoreUpdated, CutOff, Becomes, KeepDocs, stores, answers
<1>2. docs' = docs \/ docs' = Applied(proc[k].acc, k, proc[k].val)
  BY DEF Consume, TakeUpdate, ApplyUpdate, ReadUpdated, StoreUpdated, CutOff, Becomes, KeepDocs, stores, Acc
<1>3. \A b \in Accounts : docs'[b] = Gone <=> docs[b] = Gone BY <1>0, <1>2, AppliedKeeps
<1>4. \A q \in Clients : proc'[q] = proc[q]
  BY <1>0
     DEF Consume, TakeUpdate, ApplyUpdate, ReadUpdated, StoreUpdated, CutOff, Goto, End, Types, ProcType
<1> QED BY <1>0, <1>1, <1>3, <1>4, KeptStages

-----------------------------------------------------------------------------
(* Theorems. *)

\* The inductive invariant: types, the stages of requests, and deletions being final.
THEOREM DeletionCorrect == Spec => []DeletionInv
<1>1. Init => DeletionInv
  <2> SUFFICES ASSUME Init PROVE DeletionInv OBVIOUS
  <2>1. ProcType BY IdleIs DEF Init, ProcType
  <2>2. StoreType BY DEF Init, StoreType, Docs, Results
  <2>3. InHand BY IdleIs, ProcsAre DEF Init, InHand
  <2>4. \A p \in Clients : proc[p].at = "idle" /\ proc[p].op = "none" BY IdleIs, ProcsAre DEF Init
  <2>5. Creating /\ Deleting BY <2>4 DEF Init, Creating, Deleting
  <2>6. Stages /\ HasDocument /\ InOrder BY <2>4 DEF Stages, HasDocument, InOrder, Provisioning, Removing
  <2>7. DeletedForGood BY DEF Init, DeletedForGood
  <2> QED BY <2>1, <2>2, <2>3, <2>5, <2>6, <2>7 DEF DeletionInv, Types, StageInv
<1>2. DeletionInv /\ [Next]_vars => DeletionInv'
  <2> SUFFICES ASSUME DeletionInv, [Next]_vars PROVE DeletionInv' OBVIOUS
  <2> USE DEF DeletionInv
  <2>1. \A q \in Clients : proc[q].acc \in Accounts BY ProcsAre, RequestMoves DEF Types, Requests
  <2>2. ASSUME NEW p \in Clients, Handle(p) PROVE DeletionInv'
    BY <2>2, HandleKeepsTypes, HandleIsLocal, LocalSteps
  <2>3. ASSUME NEW k \in Keys, Consume(k) PROVE DeletionInv'
    BY <2>3, ConsumeKeepsTypes, ConsumeKeepsStages
  <2>4. ASSUME NEW p \in Procs, CutOff(p) PROVE DeletionInv'
    <3>1. Types' BY <2>4, CutOffKeepsTypes
    <3>2. CASE p \in Clients BY <2>4, <3>1, <3>2, CutOffIsLocal, LocalSteps
    <3>3. CASE p \in Keys BY <2>4, <3>1, <3>3, ConsumeKeepsStages
    <3> QED BY <3>2, <3>3 DEF Procs
  <2>5. ASSUME NEW p \in Clients, NEW a \in Accounts,
               CreateRequest(p, a) \/ DeleteRequest(p, a) \/ AuthRequest(p, a)
        PROVE DeletionInv'
    BY <2>5, RequestsKeepTypes, RequestsBegin
  <2>6. ASSUME NEW k \in Keys, NEW a \in Accounts, NEW w \in BOOLEAN, PublishUpdate(k, a, w)
        PROVE DeletionInv'
    <3>1. Types' BY <2>6, PublishKeepsTypes
    <3>2. UNCHANGED <<docs, bucket, created, deleted, proc>> BY <2>6 DEF PublishUpdate, stores, answers
    <3> QED BY <3>1, <3>2, <2>1, KeptStages
  <2>7. ASSUME UNCHANGED <<docs, cache, bucket, created, deleted, sent, updates, proc>> PROVE DeletionInv'
    <3>1. Types' BY <2>7 DEF Types, ProcType, StoreType, InHand
    <3> QED BY <3>1, <2>7, <2>1, KeptStages
  <2>8. ASSUME NEW v \in Services, NEW a \in Accounts, ServiceWrites(v, a) PROVE DeletionInv'
    BY <2>8, <2>7 DEF ServiceWrites, queues, answers
  <2>9. ASSUME NEW a \in Accounts, JobServiceTakes(a) \/ Expire(a) PROVE DeletionInv'
    BY <2>9, <2>7 DEF JobServiceTakes, Expire, stores, queues, answers
  <2>10. CASE Quiet BY <2>10, <2>7 DEF Quiet, stores, queues, answers
  <2>11. CASE UNCHANGED vars BY <2>11, <2>7 DEF vars, stores, queues, answers
  <2> QED BY <2>2, <2>3, <2>4, <2>5, <2>6, <2>8, <2>9, <2>10, <2>11, ProcsAre DEF Next
<1> QED BY <1>1, <1>2, PTL DEF Spec

\* An account that a deletion reported gone is gone for good, whatever overlapping
\* requests, late updates and failing calls do; its bucket went before its document.
THEOREM DeletionIsFinal == Spec => []DeletedForGood
<1>1. DeletionInv => DeletedForGood BY DEF DeletionInv, StageInv
<1> QED BY <1>1, DeletionCorrect, PTL

-----------------------------------------------------------------------------
(* What the answer of a creation promises, and how old a token may be.  A      *)
(* step of a request or a consumer is first reduced to what it writes, what it *)
(* answers and where it goes on.                                               *)

DataTypes ==
  /\ holders \subseteq Accounts /\ token \in [Accounts -> Docs]
  /\ commands \in [Accounts -> Nat] /\ faults \in Nat

\* Where requests that neither create nor delete are, consumers included.
Passive == {"idle", "refresh", "store", "verify", "log", "apply", "reread", "usage"}

\* Which process can be where, beyond Stages.
Roles ==
  /\ \A p \in Clients : /\ proc[p].at \in {"refresh", "store", "verify", "log"} => proc[p].op = "auth"
                        /\ proc[p].at \notin {"apply", "reread", "usage"}
                        /\ proc[p].at = "idle" <=> proc[p].op = "none"
  /\ \A k \in Keys : proc[k].at \in {"idle", "apply", "reread", "usage", "store"}

\* Each place writes one store, at the account of the request.
Writes(p) ==
  LET r == proc[p]  a == r.acc IN
  /\ \/ docs' = docs /\ since' = since
     \/ /\ \/ r.at = "insert" /\ docs' = [docs EXCEPT ![a] = Fresh]
           \/ r.at \in {"undo", "remove"} /\ docs' = [docs EXCEPT ![a] = Gone]
           \/ r.at = "apply" /\ docs' = Applied(a, p, r.val)
        /\ since' = [b \in Accounts |-> since[b] \cup ({docs'[b]} \ {Gone})]
  /\ \/ cache' = cache
     \/ r.at = "cache" /\ cache' = [cache EXCEPT ![a] = docs[a]]
     \/ r.at = "store" /\ cache' = [cache EXCEPT ![a] = r.seen]
     \/ r.at = "uncache" /\ cache' = [cache EXCEPT ![a] = Gone]
  /\ \/ bucket' = bucket
     \/ /\ r.at \in {"bucket", "configure", "drop"}
        /\ \E v \in {"none", "made", "ready"} : bucket' = [bucket EXCEPT ![a] = v]
  /\ commands' = commands \/ (r.at = "jobs" /\ commands' = [commands EXCEPT ![a] = commands[a] + 1])
  /\ \/ token' = token
     \/ r.at = "verify" /\ cache[a] # Gone /\ token' = [token EXCEPT ![a] = cache[a]]
  /\ holders' = holders \/ (r.at \in {"email", "jobs"} /\ holders' = holders \cup {a})
  /\ (faults' = faults \/ faults' = faults + 1)

\* A creation answers "ok" at its end only and "rolledback" after its roll-back, whose
\* calls may have failed; a deletion that ends says so.
Answers(p) ==
  LET r == proc[p]  a == r.acc IN
  \/ created' = created /\ deleted' = deleted /\ (proc'[p].op = r.op \/ r.op \notin {"create", "delete"})
  \/ /\ r.op = "create" /\ deleted' = deleted /\ proc'[p].op = "none"
     /\ \E x \in {"failed", "partial", "ok", "rolledback"} :
          /\ created' = [created EXCEPT ![a] = x]
          /\ x = "ok" => /\ r.at = "jobs" /\ commands[a] = Jobs
                         /\ UNCHANGED <<docs, cache, bucket, commands>>
          /\ x = "rolledback" =>
               /\ r.at \in Removing /\ holders' = holders
               /\ \/ faults' = faults + 1
                  \/ r.at = "find" /\ docs[a] = Gone
                  \/ r.at = "remove" /\ docs' = [docs EXCEPT ![a] = Gone] /\ cache' = cache
  \/ /\ r.op = "delete" /\ created' = created /\ proc'[p].op = "none"
     /\ \E x \in {"ok", "failed", "unknown"} : deleted' = [deleted EXCEPT ![a] = x]

\* The place a process goes on to, and what it has just done.
GoesOn(p) ==
  LET r == proc[p]  s == proc'[p]  a == r.acc IN
  \/ s.op = "none" /\ s.at = "idle"
  \/ /\ s.op = r.op /\ s.acc = a
     /\ \/ s.at = "cache" /\ r.at = "insert"
        \/ s.at = "undo" /\ r.at = "cache"
        \/ s.at = "bucket" /\ r.at = "cache" /\ cache' = [cache EXCEPT ![a] = docs[a]] /\ docs' = docs
        \/ s.at = "configure" /\ r.at = "bucket"
        \/ s.at = "email" /\ r.at = "configure" /\ bucket' = [bucket EXCEPT ![a] = "ready"]
        \/ s.at = "jobs" /\ r.at = "email"
        \/ s.at = "jobs" /\ r.at = "jobs" /\ holders' = holders
        \/ s.at = "drop" /\ r.at = "lookup"
        \/ s.at = "find" /\ r.at \in {"bucket", "configure"} /\ faults' = faults + 1
        \/ s.at = "find" /\ r.at = "drop"
        \/ s.at = "uncache" /\ r.at = "find" /\ docs[a] # Gone
        \/ s.at = "remove" /\ r.at = "uncache" /\ cache' = [cache EXCEPT ![a] = Gone]
        \/ s.at = "fanout" /\ s.op = "delete"
        \/ s.at = "store" /\ r.at = "refresh" /\ docs[a] # Gone /\ s.seen = docs[a]
        \/ s.at = "verify" /\ r.at = "refresh" /\ docs[a] = Gone /\ cache' = cache
        \/ /\ s.at = "verify" /\ r.at = "store" /\ s.op = "auth"
           /\ cache' = [cache EXCEPT ![a] = r.seen]
        \/ s.at = "log" /\ r.at = "verify"
        \/ s.at = "reread" /\ r.at = "apply"
        \/ s.at = "usage" /\ r.at = "reread" /\ docs[a] # Gone /\ s.seen = docs[a]
        \/ s.at = "store" /\ r.at = "usage" /\ s.seen = r.seen

Works(p) ==
  /\ \A q \in Procs : q # p => proc'[q] = proc[q]
  /\ Writes(p) /\ Answers(p) /\ GoesOn(p)

\* A message leaves its queue when its consumer has stored the update; one that is not
\* done is put back.
Dequeues(p) ==
  /\ sent' = sent
  /\ \/ updates' = updates
     \/ /\ p \in Keys /\ proc[p].at = "store" /\ updates[p] # <<>>
        /\ updates' = [updates EXCEPT ![p] = Tail(updates[p])]
     \/ p \in Keys /\ Requeue(p)

\* What a step of a client's request writes, answers and goes on to.
LEMMA HandleWorks ==
  ASSUME Types, Stages, Roles, NEW p \in Clients, Handle(p)
  PROVE Works(p)
<1> USE DEF At, Acc, NoFault, Fault, Maybe, Becomes, KeepDocs, Goto, End, stores, queues, answers, clients
<1>0. /\ p \in Procs /\ proc[p] \in Requests /\ proc \in [Procs -> Requests]
      /\ Idle.op = "none" /\ Idle.at = "idle"
  BY ProcsAre, RequestMoves, IdleIs DEF Types, ProcType
<1>s. /\ proc[p].at \in Provisioning \cup {"insert"} => proc[p].op = "create"
      /\ proc[p].at \in {"lookup", "drop", "fanout"} => proc[p].op = "delete"
      /\ proc[p].at \in Removing => proc[p].op \in {"create", "delete"}
      /\ proc[p].at \in {"refresh", "store", "verify", "log"} => proc[p].op = "auth"
  BY DEF Stages, Roles
<1>o. \A q \in Procs : q # p => proc'[q] = proc[q] BY HandleTouchesOne DEF Types
<1> USE DEF Provisioning, Removing, Requests
<1>1. CASE InsertAccount(p)
  <2>1. Writes(p) BY <1>1, <1>0, <1>s DEF InsertAccount, Writes
  <2>2. Answers(p) BY <1>1, <1>0, <1>s DEF InsertAccount, Answers
  <2>3. GoesOn(p) BY <1>1, <1>0, <1>s DEF InsertAccount, GoesOn
  <2> QED BY <1>o, <2>1, <2>2, <2>3 DEF Works
<1>2. CASE CacheNewAccount(p)
  <2>1. Writes(p) BY <1>2, <1>0, <1>s DEF CacheNewAccount, Writes
  <2>2. Answers(p) BY <1>2, <1>0, <1>s DEF CacheNewAccount, Answers
  <2>3. GoesOn(p) BY <1>2, <1>0, <1>s DEF CacheNewAccount, GoesOn
  <2> QED BY <1>o, <2>1, <2>2, <2>3 DEF Works
<1>3. CASE CreateBucket(p)
  <2>1. Writes(p) BY <1>3, <1>0, <1>s DEF CreateBucket, Writes
  <2>2. Answers(p) BY <1>3, <1>0, <1>s DEF CreateBucket, Answers
  <2>3. GoesOn(p) BY <1>3, <1>0, <1>s DEF CreateBucket, GoesOn
  <2> QED BY <1>o, <2>1, <2>2, <2>3 DEF Works
<1>4. CASE ConfigureBucket(p)
  <2>1. Writes(p) BY <1>4, <1>0, <1>s DEF ConfigureBucket, Writes
  <2>2. Answers(p) BY <1>4, <1>0, <1>s DEF ConfigureBucket, Answers
  <2>3. GoesOn(p) BY <1>4, <1>0, <1>s DEF ConfigureBucket, GoesOn
  <2> QED BY <1>o, <2>1, <2>2, <2>3 DEF Works
<1>5. CASE EmailKeys(p)
  <2>1. Writes(p) BY <1>5, <1>0, <1>s DEF EmailKeys, Writes
  <2>2. Answers(p) BY <1>5, <1>0, <1>s DEF EmailKeys, Answers
  <2>3. GoesOn(p) BY <1>5, <1>0, <1>s DEF EmailKeys, GoesOn
  <2> QED BY <1>o, <2>1, <2>2, <2>3 DEF Works
<1>6. CASE PublishJob(p)
  <2>1. Writes(p) BY <1>6, <1>0, <1>s DEF PublishJob, Writes
  <2>2. Answers(p) BY <1>6, <1>0, <1>s DEF PublishJob, Answers
  <2>3. GoesOn(p) BY <1>6, <1>0, <1>s DEF PublishJob, GoesOn
  <2> QED BY <1>o, <2>1, <2>2, <2>3 DEF Works
<1>7. CASE LookUp(p)
  <2>1. Writes(p) BY <1>7, <1>0, <1>s DEF LookUp, Writes, Answer
  <2>2. Answers(p) BY <1>7, <1>0, <1>s DEF LookUp, Answers, Answer
  <2>3. GoesOn(p) BY <1>7, <1>0, <1>s DEF LookUp, GoesOn, Answer
  <2> QED BY <1>o, <2>1, <2>2, <2>3 DEF Works
<1>8. CASE DropBucket(p)
  <2>1. Writes(p) BY <1>8, <1>0, <1>s DEF DropBucket, Writes, Answer
  <2>2. Answers(p) BY <1>8, <1>0, <1>s DEF DropBucket, Answers, Answer
  <2>3. GoesOn(p) BY <1>8, <1>0, <1>s DEF DropBucket, GoesOn, Answer
  <2> QED BY <1>o, <2>1, <2>2, <2>3 DEF Works
<1>9. CASE FindAccount(p)
  <2>1. Writes(p) BY <1>9, <1>0, <1>s DEF FindAccount, Writes, Answer, Removed
  <2>2. Answers(p) BY <1>9, <1>0, <1>s DEF FindAccount, Answers, Answer, Removed
  <2>3. GoesOn(p) BY <1>9, <1>0, <1>s DEF FindAccount, GoesOn, Answer, Removed
  <2> QED BY <1>o, <2>1, <2>2, <2>3 DEF Works
<1>10. CASE DeleteCachedAccount(p)
  <2>1. Writes(p) BY <1>10, <1>0, <1>s DEF DeleteCachedAccount, Writes, Answer
  <2>2. Answers(p) BY <1>10, <1>0, <1>s DEF DeleteCachedAccount, Answers, Answer
  <2>3. GoesOn(p) BY <1>10, <1>0, <1>s DEF DeleteCachedAccount, GoesOn, Answer
  <2> QED BY <1>o, <2>1, <2>2, <2>3 DEF Works
<1>11. CASE RemoveAccount(p)
  <2>1. Writes(p) BY <1>11, <1>0, <1>s DEF RemoveAccount, Writes, Answer, Removed
  <2>2. Answers(p) BY <1>11, <1>0, <1>s DEF RemoveAccount, Answers, Answer, Removed
  <2>3. GoesOn(p) BY <1>11, <1>0, <1>s DEF RemoveAccount, GoesOn, Answer, Removed
  <2> QED BY <1>o, <2>1, <2>2, <2>3 DEF Works
<1>12. CASE FanOut(p)
  <2>1. Writes(p) BY <1>12, <1>0, <1>s DEF FanOut, Writes, Answer, PostWithRetry
  <2>2. Answers(p) BY <1>12, <1>0, <1>s DEF FanOut, Answers, Answer, PostWithRetry
  <2>3. GoesOn(p) BY <1>12, <1>0, <1>s DEF FanOut, GoesOn, Answer, PostWithRetry
  <2> QED BY <1>o, <2>1, <2>2, <2>3 DEF Works
<1>13. CASE RefreshAccountDataCache(p)
  <2>1. Writes(p) BY <1>13, <1>0, <1>s DEF RefreshAccountDataCache, Writes
  <2>2. Answers(p) BY <1>13, <1>0, <1>s DEF RefreshAccountDataCache, Answers
  <2>3. GoesOn(p) BY <1>13, <1>0, <1>s DEF RefreshAccountDataCache, GoesOn
  <2> QED BY <1>o, <2>1, <2>2, <2>3 DEF Works
<1>14. CASE VerifyAccountKeys(p)
  <2>1. Writes(p) BY <1>14, <1>0, <1>s DEF VerifyAccountKeys, Writes
  <2>2. Answers(p) BY <1>14, <1>0, <1>s DEF VerifyAccountKeys, Answers
  <2>3. GoesOn(p) BY <1>14, <1>0, <1>s DEF VerifyAccountKeys, GoesOn
  <2> QED BY <1>o, <2>1, <2>2, <2>3 DEF Works
<1>15. CASE LogFailedAuth(p)
  <2>1. Writes(p) BY <1>15, <1>0, <1>s DEF LogFailedAuth, Writes
  <2>2. Answers(p) BY <1>15, <1>0, <1>s DEF LogFailedAuth, Answers
  <2>3. GoesOn(p) BY <1>15, <1>0, <1>s DEF LogFailedAuth, GoesOn
  <2> QED BY <1>o, <2>1, <2>2, <2>3 DEF Works
<1>16. CASE TakeBack(p)
  <2>1. Writes(p) BY <1>16, <1>0, <1>s DEF TakeBack, Writes
  <2>2. Answers(p) BY <1>16, <1>0, <1>s DEF TakeBack, Answers
  <2>3. GoesOn(p) BY <1>16, <1>0, <1>s DEF TakeBack, GoesOn
  <2> QED BY <1>o, <2>1, <2>2, <2>3 DEF Works
<1> QED
  BY <1>1, <1>2, <1>3, <1>4, <1>5, <1>6, <1>7, <1>8, <1>9, <1>10, <1>11, <1>12, <1>13, <1>14, <1>15,
     <1>16 DEF Handle

\* What a consumer that is at work does.
LEMMA ConsumeWorks ==
  ASSUME Types, NEW k \in Keys, ApplyUpdate(k) \/ ReadUpdated(k) \/ StoreUpdated(k)
  PROVE Works(k)
<1> USE DEF At, Acc, NoFault, Fault, Maybe, Becomes, KeepDocs, Goto, End, stores, answers, clients
<1>0. /\ k \in Procs /\ proc[k] \in Requests /\ proc \in [Procs -> Requests]
      /\ Idle.op = "none" /\ Idle.at = "idle" /\ proc[k].op \notin {"create", "delete"}
  BY ProcsAre, RequestMoves, IdleIs DEF Types, ProcType, InHand
<1>1. CASE ApplyUpdate(k)
  BY <1>0, <1>1 DEF ApplyUpdate, Works, Writes, Answers, GoesOn, Requests
<1>2. CASE ReadUpdated(k)
  BY <1>0, <1>2 DEF ReadUpdated, Works, Writes, Answers, GoesOn, Requests
<1>3. CASE StoreUpdated(k)
  BY <1>0, <1>3 DEF StoreUpdated, Works, Writes, Answers, GoesOn, Requests
<1> QED BY <1>1, <1>2, <1>3

\* Being cut off writes nothing; a creation or a deletion counts as failed.
LEMMA CutOffWorks ==
  ASSUME Types, NEW p \in Procs, CutOff(p)
  PROVE Works(p)
<1> USE DEF Acc, Fault, End, stores, clients
<1>0. /\ proc[p] \in Requests /\ proc \in [Procs -> Requests]
      /\ Idle.op = "none" /\ Idle.at = "idle"
  BY RequestMoves, IdleIs DEF Types, ProcType
<1>1. Writes(p) BY DEF CutOff, Writes
<1>2. Answers(p) BY <1>0 DEF CutOff, Answers
<1>3. GoesOn(p) BY <1>0 DEF CutOff, GoesOn
<1>4. \A q \in Procs : q # p => proc'[q] = proc[q] BY <1>0 DEF CutOff
<1> QED BY <1>1, <1>2, <1>3, <1>4 DEF Works

\* The stores and answers of other accounts are left alone, and the types kept.
LEMMA WorksTouchesOne ==
  ASSUME Types, DataTypes, NEW p \in Procs, Works(p)
  PROVE /\ DataTypes'
        /\ \A b \in Accounts : b # proc[p].acc =>
             /\ docs'[b] = docs[b] /\ cache'[b] = cache[b] /\ bucket'[b] = bucket[b]
             /\ commands'[b] = commands[b] /\ token'[b] = token[b]
             /\ created'[b] = created[b] /\ deleted'[b] = deleted[b]
             /\ b \in holders' => b \in holders
        /\ holders \subseteq holders' /\ faults <= faults'
<1>0. Writes(p) /\ Answers(p) /\ proc[p] \in Requests BY RequestMoves DEF Works, Types
<1> DEFINE a == proc[p].acc
<1>1. a \in Accounts BY <1>0 DEF Requests
<1>2. \A b \in Accounts : b # a => docs'[b] = docs[b]
  BY <1>0, <1>1 DEF Writes, Applied, Types, StoreType
<1>3. \A b \in Accounts : b # a => /\ cache'[b] = cache[b] /\ bucket'[b] = bucket[b]
                                   /\ commands'[b] = commands[b] /\ token'[b] = token[b]
                                   /\ b \in holders' => b \in holders
  BY <1>0, <1>1 DEF Writes, Types, StoreType, DataTypes
<1>4. \A b \in Accounts : b # a => created'[b] = created[b] /\ deleted'[b] = deleted[b]
  BY <1>0, <1>1 DEF Answers, Types, StoreType
<1>5. holders \subseteq holders' /\ faults <= faults' BY <1>0 DEF Writes, DataTypes
<1>6. DataTypes'
  <2>1. faults' \in Nat /\ holders' \subseteq Accounts BY <1>0, <1>1 DEF Writes, DataTypes
  <2>2. token' \in [Accounts -> Docs] BY <1>0, <1>1 DEF Writes, DataTypes, Types, StoreType
  <2>3. commands' \in [Accounts -> Nat] BY <1>0, <1>1 DEF Writes, DataTypes
  <2> QED BY <2>1, <2>2, <2>3 DEF DataTypes
<1> QED BY <1>2, <1>3, <1>4, <1>5, <1>6

\* A process that neither creates nor deletes is at a place of its own, ...
LEMMA PassiveIs ==
  ASSUME Types, Stages, Roles, NEW p \in Procs, proc[p].op \notin {"create", "delete"}
  PROVE proc[p].at \in Passive
<1>1. proc[p].at \in Places BY RequestMoves DEF Types, Requests
<1>2. CASE p \in Clients BY <1>1, <1>2 DEF Stages, Places, Provisioning, Removing, Passive
<1>3. CASE p \in Keys BY <1>3 DEF Roles, Passive
<1> QED BY <1>2, <1>3 DEF Procs

\* ... from where it neither creates nor removes anything; it may store in the cache
\* what it has seen, and answers for nobody's creation or deletion.
LEMMA PassiveKeeps ==
  ASSUME Types, Roles, NEW p \in Procs, Works(p), proc[p].at \in Passive,
         proc[p].op \notin {"create", "delete"}
  PROVE /\ \A b \in Accounts : /\ docs'[b] = Gone <=> docs[b] = Gone
                               /\ cache'[b] = cache[b] \/
                                    (b = proc[p].acc /\ proc[p].at = "store" /\ cache'[b] = proc[p].seen)
        /\ bucket' = bucket /\ commands' = commands /\ holders' = holders
        /\ created' = created /\ deleted' = deleted
<1>0. Writes(p) /\ Answers(p) /\ proc[p] \in Requests BY RequestMoves DEF Works, Types
<1>1. bucket' = bucket /\ commands' = commands /\ holders' = holders BY <1>0 DEF Writes, Passive
<1>2. created' = created /\ deleted' = deleted BY <1>0 DEF Answers
<1>3. \A b \in Accounts : docs'[b] = Gone <=> docs[b] = Gone
  <2>1. docs' = docs \/ (proc[p].at = "apply" /\ docs' = Applied(proc[p].acc, p, proc[p].val))
    BY <1>0 DEF Writes, Passive
  <2>2. proc[p].at = "apply" => p \in Keys BY DEF Roles, Procs
  <2>3. proc[p].acc \in Accounts /\ proc[p].val \in Nat BY <1>0 DEF Requests
  <2> QED BY <2>1, <2>2, <2>3, AppliedKeeps
<1>4. \A b \in Accounts : cache'[b] = cache[b] \/
        (b = proc[p].acc /\ proc[p].at = "store" /\ cache'[b] = proc[p].seen)
  BY <1>0 DEF Writes, Passive, Requests, Types, StoreType
<1> QED BY <1>1, <1>2, <1>3, <1>4

\* Only an account whose keys have left the service is authenticated, named by a token,
\* or updated; and the keys of one that is being created or rolled back have not.
Reached ==
  /\ \A a \in Accounts : a \in holders => created[a] \notin {"no", "rolledback"}
  /\ \A p \in Clients : proc[p].op = "create" /\ proc[p].at # "jobs" => proc[p].acc \notin holders
  /\ \A a \in Accounts : token[a] # Gone => a \in holders
  /\ \A p \in Clients : proc[p].op = "auth" => proc[p].acc \in holders
  /\ \A k \in Keys : proc[k].at # "idle" => proc[k].acc \in holders
MessagesTo(S) == [acc : S, val : Nat]
MessagesReached == updates \in [Keys -> Seq(MessagesTo(holders))]

\* What is stored in the cache is a document.
Stored == \A p \in Procs : proc[p].at \in {"store", "usage"} => proc[p].seen # Gone

\* A creation has the cache behind it when it reaches the bucket, and the bucket when
\* it reaches the mail.
Provisioned ==
  \A p \in Clients :
    /\ proc[p].at \in {"bucket", "configure", "email", "jobs"} => cache[proc[p].acc] # Gone
    /\ proc[p].at \in {"email", "jobs"} => bucket[proc[p].acc] = "ready"

\* The account was created, and nobody has asked or is asking for its deletion.
Untouched(a) ==
  /\ created[a] = "ok" /\ deleted[a] = "no"
  /\ \A p \in Clients : proc[p].op = "delete" => proc[p].acc # a
Whole == \A a \in Accounts :
  Untouched(a) => docs[a] # Gone /\ cache[a] # Gone /\ bucket[a] = "ready" /\ commands[a] = Jobs

\* A roll-back follows a failed call; it has its document until it removes it, and has
\* emptied the cache before.
RollingBack ==
  \A p \in Clients : proc[p].op = "create" /\ proc[p].at \in Removing =>
    /\ faults >= 1 /\ docs[proc[p].acc] # Gone
    /\ proc[p].at = "remove" => cache[proc[p].acc] = Gone
RolledBack ==
  \A a \in Accounts : created[a] = "rolledback" /\ faults <= 1 => docs[a] = Gone /\ cache[a] = Gone

CreationInv ==
  /\ DataTypes /\ Roles /\ Reached /\ MessagesReached /\ Stored
  /\ Provisioned /\ Whole /\ RollingBack /\ RolledBack

\* While an account is created, everybody else who is at it is passive.
LEMMA Bystanders ==
  ASSUME Types, StageInv, Roles, NEW q \in Clients, proc[q].op = "create",
         NEW p \in Procs, p # q, proc[p].acc = proc[q].acc
  PROVE proc[p].at \in Passive /\ proc[p].op \notin {"create", "delete"}
<1>1. CASE p \in Clients BY <1>1, PassiveIs DEF StageInv, Creating, Deleting
<1>2. CASE p \in Keys BY <1>2, PassiveIs DEF StageInv, Types, InHand
<1> QED BY <1>1, <1>2 DEF Procs

\* So is everybody at an account nobody creates or deletes.
LEMMA UntouchedPassive ==
  ASSUME Types, StageInv, Roles, NEW p \in Procs, Untouched(proc[p].acc)
  PROVE proc[p].at \in Passive /\ proc[p].op \notin {"create", "delete"}
<1>1. CASE p \in Clients BY <1>1, PassiveIs DEF StageInv, Creating, Untouched
<1>2. CASE p \in Keys BY <1>2, PassiveIs DEF StageInv, Types, InHand
<1> QED BY <1>1, <1>2 DEF Procs

\* Processes stay in their roles, ...
LEMMA WorksKeepsRoles ==
  ASSUME Types, Stages, Roles, NEW p \in Procs, Works(p)
  PROVE Roles'
<1>1. \A q \in Procs : q # p => proc'[q] = proc[q] BY DEF Works
<1>2. GoesOn(p) /\ Clients \subseteq Procs /\ Keys \subseteq Procs BY ProcsAre DEF Works
<1>3. CASE p \in Clients
  <2>1. /\ proc'[p].at \in {"refresh", "store", "verify", "log"} => proc'[p].op = "auth"
        /\ proc'[p].at \notin {"apply", "reread", "usage"}
        /\ proc'[p].at = "idle" <=> proc'[p].op = "none"
    BY <1>2, <1>3 DEF Roles, GoesOn, Stages, Removing, Provisioning
  <2> QED BY <1>1, <1>2, <1>3, <2>1, ProcsAre DEF Roles
<1>4. CASE p \in Keys
  <2>0. proc[p].op \in {"none", "update"} /\ proc[p].at \in {"idle", "apply", "reread", "usage", "store"}
    BY <1>4 DEF Roles, Types, InHand
  <2>1. proc'[p].at \in {"idle", "apply", "reread", "usage", "store"} BY <1>2, <2>0 DEF GoesOn
  <2> QED BY <1>1, <1>2, <1>4, <2>1, ProcsAre DEF Roles
<1> QED BY <1>3, <1>4 DEF Procs

\* ... only accounts whose keys have left are reached, ...
LEMMA WorksKeepsReached ==
  ASSUME Types, StageInv, DataTypes, Roles, Reached, NEW p \in Procs, Works(p)
  PROVE Reached'
<1> DEFINE a == proc[p].acc
<1>0. /\ a \in Accounts /\ \A q \in Procs : q # p => proc'[q] = proc[q]
      /\ Writes(p) /\ Answers(p) /\ GoesOn(p) /\ proc[p] \in Requests
      /\ Clients \subseteq Procs /\ Keys \subseteq Procs
      /\ \A q \in Procs : proc[q].acc \in Accounts
  BY ProcsAre, RequestMoves DEF Works, Types, Requests
<1>1. /\ holders \subseteq holders'
      /\ \A b \in Accounts : b # a => /\ token'[b] = token[b] /\ created'[b] = created[b]
                                      /\ b \in holders' => b \in holders
  BY WorksTouchesOne
<1>2. p \in Clients => proc[p].op = "create" \/ holders' = holders
  BY <1>0 DEF Writes, StageInv, Stages, Provisioning
<1>3. p \in Keys => holders' = holders /\ created' = created /\ proc[p].at # "verify"
  <2>1. p \in Keys => proc[p].op \notin {"create", "delete"} /\ proc[p].at \notin {"email", "jobs", "verify"}
    BY DEF Types, InHand, Roles
  <2> QED BY <1>0, <2>1 DEF Writes, Answers
<1>4. \A b \in Accounts : b \in holders' => created'[b] \notin {"no", "rolledback"}
  <2>1. CASE proc[p].op = "create"
    <3>1. p \in Clients /\ created[a] = "asked" BY <1>0, <2>1 DEF StageInv, Creating, Types, InHand, Procs
    <3>2. created'[a] = "rolledback" => a \notin holders'
      BY <1>0, <2>1, <3>1 DEF Answers, Reached, Removing, Types, StoreType
    <3>3. created'[a] # "no" BY <1>0, <2>1, <3>1 DEF Answers, Types, StoreType
    <3> QED BY <1>1, <3>2, <3>3 DEF Reached
  <2>2. CASE proc[p].op # "create"
    <3>1. created' = created BY <1>0, <2>2 DEF Answers
    <3>2. holders' = holders BY <1>2, <1>3, <2>2 DEF Procs
    <3> QED BY <3>1, <3>2 DEF Reached
  <2> QED BY <2>1, <2>2
<1>5. \A q \in Clients : proc'[q].op = "create" /\ proc'[q].at # "jobs" => proc'[q].acc \notin holders'
  <2> SUFFICES ASSUME NEW q \in Clients, proc'[q].op = "create", proc'[q].at # "jobs"
               PROVE  proc'[q].acc \notin holders'
    OBVIOUS
  <2>1. CASE q = p
    <3>1. proc[p].op = "create" /\ proc[p].at \notin {"email", "jobs"} /\ proc'[p].acc = a
      BY <1>0, <2>1 DEF GoesOn
    <3>2. holders' = holders BY <1>0, <3>1 DEF Writes
    <3> QED BY <2>1, <3>1, <3>2 DEF Reached
  <2>2. CASE q # p
    <3>1. proc[q].op = "create" /\ proc[q].acc \notin holders /\ proc'[q].acc = proc[q].acc
      BY <1>0, <2>2 DEF Reached
    <3>2. CASE proc[q].acc = a
      <4>1. proc[p].op # "create" BY <2>2, <3>1, <3>2, Bystanders
      <4>2. holders' = holders BY <1>2, <1>3, <4>1 DEF Procs
      <4> QED BY <3>1, <4>2
    <3>3. CASE proc[q].acc # a BY <1>0, <1>1, <3>1, <3>3
    <3> QED BY <3>2, <3>3
  <2> QED BY <2>1, <2>2
<1>6. \A b \in Accounts : token'[b] # Gone => b \in holders'
  <2>1. token'[a] # token[a] => proc[p].at = "verify" BY <1>0 DEF Writes
  <2>2. proc[p].at = "verify" => a \in holders BY <1>3 DEF Procs, Roles, Reached
  <2> QED BY <1>1, <2>1, <2>2 DEF Reached
<1>7. \A q \in Clients : proc'[q].op = "auth" => proc'[q].acc \in holders'
  BY <1>0, <1>1 DEF Reached, GoesOn
<1>8. \A k \in Keys : proc'[k].at # "idle" => proc'[k].acc \in holders'
  <2>1. p \in Keys /\ proc'[p].at # "idle" => proc[p].at # "idle" /\ proc'[p].acc = a
    BY <1>0 DEF GoesOn, Types, InHand
  <2> QED BY <1>0, <1>1, <2>1 DEF Reached
<1> QED BY <1>4, <1>5, <1>6, <1>7, <1>8 DEF Reached

\* ... and documents stored.
LEMMA WorksKeepsStored ==
  ASSUME Stored, NEW p \in Procs, Works(p)
  PROVE Stored'
<1>1. proc'[p].at \in {"store", "usage"} => proc'[p].seen # Gone BY DEF Works, GoesOn, Stored
<1> QED BY <1>1 DEF Works, Stored

\* What a creation has behind it stays: nobody else writes to its account but a
\* document into the cache.
LEMMA WorksKeepsProvisioned ==
  ASSUME Types, StageInv, DataTypes, Roles, Stored, Provisioned, NEW p \in Procs, Works(p)
  PROVE Provisioned'
<1> DEFINE a == proc[p].acc
<1>0. /\ a \in Accounts /\ \A q \in Procs : q # p => proc'[q] = proc[q]
      /\ Writes(p) /\ GoesOn(p) /\ Clients \subseteq Procs
      /\ \A q \in Procs : proc[q].acc \in Accounts
  BY ProcsAre, RequestMoves DEF Works, Types, Requests
<1>1. \A b \in Accounts : b # a => cache'[b] = cache[b] /\ bucket'[b] = bucket[b] BY WorksTouchesOne
<1> SUFFICES ASSUME NEW q \in Clients, proc'[q].at \in {"bucket", "configure", "email", "jobs"}
             PROVE  /\ cache'[proc'[q].acc] # Gone
                    /\ proc'[q].at \in {"email", "jobs"} => bucket'[proc'[q].acc] = "ready"
  BY DEF Provisioned
<1>2. CASE q = p
  <2>1. proc'[p].acc = a BY <1>0, <1>2 DEF GoesOn
  <2>2. CASE proc'[p].at = "bucket"
    <3>1. proc[p].at = "cache" /\ cache' = [cache EXCEPT ![a] = docs[a]] BY <1>0, <2>2 DEF GoesOn
    <3>2. docs[a] # Gone BY <1>2, <3>1 DEF StageInv, HasDocument, Provisioning
    <3> QED BY <1>0, <1>2, <2>1, <2>2, <3>1, <3>2 DEF Types, StoreType
  <2>3. CASE proc'[p].at # "bucket"
    <3>1. proc[p].at \in {"bucket", "configure", "email", "jobs"} BY <1>0, <1>2, <2>3 DEF GoesOn
    <3>2. cache' = cache /\ cache[a] # Gone BY <1>0, <1>2, <3>1 DEF Writes, Provisioned
    <3>3. proc'[p].at \in {"email", "jobs"} => bucket'[a] = "ready"
      <4>1. CASE proc'[p].at = "email" BY <1>0, <4>1 DEF GoesOn, Types, StoreType
      <4>2. CASE proc'[p].at = "jobs"
        <5>1. proc[p].at \in {"email", "jobs"} BY <1>0, <4>2 DEF GoesOn
        <5> QED BY <1>0, <1>2, <5>1 DEF Writes, Provisioned
      <4> QED BY <4>1, <4>2
    <3> QED BY <1>2, <2>1, <3>2, <3>3
  <2> QED BY <2>2, <2>3
<1>3. CASE q # p
  <2>1. /\ proc'[q] = proc[q] /\ proc[q].op = "create" /\ cache[proc[q].acc] # Gone
        /\ proc[q].acc \in Accounts
        /\ proc[q].at \in {"email", "jobs"} => bucket[proc[q].acc] = "ready"
    BY <1>0, <1>3 DEF Provisioned, StageInv, Stages, Provisioning
  <2>2. CASE proc[q].acc = a
    <3>1. proc[p].at \in Passive /\ proc[p].op \notin {"create", "delete"} BY <1>3, <2>1, <2>2, Bystanders
    <3>2. bucket' = bucket /\ (cache'[a] = cache[a] \/ (proc[p].at = "store" /\ cache'[a] = proc[p].seen))
      BY <1>0, <3>1, PassiveKeeps
    <3> QED BY <2>1, <2>2, <3>2 DEF Stored
  <2>3. CASE proc[q].acc # a BY <1>0, <1>1, <2>1, <2>3
  <2> QED BY <2>2, <2>3
<1> QED BY <1>2, <1>3

\* A creation answers "ok" when the account is whole, and nothing is taken from the
\* account before somebody asks for its deletion.
LEMMA WorksKeepsWhole ==
  ASSUME Types, StageInv, DataTypes, Roles, Stored, Provisioned, Whole, NEW p \in Procs, Works(p)
  PROVE Whole'
<1> DEFINE a == proc[p].acc
<1>0. /\ a \in Accounts /\ \A q \in Procs : q # p => proc'[q] = proc[q]
      /\ Answers(p) /\ GoesOn(p) /\ Clients \subseteq Procs /\ proc[p] \in Requests
  BY ProcsAre, RequestMoves DEF Works, Types, Requests
<1>1. \A b \in Accounts : b # a =>
        /\ docs'[b] = docs[b] /\ cache'[b] = cache[b] /\ bucket'[b] = bucket[b]
        /\ commands'[b] = commands[b] /\ created'[b] = created[b] /\ deleted'[b] = deleted[b]
  BY WorksTouchesOne
<1> SUFFICES ASSUME NEW b \in Accounts, Untouched(b)'
             PROVE  docs'[b] # Gone /\ cache'[b] # Gone /\ bucket'[b] = "ready" /\ commands'[b] = Jobs
  BY DEF Whole
\* A deletion that goes on or ends does not leave the account untouched.
<1>2. b = a => proc[p].op # "delete"
  <2> SUFFICES ASSUME b = a, proc[p].op = "delete" PROVE FALSE OBVIOUS
  <2>1. p \in Clients BY DEF Procs, Types, InHand
  <2>2. CASE proc'[p].op = "delete" BY <1>0, <2>1, <2>2 DEF GoesOn, Untouched
  <2>3. CASE proc'[p].op # "delete" BY <1>0, <2>3 DEF Answers, Untouched, Types, StoreType
  <2> QED BY <2>2, <2>3
<1>3. CASE created[b] = "ok"
  <2>1. deleted[b] = "no" /\ \A q \in Clients : proc[q].op = "delete" => proc[q].acc # b
    <3>1. \A q \in Clients : proc[q].op = "delete" => proc[q].acc # b BY <1>0, <1>2 DEF Untouched
    <3>2. deleted[b] = "no"
      <4>1. CASE b = a BY <1>0, <1>2, <4>1 DEF Answers, Untouched
      <4>2. CASE b # a BY <1>1, <4>2 DEF Untouched
      <4> QED BY <4>1, <4>2
    <3> QED BY <3>1, <3>2
  <2>2. Untouched(b) BY <1>3, <2>1 DEF Untouched
  <2>3. docs[b] # Gone /\ cache[b] # Gone /\ bucket[b] = "ready" /\ commands[b] = Jobs
    BY <2>2 DEF Whole
  <2>4. CASE b = a
    <3>1. proc[p].at \in Passive /\ proc[p].op \notin {"create", "delete"} BY <2>2, <2>4, UntouchedPassive
    <3>2. /\ docs'[b] = Gone <=> docs[b] = Gone
          /\ cache'[b] = cache[b] \/ (proc[p].at = "store" /\ cache'[b] = proc[p].seen)
          /\ bucket' = bucket /\ commands' = commands
      BY <3>1, PassiveKeeps
    <3> QED BY <2>3, <3>2 DEF Stored
  <2>5. CASE b # a BY <1>1, <2>3, <2>5
  <2> QED BY <2>4, <2>5
<1>4. CASE created[b] # "ok"
  <2>1. b = a /\ created'[b] = "ok" BY <1>1, <1>4 DEF Untouched
  <2>2. /\ proc[p].op = "create" /\ proc[p].at = "jobs" /\ commands[a] = Jobs
        /\ UNCHANGED <<docs, cache, bucket, commands>>
    BY <1>0, <1>4, <2>1 DEF Answers, Types, StoreType
  <2>3. p \in Clients BY <2>2 DEF Procs, Types, InHand
  <2>4. docs[a] # Gone /\ cache[a] # Gone /\ bucket[a] = "ready"
    BY <2>2, <2>3 DEF StageInv, HasDocument, Provisioning, Provisioned
  <2> QED BY <2>1, <2>2, <2>4
<1> QED BY <1>3, <1>4

\* A roll-back finds what it has to take back, ...
LEMMA WorksKeepsRollingBack ==
  ASSUME Types, StageInv, DataTypes, Roles, Reached, RollingBack, NEW p \in Procs, Works(p)
  PROVE RollingBack'
<1> DEFINE a == proc[p].acc
<1>0. /\ a \in Accounts /\ \A q \in Procs : q # p => proc'[q] = proc[q]
      /\ Writes(p) /\ GoesOn(p) /\ Clients \subseteq Procs
      /\ \A q \in Procs : proc[q].acc \in Accounts
  BY ProcsAre, RequestMoves DEF Works, Types, Requests
<1>1. /\ \A b \in Accounts : b # a => cache'[b] = cache[b] /\ docs'[b] = docs[b]
      /\ faults <= faults' /\ faults \in Nat /\ faults' \in Nat
  BY WorksTouchesOne DEF DataTypes
<1> SUFFICES ASSUME NEW q \in Clients, proc'[q].op = "create", proc'[q].at \in Removing
             PROVE  /\ faults' >= 1 /\ docs'[proc'[q].acc] # Gone
                    /\ proc'[q].at = "remove" => cache'[proc'[q].acc] = Gone
  BY DEF RollingBack
<1>2. CASE q = p
  <2>1. proc'[p].acc = a /\ proc[p].op = "create" BY <1>0, <1>2 DEF GoesOn
  <2>2. CASE proc'[p].at = "find"
    <3>1. proc[p].at \in {"bucket", "configure"} /\ faults' = faults + 1
      BY <1>0, <1>2, <2>1, <2>2 DEF GoesOn, StageInv, Stages
    <3>2. docs' = docs /\ docs[a] # Gone
      BY <1>0, <1>2, <3>1 DEF Writes, StageInv, HasDocument, Provisioning
    <3> QED BY <1>1, <1>2, <2>1, <2>2, <3>1, <3>2
  <2>3. CASE proc'[p].at # "find"
    <3>1. /\ proc[p].at \in {"find", "uncache"}
          /\ proc'[p].at = "remove" => cache' = [cache EXCEPT ![a] = Gone]
      BY <1>0, <1>2, <2>3 DEF GoesOn, Removing
    <3>2. docs' = docs BY <1>0, <3>1 DEF Writes
    <3>3. faults >= 1 /\ docs[a] # Gone BY <1>2, <2>1, <3>1 DEF RollingBack, Removing
    <3> QED BY <1>0, <1>1, <1>2, <2>1, <3>1, <3>2, <3>3 DEF Types, StoreType
  <2> QED BY <2>2, <2>3
<1>3. CASE q # p
  <2>1. /\ proc'[q] = proc[q] /\ faults >= 1 /\ docs[proc[q].acc] # Gone
        /\ proc[q].at = "remove" => cache[proc[q].acc] = Gone
        /\ proc[q].acc \in Accounts /\ proc[q].acc \notin holders
    BY <1>0, <1>3 DEF RollingBack, Reached, Removing
  <2>2. CASE proc[q].acc = a
    <3>1. proc[p].at \in Passive /\ proc[p].op \notin {"create", "delete"} BY <1>3, <2>1, <2>2, Bystanders
    <3>2. /\ docs'[a] = Gone <=> docs[a] = Gone
          /\ cache'[a] = cache[a] \/ proc[p].at = "store"
      BY <1>0, <3>1, PassiveKeeps
    \* Whoever stores something has been reached by the account's keys.
    <3>3. proc[p].at # "store"
      <4>1. p \in Clients => proc[p].at # "store" BY <2>1, <2>2 DEF Roles, Reached
      <4>2. p \in Keys => proc[p].at # "store" BY <2>1, <2>2 DEF Reached
      <4> QED BY <4>1, <4>2 DEF Procs
    <3> QED BY <1>1, <2>1, <2>2, <3>2, <3>3
  <2>3. CASE proc[q].acc # a BY <1>0, <1>1, <2>1, <2>3
  <2> QED BY <2>2, <2>3
<1> QED BY <1>2, <1>3

\* ... and when no call of its own failed, nothing stays or comes back.
LEMMA WorksKeepsRolledBack ==
  ASSUME Types, StageInv, DataTypes, Roles, Reached, RollingBack, RolledBack, NEW p \in Procs, Works(p)
  PROVE RolledBack'
<1> DEFINE a == proc[p].acc
<1>0. /\ a \in Accounts /\ Writes(p) /\ Answers(p) /\ proc[p] \in Requests
  BY ProcsAre, RequestMoves DEF Works, Types, Requests
<1>1. /\ \A b \in Accounts : b # a => /\ cache'[b] = cache[b] /\ docs'[b] = docs[b]
                                      /\ created'[b] = created[b]
      /\ faults <= faults' /\ faults \in Nat /\ faults' \in Nat
  BY WorksTouchesOne DEF DataTypes
<1> SUFFICES ASSUME NEW b \in Accounts, created'[b] = "rolledback", faults' <= 1
             PROVE  docs'[b] = Gone /\ cache'[b] = Gone
  BY DEF RolledBack
<1>2. CASE created[b] = "rolledback"
  <2>1. docs[b] = Gone /\ cache[b] = Gone BY <1>1, <1>2 DEF RolledBack
  <2>2. CASE b = a
    <3>1. a \notin holders BY <1>2, <2>2 DEF Reached
    <3>2. p \in Clients => proc[p].op # "create" /\ proc[p].at \notin {"insert", "cache", "store"}
      BY <1>2, <2>2, <3>1 DEF StageInv, Creating, Stages, Provisioning, Roles, Reached
    <3>3. p \in Keys => proc[p].at = "idle" BY <3>1 DEF Reached
    <3>4. proc[p].at \notin {"insert", "cache", "store", "apply"} BY <3>2, <3>3 DEF Procs, Roles
    <3>5. docs'[a] = Gone BY <1>0, <2>1, <2>2, <3>4 DEF Writes, Types, StoreType
    <3>6. cache'[a] = Gone BY <1>0, <2>1, <2>2, <3>4 DEF Writes, Types, StoreType
    <3> QED BY <2>2, <3>5, <3>6
  <2>3. CASE b # a BY <1>1, <2>1, <2>3
  <2> QED BY <2>2, <2>3
<1>3. CASE created[b] # "rolledback"
  <2>1. b = a BY <1>1, <1>3
  <2>2. /\ proc[p].op = "create" /\ proc[p].at \in Removing
        /\ \/ faults' = faults + 1
           \/ proc[p].at = "find" /\ docs[a] = Gone
           \/ proc[p].at = "remove" /\ docs' = [docs EXCEPT ![a] = Gone] /\ cache' = cache
    BY <1>0, <1>3, <2>1 DEF Answers, Types, StoreType
  <2>3. p \in Clients BY <2>2 DEF Procs, Types, InHand
  <2>4. faults >= 1 /\ docs[a] # Gone /\ (proc[p].at = "remove" => cache[a] = Gone)
    BY <2>2, <2>3 DEF RollingBack
  <2>5. proc[p].at = "remove" /\ docs' = [docs EXCEPT ![a] = Gone] /\ cache' = cache
    BY <1>1, <2>2, <2>4
  <2> QED BY <1>0, <2>1, <2>4, <2>5 DEF Types, StoreType
<1> QED BY <1>2, <1>3

\* A queue of messages for reached accounts stays one while more are reached.
LEMMA MoreReached ==
  ASSUME NEW S, NEW T, S \subseteq T, NEW q \in Seq(MessagesTo(S))
  PROVE q \in Seq(MessagesTo(T))
<1>1. MessagesTo(S) \subseteq MessagesTo(T) BY DEF MessagesTo
<1>2. \A i \in 1 .. Len(q) : q[i] \in MessagesTo(T) BY <1>1
<1> QED BY <1>2

\* A step of a process at work keeps all of it, ...
LEMMA WorksKeepsCreations ==
  ASSUME Types, StageInv, CreationInv, NEW p \in Procs, Works(p), Dequeues(p)
  PROVE CreationInv'
<1> USE DEF CreationInv
<1>1. DataTypes' /\ holders \subseteq holders' BY WorksTouchesOne
<1>2. Roles' /\ Reached' /\ Stored'
  BY WorksKeepsRoles, WorksKeepsReached, WorksKeepsStored DEF StageInv
<1>3. Provisioned' /\ Whole' /\ RollingBack' /\ RolledBack'
  BY WorksKeepsProvisioned, WorksKeepsWhole, WorksKeepsRollingBack, WorksKeepsRolledBack
<1>4. MessagesReached'
  <2>1. updates' \in [Keys -> Seq(MessagesTo(holders))]
    <3>1. CASE updates' = updates BY <3>1 DEF MessagesReached
    <3>2. CASE updates' # updates
      <4>1. CASE p \in Keys /\ updates[p] # <<>> /\ updates' = [updates EXCEPT ![p] = Tail(updates[p])]
        <5>1. updates[p] \in Seq(MessagesTo(holders)) BY <4>1 DEF MessagesReached
        <5>2. Tail(updates[p]) \in Seq(MessagesTo(holders)) BY <4>1, <5>1
        <5> QED BY <4>1, <5>2 DEF MessagesReached
      <4>2. CASE p \in Keys /\ Requeue(p) BY <4>2, RequeueKeeps DEF MessagesReached
      <4> QED BY <3>2, <4>1, <4>2 DEF Dequeues
    <3> QED BY <3>1, <3>2
  <2>2. \A k \in Keys : updates'[k] \in Seq(MessagesTo(holders')) BY <1>1, <2>1, MoreReached
  <2> QED BY <2>1, <2>2 DEF MessagesReached
<1> QED BY <1>1, <1>2, <1>3, <1>4

\* ... so does a consumer that takes a message, ...
LEMMA TakeKeepsCreations ==
  ASSUME Types, StageInv, CreationInv, NEW k \in Keys, TakeUpdate(k)
  PROVE CreationInv'
<1> USE DEF CreationInv
<1>1. /\ UNCHANGED <<docs, cache, bucket, commands, created, deleted, holders, token, since, faults>>
      /\ k \in Procs /\ k \notin Clients /\ Clients \subseteq Procs /\ Keys \subseteq Procs
  BY ProcsAre DEF TakeUpdate, stores, answers, clients
<1>2. updates[k] \in Seq(MessagesTo(holders)) /\ updates[k] # <<>>
  BY DEF TakeUpdate, MessagesReached
<1>3. Head(updates[k]) \in MessagesTo(holders) /\ Tail(updates[k]) \in Seq(MessagesTo(holders))
  BY <1>2
<1> DEFINE r == [Idle EXCEPT !.op = "update", !.at = "apply", !.acc = Head(updates[k]).acc,
                             !.val = Head(updates[k]).val]
<1>4. /\ updates' = updates \/ updates' = [updates EXCEPT ![k] = Tail(updates[k])]
      /\ proc' = proc \/ proc' = [proc EXCEPT ![k] = r]
  BY DEF TakeUpdate
<1>r. r.at = "apply" /\ r.acc \in holders BY <1>3, IdleIs DEF Requests, MessagesTo
<1> HIDE DEF r
<1>5. /\ \A q \in Procs : q # k => proc'[q] = proc[q]
      /\ proc'[k] = proc[k] \/ (proc'[k].at = "apply" /\ proc'[k].acc \in holders)
  BY <1>1, <1>4, <1>r DEF Types, ProcType
<1>6. DataTypes' BY <1>1 DEF DataTypes
<1>7. MessagesReached' BY <1>1, <1>3, <1>4 DEF MessagesReached
<1>8. Roles' BY <1>1, <1>5 DEF Roles
<1>9. Reached' BY <1>1, <1>5 DEF Reached
<1>10. Stored' BY <1>5 DEF Stored
<1>11. Provisioned' BY <1>1, <1>5 DEF Provisioned
<1>12. Whole' BY <1>1, <1>5 DEF Whole, Untouched
<1>13. RollingBack' /\ RolledBack' BY <1>1, <1>5 DEF RollingBack, RolledBack
<1> QED BY <1>6, <1>7, <1>8, <1>9, <1>10, <1>11, <1>12, <1>13

\* ... the beginning of a request, ...
LEMMA RequestsKeepCreations ==
  ASSUME Types, StageInv, CreationInv, NEW p \in Clients, NEW a \in Accounts,
         \/ p \in Admins /\ (CreateRequest(p, a) \/ DeleteRequest(p, a))
         \/ p \in Holders /\ AuthRequest(p, a)
  PROVE CreationInv'
<1> USE DEF CreationInv
<1>1. /\ UNCHANGED <<docs, cache, bucket, commands, updates, deleted, holders, token, since, faults>>
      /\ p \in Procs /\ p \notin Keys /\ Clients \subseteq Procs /\ Keys \subseteq Procs
  BY ProcsAre DEF CreateRequest, DeleteRequest, AuthRequest, stores, queues, answers, clients
<1>2. /\ \A q \in Procs : q # p => proc'[q] = proc[q]
      /\ proc'[p].acc = a /\ proc[p].at = "idle"
      /\ \/ /\ proc'[p].op = "create" /\ proc'[p].at = "insert"
            /\ created[a] = "no" /\ created' = [created EXCEPT ![a] = "asked"]
         \/ proc'[p].op = "delete" /\ proc'[p].at = "lookup" /\ created' = created
         \/ proc'[p].op = "auth" /\ proc'[p].at = "refresh" /\ a \in holders /\ created' = created
  BY ZenonT(30), <1>1, IdleIs DEF CreateRequest, DeleteRequest, AuthRequest, Begin, At, Types, ProcType, Requests,
     stores, answers
<1>3. /\ \A b \in Accounts : created'[b] = created[b] \/ (b = a /\ created[b] = "no" /\ created'[b] = "asked")
      /\ proc'[p].op = "create" => created[a] = "no"
  BY <1>2 DEF Types, StoreType
<1>4. DataTypes' /\ MessagesReached' BY <1>1 DEF DataTypes, MessagesReached
<1>5. Roles' BY <1>1, <1>2 DEF Roles
<1>6. Reached'
  <2>1. \A b \in Accounts : b \in holders => created[b] \notin {"no", "rolledback"} /\ created'[b] # "no"
    BY <1>3 DEF Reached
  <2>2. \A q \in Clients : proc'[q].op = "create" /\ proc'[q].at # "jobs" => proc'[q].acc \notin holders
    BY <1>1, <1>2, <1>3 DEF Reached
  <2> QED BY <1>1, <1>2, <1>3, <2>1, <2>2 DEF Reached
<1>7. Stored' BY <1>2 DEF Stored
<1>8. Provisioned' BY <1>1, <1>2 DEF Provisioned
<1>9. Whole'
  <2> SUFFICES ASSUME NEW b \in Accounts, Untouched(b)' PROVE Untouched(b) BY <1>1 DEF Whole
  <2>1. created[b] = "ok" /\ deleted[b] = "no" BY <1>1, <1>3 DEF Untouched
  <2>2. proc[p].op = "none" BY <1>2 DEF Roles
  <2> QED BY <1>1, <1>2, <2>1, <2>2 DEF Untouched
<1>10. RollingBack' BY <1>1, <1>2 DEF RollingBack, Removing
<1>11. RolledBack' BY <1>1, <1>3 DEF RolledBack
<1> QED BY <1>4, <1>5, <1>6, <1>7, <1>8, <1>9, <1>10, <1>11

\* ... and whatever leaves accounts and requests alone.
LEMMA StillCreations ==
  ASSUME CreationInv, DataTypes', MessagesReached', \A a \in Accounts : token'[a] # Gone => token[a] # Gone,
         UNCHANGED <<docs, cache, bucket, commands, created, deleted, holders, proc, faults>>
  PROVE CreationInv'
<1> USE DEF CreationInv
<1>1. Roles' BY DEF Roles
<1>2. Reached' BY DEF Reached
<1>3. Stored' BY DEF Stored
<1>4. Provisioned' BY DEF Provisioned
<1>5. Whole' BY DEF Whole, Untouched
<1>6. RollingBack' BY DEF RollingBack
<1>7. RolledBack' BY DEF RolledBack
<1> QED BY <1>1, <1>2, <1>3, <1>4, <1>5, <1>6, <1>7

\* What a step of the system is.
LEMMA StepsAre ==
  ASSUME Types, Stages, Roles, Next
  PROVE \/ \E p \in Procs : Works(p) /\ Dequeues(p)
        \/ \E k \in Keys : TakeUpdate(k)
        \/ \E p \in Admins, a \in Accounts : CreateRequest(p, a) \/ DeleteRequest(p, a)
        \/ \E p \in Holders, a \in Accounts : AuthRequest(p, a)
        \/ \E k \in Keys, a \in Accounts, w \in BOOLEAN : PublishUpdate(k, a, w)
        \/ \E s \in Services, a \in Accounts : ServiceWrites(s, a)
        \/ \E a \in Accounts : JobServiceTakes(a) \/ Expire(a)
        \/ Quiet
<1>1. ASSUME NEW p \in Clients, Handle(p) PROVE Works(p) /\ Dequeues(p)
  BY <1>1, HandleWorks, HandleTouchesOne, ProcsAre DEF Dequeues, Types
<1>2. ASSUME NEW k \in Keys, Consume(k), ~ TakeUpdate(k) PROVE Works(k) /\ Dequeues(k)
  <2>1. ApplyUpdate(k) \/ ReadUpdated(k) \/ StoreUpdated(k) BY <1>2 DEF Consume
  <2>2. Works(k) BY <2>1, ConsumeWorks
  <2>3. Dequeues(k)
    BY <2>1 DEF ApplyUpdate, ReadUpdated, StoreUpdated, Dequeues, queues, At, Types, InHand
  <2> QED BY <2>2, <2>3
<1>3. ASSUME NEW p \in Procs, CutOff(p) PROVE Works(p) /\ Dequeues(p)
  BY <1>3, CutOffWorks DEF CutOff, Dequeues, queues
<1> QED BY <1>1, <1>2, <1>3, ProcsAre DEF Next

-----------------------------------------------------------------------------
(* Theorems about creations. *)

\* The inductive invariant: nobody else writes to an account while it is created or
\* rolled back, and what a creation has behind it stays.
THEOREM CreationCorrect == Spec => []CreationInv
<1>1. Init => CreationInv
  <2> SUFFICES ASSUME Init PROVE CreationInv OBVIOUS
  <2>1. \A q \in Procs : proc[q].at = "idle" /\ proc[q].op = "none" BY IdleIs DEF Init
  <2>2. Clients \subseteq Procs /\ Keys \subseteq Procs BY ProcsAre
  <2>3. DataTypes BY DEF Init, DataTypes, Docs
  <2>4. Roles BY <2>1, <2>2 DEF Roles
  <2>5. Reached BY <2>1, <2>2 DEF Init, Reached
  <2>6. MessagesReached BY DEF Init, MessagesReached
  <2>7. Stored BY <2>1 DEF Stored
  <2>8. Provisioned BY <2>1, <2>2 DEF Provisioned
  <2>9. Whole BY DEF Init, Whole, Untouched
  <2>10. RollingBack /\ RolledBack BY <2>1, <2>2 DEF Init, RollingBack, RolledBack
  <2> QED BY <2>3, <2>4, <2>5, <2>6, <2>7, <2>8, <2>9, <2>10 DEF CreationInv
<1>2. DeletionInv /\ CreationInv /\ [Next]_vars => CreationInv'
  <2> SUFFICES ASSUME DeletionInv, CreationInv, [Next]_vars PROVE CreationInv' OBVIOUS
  <2>0. Types /\ StageInv /\ Stages /\ Roles BY DEF DeletionInv, CreationInv, StageInv
  <2>1. ASSUME NEW p \in Procs, Works(p), Dequeues(p) PROVE CreationInv'
    BY <2>0, <2>1, WorksKeepsCreations
  <2>2. ASSUME NEW k \in Keys, TakeUpdate(k) PROVE CreationInv' BY <2>0, <2>2, TakeKeepsCreations
  <2>3. ASSUME NEW p \in Admins, NEW a \in Accounts, CreateRequest(p, a) \/ DeleteRequest(p, a)
        PROVE CreationInv'
    BY <2>0, <2>3, RequestsKeepCreations, ProcsAre
  <2>4. ASSUME NEW p \in Holders, NEW a \in Accounts, AuthRequest(p, a) PROVE CreationInv'
    BY <2>0, <2>4, RequestsKeepCreations, ProcsAre
  <2>5. ASSUME NEW k \in Keys, NEW a \in Accounts, NEW w \in BOOLEAN, PublishUpdate(k, a, w)
        PROVE CreationInv'
    <3> DEFINE m == [acc |-> a, val |-> IF w THEN sent[k] + 1 ELSE 0]
    <3>1. a \in holders BY <2>5 DEF PublishUpdate, CreationInv, Reached
    <3>2. m \in MessagesTo(holders) BY <2>0, <3>1 DEF MessagesTo, Types, StoreType
    <3>3. updates[k] \in Seq(MessagesTo(holders)) BY DEF CreationInv, MessagesReached
    <3>4. /\ updates' = [updates EXCEPT ![k] = Append(updates[k], m)]
          /\ UNCHANGED <<docs, cache, bucket, commands, created, deleted, holders, token, since, proc, faults>>
      BY <2>5 DEF PublishUpdate, stores, answers, clients
    <3> HIDE DEF m
    <3>5. Append(updates[k], m) \in Seq(MessagesTo(holders)) BY <3>2, <3>3
    <3>6. MessagesReached' BY <3>4, <3>5 DEF CreationInv, MessagesReached
    <3>7. DataTypes' BY <3>4 DEF CreationInv, DataTypes
    <3> QED BY <3>4, <3>6, <3>7, StillCreations
  <2>6. ASSUME UNCHANGED <<docs, cache, bucket, commands, created, deleted, holders, proc, faults, updates>>,
               DataTypes', \A a \in Accounts : token'[a] # Gone => token[a] # Gone
        PROVE CreationInv'
    <3>1. MessagesReached' BY <2>6 DEF CreationInv, MessagesReached
    <3> QED BY <2>6, <3>1, StillCreations
  <2>7. ASSUME NEW s \in Services, NEW a \in Accounts, ServiceWrites(s, a) PROVE CreationInv'
    <3>1. DataTypes' BY <2>7 DEF ServiceWrites, clients, CreationInv, DataTypes
    <3> QED BY <2>6, <2>7, <3>1 DEF ServiceWrites, queues, answers, clients
  <2>8. ASSUME NEW a \in Accounts, JobServiceTakes(a) PROVE CreationInv'
    <3>1. DataTypes' BY <2>8 DEF JobServiceTakes, clients, CreationInv, DataTypes
    <3> QED BY <2>6, <2>8, <3>1 DEF JobServiceTakes, queues, answers, clients
  <2>9. ASSUME NEW a \in Accounts, Expire(a) PROVE CreationInv'
    <3>1. token \in [Accounts -> Docs] /\ Gone \in Docs BY DEF CreationInv, DataTypes, Docs
    <3>2. /\ token' = token \/ token' = [token EXCEPT ![a] = Gone]
          /\ UNCHANGED <<docs, cache, bucket, commands, created, deleted, holders, proc, faults, updates, since>>
      BY <2>9 DEF Expire, stores, queues, answers
    <3>3. DataTypes' BY <3>1, <3>2 DEF CreationInv, DataTypes
    <3>4. \A b \in Accounts : token'[b] # Gone => token[b] # Gone BY <3>1, <3>2
    <3> QED BY <2>6, <3>2, <3>3, <3>4
  <2>10. CASE Quiet
    <3>1. DataTypes' BY <2>0, <2>10 DEF Quiet, stores, clients, CreationInv, DataTypes, Types, StoreType
    <3> QED BY <2>6, <2>10, <3>1 DEF Quiet, stores, queues, answers, clients
  <2>11. CASE UNCHANGED vars
    <3>1. DataTypes' BY <2>11 DEF vars, stores, clients, CreationInv, DataTypes
    <3> QED BY <2>6, <2>11, <3>1 DEF vars, stores, queues, answers, clients
  <2> QED BY <2>0, <2>1, <2>2, <2>3, <2>4, <2>5, <2>7, <2>8, <2>9, <2>10, <2>11, StepsAre
<1> QED BY <1>1, <1>2, DeletionCorrect, PTL DEF Spec

\* What the answer of a creation promises holds until somebody asks for the deletion of
\* the account: "ok" means a document, its copy, a configured bucket and every job
\* command; and after a roll-back none of whose calls failed, nothing is left to
\* authenticate against.
THEOREM CreationsAreAnswered == Spec => []CreationAnswered
<1>1. DeletionInv /\ CreationInv => CreationAnswered
  <2> SUFFICES ASSUME DeletionInv, CreationInv PROVE CreationAnswered OBVIOUS
  <2>1. \A a \in Accounts : created[a] = "ok" /\ deleted[a] = "no" /\ (\A p \in Clients : proc[p].op # "delete")
          => Untouched(a)
    BY DEF Untouched
  <2> QED BY <2>1 DEF CreationInv, Whole, RolledBack, CreationAnswered
<1> QED BY <1>1, DeletionCorrect, CreationCorrect, PTL

-----------------------------------------------------------------------------
(* How old a token may be.  Whatever is read after a pause is what the document *)
(* has been since then, in whichever order updates are stored.                  *)

\* An account has no document, and had none at the last pause, before it is created.
NewAccounts ==
  /\ \A a \in Accounts : created[a] = "no" => docs[a] = Gone /\ Gone \in since[a]
  /\ \A p \in Clients : proc[p].op = "create" => Gone \in since[proc[p].acc]

\* d is what the document of a has been since nothing was in progress.
Recent(d, a) == d # Gone /\ Gone \notin since[a] => d \in since[a]

\* The document is, and so is what a process has read of it and may store or has stored;
\* and a copy that outlives its document is too.
SinceLastPause ==
  /\ \A a \in Accounts : Recent(docs[a], a) /\ (docs[a] = Gone => Recent(cache[a], a))
  /\ \A p \in Procs : proc[p].at \in {"usage", "store"} => Recent(proc[p].seen, proc[p].acc)
  /\ \A p \in Clients : proc[p].at \in {"verify", "remove"} => Recent(cache[proc[p].acc], proc[p].acc)

PauseInv == NewAccounts /\ SinceLastPause

\* What is remembered only grows, until the next pause, and holds what is written.
LEMMA WorksRemembers ==
  ASSUME NEW p \in Procs, Works(p), NEW b \in Accounts
  PROVE /\ since[b] \subseteq since'[b] /\ (Gone \in since'[b] => Gone \in since[b])
        /\ docs'[b] = docs[b] \/ docs'[b] = Gone \/ docs'[b] \in since'[b]
<1>1. \/ docs' = docs /\ since' = since
      \/ since' = [c \in Accounts |-> since[c] \cup ({docs'[c]} \ {Gone})]
  BY DEF Works, Writes
<1> QED BY <1>1

\* New accounts stay new until they are created.
LEMMA WorksKeepsNew ==
  ASSUME Types, StageInv, DataTypes, Roles, NewAccounts, NEW p \in Procs, Works(p)
  PROVE NewAccounts'
<1> DEFINE a == proc[p].acc
<1>0. /\ a \in Accounts /\ proc[p].val \in Nat /\ Writes(p) /\ Answers(p) /\ GoesOn(p) /\ Clients \subseteq Procs
      /\ \A q \in Procs : q # p => proc'[q] = proc[q]
      /\ \A q \in Procs : proc[q].acc \in Accounts
  BY ProcsAre, RequestMoves DEF Works, Types, Requests
<1>1. /\ \A b \in Accounts : since[b] \subseteq since'[b]
      /\ \A b \in Accounts : b # a => docs'[b] = docs[b] /\ created'[b] = created[b]
  BY WorksTouchesOne, WorksRemembers
<1>2. ASSUME NEW b \in Accounts, created'[b] = "no" PROVE docs'[b] = Gone /\ Gone \in since'[b]
  <2>1. created[b] = "no" BY <1>0, <1>2 DEF Answers, Types, StoreType
  <2>2. docs[b] = Gone /\ Gone \in since[b] BY <2>1 DEF NewAccounts
  <2>3. CASE b = a
    <3>1. proc[p].at # "insert" BY <2>1, <2>3 DEF StageInv, Stages, Creating, Roles, Procs
    <3> QED BY <1>0, <1>1, <2>2, <2>3, <3>1 DEF Writes, Applied, Types, StoreType
  <2> QED BY <1>1, <2>2, <2>3
<1>3. \A q \in Clients : proc'[q].op = "create" => Gone \in since'[proc'[q].acc]
  BY <1>0, <1>1 DEF GoesOn, NewAccounts
<1> QED BY <1>2, <1>3 DEF NewAccounts

\* What may be stored or verified stays recent: the cache gets nothing but what the
\* document has been since the pause.
LEMMA WorksKeepsRecent ==
  ASSUME Types, StageInv, DataTypes, Roles, PauseInv, NEW p \in Procs, Works(p)
  PROVE SinceLastPause'
<1> DEFINE a == proc[p].acc
<1> USE DEF PauseInv
<1>0. /\ a \in Accounts /\ Writes(p) /\ GoesOn(p) /\ Clients \subseteq Procs /\ Keys \subseteq Procs
      /\ \A q \in Procs : q # p => proc'[q] = proc[q]
      /\ \A q \in Procs : proc[q].acc \in Accounts
  BY ProcsAre, RequestMoves DEF Works, Types, Requests
<1>1. \A b \in Accounts : b # a => docs'[b] = docs[b] /\ cache'[b] = cache[b]
  BY WorksTouchesOne
<1> DEFINE Still(d, b) == d # Gone /\ Gone \notin since'[b] => d \in since'[b]
<1>s. \A b \in Accounts : \A d : Recent(d, b) => Still(d, b) BY WorksRemembers DEF Recent
<1>n. p \in Clients /\ proc[p].op = "create" => Gone \in since'[a]
  BY <1>0, WorksRemembers DEF NewAccounts
<1>3. ASSUME NEW b \in Accounts PROVE Still(docs'[b], b)
  BY <1>s, WorksRemembers DEF SinceLastPause
\* Whatever becomes of the cache of the account, it does not get older than the pause.
<1>4. cache'[a] = cache[a] \/ Still(cache'[a], a)
  <2>1. CASE proc[p].at = "cache"
    <3>1. p \in Clients /\ proc[p].op = "create" BY <2>1 DEF StageInv, Stages, Provisioning, Roles, Procs
    <3> QED BY <1>n, <3>1
  <2>2. CASE proc[p].at = "store"
    <3>1. Still(proc[p].seen, a) BY <1>0, <1>s, <2>2 DEF SinceLastPause
    <3> QED BY <1>0, <2>2, <3>1 DEF Writes, Types, StoreType
  <2>3. CASE proc[p].at \notin {"cache", "store"}
    <3>1. cache'[a] = cache[a] \/ cache'[a] = Gone BY <1>0, <2>3 DEF Writes, Types, StoreType
    <3> QED BY <3>1
  <2> QED BY <2>1, <2>2, <2>3
<1>5. ASSUME NEW b \in Accounts, docs'[b] = Gone PROVE Still(cache'[b], b)
  <2>1. CASE b # a BY <1>1, <1>5, <1>s, <2>1 DEF SinceLastPause
  <2>2. CASE b = a
    <3>1. CASE docs[a] = Gone BY <1>4, <1>0, <1>s, <2>2, <3>1 DEF SinceLastPause
    <3>2. CASE docs[a] # Gone
      <4>1. CASE proc[p].at = "remove"
        <5>1. p \in Clients BY <4>1 DEF Roles, Procs
        <5>2. Still(cache[a], a) BY <1>0, <1>s, <4>1, <5>1 DEF SinceLastPause
        <5> QED BY <1>4, <2>2, <5>2
      <4>2. CASE proc[p].at = "undo"
        <5>1. p \in Clients /\ proc[p].op = "create"
          BY <4>2 DEF StageInv, Stages, Provisioning, Roles, Procs
        <5> QED BY <1>n, <2>2, <5>1
      <4>3. CASE proc[p].at \notin {"remove", "undo"}
        <5>1. proc[p].at \in {"insert", "apply"} BY <1>0, <1>5, <2>2, <3>2, <4>3 DEF Writes
        <5>2. proc[p].at = "apply" => p \in Keys /\ proc[p].val \in Nat
          BY RequestMoves DEF Roles, Procs, Types, Requests
        <5>3. docs'[a] # Gone
          BY <1>0, <1>5, <2>2, <3>2, <4>3, <5>1, <5>2, AppliedKeeps, DocumentsExist DEF Writes, Types, StoreType
        <5> QED BY <1>5, <2>2, <5>3
      <4> QED BY <4>1, <4>2, <4>3
    <3> QED BY <3>1, <3>2
  <2> QED BY <2>1, <2>2
<1>6. ASSUME NEW q \in Procs, proc'[q].at \in {"usage", "store"} PROVE Still(proc'[q].seen, proc'[q].acc)
  <2>1. CASE q = p
    <3>1. /\ proc'[p].acc = a
          /\ proc'[p].seen = docs[a] \/ (proc[p].at = "usage" /\ proc'[p].seen = proc[p].seen)
      BY <1>0, <1>6, <2>1 DEF GoesOn
    <3>2. Recent(proc'[p].seen, a) BY <1>0, <3>1 DEF SinceLastPause
    <3> QED BY <1>0, <1>s, <2>1, <3>1, <3>2
  <2>2. CASE q # p
    <3>1. proc'[q] = proc[q] /\ Recent(proc[q].seen, proc[q].acc) /\ proc[q].acc \in Accounts
      BY <1>0, <1>6, <2>2 DEF SinceLastPause
    <3> QED BY <1>s, <3>1
  <2> QED BY <2>1, <2>2
<1>7. ASSUME NEW q \in Clients, proc'[q].at \in {"verify", "remove"}
      PROVE  Still(cache'[proc'[q].acc], proc'[q].acc)
  <2>1. CASE q = p
    <3>1. proc'[p].acc = a BY <1>0, <1>7, <2>1 DEF GoesOn
    <3>2. \/ proc[p].at = "uncache" /\ cache' = [cache EXCEPT ![a] = Gone]
          \/ proc[p].at = "refresh" /\ docs[a] = Gone /\ cache' = cache
          \/ proc[p].at = "store" /\ cache' = [cache EXCEPT ![a] = proc[p].seen]
      BY <1>0, <1>7, <2>1 DEF GoesOn
    <3>3. cache'[a] = Gone \/ Recent(cache'[a], a)
      BY <1>0, <3>2 DEF SinceLastPause, Types, StoreType
    <3> QED BY <1>0, <1>s, <2>1, <3>1, <3>3
  <2>2. CASE q # p
    <3>1. /\ proc'[q] = proc[q] /\ proc[q].acc \in Accounts
          /\ Recent(cache[proc[q].acc], proc[q].acc)
      BY <1>0, <1>7, <2>2 DEF SinceLastPause
    <3>2. Still(cache[proc[q].acc], proc[q].acc) BY <1>s, <3>1
    <3> QED BY <1>1, <1>4, <3>1, <3>2
  <2> QED BY <2>1, <2>2
<1>8. \A b \in Accounts : Recent(docs[b], b)' /\ (docs'[b] = Gone => Recent(cache[b], b)')
  BY <1>3, <1>5 DEF Recent
<1>9. \A q \in Procs : proc'[q].at \in {"usage", "store"} => Recent(proc[q].seen, proc[q].acc)'
  BY <1>6 DEF Recent
<1>10. \A q \in Clients : proc'[q].at \in {"verify", "remove"} => Recent(cache[proc[q].acc], proc[q].acc)'
  BY <1>7 DEF Recent
<1> QED BY <1>8, <1>9, <1>10 DEF SinceLastPause

\* The beginning of a request or of an update has read nothing yet.
LEMMA BeginningsKeepRecent ==
  ASSUME PauseInv, UNCHANGED <<docs, cache, since>>,
         \A q \in Procs : proc'[q] = proc[q] \/ proc'[q].at \notin {"usage", "store", "verify", "remove"}
  PROVE SinceLastPause'
<1>1. \A a \in Accounts : Recent(docs[a], a)' /\ (docs'[a] = Gone => Recent(cache[a], a)')
  BY DEF PauseInv, SinceLastPause, Recent
<1>2. \A q \in Procs : proc'[q].at \in {"usage", "store"} => Recent(proc[q].seen, proc[q].acc)'
  BY DEF PauseInv, SinceLastPause, Recent
<1>3. \A q \in Clients : proc'[q].at \in {"verify", "remove"} => Recent(cache[proc[q].acc], proc[q].acc)'
  BY ProcsAre DEF PauseInv, SinceLastPause, Recent
<1> QED BY <1>1, <1>2, <1>3 DEF SinceLastPause

\* A pause starts the count again: nobody is in progress, so nobody has read anything.
LEMMA PausesKeep ==
  ASSUME Types, Roles, PauseInv, Quiet
  PROVE PauseInv'
<1>1. /\ UNCHANGED <<docs, cache, proc, created>> /\ since' = [a \in Accounts |-> {docs[a]}]
      /\ \A q \in Procs : proc[q].at = "idle"
  BY DEF Quiet, stores, answers, At
<1>2. \A a \in Accounts : created[a] = "no" => docs[a] = Gone BY DEF PauseInv, NewAccounts
<1>3. NewAccounts' BY <1>1, <1>2, ProcsAre DEF NewAccounts, Roles
<1>4. \A a \in Accounts : Recent(docs[a], a)' /\ (docs'[a] = Gone => Recent(cache[a], a)')
  BY <1>1 DEF Recent
<1>5. SinceLastPause' BY <1>1, <1>4, ProcsAre DEF SinceLastPause
<1> QED BY <1>3, <1>5 DEF PauseInv

\* The inductive invariant: new accounts without a past, and nothing in progress older
\* than the last pause.
THEOREM PausesAreKept == Spec => []PauseInv
<1>1. Init => PauseInv
  <2> SUFFICES ASSUME Init PROVE PauseInv OBVIOUS
  <2>1. \A q \in Procs : proc[q].at = "idle" /\ proc[q].op = "none" BY IdleIs DEF Init
  <2>2. \A q \in Procs : proc[q].acc \in Accounts BY IdleIs DEF Init, Requests
  <2>3. NewAccounts BY <2>1, <2>2, ProcsAre DEF Init, NewAccounts
  <2>4. SinceLastPause BY <2>1, ProcsAre DEF Init, SinceLastPause, Recent
  <2> QED BY <2>3, <2>4 DEF PauseInv
<1>2. DeletionInv /\ CreationInv /\ PauseInv /\ [Next]_vars => PauseInv'
  <2> SUFFICES ASSUME DeletionInv, CreationInv, PauseInv, [Next]_vars PROVE PauseInv' OBVIOUS
  <2>0. Types /\ StageInv /\ Stages /\ Roles /\ DataTypes BY DEF DeletionInv, CreationInv, StageInv
  <2>1. ASSUME NEW p \in Procs, Works(p), Dequeues(p) PROVE PauseInv'
    BY <2>0, <2>1, WorksKeepsNew, WorksKeepsRecent DEF PauseInv
  <2>2. ASSUME NEW k \in Keys, TakeUpdate(k) PROVE PauseInv'
    <3>1. /\ UNCHANGED <<docs, cache, since, created>> /\ k \in Procs /\ k \notin Clients
          /\ Clients \subseteq Procs
      BY <2>2, ProcsAre DEF TakeUpdate, stores, answers
    <3>2. proc' = proc \/ \E m \in Messages : proc' = [proc EXCEPT ![k] =
            [Idle EXCEPT !.op = "update", !.at = "apply", !.acc = m.acc, !.val = m.val]]
      <4>1. updates[k] \in Seq(Messages) /\ updates[k] # <<>> BY <2>0, <2>2 DEF TakeUpdate, Types, StoreType
      <4>2. Head(updates[k]) \in Messages BY <4>1
      <4> QED BY <2>2, <4>2 DEF TakeUpdate
    <3>3. \A q \in Procs : proc'[q] = proc[q] \/ (q = k /\ proc'[q].at = "apply")
      BY ZenonT(30), <2>0, <3>1, <3>2, IdleIs DEF Types, ProcType, Requests
    <3>4. NewAccounts' BY <3>1, <3>3 DEF PauseInv, NewAccounts
    <3>5. SinceLastPause' BY <3>1, <3>3, BeginningsKeepRecent
    <3> QED BY <3>4, <3>5 DEF PauseInv
  <2>3. ASSUME NEW p \in Clients, NEW a \in Accounts,
               CreateRequest(p, a) \/ DeleteRequest(p, a) \/ AuthRequest(p, a)
        PROVE PauseInv'
    <3>1. /\ UNCHANGED <<docs, cache, updates, sent, since>> /\ p \in Procs /\ p \notin Keys
          /\ Clients \subseteq Procs /\ Keys \subseteq Procs
      BY <2>3, ProcsAre DEF CreateRequest, DeleteRequest, AuthRequest, stores, queues
    <3>2. /\ \A q \in Procs : q # p => proc'[q] = proc[q]
          /\ proc'[p].acc = a /\ proc'[p].at \in {"insert", "lookup", "refresh"}
          /\ proc'[p].op = "create" => created[a] = "no"
          /\ created' = created \/ created' = [created EXCEPT ![a] = "asked"]
      BY <2>0, <2>3, <3>1, IdleIs, ZenonT(40)
         DEF CreateRequest, DeleteRequest, AuthRequest, Begin, Types, ProcType, Requests, answers
    <3>r. \A b \in Accounts : created'[b] = "no" => created[b] = "no"
      BY <2>0, <3>2 DEF Types, StoreType
    <3>4. NewAccounts' BY <3>1, <3>2, <3>r DEF PauseInv, NewAccounts
    <3>5. SinceLastPause' BY <3>1, <3>2, BeginningsKeepRecent
    <3> QED BY <3>4, <3>5 DEF PauseInv
  <2>4. ASSUME NEW k \in Keys, NEW a \in Accounts, NEW w \in BOOLEAN, PublishUpdate(k, a, w)
        PROVE PauseInv'
    <3>1. UNCHANGED <<docs, cache, created, since, proc>> BY <2>4 DEF PublishUpdate, stores, answers
    <3>3. NewAccounts' BY <3>1 DEF PauseInv, NewAccounts
    <3>4. SinceLastPause' BY <3>1, BeginningsKeepRecent
    <3> QED BY <3>3, <3>4 DEF PauseInv
  <2>5. ASSUME UNCHANGED <<docs, cache, updates, sent, created, since, proc>> PROVE PauseInv'
    <3>2. NewAccounts' BY <2>5 DEF PauseInv, NewAccounts
    <3>3. SinceLastPause' BY <2>5, BeginningsKeepRecent
    <3> QED BY <3>2, <3>3 DEF PauseInv
  <2>6. ASSUME NEW s \in Services, NEW a \in Accounts, ServiceWrites(s, a) PROVE PauseInv'
    BY <2>5, <2>6 DEF ServiceWrites, queues, answers
  <2>7. ASSUME NEW a \in Accounts, JobServiceTakes(a) \/ Expire(a) PROVE PauseInv'
    BY <2>5, <2>7 DEF JobServiceTakes, Expire, stores, queues, answers
  <2>8. CASE Quiet BY <2>0, <2>8, PausesKeep
  <2>9. CASE UNCHANGED vars BY <2>5, <2>9 DEF vars, stores, queues, answers
  <2> QED BY <2>0, <2>1, <2>2, <2>3, <2>4, <2>6, <2>7, <2>8, <2>9, StepsAre, ProcsAre
<1> QED BY <1>1, <1>2, DeletionCorrect, CreationCorrect, PTL DEF Spec

\* A token carries the account as it was when nothing was last in progress, or as it has
\* been stored since: slow requests, redelivered updates and updates that overtake each
\* other may put an old copy back into the cache, but none from before the last pause.
THEOREM TokensAreYoung == Spec => TokenSinceLastPause
<1> DEFINE Young(a) == token'[a] \notin {token[a], Gone} /\ Gone \notin since[a] => token'[a] \in since[a]
<1>1. DeletionInv /\ CreationInv /\ PauseInv /\ [Next]_vars => [\A a \in Accounts : Young(a)]_vars
  <2> SUFFICES ASSUME DeletionInv, CreationInv, PauseInv, Next, NEW b \in Accounts,
                      token'[b] \notin {token[b], Gone}, Gone \notin since[b]
               PROVE  token'[b] \in since[b]
    OBVIOUS
  <2>0. Types /\ Stages /\ Roles /\ DataTypes BY DEF DeletionInv, CreationInv, StageInv
  <2>1. ASSUME NEW p \in Procs, Works(p) PROVE token'[b] \in since[b]
    <3>1. /\ proc[p].at = "verify" /\ b = proc[p].acc /\ cache[b] # Gone /\ token'[b] = cache[b]
      BY <2>0, <2>1 DEF Works, Writes, DataTypes
    <3>2. p \in Clients BY <2>0, <3>1 DEF Roles, Procs
    <3>3. Recent(cache[b], b) BY <3>1, <3>2 DEF PauseInv, SinceLastPause
    <3> QED BY <3>1, <3>3 DEF Recent
  <2>2. token' # token /\ \A a \in Accounts : ~ Expire(a)
    <3>1. ASSUME NEW a \in Accounts, Expire(a) PROVE FALSE BY <2>0, <3>1 DEF Expire, DataTypes
    <3> QED BY <3>1
  <2>3. \E p \in Procs : Works(p)
    BY <2>0, <2>2, StepsAre
       DEF TakeUpdate, CreateRequest, DeleteRequest, AuthRequest, PublishUpdate, ServiceWrites,
           JobServiceTakes, Quiet, clients
  <2> QED BY <2>1, <2>3
<1>2. Spec => [][\A a \in Accounts : Young(a)]_vars
  BY <1>1, DeletionCorrect, CreationCorrect, PausesAreKept, PTL DEF Spec
<1> QED BY <1>2 DEF TokenSinceLastPause
===============================================================================
