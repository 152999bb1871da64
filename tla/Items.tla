-------------------------------- MODULE Items --------------------------------
(***************************************************************************)
(* The items service of one account, and the stop list of the account's      *)
(* recommendation algorithm.  A request counts, finds and writes item after    *)
(* item, so requests overlap.  Deleting items takes them out of the stop list   *)
(* the request's token carries and publishes the result; the configuration      *)
(* service publishes lists too.  The account service stores the lists in the      *)
(* order they were published, but for one that fails and is overtaken.           *)
(***************************************************************************)
EXTENDS Billing

CONSTANTS
  ItemIds,
  Owner,            \* the account
  ItemLimit,
  ItemBytes,        \* what one written item measures
  Clients,          \* callers, one request each at a time
  Prefetch,         \* deliveries of a queue the broker hands to its consumer ahead
  MaxCalls, MaxItemFaults

ASSUME ItemsAssumption ==
  ItemLimit \in Nat /\ ItemBytes \in Nat /\ Owner \in Payers /\ Prefetch \in Nat \ {0}

VARIABLES
  stock,        \* the status of each item, or NoItem
  calls,        \* what each caller's request does
  stopList,     \* the list of the account document
  lists,        \* algo.configs.cmd.update, lists published and not yet stored
  tokenList,    \* the list in the account's token
  told,         \* history: what the last answer said of an item no other request was at
  spoiled,      \* history: why the stop list may name a missing item
  crowded,      \* history: two creations overlapped
  called, itemFaults

itemVars == <<stock, calls, stopList, lists, tokenList, told, spoiled, crowded, called, itemFaults>>
listVars == <<stopList, lists, tokenList>>
NoItem == "absent"
Quiet == [kind |-> "none"]
ItemsInit ==
  /\ stock = [i \in ItemIds |-> NoItem] /\ calls = [c \in Clients |-> Quiet]
  /\ stopList = {} /\ lists = <<>> /\ tokenList = {}
  /\ told = <<>> /\ spoiled = FALSE /\ crowded = FALSE /\ called \in 0 .. MaxCalls /\ itemFaults = 0

InStock == {i \in ItemIds : stock[i] # NoItem}
ItemFault == itemFaults < MaxItemFaults /\ itemFaults' = itemFaults + 1
NoItemFault == UNCHANGED itemFaults
At(c, kind, at) == calls[c].kind = kind /\ calls[c].at = at
Goto(c, at) == calls' = [calls EXCEPT ![c].at = at]
Busy == {c \in Clients : calls[c] # Quiet}
CallsOf(kind) == {c \in Clients : calls[c].kind = kind}
NewestList == IF lists = <<>> THEN stopList ELSE lists[Len(lists)]

\* An authenticated request with a batch of ids; the token is read at once.
BeginCall(c, kind, at, batch, status) ==
  /\ calls[c] = Quiet /\ called < MaxCalls
  /\ calls' = [d \in Clients |->
       IF d = c THEN [kind |-> kind, at |-> at, batch |-> batch, status |-> status, k |-> 1,
                      failed |-> {}, done |-> {}, found |-> {}, list |-> tokenList,
                      shared |-> UNION {ToSet(calls[e].batch) : e \in Busy}]
       ELSE IF d \in Busy THEN [calls[d] EXCEPT !.shared = @ \cup ToSet(batch)] ELSE Quiet]
  /\ called' = called + 1
  /\ told' = [i \in DOMAIN told \ ToSet(batch) |-> told[i]]
  /\ crowded' = (crowded \/ (kind = "create" /\ CallsOf("create") # {}))
  /\ UNCHANGED <<stock, listVars, spoiled, itemFaults, billVars>>

Saying(ids, what) == [i \in ids |-> what]
Both(f, g) == [i \in DOMAIN f \cup DOMAIN g |-> IF i \in DOMAIN f THEN f[i] ELSE g[i]]
\* The answer: what it says of an item is kept as history unless another request was at
\* the item since this one began.
EndCall(c, said) ==
  /\ calls' = [calls EXCEPT ![c] = Quiet]
  /\ told' = Both([i \in DOMAIN said \ calls[c].shared |-> said[i]], told)
Answer(c, said) == EndCall(c, said) /\ UNCHANGED <<crowded, called>>
\* A call that fails ends the request with an error that says nothing.
Fails(c) == ItemFault /\ Answer(c, <<>>)

\* The units of what was written are captured before the answer; a publication that
\* fails makes the request an error although the items are stored.
Bill(c, written, said) ==
  \/ /\ CaptureData(Owner, ItemBytes * Cardinality(written))
     /\ NoItemFault /\ Answer(c, said)
     /\ UNCHANGED <<stock, listVars, spoiled, queueVars, metering, meterings, billFaults>>
  \/ Fails(c) /\ UNCHANGED <<stock, listVars, spoiled, billVars>>

-------------------------------------------------------------------------------
(* Creation. *)

AskCreate(c, batch) == BeginCall(c, "create", "count", batch, "active")

\* Whether the account may hold the batch on top of what is counted.
AssessItemLimit(count, requested) == requested + count <= ItemLimit

CountItems(c) ==
  /\ At(c, "create", "count")
  /\ \/ /\ NoItemFault
        /\ IF AssessItemLimit(Cardinality(InStock), Len(calls[c].batch))
           THEN /\ Goto(c, IF calls[c].batch = <<>> THEN "bill" ELSE "insert")
                /\ UNCHANGED <<told, crowded, called>>
           ELSE Answer(c, <<>>)
     \/ Fails(c)
  /\ UNCHANGED <<stock, listVars, spoiled, billVars>>

\* One insertion; an id the account has is collected as invalid.
InsertItem(c) ==
  LET r == calls[c]
      i == r.batch[r.k]
      at == IF r.k < Len(r.batch) THEN "insert" ELSE "bill"
  IN
  /\ At(c, "create", "insert")
  /\ \/ /\ NoItemFault /\ UNCHANGED <<told, crowded, called>>
        /\ \/ /\ i \notin InStock /\ stock' = [stock EXCEPT ![i] = "active"]
              /\ calls' = [calls EXCEPT ![c].k = @ + 1, ![c].at = at]
           \/ /\ i \in InStock /\ UNCHANGED stock
              /\ calls' = [calls EXCEPT ![c].k = @ + 1, ![c].at = at, ![c].failed = @ \cup {i}]
     \/ Fails(c) /\ UNCHANGED stock
  /\ UNCHANGED <<listVars, spoiled, billVars>>

\* An id that is twice in the batch is stored and reported as failed.
BillCreated(c) ==
  LET r == calls[c]
      created == ToSet(r.batch) \ r.failed
      said == Both(Saying(created, {"active"}), Saying(r.failed, {"active", "inactive"}))
  IN
  /\ At(c, "create", "bill")
  /\ IF created = {}
     THEN /\ Answer(c, said)
          /\ UNCHANGED <<stock, listVars, spoiled, itemFaults, billVars>>
     ELSE Bill(c, created, said)
-------------------------------------------------------------------------------
(* Update. *)

\* A batch that names an item twice is refused.
AskUpdate(c, batch, status) ==
  Len(batch) = Cardinality(ToSet(batch)) /\ BeginCall(c, "update", "find", batch, status)

FindItems(c) ==
  LET found == ToSet(calls[c].batch) \cap InStock IN
  /\ calls[c].kind \in {"update", "delete"} /\ calls[c].at = "find"
  /\ \/ /\ NoItemFault
        /\ IF found = {} THEN Answer(c, Saying(ToSet(calls[c].batch), {NoItem}))
           ELSE /\ calls' = [calls EXCEPT ![c].found = found, ![c].at = "write"]
                /\ UNCHANGED <<told, crowded, called>>
     \/ Fails(c)
  /\ UNCHANGED <<stock, listVars, spoiled, billVars>>

\* The found items in the order of the store; one deleted meanwhile is reported updated.
UpdateItem(c) ==
  LET r == calls[c] IN
  /\ At(c, "update", "write") /\ r.done # r.found
  /\ \/ /\ NoItemFault /\ UNCHANGED <<told, crowded, called>>
        /\ LET i == CHOOSE i \in r.found \ r.done : TRUE IN
           /\ stock' = IF i \in InStock THEN [stock EXCEPT ![i] = r.status] ELSE stock
           /\ calls' = [calls EXCEPT ![c].done = @ \cup {i}]
     \/ Fails(c) /\ UNCHANGED stock
  /\ UNCHANGED <<listVars, spoiled, billVars>>

BillUpdated(c) ==
  /\ At(c, "update", "write") /\ calls[c].done = calls[c].found
  /\ Bill(c, calls[c].done, Both(Saying(calls[c].done, {calls[c].status}),
                                Saying(ToSet(calls[c].batch) \ calls[c].found, {NoItem})))
-------------------------------------------------------------------------------
(* Deletion and the stop list. *)

AskDelete(c, batch) == BeginCall(c, "delete", "find", batch, NoItem)

\* One deletion for each entry of the batch, found or not.  What is deleted by a request
\* that fails, or was not there to be found, stays in the stop list.
DeleteItem(c) ==
  LET r == calls[c]
      i == r.batch[r.k]
  IN
  /\ At(c, "delete", "write")
  /\ \/ /\ NoItemFault /\ UNCHANGED <<told, crowded, called>>
        /\ stock' = [stock EXCEPT ![i] = NoItem]
        /\ spoiled' = (spoiled \/ i \in InStock \ r.found)
        /\ calls' = [calls EXCEPT ![c].k = @ + 1, ![c].at = IF r.k < Len(r.batch) THEN "write" ELSE "prune"]
     \/ Fails(c) /\ spoiled' = TRUE /\ UNCHANGED stock
  /\ UNCHANGED <<listVars, billVars>>

\* Mutant: the entry of the first deleted item only.
PruneFirst(list, deleted) == list \ {CHOOSE i \in deleted : TRUE}
Prune(list, deleted) == list \ deleted

PublishList(l) == lists' = Append(lists, l) /\ UNCHANGED <<stopList, tokenList>>

\* The entries of the found items leave the token's list, which replaces the stored one.
\* An entry whose item is named twice is looked up once too often: the request fails.
PruneStopList(c) ==
  LET r == calls[c]
      twice == \E j, k \in DOMAIN r.batch :
                 j < k /\ r.batch[j] = r.batch[k] /\ r.batch[j] \in r.found \cap r.list
  IN
  /\ At(c, "delete", "prune")
  /\ \/ /\ ~twice /\ NoItemFault
        /\ PublishList(Prune(r.list, r.found))
        /\ spoiled' = (spoiled \/ r.list # NewestList)
        /\ Answer(c, Saying(ToSet(r.batch), {NoItem}))
     \/ ~twice /\ Fails(c) /\ spoiled' = TRUE /\ UNCHANGED listVars
     \/ twice /\ Answer(c, <<>>) /\ spoiled' = TRUE /\ UNCHANGED <<listVars, itemFaults>>
  /\ UNCHANGED <<stock, billVars>>

\* The configuration service reads the ids page by page, keeps the entries among them and
\* publishes.
AskConfigure(c, batch) == BeginCall(c, "configure", "fetch", batch, NoItem)
FetchItems(c) ==
  /\ At(c, "configure", "fetch")
  /\ \/ /\ NoItemFault /\ UNCHANGED <<told, crowded, called>>
        /\ calls' = [calls EXCEPT ![c].found = InStock, ![c].at = "set"]
     \/ Fails(c)
  /\ UNCHANGED <<stock, listVars, spoiled, billVars>>
SetAlgorithmConfigs(c) ==
  LET r == calls[c] IN
  /\ At(c, "configure", "set")
  /\ \/ /\ NoItemFault
        /\ PublishList(ToSet(r.batch) \cap r.found)
        /\ spoiled' = (spoiled \/ ~(r.found \subseteq InStock))
        /\ Answer(c, <<>>)
     \/ Fails(c) /\ UNCHANGED <<listVars, spoiled>>
  /\ UNCHANGED <<stock, billVars>>

\* The account service.  A delivery that fails, with the list stored or not, is put back,
\* but those the broker had already handed over behind it come first: the list they
\* replaced may come back last.
Behind(j) == [i \in 1 .. Len(lists) |-> lists[IF i < j THEN i + 1 ELSE IF i = j THEN 1 ELSE i]]
ApplyList ==
  /\ lists # <<>>
  /\ \/ NoItemFault /\ stopList' = Head(lists) /\ lists' = Tail(lists) /\ UNCHANGED spoiled
     \/ /\ ItemFault /\ stopList' \in {stopList, Head(lists)}
        /\ \E j \in 1 .. Len(lists) : j <= Prefetch /\ lists' = Behind(j)
        /\ spoiled' = (spoiled \/ NewestList' # NewestList)
  /\ UNCHANGED <<stock, calls, tokenList, told, crowded, called, billVars>>
RefreshToken ==
  /\ tokenList' = stopList
  /\ UNCHANGED <<stock, calls, stopList, lists, told, spoiled, crowded, called, itemFaults, billVars>>

\* The items of a deleted account, in one delete-many.
DeleteAccountItems ==
  /\ \/ /\ Named /\ NoItemFault
        /\ stock' = [i \in ItemIds |-> NoItem] /\ spoiled' = TRUE /\ told' = <<>>
        /\ calls' = [c \in Clients |-> IF c \in Busy THEN [calls[c] EXCEPT !.shared = ItemIds] ELSE Quiet]
     \/ (ItemFault \/ Refused(NoItemFault)) /\ UNCHANGED <<stock, spoiled, told, calls>>
  /\ UNCHANGED <<listVars, crowded, called, billVars>>

Call(c) ==
  \/ CountItems(c) \/ InsertItem(c) \/ BillCreated(c) \/ FindItems(c) \/ UpdateItem(c)
  \/ BillUpdated(c) \/ DeleteItem(c) \/ PruneStopList(c) \/ FetchItems(c) \/ SetAlgorithmConfigs(c)
-------------------------------------------------------------------------------
(* Any caller, any batch. *)

ItemsAsked ==
  \E c \in Clients, batch \in Seq(ItemIds) :
    \/ AskCreate(c, batch) \/ AskDelete(c, batch) \/ AskConfigure(c, batch)
    \/ \E status \in {"active", "inactive"} : AskUpdate(c, batch, status)
ItemsNext == ItemsAsked \/ (\E c \in Clients : Call(c)) \/ ApplyList \/ RefreshToken \/ DeleteAccountItems
ItemsSpec == ItemsInit /\ [][ItemsNext]_itemVars

\* With billing: a request may capture what it wrote, and billing moves between the steps
\* of the requests.
ChargedItemsNext == ItemsNext \/ (BillingNext /\ UNCHANGED itemVars)
ChargedItemsSpec == ItemsInit /\ BillingInit /\ [][ChargedItemsNext]_<<itemVars, billVars>>

\* What was answered stays true until another request is at the item, the limit is kept
\* unless creations overlap, and the stop list names items only, once the published lists
\* are stored, as long as no deletion failed half-way, removed an item it had not found or
\* replaced a list it had not read, and the newest list was not overtaken.
CatalogueAsAnswered ==
  /\ \A i \in DOMAIN told : stock[i] \in told[i]
  /\ ~crowded => Cardinality(InStock) <= ItemLimit
  /\ (Busy = {} /\ lists = <<>> /\ ~spoiled) => stopList \subseteq InStock
===============================================================================
