------------------------------- MODULE Billing -------------------------------
(***************************************************************************)
(* Metering and billing.  Services and workers measure the data and the     *)
(* hours they use and publish a capture for each measure; the gateway        *)
(* delivers the captures one at a time to the billing service, which prices   *)
(* and stores them.  A delivery answered with a failure goes back to the head *)
(* of the queue, one answered as toxic or invalid is dropped.                 *)
(***************************************************************************)
EXTENDS Integers, FiniteSets, SequencesExt, GatewayCalls

CONSTANTS
  Payers, Plan, Currency,   \* accounts, and what their messages say of each
  NoPlan,                   \* a message without account_type
  Costs,                    \* [unit type and metric -> [currency -> [plan -> fee]]]
  Megabyte,                 \* bytes of a megabyte, scaled down
  Sizes,                    \* bytes an object may take
  PageLimit,                \* charges of a page (2000)
  Meters, MaxMeterings,     \* workers, and bound: jobs they run
  MaxBillFaults             \* bound: calls that fail

Metrics == {<<"data", "MB">>, <<"compute", "hours">>}
\* The price list has all plans, in whichever currency.
ASSUME BillingAssumption ==
  /\ Megabyte \in Nat \ {0} /\ PageLimit \in Nat \ {0} /\ Sizes \subseteq Nat
  /\ \A m \in Metrics, p \in Payers : Plan[p] # NoPlan =>
       /\ m \in DOMAIN Costs
       /\ \A currency \in DOMAIN Costs[m] :
            Plan[p] \in DOMAIN Costs[m][currency] /\ Costs[m][currency][Plan[p]] \in Nat

VARIABLES
  sent,        \* history: every capture published
  captures,    \* the queue, numbers of sent
  taken,       \* the capture the billing service handles, 0 when none
  refused,     \* captures dropped
  charges,     \* tbl_billable_units, in the order of insertion; Removed where one was deleted
  erased,      \* history: captures settled before their account's charges were deleted
  metering,    \* the job each worker meters
  meterings,   \* jobs metered
  billFaults   \* calls that failed

billVars == <<sent, captures, taken, refused, charges, erased, metering, meterings, billFaults>>
queueVars == <<taken, refused, charges, erased>>
BillFault == billFaults < MaxBillFaults /\ billFaults' = billFaults + 1
NoBillFault == UNCHANGED billFaults

NoMetering == [kind |-> "none"]
Removed == [of |-> 0]
BillingInit ==
  /\ sent = <<>> /\ captures = <<>> /\ taken = 0 /\ refused = {} /\ charges = <<>> /\ erased = {}
  /\ metering = [w \in Meters |-> NoMetering] /\ meterings = 0 /\ billFaults = 0
-------------------------------------------------------------------------------
(* Measuring. *)

\* Whole megabytes; services round half to even, workers half up.
RoundTies(bytes, up(_)) ==
  LET whole == bytes \div Megabyte
      rest == 2 * (bytes % Megabyte)
  IN IF rest > Megabyte \/ (rest = Megabyte /\ up(whole)) THEN whole + 1 ELSE whole
BytesToMetric(bytes) == RoundTies(bytes, LAMBDA whole : whole % 2 = 1)
WorkerBytesToMetric(bytes) == RoundTies(bytes, LAMBDA whole : TRUE)

\* Nothing is captured as one; run and measure are history.
Unit(process, type, metric, quantity, p, run, measure) ==
  [process |-> process, type |-> type, metric |-> metric, quantity |-> IF quantity > 0 THEN quantity ELSE 1,
   payer |-> p, plan |-> Plan[p], currency |-> Currency[p], run |-> run, measure |-> measure]
CaptureUnits(u) == sent' = Append(sent, u) /\ captures' = Append(captures, Len(sent) + 1)

\* What the items, events and profiles services capture for a batch.
CaptureData(p, bytes) == CaptureUnits(Unit("items", "data", "MB", BytesToMetric(bytes), p, 0, bytes))

\* A worker's publication that fails is logged and forgotten.
WorkerCapture(u) == (CaptureUnits(u) /\ NoBillFault) \/ (BillFault /\ UNCHANGED <<sent, captures>>)

Metered(w, at) == metering[w].kind # "none" /\ metering[w].at = at
Flagged(w) == metering[w].kind \in {"training", "completion"}

\* Training, identification and past segmentation measure from their start on, a
\* completion once its cloud job is found completed.
BeginMetering(w, kind, p) ==
  /\ metering[w] = NoMetering /\ meterings < MaxMeterings
  /\ metering' = [metering EXCEPT ![w] =
       [kind |-> kind, payer |-> p, run |-> meterings + 1, bytes |-> 0, files |-> 0,
        computing |-> kind # "completion",
        at |-> IF kind = "completion" THEN "poll" ELSE IF kind = "training" THEN "build" ELSE "work"]]
  /\ meterings' = meterings + 1 /\ UNCHANGED <<sent, captures, queueVars, billFaults>>
TrackComputeUnits(w) ==
  /\ Metered(w, "poll")
  /\ metering' = [metering EXCEPT ![w].computing = TRUE, ![w].at = "work"]
  /\ UNCHANGED <<sent, captures, queueVars, meterings, billFaults>>
TrackDataUnits(w, bytes) ==
  /\ Metered(w, "build") /\ metering[w].files < 2
  /\ metering' = [metering EXCEPT ![w].bytes = @ + bytes, ![w].files = @ + 1]
  /\ UNCHANGED <<sent, captures, queueVars, meterings, billFaults>>
CompleteDataUnitsOf(w) ==
  /\ Metered(w, "build") /\ metering[w].files > 0
  /\ WorkerCapture(Unit(metering[w].kind, "data", "MB", WorkerBytesToMetric(metering[w].bytes),
                        metering[w].payer, metering[w].run, metering[w].bytes))
  /\ metering' = [metering EXCEPT ![w].at = "work"]
  /\ UNCHANGED <<queueVars, meterings>>

\* Mutant: the flag is not cleared.
FlagKept(w, next) == [metering EXCEPT ![w] = IF next = "none" THEN NoMetering ELSE [@ EXCEPT !.at = next]]
FlagCleared(w, next) ==
  [metering EXCEPT ![w] = IF next = "none" THEN NoMetering
                          ELSE [@ EXCEPT !.computing = ~Flagged(w), !.at = next]]

\* The hours since the tracking began.  The flag makes the training and completion
\* workers capture them once; the other two have none.
CompleteComputeUnits(w, next) ==
  /\ \/ /\ metering[w].computing
        /\ \E hours \in 1 .. 2 :
             WorkerCapture(Unit(metering[w].kind, "compute", "hours", hours, metering[w].payer,
                                metering[w].run, hours))
     \/ ~metering[w].computing /\ UNCHANGED <<sent, captures, billFaults>>
  /\ metering' = FlagCleared(w, next)
  /\ UNCHANGED <<queueVars, meterings>>
EndMetering(w) ==
  \/ Metered(w, "work") /\ CompleteComputeUnits(w, "none")
  \/ /\ Metered(w, "poll") /\ metering' = [metering EXCEPT ![w] = NoMetering]
     /\ UNCHANGED <<sent, captures, queueVars, meterings, billFaults>>

\* A job that fails captures its hours and is disposed of.  The identification job
\* captures once more when it is disposed of, and the guard on the number of its
\* profiles disposes of it before the failure is seen.
FailMetering(w) ==
  /\ metering[w].kind \in {"training", "completion", "identification"}
  /\ \/ Metered(w, "poll") /\ CompleteComputeUnits(w, "none")
     \/ Metered(w, "build") /\ CompleteComputeUnits(w, "dispose")
     \/ /\ Metered(w, "work")
        /\ CompleteComputeUnits(w, IF metering[w].kind = "completion" THEN "none" ELSE "dispose")
     \/ /\ Metered(w, "work") /\ metering[w].kind = "identification"
        /\ CompleteComputeUnits(w, "guard")
     \/ Metered(w, "guard") /\ CompleteComputeUnits(w, "dispose")
\* A training worker captures only when the callback fails, by then with its flag cleared.
DisposeMetering(w) == Metered(w, "dispose") /\ CompleteComputeUnits(w, "none")
-------------------------------------------------------------------------------
(* Charging. *)

\* BillableUnits::from_value: no field of a unit may be null.
ValidUnit(u) == u.plan # NoPlan
MetricCosts(u) == Costs[<<u.type, u.metric>>]
BilledCurrency(u) == IF u.currency \in DOMAIN MetricCosts(u) THEN u.currency ELSE "GBP"
\* An unknown unit, metric or plan is toxic; a missing fallback is not.
Known(u) == <<u.type, u.metric>> \in DOMAIN Costs
Priced(u) == Known(u) /\ BilledCurrency(u) \in DOMAIN MetricCosts(u)
Toxic(u) == ~Known(u) \/ (Priced(u) /\ u.plan \notin DOMAIN MetricCosts(u)[BilledCurrency(u)])
Fee(u) == MetricCosts(u)[BilledCurrency(u)][u.plan]

\* The charge of capture n.
Charge(n) ==
  LET u == sent[n] IN
  [of |-> n, payer |-> u.payer, type |-> u.type, quantity |-> u.quantity,
   currency |-> BilledCurrency(u), total |-> Fee(u) * u.quantity]

TakeCapture ==
  /\ taken = 0 /\ captures # <<>>
  /\ taken' = Head(captures)
  /\ UNCHANGED <<sent, captures, refused, charges, erased, metering, meterings, billFaults>>
Ack == taken' = 0 /\ captures' = Tail(captures)
Requeue == taken' = 0 /\ UNCHANGED captures

HandleCapture ==
  LET u == sent[taken] IN
  /\ taken # 0
  /\ \/ /\ ~ValidUnit(u) \/ Toxic(u)
        /\ Ack /\ refused' = refused \cup {taken} /\ NoBillFault /\ UNCHANGED charges
     \/ /\ ValidUnit(u) /\ ~Toxic(u) /\ Priced(u) /\ Named
        /\ charges' = Append(charges, Charge(taken)) /\ UNCHANGED refused
        \* stored, but the answer is lost
        /\ (Ack /\ NoBillFault) \/ (Requeue /\ BillFault)
     \* the gateway refuses a post that names no tenant
     \/ /\ ValidUnit(u) /\ ~Toxic(u)
        /\ (~Priced(u) /\ NoBillFault) \/ Refused(NoBillFault) \/ BillFault
        /\ Requeue /\ UNCHANGED <<refused, charges>>
  /\ UNCHANGED <<sent, erased, metering, meterings>>
ConsumeCapture == TakeCapture \/ HandleCapture

DeleteAccountBilling(p) ==
  /\ Named
  /\ charges' = [k \in DOMAIN charges |->
                   IF charges[k] # Removed /\ charges[k].payer = p THEN Removed ELSE charges[k]]
  /\ erased' = erased \cup {n \in DOMAIN sent : sent[n].payer = p /\ n \notin ToSet(captures)}
  /\ UNCHANGED <<sent, captures, taken, refused, metering, meterings, billFaults>>

\* An empty list and a zero are no filter.  The page begins after as many charges as the
\* cursor says.
FilterBillableUnits(payers, types, upper, lower, cursor) ==
  LET found == {k \in DOMAIN charges :
                 /\ charges[k] # Removed
                 /\ payers = {} \/ charges[k].payer \in payers
                 /\ types = {} \/ charges[k].type \in types
                 /\ upper = 0 \/ charges[k].total <= upper
                 /\ lower = 0 \/ charges[k].total >= lower}
      before(k) == Cardinality({j \in found : j < k})
  IN [units |-> {k \in found : cursor <= before(k) /\ before(k) < cursor + PageLimit},
      total |-> Cardinality(found)]
-------------------------------------------------------------------------------
(* Any service, any worker. *)

BillingNext ==
  \/ \E p \in Payers, bytes \in Nat :
       CaptureData(p, bytes) /\ UNCHANGED <<queueVars, metering, meterings, billFaults>>
  \/ \E w \in Meters :
       \/ \E p \in Payers, kind \in {"training", "completion", "identification", "past"} :
            BeginMetering(w, kind, p)
       \/ TrackComputeUnits(w) \/ \E bytes \in Sizes : TrackDataUnits(w, bytes)
       \/ CompleteDataUnitsOf(w) \/ EndMetering(w) \/ FailMetering(w) \/ DisposeMetering(w)
  \/ ConsumeCapture \/ \E p \in Payers : DeleteAccountBilling(p)
BillingSpec == BillingInit /\ [][BillingNext]_billVars

\* Where the copies of capture n are listed: the page and the charge, over all pages of
\* the account's charges.
Listed(n) ==
  {d \in (0 .. Len(charges)) \X DOMAIN charges :
     /\ d[2] \in FilterBillableUnits({sent[n].payer}, {}, 0, 0, d[1] * PageLimit).units
     /\ charges[d[2]].of = n}

\* A capture is charged, once but for lost answers, unless its account has no plan; the
\* charge is the fee of the account's plan, in its own currency or else in pounds, for
\* what was measured, give or take half a unit and never for less than one.  A job is
\* charged once for its hours and its data, three times for its hours when it is an
\* identification job.
ChargedAsCaptured ==
  /\ \A n \in DOMAIN sent :
       LET u == sent[n] IN
       /\ Cardinality(Listed(n)) <= billFaults + (IF n \in ToSet(captures) THEN 0 ELSE 1)
       /\ n \in refused => Plan[u.payer] = NoPlan
       /\ n \in ToSet(captures) \cup refused \cup erased \/ Listed(n) # {}
       /\ \A d \in Listed(n) :
            LET c == charges[d[2]]
                units == c.quantity
                own == Currency[u.payer] \in DOMAIN Costs[<<u.type, u.metric>>] IN
            /\ c.currency = (IF own THEN Currency[u.payer] ELSE "GBP")
            /\ c.total = units * Costs[<<u.type, u.metric>>][c.currency][Plan[u.payer]]
            /\ IF u.type = "compute" THEN units = u.measure
               ELSE units = 1 \/ (2 * units * Megabyte \in 2 * u.measure - Megabyte .. 2 * u.measure + Megabyte)
            /\ units = 1 /\ u.type = "data" => 2 * u.measure <= 3 * Megabyte
  /\ \A n \in {m \in DOMAIN sent : sent[m].run # 0} :
       Cardinality({m \in DOMAIN sent : sent[m].run = sent[n].run /\ sent[m].type = sent[n].type})
         <= (IF sent[n].process = "identification" THEN 3 ELSE 1)
===============================================================================
