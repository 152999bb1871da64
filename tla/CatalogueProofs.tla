--------------------------- MODULE CatalogueProofs ---------------------------
(***************************************************************************)
(* Proofs about Billing and Items, for any accounts, workers, sizes, callers *)
(* and sets of items.  A capture off the queue has left its charge behind, and  *)
(* a lost answer is the only way to a second one.  What a request has answered  *)
(* of an item stays true until another request is at it, the limit of the       *)
(* account is kept unless two creations overlap, and a stop list that no        *)
(* deletion has spoiled names items only.                                       *)
(***************************************************************************)
EXTENDS Items, FiniteSetTheorems, TLAPS

(* Rounding and pages. *)

LEMMA DivMod ==
  ASSUME NEW b \in Nat, NEW m \in Nat \ {0}
  PROVE  /\ b \div m \in Nat /\ b % m \in Nat /\ b % m < m
         /\ b = (b \div m) * m + (b % m)
OBVIOUS

\* Whole megabytes, one more or not.
Rounded(q, b) ==
  \E whole, rest \in Nat :
    /\ b = whole * Megabyte + rest /\ rest < Megabyte
    /\ (q = whole /\ 2 * rest <= Megabyte) \/ (q = whole + 1 /\ 2 * rest >= Megabyte)

LEMMA RoundsServices == ASSUME NEW b \in Nat PROVE Rounded(BytesToMetric(b), b)
<1> DEFINE whole == b \div Megabyte
           rest == b % Megabyte
<1>1. whole \in Nat /\ rest \in Nat /\ rest < Megabyte /\ b = whole * Megabyte + rest
  BY DivMod, BillingAssumption
<1>2. BytesToMetric(b) = IF 2 * rest > Megabyte \/ (2 * rest = Megabyte /\ whole % 2 = 1) THEN whole + 1 ELSE whole
  BY DEF BytesToMetric, RoundTies
<1> HIDE DEF whole, rest
<1>3. \/ BytesToMetric(b) = whole /\ 2 * rest <= Megabyte
      \/ BytesToMetric(b) = whole + 1 /\ 2 * rest >= Megabyte
  BY <1>1, <1>2, BillingAssumption
<1> QED BY <1>1, <1>3 DEF Rounded

LEMMA RoundsWorkers == ASSUME NEW b \in Nat PROVE Rounded(WorkerBytesToMetric(b), b)
<1> DEFINE whole == b \div Megabyte
           rest == b % Megabyte
<1>1. whole \in Nat /\ rest \in Nat /\ rest < Megabyte /\ b = whole * Megabyte + rest
  BY DivMod, BillingAssumption
<1>2. WorkerBytesToMetric(b) = IF 2 * rest > Megabyte \/ 2 * rest = Megabyte THEN whole + 1 ELSE whole
  BY DEF WorkerBytesToMetric, RoundTies
<1> HIDE DEF whole, rest
<1>3. \/ WorkerBytesToMetric(b) = whole /\ 2 * rest <= Megabyte
      \/ WorkerBytesToMetric(b) = whole + 1 /\ 2 * rest >= Megabyte
  BY <1>1, <1>2, BillingAssumption
<1> QED BY <1>1, <1>3 DEF Rounded

Fits(u) ==
  /\ u.quantity = 1 \/ (2 * u.quantity * Megabyte \in 2 * u.measure - Megabyte .. 2 * u.measure + Megabyte)
  /\ u.quantity = 1 => 2 * u.measure <= 3 * Megabyte
LEMMA FitsRounded ==
  ASSUME NEW b \in Nat, NEW q, Rounded(q, b), NEW u, u.measure = b, u.quantity = IF q > 0 THEN q ELSE 1
  PROVE  q \in Nat /\ Fits(u)
<1>1. PICK whole \in Nat, rest \in Nat :
    /\ b = whole * Megabyte + rest /\ rest < Megabyte
    /\ (q = whole /\ 2 * rest <= Megabyte) \/ (q = whole + 1 /\ 2 * rest >= Megabyte)
  BY DEF Rounded
<1>2. PICK d \in Nat : d = whole * Megabyte BY BillingAssumption
<1>3. Megabyte \in Nat \ {0} BY BillingAssumption
<1>4. CASE q = whole /\ 2 * rest <= Megabyte
  <2>1. CASE q = 0
    <3>1. d = 0 BY <1>2, <1>3, <1>4, <2>1
    <3>2. u.quantity = 1 BY <2>1
    <3> QED BY <1>1, <1>2, <1>3, <1>4, <3>1, <3>2 DEF Fits
  <2>2. CASE q # 0
    <3>1. u.quantity = whole /\ u.quantity \in Nat BY <1>4, <2>2
    <3>2. 2 * u.quantity * Megabyte = 2 * d BY <1>2, <1>3, <3>1
    <3>3. u.quantity = 1 => d = Megabyte BY <1>2, <1>3, <3>1
    <3> QED BY <1>1, <1>2, <1>3, <1>4, <3>1, <3>2, <3>3 DEF Fits
  <2> QED BY <1>4, <2>1, <2>2
<1>5. CASE q = whole + 1 /\ 2 * rest >= Megabyte
  <2>1. u.quantity = whole + 1 /\ u.quantity \in Nat BY <1>5
  <2>2. 2 * u.quantity * Megabyte = 2 * d + 2 * Megabyte BY <1>2, <1>3, <2>1
  <2>3. u.quantity = 1 => d = 0 BY <1>2, <1>3, <2>1
  <2> QED BY <1>1, <1>2, <1>3, <1>5, <2>1, <2>2, <2>3 DEF Fits
<1> QED BY <1>1, <1>4, <1>5

LEMMA OnePage ==
  ASSUME NEW a \in Nat, NEW b \in Nat, NEW x \in Nat,
         a * PageLimit <= x, x < a * PageLimit + PageLimit,
         b * PageLimit <= x, x < b * PageLimit + PageLimit
  PROVE  a = b
<1>0. PageLimit \in Nat \ {0} BY BillingAssumption
<1>1. ASSUME NEW c \in Nat, NEW d \in Nat, c < d PROVE c * PageLimit + PageLimit <= d * PageLimit
  <2>1. PICK e \in Nat : d = c + 1 + e
    <3>1. d - c - 1 \in Nat /\ d = c + 1 + (d - c - 1) BY <1>1
    <3> QED BY <3>1
  <2>2. d * PageLimit = c * PageLimit + PageLimit + e * PageLimit BY <1>0, <2>1
  <2>3. e * PageLimit \in Nat /\ c * PageLimit \in Nat BY <1>0
  <2> QED BY <1>0, <2>2, <2>3
<1>2. a * PageLimit \in Nat /\ b * PageLimit \in Nat BY <1>0
<1> QED BY <1>0, <1>1, <1>2

LEMMA PageHolding ==
  ASSUME NEW x \in Nat
  PROVE  \E a \in Nat : a * PageLimit <= x /\ x < a * PageLimit + PageLimit /\ a <= x
<1>0. PageLimit \in Nat \ {0} BY BillingAssumption
<1>1. PICK a \in Nat, r \in Nat : r < PageLimit /\ x = a * PageLimit + r
  <2>1. x \div PageLimit \in Nat /\ x % PageLimit \in Nat /\ x % PageLimit < PageLimit
        /\ x = (x \div PageLimit) * PageLimit + (x % PageLimit)
    BY <1>0, DivMod
  <2> QED BY <2>1
<1>2. PICK d \in Nat : d = a * PageLimit /\ a <= d BY <1>0
<1> QED BY <1>0, <1>1, <1>2
-------------------------------------------------------------------------------
(* Charges.  The invariant of billing. *)

Kinds == {"training", "completion", "identification", "past"}
Units == [process : Kinds \cup {"items"}, type : {"data", "compute"}, metric : {"MB", "hours"},
          quantity : Nat, payer : Payers, plan : {Plan[p] : p \in Payers},
          currency : {Currency[p] : p \in Payers}, run : Nat, measure : Nat]
Job == [kind : Kinds, payer : Payers, run : Nat, bytes : Nat, files : 0 .. 2, computing : BOOLEAN,
        at : {"poll", "build", "work", "guard", "dispose"}]

\* What is captured is what was measured, of an account, for its plan and currency.
Measured(u) ==
  /\ u \in Units /\ u.plan = Plan[u.payer] /\ u.currency = Currency[u.payer]
  /\ <<u.type, u.metric>> \in Metrics
  /\ IF u.type = "compute" THEN u.quantity = u.measure ELSE Fits(u)

Stored(k) == charges[k] # Removed
Chargeable(n) == n \in DOMAIN sent /\ ValidUnit(sent[n]) /\ ~Toxic(sent[n]) /\ Priced(sent[n])

SentInv ==
  /\ sent \in Seq(Units) /\ \A n \in DOMAIN sent : Measured(sent[n])
  /\ billFaults \in Nat /\ meterings \in Nat

\* The queue has each capture once, the oldest first, and the one at its head is being handled.
QueueInv ==
  /\ captures \in Seq(Nat) /\ \A j \in DOMAIN captures : captures[j] \in DOMAIN sent
  /\ \A j, k \in DOMAIN captures : j < k => captures[j] < captures[k]
  /\ taken # 0 => captures # <<>> /\ taken = Head(captures)
  /\ refused \subseteq DOMAIN sent /\ erased \subseteq DOMAIN sent
  /\ \A n \in refused : sent[n].plan = NoPlan

\* A charge is the charge of a capture; a capture off the queue has left one behind.
Copies(n) == {k \in DOMAIN charges : Stored(k) /\ charges[k].of = n}
Waiting(n) == n \in ToSet(captures)
ChargeInv ==
  /\ charges \in Seq({Removed} \cup {Charge(n) : n \in DOMAIN sent})
  /\ \A k \in DOMAIN charges : Stored(k) =>
       Chargeable(charges[k].of) /\ charges[k] = Charge(charges[k].of)
  /\ \A n \in DOMAIN sent :
       /\ Cardinality(Copies(n)) <= billFaults + (IF Waiting(n) THEN 0 ELSE 1)
       /\ Waiting(n) \/ n \in refused \cup erased \/ Copies(n) # {}

\* Captures of one job; how many there may be when it is at j.
CapturesOf(r, type) == {m \in DOMAIN sent : sent[m].run = r /\ sent[m].type = type}
ComputeDone(j) ==
  IF j.kind = "identification" THEN IF j.at = "work" THEN 0 ELSE IF j.at = "guard" THEN 1 ELSE 2
  ELSE IF j.computing \/ j.at = "poll" THEN 0 ELSE 1
DataDone(j) == IF j.at = "build" THEN 0 ELSE 1
Places(kind) ==
  IF kind = "training" THEN {"build", "work", "dispose"}
  ELSE IF kind = "completion" THEN {"poll", "work"}
  ELSE IF kind = "identification" THEN {"work", "guard", "dispose"} ELSE {"work"}
JobInv(j) ==
  /\ j \in Job /\ j.run \in 1 .. meterings /\ j.at \in Places(j.kind)
  /\ j.kind \in {"identification", "past"} => j.computing
  /\ j.at = "poll" => ~j.computing
  /\ j.at = "dispose" /\ j.kind = "training" => ~j.computing
  /\ \A m \in DOMAIN sent : sent[m].run = j.run => sent[m].process = j.kind
  /\ Cardinality(CapturesOf(j.run, "compute")) <= ComputeDone(j)
  /\ Cardinality(CapturesOf(j.run, "data")) <= DataDone(j)

Limit(process) == IF process = "identification" THEN 3 ELSE 1
Working == {w \in Meters : metering[w] # NoMetering}
MeterInv ==
  /\ metering = [w \in Meters |-> metering[w]]
  /\ \A w \in Working : JobInv(metering[w])
  /\ \A v, w \in Working : v # w => metering[v].run # metering[w].run
  /\ \A m \in DOMAIN sent : sent[m].run <= meterings
  /\ \A m, n \in DOMAIN sent : sent[m].run = sent[n].run /\ sent[m].run # 0 => sent[m].process = sent[n].process
  /\ \A n \in DOMAIN sent : sent[n].run # 0 =>
       \A type \in {"data", "compute"} : Cardinality(CapturesOf(sent[n].run, type)) <= Limit(sent[n].process)

BillInv == SentInv /\ QueueInv /\ ChargeInv /\ MeterInv
-------------------------------------------------------------------------------
(* What a capture adds. *)

LEMMA SentFacts ==
  ASSUME SentInv
  PROVE  /\ DOMAIN sent = 1 .. Len(sent) /\ Len(sent) \in Nat
         /\ \A r, type : IsFiniteSet(CapturesOf(r, type)) /\ Cardinality(CapturesOf(r, type)) \in Nat
<1>1. DOMAIN sent = 1 .. Len(sent) /\ Len(sent) \in Nat BY DEF SentInv
<1>2. IsFiniteSet(1 .. Len(sent)) BY <1>1, FS_Interval
<1>3. \A r, type : CapturesOf(r, type) \subseteq 1 .. Len(sent) BY <1>1 DEF CapturesOf
<1> QED BY <1>1, <1>2, <1>3, FS_Subset, FS_CardinalityType

LEMMA SentFactsNext ==
  ASSUME SentInv'
  PROVE  \A r, type : IsFiniteSet(CapturesOf(r, type)') /\ Cardinality(CapturesOf(r, type)') \in Nat
<1>1. DOMAIN sent' = 1 .. Len(sent') /\ Len(sent') \in Nat BY DEF SentInv
<1>2. IsFiniteSet(1 .. Len(sent')) BY <1>1, FS_Interval
<1>3. \A r, type : CapturesOf(r, type)' \subseteq 1 .. Len(sent') BY <1>1 DEF CapturesOf
<1> QED BY <1>1, <1>2, <1>3, FS_Subset, FS_CardinalityType

LEMMA SentAppended ==
  ASSUME SentInv, NEW u, Measured(u), sent' = Append(sent, u), billFaults' \in Nat, meterings' \in Nat
  PROVE  /\ SentInv' /\ DOMAIN sent' = DOMAIN sent \cup {Len(sent) + 1} /\ Len(sent) + 1 \notin DOMAIN sent
         /\ \A n \in DOMAIN sent : sent'[n] = sent[n]
         /\ sent'[Len(sent) + 1] = u
<1>1. u \in Units /\ sent \in Seq(Units) BY DEF Measured, SentInv
<1>2. DOMAIN sent = 1 .. Len(sent) /\ Len(sent) \in Nat BY SentFacts
<1>3. /\ sent' \in Seq(Units) /\ Len(sent') = Len(sent) + 1 /\ DOMAIN sent' = 1 .. Len(sent) + 1
      /\ \A n \in 1 .. Len(sent) : sent'[n] = sent[n]
      /\ sent'[Len(sent) + 1] = u
  BY <1>1, <1>2
<1>4. DOMAIN sent' = DOMAIN sent \cup {Len(sent) + 1} /\ Len(sent) + 1 \notin DOMAIN sent BY <1>2, <1>3
<1>5. \A n \in DOMAIN sent' : Measured(sent'[n]) BY <1>2, <1>3, <1>4 DEF SentInv
<1>6. SentInv' BY <1>3, <1>5 DEF SentInv, Measured, Fits
<1> QED BY <1>2, <1>3, <1>4, <1>6

LEMMA CapturesAppended ==
  ASSUME SentInv, NEW u, Measured(u), sent' = Append(sent, u), billFaults' \in Nat, meterings' \in Nat,
         NEW r, NEW type
  PROVE  IF u.run = r /\ u.type = type
         THEN /\ CapturesOf(r, type)' = CapturesOf(r, type) \cup {Len(sent) + 1}
              /\ Cardinality(CapturesOf(r, type)') = Cardinality(CapturesOf(r, type)) + 1
         ELSE CapturesOf(r, type)' = CapturesOf(r, type)
<1>1. /\ DOMAIN sent' = DOMAIN sent \cup {Len(sent) + 1} /\ Len(sent) + 1 \notin DOMAIN sent
      /\ \A n \in DOMAIN sent : sent'[n] = sent[n]
      /\ sent'[Len(sent) + 1] = u
  BY SentAppended
<1>2. CASE u.run = r /\ u.type = type
  <2>1. CapturesOf(r, type)' = CapturesOf(r, type) \cup {Len(sent) + 1} BY <1>1, <1>2 DEF CapturesOf
  <2>2. Len(sent) + 1 \notin CapturesOf(r, type) BY <1>1 DEF CapturesOf
  <2>3. IsFiniteSet(CapturesOf(r, type)) BY SentFacts
  <2>4. Cardinality(CapturesOf(r, type) \cup {Len(sent) + 1}) = Cardinality(CapturesOf(r, type)) + 1
    BY <2>2, <2>3, FS_AddElement
  <2> QED BY <1>2, <2>1, <2>4
<1>3. CASE ~(u.run = r /\ u.type = type) BY <1>1, <1>3 DEF CapturesOf
<1> QED BY <1>2, <1>3

\* Charges and the queue look at captures by their number, and captures stay.
LEMMA ChargeKept ==
  ASSUME SentInv, NEW n \in DOMAIN sent, n \in DOMAIN sent', sent'[n] = sent[n]
  PROVE  Charge(n)' = Charge(n) /\ (Chargeable(n) => Chargeable(n)')
<1>1. Charge(n)' = Charge(n) BY DEF Charge, Fee, BilledCurrency, MetricCosts
<1>2. Chargeable(n) => Chargeable(n)'
  BY DEF Chargeable, ValidUnit, Toxic, Priced, Known, Fee, BilledCurrency, MetricCosts
<1> QED BY <1>1, <1>2

LEMMA Captured ==
  ASSUME SentInv, QueueInv, ChargeInv, NEW u, Measured(u), CaptureUnits(u), UNCHANGED queueVars,
         billFaults' = billFaults, meterings' \in Nat
  PROVE  SentInv' /\ QueueInv' /\ ChargeInv'
<1> PICK m : m = Len(sent) + 1 OBVIOUS
<1>1. /\ sent' = Append(sent, u) /\ captures' = Append(captures, Len(sent) + 1)
      /\ taken' = taken /\ refused' = refused /\ charges' = charges /\ erased' = erased
      /\ billFaults' \in Nat
  BY DEF CaptureUnits, queueVars, SentInv
<1>2. /\ SentInv' /\ DOMAIN sent' = DOMAIN sent \cup {Len(sent) + 1} /\ Len(sent) + 1 \notin DOMAIN sent
      /\ \A n \in DOMAIN sent : sent'[n] = sent[n]
  BY <1>1, SentAppended
<1>3. DOMAIN sent = 1 .. Len(sent) /\ Len(sent) \in Nat BY SentFacts
<1>4. /\ captures' \in Seq(Nat) /\ Len(captures) \in Nat /\ DOMAIN captures = 1 .. Len(captures)
      /\ DOMAIN captures' = 1 .. Len(captures) + 1
      /\ \A j \in DOMAIN captures : captures'[j] = captures[j]
      /\ captures'[Len(captures) + 1] = Len(sent) + 1
  BY <1>1, <1>3 DEF QueueInv
<1>5. \A j \in DOMAIN captures : captures[j] \in 1 .. Len(sent) BY <1>3 DEF QueueInv
<1>6. QueueInv'
  <2>1. \A j \in DOMAIN captures' : captures'[j] \in DOMAIN sent' BY <1>2, <1>4, <1>5, <1>3, SMTT(30)
  <2>2. ASSUME NEW j \in DOMAIN captures', NEW k \in DOMAIN captures', j < k PROVE captures'[j] < captures'[k]
    <3>1. j \in DOMAIN captures BY <1>4, <2>2
    <3>2. CASE k \in DOMAIN captures BY <1>4, <2>2, <3>1, <3>2 DEF QueueInv
    <3>3. CASE k = Len(captures) + 1
      <4>1. captures'[k] = Len(sent) + 1 BY <1>4, <3>3
      <4> QED BY <1>3, <1>4, <1>5, <3>1, <4>1
    <3> QED BY <1>4, <3>2, <3>3
  <2>3. taken' # 0 => captures' # <<>> /\ taken' = Head(captures')
    <3>1. SUFFICES ASSUME taken # 0 PROVE captures' # <<>> /\ taken = Head(captures') BY <1>1
    <3>2. captures \in Seq(Nat) /\ captures # <<>> /\ taken = Head(captures) BY <3>1 DEF QueueInv
    <3> QED BY <1>1, <1>3, <3>2
  <2>4. \A n \in refused : sent'[n].plan = NoPlan BY <1>2 DEF QueueInv
  <2> QED BY <1>1, <1>2, <1>4, <2>1, <2>2, <2>3, <2>4 DEF QueueInv
<1>7. ChargeInv'
  <2>1. \A n \in DOMAIN sent : Charge(n)' = Charge(n) /\ (Chargeable(n) => Chargeable(n)')
    BY <1>2, ChargeKept
  <2>2. charges' \in Seq({Removed} \cup {Charge(n) : n \in DOMAIN sent})'
    <3> DEFINE S == {Removed} \cup {Charge(n) : n \in DOMAIN sent}
               T == ({Removed} \cup {Charge(n) : n \in DOMAIN sent})'
    <3>1. S \subseteq T BY <1>2, <2>1 DEF Removed
    <3>2. charges \in Seq(S) BY DEF ChargeInv
    <3> HIDE DEF S, T
    <3>3. charges \in Seq(T) BY <3>1, <3>2
    <3> QED BY <1>1, <3>3 DEF T
  <2>3. \A k \in DOMAIN charges' : Stored(k)' => Chargeable(charges[k].of)' /\ charges[k] = Charge(charges[k].of)'
    BY <1>1, <2>1 DEF ChargeInv, Stored, Removed, Chargeable
  <2>4. \A n : Copies(n)' = Copies(n) BY <1>1 DEF Copies, Stored, Removed
  <2>5. \A n \in DOMAIN sent : Waiting(n)' <=> Waiting(n)
    <3>1. ToSet(captures') = ToSet(captures) \cup {m} BY <1>4, SMTT(30) DEF ToSet
    <3> QED BY <1>2, <3>1 DEF Waiting
  <2>6. Waiting(m)' BY <1>4 DEF Waiting, ToSet
  <2>7. Copies(m) = {} BY <1>2 DEF Copies, ChargeInv, Chargeable
  <2>8. \A n \in DOMAIN sent' :
          /\ Cardinality(Copies(n)') <= billFaults' + (IF Waiting(n)' THEN 0 ELSE 1)
          /\ Waiting(n)' \/ n \in refused' \cup erased' \/ Copies(n)' # {}
    <3>1. ASSUME NEW n \in DOMAIN sent
          PROVE  /\ Cardinality(Copies(n)') <= billFaults' + (IF Waiting(n)' THEN 0 ELSE 1)
                 /\ Waiting(n)' \/ n \in refused' \cup erased' \/ Copies(n)' # {}
      BY <1>1, <2>4, <2>5 DEF ChargeInv
    <3>2. Cardinality(Copies(m)') = 0 BY <2>4, <2>7, FS_EmptySet
    <3>3. billFaults' \in Nat BY <1>1
    <3> QED BY <1>2, <2>6, <3>1, <3>2, <3>3
  <2> QED BY <1>1, <2>2, <2>3, <2>8 DEF ChargeInv
<1> QED BY <1>2, <1>6, <1>7

\* Nothing is captured.
LEMMA NotCaptured ==
  ASSUME SentInv, QueueInv, ChargeInv, UNCHANGED <<sent, captures, queueVars>>,
         billFaults' \in Nat, billFaults' >= billFaults, meterings' \in Nat
  PROVE  SentInv' /\ QueueInv' /\ ChargeInv'
<1>1. /\ sent' = sent /\ captures' = captures
      /\ taken' = taken /\ refused' = refused /\ charges' = charges /\ erased' = erased
  BY DEF queueVars
<1>2. SentInv' BY <1>1 DEF SentInv, Measured, Fits
<1>3. QueueInv' BY <1>1 DEF QueueInv
<1>4. \A n \in DOMAIN sent : Charge(n)' = Charge(n) /\ (Chargeable(n) => Chargeable(n)') BY <1>1, ChargeKept
<1>5. \A n : Copies(n)' = Copies(n) /\ (Waiting(n)' <=> Waiting(n)) BY <1>1 DEF Copies, Stored, Removed, Waiting
<1>6. charges' \in Seq({Removed} \cup {Charge(n) : n \in DOMAIN sent})'
  <2>1. {Charge(n) : n \in DOMAIN sent}' = {Charge(n) : n \in DOMAIN sent} BY <1>1, <1>4
  <2> QED BY <1>1, <2>1 DEF ChargeInv, Removed
<1>7. \A n \in DOMAIN sent : Cardinality(Copies(n)) <= billFaults' + (IF Waiting(n) THEN 0 ELSE 1)
  <2>1. TAKE n \in DOMAIN sent
  <2>2. Cardinality(Copies(n)) <= billFaults + (IF Waiting(n) THEN 0 ELSE 1) BY DEF ChargeInv
  <2>3. Copies(n) \subseteq DOMAIN charges /\ DOMAIN charges = 1 .. Len(charges) /\ Len(charges) \in Nat
    BY DEF Copies, ChargeInv
  <2>4. Cardinality(Copies(n)) \in Nat
    <3>1. IsFiniteSet(DOMAIN charges) BY <2>3, FS_Interval
    <3> QED BY <2>3, <3>1, FS_Subset, FS_CardinalityType
  <2> QED BY <2>2, <2>4 DEF SentInv
<1>8. \A k \in DOMAIN charges' : Stored(k)' => Chargeable(charges[k].of)' /\ charges[k] = Charge(charges[k].of)'
  BY <1>1, <1>4 DEF ChargeInv, Stored, Removed, Chargeable
<1> QED BY <1>1, <1>2, <1>3, <1>5, <1>6, <1>7, <1>8 DEF ChargeInv
-------------------------------------------------------------------------------
(* Steps of a worker that meters a job. *)

LEMMA WorkerFacts ==
  ASSUME BillInv, NEW w \in Meters, metering[w].kind # "none"
  PROVE  /\ w \in Working /\ JobInv(metering[w]) /\ metering[w] \in Job
         /\ metering = [v \in Meters |-> metering[v]]
<1>1. w \in Working BY DEF Working, NoMetering
<1> QED BY <1>1 DEF BillInv, MeterInv, JobInv

\* A worker moves its job on to j, or ends it, with a capture of the job or none.
MovesOn(w, j, u) ==
  /\ metering' = [metering EXCEPT ![w] = j] /\ meterings' = meterings
  /\ \/ sent' = sent
     \/ /\ sent' = Append(sent, u) /\ Measured(u) /\ u.run = metering[w].run /\ u.process = metering[w].kind

Step(u, type) == IF sent' # sent /\ u.type = type THEN 1 ELSE 0
CanMove(i, j, u) ==
  /\ j # NoMetering =>
       /\ j \in Job /\ j.run = i.run /\ j.kind = i.kind /\ j.at \in Places(j.kind)
       /\ j.kind \in {"identification", "past"} => j.computing
       /\ j.at = "poll" => ~j.computing
       /\ j.at = "dispose" /\ j.kind = "training" => ~j.computing
       /\ ComputeDone(i) + Step(u, "compute") <= ComputeDone(j)
       /\ DataDone(i) + Step(u, "data") <= DataDone(j)
  /\ ComputeDone(i) + Step(u, "compute") <= Limit(i.kind)
  /\ DataDone(i) + Step(u, "data") <= Limit(i.kind)
LEMMA JobMoves ==
  ASSUME BillInv, SentInv', NEW w \in Meters, metering[w].kind # "none", NEW j, NEW u, MovesOn(w, j, u),
         CanMove(metering[w], j, u)
  PROVE  MeterInv'
<1> PICK i, run : i = metering[w] /\ run = i.run OBVIOUS
<1>0. /\ j # NoMetering =>
           /\ j \in Job /\ j.run = run /\ j.kind = i.kind /\ j.at \in Places(j.kind)
           /\ j.kind \in {"identification", "past"} => j.computing
           /\ j.at = "poll" => ~j.computing
           /\ j.at = "dispose" /\ j.kind = "training" => ~j.computing
           /\ ComputeDone(i) + Step(u, "compute") <= ComputeDone(j)
           /\ DataDone(i) + Step(u, "data") <= DataDone(j)
      /\ ComputeDone(i) + Step(u, "compute") <= Limit(i.kind)
      /\ DataDone(i) + Step(u, "data") <= Limit(i.kind)
  BY DEF CanMove
<1>1. /\ w \in Working /\ JobInv(i) /\ i \in Job /\ i.run \in 1 .. meterings /\ meterings \in Nat
      /\ metering = [v \in Meters |-> metering[v]] /\ MeterInv /\ SentInv
  BY WorkerFacts DEF BillInv, JobInv, SentInv
<1>2. /\ metering' = [v \in Meters |-> IF v = w THEN j ELSE metering[v]] /\ meterings' = meterings
      /\ metering' = [v \in Meters |-> metering'[v]]
  BY <1>1 DEF MovesOn
<1>3. /\ \A n \in DOMAIN sent : n \in DOMAIN sent' /\ sent'[n] = sent[n]
      /\ \A n \in DOMAIN sent' : n \in DOMAIN sent \/ (sent'[n].run = i.run /\ sent'[n].process = i.kind)
  BY <1>1, SentAppended DEF MovesOn, SentInv
<1>4. \A r, type :
        /\ r # run => CapturesOf(r, type)' = CapturesOf(r, type)
        /\ Cardinality(CapturesOf(run, type)') <= Cardinality(CapturesOf(run, type)) + Step(u, type)
  <2> TAKE r, type
  <2>1. CASE sent' = sent
    <3>1. \A q : CapturesOf(q, type)' = CapturesOf(q, type) BY <2>1 DEF CapturesOf
    <3>2. Cardinality(CapturesOf(run, type)) \in Nat BY <1>1, SentFacts
    <3> QED BY <2>1, <3>1, <3>2 DEF Step
  <2>2. CASE sent' # sent
    <3>1. sent' = Append(sent, u) /\ Measured(u) /\ u.run = i.run BY <2>2 DEF MovesOn
    <3>2. billFaults' \in Nat /\ meterings' \in Nat BY DEF SentInv
    <3>3. ASSUME NEW q
          PROVE  IF u.run = q /\ u.type = type
                 THEN Cardinality(CapturesOf(q, type)') = Cardinality(CapturesOf(q, type)) + 1
                 ELSE CapturesOf(q, type)' = CapturesOf(q, type)
      BY <1>1, <3>1, <3>2, CapturesAppended
    <3>4. Cardinality(CapturesOf(run, type)) \in Nat BY <1>1, SentFacts
    <3> QED BY <2>2, <3>1, <3>3, <3>4 DEF Step
  <2> QED BY <2>1, <2>2
<1>5. \A type : Step(u, type) \in 0 .. 1 /\ \A r : Cardinality(CapturesOf(r, type)) \in Nat
  BY <1>1, SentFacts DEF Step
<1>6. \A v \in Working' : v \in Meters /\ (v # w => v \in Working /\ metering'[v] = metering[v] /\ metering[v].run # i.run)
  BY <1>1, <1>2 DEF Working, MeterInv
<1>7. ASSUME NEW v \in Working', v # w PROVE JobInv(metering[v])'
  <2>1. metering'[v] = metering[v] /\ metering[v].run # i.run /\ JobInv(metering[v]) BY <1>6, <1>7, <1>1 DEF MeterInv
  <2>2. \A type : CapturesOf(metering[v].run, type)' = CapturesOf(metering[v].run, type) BY <1>4, <2>1
  <2>3. \A m \in DOMAIN sent' : sent'[m].run = metering[v].run => sent'[m].process = metering[v].kind
    BY <1>3, <2>1 DEF JobInv
  <2> QED BY <1>2, <2>1, <2>2, <2>3 DEF JobInv
<1>8. ASSUME j # NoMetering PROVE JobInv(j)'
  <2>1. /\ Cardinality(CapturesOf(run, "compute")) <= ComputeDone(i) /\ ComputeDone(i) \in 0 .. 2
        /\ Cardinality(CapturesOf(run, "data")) <= DataDone(i) /\ DataDone(i) \in 0 .. 1
        /\ \A m \in DOMAIN sent : sent[m].run = i.run => sent[m].process = i.kind
    BY <1>1 DEF JobInv, ComputeDone, DataDone
  <2>2. ComputeDone(j) \in 0 .. 2 /\ DataDone(j) \in 0 .. 1 BY DEF ComputeDone, DataDone
  <2>3. Cardinality(CapturesOf(run, "compute")') <= ComputeDone(j)
    <3>1. Cardinality(CapturesOf(run, "compute")') \in Nat
      <4>1. \A r, type : Cardinality(CapturesOf(r, type)') \in Nat BY SentFactsNext
      <4> QED BY <4>1
    <3> QED BY <1>0, <1>4, <1>5, <1>8, <2>1, <2>2, <3>1
  <2>4. Cardinality(CapturesOf(run, "data")') <= DataDone(j)
    <3>1. Cardinality(CapturesOf(run, "data")') \in Nat BY SentFactsNext
    <3> QED BY <1>0, <1>4, <1>5, <1>8, <2>1, <2>2, <3>1
  <2>5. \A m \in DOMAIN sent' : sent'[m].run = j.run => sent'[m].process = j.kind BY <1>0, <1>3, <1>8, <2>1
  <2>6. i.run = j.run /\ j.kind = i.kind BY <1>0, <1>8
  <2>7. j \in Job /\ j.run \in 1 .. meterings' BY <1>0, <1>1, <1>2, <1>8
  <2> QED BY <1>0, <1>8, <2>3, <2>4, <2>5, <2>6, <2>7 DEF JobInv
<1>9. \A v \in Working' : JobInv(metering[v])'
  <2>1. w \in Working' => j # NoMetering /\ metering'[w] = j BY <1>2 DEF Working
  <2> QED BY <1>7, <1>8, <2>1
<1>10. \A v, x \in Working' : v # x => metering'[v].run # metering'[x].run
  <2>1. w \in Working' => metering'[w].run = i.run BY <1>0, <1>2, <1>8 DEF Working
  <2> QED BY <1>6, <2>1, <1>1 DEF MeterInv
<1>11. \A m \in DOMAIN sent' : sent'[m].run <= meterings' BY <1>1, <1>2, <1>3 DEF MeterInv
<1>12. \A m, n \in DOMAIN sent' : sent'[m].run = sent'[n].run /\ sent'[m].run # 0 => sent'[m].process = sent'[n].process
  <2>1. \A m \in DOMAIN sent : sent[m].run = i.run => sent[m].process = i.kind BY <1>1 DEF JobInv
  <2>2. \A m, n \in DOMAIN sent : sent[m].run = sent[n].run /\ sent[m].run # 0 => sent[m].process = sent[n].process
    BY <1>1 DEF MeterInv
  <2> QED BY <1>3, <2>1, <2>2
<1>13. ASSUME NEW n \in DOMAIN sent', NEW r, r = sent'[n].run, r # 0, NEW type \in {"data", "compute"}
       PROVE  Cardinality(CapturesOf(r, type)') <= Limit(sent'[n].process)
  <2>1. CASE r # run BY <1>1, <1>3, <1>4, <1>13, <2>1 DEF MeterInv
  <2>2. CASE r = run
    <3>1. sent'[n].process = i.kind BY <1>1, <1>3, <1>13, <2>2 DEF JobInv
    <3>2. /\ Cardinality(CapturesOf(run, "compute")) <= ComputeDone(i) /\ ComputeDone(i) \in 0 .. 2
          /\ Cardinality(CapturesOf(run, "data")) <= DataDone(i) /\ DataDone(i) \in 0 .. 1
      BY <1>1 DEF JobInv, ComputeDone, DataDone
    <3>3. Limit(i.kind) \in 1 .. 3 BY DEF Limit
    <3>4. Cardinality(CapturesOf(run, type)') \in Nat BY SentFactsNext
    <3>5. Cardinality(CapturesOf(run, type)') <= Limit(i.kind) BY <1>0, <1>4, <1>5, <3>2, <3>3, <3>4
    <3> QED BY <2>2, <3>1, <3>5
  <2> QED BY <2>1, <2>2
<1> QED BY <1>2, <1>9, <1>10, <1>11, <1>12, <1>13 DEF MeterInv
-------------------------------------------------------------------------------
(* The steps of workers and services. *)

\* No worker moves, and what is captured is of no job.
LEMMA MeterStays ==
  ASSUME BillInv, SentInv', metering' = metering, meterings' = meterings,
         \/ sent' = sent
         \/ \E u : sent' = Append(sent, u) /\ Measured(u) /\ u.run = 0
  PROVE  MeterInv'
<1>1. MeterInv /\ SentInv /\ billFaults' \in Nat /\ meterings' \in Nat BY DEF BillInv, SentInv
<1>2. \A r, type : r # 0 => CapturesOf(r, type)' = CapturesOf(r, type)
  <2>1. CASE sent' = sent BY <2>1 DEF CapturesOf
  <2>2. CASE \E u : sent' = Append(sent, u) /\ Measured(u) /\ u.run = 0
    <3>1. PICK u : sent' = Append(sent, u) /\ Measured(u) /\ u.run = 0 BY <2>2
    <3> QED BY <1>1, <3>1, CapturesAppended
  <2> QED BY <2>1, <2>2
<1>3. /\ \A n \in DOMAIN sent : n \in DOMAIN sent' /\ sent'[n] = sent[n]
      /\ \A n \in DOMAIN sent' : n \in DOMAIN sent \/ sent'[n].run = 0
  BY <1>1, SentAppended
<1>4. Working' = Working BY DEF Working
<1>5. ASSUME NEW w \in Working PROVE JobInv(metering[w])'
  <2>1. JobInv(metering[w]) /\ metering[w].run # 0 BY <1>1, SMTT(30) DEF MeterInv, JobInv
  <2>2. \A type : CapturesOf(metering[w].run, type)' = CapturesOf(metering[w].run, type) BY <1>2, <2>1
  <2>3. \A m \in DOMAIN sent' : sent'[m].run = metering[w].run => sent'[m].process = metering[w].kind
    BY <1>3, <2>1 DEF JobInv
  <2> QED BY <2>1, <2>2, <2>3 DEF JobInv
<1>6. ASSUME NEW n \in DOMAIN sent', NEW r, r = sent'[n].run, r # 0, NEW type \in {"data", "compute"}
      PROVE  Cardinality(CapturesOf(r, type)') <= Limit(sent'[n].process)
  BY <1>1, <1>2, <1>3, <1>6 DEF MeterInv
<1>7. \A m \in DOMAIN sent' : sent'[m].run <= meterings' BY <1>1, <1>3 DEF MeterInv, SentInv
<1>8. \A m, n \in DOMAIN sent' : sent'[m].run = sent'[n].run /\ sent'[m].run # 0 => sent'[m].process = sent'[n].process
  BY <1>1, <1>3 DEF MeterInv
<1> QED BY <1>1, <1>4, <1>5, <1>6, <1>7, <1>8 DEF MeterInv

LEMMA ServiceInv ==
  ASSUME BillInv, NEW p \in Payers, NEW bytes \in Nat,
         CaptureData(p, bytes), UNCHANGED <<queueVars, metering, meterings, billFaults>>
  PROVE  BillInv'
<1> DEFINE u == Unit("items", "data", "MB", BytesToMetric(bytes), p, 0, bytes)
<1>1. CaptureUnits(u) BY DEF CaptureData
<1>2. BytesToMetric(bytes) \in Nat /\ Fits(u)
  <2>1. Rounded(BytesToMetric(bytes), bytes) BY RoundsServices
  <2>2. u.measure = bytes /\ u.quantity = IF BytesToMetric(bytes) > 0 THEN BytesToMetric(bytes) ELSE 1 BY DEF Unit
  <2> HIDE DEF u
  <2> QED BY <2>1, <2>2, FitsRounded
<1>3. Measured(u) /\ u.run = 0
  <2>1. u \in Units BY <1>2 DEF Unit, Units
  <2>2. u.plan = Plan[u.payer] /\ u.currency = Currency[u.payer] /\ u.type = "data" /\ u.metric = "MB" /\ u.run = 0
    BY DEF Unit
  <2> HIDE DEF u
  <2> QED BY <1>2, <2>1, <2>2 DEF Measured, Metrics
<1> HIDE DEF u
<1>4. SentInv' /\ QueueInv' /\ ChargeInv' BY <1>1, <1>3, Captured DEF BillInv, SentInv
<1>5. sent' = Append(sent, u) BY <1>1 DEF CaptureUnits
<1>6. MeterInv' BY <1>3, <1>4, <1>5, MeterStays
<1> QED BY <1>4, <1>6 DEF BillInv

LEMMA BeginMeteringInv ==
  ASSUME BillInv, NEW w \in Meters, NEW p \in Payers, NEW kind \in Kinds, BeginMetering(w, kind, p)
  PROVE  BillInv'
<1> PICK j : j = [kind |-> kind, payer |-> p, run |-> meterings + 1, bytes |-> 0, files |-> 0,
                  computing |-> kind # "completion",
                  at |-> IF kind = "completion" THEN "poll" ELSE IF kind = "training" THEN "build" ELSE "work"]
  OBVIOUS
<1>1. /\ metering[w] = NoMetering /\ metering' = [metering EXCEPT ![w] = j] /\ meterings' = meterings + 1
      /\ UNCHANGED <<sent, captures, queueVars, billFaults>>
  BY DEF BeginMetering
<1>2. meterings \in Nat /\ billFaults \in Nat /\ MeterInv /\ SentInv BY DEF BillInv, SentInv
<1>3. SentInv' /\ QueueInv' /\ ChargeInv' BY <1>1, <1>2, NotCaptured DEF BillInv
<1>4. /\ metering' = [v \in Meters |-> IF v = w THEN j ELSE metering[v]]
      /\ metering' = [v \in Meters |-> metering'[v]]
  BY <1>1, <1>2 DEF MeterInv
<1>5. \A r, type : CapturesOf(r, type)' = CapturesOf(r, type) BY <1>1 DEF CapturesOf
<1>6. \A m \in DOMAIN sent : sent[m].run \in Nat /\ sent[m].run <= meterings BY <1>2 DEF MeterInv, SentInv, Measured, Units
<1>7. \A type : CapturesOf(j.run, type) = {} BY <1>2, <1>6 DEF CapturesOf
<1>8. /\ j \in Job /\ j.run = meterings + 1 /\ j.kind = kind /\ j.at \in Places(j.kind) /\ j.at # "dispose"
      /\ j.kind \in {"identification", "past"} => j.computing
      /\ j.at = "poll" => ~j.computing
  <2>1. meterings + 1 \in Nat BY <1>2
  <2>2. j \in Job BY <2>1 DEF Job, Kinds
  <2>3. j.run = meterings + 1 /\ j.kind = kind /\ j.computing = (kind # "completion") OBVIOUS
  <2>4. j.at = IF kind = "completion" THEN "poll" ELSE IF kind = "training" THEN "build" ELSE "work" OBVIOUS
  <2>5. j.at \in Places(j.kind) BY <2>3, <2>4 DEF Places, Kinds
  <2> QED BY <2>2, <2>3, <2>4, <2>5
<1>9. ComputeDone(j) \in Nat /\ DataDone(j) \in Nat BY DEF ComputeDone, DataDone
<1>10. JobInv(j)'
  <2>1. \A type : Cardinality(CapturesOf(j.run, type)') = 0 BY <1>5, <1>7, FS_EmptySet
  <2>2. \A m \in DOMAIN sent' : sent'[m].run # j.run BY <1>1, <1>2, <1>6, <1>8
  <2>3. j.run \in 1 .. meterings' BY <1>1, <1>2, <1>8
  <2> QED BY <1>8, <1>9, <2>1, <2>2, <2>3 DEF JobInv
<1>11. \A v \in Working' : v = w \/ (v \in Working /\ metering'[v] = metering[v]) BY <1>4 DEF Working
<1>12. \A v \in Working : JobInv(metering[v]) /\ metering[v].run # j.run BY <1>2, <1>8 DEF MeterInv, JobInv
<1>13. ASSUME NEW v \in Working' PROVE JobInv(metering[v])'
  <2>1. CASE v = w BY <1>4, <1>10, <2>1
  <2>2. CASE v # w BY <1>1, <1>2, <1>5, <1>11, <1>12, <2>2 DEF JobInv
  <2> QED BY <2>1, <2>2
<1>14. \A v, x \in Working' : v # x => metering'[v].run # metering'[x].run
  <2>1. w \in Working' => metering'[w] = j BY <1>4 DEF Working
  <2> QED BY <1>2, <1>11, <1>12, <2>1 DEF MeterInv
<1>15. \A m \in DOMAIN sent' : sent'[m].run <= meterings' BY <1>1, <1>2, <1>6
<1>16. ASSUME NEW n \in DOMAIN sent', sent'[n].run # 0, NEW type \in {"data", "compute"}
       PROVE  Cardinality(CapturesOf(sent[n].run, type)') <= Limit(sent'[n].process)
  BY <1>1, <1>2, <1>5, <1>16 DEF MeterInv
<1>17. MeterInv' BY <1>1, <1>2, <1>4, <1>13, <1>14, <1>15, <1>16 DEF MeterInv
<1> QED BY <1>3, <1>17 DEF BillInv
-------------------------------------------------------------------------------
(* Steps of a worker. *)

\* What a worker publishes reaches the queue, or fails to and is forgotten.
LEMMA WorkerCaptured ==
  ASSUME BillInv, NEW u, Measured(u), WorkerCapture(u), UNCHANGED <<queueVars, meterings>>
  PROVE  SentInv' /\ QueueInv' /\ ChargeInv' /\ (sent' = sent \/ sent' = Append(sent, u))
<1>1. billFaults \in Nat /\ meterings \in Nat /\ SentInv BY DEF BillInv, SentInv
<1>2. CASE CaptureUnits(u) /\ NoBillFault
  <2>1. SentInv' /\ QueueInv' /\ ChargeInv' BY <1>1, <1>2, Captured DEF BillInv, NoBillFault
  <2> QED BY <1>2, <2>1 DEF CaptureUnits
<1>3. CASE BillFault /\ UNCHANGED <<sent, captures>>
  <2>1. billFaults' \in Nat /\ billFaults' >= billFaults BY <1>1, <1>3 DEF BillFault
  <2> QED BY <1>1, <1>3, <2>1, NotCaptured DEF BillInv
<1> QED BY <1>2, <1>3 DEF WorkerCapture

LEMMA WorkerQuiet ==
  ASSUME BillInv, UNCHANGED <<sent, captures, queueVars, meterings, billFaults>>
  PROVE  SentInv' /\ QueueInv' /\ ChargeInv'
<1>1. billFaults \in Nat /\ meterings \in Nat BY DEF BillInv, SentInv
<1> QED BY <1>1, NotCaptured DEF BillInv

LEMMA TrackComputeInv ==
  ASSUME BillInv, NEW w \in Meters, TrackComputeUnits(w) PROVE BillInv'
<1> PICK i, j : i = metering[w] /\ j = [i EXCEPT !.computing = TRUE, !.at = "work"] OBVIOUS
<1>1. /\ i.kind # "none" /\ i.at = "poll" /\ metering' = [metering EXCEPT ![w] = j]
      /\ UNCHANGED <<sent, captures, queueVars, meterings, billFaults>>
  BY DEF TrackComputeUnits, Metered
<1>2. i \in Job /\ JobInv(i) BY <1>1, WorkerFacts
<1>3. i.kind = "completion" BY <1>1, <1>2 DEF JobInv, Places
<1>4. /\ j \in Job /\ j.kind = "completion" /\ j.run = i.run /\ j.at = "work" /\ j.computing = TRUE
  BY <1>2, <1>3 DEF Job
<1>5. SentInv' /\ QueueInv' /\ ChargeInv' BY <1>1, WorkerQuiet
<1>6. MovesOn(w, j, 0) BY <1>1 DEF MovesOn
<1>7. Step(0, "compute") = 0 /\ Step(0, "data") = 0 BY <1>1 DEF Step
<1>8. ComputeDone(i) = 0 /\ DataDone(i) = 1 /\ ComputeDone(j) = 0 /\ DataDone(j) = 1 /\ Limit(i.kind) = 1
      /\ "work" \in Places(j.kind)
  BY <1>1, <1>3, <1>4 DEF ComputeDone, DataDone, Limit, Places
<1>9. CanMove(i, j, 0) BY <1>3, <1>4, <1>7, <1>8 DEF CanMove
<1>10. MeterInv' BY <1>1, <1>5, <1>6, <1>9, JobMoves
<1> QED BY <1>5, <1>10 DEF BillInv

LEMMA TrackDataInv ==
  ASSUME BillInv, NEW w \in Meters, NEW bytes \in Sizes, TrackDataUnits(w, bytes) PROVE BillInv'
<1> PICK i, j : i = metering[w] /\ j = [i EXCEPT !.bytes = @ + bytes, !.files = @ + 1] OBVIOUS
<1>1. /\ i.kind # "none" /\ i.at = "build" /\ i.files < 2 /\ metering' = [metering EXCEPT ![w] = j]
      /\ UNCHANGED <<sent, captures, queueVars, meterings, billFaults>>
  BY DEF TrackDataUnits, Metered
<1>2. i \in Job /\ JobInv(i) BY <1>1, WorkerFacts
<1>3. i.kind = "training" BY <1>1, <1>2 DEF JobInv, Places
<1>4. j \in Job /\ j.kind = "training" /\ j.run = i.run /\ j.at = "build" /\ j.computing = i.computing
  <2>1. i.bytes + bytes \in Nat /\ i.files + 1 \in 0 .. 2 BY <1>1, <1>2, BillingAssumption DEF Job
  <2> QED BY <1>1, <1>2, <1>3, <2>1 DEF Job
<1>5. SentInv' /\ QueueInv' /\ ChargeInv' BY <1>1, WorkerQuiet
<1>6. MovesOn(w, j, 0) BY <1>1 DEF MovesOn
<1>7. Step(0, "compute") = 0 /\ Step(0, "data") = 0 BY <1>1 DEF Step
<1>8. /\ ComputeDone(i) \in 0 .. 1 /\ ComputeDone(j) = ComputeDone(i) /\ DataDone(i) = 0 /\ DataDone(j) = 0
      /\ Limit(i.kind) = 1 /\ "build" \in Places(j.kind)
  BY <1>1, <1>3, <1>4 DEF ComputeDone, DataDone, Limit, Places
<1>9. CanMove(i, j, 0) BY <1>3, <1>4, <1>7, <1>8 DEF CanMove
<1>10. MeterInv' BY <1>1, <1>5, <1>6, <1>9, JobMoves
<1> QED BY <1>5, <1>10 DEF BillInv

LEMMA CompleteDataInv ==
  ASSUME BillInv, NEW w \in Meters, CompleteDataUnitsOf(w) PROVE BillInv'
<1> PICK i, j, q, u : /\ i = metering[w] /\ j = [i EXCEPT !.at = "work"] /\ q = WorkerBytesToMetric(i.bytes)
                      /\ u = Unit(i.kind, "data", "MB", q, i.payer, i.run, i.bytes)
  OBVIOUS
<1>1. /\ i.kind # "none" /\ i.at = "build" /\ metering' = [metering EXCEPT ![w] = j]
      /\ WorkerCapture(u) /\ UNCHANGED <<queueVars, meterings>>
  BY DEF CompleteDataUnitsOf, Metered
<1>2. i \in Job /\ JobInv(i) BY <1>1, WorkerFacts
<1>3. i.kind = "training" BY <1>1, <1>2 DEF JobInv, Places
<1>4. j \in Job /\ j.kind = "training" /\ j.run = i.run /\ j.at = "work" /\ j.computing = i.computing
  BY <1>1, <1>2, <1>3 DEF Job
<1>5. Measured(u) /\ u.run = i.run /\ u.process = i.kind /\ u.type = "data"
  <2>1. u.measure = i.bytes /\ u.quantity = IF q > 0 THEN q ELSE 1 BY DEF Unit
  <2>2. i.bytes \in Nat /\ i.payer \in Payers /\ i.run \in Nat BY <1>2 DEF Job
  <2>3. Rounded(q, i.bytes) BY <2>2, RoundsWorkers
  <2>4. q \in Nat /\ Fits(u) BY <2>1, <2>2, <2>3, FitsRounded
  <2>5. u \in Units BY <1>3, <2>2, <2>4 DEF Unit, Units, Kinds
  <2>6. /\ u.plan = Plan[u.payer] /\ u.currency = Currency[u.payer] /\ u.type = "data" /\ u.metric = "MB"
        /\ u.run = i.run /\ u.process = i.kind
    BY DEF Unit
  <2> QED BY <2>4, <2>5, <2>6 DEF Measured, Metrics
<1>6. SentInv' /\ QueueInv' /\ ChargeInv' /\ (sent' = sent \/ sent' = Append(sent, u)) BY <1>1, <1>5, WorkerCaptured
<1>7. MovesOn(w, j, u) BY <1>1, <1>5, <1>6 DEF MovesOn
<1>8. Step(u, "compute") = 0 /\ Step(u, "data") \in 0 .. 1 BY <1>5 DEF Step
<1>9. /\ ComputeDone(i) \in 0 .. 1 /\ ComputeDone(j) = ComputeDone(i) /\ DataDone(i) = 0 /\ DataDone(j) = 1
      /\ Limit(i.kind) = 1 /\ "work" \in Places(j.kind)
  BY <1>1, <1>3, <1>4 DEF ComputeDone, DataDone, Limit, Places
<1>10. CanMove(i, j, u) BY <1>3, <1>4, <1>8, <1>9 DEF CanMove
<1>11. MeterInv' BY <1>1, <1>6, <1>7, <1>10, JobMoves
<1> QED BY <1>6, <1>11 DEF BillInv

\* Where the hours of a job may be captured, and where the job goes then.
LEMMA CompleteComputeInv ==
  ASSUME BillInv, NEW w \in Meters, metering[w].kind # "none", NEW next, CompleteComputeUnits(w, next),
         \/ next = "none" /\ metering[w].at # "build"
         \/ metering[w].kind = "training" /\ next = "dispose"
         \/ /\ metering[w].kind = "identification"
            /\ (metering[w].at = "work" /\ next \in {"guard", "dispose"}) \/ (metering[w].at = "guard" /\ next = "dispose")
  PROVE  BillInv'
<1> PICK i, j : /\ i = metering[w]
                /\ j = IF next = "none" THEN NoMetering ELSE [i EXCEPT !.computing = ~Flagged(w), !.at = next]
  OBVIOUS
<1>1. /\ metering' = [metering EXCEPT ![w] = j] /\ UNCHANGED <<queueVars, meterings>>
      /\ \/ /\ i.computing
            /\ \E hours \in 1 .. 2 :
                 WorkerCapture(Unit(i.kind, "compute", "hours", hours, i.payer, i.run, hours))
         \/ ~i.computing /\ UNCHANGED <<sent, captures, billFaults>>
  BY DEF CompleteComputeUnits, FlagCleared
<1>2. i \in Job /\ JobInv(i) BY WorkerFacts
<1>3. PICK u : /\ SentInv' /\ QueueInv' /\ ChargeInv' /\ MovesOn(w, j, u)
               /\ Step(u, "data") = 0 /\ Step(u, "compute") \in 0 .. 1 /\ (~i.computing => Step(u, "compute") = 0)
  <2>1. CASE i.computing
    <3>1. PICK hours, u : /\ hours \in 1 .. 2 /\ WorkerCapture(u)
                          /\ u = Unit(i.kind, "compute", "hours", hours, i.payer, i.run, hours)
      BY <1>1, <2>1
    <3>2. i.payer \in Payers /\ i.run \in Nat /\ i.kind \in Kinds BY <1>2 DEF Job
    <3>3. /\ u.quantity = hours /\ u.measure = hours /\ u.type = "compute" /\ u.metric = "hours" /\ u.plan = Plan[u.payer]
          /\ u.currency = Currency[u.payer] /\ u.run = i.run /\ u.process = i.kind
      BY <3>1 DEF Unit
    <3>4. u \in Units BY <3>1, <3>2 DEF Unit, Units
    <3>5. Measured(u) BY <3>3, <3>4 DEF Measured, Metrics
    <3>6. SentInv' /\ QueueInv' /\ ChargeInv' /\ (sent' = sent \/ sent' = Append(sent, u))
      BY <1>1, <3>1, <3>5, WorkerCaptured
    <3>7. MovesOn(w, j, u) BY <1>1, <3>3, <3>5, <3>6 DEF MovesOn
    <3>8. Step(u, "data") = 0 /\ Step(u, "compute") \in 0 .. 1 BY <3>3 DEF Step
    <3> QED BY <2>1, <3>6, <3>7, <3>8
  <2>2. CASE ~i.computing
    <3>1. SentInv' /\ QueueInv' /\ ChargeInv' BY <1>1, <2>2, WorkerQuiet
    <3>2. MovesOn(w, j, 0) /\ Step(0, "data") = 0 /\ Step(0, "compute") = 0 BY <1>1, <2>2 DEF MovesOn, Step
    <3> QED BY <3>1, <3>2
  <2> QED BY <2>1, <2>2
<1>4. /\ ComputeDone(i) \in 0 .. 2 /\ DataDone(i) \in 0 .. 1
      /\ ComputeDone(i) + (IF i.computing THEN 1 ELSE 0) <= Limit(i.kind)
      /\ DataDone(i) <= Limit(i.kind)
  BY <1>2 DEF ComputeDone, DataDone, Limit, JobInv, Places, Job, Kinds
<1>5. ASSUME j # NoMetering
      PROVE  /\ j \in Job /\ j.run = i.run /\ j.kind = i.kind /\ j.at \in Places(j.kind)
             /\ j.kind \in {"identification", "past"} => j.computing
             /\ j.at = "poll" => ~j.computing
             /\ j.at = "dispose" /\ j.kind = "training" => ~j.computing
             /\ ComputeDone(i) + (IF i.computing THEN 1 ELSE 0) <= ComputeDone(j)
             /\ DataDone(i) <= DataDone(j)
  <2>1. /\ next # "none" /\ j = [i EXCEPT !.computing = ~Flagged(w), !.at = next]
        /\ next \in {"guard", "dispose"}
        /\ \/ i.kind = "training" /\ next = "dispose"
           \/ i.kind = "identification" /\ (i.at = "work" \/ (i.at = "guard" /\ next = "dispose"))
    BY <1>5
  <2>2. Flagged(w) <=> i.kind \in {"training", "completion"} BY DEF Flagged
  <2>3. j \in Job /\ j.run = i.run /\ j.kind = i.kind /\ j.at = next /\ j.computing = ~Flagged(w)
    BY <1>2, <2>1 DEF Job, Flagged
  <2>4. j.at \in Places(j.kind) BY <2>1, <2>3 DEF Places
  <2>5. IF i.kind = "training" THEN ~j.computing ELSE j.computing BY <2>1, <2>2, <2>3
  <2>6. CASE i.kind = "training"
    <3>1. ComputeDone(j) = 1 BY <2>1, <2>3, <2>5, <2>6 DEF ComputeDone
    <3>2. ComputeDone(i) = IF i.computing THEN 0 ELSE 1 BY <1>2, <2>6 DEF ComputeDone, JobInv, Places
    <3>3. ComputeDone(i) + (IF i.computing THEN 1 ELSE 0) <= ComputeDone(j) BY <3>1, <3>2
    <3> QED BY <1>4, <2>1, <2>3, <2>4, <2>5, <2>6, <3>3 DEF DataDone
  <2>7. CASE i.kind = "identification"
    <3>1. ComputeDone(i) = (IF i.at = "work" THEN 0 ELSE 1) BY <2>1, <2>7 DEF ComputeDone
    <3>2. ComputeDone(j) = (IF next = "guard" THEN 1 ELSE 2) BY <2>1, <2>3, <2>7 DEF ComputeDone
    <3>3. ComputeDone(i) + (IF i.computing THEN 1 ELSE 0) <= ComputeDone(j) BY <2>1, <2>7, <3>1, <3>2
    <3> QED BY <1>4, <2>1, <2>3, <2>4, <2>5, <2>7, <3>3 DEF DataDone
  <2> QED BY <2>1, <2>6, <2>7
<1>6. MeterInv'
  <2>1. Step(u, "compute") <= (IF i.computing THEN 1 ELSE 0) BY <1>3
  <2>2. ComputeDone(i) + Step(u, "compute") <= Limit(i.kind) /\ DataDone(i) + Step(u, "data") <= Limit(i.kind)
    BY <1>3, <1>4, <2>1 DEF Limit
  <2>3. ASSUME j # NoMetering
        PROVE  ComputeDone(i) + Step(u, "compute") <= ComputeDone(j) /\ DataDone(i) + Step(u, "data") <= DataDone(j)
    <3>1. ComputeDone(j) \in 0 .. 2 BY DEF ComputeDone
    <3> QED BY <1>3, <1>4, <1>5, <2>1, <2>3, <3>1
  <2>4. CanMove(i, j, u) BY <1>5, <2>2, <2>3 DEF CanMove
  <2> QED BY <1>3, <2>4, JobMoves
<1> QED BY <1>3, <1>6 DEF BillInv

LEMMA EndMeteringInv ==
  ASSUME BillInv, NEW w \in Meters, EndMetering(w) PROVE BillInv'
<1>1. CASE Metered(w, "work") /\ CompleteComputeUnits(w, "none")
  BY <1>1, CompleteComputeInv DEF Metered
<1>2. CASE Metered(w, "poll") /\ metering' = [metering EXCEPT ![w] = NoMetering]
           /\ UNCHANGED <<sent, captures, queueVars, meterings, billFaults>>
  <2>1. SentInv' /\ QueueInv' /\ ChargeInv' BY <1>2, WorkerQuiet
  <2>2. metering[w] \in Job /\ JobInv(metering[w]) /\ metering[w].kind # "none" /\ metering[w].at = "poll"
    BY <1>2, WorkerFacts DEF Metered
  <2>3. MovesOn(w, NoMetering, 0) /\ Step(0, "compute") = 0 /\ Step(0, "data") = 0 BY <1>2 DEF MovesOn, Step
  <2>4. /\ ComputeDone(metering[w]) = 0 /\ DataDone(metering[w]) = 1 /\ Limit(metering[w].kind) \in 1 .. 3
    BY <2>2 DEF ComputeDone, DataDone, Limit, JobInv, Places
  <2>5. CanMove(metering[w], NoMetering, 0) BY <2>3, <2>4 DEF CanMove
  <2>6. MeterInv' BY <2>1, <2>2, <2>3, <2>5, JobMoves
  <2> QED BY <2>1, <2>6 DEF BillInv
<1> QED BY <1>1, <1>2 DEF EndMetering

LEMMA FailMeteringInv ==
  ASSUME BillInv, NEW w \in Meters, FailMetering(w) \/ DisposeMetering(w) PROVE BillInv'
<1>1. metering[w].kind # "none" BY DEF FailMetering, DisposeMetering, Metered
<1>2. JobInv(metering[w]) BY <1>1, WorkerFacts
<1>3. PICK next :
        /\ CompleteComputeUnits(w, next)
        /\ \/ next = "none" /\ metering[w].at # "build"
           \/ metering[w].kind = "training" /\ next = "dispose"
           \/ /\ metering[w].kind = "identification"
              /\ (metering[w].at = "work" /\ next \in {"guard", "dispose"}) \/ (metering[w].at = "guard" /\ next = "dispose")
  BY <1>2 DEF FailMetering, DisposeMetering, Metered, JobInv, Places
<1> QED BY <1>1, <1>3, CompleteComputeInv
-------------------------------------------------------------------------------
(* Steps of the billing service. *)

LEMMA TakenFacts ==
  ASSUME BillInv, taken # 0
  PROVE  /\ captures # <<>> /\ captures \in Seq(Nat) /\ taken = Head(captures) /\ taken \in DOMAIN sent /\ taken \in Nat \ {0}
         /\ Waiting(taken) /\ Measured(sent[taken])
         /\ Tail(captures) \in Seq(Nat)
         /\ \A j \in DOMAIN Tail(captures) : j + 1 \in DOMAIN captures /\ Tail(captures)[j] = captures[j + 1]
         /\ ToSet(Tail(captures)) = ToSet(captures) \ {taken}
<1>1. /\ captures # <<>> /\ captures \in Seq(Nat) /\ taken = Head(captures)
      /\ \A j, k \in DOMAIN captures : j < k => captures[j] < captures[k]
  BY DEF BillInv, QueueInv
<1>2. /\ DOMAIN captures = 1 .. Len(captures) /\ Len(captures) \in Nat \ {0} /\ taken = captures[1]
      /\ Tail(captures) \in Seq(Nat) /\ DOMAIN Tail(captures) = 1 .. Len(captures) - 1
      /\ \A j \in 1 .. Len(captures) - 1 : Tail(captures)[j] = captures[j + 1]
  <2>1. Len(captures) # 0 BY <1>1
  <2> QED BY <1>1, <2>1
<1>3. taken \in DOMAIN sent /\ Waiting(taken) BY <1>2 DEF BillInv, QueueInv, Waiting, ToSet
<1>4. taken \in Nat \ {0} /\ Measured(sent[taken]) BY <1>3, SentFacts DEF BillInv, SentInv
<1>5. \A j \in 1 .. Len(captures) - 1 : j + 1 \in DOMAIN captures /\ captures[j + 1] # taken
  <2> TAKE j \in 1 .. Len(captures) - 1
  <2>1. 1 \in DOMAIN captures /\ j + 1 \in DOMAIN captures /\ 1 < j + 1 BY <1>2
  <2>2. captures[1] < captures[j + 1] /\ captures[1] \in Nat /\ captures[j + 1] \in Nat BY <1>1, <1>2, <2>1
  <2> QED BY <1>2, <2>1, <2>2
<1>6. ToSet(Tail(captures)) \subseteq ToSet(captures) \ {taken} BY <1>2, <1>5 DEF ToSet
<1>7. ASSUME NEW n \in ToSet(captures), n # taken PROVE n \in ToSet(Tail(captures))
  <2>1. PICK k \in DOMAIN captures : n = captures[k] BY <1>7 DEF ToSet
  <2>2. k # 1 /\ k - 1 \in 1 .. Len(captures) - 1 /\ k = (k - 1) + 1 BY <1>2, <1>7, <2>1
  <2>3. Tail(captures)[k - 1] = n BY <1>2, <2>1, <2>2
  <2> QED BY <1>2, <2>2, <2>3 DEF ToSet
<1> QED BY <1>1, <1>2, <1>3, <1>4, <1>5, <1>6, <1>7

\* The queue after the answer to the capture at its head.
LEMMA AnsweredQueue ==
  ASSUME BillInv, taken # 0, UNCHANGED <<sent, erased>>, Ack \/ Requeue,
         \/ refused' = refused
         \/ refused' = refused \cup {taken} /\ sent[taken].plan = NoPlan
  PROVE  /\ QueueInv'
         /\ Ack => \A n : Waiting(n)' <=> Waiting(n) /\ n # taken
         /\ ~Ack => \A n : Waiting(n)' <=> Waiting(n)
<1>0. QueueInv /\ taken' = 0 /\ (captures' = captures \/ captures' = Tail(captures)) BY DEF BillInv, Ack, Requeue
<1>1. /\ refused' \subseteq DOMAIN sent /\ \A n \in refused' : sent[n].plan = NoPlan
  BY <1>0, TakenFacts DEF QueueInv
<1>2. /\ captures' \in Seq(Nat) /\ \A j \in DOMAIN captures' : captures'[j] \in DOMAIN sent
      /\ \A j, k \in DOMAIN captures' : j < k => captures'[j] < captures'[k]
  <2>1. CASE captures' = captures BY <1>0, <2>1 DEF QueueInv
  <2>2. CASE captures' = Tail(captures)
    <3>1. /\ captures' \in Seq(Nat) /\ DOMAIN captures' \subseteq Nat
          /\ \A j \in DOMAIN captures' : j + 1 \in DOMAIN captures /\ captures'[j] = captures[j + 1]
      BY <2>2, TakenFacts
    <3>2. captures' \in Seq(Nat) /\ \A j \in DOMAIN captures' : captures'[j] \in DOMAIN sent
      BY <1>0, <3>1 DEF QueueInv
    <3>3. ASSUME NEW j \in DOMAIN captures', NEW k \in DOMAIN captures', j < k PROVE captures'[j] < captures'[k]
      <4>1. j + 1 \in DOMAIN captures /\ k + 1 \in DOMAIN captures /\ j + 1 < k + 1 BY <3>1, <3>3
      <4>2. captures[j + 1] < captures[k + 1] BY <1>0, <4>1 DEF QueueInv
      <4> QED BY <3>1, <3>3, <4>2
    <3> QED BY <3>2, <3>3
  <2> QED BY <1>0, <2>1, <2>2
<1>3. QueueInv' BY <1>0, <1>1, <1>2 DEF QueueInv
<1>4. Ack => \A n : Waiting(n)' <=> Waiting(n) /\ n # taken
  <2>1. ToSet(Tail(captures)) = ToSet(captures) \ {taken} BY TakenFacts
  <2> QED BY <2>1 DEF Ack, Waiting
<1>5. ~Ack => \A n : Waiting(n)' <=> Waiting(n) BY DEF Requeue, Waiting
<1> QED BY <1>3, <1>4, <1>5

LEMMA CopiesFinite ==
  ASSUME ChargeInv, NEW n
  PROVE  IsFiniteSet(Copies(n)) /\ Cardinality(Copies(n)) \in Nat
<1>1. Copies(n) \subseteq DOMAIN charges /\ DOMAIN charges = 1 .. Len(charges) /\ Len(charges) \in Nat
  BY DEF Copies, ChargeInv
<1>2. IsFiniteSet(DOMAIN charges) BY <1>1, FS_Interval
<1> QED BY <1>1, <1>2, FS_Subset, FS_CardinalityType

\* What is refused is of an account without a plan.
LEMMA RefusedPlan ==
  ASSUME NEW u, Measured(u), ~ValidUnit(u) \/ Toxic(u) PROVE u.plan = NoPlan
<1>1. SUFFICES ASSUME u.plan # NoPlan PROVE FALSE OBVIOUS
<1>2. Toxic(u) BY <1>1 DEF ValidUnit
<1>3. /\ <<u.type, u.metric>> \in Metrics /\ u.payer \in Payers /\ u.plan = Plan[u.payer] /\ Plan[u.payer] # NoPlan
  BY <1>1 DEF Measured, Units
<1>4. /\ <<u.type, u.metric>> \in DOMAIN Costs
      /\ \A currency \in DOMAIN Costs[<<u.type, u.metric>>] : u.plan \in DOMAIN Costs[<<u.type, u.metric>>][currency]
  BY <1>3, BillingAssumption
<1>5. Known(u) BY <1>4 DEF Known
<1>6. Priced(u) /\ u.plan \notin DOMAIN MetricCosts(u)[BilledCurrency(u)] BY <1>2, <1>5 DEF Toxic
<1> QED BY <1>4, <1>6 DEF Priced, MetricCosts

LEMMA TakeCaptureInv ==
  ASSUME BillInv, TakeCapture PROVE BillInv'
<1>1. /\ taken' = Head(captures) /\ captures # <<>>
      /\ UNCHANGED <<sent, captures, refused, charges, erased, metering, meterings, billFaults>>
  BY DEF TakeCapture
<1>2. SentInv' BY <1>1 DEF BillInv, SentInv, Measured, Fits
<1>3. QueueInv' BY <1>1 DEF BillInv, QueueInv
<1>4. ChargeInv'
  <2>1. ChargeInv /\ SentInv BY DEF BillInv
  <2>2. \A n \in DOMAIN sent : Charge(n)' = Charge(n) /\ (Chargeable(n) => Chargeable(n)') BY <1>1, <2>1, ChargeKept
  <2>3. \A n : Copies(n)' = Copies(n) /\ (Waiting(n)' <=> Waiting(n)) BY <1>1 DEF Copies, Stored, Removed, Waiting
  <2>4. ({Charge(n) : n \in DOMAIN sent})' = {Charge(n) : n \in DOMAIN sent} BY <1>1, <2>2
  <2>5. charges' \in Seq({Removed} \cup {Charge(n) : n \in DOMAIN sent})' BY <1>1, <2>1, <2>4 DEF ChargeInv, Removed
  <2>6. \A k \in DOMAIN charges' : Stored(k)' => Chargeable(charges[k].of)' /\ charges[k] = Charge(charges[k].of)'
    BY <1>1, <2>1, <2>2 DEF ChargeInv, Stored, Removed, Chargeable
  <2> QED BY <1>1, <2>1, <2>3, <2>5, <2>6 DEF ChargeInv
<1>5. MeterInv' BY <1>1, <1>2, MeterStays
<1> QED BY <1>2, <1>3, <1>4, <1>5 DEF BillInv

LEMMA HandleCaptureInv ==
  ASSUME BillInv, HandleCapture PROVE BillInv'
<1> PICK n : n = taken OBVIOUS
<1>1. /\ taken # 0 /\ UNCHANGED <<sent, erased, metering, meterings>>
      /\ \/ /\ ~ValidUnit(sent[n]) \/ Toxic(sent[n])
            /\ Ack /\ refused' = refused \cup {n} /\ billFaults' = billFaults /\ UNCHANGED charges
         \/ /\ ValidUnit(sent[n]) /\ ~Toxic(sent[n]) /\ Priced(sent[n])
            /\ charges' = Append(charges, Charge(n)) /\ refused' = refused
            /\ (Ack /\ billFaults' = billFaults) \/ (Requeue /\ billFaults' = billFaults + 1)
         \/ /\ Requeue /\ refused' = refused /\ charges' = charges
            /\ billFaults' = billFaults \/ billFaults' = billFaults + 1
  BY DEF HandleCapture, NoBillFault, BillFault, Refused
<1>2. SentInv /\ QueueInv /\ ChargeInv /\ MeterInv /\ billFaults \in Nat /\ meterings \in Nat BY DEF BillInv, SentInv
<1>3. n \in DOMAIN sent /\ n \in Nat \ {0} /\ Waiting(n) /\ Measured(sent[n]) BY <1>1, TakenFacts
<1>4. SentInv' BY <1>1, <1>2 DEF SentInv, Measured, Fits
<1>5. MeterInv' BY <1>1, <1>4, MeterStays
<1>6. ~ValidUnit(sent[n]) \/ Toxic(sent[n]) => sent[n].plan = NoPlan BY <1>3, RefusedPlan
<1>7. QueueInv' BY <1>1, <1>6, AnsweredQueue
<1>8. /\ Ack => \A m : Waiting(m)' <=> Waiting(m) /\ m # n
      /\ Requeue => \A m : Waiting(m)' <=> Waiting(m)
  <2>1. Requeue => ~Ack \/ Tail(captures) = captures BY <1>1 DEF Ack, Requeue
  <2> QED BY <1>1, <1>6, AnsweredQueue DEF Requeue, Waiting
<1>9. \A m \in DOMAIN sent : Charge(m)' = Charge(m) /\ (Chargeable(m) => Chargeable(m)') BY <1>1, <1>2, ChargeKept
<1>10. \A m : IsFiniteSet(Copies(m)) /\ Cardinality(Copies(m)) \in Nat BY <1>2, CopiesFinite
<1>11. ({Charge(m) : m \in DOMAIN sent})' = {Charge(m) : m \in DOMAIN sent} BY <1>1, <1>9
<1>12. \A m \in DOMAIN sent :
         /\ Cardinality(Copies(m)) <= billFaults + (IF Waiting(m) THEN 0 ELSE 1)
         /\ Waiting(m) \/ m \in refused \cup erased \/ Copies(m) # {}
  BY <1>2 DEF ChargeInv
<1>13. CASE charges' = charges
  <2>1. \A m : Copies(m)' = Copies(m) BY <1>13 DEF Copies, Stored, Removed
  <2>2. charges' \in Seq({Removed} \cup {Charge(m) : m \in DOMAIN sent})' BY <1>2, <1>11, <1>13 DEF ChargeInv, Removed
  <2>3. \A k \in DOMAIN charges' : Stored(k)' => Chargeable(charges[k].of)' /\ charges[k] = Charge(charges[k].of)'
    BY <1>1, <1>2, <1>9, <1>13 DEF ChargeInv, Stored, Removed, Chargeable
  <2>4. \/ Ack /\ refused' = refused \cup {n} /\ billFaults' = billFaults
        \/ Requeue /\ refused' = refused /\ billFaults' \in Nat /\ billFaults' >= billFaults
    <3>1. charges' # Append(charges, Charge(n))
      <4>1. charges \in Seq({Removed} \cup {Charge(m) : m \in DOMAIN sent}) /\ Charge(n) \in {Charge(m) : m \in DOMAIN sent}
        BY <1>2, <1>3 DEF ChargeInv
      <4> HIDE DEF Charge
      <4>2. Len(Append(charges, Charge(n))) = Len(charges) + 1 /\ Len(charges) \in Nat BY <4>1
      <4> QED BY <1>13, <4>2
    <3> QED BY <1>1, <1>2, <3>1
  <2>5. \A m \in DOMAIN sent :
          /\ Cardinality(Copies(m)') <= billFaults' + (IF Waiting(m)' THEN 0 ELSE 1)
          /\ Waiting(m)' \/ m \in refused' \cup erased' \/ Copies(m)' # {}
    BY <1>1, <1>2, <1>8, <1>10, <1>12, <2>1, <2>4
  <2>6. ChargeInv' BY <1>1, <1>13, <2>2, <2>3, <2>5 DEF ChargeInv
  <2> QED BY <1>4, <1>5, <1>7, <2>6 DEF BillInv
<1>14. CASE /\ ValidUnit(sent[n]) /\ ~Toxic(sent[n]) /\ Priced(sent[n])
            /\ charges' = Append(charges, Charge(n)) /\ refused' = refused
            /\ (Ack /\ billFaults' = billFaults) \/ (Requeue /\ billFaults' = billFaults + 1)
  <2> PICK S, c, last : /\ S = {Removed} \cup {Charge(m) : m \in DOMAIN sent} /\ c = Charge(n) /\ last = Len(charges) + 1
    OBVIOUS
  <2>1. charges \in Seq(S) /\ c \in S BY <1>2, <1>3 DEF ChargeInv
  <2>2. /\ charges' \in Seq(S) /\ Len(charges) \in Nat /\ DOMAIN charges = 1 .. Len(charges)
        /\ DOMAIN charges' = DOMAIN charges \cup {last} /\ last \notin DOMAIN charges
        /\ charges'[last] = c /\ \A k \in DOMAIN charges : charges'[k] = charges[k]
    BY <1>14, <2>1
  <2>3. c.of = n /\ c # Removed BY <1>3 DEF Charge, Removed
  <2>4. charges' \in Seq({Removed} \cup {Charge(m) : m \in DOMAIN sent})' BY <1>11, <2>2 DEF Removed
  <2>5. Chargeable(n) /\ c = Charge(n)' BY <1>3, <1>9, <1>14 DEF Chargeable
  <2>6. \A k \in DOMAIN charges : charges[k] # Removed => Chargeable(charges[k].of) /\ charges[k] = Charge(charges[k].of)
    BY <1>2 DEF ChargeInv, Stored
  <2>7. ASSUME NEW k \in DOMAIN charges', NEW d, d = charges'[k], d # Removed
        PROVE  Chargeable(d.of)' /\ d = Charge(d.of)'
    <3>1. CASE k = last BY <1>3, <1>9, <2>2, <2>3, <2>5, <2>7, <3>1
    <3>2. CASE k \in DOMAIN charges
      <4>1. Chargeable(d.of) /\ d = Charge(d.of) BY <2>2, <2>6, <2>7, <3>2
      <4>2. d.of \in DOMAIN sent BY <4>1 DEF Chargeable
      <4> QED BY <1>9, <4>1, <4>2
    <3> QED BY <2>2, <3>1, <3>2
  <2>8. Copies(n)' = Copies(n) \cup {last} /\ last \notin Copies(n) BY <2>2, <2>3 DEF Copies, Stored, Removed
  <2>9. \A m : m # n => Copies(m)' = Copies(m) BY <2>2, <2>3 DEF Copies, Stored, Removed
  <2>10. Cardinality(Copies(n)') = Cardinality(Copies(n)) + 1 BY <1>10, <2>8, FS_AddElement
  <2>11. \A m \in DOMAIN sent :
           /\ Cardinality(Copies(m)') <= billFaults' + (IF Waiting(m)' THEN 0 ELSE 1)
           /\ Waiting(m)' \/ m \in refused' \cup erased' \/ Copies(m)' # {}
    <3>1. ASSUME NEW m \in DOMAIN sent, m # n
          PROVE  /\ Cardinality(Copies(m)') <= billFaults' + (IF Waiting(m)' THEN 0 ELSE 1)
                 /\ Waiting(m)' \/ m \in refused' \cup erased' \/ Copies(m)' # {}
      BY <1>1, <1>2, <1>8, <1>10, <1>12, <1>14, <2>9, <3>1
    <3>2. Cardinality(Copies(n)') <= billFaults' + (IF Waiting(n)' THEN 0 ELSE 1)
      <4>1. Cardinality(Copies(n)) <= billFaults BY <1>2, <1>3, <1>10, <1>12
      <4> QED BY <1>2, <1>8, <1>10, <1>14, <2>10, <4>1
    <3>3. Copies(n)' # {} BY <2>8
    <3> QED BY <3>1, <3>2, <3>3
  <2>12. ChargeInv'
    <3>1. \A k \in DOMAIN charges' : Stored(k)' => (Chargeable(charges[k].of) /\ charges[k] = Charge(charges[k].of))'
      BY <2>7 DEF Stored, Removed
    <3> QED BY <1>1, <2>4, <2>11, <3>1 DEF ChargeInv
  <2> QED BY <1>4, <1>5, <1>7, <2>12 DEF BillInv
<1> QED BY <1>1, <1>13, <1>14

LEMMA DeleteAccountBillingInv ==
  ASSUME BillInv, NEW p \in Payers, DeleteAccountBilling(p) PROVE BillInv'
<1>1. /\ UNCHANGED <<sent, captures, taken, refused, metering, meterings, billFaults>>
      /\ charges' = [k \in DOMAIN charges |->
                       IF charges[k] # Removed /\ charges[k].payer = p THEN Removed ELSE charges[k]]
      /\ erased' = erased \cup {n \in DOMAIN sent : sent[n].payer = p /\ ~Waiting(n)}
  BY DEF DeleteAccountBilling, Waiting
<1>2. SentInv /\ QueueInv /\ ChargeInv /\ MeterInv BY DEF BillInv
<1>3. SentInv' BY <1>1, <1>2 DEF SentInv, Measured, Fits
<1>4. QueueInv' BY <1>1, <1>2 DEF QueueInv
<1>5. MeterInv' BY <1>1, <1>2, <1>3, MeterStays
<1>6. \A n \in DOMAIN sent : Charge(n)' = Charge(n) /\ (Chargeable(n) => Chargeable(n)') BY <1>1, <1>2, ChargeKept
<1>7. ({Charge(n) : n \in DOMAIN sent})' = {Charge(n) : n \in DOMAIN sent} BY <1>1, <1>6
<1>8. \A n : Waiting(n)' <=> Waiting(n) BY <1>1 DEF Waiting
<1>9. DOMAIN charges' = DOMAIN charges /\ \A k \in DOMAIN charges : charges'[k] \in {Removed, charges[k]}
  BY <1>1 DEF Removed
<1>10. charges' \in Seq({Removed} \cup {Charge(n) : n \in DOMAIN sent})'
  <2> PICK S : S = {Removed} \cup {Charge(n) : n \in DOMAIN sent} OBVIOUS
  <2>1. charges \in Seq(S) /\ Removed \in S BY <1>2 DEF ChargeInv
  <2>2. DOMAIN charges = 1 .. Len(charges) /\ Len(charges) \in Nat /\ \A k \in DOMAIN charges : charges[k] \in S
    BY <2>1
  <2>3. charges' \in [1 .. Len(charges) -> S] BY <1>1, <2>1, <2>2
  <2>4. charges' \in Seq(S) BY <2>2, <2>3
  <2> QED BY <1>7, <2>4 DEF Removed
<1>11. \A k \in DOMAIN charges' : Stored(k)' => (Chargeable(charges[k].of) /\ charges[k] = Charge(charges[k].of))'
  <2> TAKE k \in DOMAIN charges'
  <2> PICK d : d = charges'[k] OBVIOUS
  <2>1. SUFFICES ASSUME d # Removed PROVE Chargeable(d.of)' /\ d = Charge(d.of)' BY DEF Stored, Removed
  <2>2. k \in DOMAIN charges /\ charges[k] = d BY <1>9, <2>1
  <2>3. Chargeable(d.of) /\ d = Charge(d.of) BY <1>2, <2>1, <2>2 DEF ChargeInv, Stored
  <2>4. d.of \in DOMAIN sent BY <2>3 DEF Chargeable
  <2> QED BY <1>6, <2>3, <2>4
<1>12. \A n : Copies(n)' \subseteq Copies(n) BY <1>9 DEF Copies, Stored, Removed
<1>13. ASSUME NEW n \in DOMAIN sent, sent[n].payer # p PROVE Copies(n)' = Copies(n)
  <2>1. ASSUME NEW k \in Copies(n) PROVE charges'[k] = charges[k]
    <3>1. k \in DOMAIN charges /\ charges[k] # Removed /\ charges[k] = Charge(n) BY <1>2, <2>1 DEF Copies, ChargeInv, Stored
    <3>2. charges[k].payer = sent[n].payer BY <3>1 DEF Charge
    <3> QED BY <1>1, <1>13, <3>1, <3>2
  <2>2. Copies(n) \subseteq Copies(n)' BY <1>9, <2>1 DEF Copies, Stored, Removed
  <2> QED BY <1>12, <2>2
<1>14. \A n \in DOMAIN sent :
         /\ Cardinality(Copies(n)') <= billFaults' + (IF Waiting(n)' THEN 0 ELSE 1)
         /\ Waiting(n)' \/ n \in refused' \cup erased' \/ Copies(n)' # {}
  <2> TAKE n \in DOMAIN sent
  <2>1. /\ Cardinality(Copies(n)) <= billFaults + (IF Waiting(n) THEN 0 ELSE 1)
        /\ Waiting(n) \/ n \in refused \cup erased \/ Copies(n) # {}
    BY <1>2 DEF ChargeInv
  <2>2. Cardinality(Copies(n)') <= Cardinality(Copies(n)) /\ Cardinality(Copies(n)) \in Nat /\ Cardinality(Copies(n)') \in Nat
    <3>1. IsFiniteSet(Copies(n)) BY <1>2, CopiesFinite
    <3>2. IsFiniteSet(Copies(n)') /\ Cardinality(Copies(n)') <= Cardinality(Copies(n)) BY <1>12, <3>1, FS_Subset
    <3> QED BY <3>1, <3>2, FS_CardinalityType
  <2>3. billFaults' = billFaults /\ billFaults \in Nat BY <1>1, <1>2 DEF SentInv
  <2>4. Cardinality(Copies(n)') <= billFaults' + (IF Waiting(n)' THEN 0 ELSE 1) BY <1>8, <2>1, <2>2, <2>3
  <2>5. CASE sent[n].payer = p
    <3>1. Waiting(n)' \/ n \in erased' BY <1>1, <1>8, <2>5
    <3> QED BY <2>4, <3>1
  <2>6. CASE sent[n].payer # p
    <3>1. Copies(n)' = Copies(n) BY <1>13, <2>6
    <3> QED BY <1>1, <1>8, <2>1, <2>4, <3>1
  <2> QED BY <2>5, <2>6
<1>15. ChargeInv' BY <1>1, <1>10, <1>11, <1>14 DEF ChargeInv
<1> QED BY <1>3, <1>4, <1>5, <1>15 DEF BillInv
-------------------------------------------------------------------------------
(* All steps. *)

LEMMA InitBill == BillingInit => BillInv
<1> SUFFICES ASSUME BillingInit PROVE BillInv OBVIOUS
<1>1. /\ sent = <<>> /\ captures = <<>> /\ taken = 0 /\ refused = {} /\ charges = <<>> /\ erased = {}
      /\ metering = [w \in Meters |-> NoMetering] /\ meterings = 0 /\ billFaults = 0
      /\ DOMAIN sent = {} /\ DOMAIN captures = {} /\ DOMAIN charges = {}
  BY DEF BillingInit
<1>2. SentInv BY <1>1 DEF SentInv
<1>3. QueueInv BY <1>1 DEF QueueInv
<1>4. ChargeInv BY <1>1 DEF ChargeInv
<1>5. Working = {} BY <1>1 DEF Working
<1>6. MeterInv BY <1>1, <1>5 DEF MeterInv
<1> QED BY <1>2, <1>3, <1>4, <1>6 DEF BillInv

LEMMA StutterInv ==
  ASSUME BillInv, UNCHANGED billVars PROVE BillInv'
<1>1. UNCHANGED <<sent, captures, queueVars>> /\ metering' = metering /\ meterings' = meterings /\ billFaults' = billFaults
  BY DEF billVars, queueVars
<1>2. SentInv /\ QueueInv /\ ChargeInv /\ MeterInv /\ billFaults \in Nat /\ meterings \in Nat BY DEF BillInv, SentInv
<1>3. SentInv' /\ QueueInv' /\ ChargeInv' BY <1>1, <1>2, NotCaptured
<1>4. MeterInv' BY <1>1, <1>2, <1>3, MeterStays DEF queueVars
<1> QED BY <1>3, <1>4 DEF BillInv

LEMMA BillStep ==
  ASSUME BillInv, [BillingNext]_billVars PROVE BillInv'
<1>1. CASE \E p \in Payers, bytes \in Nat :
             CaptureData(p, bytes) /\ UNCHANGED <<queueVars, metering, meterings, billFaults>>
  BY <1>1, ServiceInv
<1>2. CASE \E w \in Meters, p \in Payers, kind \in Kinds : BeginMetering(w, kind, p) BY <1>2, BeginMeteringInv
<1>3. CASE \E w \in Meters : TrackComputeUnits(w) BY <1>3, TrackComputeInv
<1>4. CASE \E w \in Meters, bytes \in Sizes : TrackDataUnits(w, bytes) BY <1>4, TrackDataInv
<1>5. CASE \E w \in Meters : CompleteDataUnitsOf(w) BY <1>5, CompleteDataInv
<1>6. CASE \E w \in Meters : EndMetering(w) BY <1>6, EndMeteringInv
<1>7. CASE \E w \in Meters : FailMetering(w) \/ DisposeMetering(w) BY <1>7, FailMeteringInv
<1>8. CASE ConsumeCapture BY <1>8, TakeCaptureInv, HandleCaptureInv DEF ConsumeCapture
<1>9. CASE \E p \in Payers : DeleteAccountBilling(p) BY <1>9, DeleteAccountBillingInv
<1>10. CASE UNCHANGED billVars BY <1>10, StutterInv
<1> QED BY <1>1, <1>2, <1>3, <1>4, <1>5, <1>6, <1>7, <1>8, <1>9, <1>10 DEF BillingNext, Kinds
-------------------------------------------------------------------------------
(* Pages. *)

Found(p) == {k \in DOMAIN charges : Stored(k) /\ charges[k].payer = p}
Before(p, k) == Cardinality({j \in Found(p) : j < k})

LEMMA PageUnits ==
  ASSUME NEW p, NEW c
  PROVE  FilterBillableUnits({p}, {}, 0, 0, c).units =
           {k \in Found(p) : c <= Before(p, k) /\ Before(p, k) < c + PageLimit}
<1> DEFINE F == {k \in DOMAIN charges :
                  /\ charges[k] # Removed
                  /\ {p} = {} \/ charges[k].payer \in {p}
                  /\ {} = {} \/ charges[k].type \in {}
                  /\ 0 = 0 \/ charges[k].total <= 0
                  /\ 0 = 0 \/ charges[k].total >= 0}
<1>1. F = Found(p) BY DEF Found, Stored
<1>2. FilterBillableUnits({p}, {}, 0, 0, c).units =
        {k \in F : c <= Cardinality({j \in F : j < k}) /\ Cardinality({j \in F : j < k}) < c + PageLimit}
  BY DEF FilterBillableUnits
<1> HIDE DEF F
<1> QED BY <1>1, <1>2, SMTT(30) DEF Before

LEMMA UpTo == ASSUME NEW l \in Nat PROVE IsFiniteSet(1 .. l) /\ Cardinality(1 .. l) = l
BY FS_Interval

LEMMA BeforeBound ==
  ASSUME ChargeInv, NEW p, NEW k \in DOMAIN charges
  PROVE  Before(p, k) \in 0 .. Len(charges)
<1>1. DOMAIN charges = 1 .. Len(charges) /\ Len(charges) \in Nat BY DEF ChargeInv
<1>2. {j \in Found(p) : j < k} \subseteq DOMAIN charges BY DEF Found
<1>3. IsFiniteSet(DOMAIN charges) /\ Cardinality(DOMAIN charges) = Len(charges)
  <2> PICK l \in Nat : l = Len(charges) BY <1>1
  <2>1. IsFiniteSet(1 .. l) /\ Cardinality(1 .. l) = l BY UpTo
  <2> QED BY <1>1, <2>1
<1>4. /\ IsFiniteSet({j \in Found(p) : j < k})
      /\ Cardinality({j \in Found(p) : j < k}) <= Cardinality(DOMAIN charges)
  BY <1>2, <1>3, FS_Subset
<1>5. Cardinality({j \in Found(p) : j < k}) \in Nat BY <1>4, FS_CardinalityType
<1> QED BY <1>1, <1>3, <1>4, <1>5 DEF Before

LEMMA ListedFinite ==
  ASSUME ChargeInv, NEW n PROVE Cardinality(Listed(n)) \in Nat
<1>1. DOMAIN charges = 1 .. Len(charges) /\ Len(charges) \in Nat BY DEF ChargeInv
<1>2. IsFiniteSet(0 .. Len(charges)) /\ IsFiniteSet(DOMAIN charges) BY <1>1, FS_Interval
<1>3. IsFiniteSet((0 .. Len(charges)) \X DOMAIN charges) BY <1>2, FS_Product
<1>4. Listed(n) \subseteq (0 .. Len(charges)) \X DOMAIN charges BY DEF Listed
<1> QED BY <1>3, <1>4, FS_Subset, FS_CardinalityType

\* The pages list every copy, each on one page.
LEMMA Pages ==
  ASSUME BillInv, NEW n \in DOMAIN sent
  PROVE  /\ Cardinality(Listed(n)) <= Cardinality(Copies(n))
         /\ Copies(n) # {} => Listed(n) # {}
         /\ \A d \in Listed(n) : d[2] \in Copies(n)
<1> PICK p : p = sent[n].payer OBVIOUS
<1>0. ChargeInv BY DEF BillInv
<1>1. DOMAIN charges = 1 .. Len(charges) /\ Len(charges) \in Nat BY <1>0 DEF ChargeInv
<1>2. Listed(n) = {d \in (0 .. Len(charges)) \X DOMAIN charges :
                     /\ d[2] \in Found(p) /\ charges[d[2]].of = n
                     /\ d[1] * PageLimit <= Before(p, d[2]) /\ Before(p, d[2]) < d[1] * PageLimit + PageLimit}
  <2>1. \A c : FilterBillableUnits({p}, {}, 0, 0, c).units =
                 {k \in Found(p) : c <= Before(p, k) /\ Before(p, k) < c + PageLimit}
    BY PageUnits
  <2>2. \A d : d[2] \in FilterBillableUnits({p}, {}, 0, 0, d[1] * PageLimit).units <=>
                 /\ d[2] \in Found(p)
                 /\ d[1] * PageLimit <= Before(p, d[2]) /\ Before(p, d[2]) < d[1] * PageLimit + PageLimit
    BY <2>1
  <2>3. Listed(n) = {d \in (0 .. Len(charges)) \X DOMAIN charges :
                       /\ d[2] \in FilterBillableUnits({p}, {}, 0, 0, d[1] * PageLimit).units
                       /\ charges[d[2]].of = n}
    BY DEF Listed
  <2> QED BY <2>2, <2>3
<1>3. \A k \in DOMAIN charges : Before(p, k) \in 0 .. Len(charges) BY <1>0, BeforeBound
<1>4. \A d \in Listed(n) : d[2] \in Copies(n) BY <1>2 DEF Copies, Found
<1>5. ASSUME NEW d \in Listed(n), NEW e \in Listed(n), d[2] = e[2] PROVE d = e
  <2> PICK a, b, k : a = d[1] /\ b = e[1] /\ k = d[2] OBVIOUS
  <2>1. a \in Nat /\ b \in Nat /\ k \in DOMAIN charges /\ d = <<a, k>> /\ e = <<b, k>> BY <1>1, <1>2, <1>5
  <2>2. /\ a * PageLimit <= Before(p, k) /\ Before(p, k) < a * PageLimit + PageLimit
        /\ b * PageLimit <= Before(p, k) /\ Before(p, k) < b * PageLimit + PageLimit
    BY <1>2, <1>5
  <2>3. Before(p, k) \in Nat BY <1>3, <2>1
  <2>4. a = b BY <2>1, <2>2, <2>3, OnePage
  <2> QED BY <2>1, <2>4
<1>6. Cardinality(Listed(n)) <= Cardinality(Copies(n))
  <2> DEFINE f == [d \in Listed(n) |-> d[2]]
  <2>1. f \in Injection(Listed(n), Copies(n)) BY <1>4, <1>5 DEF Injection, IsInjective
  <2>2. IsFiniteSet(Copies(n)) BY <1>0, CopiesFinite
  <2> HIDE DEF f
  <2> QED BY <2>1, <2>2, FS_Injection
<1>7. ASSUME NEW k \in Copies(n) PROVE Listed(n) # {}
  <2>1. k \in DOMAIN charges /\ charges[k] = Charge(n) /\ charges[k].of = n /\ Stored(k)
    BY <1>0 DEF Copies, ChargeInv
  <2>2. k \in Found(p) BY <2>1 DEF Found, Charge
  <2>3. PICK x \in 0 .. Len(charges) : x = Before(p, k) BY <1>3, <2>1
  <2>4. PICK a \in Nat : a * PageLimit <= x /\ x < a * PageLimit + PageLimit /\ a <= x
    BY <1>1, <2>3, PageHolding
  <2>5. a \in 0 .. Len(charges) BY <1>1, <2>3, <2>4
  <2>6. <<a, k>> \in Listed(n) BY <1>2, <2>1, <2>2, <2>3, <2>4, <2>5, SMTT(30)
  <2> QED BY <2>6
<1> QED BY <1>4, <1>6, <1>7
-------------------------------------------------------------------------------
(* What the charges say. *)

LEMMA ChargeOf ==
  ASSUME NEW n, Chargeable(n), NEW u, u = sent[n], Measured(u), NEW c, c = Charge(n)
  PROVE  /\ c.quantity = u.quantity
         /\ c.currency = (IF Currency[u.payer] \in DOMAIN Costs[<<u.type, u.metric>>] THEN Currency[u.payer] ELSE "GBP")
         /\ c.total = c.quantity * Costs[<<u.type, u.metric>>][c.currency][Plan[u.payer]]
<1> PICK m, fee : m = <<u.type, u.metric>> /\ fee = Costs[m][BilledCurrency(u)][u.plan] OBVIOUS
<1>1. /\ m \in Metrics /\ u.payer \in Payers /\ u.plan = Plan[u.payer] /\ u.plan # NoPlan
      /\ u.currency = Currency[u.payer] /\ u.quantity \in Nat
      /\ BilledCurrency(u) \in DOMAIN Costs[m]
  BY DEF Measured, Units, Chargeable, ValidUnit, Priced, MetricCosts
<1>2. fee \in Nat BY <1>1, BillingAssumption
<1>3. c.quantity = u.quantity /\ c.currency = BilledCurrency(u) /\ c.total = fee * u.quantity
  BY DEF Charge, Fee, MetricCosts
<1>4. BilledCurrency(u) = IF Currency[u.payer] \in DOMAIN Costs[m] THEN Currency[u.payer] ELSE "GBP"
  BY <1>1 DEF BilledCurrency, MetricCosts
<1>5. fee * u.quantity = u.quantity * fee BY <1>1, <1>2
<1> QED BY <1>1, <1>3, <1>4, <1>5

LEMMA Charged == BillInv => ChargedAsCaptured
<1> SUFFICES ASSUME BillInv PROVE ChargedAsCaptured OBVIOUS
<1>1. SentInv /\ QueueInv /\ ChargeInv /\ MeterInv /\ billFaults \in Nat BY DEF BillInv, SentInv
<1>2. ASSUME NEW n \in DOMAIN sent, NEW u, u = sent[n]
      PROVE  /\ Cardinality(Listed(n)) <= billFaults + (IF n \in ToSet(captures) THEN 0 ELSE 1)
             /\ n \in refused => Plan[u.payer] = NoPlan
             /\ n \in ToSet(captures) \cup refused \cup erased \/ Listed(n) # {}
  <2>1. /\ Cardinality(Copies(n)) <= billFaults + (IF Waiting(n) THEN 0 ELSE 1)
        /\ Waiting(n) \/ n \in refused \cup erased \/ Copies(n) # {}
    BY <1>1 DEF ChargeInv
  <2>2. Cardinality(Listed(n)) <= Cardinality(Copies(n)) /\ (Copies(n) # {} => Listed(n) # {}) BY Pages
  <2>3. Cardinality(Copies(n)) \in Nat /\ Cardinality(Listed(n)) \in Nat BY <1>1, CopiesFinite, ListedFinite
  <2>4. u.plan = Plan[u.payer] BY <1>1, <1>2 DEF SentInv, Measured
  <2>5. Cardinality(Listed(n)) <= billFaults + (IF Waiting(n) THEN 0 ELSE 1) BY <1>1, <2>1, <2>2, <2>3
  <2> QED BY <1>1, <1>2, <2>1, <2>2, <2>4, <2>5 DEF QueueInv, Waiting
<1>3. ASSUME NEW n \in DOMAIN sent, NEW u, u = sent[n], NEW d \in Listed(n), NEW c, c = charges[d[2]]
      PROVE  /\ c.currency = (IF Currency[u.payer] \in DOMAIN Costs[<<u.type, u.metric>>] THEN Currency[u.payer] ELSE "GBP")
             /\ c.total = c.quantity * Costs[<<u.type, u.metric>>][c.currency][Plan[u.payer]]
             /\ IF u.type = "compute" THEN c.quantity = u.measure
                ELSE c.quantity = 1 \/ (2 * c.quantity * Megabyte \in 2 * u.measure - Megabyte .. 2 * u.measure + Megabyte)
             /\ c.quantity = 1 /\ u.type = "data" => 2 * u.measure <= 3 * Megabyte
  <2>1. Measured(u) BY <1>1, <1>3 DEF SentInv
  <2>2. d[2] \in Copies(n) BY Pages
  <2>3. Chargeable(n) /\ c = Charge(n) BY <1>1, <1>3, <2>2 DEF ChargeInv, Copies
  <2>4. /\ c.quantity = u.quantity
        /\ c.currency = (IF Currency[u.payer] \in DOMAIN Costs[<<u.type, u.metric>>] THEN Currency[u.payer] ELSE "GBP")
        /\ c.total = c.quantity * Costs[<<u.type, u.metric>>][c.currency][Plan[u.payer]]
    BY <1>3, <2>1, <2>3, ChargeOf
  <2>5. IF u.type = "compute" THEN u.quantity = u.measure ELSE Fits(u) BY <2>1 DEF Measured
  <2> QED BY <2>4, <2>5 DEF Fits
<1>4. ASSUME NEW n \in DOMAIN sent, sent[n].run # 0
      PROVE  Cardinality({m \in DOMAIN sent : sent[m].run = sent[n].run /\ sent[m].type = sent[n].type})
               <= (IF sent[n].process = "identification" THEN 3 ELSE 1)
  <2>1. sent[n].type \in {"data", "compute"} BY <1>1 DEF SentInv, Measured, Units
  <2>2. Cardinality(CapturesOf(sent[n].run, sent[n].type)) <= Limit(sent[n].process) BY <1>1, <1>4, <2>1 DEF MeterInv
  <2> QED BY <2>2 DEF CapturesOf, Limit
<1> QED BY <1>2, <1>3, <1>4 DEF ChargedAsCaptured

\* Whatever is measured, delivered again and deleted, in whatever order: a capture is
\* charged as it was measured, once but for lost answers, and listed on one page; a job
\* is charged once for its hours and its data, an identification job three times.
THEOREM ChargesFit == BillingSpec => []ChargedAsCaptured
<1>1. BillingInit => BillInv BY InitBill
<1>2. BillInv /\ [BillingNext]_billVars => BillInv' BY BillStep
<1>3. BillInv => ChargedAsCaptured BY Charged
<1> QED BY <1>1, <1>2, <1>3, PTL DEF BillingSpec
-------------------------------------------------------------------------------
(* Items. *)

Statuses == {"active", "inactive"}
Request ==
  [kind : {"create", "update", "delete", "configure"},
   at : {"count", "insert", "bill", "find", "write", "prune", "fetch", "set"},
   batch : Seq(ItemIds), status : Statuses \cup {NoItem}, k : Nat,
   failed : SUBSET ItemIds, done : SUBSET ItemIds, found : SUBSET ItemIds, list : SUBSET ItemIds,
   shared : SUBSET ItemIds]

TypeInv ==
  /\ stock \in [ItemIds -> Statuses \cup {NoItem}]
  /\ calls \in [Clients -> Request \cup {Quiet}]
  /\ stopList \in SUBSET ItemIds /\ tokenList \in SUBSET ItemIds
  /\ lists \in Seq(SUBSET ItemIds)
  /\ told = [i \in DOMAIN told |-> told[i]] /\ DOMAIN told \in SUBSET ItemIds
  /\ spoiled \in BOOLEAN /\ crowded \in BOOLEAN

\* Where a request is, and what it has gone through by then.
Stands(r) ==
  /\ r.kind = "create" => r.at \in {"count", "insert", "bill"}
  /\ r.kind = "update" => r.at \in {"find", "write"} /\ r.status \in Statuses
  /\ r.kind = "delete" => r.at \in {"find", "write", "prune"}
  /\ r.kind = "configure" => r.at \in {"fetch", "set"}
  /\ r.at \in {"count", "find", "fetch"} => r.k = 1 /\ r.failed = {} /\ r.done = {}
  /\ r.at = "insert" \/ (r.kind = "delete" /\ r.at = "write") => r.k \in 1 .. Len(r.batch)
  /\ r.at \in {"bill", "prune"} => r.k = Len(r.batch) + 1
  /\ r.kind # "configure" => r.found \subseteq ToSet(r.batch)
  /\ r.failed \subseteq ToSet(r.batch) /\ r.done \subseteq r.found

Passed(r, i) == \E j \in DOMAIN r.batch : j < r.k /\ r.batch[j] = i

\* What a request may say of item i, in state s, if nobody else was at it.
Believes(r, i, s) ==
  /\ r.kind = "create" /\ Passed(r, i) => s \in Statuses /\ (i \notin r.failed => s = "active")
  /\ r.kind = "update" /\ r.at = "write" =>
       (i \in r.found <=> s # NoItem) /\ (i \in r.done => s = r.status)
  /\ r.kind = "delete" /\ Passed(r, i) => s = NoItem

StandInv == \A c \in Busy : Stands(calls[c])
SharedInv == \A c, d \in Busy : c # d => ToSet(calls[d].batch) \subseteq calls[c].shared
BeliefInv ==
  \A c \in Busy : \A i \in ToSet(calls[c].batch) \ calls[c].shared : Believes(calls[c], i, stock[i])
ToldInv ==
  \A i \in DOMAIN told : stock[i] \in told[i] /\ \A c \in Busy : i \notin ToSet(calls[c].batch)

\* The room a creation has been promised is still there.
LimitInv ==
  /\ IsFiniteSet(InStock)
  /\ ~crowded =>
       /\ \A c, d \in CallsOf("create") : c = d
       /\ Cardinality(InStock) <= ItemLimit
       /\ \A c \in Busy : calls[c].kind = "create" /\ calls[c].at = "insert" =>
            Cardinality(InStock) + (Len(calls[c].batch) - calls[c].k + 1) <= ItemLimit

\* An entry of the newest list is an item, or its deletion is on its way to the list.
Leaving(r, i) == r.kind = "delete" /\ r.at \in {"write", "prune"} /\ i \in r.found /\ Passed(r, i)
ListInv == ~spoiled => \A i \in NewestList : i \in InStock \/ \E c \in Busy : Leaving(calls[c], i)

Inv == TypeInv /\ StandInv /\ SharedInv /\ BeliefInv /\ ToldInv /\ LimitInv /\ ListInv
-------------------------------------------------------------------------------
(* The two ways in which a request goes on. *)

\* It stays at its batch, writes nothing but items of it, and may believe what it then does.
MovesTo(c, r) ==
  /\ c \in Busy /\ calls' = [calls EXCEPT ![c] = r] /\ r \in Request /\ Stands(r)
  /\ r.kind = calls[c].kind /\ r.batch = calls[c].batch /\ r.shared = calls[c].shared
  /\ \A i \in ToSet(r.batch) \ r.shared : Believes(r, i, stock'[i])
  /\ \A i \in ItemIds : stock'[i] # stock[i] => i \in ToSet(r.batch)
  /\ stock' \in [ItemIds -> Statuses \cup {NoItem}]
  /\ told' = told

\* It answers, and nothing but the truth of what nobody else was at.
EndsWith(c, said) ==
  /\ c \in Busy /\ calls' = [calls EXCEPT ![c] = Quiet] /\ stock' = stock
  /\ told' = Both([i \in DOMAIN said \ calls[c].shared |-> said[i]], told)
  /\ DOMAIN said \subseteq ToSet(calls[c].batch)
  /\ \A i \in DOMAIN said \ calls[c].shared : stock[i] \in said[i]

Goes(c) == (\E r : MovesTo(c, r)) \/ (\E said : EndsWith(c, said))

LEMMA BusyCall ==
  ASSUME TypeInv, NEW c \in Clients
  PROVE  /\ c \in Busy => calls[c] \in Request
         /\ calls[c].kind \in {"create", "update", "delete", "configure"} <=> c \in Busy
<1>1. calls[c] \in Request \cup {Quiet} BY DEF TypeInv
<1>2. Quiet.kind = "none" BY DEF Quiet
<1>3. \A r \in Request : r.kind \in {"create", "update", "delete", "configure"} BY DEF Request
<1> QED BY <1>1, <1>2, <1>3 DEF Busy

LEMMA BatchItems ==
  ASSUME NEW batch \in Seq(ItemIds)
  PROVE  ToSet(batch) \subseteq ItemIds /\ \A j \in 1 .. Len(batch) : batch[j] \in ToSet(batch) /\ batch[j] \in ItemIds
BY DEF ToSet

\* What the requests know survives both.
LEMMA MovesKeep ==
  ASSUME Inv, NEW c \in Clients, NEW r, MovesTo(c, r)
  PROVE  StandInv' /\ SharedInv' /\ BeliefInv' /\ ToldInv'
<1>1. \A d \in Clients : calls'[d] = IF d = c THEN r ELSE calls[d] BY DEF Inv, TypeInv, MovesTo
<1>2. Busy' = Busy
  <2>1. r # Quiet BY DEF MovesTo, Request, Quiet
  <2> QED BY <1>1, <2>1 DEF Busy, MovesTo
<1>3. \A d \in Busy : calls'[d].batch = calls[d].batch /\ calls'[d].shared = calls[d].shared
  BY <1>1 DEF Busy, MovesTo
<1>4. StandInv' BY <1>1, <1>2 DEF Inv, StandInv, Busy, MovesTo
<1>5. SharedInv' BY <1>2, <1>3 DEF Inv, SharedInv
<1>6. BeliefInv'
  <2> SUFFICES ASSUME NEW d \in Busy, NEW i \in ToSet(calls[d].batch) \ calls[d].shared
               PROVE  Believes(calls'[d], i, stock'[i])
    BY <1>2, <1>3 DEF BeliefInv
  <2>1. CASE d = c BY <1>1, <2>1 DEF MovesTo
  <2>2. CASE d # c
    <3>1. calls'[d] = calls[d] /\ d \in Clients BY <1>1, <2>2 DEF Busy
    <3>2. ToSet(calls[c].batch) \subseteq calls[d].shared BY <2>2 DEF Inv, SharedInv, MovesTo
    <3>3. i \in ItemIds BY <3>1, BusyCall, BatchItems DEF Inv, Request
    <3>4. stock'[i] = stock[i] BY <3>2, <3>3 DEF MovesTo
    <3> QED BY <3>1, <3>4 DEF Inv, BeliefInv
  <2> QED BY <2>1, <2>2
<1>7. ToldInv'
  <2> SUFFICES ASSUME NEW i \in DOMAIN told
               PROVE  stock'[i] \in told[i] /\ \A d \in Busy : i \notin ToSet(calls[d].batch)
    BY <1>2, <1>3 DEF ToldInv, MovesTo
  <2>1. stock[i] \in told[i] /\ (\A d \in Busy : i \notin ToSet(calls[d].batch)) /\ i \in ItemIds
    BY DEF Inv, ToldInv, TypeInv
  <2> QED BY <2>1 DEF MovesTo
<1> QED BY <1>4, <1>5, <1>6, <1>7

LEMMA EndsKeep ==
  ASSUME Inv, NEW c \in Clients, NEW said, EndsWith(c, said)
  PROVE  /\ StandInv' /\ SharedInv' /\ BeliefInv' /\ ToldInv'
         /\ told' = [i \in DOMAIN told' |-> told'[i]] /\ DOMAIN told' \in SUBSET ItemIds
<1>1. \A d \in Clients : calls'[d] = IF d = c THEN Quiet ELSE calls[d] BY DEF Inv, TypeInv, EndsWith
<1>2. Busy' = Busy \ {c} BY <1>1 DEF Busy
<1>3. \A d \in Busy' : d \in Busy /\ d # c /\ calls'[d] = calls[d] BY <1>1, <1>2 DEF Busy
<1>4. StandInv' BY <1>3 DEF Inv, StandInv
<1>5. SharedInv' BY <1>3 DEF Inv, SharedInv
<1>6. BeliefInv' BY <1>3 DEF Inv, BeliefInv, EndsWith
<1> DEFINE new == [i \in DOMAIN said \ calls[c].shared |-> said[i]]
<1>7. /\ DOMAIN told' = DOMAIN new \cup DOMAIN told /\ told' = [i \in DOMAIN told' |-> told'[i]]
      /\ \A i \in DOMAIN told' : told'[i] = IF i \in DOMAIN new THEN new[i] ELSE told[i]
  BY DEF EndsWith, Both
<1>8. ToldInv'
  <2> SUFFICES ASSUME NEW i \in DOMAIN told'
               PROVE  stock[i] \in told'[i] /\ \A d \in Busy' : i \notin ToSet(calls[d].batch)
    BY <1>3 DEF ToldInv, EndsWith
  <2>1. CASE i \in DOMAIN new
    <3>1. i \in DOMAIN said /\ i \notin calls[c].shared /\ told'[i] = said[i] BY <1>7, <2>1
    <3>2. \A d \in Busy' : ToSet(calls[d].batch) \subseteq calls[c].shared BY <1>3 DEF Inv, SharedInv, EndsWith
    <3> QED BY <3>1, <3>2 DEF EndsWith
  <2>2. CASE i \notin DOMAIN new
    <3>1. i \in DOMAIN told /\ told'[i] = told[i] BY <1>7, <2>2
    <3> QED BY <1>3, <3>1 DEF Inv, ToldInv
  <2> QED BY <2>1, <2>2
<1>9. DOMAIN told' \in SUBSET ItemIds
  <2>1. ToSet(calls[c].batch) \subseteq ItemIds BY BusyCall, BatchItems DEF Inv, EndsWith, Request
  <2> QED BY <1>7, <2>1 DEF EndsWith, Inv, TypeInv
<1> QED BY <1>4, <1>5, <1>6, <1>7, <1>8, <1>9
-------------------------------------------------------------------------------
(* Every step of a request is one of the two. *)

LEMMA FailsEnds ==
  ASSUME Inv, NEW c \in Busy, Answer(c, <<>>), stock' = stock
  PROVE  EndsWith(c, <<>>)
<1>1. DOMAIN <<>> = {} OBVIOUS
<1> QED BY <1>1 DEF Answer, EndCall, EndsWith

LEMMA AtBusy ==
  ASSUME Inv, NEW c \in Clients, NEW kind \in {"create", "update", "delete", "configure"}, calls[c].kind = kind
  PROVE  /\ c \in Busy /\ calls[c] \in Request /\ Stands(calls[c])
         /\ ToSet(calls[c].batch) \subseteq ItemIds /\ DOMAIN calls[c].batch = 1 .. Len(calls[c].batch)
         /\ Len(calls[c].batch) \in Nat
         /\ \A j \in 1 .. Len(calls[c].batch) : calls[c].batch[j] \in ToSet(calls[c].batch)
<1>1. c \in Busy /\ calls[c] \in Request BY BusyCall DEF Inv
<1>2. calls[c].batch \in Seq(ItemIds) BY <1>1 DEF Request
<1> QED BY <1>1, <1>2, BatchItems DEF Inv, StandInv

\* A request that keeps its items only moves.
LEMMA StaysMoves ==
  ASSUME Inv, NEW c \in Busy, NEW r \in Request, calls' = [calls EXCEPT ![c] = r], Stands(r),
         r.kind = calls[c].kind, r.batch = calls[c].batch, r.shared = calls[c].shared,
         stock' = stock, told' = told,
         \A i \in ToSet(r.batch) \ r.shared : Believes(r, i, stock[i])
  PROVE  MovesTo(c, r)
BY DEF MovesTo, Inv, TypeInv

LEMMA CountGoes ==
  ASSUME Inv, NEW c \in Clients, CountItems(c)
  PROVE  Goes(c)
<1>1. /\ calls[c].kind = "create" /\ calls[c].at = "count" /\ stock' = stock
      /\ \/ told' = told /\ Goto(c, IF calls[c].batch = <<>> THEN "bill" ELSE "insert")
         \/ Answer(c, <<>>)
  BY DEF CountItems, At, Fails
<1>2. c \in Busy /\ calls[c] \in Request /\ Stands(calls[c]) BY <1>1, AtBusy
<1>3. CASE told' = told /\ Goto(c, IF calls[c].batch = <<>> THEN "bill" ELSE "insert")
  <2> PICK at : at = IF calls[c].batch = <<>> THEN "bill" ELSE "insert" OBVIOUS
  <2> DEFINE r == [calls[c] EXCEPT !.at = at]
  <2>1. calls' = [calls EXCEPT ![c] = r] BY <1>3 DEF Goto
  <2>2. /\ r \in Request /\ r.kind = "create" /\ r.at = at /\ r.batch = calls[c].batch /\ r.k = 1 /\ r.failed = {}
        /\ r.found = calls[c].found /\ r.done = {} /\ r.shared = calls[c].shared
    BY <1>1, <1>2 DEF Request, Stands
  <2>3. Stands(r) BY <1>1, <1>2, <2>2 DEF Request, Stands
  <2>4. \A i : Believes(r, i, stock[i])
    <3>1. \A i : ~Passed(r, i) BY <1>2, <2>2 DEF Passed, Request
    <3> QED BY <2>2, <3>1 DEF Believes
  <2>5. MovesTo(c, r) BY <1>1, <1>2, <1>3, <2>1, <2>2, <2>3, <2>4, StaysMoves
  <2> QED BY <2>5 DEF Goes
<1>4. CASE Answer(c, <<>>) BY <1>1, <1>2, <1>4, FailsEnds DEF Goes
<1> QED BY <1>1, <1>3, <1>4

\* What one more entry adds to those a request has passed.
LEMMA PassedNext ==
  ASSUME NEW r, NEW q, q.batch = r.batch, r.k \in DOMAIN r.batch, DOMAIN r.batch \subseteq Nat, r.k \in Nat,
         q.k = r.k + 1, NEW i
  PROVE  Passed(q, i) <=> Passed(r, i) \/ i = r.batch[r.k]
BY DEF Passed

\* A request as far as it has gone.
Put(r, k, at, failed, done) ==
  [kind |-> r.kind, at |-> at, batch |-> r.batch, status |-> r.status, k |-> k, failed |-> failed,
   done |-> done, found |-> r.found, list |-> r.list, shared |-> r.shared]

LEMMA PutFacts ==
  ASSUME NEW r \in Request, NEW k \in Nat, NEW at \in {"insert", "bill", "write", "prune"},
         NEW failed \in SUBSET ItemIds, NEW done \in SUBSET ItemIds, NEW q, q = Put(r, k, at, failed, done)
  PROVE  /\ q \in Request /\ q.kind = r.kind /\ q.at = at /\ q.batch = r.batch /\ q.k = k /\ q.status = r.status
         /\ q.failed = failed /\ q.done = done /\ q.found = r.found /\ q.list = r.list /\ q.shared = r.shared
BY DEF Request, Put

LEMMA PutExcept ==
  ASSUME NEW r \in Request, NEW k, NEW at, NEW done
  PROVE  /\ [r EXCEPT !.k = k, !.at = at] = Put(r, k, at, r.failed, r.done)
         /\ [r EXCEPT !.done = done] = Put(r, r.k, r.at, r.failed, done)
<1>1. [r EXCEPT !.k = k] = Put(r, k, r.at, r.failed, r.done) BY DEF Request, Put
<1>2. [Put(r, k, r.at, r.failed, r.done) EXCEPT !.at = at] = Put(r, k, at, r.failed, r.done) BY DEF Put
<1>3. [r EXCEPT !.done = done] = Put(r, r.k, r.at, r.failed, done) BY DEF Request, Put
<1> QED BY <1>1, <1>2, <1>3, Zenon

LEMMA InsertGoes ==
  ASSUME Inv, NEW c \in Clients, InsertItem(c)
  PROVE  Goes(c)
<1> DEFINE r == calls[c]
           i == r.batch[r.k]
           at == IF r.k < Len(r.batch) THEN "insert" ELSE "bill"
<1>1. /\ r.kind = "create" /\ r.at = "insert"
      /\ \/ /\ told' = told
            /\ \/ /\ i \notin InStock /\ stock' = [stock EXCEPT ![i] = "active"]
                  /\ calls' = [calls EXCEPT ![c].k = @ + 1, ![c].at = at]
               \/ /\ i \in InStock /\ stock' = stock
                  /\ calls' = [calls EXCEPT ![c].k = @ + 1, ![c].at = at, ![c].failed = @ \cup {i}]
         \/ Answer(c, <<>>) /\ stock' = stock
  BY DEF InsertItem, At, Fails
<1>2. c \in Busy /\ r \in Request /\ Stands(r) BY <1>1, AtBusy, SMTT(30)
<1>3. /\ r.k \in 1 .. Len(r.batch) /\ i \in ToSet(r.batch) /\ i \in ItemIds /\ DOMAIN r.batch = 1 .. Len(r.batch)
      /\ Len(r.batch) \in Nat
  BY <1>1, <1>2, AtBusy DEF Stands
<1>4. CASE Answer(c, <<>>) /\ stock' = stock BY <1>2, <1>4, FailsEnds DEF Goes
<1>5. ASSUME told' = told, NEW failed, failed = r.failed \/ failed = r.failed \cup {i},
             calls' = [calls EXCEPT ![c] = Put(r, r.k + 1, at, failed, r.done)],
             stock' = stock \/ (i \notin InStock /\ stock' = [stock EXCEPT ![i] = "active"]),
             stock'[i] \in Statuses, i \notin failed => stock'[i] = "active"
      PROVE  Goes(c)
  <2> PICK q : q = Put(r, r.k + 1, at, failed, r.done) OBVIOUS
  <2>1. /\ q \in Request /\ q.kind = "create" /\ q.at = at /\ q.batch = r.batch /\ q.k = r.k + 1
        /\ q.failed = failed /\ q.found = r.found /\ q.done = r.done /\ q.shared = r.shared
    <3>1. failed \in SUBSET ItemIds
      <4>1. r.failed \in SUBSET ItemIds BY <1>2 DEF Request
      <4> QED BY <1>3, <1>5, <4>1
    <3>2. r \in Request /\ r.kind = "create" BY <1>1, <1>2
    <3>3. at \in {"insert", "bill"} /\ r.k + 1 \in Nat /\ r.done \in SUBSET ItemIds BY <1>2, <1>3 DEF Request
    <3> HIDE DEF r, at
    <3> QED BY <3>1, <3>2, <3>3, PutFacts
  <2>2. Stands(q)
    <3>1. q.at = "insert" => q.k \in 1 .. Len(r.batch) BY <1>3, <2>1
    <3>2. q.at = "bill" => q.k = Len(r.batch) + 1 BY <1>3, <2>1
    <3>3. q.failed \subseteq ToSet(r.batch) BY <1>2, <1>3, <1>5, <2>1 DEF Stands
    <3>4. q.at \in {"insert", "bill"} BY <2>1
    <3>5. r.found \subseteq ToSet(r.batch) /\ r.done \subseteq r.found BY <1>1, <1>2 DEF Stands
    <3> HIDE DEF r, at, i
    <3> QED BY <2>1, <3>1, <3>2, <3>3, <3>4, <3>5 DEF Stands
  <2>3. stock \in [ItemIds -> Statuses \cup {NoItem}] BY DEF Inv, TypeInv
  <2>4. /\ stock' \in [ItemIds -> Statuses \cup {NoItem}]
        /\ \A j \in ItemIds : stock'[j] # stock[j] => j = i /\ i \notin InStock
    <3>1. CASE stock' = stock BY <2>3, <3>1
    <3>2. CASE i \notin InStock /\ stock' = [stock EXCEPT ![i] = "active"]
      <4>1. i \in ItemIds BY <1>3
      <4> HIDE DEF i
      <4> QED BY <2>3, <3>2, <4>1 DEF Statuses
    <3> QED BY <1>5, <3>1, <3>2
  <2>5. ASSUME NEW j \in ToSet(q.batch) \ q.shared PROVE Believes(q, j, stock'[j])
    <3>1. Believes(r, j, stock[j]) BY <1>2, <2>1, <2>5 DEF Inv, BeliefInv
    <3>2. Passed(q, j) <=> Passed(r, j) \/ j = i
      <4>1. /\ r.k \in DOMAIN r.batch /\ DOMAIN r.batch \subseteq Nat /\ r.k \in Nat
            /\ q.batch = r.batch /\ q.k = r.k + 1 /\ i = r.batch[r.k]
        BY <1>3, <2>1, SMTT(30)
      <4> HIDE DEF r, i
      <4> QED BY <4>1, PassedNext
    <3>3. j \in ItemIds BY <1>1, <2>1, AtBusy, SMTT(30)
    <3>4. ASSUME j # i, Passed(r, j) PROVE stock'[j] \in Statuses /\ (j \notin failed => stock'[j] = "active")
      BY <1>1, <1>5, <2>4, <3>1, <3>3, <3>4, SMTT(30) DEF Believes
    <3> QED BY <1>5, <2>1, <3>2, <3>4 DEF Believes
  <2>6. MovesTo(c, q) BY <1>1, <1>2, <1>3, <1>5, <2>1, <2>2, <2>4, <2>5, Zenon DEF MovesTo
  <2> QED BY <2>6 DEF Goes
<1>6. CASE /\ told' = told /\ i \notin InStock /\ stock' = [stock EXCEPT ![i] = "active"]
           /\ calls' = [calls EXCEPT ![c].k = @ + 1, ![c].at = at]
  <2>1. stock'[i] = "active" BY <1>3, <1>6 DEF Inv, TypeInv
  <2>2. calls' = [calls EXCEPT ![c] = [r EXCEPT !.k = r.k + 1, !.at = at]] BY <1>6
  <2>3. r \in Request BY <1>2
  <2>4. calls' = [calls EXCEPT ![c] = Put(r, r.k + 1, at, r.failed, r.done)] BY <2>2, <2>3, PutExcept, Zenon
  <2> QED BY <1>5, <1>6, <2>1, <2>4 DEF Statuses
<1>7. CASE /\ told' = told /\ i \in InStock /\ stock' = stock
           /\ calls' = [calls EXCEPT ![c].k = @ + 1, ![c].at = at, ![c].failed = @ \cup {i}]
  <2>1. stock[i] \in Statuses BY <1>3, <1>7 DEF Inv, TypeInv, InStock
  <2>2. calls' = [calls EXCEPT ![c] = [r EXCEPT !.k = r.k + 1, !.at = at, !.failed = r.failed \cup {i}]]
    BY <1>7
  <2>3. r \in Request BY <1>2
  <2>4. calls' = [calls EXCEPT ![c] = Put(r, r.k + 1, at, r.failed \cup {i}, r.done)]
    <3> PICK k, failed : k = r.k + 1 /\ failed = r.failed \cup {i} OBVIOUS
    <3>1. [r EXCEPT !.k = k, !.at = at, !.failed = failed] = Put(r, k, at, failed, r.done)
      <4>1. [r EXCEPT !.k = k, !.at = at] = Put(r, k, at, r.failed, r.done) BY <2>3, PutExcept, Zenon
      <4>2. [Put(r, k, at, r.failed, r.done) EXCEPT !.failed = failed] = Put(r, k, at, failed, r.done)
        <5> HIDE DEF r, at
        <5> QED BY DEF Put
      <4> QED BY <4>1, <4>2, Zenon
    <3> QED BY <2>2, <3>1, Zenon
  <2> QED BY <1>5, <1>7, <2>1, <2>4
<1> QED BY <1>1, <1>4, <1>6, <1>7

LEMMA BillGoes ==
  ASSUME Inv, NEW c \in Busy, NEW written, NEW said, Bill(c, written, said),
         DOMAIN said \subseteq ToSet(calls[c].batch), \A i \in DOMAIN said \ calls[c].shared : stock[i] \in said[i]
  PROVE  Goes(c) /\ stock' = stock
<1>1. stock' = stock /\ (Answer(c, said) \/ Answer(c, <<>>)) BY DEF Bill, Fails
<1>2. CASE Answer(c, said)
  <2>1. EndsWith(c, said) BY <1>1, <1>2 DEF Answer, EndCall, EndsWith
  <2> QED BY <1>1, <2>1 DEF Goes
<1>3. CASE Answer(c, <<>>) BY <1>1, <1>3, FailsEnds DEF Goes
<1> QED BY <1>1, <1>2, <1>3

LEMMA BillCreatedGoes ==
  ASSUME Inv, NEW c \in Clients, BillCreated(c)
  PROVE  Goes(c) /\ stock' = stock
<1> PICK r, created, said :
      /\ r = calls[c] /\ created = ToSet(r.batch) \ r.failed
      /\ said = Both(Saying(created, {"active"}), Saying(r.failed, {"active", "inactive"}))
  OBVIOUS
<1>1. r.kind = "create" /\ r.at = "bill" /\ (Bill(c, created, said) \/ (Answer(c, said) /\ stock' = stock))
  BY DEF BillCreated, At
<1>2. c \in Busy /\ r \in Request /\ Stands(r) BY <1>1, AtBusy
<1>3. r.k = Len(r.batch) + 1 /\ r.failed \subseteq ToSet(r.batch) BY <1>1, <1>2 DEF Stands
<1>4. /\ DOMAIN said = created \cup r.failed
      /\ \A i \in DOMAIN said : said[i] = IF i \in created THEN {"active"} ELSE {"active", "inactive"}
  BY DEF Both, Saying
<1>5. DOMAIN said \subseteq ToSet(calls[c].batch) BY <1>3, <1>4
<1>6. ASSUME NEW i \in DOMAIN said \ calls[c].shared PROVE stock[i] \in said[i]
  <2>1. Passed(r, i)
    <3>1. PICK j \in 1 .. Len(r.batch) : r.batch[j] = i BY <1>1, <1>5, AtBusy DEF ToSet
    <3> QED BY <1>1, <1>3, <3>1, AtBusy DEF Passed
  <2>2. Believes(r, i, stock[i]) BY <1>2, <1>5 DEF Inv, BeliefInv
  <2>3. stock[i] \in Statuses /\ (i \notin r.failed => stock[i] = "active") BY <1>1, <2>1, <2>2 DEF Believes
  <2> QED BY <1>4, <2>3 DEF Statuses
<1>7. CASE Bill(c, created, said) BY <1>2, <1>5, <1>6, <1>7, BillGoes
<1>8. CASE Answer(c, said) /\ stock' = stock
  <2>1. EndsWith(c, said) BY <1>2, <1>5, <1>6, <1>8 DEF Answer, EndCall, EndsWith
  <2> QED BY <1>8, <2>1 DEF Goes
<1> QED BY <1>1, <1>7, <1>8

LEMMA FindGoes ==
  ASSUME Inv, NEW c \in Clients, FindItems(c)
  PROVE  Goes(c) /\ stock' = stock
<1> PICK r, found : r = calls[c] /\ found = ToSet(r.batch) \cap InStock OBVIOUS
<1>1. /\ r.kind \in {"update", "delete"} /\ r.at = "find" /\ stock' = stock
      /\ \/ found = {} /\ Answer(c, Saying(ToSet(r.batch), {NoItem}))
         \/ /\ calls' = [calls EXCEPT ![c].found = found, ![c].at = "write"]
            /\ found # {} /\ told' = told
         \/ Answer(c, <<>>)
  BY DEF FindItems, Fails
<1>2. c \in Busy /\ r \in Request /\ Stands(r) /\ ToSet(r.batch) \subseteq ItemIds BY <1>1, AtBusy
<1>3. \A i \in ToSet(r.batch) : i \in found <=> stock[i] # NoItem BY <1>2 DEF InStock
<1>4. CASE found = {} /\ Answer(c, Saying(ToSet(r.batch), {NoItem}))
  <2>1. EndsWith(c, Saying(ToSet(r.batch), {NoItem}))
    BY <1>1, <1>2, <1>3, <1>4 DEF Answer, EndCall, EndsWith, Saying
  <2> QED BY <1>1, <2>1 DEF Goes
<1>5. CASE /\ calls' = [calls EXCEPT ![c].found = found, ![c].at = "write"]
           /\ found # {} /\ told' = told
  <2> DEFINE q == [r EXCEPT !.found = found, !.at = "write"]
  <2>1. calls' = [calls EXCEPT ![c] = q] BY <1>5
  <2>2. /\ q \in Request /\ q.kind = r.kind /\ q.at = "write" /\ q.batch = r.batch /\ q.k = 1 /\ q.failed = {}
        /\ q.found = found /\ q.done = {} /\ q.shared = r.shared /\ q.status = r.status
    <3>1. found \in SUBSET ItemIds BY <1>2
    <3>2. r.k = 1 /\ r.failed = {} /\ r.done = {} BY <1>1, <1>2 DEF Stands
    <3> QED BY <1>2, <3>1, <3>2 DEF Request
  <2> HIDE DEF q
  <2>3. Stands(q)
    <3>1. q.k \in 1 .. Len(q.batch)
      <4>1. DOMAIN r.batch = 1 .. Len(r.batch) /\ Len(r.batch) \in Nat BY <1>1, AtBusy
      <4>2. PICK j \in DOMAIN r.batch : TRUE BY <1>5 DEF ToSet
      <4> QED BY <2>2, <4>1, <4>2
    <3> QED BY <1>1, <1>2, <2>2, <3>1 DEF Stands
  <2>4. ASSUME NEW i \in ToSet(q.batch) PROVE Believes(q, i, stock[i])
    <3>1. ~Passed(q, i) BY <1>1, <2>2, AtBusy DEF Passed
    <3> QED BY <1>1, <1>3, <2>2, <3>1 DEF Believes
  <2>5. MovesTo(c, q) BY <1>1, <1>2, <1>5, <2>1, <2>2, <2>3, <2>4, StaysMoves
  <2> QED BY <1>1, <2>5 DEF Goes
<1>6. CASE Answer(c, <<>>) BY <1>1, <1>2, <1>6, FailsEnds DEF Goes
<1> QED BY <1>1, <1>4, <1>5, <1>6

LEMMA UpdateGoes ==
  ASSUME Inv, NEW c \in Clients, UpdateItem(c)
  PROVE  Goes(c) /\ InStock' = InStock
<1>0. PICK r, i, done : r = calls[c] /\ i = (CHOOSE j \in r.found \ r.done : TRUE) /\ done = r.done \cup {i} OBVIOUS
<1>1. /\ r.kind = "update" /\ r.at = "write" /\ r.done # r.found
      /\ \/ /\ told' = told /\ stock' = IF i \in InStock THEN [stock EXCEPT ![i] = r.status] ELSE stock
            /\ calls' = [calls EXCEPT ![c].done = @ \cup {i}]
         \/ Answer(c, <<>>) /\ stock' = stock
  BY <1>0 DEF UpdateItem, At, Fails
<1>2. c \in Busy /\ r \in Request /\ Stands(r) /\ ToSet(r.batch) \subseteq ItemIds BY <1>0, <1>1, AtBusy
<1>3. /\ r.done \subseteq r.found /\ r.found \subseteq ToSet(r.batch) /\ r.status \in Statuses
  BY <1>1, <1>2 DEF Stands
<1>4. i \in r.found /\ i \in ToSet(r.batch) /\ i \in ItemIds BY <1>0, <1>1, <1>2, <1>3
<1>5. stock \in [ItemIds -> Statuses \cup {NoItem}] BY DEF Inv, TypeInv
<1>6. CASE /\ told' = told /\ stock' = IF i \in InStock THEN [stock EXCEPT ![i] = r.status] ELSE stock
           /\ calls' = [calls EXCEPT ![c].done = @ \cup {i}]
  <2>0. PICK q : q = Put(r, r.k, r.at, r.failed, done) OBVIOUS
  <2>1. calls' = [calls EXCEPT ![c] = q]
    <3>1. [r EXCEPT !.done = done] = Put(r, r.k, r.at, r.failed, done) BY <1>2 DEF Request, Put
    <3>2. calls' = [calls EXCEPT ![c] = [r EXCEPT !.done = done]] BY <1>0, <1>6
    <3> QED BY <2>0, <3>1, <3>2, Zenon
  <2>2. /\ q \in Request /\ q.kind = "update" /\ q.at = "write" /\ q.batch = r.batch /\ q.k = r.k /\ q.failed = r.failed
        /\ q.found = r.found /\ q.done = done /\ q.shared = r.shared /\ q.status = r.status
    <3>1. done \in SUBSET ItemIds BY <1>0, <1>2, <1>3, <1>4
    <3>2. r.k \in Nat /\ r.failed \in SUBSET ItemIds BY <1>2 DEF Request
    <3> QED BY <1>1, <1>2, <2>0, <3>1, <3>2, PutFacts
  <2>3. Stands(q) BY <1>0, <1>1, <1>2, <1>3, <1>4, <2>2 DEF Stands
  <2>4. /\ stock' \in [ItemIds -> Statuses \cup {NoItem}]
        /\ \A j \in ItemIds : stock'[j] = IF j = i /\ stock[j] # NoItem THEN r.status ELSE stock[j]
    BY <1>3, <1>4, <1>5, <1>6 DEF InStock
  <2>5. InStock' = InStock BY <1>3, <2>4 DEF InStock, Statuses, NoItem
  <2>6. ASSUME NEW j \in ToSet(q.batch) \ q.shared PROVE Believes(q, j, stock'[j])
    <3>1. Believes(r, j, stock[j]) BY <1>0, <1>2, <2>2 DEF Inv, BeliefInv
    <3>2. (j \in r.found <=> stock[j] # NoItem) /\ (j \in r.done => stock[j] = r.status)
      BY <1>1, <3>1 DEF Believes
    <3>3. (j \in r.found <=> stock'[j] # NoItem) /\ (j \in done => stock'[j] = r.status)
      <4>1. j \in ItemIds /\ r.status # NoItem BY <1>2, <1>3, <2>2 DEF Statuses, NoItem
      <4>2. stock'[j] = IF j = i /\ stock[j] # NoItem THEN r.status ELSE stock[j] BY <2>4, <4>1
      <4>3. CASE j = i BY <1>0, <1>4, <3>2, <4>1, <4>2, <4>3
      <4>4. CASE j # i
        <5>1. stock'[j] = stock[j] /\ (j \in done => j \in r.done) BY <1>0, <4>2, <4>4
        <5> QED BY <3>2, <5>1
      <4> QED BY <4>3, <4>4
    <3> QED BY <2>2, <3>3 DEF Believes
  <2>7. MovesTo(c, q) BY <1>0, <1>2, <1>4, <1>6, <1>1, <2>1, <2>2, <2>3, <2>4, <2>6 DEF MovesTo
  <2> QED BY <2>5, <2>7 DEF Goes
<1>7. CASE Answer(c, <<>>) /\ stock' = stock BY <1>2, <1>7, FailsEnds DEF Goes, InStock
<1> QED BY <1>1, <1>6, <1>7

LEMMA BillUpdatedGoes ==
  ASSUME Inv, NEW c \in Clients, BillUpdated(c)
  PROVE  Goes(c) /\ stock' = stock
<1> PICK r, said :
      /\ r = calls[c]
      /\ said = Both(Saying(r.done, {r.status}), Saying(ToSet(r.batch) \ r.found, {NoItem}))
  OBVIOUS
<1>1. r.kind = "update" /\ r.at = "write" /\ r.done = r.found /\ Bill(c, r.done, said) BY DEF BillUpdated, At
<1>2. c \in Busy /\ r \in Request /\ Stands(r) BY <1>1, AtBusy
<1>3. /\ DOMAIN said = r.found \cup (ToSet(r.batch) \ r.found)
      /\ \A i \in DOMAIN said : said[i] = IF i \in r.found THEN {r.status} ELSE {NoItem}
  BY <1>1 DEF Both, Saying
<1>4. DOMAIN said \subseteq ToSet(calls[c].batch) BY <1>1, <1>2, <1>3 DEF Stands
<1>5. ASSUME NEW i \in DOMAIN said \ calls[c].shared PROVE stock[i] \in said[i]
  <2>1. Believes(r, i, stock[i]) BY <1>2, <1>4 DEF Inv, BeliefInv
  <2>2. (i \in r.found <=> stock[i] # NoItem) /\ (i \in r.done => stock[i] = r.status)
    BY <1>1, <2>1 DEF Believes
  <2> QED BY <1>1, <1>3, <2>2
<1> QED BY <1>1, <1>2, <1>4, <1>5, BillGoes

LEMMA DeleteGoes ==
  ASSUME Inv, NEW c \in Clients, DeleteItem(c)
  PROVE  Goes(c)
<1>0. PICK r, i, at : /\ r = calls[c] /\ i = r.batch[r.k]
                      /\ at = IF r.k < Len(r.batch) THEN "write" ELSE "prune"
  OBVIOUS
<1>1. /\ r.kind = "delete" /\ r.at = "write"
      /\ \/ /\ told' = told /\ stock' = [stock EXCEPT ![i] = NoItem]
            /\ calls' = [calls EXCEPT ![c].k = @ + 1, ![c].at = at]
         \/ Answer(c, <<>>) /\ stock' = stock
  BY <1>0 DEF DeleteItem, At, Fails
<1>2. c \in Busy /\ r \in Request /\ Stands(r) BY <1>0, <1>1, AtBusy
<1>3. /\ r.k \in 1 .. Len(r.batch) /\ i \in ToSet(r.batch) /\ i \in ItemIds /\ DOMAIN r.batch = 1 .. Len(r.batch)
      /\ Len(r.batch) \in Nat /\ ToSet(r.batch) \subseteq ItemIds
  BY <1>0, <1>1, <1>2, AtBusy DEF Stands
<1>4. stock \in [ItemIds -> Statuses \cup {NoItem}] BY DEF Inv, TypeInv
<1>5. CASE Answer(c, <<>>) /\ stock' = stock BY <1>2, <1>5, FailsEnds DEF Goes
<1>6. CASE /\ told' = told /\ stock' = [stock EXCEPT ![i] = NoItem]
           /\ calls' = [calls EXCEPT ![c].k = @ + 1, ![c].at = at]
  <2>0. PICK k, q : k = r.k + 1 /\ q = Put(r, k, at, r.failed, r.done) OBVIOUS
  <2>1. calls' = [calls EXCEPT ![c] = q]
    <3>1. [r EXCEPT !.k = k, !.at = at] = Put(r, k, at, r.failed, r.done) BY <1>2, PutExcept, Zenon
    <3>2. calls' = [calls EXCEPT ![c] = [r EXCEPT !.k = k, !.at = at]] BY <1>0, <1>6, <2>0
    <3> QED BY <2>0, <3>1, <3>2, Zenon
  <2>2. /\ q \in Request /\ q.kind = "delete" /\ q.at = at /\ q.batch = r.batch /\ q.k = r.k + 1 /\ q.failed = r.failed
        /\ q.found = r.found /\ q.done = r.done /\ q.shared = r.shared
    <3>1. k \in Nat /\ at \in {"write", "prune"} BY <1>0, <1>3, <2>0
    <3>2. r.failed \in SUBSET ItemIds /\ r.done \in SUBSET ItemIds BY <1>2 DEF Request
    <3> QED BY <1>1, <1>2, <2>0, <3>1, <3>2, PutFacts
  <2>3. Stands(q)
    <3>1. q.at = "write" => q.k \in 1 .. Len(r.batch) BY <1>0, <1>3, <2>2
    <3>2. q.at = "prune" => q.k = Len(r.batch) + 1 BY <1>0, <1>3, <2>2
    <3>3. q.at \in {"write", "prune"} BY <1>0, <2>2
    <3> QED BY <1>1, <1>2, <2>2, <3>1, <3>2, <3>3 DEF Stands
  <2>4. /\ stock' \in [ItemIds -> Statuses \cup {NoItem}]
        /\ \A j \in ItemIds : stock'[j] = IF j = i THEN NoItem ELSE stock[j]
    BY <1>3, <1>4, <1>6
  <2>5. ASSUME NEW j \in ToSet(q.batch) \ q.shared PROVE Believes(q, j, stock'[j])
    <3>1. Believes(r, j, stock[j]) BY <1>0, <1>2, <2>2 DEF Inv, BeliefInv
    <3>2. Passed(q, j) <=> Passed(r, j) \/ j = i
      <4>1. r.k \in DOMAIN r.batch /\ DOMAIN r.batch \subseteq Nat /\ r.k \in Nat BY <1>3
      <4>2. q.batch = r.batch /\ q.k = r.k + 1 /\ i = r.batch[r.k] BY <1>0, <2>2
      <4> QED BY <4>1, <4>2, PassedNext
    <3>3. j \in ItemIds BY <1>3, <2>2
    <3> QED BY <1>1, <2>2, <2>4, <3>1, <3>2, <3>3 DEF Believes
  <2>6. MovesTo(c, q) BY <1>0, <1>1, <1>2, <1>3, <1>6, <2>1, <2>2, <2>3, <2>4, <2>5 DEF MovesTo
  <2> QED BY <2>6 DEF Goes
<1> QED BY <1>1, <1>5, <1>6

LEMMA PruneGoes ==
  ASSUME Inv, NEW c \in Clients, PruneStopList(c)
  PROVE  Goes(c) /\ stock' = stock
<1>0. PICK r, said : r = calls[c] /\ said = Saying(ToSet(r.batch), {NoItem}) OBVIOUS
<1>1. /\ r.kind = "delete" /\ r.at = "prune" /\ stock' = stock /\ (Answer(c, said) \/ Answer(c, <<>>))
  BY <1>0 DEF PruneStopList, At, Fails
<1>2. c \in Busy /\ r \in Request /\ Stands(r) BY <1>0, <1>1, AtBusy
<1>3. CASE Answer(c, said)
  <2>1. DOMAIN said = ToSet(r.batch) /\ \A i \in DOMAIN said : said[i] = {NoItem} BY <1>0 DEF Saying
  <2>2. ASSUME NEW i \in ToSet(r.batch) \ r.shared PROVE stock[i] = NoItem
    <3>1. Passed(r, i)
      <4>1. PICK j \in 1 .. Len(r.batch) : r.batch[j] = i BY <1>0, <1>1, AtBusy DEF ToSet
      <4>2. r.k = Len(r.batch) + 1 BY <1>1, <1>2 DEF Stands
      <4> QED BY <1>0, <1>1, <4>1, <4>2, AtBusy DEF Passed
    <3>2. Believes(r, i, stock[i]) BY <1>0, <1>2 DEF Inv, BeliefInv
    <3> QED BY <1>1, <3>1, <3>2 DEF Believes
  <2>3. EndsWith(c, said) BY <1>0, <1>1, <1>2, <1>3, <2>1, <2>2 DEF Answer, EndCall, EndsWith
  <2> QED BY <1>1, <2>3 DEF Goes
<1>4. CASE Answer(c, <<>>) BY <1>1, <1>2, <1>4, FailsEnds DEF Goes
<1> QED BY <1>1, <1>3, <1>4

LEMMA FetchGoes ==
  ASSUME Inv, NEW c \in Clients, FetchItems(c)
  PROVE  Goes(c) /\ stock' = stock
<1>0. PICK r : r = calls[c] OBVIOUS
<1>1. /\ r.kind = "configure" /\ r.at = "fetch" /\ stock' = stock
      /\ \/ told' = told /\ calls' = [calls EXCEPT ![c].found = InStock, ![c].at = "set"]
         \/ Answer(c, <<>>)
  BY <1>0 DEF FetchItems, At, Fails
<1>2. c \in Busy /\ r \in Request /\ Stands(r) BY <1>0, <1>1, AtBusy
<1>3. CASE told' = told /\ calls' = [calls EXCEPT ![c].found = InStock, ![c].at = "set"]
  <2>0. PICK q : q = [r EXCEPT !.found = InStock, !.at = "set"] OBVIOUS
  <2>1. calls' = [calls EXCEPT ![c] = q] BY <1>0, <1>3, <2>0
  <2>2. /\ q \in Request /\ q.kind = r.kind /\ q.at = "set" /\ q.batch = r.batch /\ q.failed = r.failed
        /\ q.found = InStock /\ q.done = r.done /\ q.shared = r.shared
    <3>1. InStock \in SUBSET ItemIds BY DEF InStock
    <3> QED BY <1>2, <2>0, <3>1 DEF Request
  <2>3. Stands(q) BY <1>1, <1>2, <2>2 DEF Stands
  <2>4. \A i : Believes(q, i, stock[i]) BY <1>1, <2>2 DEF Believes
  <2>5. MovesTo(c, q) BY <1>0, <1>1, <1>2, <1>3, <2>1, <2>2, <2>3, <2>4, StaysMoves
  <2> QED BY <1>1, <2>5 DEF Goes
<1>4. CASE Answer(c, <<>>) BY <1>1, <1>2, <1>4, FailsEnds DEF Goes
<1> QED BY <1>1, <1>3, <1>4

LEMMA SetGoes ==
  ASSUME Inv, NEW c \in Clients, SetAlgorithmConfigs(c)
  PROVE  Goes(c) /\ stock' = stock
<1>1. calls[c].kind = "configure" /\ stock' = stock /\ Answer(c, <<>>) BY DEF SetAlgorithmConfigs, At, Fails
<1>2. c \in Busy BY <1>1, AtBusy
<1> QED BY <1>1, <1>2, FailsEnds DEF Goes

LEMMA CallGoes ==
  ASSUME Inv, NEW c \in Clients, Call(c)
  PROVE  Goes(c)
BY CountGoes, InsertGoes, BillCreatedGoes, FindGoes, UpdateGoes, BillUpdatedGoes, DeleteGoes, PruneGoes,
   FetchGoes, SetGoes DEF Call

LEMMA GoesKeep ==
  ASSUME Inv, NEW c \in Clients, Goes(c)
  PROVE  /\ StandInv' /\ SharedInv' /\ BeliefInv' /\ ToldInv'
         /\ stock' \in [ItemIds -> Statuses \cup {NoItem}] /\ calls' \in [Clients -> Request \cup {Quiet}]
         /\ told' = [i \in DOMAIN told' |-> told'[i]] /\ DOMAIN told' \in SUBSET ItemIds
<1>1. /\ stock \in [ItemIds -> Statuses \cup {NoItem}] /\ calls \in [Clients -> Request \cup {Quiet}]
      /\ told = [i \in DOMAIN told |-> told[i]] /\ DOMAIN told \in SUBSET ItemIds
  BY DEF Inv, TypeInv
<1>2. ASSUME NEW r, MovesTo(c, r) PROVE calls' \in [Clients -> Request \cup {Quiet}] BY <1>1, <1>2 DEF MovesTo
<1>3. ASSUME NEW said, EndsWith(c, said) PROVE calls' \in [Clients -> Request \cup {Quiet}]
  BY <1>1, <1>3 DEF EndsWith
<1>4. ASSUME NEW r, MovesTo(c, r)
      PROVE  /\ stock' \in [ItemIds -> Statuses \cup {NoItem}]
             /\ told' = [i \in DOMAIN told' |-> told'[i]] /\ DOMAIN told' \in SUBSET ItemIds
  BY <1>1, <1>4 DEF MovesTo
<1>5. ASSUME NEW said, EndsWith(c, said) PROVE stock' \in [ItemIds -> Statuses \cup {NoItem}]
  BY <1>1, <1>5 DEF EndsWith
<1>6. ASSUME NEW r, MovesTo(c, r) PROVE StandInv' /\ SharedInv' /\ BeliefInv' /\ ToldInv' BY <1>6, MovesKeep
<1>7. ASSUME NEW said, EndsWith(c, said)
      PROVE  /\ StandInv' /\ SharedInv' /\ BeliefInv' /\ ToldInv'
             /\ told' = [i \in DOMAIN told' |-> told'[i]] /\ DOMAIN told' \in SUBSET ItemIds
  BY <1>7, EndsKeep
<1> QED BY <1>2, <1>3, <1>4, <1>5, <1>6, <1>7 DEF Goes

\* The other requests stay as they are.
LEMMA GoesAlone ==
  ASSUME Inv, NEW c \in Clients, Goes(c)
  PROVE  /\ \A d \in Clients : d # c => calls'[d] = calls[d]
         /\ calls'[c].kind = calls[c].kind \/ calls'[c] = Quiet
<1>1. calls \in [Clients -> Request \cup {Quiet}] BY DEF Inv, TypeInv
<1>2. ASSUME NEW r, MovesTo(c, r)
      PROVE  (\A d \in Clients : d # c => calls'[d] = calls[d]) /\ calls'[c].kind = calls[c].kind
  BY <1>1, <1>2 DEF MovesTo
<1>3. ASSUME NEW said, EndsWith(c, said)
      PROVE  (\A d \in Clients : d # c => calls'[d] = calls[d]) /\ calls'[c] = Quiet
  BY <1>1, <1>3 DEF EndsWith
<1> QED BY <1>2, <1>3 DEF Goes

LEMMA CallTypes ==
  ASSUME Inv, NEW c \in Clients, Call(c)
  PROVE  TypeInv' /\ crowded' = crowded
<1>1. /\ stopList \in SUBSET ItemIds /\ tokenList \in SUBSET ItemIds /\ lists \in Seq(SUBSET ItemIds)
      /\ spoiled \in BOOLEAN /\ crowded \in BOOLEAN
  BY DEF Inv, TypeInv
<1>2. ASSUME UNCHANGED <<listVars, spoiled, crowded>> PROVE TypeInv' /\ crowded' = crowded
  BY <1>1, <1>2, CallGoes, GoesKeep DEF TypeInv, listVars
<1>3. ASSUME UNCHANGED <<listVars, crowded>>, spoiled' \in BOOLEAN PROVE TypeInv' /\ crowded' = crowded
  BY <1>1, <1>3, CallGoes, GoesKeep DEF TypeInv, listVars
<1>4. ASSUME NEW l \in SUBSET ItemIds, PublishList(l), UNCHANGED crowded, spoiled' \in BOOLEAN
      PROVE  TypeInv' /\ crowded' = crowded
  <2>1. lists' \in Seq(SUBSET ItemIds) BY <1>1, <1>4 DEF PublishList
  <2> QED BY <1>1, <1>4, <2>1, CallGoes, GoesKeep DEF TypeInv, PublishList
<1>5. CASE CountItems(c) BY <1>2, <1>5 DEF CountItems, Answer, Fails
<1>6. CASE InsertItem(c) BY <1>2, <1>6 DEF InsertItem, Answer, Fails
<1>7. CASE BillCreated(c) BY <1>2, <1>7 DEF BillCreated, Bill, Answer, Fails
<1>8. CASE FindItems(c) BY <1>2, <1>8 DEF FindItems, Answer, Fails
<1>9. CASE UpdateItem(c) BY <1>2, <1>9 DEF UpdateItem, Answer, Fails
<1>10. CASE BillUpdated(c) BY <1>2, <1>10 DEF BillUpdated, Bill, Answer, Fails
<1>11. CASE DeleteItem(c) BY <1>1, <1>3, <1>11 DEF DeleteItem, Answer, Fails
<1>12. CASE PruneStopList(c)
  <2>1. calls[c] \in Request BY <1>12, AtBusy DEF PruneStopList, At
  <2>2. Prune(calls[c].list, calls[c].found) \in SUBSET ItemIds BY <2>1 DEF Prune, Request
  <2>3. \/ PublishList(Prune(calls[c].list, calls[c].found)) /\ spoiled' \in BOOLEAN
        \/ UNCHANGED listVars /\ spoiled' \in BOOLEAN
    BY <1>1, <1>12 DEF PruneStopList
  <2>4. crowded' = crowded BY <1>12 DEF PruneStopList, Answer, Fails
  <2> QED BY <1>3, <1>4, <2>2, <2>3, <2>4
<1>13. CASE FetchItems(c) BY <1>2, <1>13 DEF FetchItems, Answer, Fails
<1>14. CASE SetAlgorithmConfigs(c)
  <2>1. calls[c] \in Request BY <1>14, AtBusy DEF SetAlgorithmConfigs, At
  <2>2. ToSet(calls[c].batch) \cap calls[c].found \in SUBSET ItemIds BY <2>1 DEF Request
  <2>3. \/ PublishList(ToSet(calls[c].batch) \cap calls[c].found) /\ spoiled' \in BOOLEAN
        \/ UNCHANGED listVars /\ spoiled' \in BOOLEAN
    BY <1>1, <1>14 DEF SetAlgorithmConfigs
  <2>4. crowded' = crowded BY <1>14 DEF SetAlgorithmConfigs, Answer, Fails
  <2> QED BY <1>3, <1>4, <2>2, <2>3, <2>4
<1> QED BY <1>5, <1>6, <1>7, <1>8, <1>9, <1>10, <1>11, <1>12, <1>13, <1>14 DEF Call
-------------------------------------------------------------------------------
(* A request arrives; the account's items go. *)

\* What a caller may ask, and where the request starts.
Asked(kind, at, status) ==
  \/ kind = "create" /\ at = "count" /\ status = "active"
  \/ kind = "update" /\ at = "find" /\ status \in Statuses
  \/ kind = "delete" /\ at = "find" /\ status = NoItem
  \/ kind = "configure" /\ at = "fetch" /\ status = NoItem

LEMMA BeginKeeps ==
  ASSUME Inv, NEW c \in Clients, NEW kind, NEW at, NEW batch \in Seq(ItemIds), NEW status,
         Asked(kind, at, status), BeginCall(c, kind, at, batch, status)
  PROVE  TypeInv' /\ StandInv' /\ SharedInv' /\ BeliefInv' /\ ToldInv'
<1>0. PICK q : q = [kind |-> kind, at |-> at, batch |-> batch, status |-> status, k |-> 1,
                    failed |-> {}, done |-> {}, found |-> {}, list |-> tokenList,
                    shared |-> UNION {ToSet(calls[e].batch) : e \in Busy}]
  OBVIOUS
<1>1. /\ calls[c] = Quiet /\ stock' = stock
      /\ calls' = [d \in Clients |-> IF d = c THEN q
                                     ELSE IF d \in Busy THEN [calls[d] EXCEPT !.shared = @ \cup ToSet(batch)]
                                     ELSE Quiet]
      /\ told' = [i \in DOMAIN told \ ToSet(batch) |-> told[i]]
      /\ crowded' = (crowded \/ (kind = "create" /\ CallsOf("create") # {}))
      /\ UNCHANGED <<stopList, lists, tokenList, spoiled>>
  BY <1>0 DEF BeginCall, listVars
<1>2. TypeInv BY DEF Inv
<1>3. \A d \in Busy : d \in Clients /\ d # c /\ calls[d] \in Request BY <1>1, <1>2, BusyCall DEF Busy
<1>4. ToSet(batch) \subseteq ItemIds BY BatchItems
<1>5. /\ q \in Request /\ q.batch = batch /\ q.k = 1 /\ q.kind = kind /\ q.at = at /\ q.status = status
      /\ q.failed = {} /\ q.done = {} /\ q.found = {} /\ q.shared = UNION {ToSet(calls[e].batch) : e \in Busy}
  <2>1. UNION {ToSet(calls[e].batch) : e \in Busy} \subseteq ItemIds
    <3>1. \A d \in Busy : ToSet(calls[d].batch) \subseteq ItemIds BY <1>3, BatchItems DEF Request
    <3> QED BY <3>1
  <2>2. tokenList \in SUBSET ItemIds BY <1>2 DEF TypeInv
  <2>3. /\ kind \in {"create", "update", "delete", "configure"} /\ at \in {"count", "find", "fetch"}
        /\ status \in Statuses \cup {NoItem}
    BY DEF Asked, Statuses
  <2> PICK all : all = UNION {ToSet(calls[e].batch) : e \in Busy} OBVIOUS
  <2> QED BY <1>0, <2>1, <2>2, <2>3 DEF Request
<1> DEFINE g(d) == [calls[d] EXCEPT !.shared = @ \cup ToSet(batch)]
<1>6. ASSUME NEW d \in Busy
      PROVE  /\ g(d) \in Request /\ g(d).kind = calls[d].kind /\ g(d).at = calls[d].at
             /\ g(d).batch = calls[d].batch /\ g(d).k = calls[d].k /\ g(d).status = calls[d].status
             /\ g(d).failed = calls[d].failed /\ g(d).done = calls[d].done /\ g(d).found = calls[d].found
             /\ g(d).shared = calls[d].shared \cup ToSet(batch)
  BY <1>3, <1>4 DEF Request
<1>7. /\ calls'[c] = q /\ \A d \in Busy : calls'[d] = g(d)
      /\ \A d \in Clients : d # c /\ d \notin Busy => calls'[d] = Quiet
  BY <1>1, <1>3
<1> HIDE DEF g
<1>8. Busy' = Busy \cup {c}
  <2>1. \A r \in Request : r # Quiet BY DEF Request, Quiet
  <2> QED BY <1>3, <1>5, <1>6, <1>7, <2>1 DEF Busy
<1>9. TypeInv'
  <2>1. calls' \in [Clients -> Request \cup {Quiet}]
    <3>1. \A d \in Clients : calls'[d] \in Request \cup {Quiet} BY <1>5, <1>6, <1>7
    <3>2. DOMAIN calls' = Clients /\ calls' = [d \in Clients |-> calls'[d]] BY <1>1
    <3> QED BY <3>1, <3>2
  <2>2. told' = [i \in DOMAIN told' |-> told'[i]] /\ DOMAIN told' \in SUBSET ItemIds BY <1>1, <1>2 DEF TypeInv
  <2>3. crowded' \in BOOLEAN BY <1>1, <1>2 DEF TypeInv
  <2> QED BY <1>1, <1>2, <2>1, <2>2, <2>3 DEF TypeInv
<1>10. StandInv'
  <2>1. Stands(q) BY <1>5 DEF Asked, Stands
  <2>2. ASSUME NEW d \in Busy PROVE Stands(g(d)) BY <1>6 DEF Inv, StandInv, Stands
  <2> QED BY <1>7, <1>8, <2>1, <2>2 DEF StandInv
<1>11. SharedInv'
  <2> SUFFICES ASSUME NEW d \in Busy', NEW e \in Busy', d # e
               PROVE  ToSet(calls'[e].batch) \subseteq calls'[d].shared
    BY DEF SharedInv
  <2>1. CASE d = c BY <1>5, <1>6, <1>7, <1>8, <2>1
  <2>2. CASE e = c BY <1>5, <1>6, <1>7, <1>8, <2>2
  <2>3. CASE d # c /\ e # c BY <1>6, <1>7, <1>8, <2>3 DEF Inv, SharedInv
  <2> QED BY <2>1, <2>2, <2>3
<1>12. BeliefInv'
  <2>1. \A i : Believes(q, i, stock[i])
    <3>1. \A i : ~Passed(q, i)
      <4>1. \A j \in DOMAIN batch : ~(j < 1) OBVIOUS
      <4> QED BY <1>5, <4>1 DEF Passed
    <3> QED BY <1>5, <3>1 DEF Believes, Asked
  <2>2. ASSUME NEW d \in Busy, NEW i \in ToSet(g(d).batch) \ g(d).shared PROVE Believes(g(d), i, stock[i])
    <3>1. Believes(calls[d], i, stock[i]) BY <1>6 DEF Inv, BeliefInv
    <3>2. Passed(g(d), i) <=> Passed(calls[d], i) BY <1>6 DEF Passed
    <3> QED BY <1>6, <3>1, <3>2 DEF Believes
  <2> SUFFICES ASSUME NEW d \in Busy', NEW i \in ToSet(calls'[d].batch) \ calls'[d].shared
               PROVE  Believes(calls'[d], i, stock'[i])
    BY DEF BeliefInv
  <2>3. CASE d = c BY <1>1, <1>7, <2>1, <2>3
  <2>4. CASE d # c
    <3>1. d \in Busy /\ calls'[d] = g(d) BY <1>7, <1>8, <2>4
    <3> QED BY <1>1, <2>2, <3>1
  <2> QED BY <2>3, <2>4
<1>13. ToldInv'
  <2>1. \A i \in DOMAIN told' : i \in DOMAIN told /\ i \notin ToSet(batch) /\ told'[i] = told[i] BY <1>1
  <2>2. \A d \in Busy' : calls'[d].batch = batch \/ (d \in Busy /\ calls'[d].batch = calls[d].batch)
    BY <1>5, <1>6, <1>7, <1>8
  <2> QED BY <1>1, <2>1, <2>2 DEF Inv, ToldInv
<1> QED BY <1>9, <1>10, <1>11, <1>12, <1>13

LEMMA AskedKeeps ==
  ASSUME Inv, ItemsAsked
  PROVE  \E c \in Clients, batch \in Seq(ItemIds) : \E kind, at, status :
           Asked(kind, at, status) /\ BeginCall(c, kind, at, batch, status)
BY DEF ItemsAsked, AskCreate, AskUpdate, AskDelete, AskConfigure, Asked, Statuses

\* The deletion of an account's items has its effect, or none.
ItemsGone ==
  /\ stock' = [i \in ItemIds |-> NoItem] /\ spoiled' = TRUE /\ told' = <<>>
  /\ calls' = [c \in Clients |-> IF c \in Busy THEN [calls[c] EXCEPT !.shared = ItemIds] ELSE Quiet]
  /\ UNCHANGED <<stopList, lists, tokenList, crowded>>
LEMMA AccountItems ==
  ASSUME DeleteAccountItems
  PROVE  ItemsGone \/ UNCHANGED <<stock, spoiled, told, calls, stopList, lists, tokenList, crowded>>
BY DEF DeleteAccountItems, ItemsGone, listVars

LEMMA BatchesStay ==
  ASSUME Inv, ItemsGone
  PROVE  TypeInv' /\ StandInv' /\ SharedInv' /\ BeliefInv' /\ ToldInv'
<1>1. /\ stock' = [i \in ItemIds |-> NoItem] /\ told' = <<>> /\ spoiled' = TRUE
      /\ calls' = [c \in Clients |-> IF c \in Busy THEN [calls[c] EXCEPT !.shared = ItemIds] ELSE Quiet]
      /\ UNCHANGED <<stopList, lists, tokenList, crowded>>
  BY DEF ItemsGone
<1>2. TypeInv BY DEF Inv
<1> DEFINE g(d) == [calls[d] EXCEPT !.shared = ItemIds]
<1>3. ASSUME NEW d \in Busy
      PROVE  /\ d \in Clients /\ g(d) \in Request /\ g(d).kind = calls[d].kind /\ g(d).at = calls[d].at
             /\ g(d).batch = calls[d].batch /\ g(d).k = calls[d].k /\ g(d).status = calls[d].status
             /\ g(d).failed = calls[d].failed /\ g(d).done = calls[d].done /\ g(d).found = calls[d].found
             /\ g(d).shared = ItemIds /\ ToSet(calls[d].batch) \subseteq ItemIds
  <2>1. d \in Clients /\ calls[d] \in Request BY <1>2, BusyCall DEF Busy
  <2>2. ToSet(calls[d].batch) \subseteq ItemIds BY <2>1, BatchItems DEF Request
  <2> QED BY <2>1, <2>2 DEF Request
<1>4. (\A d \in Busy : calls'[d] = g(d)) /\ \A d \in Clients : d \notin Busy => calls'[d] = Quiet BY <1>1, <1>3
<1> HIDE DEF g
<1>5. Busy' = Busy
  <2>1. \A r \in Request : r # Quiet BY DEF Request, Quiet
  <2> QED BY <1>3, <1>4, <2>1 DEF Busy
<1>6. TypeInv'
  <2>1. calls' \in [Clients -> Request \cup {Quiet}]
    <3>1. \A d \in Clients : calls'[d] \in Request \cup {Quiet} BY <1>3, <1>4
    <3>2. DOMAIN calls' = Clients /\ calls' = [d \in Clients |-> calls'[d]] BY <1>1
    <3> QED BY <3>1, <3>2
  <2>2. DOMAIN told' = {} /\ told' = [i \in DOMAIN told' |-> told'[i]] BY <1>1
  <2> QED BY <1>1, <1>2, <2>1, <2>2 DEF TypeInv
<1>7. StandInv' BY <1>3, <1>4, <1>5 DEF Inv, StandInv, Stands
<1>8. SharedInv' BY <1>3, <1>4, <1>5 DEF SharedInv
<1>9. BeliefInv' BY <1>3, <1>4, <1>5 DEF BeliefInv
<1>10. ToldInv'
  <2>1. DOMAIN told' = {} BY <1>1
  <2> QED BY <2>1 DEF ToldInv
<1> QED BY <1>6, <1>7, <1>8, <1>9, <1>10
-------------------------------------------------------------------------------
(* The limit. *)

\* Nothing is added and nobody starts to insert.
LEMMA LimitKept ==
  ASSUME Inv, InStock' \subseteq InStock, crowded' = crowded,
         \A d \in Clients : calls'[d].kind = "create" =>
           /\ calls[d].kind = "create"
           /\ calls'[d].at = "insert" => /\ calls[d].at = "insert" /\ calls'[d].k = calls[d].k
                                         /\ calls'[d].batch = calls[d].batch
  PROVE  LimitInv'
<1>1. IsFiniteSet(InStock) BY DEF Inv, LimitInv
<1>2. /\ IsFiniteSet(InStock') /\ Cardinality(InStock') <= Cardinality(InStock)
      /\ Cardinality(InStock) \in Nat /\ Cardinality(InStock') \in Nat
  BY <1>1, FS_Subset, FS_CardinalityType
<1>3. \A d \in CallsOf("create")' : d \in CallsOf("create") BY DEF CallsOf
<1>4. ASSUME ~crowded, NEW d \in Busy', calls'[d].kind = "create", calls'[d].at = "insert"
      PROVE  Cardinality(InStock') + (Len(calls'[d].batch) - calls'[d].k + 1) <= ItemLimit
  <2>1. d \in Clients /\ calls[d].kind = "create" /\ calls[d].at = "insert" BY <1>4 DEF Busy
  <2>2. Cardinality(InStock) + (Len(calls[d].batch) - calls[d].k + 1) <= ItemLimit
    BY <1>4, <2>1, AtBusy DEF Inv, LimitInv
  <2>3. calls[d].k \in Nat /\ Len(calls[d].batch) \in Nat BY <2>1, AtBusy DEF Request
  <2>4. calls'[d].k = calls[d].k /\ calls'[d].batch = calls[d].batch BY <1>4, <2>1
  <2> PICK n, k : n = Len(calls[d].batch) /\ k = calls[d].k OBVIOUS
  <2>5. Cardinality(InStock') + (n - k + 1) <= ItemLimit BY <1>2, <2>2, <2>3, ItemsAssumption
  <2> QED BY <2>4, <2>5
<1>5. ~crowded => Cardinality(InStock') <= ItemLimit BY <1>2, ItemsAssumption DEF Inv, LimitInv
<1>6. ~crowded => \A c, d \in CallsOf("create")' : c = d BY <1>3 DEF Inv, LimitInv
<1> QED BY <1>2, <1>4, <1>5, <1>6 DEF LimitInv

LEMMA CallLimit ==
  ASSUME Inv, NEW c \in Clients, Call(c)
  PROVE  LimitInv'
<1>1. Goes(c) /\ crowded' = crowded BY CallGoes, CallTypes
<1>2. /\ \A d \in Clients : d # c => calls'[d] = calls[d]
      /\ calls'[c].kind = calls[c].kind \/ calls'[c] = Quiet
  BY <1>1, GoesAlone
<1>3. Quiet.kind = "none" BY DEF Quiet
<1>4. ASSUME InStock' \subseteq InStock, calls'[c].kind = "create" => calls'[c].at # "insert" PROVE LimitInv'
  BY <1>1, <1>2, <1>3, <1>4, LimitKept
<1>5. ASSUME stock' = stock PROVE InStock' = InStock BY <1>5 DEF InStock
<1>6. CASE CountItems(c)
  <2>1. stock' = stock /\ calls[c].kind = "create" /\ calls[c].at = "count" BY <1>6 DEF CountItems, At
  <2>2. c \in Busy /\ calls[c] \in Request /\ Stands(calls[c]) BY <2>1, AtBusy
  <2>3. CASE calls' = [calls EXCEPT ![c] = Quiet] BY <1>3, <1>4, <1>5, <2>1, <2>2, <2>3 DEF Inv, TypeInv
  <2>4. CASE AssessItemLimit(Cardinality(InStock), Len(calls[c].batch))
             /\ Goto(c, IF calls[c].batch = <<>> THEN "bill" ELSE "insert")
    <3>1. /\ calls'[c].kind = "create" /\ calls'[c].k = calls[c].k /\ calls'[c].batch = calls[c].batch
      BY <2>1, <2>2, <2>4 DEF Inv, TypeInv, Goto, Request
    <3>2. calls[c].k = 1 /\ Len(calls[c].batch) \in Nat BY <2>1, <2>2, AtBusy DEF Stands
    <3>3. Cardinality(InStock) + (Len(calls'[c].batch) - calls'[c].k + 1) <= ItemLimit
      <4>1. Cardinality(InStock) \in Nat BY FS_CardinalityType DEF Inv, LimitInv
      <4> QED BY <2>4, <3>1, <3>2, <4>1, ItemsAssumption DEF AssessItemLimit
    <3>4. \A d \in CallsOf("create")' : d \in CallsOf("create") BY <1>2, <1>3 DEF CallsOf
    <3>5. \A d \in Busy' : d # c => d \in Busy /\ calls'[d] = calls[d] BY <1>2 DEF Busy
    <3>6. InStock' = InStock BY <1>5, <2>1
    <3> QED BY <1>1, <3>3, <3>4, <3>5, <3>6 DEF Inv, LimitInv
  <2> QED BY <1>6, <2>3, <2>4 DEF CountItems, Answer, EndCall, Fails
<1>7. CASE InsertItem(c)
  <2>0. PICK r, i, at : /\ r = calls[c] /\ i = r.batch[r.k]
                        /\ at = IF r.k < Len(r.batch) THEN "insert" ELSE "bill"
    OBVIOUS
  <2>1. /\ r.kind = "create" /\ r.at = "insert"
        /\ \/ /\ calls'[c].k = r.k + 1 /\ calls'[c].at = at /\ calls'[c].batch = r.batch
              /\ stock' = stock \/ stock' = [stock EXCEPT ![i] = "active"]
           \/ calls' = [calls EXCEPT ![c] = Quiet] /\ stock' = stock
    <3>1. r.kind = "create" /\ r.at = "insert" BY <1>7, <2>0 DEF InsertItem, At
    <3>2. r \in Request /\ calls \in [Clients -> Request \cup {Quiet}] BY <2>0, <3>1, AtBusy DEF Inv, TypeInv
    <3> QED BY <1>7, <2>0, <3>1, <3>2 DEF InsertItem, Answer, EndCall, Fails, Request
  <2>2. c \in Busy /\ r \in Request /\ Stands(r) BY <2>0, <2>1, AtBusy
  <2>3. CASE calls' = [calls EXCEPT ![c] = Quiet] /\ stock' = stock
    BY <1>3, <1>4, <1>5, <2>1, <2>2, <2>3 DEF Inv, TypeInv
  <2>4. CASE /\ calls'[c].k = r.k + 1 /\ calls'[c].at = at /\ calls'[c].batch = r.batch
             /\ stock' = stock \/ stock' = [stock EXCEPT ![i] = "active"]
    <3>1. r.k \in Nat /\ Len(r.batch) \in Nat /\ r.k <= Len(r.batch) BY <2>0, <2>1, <2>2, AtBusy DEF Stands
    <3>2. InStock' \subseteq InStock \cup {i} BY <2>4 DEF InStock, Inv, TypeInv
    <3>3. IsFiniteSet(InStock) BY DEF Inv, LimitInv
    <3>4. /\ IsFiniteSet(InStock') /\ Cardinality(InStock') <= Cardinality(InStock) + 1
          /\ Cardinality(InStock') \in Nat /\ Cardinality(InStock) \in Nat
      <4>1. /\ IsFiniteSet(InStock \cup {i}) /\ Cardinality(InStock \cup {i}) <= Cardinality(InStock) + 1
            /\ Cardinality(InStock \cup {i}) \in Nat /\ Cardinality(InStock) \in Nat
        BY <3>3, FS_AddElement, FS_CardinalityType, SMTT(30)
      <4> QED BY <3>2, <4>1, FS_Subset, FS_CardinalityType
    <3>5. \A d \in CallsOf("create")' : d \in CallsOf("create") BY <1>2, <1>3 DEF CallsOf
    <3>6. ASSUME ~crowded
          PROVE  /\ Cardinality(InStock) + (Len(r.batch) - r.k + 1) <= ItemLimit
                 /\ \A d \in CallsOf("create")' : d = c
      BY <2>0, <2>1, <2>2, <3>5, <3>6 DEF Inv, LimitInv, CallsOf, Busy
    <3>7. ASSUME ~crowded, NEW d \in Busy', calls'[d].kind = "create", calls'[d].at = "insert"
          PROVE  Cardinality(InStock') + (Len(calls'[d].batch) - calls'[d].k + 1) <= ItemLimit
      <4>1. d = c BY <3>6, <3>7 DEF CallsOf, Busy
      <4> PICK n, k : n = Len(r.batch) /\ k = r.k OBVIOUS
      <4>2. Cardinality(InStock') + (n - (k + 1) + 1) <= ItemLimit BY <3>1, <3>4, <3>6, <3>7, ItemsAssumption, SMTT(30)
      <4> QED BY <2>4, <4>1, <4>2
    <3>8. ~crowded => Cardinality(InStock') <= ItemLimit BY <3>1, <3>4, <3>6, ItemsAssumption
    <3> QED BY <1>1, <3>4, <3>6, <3>7, <3>8 DEF LimitInv
  <2> QED BY <2>1, <2>3, <2>4
<1>8. CASE BillCreated(c)
  <2>1. stock' = stock BY <1>8, BillCreatedGoes
  <2>2. calls[c].kind = "create" /\ calls' = [calls EXCEPT ![c] = Quiet]
    BY <1>8 DEF BillCreated, At, Bill, Answer, EndCall, Fails
  <2> QED BY <1>3, <1>4, <1>5, <2>1, <2>2 DEF Inv, TypeInv
<1>9. ASSUME calls[c].kind # "create", InStock' \subseteq InStock PROVE LimitInv'
  BY <1>2, <1>3, <1>4, <1>9
<1>10. CASE FindItems(c) BY <1>5, <1>9, <1>10, FindGoes DEF FindItems
<1>11. CASE UpdateItem(c) BY <1>9, <1>11, UpdateGoes DEF UpdateItem, At
<1>12. CASE BillUpdated(c) BY <1>5, <1>9, <1>12, BillUpdatedGoes DEF BillUpdated, At
<1>13. CASE DeleteItem(c)
  <2>1. \A i \in ItemIds : stock'[i] = stock[i] \/ stock'[i] = NoItem BY <1>13 DEF DeleteItem, Inv, TypeInv
  <2>2. InStock' \subseteq InStock BY <2>1 DEF InStock
  <2> QED BY <1>9, <1>13, <2>2 DEF DeleteItem, At
<1>14. CASE PruneStopList(c) BY <1>5, <1>9, <1>14, PruneGoes DEF PruneStopList, At
<1>15. CASE FetchItems(c) BY <1>5, <1>9, <1>15, FetchGoes DEF FetchItems, At
<1>16. CASE SetAlgorithmConfigs(c) BY <1>5, <1>9, <1>16, SetGoes DEF SetAlgorithmConfigs, At
<1> QED BY <1>6, <1>7, <1>8, <1>10, <1>11, <1>12, <1>13, <1>14, <1>15, <1>16 DEF Call
-------------------------------------------------------------------------------
(* The stop list. *)

\* No list is published, no item goes, and no deletion is forgotten.
LEMMA ListKept ==
  ASSUME Inv, UNCHANGED <<stopList, lists, spoiled>>, InStock \subseteq InStock',
         \A d \in Busy : \A i : Leaving(calls[d], i) => d \in Busy' /\ Leaving(calls'[d], i)
  PROVE  ListInv'
<1>1. NewestList' = NewestList BY DEF NewestList
<1> SUFFICES ASSUME ~spoiled, NEW i \in NewestList
             PROVE  i \in InStock' \/ \E d \in Busy' : Leaving(calls'[d], i)
  BY <1>1 DEF ListInv
<1>2. i \in InStock \/ \E d \in Busy : Leaving(calls[d], i) BY DEF Inv, ListInv
<1> QED BY <1>2

LEMMA LeavingIs ==
  ASSUME Inv, NEW c \in Clients, NEW i, Leaving(calls[c], i)
  PROVE  c \in Busy /\ calls[c].kind = "delete" /\ calls[c].at \in {"write", "prune"} /\ i \in calls[c].found
BY AtBusy DEF Leaving

LEMMA NewestIs ==
  ASSUME Inv, NEW l, PublishList(l)
  PROVE  NewestList' = l
<1>1. lists \in Seq(SUBSET ItemIds) /\ lists' = Append(lists, l) BY DEF Inv, TypeInv, PublishList
<1>2. Len(Append(lists, l)) = Len(lists) + 1 /\ Append(lists, l)[Len(lists) + 1] = l BY <1>1
<1>3. Append(lists, l) # <<>> BY <1>1
<1> QED BY <1>1, <1>2, <1>3 DEF NewestList

LEMMA SpoiledList == ASSUME spoiled' = TRUE PROVE ListInv' BY DEF ListInv

LEMMA CallList ==
  ASSUME Inv, NEW c \in Clients, Call(c)
  PROVE  ListInv'
<1>1. Goes(c) BY CallGoes
<1>2. \A d \in Clients : d # c => calls'[d] = calls[d] BY <1>1, GoesAlone
<1>3. \A d \in Busy : d # c => d \in Busy' BY <1>2 DEF Busy
<1>4. ASSUME UNCHANGED <<listVars, spoiled>>, InStock \subseteq InStock',
             calls[c].kind # "delete" \/ calls[c].at = "find"
      PROVE  ListInv'
  <2>1. \A i : ~Leaving(calls[c], i) BY <1>4 DEF Leaving
  <2>2. \A d \in Busy : \A i : Leaving(calls[d], i) => d \in Busy' /\ Leaving(calls'[d], i)
    BY <1>2, <1>3, <2>1 DEF Busy
  <2> QED BY <1>4, <2>2, ListKept DEF listVars
<1>5. ASSUME stock' = stock PROVE InStock' = InStock BY <1>5 DEF InStock
<1>6. CASE CountItems(c)
  <2>1. /\ stock' = stock /\ calls[c].kind = "create" /\ UNCHANGED <<listVars, spoiled>> BY <1>6 DEF CountItems, At
  <2> QED BY <1>4, <1>5, <2>1
<1>7. CASE InsertItem(c)
  <2>1. /\ calls[c].kind = "create" /\ UNCHANGED <<listVars, spoiled>>
        /\ stock' = stock \/ stock' = [stock EXCEPT ![calls[c].batch[calls[c].k]] = "active"]
    BY <1>7 DEF InsertItem, At, Fails
  <2>2. InStock \subseteq InStock' BY <2>1 DEF InStock, Inv, TypeInv, NoItem
  <2> QED BY <1>4, <2>1, <2>2
<1>8. CASE BillCreated(c)
  <2>1. calls[c].kind = "create" /\ UNCHANGED <<listVars, spoiled>> BY <1>8 DEF BillCreated, Bill, At
  <2> QED BY <1>4, <1>5, <1>8, <2>1, BillCreatedGoes
<1>9. CASE FindItems(c)
  <2>1. calls[c].at = "find" /\ UNCHANGED <<listVars, spoiled>> BY <1>9 DEF FindItems
  <2> QED BY <1>4, <1>5, <1>9, <2>1, FindGoes
<1>10. CASE UpdateItem(c)
  <2>1. calls[c].kind = "update" /\ UNCHANGED <<listVars, spoiled>> BY <1>10 DEF UpdateItem, At
  <2> QED BY <1>4, <1>10, <2>1, UpdateGoes
<1>11. CASE BillUpdated(c)
  <2>1. calls[c].kind = "update" /\ UNCHANGED <<listVars, spoiled>> BY <1>11 DEF BillUpdated, Bill, At
  <2> QED BY <1>4, <1>5, <1>11, <2>1, BillUpdatedGoes
<1>12. CASE DeleteItem(c)
  <2>0. PICK r, i, at : /\ r = calls[c] /\ i = r.batch[r.k]
                        /\ at = IF r.k < Len(r.batch) THEN "write" ELSE "prune"
    OBVIOUS
  <2>1. /\ r.kind = "delete" /\ r.at = "write" /\ UNCHANGED <<stopList, lists>>
        /\ \/ /\ stock' = [stock EXCEPT ![i] = NoItem] /\ spoiled' = (spoiled \/ i \in InStock \ r.found)
              /\ calls' = [calls EXCEPT ![c].k = @ + 1, ![c].at = at]
           \/ spoiled' = TRUE
    BY <1>12, <2>0 DEF DeleteItem, At, listVars
  <2>2. c \in Busy /\ r \in Request /\ Stands(r) BY <2>0, <2>1, AtBusy
  <2>3. CASE /\ stock' = [stock EXCEPT ![i] = NoItem] /\ spoiled' = (spoiled \/ i \in InStock \ r.found)
             /\ calls' = [calls EXCEPT ![c].k = @ + 1, ![c].at = at]
    <3>1. NewestList' = NewestList BY <2>1 DEF NewestList
    <3>2. /\ calls'[c].kind = "delete" /\ calls'[c].at \in {"write", "prune"} /\ calls'[c].found = r.found
          /\ calls'[c].batch = r.batch /\ calls'[c].k = r.k + 1 /\ c \in Busy'
      <4>1. calls \in [Clients -> Request \cup {Quiet}] BY DEF Inv, TypeInv
      <4>2. /\ calls'[c].kind = "delete" /\ calls'[c].at \in {"write", "prune"} /\ calls'[c].found = r.found
            /\ calls'[c].batch = r.batch /\ calls'[c].k = r.k + 1
        BY <2>0, <2>1, <2>2, <2>3, <4>1 DEF Request
      <4>3. calls'[c] # Quiet BY <4>2, SMTT(30) DEF Quiet
      <4> QED BY <4>2, <4>3 DEF Busy
    <3>3. /\ r.k \in DOMAIN r.batch /\ DOMAIN r.batch \subseteq Nat /\ r.k \in Nat
      BY <2>0, <2>1, <2>2, AtBusy DEF Stands
    <3>4. \A j : Passed(calls'[c], j) <=> Passed(r, j) \/ j = i BY <2>0, <3>2, <3>3, PassedNext, ZenonT(60)
    <3>5. \A j \in ItemIds : j # i /\ j \in InStock => j \in InStock' BY <2>3 DEF InStock, Inv, TypeInv
    <3> SUFFICES ASSUME ~spoiled', NEW j \in NewestList
                 PROVE  j \in InStock' \/ \E d \in Busy' : Leaving(calls'[d], j)
      BY <3>1 DEF ListInv
    <3>6. ~spoiled /\ ~(i \in InStock \ r.found) BY <2>3
    <3>7. j \in InStock \/ \E d \in Busy : Leaving(calls[d], j) BY <3>6 DEF Inv, ListInv
    <3>8. CASE \E d \in Busy : Leaving(calls[d], j)
      <4>1. PICK d \in Busy : Leaving(calls[d], j) BY <3>8
      <4>2. CASE d = c
        <5>1. j \in r.found /\ Passed(r, j) BY <2>0, <4>1, <4>2 DEF Leaving
        <5>2. Leaving(calls'[c], j) BY <3>2, <3>4, <5>1 DEF Leaving
        <5> QED BY <3>2, <5>2
      <4>3. CASE d # c BY <1>2, <1>3, <4>1, <4>3 DEF Busy
      <4> QED BY <4>2, <4>3
    <3>9. CASE j \in InStock /\ j = i
      <4>1. j \in r.found BY <3>6, <3>9
      <4>2. Leaving(calls'[c], j) BY <3>2, <3>4, <3>9, <4>1 DEF Leaving
      <4> QED BY <3>2, <4>2
    <3>10. CASE j \in InStock /\ j # i BY <3>5, <3>10 DEF InStock
    <3> QED BY <3>7, <3>8, <3>9, <3>10
  <2> QED BY <2>1, <2>3, SpoiledList
<1>13. CASE PruneStopList(c)
  <2>0. PICK r : r = calls[c] OBVIOUS
  <2>1. \/ PublishList(Prune(r.list, r.found)) /\ spoiled' = (spoiled \/ r.list # NewestList)
        \/ spoiled' = TRUE
    BY <1>13, <2>0 DEF PruneStopList
  <2>2. stock' = stock BY <1>13, PruneGoes
  <2>3. CASE PublishList(Prune(r.list, r.found)) /\ spoiled' = (spoiled \/ r.list # NewestList)
    <3>1. NewestList' = r.list \ r.found BY <2>3, NewestIs DEF Prune
    <3> SUFFICES ASSUME ~spoiled', NEW j \in r.list, j \notin r.found
                 PROVE  j \in InStock' \/ \E d \in Busy' : Leaving(calls'[d], j)
      BY <3>1 DEF ListInv
    <3>2. ~spoiled /\ j \in NewestList BY <2>3
    <3>3. j \in InStock \/ \E d \in Busy : Leaving(calls[d], j) BY <3>2 DEF Inv, ListInv
    <3>4. \A d \in Busy : Leaving(calls[d], j) => d # c BY <2>0 DEF Leaving
    <3> QED BY <1>2, <1>3, <1>5, <2>2, <3>3, <3>4 DEF Busy
  <2> QED BY <2>1, <2>3, SpoiledList
<1>14. CASE FetchItems(c)
  <2>1. calls[c].kind = "configure" /\ UNCHANGED <<listVars, spoiled>> BY <1>14 DEF FetchItems, At
  <2> QED BY <1>4, <1>5, <1>14, <2>1, FetchGoes
<1>15. CASE SetAlgorithmConfigs(c)
  <2>0. PICK r : r = calls[c] OBVIOUS
  <2>1. stock' = stock /\ calls[c].kind = "configure" BY <1>15, SetGoes DEF SetAlgorithmConfigs, At
  <2>2. \/ PublishList(ToSet(r.batch) \cap r.found) /\ spoiled' = (spoiled \/ ~(r.found \subseteq InStock))
        \/ UNCHANGED <<listVars, spoiled>>
    BY <1>15, <2>0 DEF SetAlgorithmConfigs
  <2>3. CASE PublishList(ToSet(r.batch) \cap r.found) /\ spoiled' = (spoiled \/ ~(r.found \subseteq InStock))
    <3>1. NewestList' = ToSet(r.batch) \cap r.found BY <2>3, NewestIs
    <3>2. ~spoiled' => r.found \subseteq InStock' BY <1>5, <2>1, <2>3
    <3> QED BY <3>1, <3>2 DEF ListInv
  <2>4. CASE UNCHANGED <<listVars, spoiled>> BY <1>4, <1>5, <2>1, <2>4
  <2> QED BY <2>2, <2>3, <2>4
<1> QED BY <1>6, <1>7, <1>8, <1>9, <1>10, <1>11, <1>12, <1>13, <1>14, <1>15 DEF Call
-------------------------------------------------------------------------------
(* The invariant. *)

LEMMA InitInv == ItemsInit => Inv
<1> SUFFICES ASSUME ItemsInit PROVE Inv OBVIOUS
<1>1. /\ stock = [i \in ItemIds |-> NoItem] /\ calls = [c \in Clients |-> Quiet]
      /\ stopList = {} /\ lists = <<>> /\ tokenList = {}
      /\ told = <<>> /\ spoiled = FALSE /\ crowded = FALSE
  BY DEF ItemsInit
<1>2. DOMAIN told = {} /\ told = [i \in DOMAIN told |-> told[i]] BY <1>1
<1>3. TypeInv
  <2>1. stock \in [ItemIds -> Statuses \cup {NoItem}] BY <1>1
  <2>2. calls \in [Clients -> Request \cup {Quiet}] BY <1>1
  <2>3. lists \in Seq(SUBSET ItemIds) BY <1>1
  <2>4. stopList \in SUBSET ItemIds /\ tokenList \in SUBSET ItemIds BY <1>1
  <2>5. spoiled \in BOOLEAN /\ crowded \in BOOLEAN BY <1>1
  <2> QED BY <1>2, <2>1, <2>2, <2>3, <2>4, <2>5 DEF TypeInv
<1>4. Busy = {} BY <1>1 DEF Busy
<1>5. CallsOf("create") = {} BY <1>1 DEF CallsOf, Quiet
<1>6. InStock = {} BY <1>1 DEF InStock
<1>7. LimitInv BY <1>4, <1>5, <1>6, FS_EmptySet, ItemsAssumption DEF LimitInv
<1>8. NewestList = {} BY <1>1 DEF NewestList
<1>9. StandInv /\ SharedInv /\ BeliefInv /\ ToldInv BY <1>2, <1>4 DEF StandInv, SharedInv, BeliefInv, ToldInv
<1>10. ListInv BY <1>8 DEF ListInv
<1> QED BY <1>3, <1>7, <1>9, <1>10 DEF Inv

LEMMA AskedInv == ASSUME Inv, ItemsAsked PROVE Inv'
<1>1. PICK c \in Clients, batch \in Seq(ItemIds) : \E kind, at, status :
        Asked(kind, at, status) /\ BeginCall(c, kind, at, batch, status)
  BY AskedKeeps
<1>2. PICK kind, at, status : Asked(kind, at, status) /\ BeginCall(c, kind, at, batch, status) BY <1>1
<1>3. TypeInv' /\ StandInv' /\ SharedInv' /\ BeliefInv' /\ ToldInv' BY <1>2, BeginKeeps
<1>4. /\ calls[c] = Quiet /\ stock' = stock /\ UNCHANGED <<stopList, lists, spoiled>>
      /\ crowded' = (crowded \/ (kind = "create" /\ CallsOf("create") # {}))
  BY <1>2 DEF BeginCall, listVars
<1>5. /\ calls'[c].kind = kind /\ calls'[c].at \in {"count", "find", "fetch"} /\ c \notin Busy
      /\ \A d \in Busy : d # c /\ calls'[d].kind = calls[d].kind /\ calls'[d].at = calls[d].at
                         /\ calls'[d].batch = calls[d].batch /\ calls'[d].k = calls[d].k
                         /\ calls'[d].found = calls[d].found
      /\ \A d \in Clients : d # c /\ d \notin Busy => calls'[d] = Quiet
  <2>1. \A d \in Busy : d \in Clients /\ d # c /\ calls[d] \in Request BY <1>4, BusyCall DEF Inv, Busy
  <2>2. calls' = [d \in Clients |->
          IF d = c THEN [kind |-> kind, at |-> at, batch |-> batch, status |-> status, k |-> 1,
                         failed |-> {}, done |-> {}, found |-> {}, list |-> tokenList,
                         shared |-> UNION {ToSet(calls[e].batch) : e \in Busy}]
          ELSE IF d \in Busy THEN [calls[d] EXCEPT !.shared = @ \cup ToSet(batch)] ELSE Quiet]
    BY <1>2 DEF BeginCall
  <2>3. calls'[c].kind = kind /\ calls'[c].at = at BY <2>2
  <2>4. at \in {"count", "find", "fetch"} BY <1>2 DEF Asked
  <2>5. ASSUME NEW d \in Busy
        PROVE  /\ calls'[d].kind = calls[d].kind /\ calls'[d].at = calls[d].at
               /\ calls'[d].batch = calls[d].batch /\ calls'[d].k = calls[d].k
               /\ calls'[d].found = calls[d].found
    <3>1. calls'[d] = [calls[d] EXCEPT !.shared = @ \cup ToSet(batch)] BY <2>1, <2>2
    <3> QED BY <2>1, <3>1 DEF Request
  <2> QED BY <1>4, <2>1, <2>2, <2>3, <2>4, <2>5 DEF Busy
<1>6. Busy' = Busy \cup {c}
  <2>1. \A d \in Busy : calls[d].kind # "none" BY BusyCall DEF Inv, Busy
  <2>2. kind # "none" BY <1>2 DEF Asked
  <2> QED BY <1>5, <2>1, <2>2 DEF Busy, Quiet
<1>7. InStock' = InStock BY <1>4 DEF InStock
<1>8. LimitInv'
  <2>1. \A d \in CallsOf("create")' : d \in CallsOf("create") \/ (d = c /\ kind = "create")
    BY <1>5 DEF CallsOf, Quiet
  <2>2. ~crowded' => \A d, e \in CallsOf("create")' : d = e
    <3> SUFFICES ASSUME ~crowded', NEW d \in CallsOf("create")', NEW e \in CallsOf("create")' PROVE d = e
      OBVIOUS
    <3>1. ~crowded /\ (kind # "create" \/ CallsOf("create") = {}) BY <1>4
    <3>2. d \in CallsOf("create") /\ e \in CallsOf("create") => d = e BY <3>1 DEF Inv, LimitInv
    <3> QED BY <2>1, <3>1, <3>2
  <2>3. ASSUME NEW d \in Busy', calls'[d].kind = "create", calls'[d].at = "insert"
        PROVE  /\ d \in Busy /\ calls[d].kind = "create" /\ calls[d].at = "insert"
               /\ calls'[d].batch = calls[d].batch /\ calls'[d].k = calls[d].k
    BY <1>5, <1>6, <2>3
  <2> QED BY <1>4, <1>7, <2>2, <2>3 DEF Inv, LimitInv
<1>9. ListInv'
  <2>1. \A d \in Busy : \A i : Leaving(calls[d], i) => Leaving(calls'[d], i) BY <1>5 DEF Leaving, Passed
  <2> QED BY <1>4, <1>6, <1>7, <2>1, ListKept
<1> QED BY <1>3, <1>8, <1>9 DEF Inv

LEMMA CallInv == ASSUME Inv, NEW c \in Clients, Call(c) PROVE Inv'
BY CallGoes, GoesKeep, CallTypes, CallLimit, CallList DEF Inv

LEMMA SameInv ==
  ASSUME Inv, UNCHANGED <<stock, calls, told, crowded>>, TypeInv',
         spoiled' = TRUE \/ (spoiled' = spoiled /\ NewestList' = NewestList)
  PROVE  Inv'
<1>1. Busy' = Busy /\ InStock' = InStock /\ CallsOf("create")' = CallsOf("create")
  BY DEF Busy, InStock, CallsOf
<1>2. StandInv' /\ SharedInv' /\ BeliefInv' /\ ToldInv' BY <1>1 DEF Inv, StandInv, SharedInv, BeliefInv, ToldInv
<1>3. LimitInv' BY <1>1 DEF Inv, LimitInv
<1>4. ListInv' BY <1>1 DEF Inv, ListInv
<1> QED BY <1>2, <1>3, <1>4 DEF Inv

\* Nothing but the lists changes.
LEMMA ListsInv ==
  ASSUME Inv, ApplyList \/ RefreshToken
  PROVE  Inv'
<1>1. UNCHANGED <<stock, calls, told, crowded>> BY DEF ApplyList, RefreshToken
<1>2. /\ spoiled \in BOOLEAN /\ stopList \in SUBSET ItemIds /\ tokenList \in SUBSET ItemIds /\ lists \in Seq(SUBSET ItemIds)
  BY DEF Inv, TypeInv
<1>3. CASE /\ lists # <<>> /\ stopList' = Head(lists) /\ lists' = Tail(lists) /\ tokenList' = tokenList
           /\ UNCHANGED spoiled
  <2>1. lists # <<>> /\ stopList' = Head(lists) /\ lists' = Tail(lists) /\ tokenList' = tokenList /\ UNCHANGED spoiled
    BY <1>3
  <2>2. /\ Head(lists) \in SUBSET ItemIds /\ Tail(lists) \in Seq(SUBSET ItemIds)
        /\ Len(lists) \in Nat /\ Len(lists) >= 1 /\ Len(Tail(lists)) = Len(lists) - 1
    BY <1>2, <2>1
  <2>3. NewestList' = NewestList
    <3>1. CASE Len(lists) = 1
      <4>1. Tail(lists) = <<>> /\ Head(lists) = lists[Len(lists)] BY <1>2, <2>1, <3>1
      <4> QED BY <2>1, <4>1 DEF NewestList
    <3>2. CASE Len(lists) # 1
      <4>1. Tail(lists) # <<>>
        <5>1. Len(Tail(lists)) # 0 BY <2>2, <3>2
        <5> QED BY <5>1, SMTT(30)
      <4>2. Tail(lists)[Len(Tail(lists))] = lists[Len(lists)] BY <1>2, <2>1, <2>2, <3>2
      <4> QED BY <2>1, <4>1, <4>2 DEF NewestList
    <3> QED BY <3>1, <3>2
  <2>4. TypeInv' BY <1>1, <1>2, <2>1, <2>2 DEF Inv, TypeInv
  <2> QED BY <1>1, <2>1, <2>3, <2>4, SameInv
\* Put back, and perhaps overtaken.
<1>4. ASSUME NEW j \in 1 .. Len(lists), lists # <<>>, stopList' \in {stopList, Head(lists)},
             lists' = Behind(j), tokenList' = tokenList, spoiled' = (spoiled \/ NewestList' # NewestList)
      PROVE  Inv'
  <2>1. Head(lists) \in SUBSET ItemIds /\ Len(lists) \in Nat /\ \A i \in 1 .. Len(lists) : lists[i] \in SUBSET ItemIds
    BY <1>2, <1>4
  <2>2. \A i \in 1 .. Len(lists) : (IF i < j THEN i + 1 ELSE IF i = j THEN 1 ELSE i) \in 1 .. Len(lists)
    BY <2>1, <1>4
  <2>3. \A i \in 1 .. Len(lists) : lists[IF i < j THEN i + 1 ELSE IF i = j THEN 1 ELSE i] \in SUBSET ItemIds
    BY ZenonT(30), <2>1, <2>2
  <2>4. Behind(j) \in [1 .. Len(lists) -> SUBSET ItemIds] BY ZenonT(30), <2>3 DEF Behind
  <2>5. lists' \in Seq(SUBSET ItemIds) BY <1>4, <2>1, <2>4
  <2>6. TypeInv' BY <1>1, <1>2, <1>4, <2>1, <2>5 DEF Inv, TypeInv
  <2>7. spoiled' = TRUE \/ (spoiled' = spoiled /\ NewestList' = NewestList) BY <1>2, <1>4
  <2> QED BY <1>1, <2>6, <2>7, SameInv
<1>5. CASE RefreshToken
  <2>1. tokenList' = stopList /\ UNCHANGED <<stopList, lists, spoiled>> BY <1>5 DEF RefreshToken
  <2>2. NewestList' = NewestList BY <2>1 DEF NewestList
  <2>3. TypeInv' BY <1>1, <1>2, <2>1 DEF Inv, TypeInv
  <2> QED BY <1>1, <2>1, <2>2, <2>3, SameInv
<1> QED BY <1>3, <1>4, <1>5 DEF ApplyList

LEMMA AccountInv == ASSUME Inv, DeleteAccountItems PROVE Inv'
<1>0. CASE UNCHANGED <<stock, spoiled, told, calls, stopList, lists, tokenList, crowded>>
  <2>1. TypeInv' /\ NewestList' = NewestList BY <1>0 DEF Inv, TypeInv, NewestList
  <2> QED BY <1>0, <2>1, SameInv
<1> SUFFICES ASSUME ItemsGone PROVE Inv' BY <1>0, AccountItems
<1>1. TypeInv' /\ StandInv' /\ SharedInv' /\ BeliefInv' /\ ToldInv' BY BatchesStay
<1>2. /\ stock' = [i \in ItemIds |-> NoItem] /\ spoiled' = TRUE /\ crowded' = crowded
      /\ calls' = [c \in Clients |-> IF c \in Busy THEN [calls[c] EXCEPT !.shared = ItemIds] ELSE Quiet]
  BY DEF ItemsGone
<1>3. InStock' \subseteq InStock BY <1>2 DEF InStock
<1>4. ASSUME NEW d \in Clients, calls'[d].kind = "create"
      PROVE  calls[d].kind = "create" /\ calls'[d].at = calls[d].at /\ calls'[d].k = calls[d].k
             /\ calls'[d].batch = calls[d].batch
  <2>1. d \in Busy BY <1>2, <1>4 DEF Quiet
  <2>2. calls[d] \in Request BY <2>1, BusyCall DEF Inv
  <2>3. calls'[d] = [calls[d] EXCEPT !.shared = ItemIds] BY <1>2, <2>1
  <2> QED BY <1>4, <2>2, <2>3 DEF Request
<1>5. LimitInv' BY <1>2, <1>3, <1>4, LimitKept
<1>6. ListInv' BY <1>2, SpoiledList
<1> QED BY <1>1, <1>5, <1>6 DEF Inv

LEMMA NextInv == ASSUME Inv, [ItemsNext]_itemVars PROVE Inv'
<1>1. CASE UNCHANGED itemVars
  <2>1. UNCHANGED <<stock, calls, told, spoiled, crowded, stopList, lists, tokenList>> BY <1>1 DEF itemVars
  <2>2. TypeInv' /\ NewestList' = NewestList BY <2>1 DEF Inv, TypeInv, NewestList
  <2> QED BY <2>1, <2>2, SameInv
<1>2. CASE ItemsNext BY <1>2, AskedInv, CallInv, ListsInv, AccountInv DEF ItemsNext
<1> QED BY <1>1, <1>2

LEMMA Answered == ASSUME Inv PROVE CatalogueAsAnswered
<1>1. \A i \in DOMAIN told : stock[i] \in told[i] BY DEF Inv, ToldInv
<1>2. ~crowded => Cardinality(InStock) <= ItemLimit BY DEF Inv, LimitInv
<1>3. Busy = {} /\ lists = <<>> /\ ~spoiled => stopList \subseteq InStock
  BY DEF Inv, ListInv, NewestList
<1> QED BY <1>1, <1>2, <1>3 DEF CatalogueAsAnswered

\* Whatever the callers ask, in any overlap, and whatever billing does meanwhile: an answer
\* stays true until another request is at the item, the account's limit holds unless two
\* creations overlap, and the stop list names items only once the published lists are in,
\* unless a deletion failed half-way, removed what it had not found, or pruned an old list, or
\* the newest list failed to be stored, or an older one did, and came back in another order.
THEOREM AnswersHold == ItemsSpec => []CatalogueAsAnswered
<1> QED BY InitInv, NextInv, Answered, PTL DEF ItemsSpec
-------------------------------------------------------------------------------
(* Items and billing together. *)

LEMMA FiniteBatch == ASSUME NEW batch \in Seq(ItemIds) PROVE IsFiniteSet(ToSet(batch))
<1>1. DOMAIN batch = 1 .. Len(batch) /\ Len(batch) \in Nat OBVIOUS
<1>2. IsFiniteSet(DOMAIN batch) BY <1>1, FS_Interval
<1>3. batch \in Surjection(DOMAIN batch, ToSet(batch))
  <2>1. batch \in [DOMAIN batch -> ToSet(batch)] BY <1>1 DEF ToSet
  <2> QED BY <2>1 DEF Surjection, ToSet
<1> QED BY <1>2, <1>3, FS_Surjection

\* A request that captures does what any service does.
LEMMA BillCaptures ==
  ASSUME Inv, NEW c \in Busy, NEW written, written \subseteq ToSet(calls[c].batch), NEW said, Bill(c, written, said)
  PROVE  BillingNext \/ UNCHANGED billVars
<1>1. CASE CaptureData(Owner, ItemBytes * Cardinality(written))
           /\ UNCHANGED <<queueVars, metering, meterings, billFaults>>
  <2>1. calls[c].batch \in Seq(ItemIds) BY BusyCall DEF Busy, Inv, Request
  <2>2. Cardinality(written) \in Nat BY <2>1, FiniteBatch, FS_Subset, FS_CardinalityType
  <2>3. PICK bytes \in Nat : bytes = ItemBytes * Cardinality(written) BY <2>2, ItemsAssumption
  <2>4. CaptureData(Owner, bytes) /\ UNCHANGED <<queueVars, metering, meterings, billFaults>> BY <1>1, <2>3
  <2> QED BY <2>4, ItemsAssumption DEF BillingNext
<1> QED BY <1>1 DEF Bill

LEMMA ItemsCapture == ASSUME Inv, ItemsNext PROVE BillingNext \/ UNCHANGED billVars
<1>1. CASE ItemsAsked BY <1>1, SMTT(30) DEF ItemsAsked, AskCreate, AskDelete, AskConfigure, AskUpdate, BeginCall
<1>2. ASSUME NEW c \in Clients, Call(c) PROVE BillingNext \/ UNCHANGED billVars
  <2>1. CASE BillCreated(c)
    <3>1. c \in Busy BY <2>1, BusyCall DEF BillCreated, At, Inv
    <3>2. ToSet(calls[c].batch) \ calls[c].failed \subseteq ToSet(calls[c].batch) OBVIOUS
    <3> QED BY <2>1, <3>1, <3>2, BillCaptures DEF BillCreated
  <2>2. CASE BillUpdated(c)
    <3>1. calls[c].kind = "update" /\ c \in Busy BY <2>2, BusyCall DEF BillUpdated, At, Inv
    <3>2. calls[c].done \subseteq ToSet(calls[c].batch) BY <3>1 DEF Inv, StandInv, Stands
    <3> QED BY <2>2, <3>1, <3>2, BillCaptures DEF BillUpdated
  <2> QED BY <1>2, <2>1, <2>2 DEF Call, CountItems, InsertItem, FindItems, UpdateItem, DeleteItem,
                                  PruneStopList, FetchItems, SetAlgorithmConfigs
<1>3. CASE ApplyList \/ RefreshToken \/ DeleteAccountItems BY <1>3 DEF ApplyList, RefreshToken, DeleteAccountItems
<1> QED BY <1>1, <1>2, <1>3 DEF ItemsNext

\* Both hold when the requests run with the billing service and the workers, whose
\* captures are on the same queue: a request captures once, whatever it wrote, and what
\* becomes of the capture changes no item.
THEOREM ItemsAreCharged == ChargedItemsSpec => []ChargedAsCaptured /\ []CatalogueAsAnswered
<1>1. ItemsInit /\ BillingInit => Inv /\ BillInv BY InitInv, InitBill
<1>2. Inv /\ BillInv /\ [ChargedItemsNext]_<<itemVars, billVars>> => Inv' /\ BillInv'
  <2> SUFFICES ASSUME Inv, BillInv, [ChargedItemsNext]_<<itemVars, billVars>> PROVE Inv' /\ BillInv' OBVIOUS
  <2>1. [ItemsNext]_itemVars BY DEF ChargedItemsNext
  <2>2. [BillingNext]_billVars BY ItemsCapture DEF ChargedItemsNext
  <2> QED BY <2>1, <2>2, NextInv, BillStep
<1>3. Inv /\ BillInv => ChargedAsCaptured /\ CatalogueAsAnswered BY Charged, Answered
<1> QED BY <1>1, <1>2, <1>3, PTL DEF ChargedItemsSpec
===============================================================================
