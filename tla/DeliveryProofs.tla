---------------------------- MODULE DeliveryProofs ----------------------------
(* Theorems about one queue of the AMQP bridge, for any messages, any prefetch *)
(* and any number of faults.                                                   *)
EXTENDS Delivery, SequenceTheorems, TLAPS

-----------------------------------------------------------------------------
(* What the operations on sequences do to the elements.                    *)

\* The empty sequence has no elements.
LEMMA EmptyElements == Elements(<<>>) = {}
BY DEF Elements

\* Append adds an element.
LEMMA AppendElements ==
  ASSUME NEW S, NEW s \in Seq(S), NEW e \in S
  PROVE Append(s, e) \in Seq(S) /\ Elements(Append(s, e)) = Elements(s) \cup {e}
<1>1. /\ Append(s, e) \in Seq(S) /\ Len(Append(s, e)) = Len(s) + 1
      /\ \A i \in 1..Len(s) : Append(s, e)[i] = s[i]
      /\ Append(s, e)[Len(s) + 1] = e
  BY AppendProperties
<1>2. DOMAIN Append(s, e) = 1..(Len(s) + 1) /\ DOMAIN s = 1..Len(s) /\ Len(s) \in Nat
  BY <1>1
<1>3. 1..(Len(s) + 1) = 1..Len(s) \cup {Len(s) + 1}
  BY <1>2
<1> QED BY <1>1, <1>2, <1>3 DEF Elements

\* Append keeps the elements distinct if the new one is not among them.
LEMMA AppendDistinct ==
  ASSUME NEW S, NEW s \in Seq(S), NEW e \in S, e \notin Elements(s),
         \A i, j \in DOMAIN s : s[i] = s[j] => i = j
  PROVE \A i, j \in DOMAIN Append(s, e) : Append(s, e)[i] = Append(s, e)[j] => i = j
<1>1. /\ \A i \in 1..Len(s) : Append(s, e)[i] = s[i]
      /\ Append(s, e)[Len(s) + 1] = e
      /\ Append(s, e) \in Seq(S) /\ Len(Append(s, e)) = Len(s) + 1
  BY AppendProperties
<1>2. DOMAIN Append(s, e) = 1..(Len(s) + 1) /\ DOMAIN s = 1..Len(s) /\ Len(s) \in Nat
  BY <1>1
<1>3. \A i \in 1..Len(s) : Append(s, e)[i] # e
  BY <1>1, <1>2 DEF Elements
<1>4. \A i \in 1..(Len(s) + 1) : i \in 1..Len(s) \/ i = Len(s) + 1
  BY <1>2
<1> QED BY <1>1, <1>2, <1>3, <1>4

\* Head and Tail split the elements.
LEMMA HeadTailElements ==
  ASSUME NEW S, NEW s \in Seq(S), s # <<>>
  PROVE /\ Head(s) \in S /\ Tail(s) \in Seq(S)
        /\ Elements(s) = {Head(s)} \cup Elements(Tail(s))
<1>1. Len(s) \in Nat /\ Len(s) # 0 /\ DOMAIN s = 1..Len(s)
  BY EmptySeq
<1>2. /\ Head(s) \in S /\ Head(s) = s[1] /\ Tail(s) \in Seq(S) /\ Len(Tail(s)) = Len(s) - 1
      /\ \A i \in 1..Len(Tail(s)) : Tail(s)[i] = s[i + 1]
  BY HeadTailProperties
<1>3. DOMAIN Tail(s) = 1..(Len(s) - 1)
  BY <1>1, <1>2
<1>4. ASSUME NEW i \in 1..Len(s) PROVE s[i] = Head(s) \/ s[i] \in Elements(Tail(s))
  <2>1. CASE i = 1 BY <2>1, <1>2
  <2>2. CASE i # 1
    <3>1. i - 1 \in 1..(Len(s) - 1) /\ Tail(s)[i - 1] = s[(i - 1) + 1] BY <2>2, <1>1, <1>2
    <3>2. (i - 1) + 1 = i OBVIOUS
    <3> QED BY <3>1, <3>2, <1>3 DEF Elements
  <2> QED BY <2>1, <2>2
<1>5. ASSUME NEW i \in 1..(Len(s) - 1) PROVE Tail(s)[i] \in Elements(s)
  <2>1. i + 1 \in 1..Len(s) /\ Tail(s)[i] = s[i + 1] BY <1>1, <1>2
  <2> QED BY <2>1, <1>1 DEF Elements
<1>6. Head(s) \in Elements(s) BY <1>1, <1>2 DEF Elements
<1> QED BY <1>1, <1>2, <1>3, <1>4, <1>5, <1>6 DEF Elements

\* The tail of a sequence of distinct elements has them distinct, and without the head.
LEMMA TailDistinct ==
  ASSUME NEW S, NEW s \in Seq(S), s # <<>>,
         \A i, j \in DOMAIN s : s[i] = s[j] => i = j
  PROVE /\ Head(s) \notin Elements(Tail(s))
        /\ \A i, j \in DOMAIN Tail(s) : Tail(s)[i] = Tail(s)[j] => i = j
<1>1. Len(s) \in Nat /\ Len(s) # 0 /\ DOMAIN s = 1..Len(s)
  BY EmptySeq
<1>2. /\ Head(s) = s[1] /\ Tail(s) \in Seq(S) /\ Len(Tail(s)) = Len(s) - 1
      /\ \A i \in 1..Len(Tail(s)) : Tail(s)[i] = s[i + 1]
  BY HeadTailProperties
<1>3. DOMAIN Tail(s) = 1..(Len(s) - 1)
  BY <1>1, <1>2
<1>4. \A i \in 1..(Len(s) - 1) : i + 1 \in 1..Len(s) /\ i + 1 # 1 /\ Tail(s)[i] = s[i + 1]
  BY <1>1, <1>2
<1>5. ASSUME NEW i \in DOMAIN Tail(s), NEW j \in DOMAIN Tail(s), Tail(s)[i] = Tail(s)[j] PROVE i = j
  <2>1. s[i + 1] = s[j + 1] /\ i + 1 \in DOMAIN s /\ j + 1 \in DOMAIN s BY <1>1, <1>3, <1>4, <1>5
  <2>2. i + 1 = j + 1 BY <2>1
  <2> QED BY <2>2, <1>3
<1>6. \A i \in DOMAIN Tail(s) : Tail(s)[i] # Head(s) BY <1>1, <1>2, <1>3, <1>4
<1> QED BY <1>5, <1>6 DEF Elements

-----------------------------------------------------------------------------
(* The inductive invariant.                                                *)

\* A fault costs one of those left.
LEMMA FaultCosts ==
  ASSUME NEW f, Fault(f), faultsLeft \in 0..MaxFaults
  PROVE faultsLeft' = faultsLeft - 1 /\ faultsLeft' \in 0..MaxFaults
BY PrefetchAssumption DEF Fault

\* The initial states satisfy the invariant.
LEMMA InitInv == Init => DeliveryInv
<1> SUFFICES ASSUME Init PROVE DeliveryInv OBVIOUS
<1> USE EmptyElements, MessagesAssumption, PrefetchAssumption DEF Init
<1>1. TypeOK
  <2>1. <<>> \in Seq(Messages) OBVIOUS
  <2>2. [m \in Messages |-> 0] \in [Messages -> Nat] OBVIOUS
  <2>3. MaxFaults \in 0..MaxFaults OBVIOUS
  <2> QED BY <2>1, <2>2, <2>3 DEF TypeOK
<1>2. Conserved BY DEF Conserved, Settled
<1>3. AnswersItsOwn BY DEF AnswersItsOwn
<1>4. WindowShape BY DEF WindowShape, InHand
<1>5. HandShape BY DEF HandShape
<1>6. Paid BY DEF Paid, Executions, Allowance, Settled
<1>7. DetachedIsSent BY DEF DetachedIsSent
<1> QED BY <1>1, <1>2, <1>3, <1>4, <1>5, <1>6, <1>7 DEF DeliveryInv

\* Publish keeps the invariant.
LEMMA PublishInv == ASSUME DeliveryInv, NEW m \in Messages, Publish(m) PROVE DeliveryInv'
<1> USE MessagesAssumption DEF DeliveryInv, Publish, consumer, component
<1>0. TypeOK BY DEF TypeOK
<1>1. \/ sent' = Append(sent, m) /\ ready' = ready \cup {m} /\ vanished' = vanished
      \/ sent' = sent /\ ready' = ready /\ vanished' = vanished \cup {m}
  OBVIOUS
<1>2. CASE sent' = Append(sent, m) /\ ready' = ready \cup {m} /\ vanished' = vanished
  <2>1. sent' \in Seq(Messages) /\ Elements(sent') = Elements(sent) \cup {m} /\ m \notin Elements(sent)
    BY <1>2, <1>0, AppendElements DEF TypeOK, Published
  <2>2. TypeOK' BY <2>1, <1>2 DEF TypeOK
  <2>3. Conserved' BY <2>1, <1>2 DEF Conserved, Settled, Elements
  <2>4. AnswersItsOwn' BY DEF AnswersItsOwn
  <2>5. WindowShape' BY <1>2 DEF WindowShape, InHand, Elements
  <2>6. HandShape' BY DEF HandShape
  <2>7. Paid' BY DEF Paid, Executions, Allowance, Settled, Elements
  <2>8. DetachedIsSent' BY <2>1 DEF DetachedIsSent, Elements
  <2> QED BY <2>2, <2>3, <2>4, <2>5, <2>6, <2>7, <2>8
<1>3. CASE sent' = sent /\ ready' = ready /\ vanished' = vanished \cup {m}
  <2>1. TypeOK' BY <1>3 DEF TypeOK
  <2>2. Conserved' /\ AnswersItsOwn' BY <1>3 DEF Conserved, AnswersItsOwn, Settled, Elements
  <2>3. WindowShape' /\ HandShape' BY <1>3 DEF WindowShape, HandShape, InHand, Elements
  <2>4. Paid' /\ DetachedIsSent' BY <1>3 DEF Paid, DetachedIsSent, Executions, Allowance, Settled, Elements
  <2> QED BY <2>1, <2>2, <2>3, <2>4
<1> QED BY <1>1, <1>2, <1>3

\* A broken connection of the publisher keeps the invariant.
LEMMA PublisherBreaksInv == ASSUME DeliveryInv, PublisherBreaks PROVE DeliveryInv'
<1> USE MessagesAssumption, PrefetchAssumption DEF DeliveryInv, PublisherBreaks, consumer, component
<1>1. TypeOK BY DEF TypeOK
<1>2. faultsLeft' = faultsLeft - 1 /\ faultsLeft' \in 0..MaxFaults BY <1>1, FaultCosts DEF TypeOK
<1>3. TypeOK' BY <1>1, <1>2 DEF TypeOK
<1>4. Conserved' /\ AnswersItsOwn' BY DEF Conserved, AnswersItsOwn, Settled, Elements
<1>5. WindowShape' /\ HandShape' BY DEF WindowShape, HandShape, InHand, Elements
<1>6. Paid'
  <2> SUFFICES ASSUME NEW m \in Messages
               PROVE  Executions(m)' <= MaxFaults - faultsLeft' + Allowance(m)'
    BY DEF Paid
  <2>1. Executions(m)' = Executions(m) /\ Allowance(m)' = Allowance(m)
    BY DEF Executions, Allowance, Settled, Elements
  <2>2. Executions(m) \in Int /\ Allowance(m) \in Int
    BY <1>1 DEF TypeOK, Executions, Allowance
  <2>3. Executions(m) <= MaxFaults - faultsLeft + Allowance(m) BY DEF Paid
  <2> QED BY <1>1, <1>2, <2>1, <2>2, <2>3 DEF TypeOK
<1>7. DetachedIsSent' BY DEF DetachedIsSent, Elements
<1> QED BY <1>3, <1>4, <1>5, <1>6, <1>7

\* Connect keeps the invariant.
LEMMA ConnectInv == ASSUME DeliveryInv, Connect PROVE DeliveryInv'
<1> USE MessagesAssumption DEF DeliveryInv, Connect, component
<1>1. TypeOK' BY DEF TypeOK
<1>2. Conserved' /\ AnswersItsOwn' BY DEF Conserved, AnswersItsOwn, Settled, Elements
<1>3. WindowShape' BY EmptyElements DEF WindowShape, InHand, Elements
<1>4. HandShape' BY DEF HandShape
<1>5. Paid' BY DEF Paid, Executions, Allowance, Settled, Elements, WindowShape, HandShape
<1>6. DetachedIsSent' BY DEF DetachedIsSent, Elements
<1> QED BY <1>1, <1>2, <1>3, <1>4, <1>5, <1>6

\* Deliver keeps the invariant.
LEMMA DeliverInv == ASSUME DeliveryInv, NEW m \in Messages, Deliver(m) PROVE DeliveryInv'
<1> USE MessagesAssumption DEF DeliveryInv, Deliver, component
<1>1. m \notin Elements(buffer) /\ m # current /\ buffer \in Seq(Messages)
  BY DEF TypeOK, Conserved, WindowShape, InHand
<1>2. buffer' \in Seq(Messages) /\ Elements(buffer') = Elements(buffer) \cup {m}
  BY <1>1, AppendElements
<1>3. \A i, j \in DOMAIN buffer' : buffer'[i] = buffer'[j] => i = j
  BY <1>1, AppendDistinct DEF WindowShape
<1>4. TypeOK' BY <1>2 DEF TypeOK
<1>5. Conserved' /\ AnswersItsOwn' BY DEF Conserved, AnswersItsOwn, Settled, Elements
<1>6. WindowShape' BY <1>1, <1>2, <1>3 DEF WindowShape, InHand, Elements
<1>7. HandShape' BY DEF HandShape
<1>8. Paid' BY DEF Paid, Executions, Allowance, Settled
<1>9. DetachedIsSent' BY DEF DetachedIsSent, Elements
<1> QED BY <1>4, <1>5, <1>6, <1>7, <1>8, <1>9

\* Take keeps the invariant.
LEMMA TakeInv == ASSUME DeliveryInv, Take PROVE DeliveryInv'
<1> USE MessagesAssumption DEF DeliveryInv, Take, broker, component
<1> DEFINE m == Head(buffer)
<1>1. /\ m \in Messages /\ Tail(buffer) \in Seq(Messages)
      /\ Elements(buffer) = {m} \cup Elements(Tail(buffer))
  BY HeadTailElements DEF TypeOK
<1>2. /\ m \notin Elements(Tail(buffer))
      /\ \A i, j \in DOMAIN Tail(buffer) : Tail(buffer)[i] = Tail(buffer)[j] => i = j
  BY TailDistinct DEF TypeOK, WindowShape
<1>3. m # NoMessage BY <1>1
<1>4. TypeOK' BY <1>1 DEF TypeOK
<1>5. Conserved' /\ AnswersItsOwn' BY DEF Conserved, AnswersItsOwn, Settled, Elements
<1>6. WindowShape'
  <2>1. buffer' = Tail(buffer) /\ current' = m /\ session' = session /\ session # "down" OBVIOUS
  <2>2. Elements(buffer)' = Elements(Tail(buffer)) /\ InHand' = {m} BY <1>3, <2>1 DEF Elements, InHand
  <2>3. InHand = {} BY DEF InHand
  <2>4. Elements(buffer)' \cup InHand' = Elements(buffer) \cup InHand BY <1>1, <2>2, <2>3
  <2>5. /\ session = "up" => unacked' = Elements(buffer)' \cup InHand'
        /\ session = "lost" => unacked' = {} /\ Elements(buffer)' \cup InHand' \subseteq ready'
    BY <2>4 DEF WindowShape
  <2>6. m \notin Elements(buffer)' BY <1>2, <2>2
  <2> QED BY <1>2, <2>1, <2>5, <2>6 DEF WindowShape
<1>7. HandShape' BY <1>3 DEF HandShape
<1>8. Paid'
  <2> SUFFICES ASSUME NEW q \in Messages
               PROVE  Executions(q)' <= MaxFaults - faultsLeft' + Allowance(q)'
    BY DEF Paid
  <2>1. Executions(q) <= MaxFaults - faultsLeft + Allowance(q) BY DEF Paid
  <2>2. Allowance(q) = Allowance(q)'
    <3>1. post # "ok" /\ post' # "ok" BY DEF HandShape
    <3>2. acked' = acked /\ dropped' = dropped OBVIOUS
    <3> QED BY <3>1, <3>2 DEF Allowance, Settled
  <2>3. Executions(q)' <= Executions(q)
    <3>1. handled[q] \in Nat /\ detached[q] \in Nat BY DEF TypeOK
    <3>2. (q \in Elements(buffer') \/ (current' = q /\ post' = "posted")) => q \in Elements(buffer)
      BY <1>1
    <3>3. buffer' = Tail(buffer) OBVIOUS
    <3> QED BY <3>1, <3>2, <3>3 DEF Executions, Elements
  <2>4. /\ Executions(q) \in Int /\ Executions(q)' \in Int /\ Allowance(q) \in Int
        /\ MaxFaults \in Int /\ faultsLeft \in Int
    BY <1>4, PrefetchAssumption DEF TypeOK, Executions, Allowance
  <2> QED BY <2>1, <2>2, <2>3, <2>4
<1>9. DetachedIsSent' BY DEF DetachedIsSent, Elements
<1> QED BY <1>4, <1>5, <1>6, <1>7, <1>8, <1>9

\* An answer of the component after the effect keeps the invariant.
LEMMA HandledInv == ASSUME DeliveryInv, Handled PROVE DeliveryInv'
<1> USE MessagesAssumption, PrefetchAssumption DEF DeliveryInv, Handled, broker
<1>1. current \in Messages /\ current # NoMessage /\ post = "posted" BY DEF Good
<1>2. /\ handled' \in [Messages -> Nat] /\ handled'[current] = handled[current] + 1
      /\ \A q \in Messages : handled[q] \in Nat /\ detached[q] \in Nat
      /\ \A q \in Messages \ {current} : handled'[q] = handled[q]
      /\ \A q \in Messages : handled'[q] >= handled[q]
  BY <1>1 DEF TypeOK
<1>3. /\ faultsLeft \in Nat /\ faultsLeft' \in 0..MaxFaults /\ post' \in {"ok", "error"}
      /\ post' = "ok" => faultsLeft' = faultsLeft
      /\ post' = "error" => faultsLeft' = faultsLeft - 1
  BY FaultCosts DEF TypeOK
<1>4. TypeOK' BY <1>2, <1>3 DEF TypeOK
<1>5. Conserved' BY DEF Conserved, Settled, Elements
<1>6. AnswersItsOwn' BY <1>2 DEF AnswersItsOwn, TypeOK
<1>7. WindowShape' BY DEF WindowShape, InHand, Elements
<1>8. HandShape' BY <1>1, <1>2, <1>3 DEF HandShape
<1>9. Paid'
  <2> SUFFICES ASSUME NEW q \in Messages
               PROVE  Executions(q)' <= MaxFaults - faultsLeft' + Allowance(q)'
    BY DEF Paid
  <2>1. Executions(q) <= MaxFaults - faultsLeft + Allowance(q) BY DEF Paid
  <2>2. detached' = detached /\ buffer' = buffer /\ current' = current /\ session' = session
        /\ acked' = acked /\ dropped' = dropped
    OBVIOUS
  <2>3. CASE q # current
    <3>1. Executions(q)' = Executions(q) /\ Allowance(q)' = Allowance(q)
      BY <1>2, <2>2, <2>3 DEF Executions, Allowance, Settled, Elements
    <3>2. Executions(q) \in Int /\ Allowance(q) \in Int BY <1>2 DEF Executions, Allowance
    <3> QED BY <1>3, <2>1, <3>1, <3>2
  <2>4. CASE q = current /\ session = "up"
    <3>1. Executions(q)' = Executions(q) + 1 BY <1>2, <2>2, <2>4 DEF Executions
    <3>2. q \notin Settled BY <1>1, <2>4 DEF WindowShape, InHand, Conserved
    <3>3. Allowance(q) = 0 BY <1>1, <3>2 DEF Allowance
    <3>4. Allowance(q)' = IF post' = "ok" THEN 1 ELSE 0 BY <2>2, <2>4, <3>2 DEF Allowance, Settled
    <3>5. Executions(q) \in Int BY <1>2 DEF Executions
    <3> QED BY <1>3, <2>1, <3>1, <3>3, <3>4, <3>5
  <2>5. CASE q = current /\ session = "lost"
    <3>1. q \notin Elements(buffer) BY <2>5 DEF WindowShape
    <3>2. Executions(q) = handled[q] + detached[q] + 1 BY <1>1, <2>5 DEF Executions
    <3>3. Executions(q)' = handled[q] + 1 + detached[q] + 0
      BY <1>2, <1>3, <2>2, <2>5, <3>1 DEF Executions, Elements
    <3>4. Allowance(q)' = Allowance(q) BY <2>2, <2>5 DEF Allowance, Settled
    <3>5. Allowance(q) \in Int BY DEF Allowance
    <3> QED BY <1>2, <1>3, <2>1, <3>2, <3>3, <3>4, <3>5
  <2> QED BY <1>1, <2>3, <2>4, <2>5 DEF TypeOK, WindowShape
<1>10. DetachedIsSent' BY DEF DetachedIsSent, Elements
<1> QED BY <1>4, <1>5, <1>6, <1>7, <1>8, <1>9, <1>10

\* An answer without an effect keeps the invariant.
LEMMA NotHandledInv == ASSUME DeliveryInv, NotHandled PROVE DeliveryInv'
<1> USE MessagesAssumption, PrefetchAssumption DEF DeliveryInv, NotHandled, broker, component
<1>1. current # NoMessage BY DEF HandShape
<1>2. /\ faultsLeft \in Nat /\ faultsLeft' \in 0..MaxFaults /\ faultsLeft' <= faultsLeft
      /\ post' \in {"refused", "error"}
      /\ post' = "refused" => current \in Refused
  BY FaultCosts DEF TypeOK
<1>3. TypeOK' BY <1>2 DEF TypeOK
<1>4. Conserved' /\ AnswersItsOwn' BY DEF Conserved, AnswersItsOwn, Settled, Elements
<1>5. WindowShape' BY DEF WindowShape, InHand, Elements
<1>6. HandShape' BY <1>1, <1>2 DEF HandShape
<1>7. Paid'
  <2> SUFFICES ASSUME NEW q \in Messages
               PROVE  Executions(q)' <= MaxFaults - faultsLeft' + Allowance(q)'
    BY DEF Paid
  <2>1. Executions(q) <= MaxFaults - faultsLeft + Allowance(q) BY DEF Paid
  <2>2. Allowance(q)' = Allowance(q) BY <1>2 DEF Allowance, Settled
  <2>3. handled[q] \in Nat /\ detached[q] \in Nat BY DEF TypeOK
  <2>4. Executions(q)' <= Executions(q)
    <3>1. handled' = handled /\ detached' = detached /\ buffer' = buffer /\ session' = session
      OBVIOUS
    <3> QED BY <1>2, <2>3, <3>1 DEF Executions, Elements
  <2>5. Executions(q) \in Int /\ Executions(q)' \in Int /\ Allowance(q) \in Int
    BY <2>3 DEF Executions, Allowance
  <2> QED BY <1>2, <2>1, <2>2, <2>4, <2>5
<1>8. DetachedIsSent' BY DEF DetachedIsSent, Elements
<1> QED BY <1>3, <1>4, <1>5, <1>6, <1>7, <1>8

\* Ack, Reject and Requeue keep the invariant.
LEMMA SettleInv == ASSUME DeliveryInv, SettleCurrent PROVE DeliveryInv'
<1> USE MessagesAssumption DEF DeliveryInv, SettleCurrent, component
<1>0. current \in Messages /\ current # NoMessage BY DEF TypeOK, HandShape, Ack, Reject, Requeue
<1>1. /\ current' = NoMessage /\ post' = "none" /\ session' = session /\ buffer' = buffer
      /\ sent' = sent /\ bound' = bound /\ vanished' = vanished /\ publisher' = publisher
      /\ handled' = handled /\ detached' = detached /\ faultsLeft' = faultsLeft
      /\ unacked' = IF session = "up" THEN unacked \ {current} ELSE unacked
      /\ \/ acked' = acked /\ dropped' = dropped /\ ready' = ready /\ session # "up"
         \/ /\ post = "ok" /\ session = "up"
            /\ acked' = acked \cup {current} /\ dropped' = dropped /\ ready' = ready
         \/ /\ post = "refused" /\ session = "up"
            /\ dropped' = dropped \cup {current} /\ acked' = acked /\ ready' = ready
         \/ /\ post = "error" /\ session = "up"
            /\ ready' = ready \cup {current} /\ acked' = acked /\ dropped' = dropped
  BY DEF Ack, Reject, Requeue
<1> HIDE DEF SettleCurrent
<1>2. session = "up" => current \in unacked BY <1>0 DEF WindowShape, InHand
<1>3. TypeOK' BY <1>0, <1>1 DEF TypeOK
<1>4. Conserved' BY <1>1, <1>2 DEF Conserved, Settled, Elements
<1>5. AnswersItsOwn' BY <1>1 DEF AnswersItsOwn, HandShape
<1>6. WindowShape'
  <2>1. NoMessage \notin Elements(buffer) BY DEF TypeOK, Elements
  <2>2. Elements(buffer)' = Elements(buffer) /\ InHand' = {} BY <1>1 DEF Elements, InHand
  <2>3. current \notin Elements(buffer) BY DEF WindowShape
  <2>4. session = "up" => unacked' = Elements(buffer) BY <1>0, <1>1, <2>3 DEF WindowShape, InHand
  <2>5. session = "lost" => unacked' = {} /\ Elements(buffer) \subseteq ready' BY <1>1 DEF WindowShape
  <2>6. session # "down" BY <1>0 DEF WindowShape
  <2> QED BY <1>1, <2>1, <2>2, <2>4, <2>5, <2>6 DEF WindowShape
<1>7. HandShape' BY <1>1 DEF HandShape
<1>8. Paid'
  <2> SUFFICES ASSUME NEW q \in Messages
               PROVE  Executions(q)' <= MaxFaults - faultsLeft' + Allowance(q)'
    BY DEF Paid
  <2>1. Executions(q) <= MaxFaults - faultsLeft + Allowance(q) BY DEF Paid
  <2>2. handled[q] \in Nat /\ detached[q] \in Nat BY DEF TypeOK
  <2>3. Executions(q)' <= Executions(q) BY <1>0, <1>1, <2>2 DEF Executions, Elements
  <2>4. Allowance(q) <= Allowance(q)' BY <1>0, <1>1 DEF Allowance, Settled
  <2>5. /\ Executions(q) \in Int /\ Executions(q)' \in Int
        /\ Allowance(q) \in Int /\ Allowance(q)' \in Int /\ MaxFaults - faultsLeft \in Int
    BY <1>1, <2>2, PrefetchAssumption DEF TypeOK, Executions, Allowance
  <2> QED BY <1>1, <2>1, <2>3, <2>4, <2>5
<1>9. DetachedIsSent' BY <1>1 DEF DetachedIsSent, Elements
<1> QED BY <1>3, <1>4, <1>5, <1>6, <1>7, <1>8, <1>9

\* A broken session keeps the invariant: its window goes back to the queue, and what
\* the consumer still holds of it is paid for by the fault.
LEMMA LinkBreaksInv == ASSUME DeliveryInv, LinkBreaks PROVE DeliveryInv'
<1> USE MessagesAssumption, PrefetchAssumption DEF DeliveryInv, LinkBreaks, component
<1>1. /\ faultsLeft \in Nat /\ faultsLeft' = faultsLeft - 1 /\ faultsLeft' \in 0..MaxFaults
  BY FaultCosts DEF TypeOK
<1>2. TypeOK' BY <1>1 DEF TypeOK
<1>3. Conserved' /\ AnswersItsOwn' BY DEF Conserved, AnswersItsOwn, Settled, Elements
<1>4. WindowShape' BY DEF WindowShape, InHand, Elements
<1>5. HandShape' BY DEF HandShape
<1>6. Paid'
  <2> SUFFICES ASSUME NEW q \in Messages
               PROVE  Executions(q)' <= MaxFaults - faultsLeft' + Allowance(q)'
    BY DEF Paid
  <2>1. Executions(q) <= MaxFaults - faultsLeft + Allowance(q) BY DEF Paid
  <2>2. handled[q] \in Nat /\ detached[q] \in Nat BY DEF TypeOK
  <2>3. Executions(q) = handled[q] + detached[q] BY <2>2 DEF Executions
  <2>4. CASE q \in Elements(buffer) \/ current = q
    <3>1. q \in unacked BY <2>4 DEF WindowShape, InHand
    <3>2. q \notin Settled BY <3>1 DEF Conserved
    <3>3. CASE current = q /\ post = "ok"
      <4>1. q \notin Elements(buffer) BY <3>3 DEF WindowShape
      <4>2. Executions(q)' = handled[q] + detached[q] + 0 BY <4>1, <3>3 DEF Executions, Elements
      <4>3. Allowance(q) = 1 /\ Allowance(q)' = 0 BY <3>2, <3>3 DEF Allowance, Settled
      <4> QED BY <1>1, <2>1, <2>2, <2>3, <4>2, <4>3
    <3>4. CASE ~(current = q /\ post = "ok")
      <4>1. Executions(q)' <= handled[q] + detached[q] + 1 BY <2>2 DEF Executions, Elements
      <4>2. Allowance(q) = 0 /\ Allowance(q)' = 0 BY <3>2, <3>4 DEF Allowance, Settled
      <4>3. Executions(q)' \in Int BY <2>2 DEF Executions
      <4> QED BY <1>1, <2>1, <2>2, <2>3, <4>1, <4>2, <4>3
    <3> QED BY <3>3, <3>4
  <2>5. CASE ~(q \in Elements(buffer) \/ current = q)
    <3>1. Executions(q)' = handled[q] + detached[q] + 0 BY <2>5 DEF Executions, Elements
    <3>2. Allowance(q)' = Allowance(q) /\ Allowance(q) \in Int BY <2>5 DEF Allowance, Settled
    <3> QED BY <1>1, <2>1, <2>2, <2>3, <3>1, <3>2
  <2> QED BY <2>4, <2>5
<1>7. DetachedIsSent' BY DEF DetachedIsSent, Elements
<1> QED BY <1>2, <1>3, <1>4, <1>5, <1>6, <1>7

\* Learning of it keeps the invariant.
LEMMA LinkNoticedInv == ASSUME DeliveryInv, LinkNoticed PROVE DeliveryInv'
<1> USE MessagesAssumption, PrefetchAssumption, EmptyElements DEF DeliveryInv, LinkNoticed, broker, component
<1>1. TypeOK'
  <2>1. <<>> \in Seq(Messages) OBVIOUS
  <2> QED BY <2>1 DEF TypeOK
<1>2. Conserved' /\ AnswersItsOwn' BY DEF Conserved, AnswersItsOwn, Settled, Elements
<1>3. WindowShape' BY DEF WindowShape, InHand
<1>4. HandShape' BY DEF HandShape
<1>5. Paid'
  <2> SUFFICES ASSUME NEW q \in Messages
               PROVE  Executions(q)' <= MaxFaults - faultsLeft' + Allowance(q)'
    BY DEF Paid
  <2>1. Executions(q) <= MaxFaults - faultsLeft + Allowance(q) BY DEF Paid
  <2>2. handled[q] \in Nat /\ detached[q] \in Nat /\ MaxFaults - faultsLeft \in Int BY DEF TypeOK
  <2>3. Executions(q)' = handled[q] + detached[q] + 0 BY <2>2 DEF Executions
  <2>4. Executions(q) >= handled[q] + detached[q] /\ Executions(q) \in Int BY <2>2 DEF Executions
  <2>5. Allowance(q)' = Allowance(q) /\ Allowance(q) \in Int BY DEF Allowance, Settled
  <2> QED BY <2>1, <2>2, <2>3, <2>4, <2>5
<1>6. DetachedIsSent' BY DEF DetachedIsSent, Elements
<1> QED BY <1>1, <1>2, <1>3, <1>4, <1>5, <1>6

\* A restart of the gateway keeps the invariant: an execution that goes on without its
\* caller is paid for by the fault.
LEMMA GatewayRestartsInv == ASSUME DeliveryInv, GatewayRestarts PROVE DeliveryInv'
<1> USE MessagesAssumption, PrefetchAssumption, EmptyElements DEF DeliveryInv, GatewayRestarts
<1>1. /\ faultsLeft \in Nat /\ faultsLeft' = faultsLeft - 1 /\ faultsLeft' \in 0..MaxFaults
  BY FaultCosts DEF TypeOK
<1>2. \A q \in Messages : handled[q] \in Nat /\ detached[q] \in Nat BY DEF TypeOK
<1>3. /\ detached' \in [Messages -> Nat]
      /\ \A q \in Messages :
           \/ detached'[q] = detached[q]
           \/ detached'[q] = detached[q] + 1 /\ q = current /\ post = "posted"
  <2>1. CASE detached' = detached BY <2>1 DEF TypeOK
  <2>2. CASE post = "posted" /\ current \in Good /\ detached' = [detached EXCEPT ![current] = @ + 1]
    BY <1>2, <2>2 DEF TypeOK, Good
  <2> QED BY <2>1, <2>2
<1>4. TypeOK'
  <2>1. <<>> \in Seq(Messages) OBVIOUS
  <2> QED BY <1>1, <1>3, <2>1 DEF TypeOK
<1>5. Conserved' /\ AnswersItsOwn' BY DEF Conserved, AnswersItsOwn, Settled, Elements
<1>6. WindowShape' BY DEF WindowShape, InHand
<1>7. HandShape' BY DEF HandShape
<1>8. Paid'
  <2> SUFFICES ASSUME NEW q \in Messages
               PROVE  Executions(q)' <= MaxFaults - faultsLeft' + Allowance(q)'
    BY DEF Paid
  <2>1. Executions(q) <= MaxFaults - faultsLeft + Allowance(q) BY DEF Paid
  <2>2. handled[q] \in Nat /\ detached[q] \in Nat /\ detached'[q] \in Nat BY <1>2, <1>3
  <2>3. Executions(q)' = handled[q] + detached'[q] + 0 BY <2>2 DEF Executions
  <2>4. Executions(q) >= handled[q] + detached[q] /\ Executions(q) \in Int BY <2>2 DEF Executions
  <2>5. q \in Settled => Allowance(q)' = 1 /\ Allowance(q) = 1 BY DEF Allowance, Settled
  <2>6. q \notin Settled => Allowance(q)' = 0 /\ Allowance(q) \in {0, 1} BY DEF Allowance, Settled
  <2>7. CASE detached'[q] = detached[q]
    BY <1>1, <2>1, <2>2, <2>3, <2>4, <2>5, <2>6, <2>7
  <2>8. CASE detached'[q] = detached[q] + 1 /\ q = current /\ post = "posted"
    <3>1. q \notin Settled => Allowance(q) = 0 BY <2>8 DEF Allowance
    <3> QED BY <1>1, <2>1, <2>2, <2>3, <2>4, <2>5, <2>6, <2>8, <3>1
  <2> QED BY <1>3, <2>7, <2>8
<1>9. DetachedIsSent'
  <2>1. post = "posted" => current \in Elements(sent)
    BY DEF HandShape, WindowShape, Conserved, InHand, TypeOK
  <2>2. Elements(sent)' = Elements(sent) BY DEF Elements
  <2> QED BY <1>3, <2>1, <2>2 DEF DetachedIsSent
<1> QED BY <1>4, <1>5, <1>6, <1>7, <1>8, <1>9

\* The end of such an execution keeps the invariant.
LEMMA DetachedEndsInv == ASSUME DeliveryInv, NEW m \in Messages, DetachedEnds(m) PROVE DeliveryInv'
<1> USE MessagesAssumption, PrefetchAssumption DEF DeliveryInv, DetachedEnds, broker, consumer
<1>1. \A q \in Messages : handled[q] \in Nat /\ detached[q] \in Nat BY DEF TypeOK
<1>2. /\ handled' \in [Messages -> Nat] /\ detached' \in [Messages -> Nat]
      /\ \A q \in Messages : handled'[q] >= handled[q] /\ detached'[q] <= detached[q]
                           /\ handled'[q] + detached'[q] = handled[q] + detached[q]
  <2>1. handled' \in [Messages -> Nat] /\ detached' \in [Messages -> Nat]
    BY <1>1 DEF TypeOK
  <2>2. /\ handled'[m] = handled[m] + 1 /\ detached'[m] = detached[m] - 1
        /\ \A q \in Messages \ {m} : handled'[q] = handled[q] /\ detached'[q] = detached[q]
    BY DEF TypeOK
  <2>3. \A q \in Messages : /\ handled'[q] >= handled[q] /\ detached'[q] <= detached[q]
                           /\ handled'[q] + detached'[q] = handled[q] + detached[q]
    <3> SUFFICES ASSUME NEW q \in Messages
                 PROVE  /\ handled'[q] >= handled[q] /\ detached'[q] <= detached[q]
                        /\ handled'[q] + detached'[q] = handled[q] + detached[q]
      OBVIOUS
    <3>1. handled[q] \in Nat /\ detached[q] \in Nat BY <1>1
    <3>2. CASE q = m BY <2>2, <3>1, <3>2
    <3>3. CASE q # m BY <2>2, <3>1, <3>3
    <3> QED BY <3>2, <3>3
  <2> QED BY <2>1, <2>3
<1>3. TypeOK' BY <1>2 DEF TypeOK
<1>4. Conserved' BY DEF Conserved, Settled, Elements
<1>5. AnswersItsOwn' BY SMTT(30), <1>1, <1>2 DEF AnswersItsOwn, TypeOK
<1>6. WindowShape' BY DEF WindowShape, InHand, Elements
<1>7. HandShape' BY <1>1, <1>2 DEF HandShape, TypeOK
<1>8. Paid'
  <2> SUFFICES ASSUME NEW q \in Messages
               PROVE  Executions(q)' <= MaxFaults - faultsLeft' + Allowance(q)'
    BY DEF Paid
  <2>1. Executions(q) <= MaxFaults - faultsLeft + Allowance(q) BY DEF Paid
  <2>2. handled'[q] + detached'[q] = handled[q] + detached[q] BY <1>2
  <2>3. Allowance(q)' = Allowance(q) BY DEF Allowance, Settled
  <2>4. Executions(q)' = Executions(q) BY <2>2 DEF Executions, Elements
  <2> QED BY <2>1, <2>3, <2>4
<1>9. DetachedIsSent' BY <1>1, <1>2 DEF DetachedIsSent, Elements
<1> QED BY <1>3, <1>4, <1>5, <1>6, <1>7, <1>8, <1>9

\* A stuttering step keeps the invariant.
LEMMA StutterInv == ASSUME DeliveryInv, UNCHANGED vars PROVE DeliveryInv'
<1> USE DEF DeliveryInv, vars, broker, consumer, component
<1>1. TypeOK' /\ Conserved' /\ AnswersItsOwn' BY DEF TypeOK, Conserved, AnswersItsOwn, Settled, Elements
<1>2. WindowShape' /\ HandShape' /\ DetachedIsSent'
  BY DEF WindowShape, HandShape, DetachedIsSent, InHand, Elements
<1>3. Paid' BY DEF Paid, Executions, Allowance, Settled, Elements
<1> QED BY <1>1, <1>2, <1>3

\* The invariant: whatever breaks, the consumer holds the window of its session, and every
\* repeated execution is paid for with a fault.
THEOREM DeliveryCorrect == Spec => []DeliveryInv
<1>1. Init => DeliveryInv BY InitInv
<1>2. DeliveryInv /\ [Next]_vars => DeliveryInv'
  <2> SUFFICES ASSUME DeliveryInv, [Next]_vars PROVE DeliveryInv' OBVIOUS
  <2>1. CASE \E m \in Messages : Publish(m) \/ Deliver(m) \/ DetachedEnds(m)
    BY <2>1, PublishInv, DeliverInv, DetachedEndsInv
  <2>2. CASE Connect \/ Take \/ LinkNoticed BY <2>2, ConnectInv, TakeInv, LinkNoticedInv
  <2>3. CASE Answered BY <2>3, HandledInv, NotHandledInv DEF Answered
  <2>4. CASE SettleCurrent BY <2>4, SettleInv
  <2>5. CASE PublisherBreaks \/ LinkBreaks \/ GatewayRestarts
    BY <2>5, PublisherBreaksInv, LinkBreaksInv, GatewayRestartsInv
  <2>6. CASE UNCHANGED vars BY <2>6, StutterInv
  <2> QED BY <2>1, <2>2, <2>3, <2>4, <2>5, <2>6 DEF Next
<1> QED BY <1>1, <1>2, PTL DEF Spec

\* Whatever breaks, an accepted message is in exactly one place (consume_loop).
THEOREM MessagesConserved == Spec => []Conserved
<1>1. DeliveryInv => Conserved BY DEF DeliveryInv
<1> QED BY <1>1, DeliveryCorrect, PTL

\* A message is acknowledged only after it was carried out, and dropped only if it can
\* never be (consume_loop).
THEOREM AnsweredByItsOwn == Spec => []AnswersItsOwn
<1>1. DeliveryInv => AnswersItsOwn BY DEF DeliveryInv
<1> QED BY <1>1, DeliveryCorrect, PTL

\* A message is carried out at most once more than there were faults.
THEOREM RepeatedForFaults == Spec => []RepeatedForFaultsOnly
<1>1. DeliveryInv => RepeatedForFaultsOnly
  <2> SUFFICES ASSUME DeliveryInv, NEW m \in Messages
               PROVE  handled[m] <= 1 + (MaxFaults - faultsLeft)
    BY DEF RepeatedForFaultsOnly
  <2>1. handled[m] \in Nat /\ detached[m] \in Nat /\ MaxFaults - faultsLeft \in Int
    BY PrefetchAssumption DEF DeliveryInv, TypeOK
  <2>2. Executions(m) >= handled[m] /\ Executions(m) \in Int BY <2>1 DEF Executions
  <2>3. Allowance(m) \in {0, 1} BY DEF Allowance
  <2>4. Executions(m) <= MaxFaults - faultsLeft + Allowance(m) BY DEF DeliveryInv, Paid
  <2> QED BY <2>1, <2>2, <2>3, <2>4
<1> QED BY <1>1, DeliveryCorrect, PTL

-----------------------------------------------------------------------------
(* The refinement of Mailbox.                                              *)

\* The initial states are initial for the mailbox.
LEMMA BoxInit == Init => Box!Init
BY DEF Init, Box!Init, Settled

\* Every step of a state that satisfies the invariant is one of the mailbox, or changes
\* nothing of it.
LEMMA BoxStep == DeliveryInv /\ [Next]_vars => [Box!Next]_(Box!mailbox)
<1> SUFFICES ASSUME DeliveryInv, [Next]_vars PROVE [Box!Next]_(Box!mailbox) OBVIOUS
<1> USE MessagesAssumption DEF Box!mailbox, DeliveryInv
<1>1. ASSUME NEW m \in Messages, Publish(m) PROVE [Box!Next]_(Box!mailbox)
  <2>1. m \notin Elements(sent) BY <1>1 DEF Publish, Published
  <2>2. CASE ready' = ready \cup {m}
    <3>1. Box!Accept(m)
      BY <1>1, <2>1, <2>2 DEF Publish, Box!Accept, component, Conserved, Settled
    <3> QED BY <3>1 DEF Box!Next
  <2>3. CASE ready' = ready BY <1>1, <2>3 DEF Publish, component, Settled
  <2> QED BY <1>1, <2>2, <2>3 DEF Publish
<1>2. ASSUME NEW m \in Messages, Deliver(m) PROVE [Box!Next]_(Box!mailbox)
  BY <1>2 DEF Deliver, component, Settled
<1>3. ASSUME NEW m \in Messages, DetachedEnds(m) PROVE [Box!Next]_(Box!mailbox)
  <2>1. m \in ready \cup unacked \cup Settled
    BY <1>3 DEF DetachedEnds, DetachedIsSent, Conserved, Settled
  <2>2. Box!Give(m) BY <1>3, <2>1 DEF DetachedEnds, Box!Give, broker, Settled
  <2> QED BY <2>2 DEF Box!Next
<1>4. CASE Connect \/ Take \/ LinkNoticed
  BY <1>4 DEF Connect, Take, LinkNoticed, broker, component, Settled
<1>5. CASE Handled
  <2>1. current \in Messages /\ current \in ready \cup unacked
    BY <1>5 DEF Handled, Good, WindowShape, InHand, TypeOK
  <2>2. Box!Give(current) BY <1>5, <2>1 DEF Handled, Box!Give, broker, Settled
  <2> QED BY <2>1, <2>2 DEF Box!Next
<1>6. CASE NotHandled BY <1>6 DEF NotHandled, broker, component, Settled
<1>7. CASE SettleCurrent
  <2>1. current \in Messages /\ current # NoMessage
    BY <1>7 DEF SettleCurrent, Ack, Reject, Requeue, HandShape, TypeOK
  <2>2. CASE session = "up" /\ ~Requeue
    <3>1. current \in unacked /\ current \notin ready BY <2>1, <2>2 DEF WindowShape, InHand, Conserved
    <3>2. (ready \cup unacked)' = (ready \cup unacked) \ {current}
      BY <1>7, <2>2, <3>1 DEF SettleCurrent, Ack, Reject
    <3>3. Settled' = Settled \cup {current} BY <1>7, <2>2 DEF SettleCurrent, Ack, Reject, Settled
    <3>4. handled[current] > 0 \/ current \in Garbage \cup Refused
      BY <1>7, <2>2 DEF SettleCurrent, Ack, Reject, HandShape
    <3>5. handled' = handled BY <1>7 DEF SettleCurrent, Ack, Reject, Requeue, component
    <3>6. Box!Settle(current) BY <3>1, <3>2, <3>3, <3>4, <3>5 DEF Box!Settle
    <3> QED BY <2>1, <3>6 DEF Box!Next
  <2>3. CASE Requeue /\ session = "up"
    <3>1. current \in unacked BY <2>1, <2>3 DEF WindowShape, InHand
    <3> QED BY <2>3, <3>1 DEF Requeue, component, Settled
  <2>4. CASE session # "up"
    BY <1>7, <2>4 DEF SettleCurrent, Ack, Reject, Requeue, component, Settled
  <2> QED BY <2>2, <2>3, <2>4
<1>8. CASE PublisherBreaks \/ LinkBreaks
  BY <1>8 DEF PublisherBreaks, LinkBreaks, component, Settled
<1>9. CASE GatewayRestarts BY <1>9 DEF GatewayRestarts, Settled
<1>10. CASE UNCHANGED vars BY <1>10 DEF vars, broker, component, Settled
<1> QED BY <1>1, <1>2, <1>3, <1>4, <1>5, <1>6, <1>7, <1>8, <1>9, <1>10 DEF Next, Answered

\* The bridge implements the mailbox: an accepted message stays until it has been carried
\* out or refused, whatever breaks.
THEOREM ImplementsMailbox == Spec => BoxSpec
<1> QED BY BoxInit, BoxStep, DeliveryCorrect, PTL DEF Spec, BoxSpec, Box!Spec

-----------------------------------------------------------------------------
(* The order of the queue.                                                 *)

\* The loop's hand, its buffer and the queue are in the order of acceptance, but for what
\* the component sends back.
HandFirst ==
  \A q \in Elements(buffer) \ Poison, m \in InHand : ~Before(q, m)
BufferInOrder ==
  \A i, j \in DOMAIN buffer : i < j /\ buffer[j] \notin Poison => ~Before(buffer[j], buffer[i])
ReadyLast ==
  \A q \in ready \ Poison, m \in Elements(buffer) \cup InHand : ~Before(q, m)
Ordered == HandFirst /\ BufferInOrder /\ ReadyLast
SentOnce == \A i, j \in DOMAIN sent : sent[i] = sent[j] => i = j
\* Nothing was disturbed yet.
Calm == session # "lost" /\ (post = "error" => current \in Poison)
OrderInv == SentOnce /\ (faultsLeft = MaxFaults => Calm /\ Ordered)

\* A fault is felt for good.
LEMMA CalmBefore ==
  ASSUME DeliveryInv, [Next]_vars, faultsLeft' = MaxFaults
  PROVE  faultsLeft = MaxFaults /\ \A f \in {"link", "restart", "answer", "error", "publish"} : ~Fault(f)
<1>1. faultsLeft \in 0..MaxFaults BY DEF DeliveryInv, TypeOK
<1>2. \A f : ~Fault(f) BY <1>1, PrefetchAssumption DEF Fault
<1>3. faultsLeft' = faultsLeft
  BY <1>2 DEF Next, Publish, Deliver, DetachedEnds, Connect, Take, Answered, Handled, NotHandled,
              SettleCurrent, Ack, Reject, Requeue, LinkNoticed, PublisherBreaks, LinkBreaks,
              GatewayRestarts, vars
<1> QED BY <1>2, <1>3

\* Steps that accept nothing leave the order of acceptance alone.
LEMMA BeforeSame == sent' = sent => \A m, q : Before(m, q)' <=> Before(m, q)
  BY DEF Before

\* A message is accepted behind all others.
LEMMA AcceptedLast ==
  ASSUME TypeOK, SentOnce, NEW m \in Messages, m \notin Elements(sent), sent' = Append(sent, m)
  PROVE  /\ SentOnce'
         /\ \A q, p : Before(q, p)' => (Before(q, p) \/ (p = m /\ q \in Elements(sent)))
<1>1. /\ \A i \in 1..Len(sent) : sent'[i] = sent[i]
      /\ sent'[Len(sent) + 1] = m
      /\ DOMAIN sent' = 1..(Len(sent) + 1) /\ DOMAIN sent = 1..Len(sent) /\ Len(sent) \in Nat
  <2>1. sent \in Seq(Messages) BY DEF TypeOK
  <2>2. /\ \A i \in 1..Len(sent) : sent'[i] = sent[i]
        /\ sent'[Len(sent) + 1] = m /\ sent' \in Seq(Messages) /\ Len(sent') = Len(sent) + 1
    BY <2>1, AppendProperties
  <2> QED BY <2>1, <2>2
<1>2. SentOnce'
  <2>1. sent \in Seq(Messages) BY DEF TypeOK
  <2>2. \A i, j \in DOMAIN Append(sent, m) : Append(sent, m)[i] = Append(sent, m)[j] => i = j
    BY <2>1, AppendDistinct DEF SentOnce
  <2> QED BY <2>2 DEF SentOnce
<1>3. ASSUME NEW q, NEW p, Before(q, p)' PROVE Before(q, p) \/ (p = m /\ q \in Elements(sent))
  <2>1. PICK i \in DOMAIN sent', j \in DOMAIN sent' : i < j /\ sent'[i] = q /\ sent'[j] = p
    BY <1>3 DEF Before
  <2>2. i \in 1..Len(sent) /\ sent[i] = q BY <1>1, <2>1
  <2>3. CASE j = Len(sent) + 1 BY <1>1, <2>1, <2>2, <2>3 DEF Elements
  <2>4. CASE j # Len(sent) + 1
    <3>1. j \in 1..Len(sent) /\ sent[j] = p BY <1>1, <2>1, <2>4
    <3> QED BY <1>1, <2>1, <2>2, <3>1 DEF Before
  <2> QED BY <2>3, <2>4
<1> QED BY <1>2, <1>3

\* No message is accepted before itself.
LEMMA NotBeforeItself ==
  ASSUME TypeOK, SentOnce, NEW m PROVE ~Before(m, m)
<1>1. DOMAIN sent = 1..Len(sent) /\ Len(sent) \in Nat BY DEF TypeOK
<1> QED BY <1>1 DEF SentOnce, Before

LEMMA PublishOrder ==
  ASSUME DeliveryInv, NEW m \in Messages, Publish(m), SentOnce, Ordered PROVE SentOnce' /\ Ordered'
<1> USE DEF DeliveryInv
<1>1. buffer' = buffer /\ current' = current /\ InHand' = InHand /\ Elements(buffer)' = Elements(buffer)
  BY DEF Publish, consumer, InHand, Elements
<1>2. CASE sent' = sent /\ ready' = ready
  BY <1>1, <1>2, BeforeSame DEF SentOnce, Ordered, HandFirst, BufferInOrder, ReadyLast
<1>3. CASE sent' = Append(sent, m) /\ ready' = ready \cup {m}
  <2>1. m \notin Elements(sent) BY DEF Publish, Published
  <2>2. /\ SentOnce'
        /\ \A q, p : Before(q, p)' => (Before(q, p) \/ (p = m /\ q \in Elements(sent)))
    BY <1>3, <2>1, AcceptedLast
  <2>3. Elements(buffer) \cup InHand \subseteq Elements(sent)
    BY EmptyElements DEF WindowShape, Conserved, TypeOK, InHand
  <2>4. \A i \in DOMAIN buffer : buffer[i] \in Elements(buffer) BY DEF Elements
  <2>5. \A p \in Elements(buffer) \cup InHand : \A q : Before(q, p)' => Before(q, p) /\ q # m
    <3>1. \A q, p : Before(q, p) => q \in Elements(sent) BY DEF Before, Elements
    <3> QED BY <2>1, <2>2, <2>3, <3>1
  <2>6. HandFirst' BY <1>1, <2>5 DEF Ordered, HandFirst
  <2>7. BufferInOrder' BY <1>1, <2>4, <2>5 DEF Ordered, BufferInOrder
  <2>8. ReadyLast' BY <1>1, <1>3, <2>5 DEF Ordered, ReadyLast
  <2> QED BY <2>2, <2>6, <2>7, <2>8 DEF Ordered
<1> QED BY <1>2, <1>3 DEF Publish

LEMMA DeliverOrder ==
  ASSUME DeliveryInv, NEW m \in Messages, Deliver(m), SentOnce, Ordered PROVE Ordered'
<1> USE DEF DeliveryInv
<1>1. buffer \in Seq(Messages) /\ buffer' = Append(buffer, m) /\ ready' = ready \ {m} /\ m \in ready
      /\ sent' = sent /\ current' = current /\ \A q \in ready : ~Before(q, m)
  BY DEF Deliver, TypeOK
<1>2. InHand' = InHand BY <1>1 DEF InHand
<1>3. /\ \A i \in 1..Len(buffer) : buffer'[i] = buffer[i]
      /\ buffer'[Len(buffer) + 1] = m
      /\ DOMAIN buffer' = 1..(Len(buffer) + 1) /\ DOMAIN buffer = 1..Len(buffer) /\ Len(buffer) \in Nat
  <2>1. /\ \A i \in 1..Len(buffer) : buffer'[i] = buffer[i]
        /\ buffer'[Len(buffer) + 1] = m /\ buffer' \in Seq(Messages) /\ Len(buffer') = Len(buffer) + 1
    BY <1>1, AppendProperties
  <2> QED BY <1>1, <2>1
<1>4. Elements(buffer)' = Elements(buffer) \cup {m} BY <1>1, AppendElements DEF Elements
<1>5. \A p, q : Before(p, q)' <=> Before(p, q) BY <1>1, BeforeSame
<1>6. m \notin Poison => \A p \in Elements(buffer) \cup InHand : ~Before(m, p)
  BY <1>1 DEF Ordered, ReadyLast
<1>7. HandFirst' BY <1>2, <1>4, <1>5, <1>6 DEF Ordered, HandFirst
<1>8. BufferInOrder'
  <2> SUFFICES ASSUME NEW i \in DOMAIN buffer', NEW j \in DOMAIN buffer', i < j, buffer'[j] \notin Poison
               PROVE  ~Before(buffer'[j], buffer'[i])
    BY <1>5 DEF BufferInOrder
  <2>1. i \in DOMAIN buffer /\ buffer'[i] = buffer[i] /\ buffer[i] \in Elements(buffer)
    BY <1>3 DEF Elements
  <2>2. CASE j = Len(buffer) + 1 BY <1>3, <1>6, <2>1, <2>2
  <2>3. CASE j # Len(buffer) + 1
    <3>1. j \in DOMAIN buffer /\ buffer'[j] = buffer[j] BY <1>3, <2>3
    <3> QED BY <2>1, <3>1 DEF Ordered, BufferInOrder
  <2> QED BY <2>2, <2>3
<1>9. ReadyLast' BY <1>1, <1>2, <1>4, <1>5 DEF Ordered, ReadyLast
<1> QED BY <1>7, <1>8, <1>9 DEF Ordered

LEMMA TakeOrder ==
  ASSUME DeliveryInv, Take, Ordered PROVE Ordered'
<1> USE DEF DeliveryInv
<1> DEFINE m == Head(buffer)
<1>1. buffer \in Seq(Messages) /\ buffer # <<>> /\ buffer' = Tail(buffer) /\ current' = m
      /\ sent' = sent /\ ready' = ready
  BY DEF Take, TypeOK, broker
<1>2. m \in Messages /\ Elements(buffer) = {m} \cup Elements(Tail(buffer)) BY <1>1, HeadTailElements
<1>3. InHand' = {m} /\ Elements(buffer)' = Elements(Tail(buffer))
  BY <1>1, <1>2, MessagesAssumption DEF InHand, Elements
<1>4. Len(buffer) \in Nat /\ Len(buffer) # 0 /\ DOMAIN buffer = 1..Len(buffer) BY <1>1, EmptySeq
<1>5. /\ m = buffer[1] /\ DOMAIN buffer' = 1..(Len(buffer) - 1)
      /\ \A i \in 1..(Len(buffer) - 1) : buffer'[i] = buffer[i + 1]
  <2>1. /\ Head(buffer) = buffer[1] /\ Tail(buffer) \in Seq(Messages)
        /\ Len(Tail(buffer)) = Len(buffer) - 1
        /\ \A i \in 1..Len(Tail(buffer)) : Tail(buffer)[i] = buffer[i + 1]
    BY <1>1, HeadTailProperties
  <2> QED BY <1>1, <2>1
<1>6. \A p, q : Before(p, q)' <=> Before(p, q) BY <1>1, BeforeSame
<1> HIDE DEF m
<1>7. HandFirst'
  <2> SUFFICES ASSUME NEW q \in Elements(buffer'), q \notin Poison PROVE ~Before(q, m)
    BY <1>3, <1>6 DEF HandFirst, Elements
  <2>1. PICK i \in 1..(Len(buffer) - 1) : q = buffer'[i] BY <1>5 DEF Elements
  <2>2. i + 1 \in DOMAIN buffer /\ 1 \in DOMAIN buffer /\ 1 < i + 1 /\ q = buffer[i + 1]
    BY <1>4, <1>5, <2>1
  <2> QED BY <1>5, <2>2 DEF Ordered, BufferInOrder
<1>8. BufferInOrder'
  <2> SUFFICES ASSUME NEW i \in DOMAIN buffer', NEW j \in DOMAIN buffer', i < j, buffer'[j] \notin Poison
               PROVE  ~Before(buffer'[j], buffer'[i])
    BY <1>6 DEF BufferInOrder
  <2>1. /\ i + 1 \in DOMAIN buffer /\ j + 1 \in DOMAIN buffer /\ i + 1 < j + 1
        /\ buffer'[i] = buffer[i + 1] /\ buffer'[j] = buffer[j + 1]
    BY <1>4, <1>5
  <2> QED BY <2>1 DEF Ordered, BufferInOrder
<1>9. ReadyLast' BY <1>1, <1>2, <1>3, <1>6 DEF Ordered, ReadyLast
<1> QED BY <1>7, <1>8, <1>9 DEF Ordered

\* What is sent back is poison.
LEMMA SettleOrder ==
  ASSUME DeliveryInv, SettleCurrent, Calm, Ordered PROVE Ordered'
<1>1. /\ buffer' = buffer /\ current' = NoMessage /\ sent' = sent
      /\ ready' = ready \/ (ready' = ready \cup {current} /\ current \in Poison)
  BY DEF SettleCurrent, Ack, Reject, Requeue, Calm
<1>2. InHand' = {} /\ Elements(buffer)' = Elements(buffer) BY <1>1 DEF InHand, Elements
<1>3. \A p, q : Before(p, q)' <=> Before(p, q) BY <1>1, BeforeSame
<1> QED BY <1>1, <1>2, <1>3 DEF Ordered, HandFirst, BufferInOrder, ReadyLast

LEMMA OrderNext == ASSUME DeliveryInv, OrderInv, [Next]_vars PROVE OrderInv'
<1>0. SentOnce BY DEF OrderInv
<1>1. SentOnce'
  <2>1. CASE sent' = sent BY <1>0, <2>1 DEF SentOnce
  <2>2. ASSUME NEW m \in Messages, Publish(m), sent' # sent PROVE SentOnce'
    BY <1>0, <2>2, AcceptedLast DEF Publish, Published, DeliveryInv
  <2> QED BY <2>1, <2>2
    DEF Next, Deliver, DetachedEnds, Connect, Take, Answered, Handled, NotHandled, SettleCurrent, Ack,
        Reject, Requeue, LinkNoticed, PublisherBreaks, LinkBreaks, GatewayRestarts, vars, broker
<1> SUFFICES ASSUME faultsLeft' = MaxFaults PROVE Calm' /\ Ordered' BY <1>1 DEF OrderInv
<1>2. Calm /\ Ordered /\ \A f \in {"link", "restart", "answer", "error", "publish"} : ~Fault(f)
  BY CalmBefore DEF OrderInv
<1>3. Calm'
  BY <1>2 DEF Calm, Next, Publish, Deliver, DetachedEnds, Connect, Take, Answered, Handled, NotHandled,
              SettleCurrent, Ack, Reject, Requeue, LinkNoticed, PublisherBreaks, LinkBreaks,
              GatewayRestarts, vars, consumer, broker, component
<1>4. ASSUME sent' = sent, ready' = ready, buffer' = buffer, current' = current PROVE Ordered'
  <2>1. InHand' = InHand /\ Elements(buffer)' = Elements(buffer) BY <1>4 DEF InHand, Elements
  <2> QED BY <1>2, <1>4, <2>1, BeforeSame DEF Ordered, HandFirst, BufferInOrder, ReadyLast
<1>5. ~PublisherBreaks /\ ~LinkBreaks /\ ~GatewayRestarts /\ ~LinkNoticed
  BY <1>2 DEF PublisherBreaks, LinkBreaks, GatewayRestarts, LinkNoticed, Calm
<1>6. Connect \/ Answered \/ (\E m \in Messages : DetachedEnds(m)) \/ UNCHANGED vars => Ordered'
  BY <1>4 DEF Connect, Answered, Handled, NotHandled, DetachedEnds, vars, broker, consumer
<1> QED BY <1>0, <1>2, <1>3, <1>5, <1>6, PublishOrder, DeliverOrder, TakeOrder, SettleOrder DEF Next

\* Until something breaks, messages are settled in the order they were accepted in, but for those
\* that the component sent back (consume_loop).
THEOREM NoOvertaking == Spec => OvertakesRequeuedOnly
<1> DEFINE A == \A m \in Settled' \ Settled, q \in Messages :
                  Before(q, m) /\ q \notin Settled => q \in Poison \/ faultsLeft < MaxFaults
<1>1. Init => OrderInv
  <2> SUFFICES ASSUME Init PROVE OrderInv OBVIOUS
  <2>1. sent = <<>> /\ buffer = <<>> /\ ready = {} /\ InHand = {} BY DEF Init, InHand
  <2> QED BY <2>1, EmptyElements DEF Init, OrderInv, SentOnce, Calm, Ordered, HandFirst, BufferInOrder, ReadyLast
<1>2. DeliveryInv /\ OrderInv /\ [Next]_vars => OrderInv' BY OrderNext
<1>3. DeliveryInv /\ OrderInv /\ [Next]_vars => [A]_vars
  <2> SUFFICES ASSUME DeliveryInv, OrderInv, [Next]_vars, NEW m \in Settled' \ Settled,
                      NEW q \in Messages, Before(q, m), q \notin Settled, q \notin Poison,
                      ~(faultsLeft < MaxFaults)
               PROVE  FALSE
    OBVIOUS
  <2>1. m = current /\ session = "up" /\ current # NoMessage
    <3>1. SettleCurrent
      BY DEF Next, Publish, Deliver, DetachedEnds, Connect, Take, Answered, Handled, NotHandled,
             LinkNoticed, PublisherBreaks, LinkBreaks, GatewayRestarts, vars, broker, Settled
    <3> QED BY <3>1 DEF SettleCurrent, Ack, Reject, Requeue, Settled, DeliveryInv, HandShape
  <2>2. faultsLeft = MaxFaults BY PrefetchAssumption DEF DeliveryInv, TypeOK
  <2>3. Ordered /\ SentOnce BY <2>2 DEF OrderInv
  <2>4. q \in Elements(sent) BY DEF Before, Elements
  <2>5. q \in ready \cup Elements(buffer) \cup InHand
    BY <2>1, <2>4 DEF DeliveryInv, Conserved, WindowShape, Settled
  <2>6. m \in InHand /\ (q \in InHand => q = m) BY <2>1 DEF InHand
  <2> QED BY <2>3, <2>5, <2>6, NotBeforeItself DEF Ordered, HandFirst, ReadyLast, DeliveryInv
<1> QED BY <1>1, <1>2, <1>3, DeliveryCorrect, PTL DEF Spec, OvertakesRequeuedOnly
===============================================================================
