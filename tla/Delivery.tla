------------------------------- MODULE Delivery -------------------------------
(***************************************************************************)
(* One queue of the AMQP bridge (octy-data-gateway, amqp.rs): publications *)
(* of the components, the broker's queue with its prefetch window, and the *)
(* consumer loop that forwards one delivery at a time to a component and   *)
(* acknowledges, drops or requeues it by the answer.  The broker and its   *)
(* client library are modelled from how the loop uses them.                *)
(***************************************************************************)
EXTENDS Integers, Sequences, FiniteSets

CONSTANTS
  Messages,   \* messages of this routing key
  Garbage,    \* those that are not JSON
  Refused,    \* those that the component answers with a 4xx
  Poison,     \* those that it always answers with a 5xx
  NoMessage,
  Prefetch,   \* basic_qos: deliveries that may be unacknowledged (10)
  Faults,     \* "link", "restart", "answer", "error", "publish"
  MaxFaults   \* bound: how many of them

ASSUME MessagesAssumption ==
  /\ NoMessage \notin Messages
  /\ Garbage \subseteq Messages /\ Refused \subseteq Messages /\ Poison \subseteq Messages
ASSUME PrefetchAssumption == Prefetch \in Nat \ {0} /\ MaxFaults \in Nat

VARIABLES
  publisher,  \* whether the connection for publications works
  bound,      \* whether the queue has been declared and bound
  sent,       \* messages that the broker accepted, oldest first
  vanished,   \* messages reported as published that the broker did not keep
  ready,      \* broker: messages to be delivered
  unacked,    \* broker: messages delivered in the current session
  session,    \* consumer: no connection, a working one, or one it does not know is lost
  buffer,     \* consumer: deliveries received and not looked at
  current,    \* consumer: the delivery in hand
  post,       \* consumer: how far it got with it
  detached,   \* per message, executions whose caller is gone
  handled,    \* per message, times that the component carried it out
  acked,      \* messages acknowledged
  dropped,    \* messages rejected without requeue
  faultsLeft

broker == <<bound, sent, vanished, ready, unacked, acked, dropped>>
consumer == <<session, buffer, current, post>>
component == <<detached, handled>>
vars == <<publisher, broker, consumer, component, faultsLeft>>

Settled == acked \cup dropped
Good == Messages \ (Garbage \cup Refused \cup Poison)
Elements(s) == {s[i] : i \in DOMAIN s}
Published == Elements(sent) \cup vanished
Fault(f) == f \in Faults /\ faultsLeft > 0 /\ faultsLeft' = faultsLeft - 1
\* Order of acceptance, which a requeued message keeps.
Before(m, q) == \E i, j \in DOMAIN sent : i < j /\ sent[i] = m /\ sent[j] = q

Init ==
  /\ publisher = TRUE /\ bound = FALSE
  /\ sent = <<>> /\ vanished = {} /\ ready = {} /\ unacked = {}
  /\ session = "down" /\ buffer = <<>> /\ current = NoMessage /\ post = "none"
  /\ detached = [m \in Messages |-> 0] /\ handled = [m \in Messages |-> 0]
  /\ acked = {} /\ dropped = {}
  /\ faultsLeft = MaxFaults

-----------------------------------------------------------------------------
(* Publications.  Nothing asks the broker for a confirmation, or for the   *)
(* return of a message that no queue is bound to.                          *)

Publish(m) ==
  /\ publisher /\ m \notin Published
  /\ IF bound
     THEN sent' = Append(sent, m) /\ ready' = ready \cup {m} /\ UNCHANGED vanished
     ELSE vanished' = vanished \cup {m} /\ UNCHANGED <<sent, ready>>
  /\ UNCHANGED <<publisher, bound, unacked, acked, dropped, consumer, component, faultsLeft>>

\* The connection breaks after it took the bytes of a message, or between messages.
\* The publisher never opens another one: later calls are answered with a 500.
PublisherBreaks ==
  /\ publisher /\ publisher' = FALSE
  /\ Fault("publish")
  /\ \/ UNCHANGED vanished
     \/ \E m \in Messages \ Published : vanished' = vanished \cup {m}
  /\ UNCHANGED <<bound, sent, ready, unacked, acked, dropped, consumer, component>>

-----------------------------------------------------------------------------
(* The consumer loop.                                                      *)

\* Declare, bind, set the prefetch and consume.
\* (mutant: the loop is not entered again after the first session)
ConnectOnce ==
  /\ session = "down" /\ ~bound
  /\ session' = "up" /\ bound' = TRUE
  /\ UNCHANGED <<sent, vanished, ready, unacked, acked, dropped, buffer, current, post>>
  /\ UNCHANGED <<publisher, component, faultsLeft>>
Connect ==
  /\ session = "down"
  /\ session' = "up" /\ bound' = TRUE
  /\ UNCHANGED <<sent, vanished, ready, unacked, acked, dropped, buffer, current, post>>
  /\ UNCHANGED <<publisher, component, faultsLeft>>

\* The broker delivers the oldest message while the window has room.
Deliver(m) ==
  /\ session = "up" /\ Cardinality(unacked) < Prefetch
  /\ m \in ready /\ \A q \in ready : ~Before(q, m)
  /\ ready' = ready \ {m} /\ unacked' = unacked \cup {m}
  /\ buffer' = Append(buffer, m)
  /\ UNCHANGED <<bound, sent, vanished, acked, dropped, session, current, post>>
  /\ UNCHANGED <<publisher, component, faultsLeft>>

\* The next delivery: refused if it is not JSON, posted to the component otherwise.
\* Deliveries of a lost session are still handed out.
\* (mutants: the latest delivery first; acknowledged before it is posted)
TakeLatest ==
  /\ session # "down" /\ current = NoMessage /\ buffer # <<>>
  /\ current' = buffer[Len(buffer)] /\ buffer' = SubSeq(buffer, 1, Len(buffer) - 1)
  /\ post' = IF current' \in Garbage THEN "refused" ELSE "posted"
  /\ UNCHANGED <<publisher, broker, session, component, faultsLeft>>
TakeAcked ==
  /\ session # "down" /\ current = NoMessage /\ buffer # <<>>
  /\ current' = Head(buffer) /\ buffer' = Tail(buffer)
  /\ post' = IF Head(buffer) \in Garbage THEN "refused" ELSE "posted"
  /\ IF session = "up"
     THEN acked' = acked \cup {Head(buffer)} /\ unacked' = unacked \ {Head(buffer)}
     ELSE UNCHANGED <<acked, unacked>>
  /\ UNCHANGED <<publisher, bound, sent, vanished, ready, dropped, session, component, faultsLeft>>
Take ==
  /\ session # "down" /\ current = NoMessage /\ buffer # <<>>
  /\ current' = Head(buffer) /\ buffer' = Tail(buffer)
  /\ post' = IF Head(buffer) \in Garbage THEN "refused" ELSE "posted"
  /\ UNCHANGED <<publisher, broker, session, component, faultsLeft>>

\* The component carries the message out and answers, with a 2xx unless the answer is
\* lost or something fails after the effect.
Handled ==
  /\ post = "posted" /\ current \in Good
  /\ handled' = [handled EXCEPT ![current] = @ + 1]
  /\ \/ post' = "ok" /\ UNCHANGED faultsLeft
     \/ post' = "error" /\ Fault("answer")
  /\ UNCHANGED <<publisher, broker, session, buffer, current, detached>>

\* It answers without an effect: 4xx, 5xx, or it is not reached.
NotHandled ==
  /\ post = "posted"
  /\ \/ current \in Refused /\ post' = "refused" /\ UNCHANGED faultsLeft
     \/ current \in Poison \ Refused /\ post' = "error" /\ UNCHANGED faultsLeft
     \/ post' = "error" /\ Fault("error")
  /\ UNCHANGED <<publisher, broker, session, buffer, current, component>>

\* The delivery in hand is done with.  In a lost session the broker hears nothing of it,
\* and the error is ignored.
\* (mutant: carried out and requeued)
AckRequeues ==
  /\ post = "ok"
  /\ IF session = "up" THEN unacked' = unacked \ {current} /\ ready' = ready \cup {current}
                       ELSE UNCHANGED <<unacked, ready>>
  /\ current' = NoMessage /\ post' = "none"
  /\ UNCHANGED <<bound, sent, vanished, acked, dropped, session, buffer>>
  /\ UNCHANGED <<publisher, component, faultsLeft>>
Ack ==
  /\ post = "ok"
  /\ IF session = "up" THEN unacked' = unacked \ {current} /\ acked' = acked \cup {current}
                       ELSE UNCHANGED <<unacked, acked>>
  /\ current' = NoMessage /\ post' = "none"
  /\ UNCHANGED <<bound, sent, vanished, ready, dropped, session, buffer>>
  /\ UNCHANGED <<publisher, component, faultsLeft>>
Reject ==
  /\ post = "refused"
  /\ IF session = "up" THEN unacked' = unacked \ {current} /\ dropped' = dropped \cup {current}
                       ELSE UNCHANGED <<unacked, dropped>>
  /\ current' = NoMessage /\ post' = "none"
  /\ UNCHANGED <<bound, sent, vanished, ready, acked, session, buffer>>
  /\ UNCHANGED <<publisher, component, faultsLeft>>
\* (mutants: rejected without requeue; acknowledged)
RequeueDrops ==
  /\ post = "error"
  /\ IF session = "up" THEN unacked' = unacked \ {current} /\ dropped' = dropped \cup {current}
                       ELSE UNCHANGED <<unacked, dropped>>
  /\ current' = NoMessage /\ post' = "none"
  /\ UNCHANGED <<bound, sent, vanished, ready, acked, session, buffer>>
  /\ UNCHANGED <<publisher, component, faultsLeft>>
RequeueForgets ==
  /\ post = "error"
  /\ unacked' = IF session = "up" THEN unacked \ {current} ELSE unacked
  /\ current' = NoMessage /\ post' = "none"
  /\ UNCHANGED <<bound, sent, vanished, ready, acked, dropped, session, buffer>>
  /\ UNCHANGED <<publisher, component, faultsLeft>>
Requeue ==
  /\ post = "error"
  /\ IF session = "up" THEN unacked' = unacked \ {current} /\ ready' = ready \cup {current}
                       ELSE UNCHANGED <<unacked, ready>>
  /\ current' = NoMessage /\ post' = "none"
  /\ UNCHANGED <<bound, sent, vanished, acked, dropped, session, buffer>>
  /\ UNCHANGED <<publisher, component, faultsLeft>>

-----------------------------------------------------------------------------
(* Broken connections and restarts.                                        *)

\* The broker loses the session and requeues its window.  The loop learns of it when
\* it asks for the next delivery, then or after what it had received before.
LinkBreaks ==
  /\ session = "up" /\ session' = "lost"
  /\ Fault("link")
  /\ ready' = ready \cup unacked /\ unacked' = {}
  /\ UNCHANGED <<bound, sent, vanished, acked, dropped, buffer, current, post>>
  /\ UNCHANGED <<publisher, component>>
\* (mutant: the next session goes on with what was received in the lost one)
LinkNoticedKeeps ==
  /\ session = "lost" /\ current = NoMessage
  /\ session' = "down"
  /\ UNCHANGED <<publisher, broker, buffer, current, post, component, faultsLeft>>
LinkNoticed ==
  /\ session = "lost" /\ current = NoMessage
  /\ session' = "down" /\ buffer' = <<>>
  /\ UNCHANGED <<publisher, broker, current, post, component, faultsLeft>>

\* The gateway dies and is started again.  A component that was carrying out a
\* message may go on.
GatewayRestarts ==
  /\ Fault("restart")
  /\ publisher' = TRUE
  /\ session' = "down" /\ buffer' = <<>> /\ current' = NoMessage /\ post' = "none"
  /\ ready' = ready \cup unacked /\ unacked' = {}
  /\ \/ UNCHANGED detached
     \/ post = "posted" /\ current \in Good /\ detached' = [detached EXCEPT ![current] = @ + 1]
  /\ UNCHANGED <<bound, sent, vanished, acked, dropped, handled>>
DetachedEnds(m) ==
  /\ detached[m] > 0
  /\ detached' = [detached EXCEPT ![m] = @ - 1]
  /\ handled' = [handled EXCEPT ![m] = @ + 1]
  /\ UNCHANGED <<publisher, broker, consumer, faultsLeft>>

-----------------------------------------------------------------------------
Answered == Handled \/ NotHandled
SettleCurrent == Ack \/ Reject \/ Requeue

Next ==
  \/ \E m \in Messages : Publish(m) \/ Deliver(m) \/ DetachedEnds(m)
  \/ Connect \/ Take \/ Answered \/ SettleCurrent \/ LinkNoticed
  \/ PublisherBreaks \/ LinkBreaks \/ GatewayRestarts

Spec == Init /\ [][Next]_vars

\* The loop reconnects and goes on, the component answers every request, and the broker
\* fills the window whenever there is room, much faster than a request takes.
Fairness ==
  /\ WF_vars(Connect) /\ WF_vars(Take) /\ WF_vars(Answered) /\ WF_vars(SettleCurrent)
  /\ WF_vars(LinkNoticed)
  /\ \A m \in Messages : SF_vars(Deliver(m))
FairSpec == Spec /\ Fairness

-----------------------------------------------------------------------------
\* The types of the variables.
TypeOK ==
  /\ publisher \in BOOLEAN /\ bound \in BOOLEAN
  /\ sent \in Seq(Messages) /\ buffer \in Seq(Messages)
  /\ vanished \subseteq Messages /\ ready \subseteq Messages /\ unacked \subseteq Messages
  /\ acked \subseteq Messages /\ dropped \subseteq Messages
  /\ session \in {"down", "up", "lost"}
  /\ post \in {"none", "posted", "ok", "refused", "error"}
  /\ current \in Messages \cup {NoMessage}
  /\ detached \in [Messages -> Nat] /\ handled \in [Messages -> Nat]
  /\ faultsLeft \in 0..MaxFaults

\* Whatever breaks, a message that the broker accepted is in exactly one place: to be
\* delivered, out for delivery, acknowledged or dropped.
Conserved ==
  /\ Elements(sent) = ready \cup unacked \cup acked \cup dropped
  /\ ready \cap unacked = {} /\ (ready \cup unacked) \cap Settled = {} /\ acked \cap dropped = {}

\* A message leaves the queue for its own answer: acknowledged if it was carried out,
\* dropped if it can never be ("2xx -> ack, 4xx -> reject (no requeue)").
AnswersItsOwn ==
  /\ \A m \in acked : handled[m] > 0
  /\ dropped \subseteq Garbage \cup Refused

\* A message is carried out once, and at most once more for every fault, however much of
\* the window was out when it struck.
RepeatedForFaultsOnly == \A m \in Messages : handled[m] <= 1 + (MaxFaults - faultsLeft)

\* A message overtakes an earlier one only if that one was sent back, by the component or
\* by a fault.
OvertakesRequeuedOnly ==
  [][\A m \in Settled' \ Settled, q \in Messages :
       Before(q, m) /\ q \notin Settled => q \in Poison \/ faultsLeft < MaxFaults]_vars

\* A message that can be settled is, as long as fewer messages than the window holds are
\* sent back again and again.
SettlesInTheEnd == \A m \in Messages \ Poison : m \in ready ~> m \in Settled

-----------------------------------------------------------------------------
(* Why they hold: together with TypeOK, an inductive invariant.            *)

InHand == IF current = NoMessage THEN {} ELSE {current}
\* What the consumer holds is the window of a working session; what it holds of a lost
\* one has been requeued.
WindowShape ==
  /\ \A i, j \in DOMAIN buffer : buffer[i] = buffer[j] => i = j
  /\ current \notin Elements(buffer)
  /\ session = "up" => unacked = Elements(buffer) \cup InHand
  /\ session = "lost" => unacked = {} /\ Elements(buffer) \cup InHand \subseteq ready
  /\ session = "down" => unacked = {} /\ buffer = <<>> /\ current = NoMessage

HandShape ==
  /\ (post = "none") = (current = NoMessage)
  /\ post = "ok" => handled[current] > 0
  /\ post = "refused" => current \in Garbage \cup Refused

\* Executions of a message that have begun, and those that a lost session may still
\* cause, have each been paid for with a fault, but for the one it is settled with.
Executions(m) ==
  handled[m] + detached[m]
  + (IF session = "lost" /\ (m \in Elements(buffer) \/ (current = m /\ post = "posted")) THEN 1 ELSE 0)
Allowance(m) == IF m \in Settled \/ (session = "up" /\ current = m /\ post = "ok") THEN 1 ELSE 0
Paid == \A m \in Messages : Executions(m) <= MaxFaults - faultsLeft + Allowance(m)

DetachedIsSent == \A m \in Messages : detached[m] > 0 => m \in Elements(sent)

DeliveryInv ==
  /\ TypeOK
  /\ Conserved /\ AnswersItsOwn
  /\ WindowShape /\ HandShape /\ Paid /\ DetachedIsSent

-----------------------------------------------------------------------------
(* The refinement of Mailbox.                                              *)
Box == INSTANCE Mailbox WITH
  Letters <- Messages, Unwanted <- Garbage \cup Refused,
  waiting <- ready \cup unacked, settled <- Settled, given <- handled
\* An accepted message stays until it is carried out or refused.
BoxSpec == Box!Spec
===============================================================================
