------------------------------- MODULE Mailbox -------------------------------
(***************************************************************************)
(* What a sender may expect of the AMQP bridge, without connections,       *)
(* prefetch windows or acknowledgements: an accepted message stays until   *)
(* the component behind the queue has carried it out, or is one that the   *)
(* component will never take.  It may be carried out more than once, even  *)
(* after it is settled.                                                    *)
(***************************************************************************)
EXTENDS Integers

CONSTANTS
  Letters,     \* every message there may be
  Unwanted     \* messages that the component refuses

VARIABLES
  waiting,   \* accepted and not settled
  settled,   \* gone from the mailbox
  given      \* per message, how often it was carried out

mailbox == <<waiting, settled, given>>

Init == waiting = {} /\ settled = {} /\ given = [m \in Letters |-> 0]

Accept(m) ==
  /\ m \notin waiting \cup settled
  /\ waiting' = waiting \cup {m}
  /\ UNCHANGED <<settled, given>>

Give(m) ==
  /\ m \in waiting \cup settled
  /\ given' = [given EXCEPT ![m] = @ + 1]
  /\ UNCHANGED <<waiting, settled>>

Settle(m) ==
  /\ m \in waiting
  /\ given[m] > 0 \/ m \in Unwanted
  /\ waiting' = waiting \ {m}
  /\ settled' = settled \cup {m}
  /\ UNCHANGED given

Next == \E m \in Letters : Accept(m) \/ Give(m) \/ Settle(m)

Spec == Init /\ [][Next]_mailbox
==============================================================================
