--------------------------- MODULE OrderedDelivery ---------------------------
(***************************************************************************)
(* What a handler of a consumer group relies on: once the group has an     *)
(* offset, the messages of its log reach it at least once and in order.  A *)
(* message may come again, from the broker's offset, but none comes before *)
(* all those in front of it have been handled, and the offset passes       *)
(* nothing that was not handled.  While the group has no offset, messages  *)
(* may be passed over.  KafkaClient shows that the code keeps this promise *)
(* and no more.                                                            *)
(***************************************************************************)
EXTENDS Integers

CONSTANTS
    Groups,      \* consumer groups
    Messages     \* the length of the log of a group

VARIABLES
    handled,     \* handled[g]: the messages whose handler has returned
    skipped,     \* skipped[g]: the messages that were passed over
    committed    \* committed[g]: the offset the broker keeps for g, or -1

Settled(g) == handled[g] \cup skipped[g]

Init ==
    /\ handled = [g \in Groups |-> {}] /\ skipped = [g \in Groups |-> {}]
    /\ committed \in [Groups -> {-1, 0}]

\* A handler returns from message m, which it may have handled before.
Handle(g, m) ==
    /\ 1 .. (m - 1) \subseteq Settled(g)
    /\ handled' = [handled EXCEPT ![g] = @ \cup {m}]
    /\ UNCHANGED <<skipped, committed>>

\* An offset is committed; a late commit may move it back.
Acknowledge(g, n) ==
    /\ 1 .. n \subseteq Settled(g)
    /\ committed' = [committed EXCEPT ![g] = n]
    /\ UNCHANGED <<handled, skipped>>

\* A consumer without an offset starts behind message n.
PassOver(g, n) ==
    /\ committed[g] = -1
    /\ skipped' = [skipped EXCEPT ![g] = @ \cup ((1 .. n) \ handled[g])]
    /\ UNCHANGED <<handled, committed>>

Next ==
    \E g \in Groups : \E n \in 1 .. Messages :
        Handle(g, n) \/ Acknowledge(g, n) \/ PassOver(g, n)

Spec == Init /\ [][Next]_<<handled, skipped, committed>>

=============================================================================
