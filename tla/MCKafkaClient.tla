---------------------------- MODULE MCKafkaClient ----------------------------
(* The Kafka client with two consumer groups, for TLC.  At first one of them *)
(* has a committed offset and the other has none.                            *)
EXTENDS KafkaClient

MCInit ==
    /\ Init
    /\ committed = CHOOSE f \in [Groups -> {NoOffset, 0}] : \E g, h \in Groups : f[g] # f[h]

MCSpec == MCInit /\ [][Next]_vars /\ Fairness
=============================================================================
