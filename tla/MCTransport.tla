------------------------------ MODULE MCTransport ------------------------------
(* An instance of Transport for TLC: h1 registers for topic t1, h2 for t2.  *)
(* The runs of Rpc cover two registrations of one topic.                    *)
EXTENDS Transport

CONSTANTS t1, t2, h1, h2

MCTopics   == {t1, t2}
MCHandlers == {h1, h2}
MCTopic    == [h \in MCHandlers |-> IF h = h1 THEN t1 ELSE t2]

================================================================================
