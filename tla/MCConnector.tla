---------------------------- MODULE MCConnector ----------------------------
EXTENDS Connector, TLC

CONSTANTS g1, g2, w1, w2
Interchangeable == Permutations(Objects) \cup Permutations(Uids)
Talkative == [g \in Cids |-> IF g = g1 THEN 3 ELSE 0]
TwoWorkers == [g \in Cids |-> IF g = g2 THEN w2 ELSE w1]
=============================================================================
