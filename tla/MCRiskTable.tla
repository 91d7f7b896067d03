----------------------------- MODULE MCRiskTable -----------------------------
EXTENDS RiskTable

MCAverages == {[sum |-> 0, count |-> 0], [sum |-> 15000, count |-> 3],
               [sum |-> 33333, count |-> 2], [sum |-> 100000, count |-> 3]}

MCAges == {UnknownAge, 0, 23, 24}

MCAmounts == {1, 15000, 15001, 49999, 50000, 50001, 100000, 100001, 166666}
=============================================================================
