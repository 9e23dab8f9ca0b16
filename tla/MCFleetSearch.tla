---------------------------- MODULE MCFleetSearch ----------------------------
EXTENDS FleetSearch
MCKind == {[time |-> 1, match |-> TRUE], [time |-> 2, match |-> TRUE]}
MCSession == 1..2
MCOperator == {1}
MCRequest == {1}
===============================================================================
