----------------------------- MODULE MCOperations ----------------------------
EXTENDS Operations
CONSTANTS nifty, sensex
\* The contracts of the two indices expire on days that follow each other, and a
\* holiday comes after them.
MCExpiries == [u \in Underlying |-> IF u = nifty THEN {1, 4, 5} ELSE {2, 4, 5}]
MCTrading == {1, 2}
=============================================================================
