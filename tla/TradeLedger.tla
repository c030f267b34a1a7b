---------------------------- MODULE TradeLedger -----------------------------
(***************************************************************************)
(* The CSV ledgers of the forward testers.  A ledger is the number of rows *)
(* it holds per date.  Saving reads the whole file, drops the rows of the  *)
(* date, appends the new ones and writes the file again, in place.         *)
(***************************************************************************)
EXTENDS Integers

CONSTANTS
    Date,       \* session dates
    MaxRows     \* most rows one session has

ASSUME LedgerAssumption == MaxRows \in Nat

Ledger == [Date -> 0..MaxRows]

NoHistory == [d \in Date |-> 0]

\* Mutant: the history is not read back.
RewrittenAlone(ledger, d, n) == [NoHistory EXCEPT ![d] = n]

Rewritten(ledger, d, n) == [ledger EXCEPT ![d] = n]

\* What a writer killed in to_csv leaves: to_csv truncates and the rows that
\* were written, of any dates, are all that the next reader finds.
CutShort(ledger) ==
    {l \in Ledger : l # ledger /\ \A d \in Date : l[d] <= ledger[d]}
=============================================================================
