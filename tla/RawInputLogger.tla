--------------------------- MODULE RawInputLogger ---------------------------
(***************************************************************************)
(* The Parquet log of what one process of the forward engine has read.     *)
(* Messages are numbered from 1 and kept in order, so counts tell which of *)
(* them wait in the buffer, are in the file or were thrown away.  The file *)
(* can be read only once close() has written its footer.                   *)
(***************************************************************************)
EXTENDS Integers

CONSTANTS
    BatchSize,      \* messages that force a flush (50)
    MaxMessages     \* bound: messages a process logs

ASSUME RawAssumption == BatchSize \in Nat \ {0} /\ MaxMessages \in Nat

RawLog == [sent : 0..MaxMessages, buffer : 0..MaxMessages, rows : 0..MaxMessages,
           dropped : 0..MaxMessages, writer : BOOLEAN, sealed : BOOLEAN]

Unopened == [sent |-> 0, buffer |-> 0, rows |-> 0, dropped |-> 0, writer |-> FALSE, sealed |-> FALSE]

\* _init_writer: either of its branches opens the file anew, or fails.
InitWriter(raw) == {raw, [raw EXCEPT !.rows = 0, !.writer = TRUE]}

Cleared(raw, field) == [raw EXCEPT ![field] = @ + raw.buffer, !.buffer = 0]

\* Mutant: a batch that could not be written is cleared with the others.
FlushedAnyway(raw) ==
    {w \in {[r EXCEPT !.buffer = 0] : r \in InitWriter(raw)} : raw.writer => w.rows = raw.rows}

\* flush with records: the table is written, or write_table raises and the
\* buffer stays; without a writer the buffer is cleared all the same.
Flushed(raw) ==
    IF raw.writer THEN {raw, Cleared(raw, "rows")}
    ELSE {IF r.writer THEN Cleared(r, "rows") ELSE Cleared(r, "dropped") : r \in InitWriter(raw)}

\* log: by number or by age the buffer is flushed, or it waits.
Logged(raw) ==
    LET r == [raw EXCEPT !.sent = @ + 1, !.buffer = @ + 1]
    IN  Flushed(r) \cup (IF r.buffer >= BatchSize THEN {} ELSE {r})

\* The writer is gone, with or without its footer.
Released(r, footer) == [r EXCEPT !.sealed = footer /\ r.writer, !.writer = FALSE]

\* close: flush, then the footer, which may fail too.
Closed(raw) ==
    {Released(r, footer) :
        r \in (IF raw.buffer = 0 THEN {raw} ELSE Flushed(raw)), footer \in BOOLEAN}
=============================================================================
