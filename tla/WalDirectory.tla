---------------------------- MODULE WalDirectory ----------------------------
(***************************************************************************)
(* The directory data/tick_wal that the C++ collector writes and the       *)
(* Python streamer tails: the only thing the two processes share.          *)
(*                                                                         *)
(* A segment wal_ticks_<tag>.jsonl is named by the number of its creation, *)
(* because the time tags sort in creation order and both programs only     *)
(* ever compare names.  A segment's content is a sequence of half lines: a *)
(* tick t occupies two consecutive positions, the second one carrying the  *)
(* newline.  An offset counts half lines, so an odd offset lies inside a   *)
(* line.  Nothing the properties distinguish depends on more bytes.        *)
(***************************************************************************)
EXTENDS Integers, Sequences, FiniteSets, SequencesExt

CONSTANTS
    NTicks,        \* bound: valid ticks the feed delivers
    MaxSegments    \* bound: WAL segments the collector creates

ASSUME BoundsAssumption == NTicks \in Nat /\ MaxSegments \in Nat

VARIABLES
    files,      \* segments listed in the directory
    content,    \* half lines of each segment's inode, readable by others
    space,      \* free disk: "ok" (>= 2 GB), "low" (1..2 GB), "critical" (< 1 GB)
    lost        \* history: ticks the pipeline can no longer deliver

Tick    == 1..NTicks
Segment == 1..MaxSegments
NoFile  == 0

\* The line of tick t: its first half and the half with the newline.
Line(t) == <<t, t>>

\* What readline() returns at offset o of c: a whole line, or what there is
\* of one when the file ends, or the offset lies, inside it.
WholeLine(c, o) == o % 2 = 0 /\ o + 2 <= Len(c)
LineEnd(c, o)   == IF WholeLine(c, o) THEN o + 2 ELSE o + 1

\* The ticks with a half at or past offset o.
TicksPast(c, o) == {c[i] : i \in (o + 1)..Len(c)}

\* The ticks a reader that stands at offset o of segment f has in front of
\* it.  A reader whose segment is not listed starts over at the first one.
TicksAhead(f, o) ==
    UNION { CASE g = f -> TicksPast(content[g], o)
              [] g < f /\ f \in files -> {}
              [] OTHER -> TicksPast(content[g], 0) : g \in files }

\* Content with the half lines s appended to segment f (none if f = NoFile).
Appended(f, s) == [g \in Segment |-> IF g = f THEN content[g] \o s ELSE content[g]]

\* Another segment sorts after f.
HasNewer(f) == \E g \in files : g > f

DirTypeOK ==
    /\ files \in SUBSET Segment
    /\ content \in [Segment -> Seq(Tick)]
    /\ space \in {"ok", "low", "critical"}
    /\ lost \in SUBSET Tick

DirInit ==
    /\ files = {}
    /\ content = [f \in Segment |-> <<>>]
    /\ space = "ok"
    /\ lost = {}

\* Other users of the root volume fill it or free it.
SpaceChanges ==
    /\ space' \in {"ok", "low", "critical"} \ {space}
    /\ UNCHANGED <<files, content, lost>>
=============================================================================
