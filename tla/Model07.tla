------------------------------ MODULE Model07 -------------------------------
(***************************************************************************)
(* Model 07: one trading day of rolling short strangles.  A strangle is    *)
(* named by its centre, the at-the-money strike in steps of 50 points.     *)
(* Premiums are left out: what they decide is whether a strangle is quoted *)
(* at all.                                                                 *)
(***************************************************************************)
EXTENDS Integers, Sequences, FiniteSets, FiniteSetsExt

CONSTANTS
    Windows,    \* tranche windows of a day (5)
    Hour,       \* minutes per window (60)
    Otm,        \* distance of the two legs from the centre, in steps (2)
    Bars,       \* one-minute bars the feed may show
    Centre      \* centres that can come up

ASSUME WindowAssumption ==
    /\ Windows \in Nat \ {0}
    /\ Hour \in Nat \ {0}
    /\ Otm \in Nat \ {0}
ASSUME BarAssumption ==
    /\ Centre \subseteq Int
    /\ \A b \in Bars : b \in [high : Int, low : Int, close : Centre]

Window == 1..Windows

EntryAt(w) == w * Hour

Close == EntryAt(Windows + 1)       \* 14:30

None == [window |-> 0]

Tranche == [window : Window, centre : Centre, exit : Nat,
            high : Int, low : Int, covered : SUBSET Window]

Settled == [window : Window, covered : SUBSET Window,
            reason : {"DOUBLE_BREACH_STOP", "CE_BREACH_PE_WING_HARVEST",
                      "PE_BREACH_CE_WING_HARVEST", "NORMAL_DECAY"}]

NewDay == [state |-> "ACTIVE", active |-> None, closed |-> <<>>, executed |-> {},
           completed |-> FALSE, report |-> <<>>, dropped |-> {}]

-----------------------------------------------------------------------------
(* Section 1 of on_minute_bar: the tranche held.                           *)

Ranged(t, bar) == [t EXCEPT !.high = Max({@, bar.high}), !.low = Min({@, bar.low})]

CallBreached(t) == t.high >= t.centre + Otm
PutBreached(t)  == t.low <= t.centre - Otm

BreachReason(t) ==
    CASE CallBreached(t) /\ PutBreached(t) -> "DOUBLE_BREACH_STOP"
      [] CallBreached(t) /\ ~PutBreached(t) -> "CE_BREACH_PE_WING_HARVEST"
      [] OTHER -> "PE_BREACH_CE_WING_HARVEST"

Settle(day, t, reason) ==
    [day EXCEPT !.active = None,
                !.closed = Append(@, [window |-> t.window, covered |-> t.covered, reason |-> reason])]

\* get_quote_or_fallback answers for both legs (no theoretical price is allowed).
Priced(centre, quoted) == centre \in quoted

\* A tranche that cannot be priced stays open and halts the model.
CloseNormalDecay(day, t, quoted) ==
    IF Priced(t.centre, quoted) THEN Settle(day, t, "NORMAL_DECAY")
                           ELSE [day EXCEPT !.active = t, !.state = "HALTED"]

\* The windows that begin where the tranche's window ends and were not used.
NextWindows(day, t) == {w \in Window \ day.executed : EntryAt(w) = t.exit}

\* Mutant: the window rolled into is not marked as executed.
RolledOverUnmarked(day, t) ==
    LET w == CHOOSE n \in NextWindows(day, t) : TRUE
    IN  [day EXCEPT !.active = [t EXCEPT !.exit = EntryAt(w + 1), !.covered = @ \cup {w}]]

RolledOver(day, t) ==
    LET w == CHOOSE n \in NextWindows(day, t) : TRUE
    IN  [day EXCEPT !.active = [t EXCEPT !.exit = EntryAt(w + 1), !.covered = @ \cup {w}],
                    !.executed = @ \cup {w}]

\* Mutant: the exit comes one bar late.
HoldsLate(day, m, bar, quoted) ==
    IF day.active = None THEN day ELSE
    LET t == Ranged(day.active, bar)
    IN  CASE CallBreached(t) \/ PutBreached(t) -> Settle(day, t, BreachReason(t))
          [] m > t.exit /\ ~(CallBreached(t) \/ PutBreached(t)) ->
                IF NextWindows(day, t) # {} /\ bar.close = t.centre
                THEN RolledOver(day, t)
                ELSE CloseNormalDecay(day, t, quoted)
          [] OTHER -> [day EXCEPT !.active = t]

HoldOrExit(day, m, bar, quoted) ==
    IF day.active = None THEN day ELSE
    LET t == Ranged(day.active, bar)
    IN  CASE CallBreached(t) \/ PutBreached(t) -> Settle(day, t, BreachReason(t))
          [] m >= t.exit /\ ~(CallBreached(t) \/ PutBreached(t)) ->
                IF NextWindows(day, t) # {} /\ bar.close = t.centre
                THEN RolledOver(day, t)
                ELSE CloseNormalDecay(day, t, quoted)
          [] OTHER -> [day EXCEPT !.active = t]

-----------------------------------------------------------------------------
(* Section 2: the entry, at the very minute a window begins.  It looks at  *)
(* neither the state nor the tranche section 1 may have left behind.       *)

Opened(w, bar) == [window |-> w, centre |-> bar.close, exit |-> EntryAt(w + 1),
                   high |-> bar.high, low |-> bar.low, covered |-> {w}]

EnterWindow(day, w, bar, quoted) ==
    IF Priced(bar.close, quoted)
    THEN [day EXCEPT !.executed = @ \cup {w}, !.active = Opened(w, bar),
                     !.dropped = IF day.active = None THEN @ ELSE @ \cup day.active.covered]
    ELSE [day EXCEPT !.executed = @ \cup {w}, !.state = "HALTED"]

EnterIfDue(day, m, bar, quoted) ==
    LET due == {w \in Window \ day.executed : EntryAt(w) = m}
    IN  IF due = {} THEN day ELSE EnterWindow(day, CHOOSE w \in due : TRUE, bar, quoted)

-----------------------------------------------------------------------------
(* Section 3: the report of the day.                                       *)

\* Mutant: the report is due when the last window begins.
ReportDueEarly(day, m) ==
    /\ m >= EntryAt(Windows)
    /\ Cardinality(day.executed) >= Windows \/ Len(day.closed) >= 1
    /\ ~day.completed

ReportDue(day, m) ==
    /\ m >= Close
    /\ Cardinality(day.executed) >= Windows \/ Len(day.closed) >= 1
    /\ ~day.completed

ReportIfDue(day, m) ==
    IF ReportDue(day, m) THEN [day EXCEPT !.completed = TRUE, !.report = day.closed] ELSE day

\* on_minute_bar of a model that was not halted before the bar.
OnMinuteBar(day, m, bar, quoted) ==
    ReportIfDue(EnterIfDue(HoldOrExit(day, m, bar, quoted), m, bar, quoted), m)
=============================================================================
