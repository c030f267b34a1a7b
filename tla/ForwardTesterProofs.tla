------------------------ MODULE ForwardTesterProofs -------------------------
(***************************************************************************)
(* Proofs about the two forward testers.                                   *)
(*                                                                         *)
(* Model 07: for every number and length of windows, every set of bars and *)
(* centres, and every pattern of missing bars and quotes, a window is sold *)
(* once, a strangle leaves the book at its exit, the report is final; and  *)
(* the files of the replay agree.  The three sections of on_minute_bar do  *)
(* not look at each other.  What joins them is the span of the tranche:    *)
(* the windows it covers follow one another, the first began at its entry  *)
(* and the last ends at its exit.                                          *)
(*                                                                         *)
(* Strategy 6: for every set of legs and number of starts, entries and     *)
(* exceptions, the record of the day is kept, the legs open belong to one  *)
(* entry, and every logged message is accounted for.                       *)
(***************************************************************************)
EXTENDS Model07Replay, ForwardEngine, SequenceTheorems, TLAPS

-----------------------------------------------------------------------------
(* Model 07.                                                               *)

Day == [state : {"ACTIVE", "HALTED"}, active : Tranche \cup {None},
        closed : Seq(Settled), executed : SUBSET Window,
        completed : BOOLEAN, report : Seq(Settled), dropped : SUBSET Window]

HeldBy(d) == IF d.active = None THEN {} ELSE {d.active}

\* The windows of the tranche are those from its first to the one it ends with.
Spans(t) ==
    \E k \in Window : k >= t.window /\ t.covered = t.window..k /\ t.exit = EntryAt(k + 1)

\* What is sold is used up, and only once.
SoldOnce(d) ==
    /\ \A i \in DOMAIN d.closed : d.closed[i].covered \subseteq d.executed
    /\ \A t \in HeldBy(d) : t.covered \subseteq d.executed
    /\ d.dropped \subseteq d.executed
    /\ \A i, j \in DOMAIN d.closed : i # j => d.closed[i].covered \cap d.closed[j].covered = {}
    /\ \A i \in DOMAIN d.closed, t \in HeldBy(d) : d.closed[i].covered \cap t.covered = {}
    /\ \A i \in DOMAIN d.closed : d.closed[i].covered \cap d.dropped = {}
    /\ \A t \in HeldBy(d) : t.covered \cap d.dropped = {}

\* Entered at or before minute m.
Entered(d, m) == \A t \in HeldBy(d) : Spans(t) /\ EntryAt(t.window) <= m

\* Nothing stays past its exit at minute m, unless the model was halted.
InTime(d, m) ==
    /\ d.state = "ACTIVE" => \A t \in HeldBy(d) : m < t.exit
    /\ d.dropped # {} => d.state = "HALTED"

Reported(d, m) == d.completed => m >= Close

\* What holds of the day after the bar of minute n, with no gap above g.
BarInv(d, n, g) ==
    /\ d \in Day
    /\ SoldOnce(d)
    /\ Entered(d, n)
    /\ g <= Hour => InTime(d, n)
    /\ Reported(d, n)
    /\ d.completed => d.report = d.closed \/ g > Hour

DayInv == minute \in Nat /\ gap \in Nat /\ BarInv(day, minute, gap)

\* No two files differ on a date that is not suspect, not even while they are
\* rewritten; the files already rewritten have the rows of the day.
LedgerInv ==
    /\ daily \in [Date -> Nat] /\ master \in [Date -> Nat] /\ summary \in [Date -> Nat]
    /\ \A d \in Date \ suspect : daily[d] = master[d] /\ master[d] = summary[d]
    /\ phase # "down" => date \in Date
    /\ phase \in {"master", "summary"} => date \in suspect /\ daily[date] = Len(day.closed)
    /\ phase = "summary" => master[date] = Len(day.closed)

-----------------------------------------------------------------------------
(* Minutes.                                                                *)

\* Windows begin an hour apart, in order.
LEMMA EntryTimes ==
  /\ \A w \in Nat : EntryAt(w) \in Nat /\ EntryAt(w + 1) = EntryAt(w) + Hour
  /\ \A v, w \in Nat : v < w => EntryAt(v) + Hour <= EntryAt(w)
  <1>1. Hour \in Nat \ {0}  BY WindowAssumption
  <1>2. \A w \in Nat : w * Hour \in Nat /\ (w + 1) * Hour = w * Hour + Hour
    BY <1>1
  <1>3. ASSUME NEW v \in Nat, NEW w \in Nat, v < w
        PROVE  v * Hour + Hour <= w * Hour
    <2>1. PICK n \in Nat : w = v + 1 + n
      <3>1. w - v - 1 \in Nat /\ w = v + 1 + (w - v - 1)  BY <1>3
      <3> QED  BY <3>1
    <2>2. w * Hour = v * Hour + Hour + n * Hour  BY <1>1, <2>1
    <2>3. n * Hour \in Nat /\ v * Hour \in Nat  BY <1>1
    <2> QED  BY <1>1, <2>2, <2>3
  <1> QED  BY <1>2, <1>3 DEF EntryAt

\* So a window is known by its first minute, and none ends after the close.
LEMMA WindowTimes ==
  /\ \A v, w \in Nat : EntryAt(v) = EntryAt(w) => v = w
  /\ \A w \in Window : EntryAt(w + 1) <= Close /\ EntryAt(w) < Close
  /\ Close \in Nat /\ Hour \in Nat /\ Hour > 0
  <1>0. Hour \in Nat /\ Hour > 0 /\ Windows \in Nat  BY WindowAssumption
  <1>1. ASSUME NEW v \in Nat, NEW w \in Nat, EntryAt(v) = EntryAt(w)
        PROVE  v = w
    <2>1. CASE v < w  BY <1>0, <1>1, <2>1, EntryTimes
    <2>2. CASE w < v  BY <1>0, <1>1, <2>2, EntryTimes
    <2> QED  BY <2>1, <2>2
  <1>2. ASSUME NEW w \in Window
        PROVE  EntryAt(w + 1) <= Close /\ EntryAt(w) < Close
    <2>1. w \in Nat /\ w <= Windows  BY <1>0 DEF Window
    <2>2. EntryAt(w) + Hour <= EntryAt(Windows + 1)
      BY <1>0, <2>1, EntryTimes
    <2>3. EntryAt(w) \in Nat /\ EntryAt(w + 1) = EntryAt(w) + Hour
      BY <2>1, EntryTimes
    <2>4. EntryAt(Windows + 1) \in Nat  BY <1>0, EntryTimes
    <2> QED  BY <1>0, <2>2, <2>3, <2>4 DEF Close
  <1>3. Close \in Nat  BY <1>0, EntryTimes DEF Close
  <1> QED  BY <1>0, <1>1, <1>2, <1>3

-----------------------------------------------------------------------------
(* Section 1: the tranche held.                                            *)

\* A bar may move the range of a tranche and nothing else.
Same(t, u) ==
    u \in Tranche /\ u.window = t.window /\ u.exit = t.exit /\ u.covered = t.covered

LEMMA PairMaxMin ==
  ASSUME NEW a \in Int, NEW b \in Int
  PROVE  Max({a, b}) \in Int /\ Min({a, b}) \in Int
  <1>1. \E x \in {a, b} : \A y \in {a, b} : x >= y  OBVIOUS
  <1>2. \E x \in {a, b} : \A y \in {a, b} : x =< y  OBVIOUS
  <1> QED  BY <1>1, <1>2 DEF Max, Min

\* The longest gap never shrinks, and covers the step just made.
LEMMA LongestGap ==
  ASSUME NEW a \in Nat, NEW b \in Nat
  PROVE  Max({a, b}) \in Nat /\ a <= Max({a, b}) /\ b <= Max({a, b})
  <1>1. \E x \in {a, b} : \A y \in {a, b} : x >= y  OBVIOUS
  <1>2. Max({a, b}) \in {a, b} /\ \A y \in {a, b} : Max({a, b}) >= y
    BY <1>1 DEF Max
  <1> QED  BY <1>2

LEMMA RangedSame ==
  ASSUME NEW t \in Tranche, NEW bar \in Bars
  PROVE  Same(t, Ranged(t, bar))
  <1>1. bar.high \in Int /\ bar.low \in Int  BY BarAssumption
  <1>2. t.high \in Int /\ t.low \in Int  BY DEF Tranche
  <1>3. Max({t.high, bar.high}) \in Int /\ Min({t.low, bar.low}) \in Int
    BY <1>1, <1>2, PairMaxMin
  <1> QED  BY <1>3 DEF Same, Ranged, Tranche

\* A sum of cases, one equation per case.
LEMMA HoldCases ==
  ASSUME NEW d, NEW m, NEW bar, NEW quoted, d.active # None,
         NEW u, u = Ranged(d.active, bar)
  PROVE  LET breached == CallBreached(u) \/ PutBreached(u)
             hold     == HoldOrExit(d, m, bar, quoted)
         IN  /\ breached => hold = Settle(d, u, BreachReason(u))
             /\ ~breached /\ m >= u.exit =>
                   \/ /\ NextWindows(d, u) # {} /\ hold = RolledOver(d, u)
                   \/ /\ hold = CloseNormalDecay(d, u, quoted)
             /\ ~breached /\ ~(m >= u.exit) => hold = [d EXCEPT !.active = u]
  BY DEF HoldOrExit

LEMMA NoneHeld ==
  ASSUME NEW d, NEW m, NEW bar, NEW quoted, d.active = None
  PROVE  HoldOrExit(d, m, bar, quoted) = d
  BY DEF HoldOrExit

LEMMA BreachReasonTyped ==
  ASSUME NEW t
  PROVE  BreachReason(t) \in {"DOUBLE_BREACH_STOP", "CE_BREACH_PE_WING_HARVEST",
                              "PE_BREACH_CE_WING_HARVEST"}
  BY DEF BreachReason

\* No tranche is the record of no tranche.
LEMMA TrancheHeld ==
  ASSUME NEW d \in Day
  PROVE  /\ None \notin Tranche
         /\ d.active # None => d.active \in Tranche /\ HeldBy(d) = {d.active}
         /\ d.active = None => HeldBy(d) = {}
  BY DEF Day, None, Tranche, HeldBy, Window

\* What a section leaves of the rest of the day.
Keeps(d, e) ==
    /\ e \in Day
    /\ e.completed = d.completed /\ e.report = d.report
    /\ e.dropped = d.dropped /\ d.executed \subseteq e.executed

\* A tranche that is settled moves its windows from the book to the list.
LEMMA SettleStep ==
  ASSUME NEW d \in Day, SoldOnce(d), d.active # None,
         NEW u, Same(d.active, u),
         NEW r \in {"DOUBLE_BREACH_STOP", "CE_BREACH_PE_WING_HARVEST",
                    "PE_BREACH_CE_WING_HARVEST", "NORMAL_DECAY"}
  PROVE  /\ Keeps(d, Settle(d, u, r))
         /\ SoldOnce(Settle(d, u, r))
         /\ HeldBy(Settle(d, u, r)) = {}
         /\ Settle(d, u, r).state = d.state
  <1> DEFINE e == Settle(d, u, r)
             s == [window |-> u.window, covered |-> u.covered, reason |-> r]
  <1>1. s \in Settled /\ s.covered = d.active.covered
    BY DEF Same, Tranche, Settled
  <1>2. /\ e.active = None /\ e.closed = Append(d.closed, s)
        /\ e.state = d.state /\ e.executed = d.executed
        /\ e.completed = d.completed /\ e.report = d.report /\ e.dropped = d.dropped
    BY DEF Settle, Day
  <1>3. d.closed \in Seq(Settled)  BY DEF Day
  <1> HIDE DEF s
  <1>4. /\ Append(d.closed, s) \in Seq(Settled)
        /\ DOMAIN Append(d.closed, s) = DOMAIN d.closed \cup {Len(d.closed) + 1}
        /\ Len(d.closed) + 1 \notin DOMAIN d.closed
        /\ \A i \in DOMAIN d.closed : Append(d.closed, s)[i] = d.closed[i]
        /\ Append(d.closed, s)[Len(d.closed) + 1] = s
    <2>1. /\ Append(d.closed, s) \in Seq(Settled)
          /\ Len(Append(d.closed, s)) = Len(d.closed) + 1
          /\ \A i \in 1..Len(d.closed) : Append(d.closed, s)[i] = d.closed[i]
          /\ Append(d.closed, s)[Len(d.closed) + 1] = s
      BY <1>1, <1>3, AppendProperties
    <2>2. DOMAIN d.closed = 1..Len(d.closed) /\ Len(d.closed) \in Nat
      BY <1>3, LenProperties
    <2>3. DOMAIN Append(d.closed, s) = 1..(Len(d.closed) + 1)
      BY <2>1, LenProperties
    <2> QED  BY <2>1, <2>2, <2>3
  <1>5. e \in Day
    BY <1>3, <1>4 DEF Settle, Day, s
  <1>6. HeldBy(e) = {}  BY <1>2 DEF HeldBy
  <1>7. SoldOnce(e)
    <2>0. d.active \in HeldBy(d)  BY DEF HeldBy
    <2> DEFINE cov(i) == e.closed[i].covered
    <2>1. \A i \in DOMAIN e.closed :
             \/ i \in DOMAIN d.closed /\ cov(i) = d.closed[i].covered
             \/ i = Len(d.closed) + 1 /\ cov(i) = d.active.covered
      BY <1>1, <1>2, <1>4
    <2>2. \A i \in DOMAIN e.closed : cov(i) \subseteq d.executed /\ cov(i) \cap d.dropped = {}
      BY <2>0, <2>1 DEF SoldOnce
    <2>3. \A i, j \in DOMAIN e.closed : i # j => cov(i) \cap cov(j) = {}
      BY <2>0, <2>1 DEF SoldOnce
    <2> QED  BY <1>2, <1>6, <2>2, <2>3 DEF SoldOnce
  <1> QED  BY <1>2, <1>5, <1>6, <1>7 DEF Keeps

\* A tranche that is kept keeps its windows, in whatever state.
LEMMA KeptStep ==
  ASSUME NEW d \in Day, SoldOnce(d), d.active # None,
         NEW u, Same(d.active, u), NEW e \in Day,
         e.active = u, e.closed = d.closed, e.executed = d.executed,
         e.completed = d.completed, e.report = d.report, e.dropped = d.dropped
  PROVE  Keeps(d, e) /\ SoldOnce(e) /\ HeldBy(e) = {u}
  <1>1. u # None /\ HeldBy(d) = {d.active}  BY TrancheHeld DEF Same
  <1>2. HeldBy(e) = {u}  BY <1>1 DEF HeldBy
  <1> QED  BY <1>1, <1>2 DEF SoldOnce, Keeps, Same

\* A tranche that rolls over takes the window after its last, which was free.
LEMMA RolledStep ==
  ASSUME NEW d \in Day, SoldOnce(d), d.active # None, Spans(d.active),
         NEW u, Same(d.active, u), NextWindows(d, u) # {}
  PROVE  /\ Keeps(d, RolledOver(d, u)) /\ SoldOnce(RolledOver(d, u))
         /\ RolledOver(d, u).state = d.state
         /\ \E t \in Tranche :
               /\ HeldBy(RolledOver(d, u)) = {t}
               /\ Spans(t) /\ t.window = u.window /\ t.exit = u.exit + Hour
  <1>1. PICK w : w = CHOOSE n \in NextWindows(d, u) : TRUE  OBVIOUS
  <1>2. w \in Window /\ w \notin d.executed /\ EntryAt(w) = u.exit
    BY <1>1 DEF NextWindows
  <1> DEFINE e == RolledOver(d, u)
             t == [u EXCEPT !.exit = EntryAt(w + 1), !.covered = @ \cup {w}]
  <1>3. e = [d EXCEPT !.active = t, !.executed = @ \cup {w}]
    BY <1>1 DEF RolledOver
  <1>4. w \in Nat /\ EntryAt(w + 1) \in Nat /\ EntryAt(w + 1) = u.exit + Hour
    <2>1. w \in Nat /\ w + 1 \in Nat  BY <1>2, WindowAssumption DEF Window
    <2> QED  BY <1>2, <2>1, EntryTimes
  <1>5. /\ t \in Tranche /\ t.window = u.window /\ t.exit = u.exit + Hour
        /\ t.covered = d.active.covered \cup {w} /\ t.exit = EntryAt(w + 1)
    BY <1>2, <1>4 DEF Same, Tranche
  <1> HIDE DEF t
  <1>6. Spans(t)
    <2>1. PICK k \in Window : /\ k >= u.window /\ u.covered = u.window..k
                              /\ u.exit = EntryAt(k + 1)
      BY DEF Spans, Same
    <2>2. k + 1 = w
      <3>1. k + 1 \in Nat  BY WindowAssumption DEF Window
      <3> QED  BY <1>2, <1>4, <2>1, <3>1, WindowTimes
    <2>3. u.window \in Window  BY DEF Same, Tranche
    <2>4. u.covered \cup {w} = u.window..w /\ w >= u.window
      BY <1>4, <2>1, <2>2, <2>3, WindowAssumption DEF Window
    <2>5. u.covered = d.active.covered  BY DEF Same
    <2> QED  BY <1>2, <1>5, <2>4, <2>5 DEF Spans
  <1>7. /\ e \in Day /\ e.active = t /\ e.executed = d.executed \cup {w}
        /\ e.closed = d.closed /\ e.state = d.state
        /\ e.completed = d.completed /\ e.report = d.report /\ e.dropped = d.dropped
    <2>1. d.executed \cup {w} \in SUBSET Window /\ t \in Tranche \cup {None}
      BY <1>2, <1>5 DEF Day
    <2> HIDE DEF e
    <2> QED  BY <1>3, <2>1 DEF Day
  <1>8. HeldBy(d) = {d.active} /\ HeldBy(e) = {t}
    BY <1>5, <1>7, TrancheHeld DEF HeldBy
  <1>9. SoldOnce(e)
    <2>1. /\ d.active.covered \cup {w} \subseteq e.executed
          /\ \A i \in DOMAIN d.closed : /\ d.closed[i].covered \subseteq e.executed
                                        /\ d.closed[i].covered \cap t.covered = {}
          /\ t.covered \cap d.dropped = {} /\ d.dropped \subseteq e.executed
      BY <1>2, <1>5, <1>7, <1>8 DEF SoldOnce
    <2> QED  BY <1>5, <1>7, <1>8, <2>1 DEF SoldOnce
  <1> QED  BY <1>5, <1>6, <1>7, <1>8, <1>9 DEF Keeps

\* Section 1 as a whole, from the bar of minute n to the bar of minute m.
LEMMA HoldStep ==
  ASSUME NEW d \in Day, SoldOnce(d), d.state = "ACTIVE",
         NEW n \in Nat, NEW m \in Nat, n < m, Entered(d, n),
         NEW bar \in Bars, NEW quoted,
         NEW e, e = HoldOrExit(d, m, bar, quoted)
  PROVE  /\ Keeps(d, e) /\ SoldOnce(e) /\ Entered(e, m)
         /\ HeldBy(d) = {} => e = d
         /\ m - n <= Hour /\ InTime(d, n) => InTime(e, m)
  <1>1. CASE d.active = None
    <2>1. e = d /\ HeldBy(d) = {}  BY <1>1, NoneHeld, TrancheHeld
    <2> QED  BY <2>1 DEF Keeps, Entered, InTime
  <1>2. CASE d.active # None
    <2>1. d.active \in Tranche /\ HeldBy(d) = {d.active}
      BY <1>2, TrancheHeld
    <2>2. PICK u : u = Ranged(d.active, bar)  OBVIOUS
    <2>3. Same(d.active, u)  BY <2>1, <2>2, RangedSame
    <2>4. /\ u \in Tranche /\ u.exit \in Nat /\ u.exit = d.active.exit
          /\ Spans(d.active) /\ Spans(u)
          /\ EntryAt(u.window) \in Nat /\ EntryAt(u.window) <= m
      <3>1. Spans(d.active) /\ EntryAt(d.active.window) <= n
        BY <2>1 DEF Entered
      <3>2. u \in Tranche /\ u.window \in Nat /\ u.exit \in Nat
        BY <2>3, WindowAssumption DEF Same, Tranche, Window
      <3>3. EntryAt(u.window) \in Nat  BY <3>2, EntryTimes
      <3> QED  BY <2>3, <3>1, <3>2, <3>3 DEF Same, Spans
    <2>5. InTime(d, n) => d.dropped = {} /\ n < u.exit
      BY <2>1, <2>4 DEF InTime
    <2>6. ASSUME NEW r \in {"DOUBLE_BREACH_STOP", "CE_BREACH_PE_WING_HARVEST",
                            "PE_BREACH_CE_WING_HARVEST", "NORMAL_DECAY"},
                 e = Settle(d, u, r)
          PROVE  /\ Keeps(d, e) /\ SoldOnce(e) /\ Entered(e, m)
                 /\ InTime(d, n) => InTime(e, m)
      <3>1. Keeps(d, e) /\ SoldOnce(e) /\ HeldBy(e) = {}
        BY <1>2, <2>3, <2>6, SettleStep
      <3> QED  BY <2>5, <3>1 DEF Entered, InTime, Keeps
    <2>7. ASSUME NEW st \in {"ACTIVE", "HALTED"},
                 e = [d EXCEPT !.active = u, !.state = st],
                 st = "ACTIVE" => m < u.exit
          PROVE  /\ Keeps(d, e) /\ SoldOnce(e) /\ Entered(e, m)
                 /\ InTime(d, n) => InTime(e, m)
      <3>1. /\ e \in Day /\ e.active = u /\ e.closed = d.closed /\ e.state = st
            /\ e.executed = d.executed /\ e.completed = d.completed
            /\ e.report = d.report /\ e.dropped = d.dropped
        BY <2>4, <2>7 DEF Day
      <3>2. Keeps(d, e) /\ SoldOnce(e) /\ HeldBy(e) = {u}
        BY <1>2, <2>3, <3>1, KeptStep
      <3> QED  BY <2>4, <2>5, <2>7, <3>1, <3>2 DEF Entered, InTime
    <2>8. ASSUME NextWindows(d, u) # {}, e = RolledOver(d, u)
          PROVE  /\ Keeps(d, e) /\ SoldOnce(e) /\ Entered(e, m)
                 /\ m - n <= Hour /\ InTime(d, n) => InTime(e, m)
      <3>1. /\ Keeps(d, e) /\ SoldOnce(e)
            /\ \E t \in Tranche : /\ HeldBy(e) = {t} /\ Spans(t)
                                  /\ t.window = u.window /\ t.exit = u.exit + Hour
        BY <1>2, <2>3, <2>4, <2>8, RolledStep
      <3>2. PICK t \in Tranche : /\ HeldBy(e) = {t} /\ Spans(t)
                                 /\ t.window = u.window /\ t.exit = u.exit + Hour
        BY <3>1
      <3>3. Entered(e, m)  BY <2>4, <3>2 DEF Entered
      <3>4. ASSUME m - n <= Hour, InTime(d, n) PROVE InTime(e, m)
        <4>1. m < t.exit  BY <2>4, <2>5, <3>2, <3>4, WindowTimes
        <4> QED  BY <2>5, <3>1, <3>2, <3>4, <4>1 DEF InTime, Keeps
      <3> QED  BY <3>1, <3>3, <3>4
    <2>9. CASE CallBreached(u) \/ PutBreached(u)
      <3>1. e = Settle(d, u, BreachReason(u))
        BY <1>2, <2>2, <2>9, HoldCases
      <3> QED  BY <1>2, <2>1, <2>6, <3>1, BreachReasonTyped
    <2>10. CASE ~(CallBreached(u) \/ PutBreached(u)) /\ m >= u.exit
      <3>1. \/ NextWindows(d, u) # {} /\ e = RolledOver(d, u)
            \/ e = CloseNormalDecay(d, u, quoted)
        BY <1>2, <2>2, <2>10, HoldCases
      <3>2. CloseNormalDecay(d, u, quoted) \in
                {Settle(d, u, "NORMAL_DECAY"), [d EXCEPT !.active = u, !.state = "HALTED"]}
        BY DEF CloseNormalDecay
      <3> QED  BY <1>2, <2>1, <2>6, <2>7, <2>8, <3>1, <3>2
    <2>11. CASE ~(CallBreached(u) \/ PutBreached(u)) /\ ~(m >= u.exit)
      <3>1. e = [d EXCEPT !.active = u]
        BY <1>2, <2>2, <2>11, HoldCases
      <3>2. e = [d EXCEPT !.active = u, !.state = "ACTIVE"]
        BY <3>1 DEF Day
      <3> QED  BY <1>2, <2>1, <2>4, <2>7, <2>11, <3>2
    <2> QED  BY <2>9, <2>10, <2>11
  <1> QED  BY <1>1, <1>2

-----------------------------------------------------------------------------
(* Section 2: the entry.                                                   *)

\* A window entered on time finds no tranche: one that is held has covered
\* every window since its own that has begun.
LEMMA FreeWhenDue ==
  ASSUME NEW d \in Day, SoldOnce(d), NEW m \in Nat, Entered(d, m),
         NEW w \in Window \ d.executed, EntryAt(w) = m,
         NEW t \in HeldBy(d)
  PROVE  t.exit <= m
  <1>1. t \in Tranche /\ t = d.active  BY TrancheHeld
  <1>2. PICK k \in Window : /\ k >= t.window /\ t.covered = t.window..k
                            /\ t.exit = EntryAt(k + 1)
    BY DEF Entered, Spans
  <1>3. w \notin t.covered /\ EntryAt(t.window) <= EntryAt(w)
    BY DEF SoldOnce, Entered
  <1>4. w \in Nat /\ k + 1 \in Nat /\ t.window \in Nat /\ k \in Nat
    BY <1>1, WindowAssumption DEF Window, Tranche
  <1>5. EntryAt(w) \in Nat /\ EntryAt(k + 1) \in Nat /\ EntryAt(t.window) \in Nat
    BY <1>4, EntryTimes
  <1>6. ~(w < t.window)
    <2>1. w < t.window => EntryAt(w) + Hour <= EntryAt(t.window)
      BY <1>4, EntryTimes
    <2>2. Hour \in Nat /\ Hour > 0  BY WindowTimes
    <2> QED  BY <1>3, <1>5, <2>1, <2>2
  <1>7. k + 1 <= w  BY <1>2, <1>3, <1>4, <1>6
  <1>8. k + 1 = w \/ EntryAt(k + 1) + Hour <= EntryAt(w)
    BY <1>4, <1>7, EntryTimes
  <1> QED  BY <1>2, <1>5, <1>8, WindowTimes

\* Section 2 as a whole, at minute m.
LEMMA EnterStep ==
  ASSUME NEW d \in Day, SoldOnce(d), NEW m \in Nat, Entered(d, m),
         NEW bar \in Bars, NEW quoted,
         NEW e, e = EnterIfDue(d, m, bar, quoted)
  PROVE  /\ e \in Day /\ SoldOnce(e) /\ Entered(e, m)
         /\ e.closed = d.closed /\ e.completed = d.completed /\ e.report = d.report
         /\ InTime(d, m) => InTime(e, m)
  <1> DEFINE due == {w \in Window \ d.executed : EntryAt(w) = m}
  <1>1. CASE due = {}
    BY <1>1 DEF EnterIfDue
  <1>2. CASE due # {}
    <2>1. PICK w : w = CHOOSE v \in due : TRUE  OBVIOUS
    <2>2. w \in Window \ d.executed /\ EntryAt(w) = m
      BY <1>2, <2>1
    <2>3. e = EnterWindow(d, w, bar, quoted)
      BY <1>2, <2>1 DEF EnterIfDue
    <2>4. d.executed \cup {w} \in SUBSET Window
      BY <2>2 DEF Day
    <2>5. CASE ~Priced(bar.close, quoted)
      <3>1. e = [d EXCEPT !.executed = @ \cup {w}, !.state = "HALTED"]
        BY <2>3, <2>5 DEF EnterWindow
      <3>2. /\ e \in Day /\ e.active = d.active /\ e.closed = d.closed
            /\ e.executed = d.executed \cup {w} /\ e.state = "HALTED"
            /\ e.completed = d.completed /\ e.report = d.report /\ e.dropped = d.dropped
        BY <2>4, <3>1 DEF Day
      <3> QED  BY <3>2 DEF SoldOnce, HeldBy, Entered, InTime
    <2>6. CASE Priced(bar.close, quoted)
      <3> DEFINE t == Opened(w, bar)
                 gone == IF d.active = None THEN {} ELSE d.active.covered
      <3>1. e = [d EXCEPT !.executed = @ \cup {w}, !.active = t, !.dropped = @ \cup gone]
        BY <2>3, <2>6 DEF EnterWindow, Day
      <3>2. w \in Nat /\ EntryAt(w + 1) \in Nat /\ EntryAt(w + 1) = m + Hour
        BY <2>2, EntryTimes, WindowAssumption DEF Window
      <3>3. t \in Tranche /\ t.window = w /\ t.covered = {w} /\ t.exit = m + Hour
        BY <2>2, <3>2, BarAssumption DEF Opened, Tranche
      <3>4. Spans(t)
        BY <2>2, <3>2, <3>3, WindowAssumption DEF Spans, Window
      <3> HIDE DEF t
      <3>5. /\ gone = UNION {h.covered : h \in HeldBy(d)}
            /\ gone \subseteq Window
        BY TrancheHeld DEF Tranche
      <3> HIDE DEF gone
      <3>6. d.dropped \cup gone \in SUBSET Window  BY <3>5 DEF Day
      <3>7. /\ e \in Day /\ e.active = t /\ e.closed = d.closed
            /\ e.executed = d.executed \cup {w} /\ e.state = d.state
            /\ e.completed = d.completed /\ e.report = d.report
            /\ e.dropped = d.dropped \cup gone
        BY <2>4, <3>1, <3>3, <3>6 DEF Day
      <3>8. HeldBy(e) = {t}
        BY <3>3, <3>7, TrancheHeld DEF HeldBy
      <3>9. SoldOnce(e)
        BY <2>2, <3>3, <3>5, <3>7, <3>8 DEF SoldOnce
      <3>10. Entered(e, m)
        BY <2>2, <3>3, <3>4, <3>8 DEF Entered
      <3>11. ASSUME InTime(d, m) PROVE InTime(e, m)
        <4>1. d.state = "ACTIVE" => HeldBy(d) = {}
          <5>1. \A h \in HeldBy(d) : h.exit <= m /\ h.exit \in Nat
            BY <2>2, FreeWhenDue, TrancheHeld DEF Tranche
          <5> QED  BY <3>11, <5>1 DEF InTime
        <4>2. m < t.exit  BY <3>3, WindowTimes
        <4> QED  BY <3>5, <3>7, <3>8, <3>11, <4>1, <4>2 DEF InTime, Day
      <3> QED  BY <3>7, <3>9, <3>10, <3>11
    <2> QED  BY <2>5, <2>6
  <1> QED  BY <1>1, <1>2

-----------------------------------------------------------------------------
(* Section 3 and the whole bar.                                            *)

\* A model that has reported and was not halted holds nothing past the close,
\* so nothing is left to settle.
LEMMA NothingHeldAfterClose ==
  ASSUME NEW d \in Day, d.state = "ACTIVE", NEW n \in Nat, Entered(d, n),
         InTime(d, n), d.completed, Reported(d, n)
  PROVE  HeldBy(d) = {}
  <1> SUFFICES ASSUME NEW t \in HeldBy(d) PROVE FALSE
    OBVIOUS
  <1>1. PICK k \in Window : t.exit = EntryAt(k + 1)  BY DEF Entered, Spans
  <1>2. k + 1 \in Nat  BY WindowAssumption DEF Window
  <1>3. EntryAt(k + 1) \in Nat /\ EntryAt(k + 1) <= Close /\ Close \in Nat
    BY <1>2, EntryTimes, WindowTimes
  <1> QED  BY <1>1, <1>3 DEF InTime, Reported

LEMMA BarStep ==
  ASSUME NEW d, NEW n \in Nat, NEW g \in Nat, BarInv(d, n, g), d.state = "ACTIVE",
         NEW m \in Nat, n < m, NEW bar \in Bars, NEW quoted,
         NEW h \in Nat, g <= h, m - n <= h
  PROVE  BarInv(OnMinuteBar(d, m, bar, quoted), m, h)
  <1>1. PICK d1 : d1 = HoldOrExit(d, m, bar, quoted)  OBVIOUS
  <1>2. PICK d2 : d2 = EnterIfDue(d1, m, bar, quoted)  OBVIOUS
  <1>3. PICK d3 : d3 = ReportIfDue(d2, m)  OBVIOUS
  <1>4. OnMinuteBar(d, m, bar, quoted) = d3
    BY <1>1, <1>2, <1>3 DEF OnMinuteBar
  <1>5. Hour \in Nat /\ Close \in Nat  BY WindowTimes
  <1>6. /\ Keeps(d, d1) /\ SoldOnce(d1) /\ Entered(d1, m)
        /\ HeldBy(d) = {} => d1 = d
        /\ m - n <= Hour /\ InTime(d, n) => InTime(d1, m)
    BY <1>1, HoldStep DEF BarInv
  <1>7. h <= Hour => InTime(d1, m)
    BY <1>5, <1>6 DEF BarInv
  <1>8. d1.completed => d1.report = d1.closed \/ h > Hour
    <2> SUFFICES ASSUME d1.completed, h <= Hour PROVE d1.report = d1.closed
      BY <1>5
    <2>1. d.completed /\ InTime(d, n) /\ d.report = d.closed
      BY <1>5, <1>6 DEF BarInv, Keeps
    <2>2. HeldBy(d) = {}
      BY <2>1, NothingHeldAfterClose DEF BarInv
    <2> QED  BY <1>6, <2>1, <2>2
  <1>9. /\ d2 \in Day /\ SoldOnce(d2) /\ Entered(d2, m)
        /\ d2.closed = d1.closed /\ d2.completed = d1.completed /\ d2.report = d1.report
        /\ InTime(d1, m) => InTime(d2, m)
    BY <1>2, <1>6, EnterStep DEF Keeps
  <1>10. CASE ReportDue(d2, m)
    <2>1. d3 = [d2 EXCEPT !.completed = TRUE, !.report = d2.closed]
      BY <1>3, <1>10 DEF ReportIfDue
    <2>2. /\ d3 \in Day /\ d3.closed = d2.closed /\ d3.report = d3.closed
          /\ d3.active = d2.active /\ d3.executed = d2.executed
          /\ d3.dropped = d2.dropped /\ d3.state = d2.state
      BY <1>9, <2>1 DEF Day
    <2>3. HeldBy(d3) = HeldBy(d2)  BY <2>2 DEF HeldBy
    <2> QED
      BY <1>4, <1>7, <1>9, <1>10, <2>2, <2>3
      DEF BarInv, SoldOnce, Entered, InTime, Reported, ReportDue
  <1>11. CASE ~ReportDue(d2, m)
    <2>1. d3 = d2  BY <1>3, <1>11 DEF ReportIfDue
    <2>2. Reported(d2, m)
      BY <1>5, <1>6, <1>9 DEF BarInv, Keeps, Reported
    <2> QED  BY <1>4, <1>7, <1>8, <1>9, <2>1, <2>2 DEF BarInv
  <1> QED  BY <1>10, <1>11

\* A halted model returns at once, whatever the minute.
LEMMA HaltedStep ==
  ASSUME NEW d, NEW n \in Nat, NEW g \in Nat, BarInv(d, n, g), d.state # "ACTIVE",
         NEW m \in Nat, n < m, NEW h \in Nat, g <= h
  PROVE  BarInv(d, m, h)
  <1>1. Hour \in Nat /\ Close \in Nat  BY WindowTimes
  <1>2. Entered(d, m)
    <2>1. \A t \in HeldBy(d) : t.window \in Nat
      BY TrancheHeld, WindowAssumption DEF BarInv, Tranche, Window
    <2>2. \A t \in HeldBy(d) : EntryAt(t.window) \in Nat
      BY <2>1, EntryTimes
    <2> QED  BY <2>2 DEF BarInv, Entered
  <1> QED  BY <1>1, <1>2 DEF BarInv, InTime, Reported, Day

\* A new day, in a process that starts or has ended.
LEMMA NewDayInv == BarInv(NewDay, 0, 0)
  <1>1. NewDay \in Day
    <2>1. <<>> \in Seq(Settled)  OBVIOUS
    <2> QED  BY <2>1 DEF NewDay, Day
  <1> QED
    BY <1>1 DEF NewDay, BarInv, SoldOnce, HeldBy, Entered, InTime, Reported

-----------------------------------------------------------------------------
(* The replay.                                                             *)

LEMMA InitDayInv == Init => DayInv
  BY NewDayInv DEF Init, DayInv

LEMMA NextDayInv == DayInv /\ [Next]_vars => DayInv'
  <1> SUFFICES ASSUME DayInv, [Next]_vars PROVE DayInv'
    OBVIOUS
  <1>1. CASE Bar
    <2>1. PICK m \in (minute + 1)..LastMinute :
             /\ minute' = m
             /\ gap' = Max({gap, m - minute})
             /\ IF day.state = "HALTED" THEN UNCHANGED day
                ELSE \E bar \in Bars, quoted \in QuotedAt(m) :
                        day' = OnMinuteBar(day, m, bar, quoted)
      BY <1>1 DEF Bar
    <2>2. m \in Nat /\ minute \in Nat /\ minute < m /\ m - minute \in Nat
      BY <2>1, ReplayAssumption DEF DayInv
    <2>3. gap' \in Nat /\ gap <= gap' /\ m - minute <= gap'
      BY <2>1, <2>2, LongestGap DEF DayInv
    <2>4. CASE day.state = "ACTIVE"
      <3>1. PICK bar \in Bars, quoted \in QuotedAt(m) : day' = OnMinuteBar(day, m, bar, quoted)
        BY <2>1, <2>4
      <3>2. BarInv(OnMinuteBar(day, m, bar, quoted), m, gap')
        BY <2>2, <2>3, <2>4, BarStep DEF DayInv
      <3> QED  BY <2>1, <2>2, <2>3, <3>1, <3>2 DEF DayInv
    <2>5. CASE day.state # "ACTIVE"
      <3>1. day' = day  BY <2>1, <2>5 DEF DayInv, BarInv, Day
      <3>2. BarInv(day, m, gap')
        BY <2>2, <2>3, <2>5, HaltedStep DEF DayInv
      <3> QED  BY <2>1, <2>2, <2>3, <3>1, <3>2 DEF DayInv
    <2> QED  BY <2>4, <2>5
  <1>2. CASE Exit
    BY <1>2, NewDayInv DEF Exit, DayInv
  <1>3. CASE StartSession
    BY <1>3, NewDayInv DEF StartSession, DayInv
  <1>4. CASE UNCHANGED <<day, minute, gap>>
    BY <1>4 DEF DayInv
  <1>5. CASE EndOfBars
    BY <1>2, <1>4, <1>5 DEF EndOfBars, sessionVars
  <1>6. CASE SaveDaily \/ SaveMaster \/ UNCHANGED vars
    BY <1>4, <1>6 DEF SaveDaily, SaveMaster, sessionVars, vars
  <1>7. CASE SaveSummary \/ Killed \/ KilledSaving
    BY <1>2, <1>7 DEF SaveSummary, Killed, KilledSaving
  <1> QED  BY <1>1, <1>3, <1>5, <1>6, <1>7 DEF Next

LEMMA DayInvariance == Spec => []DayInv
  <1> QED  BY InitDayInv, NextDayInv, PTL DEF Spec

\* A window of the day is sold once, whatever bars and quotes are missing: the
\* entry and the roll-over see each other's mark (model_07.py:172, 265, 303).
THEOREM SoldOnlyOnce == Spec => []WindowsOnce
  <1>1. DayInv => WindowsOnce
    <2> SUFFICES ASSUME DayInv PROVE WindowsOnce  OBVIOUS
    <2>1. Held = HeldBy(day)  BY DEF Held, HeldBy
    <2>2. SoldOnce(day)  BY DEF DayInv, BarInv
    <2> QED  BY <2>1, <2>2 DEF WindowsOnce, SoldOnce, CoveredBy
  <1> QED  BY <1>1, DayInvariance, PTL

\* A strangle leaves the book at its exit, and none is replaced unsettled but
\* after a halt, on a feed that misses no whole window.
THEOREM LeavesAtExit == Spec => []HeldWithinWindow
  <1>1. DayInv => HeldWithinWindow
    <2>1. Held = HeldBy(day)  BY DEF Held, HeldBy
    <2> QED  BY <2>1 DEF DayInv, BarInv, InTime, HeldWithinWindow
  <1> QED  BY <1>1, DayInvariance, PTL

\* Nothing settles after the report of the day.
THEOREM ReportsLast == Spec => []ReportIsFinal
  <1>1. DayInv => ReportIsFinal
    BY DEF DayInv, BarInv, ReportIsFinal
  <1> QED  BY <1>1, DayInvariance, PTL

-----------------------------------------------------------------------------
(* The files.                                                              *)

LEMMA InitLedgerInv == Init => LedgerInv
  BY DEF Init, LedgerInv, NoHistory

LEMMA NextLedgerInv == LedgerInv /\ DayInv /\ [Next]_vars => LedgerInv'
  <1> SUFFICES ASSUME LedgerInv, DayInv, [Next]_vars PROVE LedgerInv'
    OBVIOUS
  <1> USE DEF LedgerInv, ledgerVars, sessionVars
  <1>1. Len(day.closed) \in Nat
    BY LenProperties DEF DayInv, BarInv, Day
  <1>2. CASE StartSession
    BY <1>2 DEF StartSession
  <1>3. CASE Bar
    BY <1>3 DEF Bar
  <1>4. CASE EndOfBars
    BY <1>4 DEF EndOfBars, Exit
  <1>5. CASE SaveDaily
    BY <1>1, <1>5 DEF SaveDaily
  <1>6. CASE SaveMaster
    BY <1>1, <1>6 DEF SaveMaster, Rewritten
  <1>7. CASE SaveSummary
    BY <1>1, <1>7 DEF SaveSummary, Rewritten, Exit
  <1>8. CASE Killed
    BY <1>8 DEF Killed, Exit
  <1>9. CASE KilledSaving
    BY <1>9 DEF KilledSaving, Exit, CutShort, Ledger, Differs
  <1>10. CASE UNCHANGED vars
    BY <1>10 DEF vars
  <1> QED
    BY <1>2, <1>3, <1>4, <1>5, <1>6, <1>7, <1>8, <1>9, <1>10 DEF Next

\* The three files agree on every date whose save was not interrupted: also
\* on the date being saved until its first file is rewritten.
THEOREM FilesAgree == Spec => []LedgersAgree
  <1>1. LedgerInv => LedgersAgree
    BY DEF LedgerInv, LedgersAgree
  <1>2. Init => LedgerInv /\ DayInv
    BY InitLedgerInv, InitDayInv
  <1>3. LedgerInv /\ DayInv /\ [Next]_vars => (LedgerInv /\ DayInv)'
    BY NextLedgerInv, NextDayInv
  <1> QED  BY <1>1, <1>2, <1>3, PTL DEF Spec

-----------------------------------------------------------------------------
(* Strategy 6: the Parquet log.                                            *)

\* The log of a process that runs: nothing is missing, the footer is not
\* written yet, and a file that was never opened has no rows.
Balanced(log) ==
    /\ log \in RawLog
    /\ log.sent = log.rows + log.buffer + log.dropped
    /\ ~log.writer => log.rows = 0
    /\ ~log.sealed

\* Messages of a process that ended may be lost, but not behind a footer.
RawInv ==
    /\ raw \in RawLog
    /\ pc # "down" => Balanced(raw)
    /\ pc = "down" /\ raw.sealed => raw.sent = raw.rows + raw.buffer + raw.dropped

\* The fields of a balanced log, as the provers need them.
LEMMA BalancedFields ==
  ASSUME NEW log, Balanced(log)
  PROVE  /\ log \in RawLog /\ MaxMessages \in Nat
         /\ log.sent \in 0..MaxMessages /\ log.buffer \in 0..MaxMessages
         /\ log.rows \in 0..MaxMessages /\ log.dropped \in 0..MaxMessages
         /\ log.writer \in BOOLEAN /\ log.sealed \in BOOLEAN
         /\ log.sent = log.rows + log.buffer + log.dropped
         /\ ~log.writer => log.rows = 0
         /\ ~log.sealed
  <1>1. log \in RawLog /\ MaxMessages \in Nat  BY RawAssumption DEF Balanced
  <1>2. /\ log.sent \in 0..MaxMessages /\ log.buffer \in 0..MaxMessages
        /\ log.rows \in 0..MaxMessages /\ log.dropped \in 0..MaxMessages
        /\ log.writer \in BOOLEAN /\ log.sealed \in BOOLEAN
    BY <1>1, Zenon DEF RawLog
  <1> QED  BY <1>1, <1>2, Zenon DEF Balanced

\* Opening the file loses no row: without a writer it has none.
LEMMA InitBalanced ==
  ASSUME NEW log, Balanced(log), ~log.writer, NEW r \in InitWriter(log)
  PROVE  Balanced(r)
  <1>1. CASE r = log
    BY <1>1
  <1>2. CASE r = [log EXCEPT !.rows = 0, !.writer = TRUE]
    <2>1. log \in RawLog /\ MaxMessages \in Nat /\ log.rows = 0
      BY BalancedFields
    <2>2. 0 \in 0..MaxMessages  BY <2>1
    <2>3. r \in RawLog  BY <1>2, <2>1, <2>2 DEF RawLog
    <2>4. /\ r.sent = log.sent /\ r.buffer = log.buffer /\ r.rows = log.rows
          /\ r.dropped = log.dropped /\ r.writer = TRUE /\ r.sealed = log.sealed
      BY <1>2, <2>1 DEF RawLog
    <2> QED  BY <2>3, <2>4 DEF Balanced
  <1> QED  BY <1>1, <1>2 DEF InitWriter

\* A process begins with an empty log, opened or not.
LEMMA UnopenedBalanced ==
  ASSUME NEW r \in InitWriter(Unopened)
  PROVE  Balanced(r)
  <1>1. 0 \in 0..MaxMessages /\ MaxMessages \in Nat  BY RawAssumption
  <1>2. Unopened \in RawLog  BY <1>1, Zenon DEF Unopened, RawLog
  <1>3. Unopened.sent = Unopened.rows + Unopened.buffer + Unopened.dropped
    BY DEF Unopened
  <1>4. Balanced(Unopened)
    BY <1>2, <1>3, Zenon DEF Balanced, Unopened
  <1>5. ~Unopened.writer  BY DEF Unopened
  <1> QED  BY <1>4, <1>5, InitBalanced

\* A buffer is moved to where its messages are counted.
LEMMA ClearedBalanced ==
  ASSUME NEW log, Balanced(log), NEW field \in {"rows", "dropped"},
         field = "rows" => log.writer
  PROVE  Balanced(Cleared(log, field))
  <1>1. /\ log \in RawLog /\ MaxMessages \in Nat
        /\ log.sent \in 0..MaxMessages /\ log.buffer \in 0..MaxMessages
        /\ log.rows \in 0..MaxMessages /\ log.dropped \in 0..MaxMessages
        /\ log.sent = log.rows + log.buffer + log.dropped
    BY BalancedFields
  <1>2. log.rows + log.buffer \in 0..MaxMessages /\ log.dropped + log.buffer \in 0..MaxMessages
        /\ 0 \in 0..MaxMessages
    BY <1>1
  <1>3. PICK r : r = Cleared(log, field)  OBVIOUS
  <1>4. CASE field = "rows"
    <2>1. r = [log EXCEPT !.rows = log.rows + log.buffer, !.buffer = 0]
      BY <1>3, <1>4 DEF Cleared
    <2>2. r \in RawLog  BY <1>1, <1>2, <2>1 DEF RawLog
    <2>3. /\ r.sent = log.sent /\ r.rows = log.rows + log.buffer /\ r.buffer = 0
          /\ r.dropped = log.dropped /\ r.writer = log.writer /\ r.sealed = log.sealed
      BY <1>1, <2>1 DEF RawLog
    <2>4. r.sent = r.rows + r.buffer + r.dropped  BY <1>1, <2>3
    <2>5. r.writer /\ ~r.sealed  BY <1>4, <2>3, BalancedFields
    <2> QED  BY <1>3, <2>2, <2>4, <2>5 DEF Balanced
  <1>5. CASE field = "dropped"
    <2>1. r = [log EXCEPT !.dropped = log.dropped + log.buffer, !.buffer = 0]
      BY <1>3, <1>5 DEF Cleared
    <2>2. r \in RawLog  BY <1>1, <1>2, <2>1 DEF RawLog
    <2>3. /\ r.sent = log.sent /\ r.rows = log.rows /\ r.buffer = 0
          /\ r.dropped = log.dropped + log.buffer
          /\ r.writer = log.writer /\ r.sealed = log.sealed
      BY <1>1, <2>1 DEF RawLog
    <2>4. r.sent = r.rows + r.buffer + r.dropped  BY <1>1, <2>3
    <2>5. (~r.writer => r.rows = 0) /\ ~r.sealed  BY <2>3, BalancedFields
    <2> QED  BY <1>3, <2>2, <2>4, <2>5 DEF Balanced
  <1> QED  BY <1>4, <1>5

LEMMA FlushedBalanced ==
  ASSUME NEW log, Balanced(log), NEW r \in Flushed(log)
  PROVE  Balanced(r)
  <1>1. CASE log.writer
    BY <1>1, ClearedBalanced DEF Flushed
  <1>2. CASE ~log.writer
    <2>1. PICK w \in InitWriter(log) :
             r = IF w.writer THEN Cleared(w, "rows") ELSE Cleared(w, "dropped")
      BY <1>2 DEF Flushed
    <2> QED  BY <1>2, <2>1, InitBalanced, ClearedBalanced
  <1> QED  BY <1>1, <1>2

LEMMA LoggedBalanced ==
  ASSUME NEW log, Balanced(log), log.sent < MaxMessages, NEW r \in Logged(log)
  PROVE  Balanced(r)
  <1>1. PICK more : more = [log EXCEPT !.sent = @ + 1, !.buffer = @ + 1]
    OBVIOUS
  <1>2. Balanced(more)
    <2>1. /\ log \in RawLog /\ MaxMessages \in Nat
          /\ log.sent \in 0..MaxMessages /\ log.buffer \in 0..MaxMessages
          /\ log.rows \in 0..MaxMessages /\ log.dropped \in 0..MaxMessages
          /\ log.sent = log.rows + log.buffer + log.dropped
      BY BalancedFields
    <2>2. log.sent + 1 \in 0..MaxMessages /\ log.buffer + 1 \in 0..MaxMessages
      BY <2>1
    <2>3. more \in RawLog  BY <1>1, <2>1, <2>2 DEF RawLog
    <2>4. /\ more.sent = log.sent + 1 /\ more.rows = log.rows
          /\ more.buffer = log.buffer + 1 /\ more.dropped = log.dropped
          /\ more.writer = log.writer /\ more.sealed = log.sealed
      BY <1>1, <2>1 DEF RawLog
    <2>5. more.sent = more.rows + more.buffer + more.dropped  BY <2>1, <2>4
    <2>6. (~more.writer => more.rows = 0) /\ ~more.sealed
      BY <2>4, BalancedFields
    <2> QED  BY <2>3, <2>5, <2>6 DEF Balanced
  <1>3. r \in Flushed(more) \/ r = more
    BY <1>1 DEF Logged
  <1> QED  BY <1>2, <1>3, FlushedBalanced

\* A log that is closed still accounts for every message, sealed or not.
LEMMA ClosedAccounted ==
  ASSUME NEW log, Balanced(log), NEW r \in Closed(log)
  PROVE  r \in RawLog /\ r.sent = r.rows + r.buffer + r.dropped
  <1>1. PICK S : S = IF log.buffer = 0 THEN {log} ELSE Flushed(log)
    OBVIOUS
  <1>2. r \in {Released(w, x) : w \in S, x \in BOOLEAN}
    BY <1>1 DEF Closed
  <1>3. PICK w \in S, x \in BOOLEAN : r = Released(w, x)
    BY <1>2
  <1>4. Balanced(w)  BY <1>1, FlushedBalanced
  <1>5. PICK y \in BOOLEAN : y = (x /\ w.writer)  BY Zenon
  <1>6. r = [w EXCEPT !.sealed = y, !.writer = FALSE]
    BY <1>3, <1>5, Zenon DEF Released
  <1>7. w \in RawLog /\ w.sent = w.rows + w.buffer + w.dropped
    BY <1>4, BalancedFields
  <1>8. r \in RawLog  BY <1>6, <1>7 DEF RawLog
  <1>9. /\ r.sent = w.sent /\ r.buffer = w.buffer
        /\ r.rows = w.rows /\ r.dropped = w.dropped
    BY <1>6, <1>7 DEF RawLog
  <1> QED  BY <1>7, <1>8, <1>9

LEMMA ReadsBalanced ==
  ASSUME Balanced(raw), Reads
  PROVE  Balanced(raw')
  BY LoggedBalanced DEF Reads

LEMMA InitRawInv == EngineInit => RawInv
  BY RawAssumption DEF EngineInit, RawInv, Unopened, RawLog

LEMMA NextRawInv == RawInv /\ [EngineNext]_engineVars => RawInv'
  <1> SUFFICES ASSUME RawInv, [EngineNext]_engineVars PROVE RawInv'
    OBVIOUS
  <1>0. pc # "down" => Balanced(raw)  BY DEF RawInv
  <1>1. CASE UNCHANGED <<pc, raw>>
    BY <1>1 DEF RawInv, Balanced
  <1>2. ASSUME pc # "down", pc' # "down", raw' = raw \/ Reads
        PROVE  RawInv'
    BY <1>0, <1>2, ReadsBalanced DEF RawInv, Balanced
  <1>3. CASE Start
    <2>1. Balanced(raw')  BY <1>3, UnopenedBalanced DEF Start
    <2> QED  BY <1>3, <2>1 DEF Start, RawInv, Balanced
  <1>4. ASSUME pc # "down", pc' = "down", raw' \in Closed(raw)
        PROVE  RawInv'
    BY <1>0, <1>4, ClosedAccounted DEF RawInv
  <1>5. CASE Tick \/ UNCHANGED engineVars
    BY <1>1, <1>5 DEF Tick, procVars, engineVars
  <1>6. CASE Top \/ NoEntry \/ NoExpiry \/ EntryHeld \/ Square \/ Log \/ Wake
    BY <1>2, <1>6 DEF Top, NoEntry, NoExpiry, EntryHeld, Square, Log, AfterLog, Logging, Wake
  <1>7. CASE EntryFails \/ Enter \/ Monitor
    BY <1>2, <1>7 DEF EntryFails, Enter, Monitor
  <1>8. CASE LoopEnd
    BY <1>2, <1>4, <1>8 DEF LoopEnd, Gone
  <1>9. CASE Interrupt
    BY <1>4, <1>9 DEF Interrupt, Gone
  <1>10. CASE EngineKilled
    <2>1. Balanced(raw) /\ pc' = "down"
      BY <1>0, <1>10 DEF EngineKilled, Gone
    <2>2. raw' = [raw EXCEPT !.buffer = 0, !.writer = FALSE]
      BY <1>10 DEF EngineKilled
    <2>3. raw \in RawLog /\ ~raw.sealed /\ 0 \in 0..MaxMessages
      BY <2>1, BalancedFields
    <2>4. raw' \in RawLog  BY <2>2, <2>3 DEF RawLog
    <2>5. raw'.sealed = raw.sealed  BY <2>2, <2>3 DEF RawLog
    <2> QED  BY <2>1, <2>3, <2>4, <2>5 DEF RawInv
  <1> QED
    BY <1>3, <1>5, <1>6, <1>7, <1>8, <1>9, <1>10 DEF EngineNext, Loop

\* Every message a process has read is in the file, in the buffer or counted
\* as dropped, while it runs and once the footer is written (raw_logger.py).
THEOREM EveryMessageCounted == EngineSpec => []RawAccounted
  <1>1. RawInv => RawAccounted
    BY DEF RawInv, RawAccounted, Balanced
  <1> QED  BY <1>1, InitRawInv, NextRawInv, PTL DEF EngineSpec

-----------------------------------------------------------------------------
(* Strategy 6: the record of the day.                                      *)

OneEntry(f) == \A p, q \in Open(f) : p[1] = q[1]

\* A process that does not run has neither a save outstanding nor a cleared
\* memory, and the file never holds legs of two entries.  Both are needed: a
\* process that cleared its memory may enter again, and only the file then
\* tells the next one what it would have known.
RecordInv ==
    /\ pc = "down" => ~fault.unsaved /\ ~fault.forgotten
    /\ RecordKept
    /\ ~fault.lost => OneEntry(file)
    /\ OneEntryOpen

Fault == [unsaved : BOOLEAN, forgotten : BOOLEAN, lost : BOOLEAN]

\* What is known of the book and its record, as far as the argument needs it.
RecordTyped ==
    /\ mem \in [Position -> Status] /\ file \in [Position -> Status]
    /\ book \in [Position -> Status]
    /\ fault \in Fault

LEMMA EmptyTyped ==
  Empty \in [Position -> Status] /\ Open(Empty) = {}
  BY DEF Empty, Status, Open

\* Marking positions changes those and no other.
LEMMA MarkedOpen ==
  ASSUME NEW f \in [Position -> Status], NEW S, NEW s \in Status
  PROVE  /\ Marked(f, S, s) \in [Position -> Status]
         /\ s = "OPEN" => Open(Marked(f, S, s)) = Open(f) \cup (S \cap Position)
         /\ s # "OPEN" => Open(Marked(f, S, s)) = Open(f) \ S
         /\ S = {} => Marked(f, S, s) = f
  BY DEF Marked, Open

LEMMA InitRecordInv == EngineInit => RecordTyped /\ RecordInv
  <1> SUFFICES ASSUME EngineInit PROVE RecordTyped /\ RecordInv
    OBVIOUS
  <1>1. mem = Empty /\ file = Empty /\ book = Empty /\ pc = "down"
    BY DEF EngineInit
  <1>2. fault \in Fault /\ ~fault.unsaved /\ ~fault.forgotten
    BY DEF EngineInit, Fault
  <1> QED
    BY <1>1, <1>2, EmptyTyped
    DEF RecordTyped, RecordInv, RecordKept, OneEntry, OneEntryOpen

\* What is read back is the file, and what was not saved is lost.
LEMMA LoadStep ==
  ASSUME RecordTyped, RecordInv, LoadSavedPositions, UNCHANGED <<file, book>>,
         pc' # "down"
  PROVE  RecordTyped' /\ RecordInv'
  <1>1. /\ fault' \in Fault /\ ~fault'.unsaved /\ ~fault'.forgotten
        /\ fault'.lost <=> fault.lost \/ fault.unsaved
    BY DEF RecordTyped, LoadSavedPositions, Fault
  <1>2. mem' = file /\ file' = file /\ book' = book
    BY DEF LoadSavedPositions
  <1>3. ~fault'.lost => file = book /\ OneEntry(file)
    BY <1>1 DEF RecordInv, RecordKept
  <1> QED
    BY <1>1, <1>2, <1>3
    DEF RecordTyped, RecordInv, RecordKept, OneEntry, OneEntryOpen, Open

\* A memory that is cleared knew, or would have read back, what f says.
LEMMA ForgetStep ==
  ASSUME RecordTyped, RecordInv, NEW f, f = file \/ (f = mem /\ pc # "down"),
         Forgets(f), UNCHANGED <<file, book>>, pc' # "down"
  PROVE  RecordTyped' /\ RecordInv'
  <1>1. PICK b \in BOOLEAN : b <=> f # Empty
    <2>1. (f # Empty) \in BOOLEAN  OBVIOUS
    <2> QED  BY <2>1, Zenon
  <1>2. fault' = [fault EXCEPT !.forgotten = @ \/ b, !.lost = @ \/ fault.unsaved,
                               !.unsaved = FALSE]
    BY <1>1 DEF Forgets
  <1>3. /\ fault' \in Fault /\ ~fault'.unsaved
        /\ fault'.forgotten <=> fault.forgotten \/ b
        /\ fault'.lost <=> fault.lost \/ fault.unsaved
    BY <1>2 DEF RecordTyped, Fault
  <1>4. mem' = Empty /\ file' = file /\ book' = book
    BY DEF Forgets
  <1>5. ~fault'.lost => file = book /\ OneEntry(file)
    BY <1>3 DEF RecordInv, RecordKept
  <1>6. ~fault'.lost /\ ~fault'.forgotten => book = Empty
    BY <1>1, <1>3, <1>5 DEF RecordInv, RecordKept
  <1> QED
    BY <1>3, <1>4, <1>5, <1>6, EmptyTyped
    DEF RecordTyped, RecordInv, RecordKept, OneEntry, OneEntryOpen, Open

\* A step of a running process that neither reads nor writes the record.
LEMMA IdleStep ==
  ASSUME RecordTyped, RecordInv, UNCHANGED <<mem, file, book, fault>>,
         pc = "down" <=> pc' = "down"
  PROVE  RecordTyped' /\ RecordInv'
  BY DEF RecordTyped, RecordInv, RecordKept, OneEntry, OneEntryOpen, Open

\* Positions are marked in memory, as in truth, and wait for the next save.
\* Legs are opened only where the process knows of none.
LEMMA MarkStep ==
  ASSUME RecordTyped, RecordInv, pc # "down", pc' # "down",
         NEW S, NEW s \in Status, NEW b \in BOOLEAN,
         mem' = Marked(mem, S, s), book' = Marked(book, S, s), file' = file,
         fault' = [fault EXCEPT !.unsaved = @ \/ b], ~b => S \cap Position = {},
         s = "OPEN" => Open(mem) = {} /\ \A p, q \in S : p[1] = q[1]
  PROVE  RecordTyped' /\ RecordInv'
  <1>1. /\ fault' \in Fault /\ (fault'.unsaved <=> fault.unsaved \/ b)
        /\ fault'.forgotten = fault.forgotten /\ fault'.lost = fault.lost
    BY DEF RecordTyped, Fault
  <1>2. mem' \in [Position -> Status] /\ book' \in [Position -> Status]
    BY MarkedOpen DEF RecordTyped
  <1>3. ~b => book' = book
    BY MarkedOpen DEF RecordTyped, Marked
  <1>4. ~fault'.lost /\ ~fault'.forgotten =>
           mem = book /\ mem' = book' /\ \A p, q \in Open(book) : p[1] = q[1]
    BY <1>1 DEF RecordInv, RecordKept, OneEntryOpen
  <1>5. ~fault'.lost /\ ~fault'.forgotten => \A p, q \in Open(book') : p[1] = q[1]
    <2>1. CASE s = "OPEN"
      <3>1. Open(book') = Open(book) \cup (S \cap Position)
        BY <2>1, MarkedOpen DEF RecordTyped
      <3> QED  BY <1>4, <2>1, <3>1
    <2>2. CASE s # "OPEN"
      <3>1. Open(book') = Open(book) \ S
        BY <2>2, MarkedOpen DEF RecordTyped
      <3> QED  BY <1>4, <3>1
    <2> QED  BY <2>1, <2>2
  <1>6. ~fault'.lost => /\ ~fault'.unsaved => file' = book'
                        /\ OneEntry(file')
    BY <1>1, <1>3 DEF RecordInv, RecordKept, OneEntry
  <1>7. RecordTyped'  BY <1>1, <1>2 DEF RecordTyped
  <1>8. RecordKept' /\ OneEntryOpen'
    BY <1>4, <1>5, <1>6 DEF RecordKept, OneEntryOpen, Open
  <1> QED  BY <1>6, <1>7, <1>8 DEF RecordInv, OneEntry, Open

\* What a process knew when it ended is in the file, or lost.
LEMMA EndStep ==
  ASSUME RecordTyped, RecordInv, pc' = "down", mem' = Empty, UNCHANGED <<file, book>>,
         fault' = [unsaved |-> FALSE, forgotten |-> FALSE, lost |-> fault.lost \/ fault.unsaved]
  PROVE  RecordTyped' /\ RecordInv'
  <1>2. /\ fault' \in Fault /\ ~fault'.unsaved /\ ~fault'.forgotten
        /\ fault'.lost <=> fault.lost \/ fault.unsaved
    BY DEF RecordTyped, Fault
  <1>3. ~fault'.lost => file = book /\ OneEntry(file)
    BY <1>2 DEF RecordInv, RecordKept
  <1> QED
    BY <1>2, <1>3, EmptyTyped
    DEF RecordTyped, RecordInv, RecordKept, OneEntry, OneEntryOpen, Open

\* A record that is lost asks for nothing but its types.
LEMMA LostStep ==
  ASSUME RecordTyped, pc' = "down", mem' = Empty,
         file' \in [Position -> Status], book' \in [Position -> Status],
         fault' = [unsaved |-> FALSE, forgotten |-> FALSE, lost |-> TRUE]
  PROVE  RecordTyped' /\ RecordInv'
  <1>1. fault' \in Fault /\ ~fault'.unsaved /\ ~fault'.forgotten /\ fault'.lost
    BY DEF RecordTyped, Fault
  <1> QED
    BY <1>1, EmptyTyped DEF RecordTyped, RecordInv, RecordKept, OneEntryOpen

\* What the memory says goes into the file; a memory that was cleared loses
\* the rows of the day.
LEMMA SaveStep ==
  ASSUME RecordTyped, RecordInv, Log
  PROVE  RecordTyped' /\ RecordInv'
  <1>1. pc # "down" /\ pc' # "down" /\ mem' = mem /\ book' = book
    BY DEF Log, Logging, AfterLog
  <1>2. CASE UNCHANGED <<file, fault>>
    BY <1>1, <1>2, IdleStep
  <1>3. CASE /\ file' = mem
             /\ fault' = [fault EXCEPT !.unsaved = FALSE, !.lost = @ \/ fault.forgotten]
    <2>1. /\ fault' \in Fault /\ ~fault'.unsaved /\ fault'.forgotten = fault.forgotten
          /\ fault'.lost <=> fault.lost \/ fault.forgotten
      BY <1>3 DEF RecordTyped, Fault
    <2>2. ~fault'.lost => mem = book /\ OneEntry(book)
      BY <1>1, <2>1 DEF RecordInv, RecordKept, OneEntry, OneEntryOpen
    <2> QED
      BY <1>1, <1>3, <2>1, <2>2
      DEF RecordTyped, RecordInv, RecordKept, OneEntry, OneEntryOpen, Open
  <1> QED  BY <1>2, <1>3 DEF Log, LogTradeExecution, Saved

\* Control-C closes and saves what the process knows to be open.
LEMMA InterruptStep ==
  ASSUME RecordTyped, RecordInv, Interrupt
  PROVE  RecordTyped' /\ RecordInv'
  <1>1. /\ pc # "down" /\ pc' = "down" /\ mem' = Empty
        /\ book' = Marked(book, Open(mem), "EOD_EXIT")
    BY DEF Interrupt, Gone
  <1>2. /\ "EOD_EXIT" \in Status /\ "EOD_EXIT" # "OPEN"
        /\ book' \in [Position -> Status]
    BY <1>1, MarkedOpen DEF Status, RecordTyped
  <1>3. CASE /\ file' = Marked(mem, Open(mem), "EOD_EXIT")
             /\ fault' = [unsaved |-> FALSE, forgotten |-> FALSE,
                          lost |-> fault.lost \/ fault.forgotten]
    <2>1. /\ fault' \in Fault /\ ~fault'.unsaved /\ ~fault'.forgotten
          /\ fault'.lost <=> fault.lost \/ fault.forgotten
      BY <1>3 DEF RecordTyped, Fault
    <2>2. file' \in [Position -> Status] /\ Open(file') = {}
      BY <1>2, <1>3, MarkedOpen DEF RecordTyped
    <2>3. ~fault'.lost => file' = book'
      BY <1>1, <1>3, <2>1 DEF RecordInv, RecordKept
    <2> QED
      BY <1>1, <1>2, <2>1, <2>2, <2>3, EmptyTyped
      DEF RecordTyped, RecordInv, RecordKept, OneEntry, OneEntryOpen, Open
  <1>4. CASE /\ fault' = [unsaved |-> FALSE, forgotten |-> FALSE, lost |-> TRUE]
             /\ UNCHANGED file
    BY <1>1, <1>2, <1>4, LostStep DEF RecordTyped
  <1>5. CASE /\ Open(mem) = {}
             /\ fault' = [unsaved |-> FALSE, forgotten |-> FALSE,
                          lost |-> fault.lost \/ fault.unsaved]
             /\ UNCHANGED file
    <2>1. book' = book  BY <1>1, <1>2, <1>5, MarkedOpen DEF RecordTyped
    <2> QED  BY <1>1, <1>5, <2>1, EndStep
  <1> QED  BY <1>3, <1>4, <1>5 DEF Interrupt

\* An entry opens the legs of one number, where no leg was known to be open.
LEMMA EnterRecordStep ==
  ASSUME RecordTyped, RecordInv, Enter
  PROVE  RecordTyped' /\ RecordInv'
  <1>1. PICK S \in {{}, Primary, Secondary, Leg} :
           /\ mem' = Marked(mem, {past.entries + 1} \X S, "OPEN")
           /\ book' = Marked(book, {past.entries + 1} \X S, "OPEN")
           /\ fault' = [fault EXCEPT !.unsaved = @ \/ S # {}]
           /\ pc' = IF S = {} THEN "monitor" ELSE "logEntry"
    BY DEF Enter
  <1>2. PICK new : new = {past.entries + 1} \X S  OBVIOUS
  <1>3. PICK b \in BOOLEAN : b <=> S # {}
    <2>1. (S # {}) \in BOOLEAN  OBVIOUS
    <2> QED  BY <2>1, Zenon
  <1>4. fault' = [fault EXCEPT !.unsaved = @ \/ b]
    BY <1>1, <1>3
  <1>5. (~b => new = {}) /\ \A p, q \in new : p[1] = q[1]
    BY <1>2, <1>3
  <1>6. pc # "down" /\ pc' # "down" /\ file' = file /\ Open(mem) = {}
    BY <1>1 DEF Enter
  <1> QED
    BY <1>1, <1>2, <1>4, <1>5, <1>6, MarkStep DEF Status

\* Stops mark legs that were open.
LEMMA MonitorRecordStep ==
  ASSUME RecordTyped, RecordInv, Monitor
  PROVE  RecordTyped' /\ RecordInv'
  <1>1. PICK S \in SUBSET (Open(mem) \ deaf) :
           /\ mem' = Marked(mem, S, "SL_HIT")
           /\ book' = Marked(book, S, "SL_HIT")
           /\ fault' = [fault EXCEPT !.unsaved = @ \/ S # {}]
           /\ pc' = IF S = {} THEN "square" ELSE "logMonitor"
    BY DEF Monitor
  <1>2. PICK b \in BOOLEAN : b <=> S # {}
    <2>1. (S # {}) \in BOOLEAN  OBVIOUS
    <2> QED  BY <2>1, Zenon
  <1>3. fault' = [fault EXCEPT !.unsaved = @ \/ b]
    BY <1>1, <1>2
  <1>4. pc # "down" /\ pc' # "down" /\ file' = file
    BY <1>1 DEF Monitor
  <1>5. ~b => S \cap Position = {}  BY <1>2
  <1>6. "SL_HIT" \in Status /\ "SL_HIT" # "OPEN"  BY DEF Status
  <1> QED
    BY <1>1, <1>3, <1>4, <1>5, <1>6, MarkStep

\* The close of 15:00 marks whatever the process knows to be open.
LEMMA SquareRecordStep ==
  ASSUME RecordTyped, RecordInv, Square
  PROVE  RecordTyped' /\ RecordInv'
  <1>1. CASE SquareDue
    <2>1. /\ mem' = Marked(mem, Open(mem), "EOD_EXIT")
          /\ book' = Marked(book, Open(mem), "EOD_EXIT")
          /\ fault' = [fault EXCEPT !.unsaved = @ \/ Open(mem) # {}]
          /\ pc # "down" /\ pc' # "down" /\ file' = file
      BY <1>1 DEF Square, SquareOff
    <2>2. PICK b \in BOOLEAN : b <=> Open(mem) # {}
      <3>1. (Open(mem) # {}) \in BOOLEAN  OBVIOUS
      <3> QED  BY <3>1, Zenon
    <2>3. fault' = [fault EXCEPT !.unsaved = @ \/ b]
      BY <2>1, <2>2
    <2>4. ~b => Open(mem) \cap Position = {}  BY <2>2
    <2>5. "EOD_EXIT" \in Status /\ "EOD_EXIT" # "OPEN"  BY DEF Status
    <2> QED
      BY <2>1, <2>3, <2>4, <2>5, MarkStep
  <1>2. CASE ~SquareDue
    BY <1>2, IdleStep DEF Square
  <1> QED  BY <1>1, <1>2

LEMMA NextRecordInv ==
  RecordTyped /\ RecordInv /\ [EngineNext]_engineVars => RecordTyped' /\ RecordInv'
  <1> SUFFICES ASSUME RecordTyped, RecordInv, [EngineNext]_engineVars
               PROVE  RecordTyped' /\ RecordInv'
    OBVIOUS
  <1>1. CASE Start
    <2>1. pc' # "down" /\ UNCHANGED <<file, book>>  BY <1>1 DEF Start
    <2>2. LoadSavedPositions \/ Forgets(file)  BY <1>1 DEF Start
    <2> QED  BY <2>1, <2>2, LoadStep, ForgetStep
  <1>2. CASE Top
    <2>1. pc # "down" /\ pc' # "down" /\ UNCHANGED <<file, book>>  BY <1>2 DEF Top
    <2>2. \/ LoadSavedPositions \/ Forgets(file) \/ Forgets(mem)
          \/ UNCHANGED <<mem, fault>>
      BY <1>2 DEF Top
    <2> QED  BY <2>1, <2>2, LoadStep, ForgetStep, IdleStep
  <1>3. CASE NoExpiry
    <2>1. pc # "down" /\ pc' # "down" /\ UNCHANGED <<file, book>> /\ Forgets(mem)
      BY <1>3 DEF NoExpiry
    <2> QED  BY <2>1, ForgetStep
  <1>4. CASE Tick \/ UNCHANGED engineVars
    BY <1>4, IdleStep DEF Tick, procVars, engineVars
  <1>5. CASE NoEntry \/ EntryHeld \/ EntryFails \/ Wake
    BY <1>5, IdleStep DEF NoEntry, EntryHeld, EntryFails, Wake
  <1>6. CASE LoopEnd
    BY <1>6, IdleStep, EndStep DEF LoopEnd, Gone
  <1>7. CASE EngineKilled
    <2>1. CASE UNCHANGED file
      BY <1>7, <2>1, EndStep, LostStep DEF EngineKilled, Gone, RecordTyped
    <2>2. CASE \E S \in SUBSET Recorded(mem) : file' = Marked(mem, S, "NONE")
      <3>1. file' \in [Position -> Status]
        BY <2>2, MarkedOpen DEF RecordTyped, Status
      <3> QED
        BY <1>7, <3>1, EndStep, LostStep DEF EngineKilled, Gone, RecordTyped
    <2> QED  BY <1>7, <2>1, <2>2 DEF EngineKilled
  <1> QED
    BY <1>1, <1>2, <1>3, <1>4, <1>5, <1>6, <1>7, EnterRecordStep, MonitorRecordStep,
       SquareRecordStep, SaveStep, InterruptStep
    DEF EngineNext, Loop

LEMMA RecordInvariance == EngineSpec => [](RecordTyped /\ RecordInv)
  <1> QED  BY InitRecordInv, NextRecordInv, PTL DEF EngineSpec

\* Process, file and truth agree on every position of the day, also on those
\* of earlier processes, unless a named fault took a row or a save is still to
\* come (engine.py load_saved_positions, log_trade_execution).
THEOREM RecordIsKept == EngineSpec => []RecordKept
  <1>1. RecordTyped /\ RecordInv => RecordKept  BY DEF RecordInv
  <1> QED  BY <1>1, RecordInvariance, PTL

\* No restart enters again while legs of the day are open (run.py
\* entry_triggered, BUG-25).
THEOREM EntersOnce == EngineSpec => []OneEntryOpen
  <1>1. RecordTyped /\ RecordInv => OneEntryOpen  BY DEF RecordInv
  <1> QED  BY <1>1, RecordInvariance, PTL
=============================================================================
