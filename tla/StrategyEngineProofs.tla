----------------------- MODULE StrategyEngineProofs -----------------------
(***************************************************************************)
(* For every capital, price set, trading hours and number of strikes: the  *)
(* account stays on one side of the market, the box and Dalton models hold *)
(* one position each, the book is empty after the square-off, the engine   *)
(* implements the abstract account, the account stays within its limits    *)
(* and its books balance.                                                  *)
(*                                                                         *)
(* Only the last two look at an amount.  The others follow which positions *)
(* an operator keeps, drops or adds, and that it leaves the side, the      *)
(* model and the number of those it keeps alone.                           *)
(***************************************************************************)
EXTENDS StrategyEngine, InductionTheorems

\* What the operators keep of the pool: its positions have a side and a model,
\* all the same side, and none is the second of a model that holds one.
Aligned(held) ==
    /\ "active" \in DOMAIN held
    /\ \A p \in held.active :
          /\ {"type", "model"} \subseteq DOMAIN p
          /\ p.type \in OptionType
    /\ \A p, q \in held.active : p.type = q.type
    /\ \A p, q \in held.active : p.model = q.model /\ p.model # Poc => p = q

Inv ==
    /\ Aligned(pool)
    /\ pending \in OptionType \cup {NoSignal}
    /\ SquaredOff

-----------------------------------------------------------------------------
\* A new day starts with nothing held.
LEMMA EmptyAligned == Aligned(EmptyPool)
  BY DEF Aligned, EmptyPool

\* Closing positions keeps the rest as they are.
LEMMA CloseAligned ==
  ASSUME NEW held, NEW S, NEW bid, Aligned(held)
  PROVE  /\ Aligned(CloseAll(held, S, bid))
         /\ CloseAll(held, S, bid).active = held.active \ S
  <1>1. "active" \in DOMAIN held  BY DEF Aligned
  <1>2. CloseAll(held, S, bid).active = held.active \ S
    BY <1>1 DEF CloseAll
  <1>3. DOMAIN CloseAll(held, S, bid) = DOMAIN held
    BY DEF CloseAll
  <1> QED  BY <1>1, <1>2, <1>3 DEF Aligned

\* Banking a lot changes neither side nor model.
LEMMA BankAligned ==
  ASSUME NEW held, NEW S \in SUBSET held.active, NEW bid, Aligned(held)
  PROVE  Aligned(BankAll(held, S, bid))
  <1> DEFINE gain(p) == bid[p] - p.entry - Friction
             Banked(p) == [p EXCEPT !.t1 = TRUE, !.banked = gain(p)]
  <1>1. /\ "active" \in DOMAIN BankAll(held, S, bid)
        /\ BankAll(held, S, bid).active =
               (held.active \ S) \cup {Banked(p) : p \in S}
    BY DEF BankAll, Aligned
  <1>2. \A p \in S : /\ DOMAIN Banked(p) = DOMAIN p
                     /\ Banked(p).type = p.type
                     /\ Banked(p).model = p.model
    BY DEF Aligned
  <1> HIDE DEF Banked
  <1> QED  BY <1>1, <1>2 DEF Aligned

\* Counting a bar changes neither side nor model.
LEMMA BarAligned ==
  ASSUME Aligned(pool)
  PROVE  Aligned(BarHeld)
  <1> DEFINE Older(p) == [p EXCEPT !.bars = Min({@ + 1, BoxHold})]
  <1>1. /\ "active" \in DOMAIN BarHeld
        /\ BarHeld.active = {Older(p) : p \in pool.active}
    BY DEF BarHeld, Aligned
  <1>2. \A p \in pool.active : /\ DOMAIN Older(p) = DOMAIN p
                               /\ Older(p).type = p.type
                               /\ Older(p).model = p.model
    BY DEF Aligned
  <1> HIDE DEF Older
  <1> QED  BY <1>1, <1>2 DEF Aligned

\* A signal that is taken finds nobody on the other side.  It may not come
\* from a model that holds its one position.
LEMMA AllocateAligned ==
  ASSUME NEW held, NEW bid, NEW model, NEW type \in OptionType,
         NEW strike, NEW ask, Aligned(held),
         model # Poc => ~HasPosition(held, model)
  PROVE  Aligned(Allocate(held, [model |-> model, type |-> type,
                                 strike |-> strike, ask |-> ask], bid))
  <1> DEFINE sig == [model |-> model, type |-> type,
                     strike |-> strike, ask |-> ask]
             flipped == Flipped(held, sig, bid)
  <1>1. sig.model = model /\ sig.type = type  OBVIOUS
  <1> HIDE DEF sig
  <1>2. Aligned(flipped) /\ flipped.active \subseteq held.active
    BY CloseAligned DEF Flipped
  <1> HIDE DEF flipped
  <1>3. CASE Refused(flipped, sig)
    BY <1>2, <1>3 DEF Allocate, flipped, sig
  <1>4. CASE ~Refused(flipped, sig)
    <2>1. \A p \in flipped.active : p.type = type
      BY <1>1, <1>2, <1>4 DEF Refused, Opposing, Opposite, OptionType, Aligned
    <2> DEFINE p == [id |-> flipped.counter + 1, model |-> model,
                     type |-> type, strike |-> sig.strike,
                     lots |-> Lots(flipped, sig), entry |-> sig.ask,
                     t1 |-> FALSE, banked |-> 0, bars |-> 0]
    <2>2. /\ {"type", "model"} \subseteq DOMAIN p
          /\ p.type = type /\ p.model = model
      OBVIOUS
    <2>3. Opened(flipped, sig).active = flipped.active \cup {p}
      BY <1>1, <1>2 DEF Opened, Aligned
    <2> HIDE DEF p
    <2>4. "active" \in DOMAIN Opened(flipped, sig)
      BY <1>2 DEF Opened, Aligned
    <2>5. \A q \in flipped.active : q.model = model => model = Poc
      BY <1>2 DEF HasPosition
    <2>6. Aligned(Opened(flipped, sig))
      BY <1>2, <2>1, <2>2, <2>4, <2>5, <2>3 DEF Aligned
    <2> QED  BY <1>4, <2>6 DEF Allocate, flipped, sig
  <1> QED  BY <1>3, <1>4

\* An evaluation of the exits keeps the alignment, and empties the book at or
\* after the square-off.
LEMMA ExitsAligned ==
  ASSUME NEW held, NEW t, Aligned(held), CheckExits(held, t)
  PROVE  /\ Aligned(pool')
         /\ t >= SquareOff => pool'.active = {}
  <1>1. PICK bid \in [held.active -> Bids],
             verdict \in [held.active -> {"hold", "bank", "exit"}] :
          LET exits == {p \in held.active : verdict[p] = "exit"}
              banks == {p \in held.active : verdict[p] = "bank"}
          IN  /\ \A p \in held.active : verdict[p] \in Verdicts(p, t)
              /\ pool' = CloseAll(BankAll(held, banks, bid), exits, bid)
    BY DEF CheckExits
  <1> DEFINE exits == {p \in held.active : verdict[p] = "exit"}
             banks == {p \in held.active : verdict[p] = "bank"}
             banked == BankAll(held, banks, bid)
  <1>2. Aligned(banked)
    BY BankAligned
  <1>3. pool' = CloseAll(banked, exits, bid)
    BY <1>1
  <1>4. t >= SquareOff => banks = {} /\ exits = held.active
    BY <1>1 DEF Verdicts
  <1>5. banks = {} => banked.active = held.active
    BY DEF BankAll, Aligned
  <1> HIDE DEF banked, banks, exits
  <1>6. pool'.active = banked.active \ exits /\ Aligned(pool')
    BY <1>2, <1>3, CloseAligned
  <1> QED  BY <1>4, <1>5, <1>6

-----------------------------------------------------------------------------
\* The thread starts with an empty book.
LEMMA InitInv == Init => Inv
  BY EmptyAligned DEF Init, Inv, SquaredOff, EmptyPool

\* Every step of the tick thread keeps the book aligned, and empty after the
\* square-off.
LEMMA NextInv == Inv /\ [Next]_vars => Inv'
  <1> SUFFICES ASSUME Inv, [Next]_vars PROVE Inv'
    OBVIOUS
  <1>0. Aligned(pool)  BY DEF Inv
  <1>1. CASE SameMinute
    BY <1>1 DEF SameMinute, Inv, SquaredOff, Aligned
  <1>2. CASE NewMinute
    BY <1>2 DEF NewMinute, Inv, SquaredOff, Aligned
  <1>3. CASE ExecutePending
    <2>1. CASE pending = NoSignal
      BY <1>3, <2>1 DEF ExecutePending, Inv, SquaredOff, Aligned
    <2>2. CASE pending # NoSignal
      <3>1. PICK bid, out, strike, ask :
              pool' = Allocate(CloseAll(pool, out, bid),
                               [model |-> Poc, type |-> pending,
                                strike |-> strike, ask |-> ask], bid)
        BY <1>3, <2>2 DEF ExecutePending
      <3>2. pending \in OptionType  BY <2>2 DEF Inv
      <3>3. Aligned(CloseAll(pool, out, bid))
        BY <1>0, CloseAligned
      <3>4. Aligned(pool')
        BY <3>1, <3>2, <3>3, AllocateAligned
      <3> QED  BY <1>3, <3>4 DEF ExecutePending, Inv, SquaredOff, Aligned
    <2> QED  BY <2>1, <2>2
  <1>4. CASE ExitsOnBar
    <2>1. Aligned(pool')
      BY <1>0, <1>4, BarAligned, ExitsAligned DEF ExitsOnBar
    <2> QED  BY <1>4, <2>1 DEF ExitsOnBar, Inv, SquaredOff, Aligned
  <1>5. CASE ExitsOnTick
    <2>1. Aligned(pool') /\ (now >= SquareOff => pool'.active = {})
      BY <1>0, <1>5, ExitsAligned DEF ExitsOnTick
    <2> QED  BY <1>5, <2>1 DEF ExitsOnTick, Inv, SquaredOff, Aligned
  <1>6. CASE EvaluatePoc
    BY <1>6 DEF EvaluatePoc, Inv, SquaredOff, Aligned
  <1>7. CASE EvaluateBox
    <2>1. Aligned(pool')
      BY <1>0, <1>7, AllocateAligned DEF EvaluateBox, BuyAtClose
    <2> QED  BY <1>7, <2>1 DEF EvaluateBox, Inv, SquaredOff, Aligned
  <1>8. CASE EvaluateDalton
    <2>1. Aligned(pool')
      BY <1>0, <1>8, AllocateAligned DEF EvaluateDalton, BuyAtClose
    <2> QED  BY <1>8, <2>1 DEF EvaluateDalton, Inv, SquaredOff, Aligned
  <1>9. CASE Restart
    BY <1>9, EmptyAligned DEF Restart, Inv, SquaredOff, Aligned, EmptyPool
  <1>10. CASE UNCHANGED vars
    BY <1>10 DEF vars, Inv, SquaredOff, Aligned
  <1> QED
    BY <1>1, <1>2, <1>3, <1>4, <1>5, <1>6, <1>7, <1>8, <1>9, <1>10 DEF Next

\* So both hold throughout.
LEMMA Invariance == Spec => []Inv
  <1> QED  BY InitInv, NextInv, PTL DEF Spec

\* The account is never long calls and puts at once (the conflict filter of
\* evaluate_and_allocate).
THEOREM NeverStraddles == Spec => []OneDirection
  <1>1. Inv => OneDirection  BY DEF Inv, Aligned, OneDirection
  <1> QED  BY <1>1, Invariance, PTL

\* The box and Dalton models hold at most one position each (their early
\* returns on has_active_position_for_model).
THEOREM HoldsOne == Spec => []OneAtATime
  <1>1. Inv => OneAtATime  BY DEF Inv, Aligned, OneAtATime
  <1> QED  BY <1>1, Invariance, PTL

\* After a tick at or past 15:20 nothing is held, also when a queued signal
\* was executed on the bar before it (check_active_exits).
THEOREM FlatAtSquareOff == Spec => []SquaredOff
  <1>1. Inv => SquaredOff  BY DEF Inv
  <1> QED  BY <1>1, Invariance, PTL

-----------------------------------------------------------------------------
(* Refinement: every step of the tick thread is one that CapitalAccount    *)
(* allows, or leaves the account as it is.  That a step only banks and     *)
(* closes positions that are held follows from their numbers: two          *)
(* positions never share an id, so a position that has just banked a lot   *)
(* is not mistaken for one that is closed.                                 *)

\* Positions carry an id that has been given out, and no two the same.
Numbered(held) ==
    /\ held = [f \in DOMAIN held |-> held[f]]
    /\ {"active", "counter"} \subseteq DOMAIN held
    /\ held.counter \in Nat
    /\ \A p \in held.active :
          /\ {"id", "t1", "bars", "banked"} \subseteq DOMAIN p
          /\ p.id \in Nat /\ p.id <= held.counter
    /\ \A p, q \in held.active : p.id = q.id => p = q

-----------------------------------------------------------------------------
\* A new day has given out no id.
LEMMA EmptyNumbered == Numbered(EmptyPool)
  BY DEF Numbered, EmptyPool

\* Closing positions keeps the rest, and the count, as they are.
LEMMA CloseNumbered ==
  ASSUME NEW held, NEW S, NEW bid, Numbered(held)
  PROVE  /\ Numbered(CloseAll(held, S, bid))
         /\ CloseAll(held, S, bid).active = held.active \ S
         /\ CloseAll(held, S, bid).counter = held.counter
  <1>1. {"active", "counter"} \subseteq DOMAIN held  BY DEF Numbered
  <1>2. /\ CloseAll(held, S, bid).active = held.active \ S
        /\ CloseAll(held, S, bid).counter = held.counter
    BY <1>1 DEF CloseAll
  <1>3. /\ DOMAIN CloseAll(held, S, bid) = DOMAIN held
        /\ CloseAll(held, S, bid) =
               [f \in DOMAIN held |-> CloseAll(held, S, bid)[f]]
    BY DEF CloseAll
  <1> QED  BY <1>1, <1>2, <1>3 DEF Numbered

\* Banking a lot keeps every position's id and bars.
LEMMA BankNumbered ==
  ASSUME NEW held, NEW S \in SUBSET held.active, NEW bid, Numbered(held)
  PROVE  /\ Numbered(BankAll(held, S, bid))
         /\ BankAll(held, S, bid).counter = held.counter
         /\ \A q \in BankAll(held, S, bid).active :
               \/ q \in held.active \ S
               \/ q.t1 = TRUE /\ \E p \in S : q.id = p.id /\ q.bars = p.bars
         /\ held.active \ S \subseteq BankAll(held, S, bid).active
  <1> DEFINE after == BankAll(held, S, bid)
             gain(p) == bid[p] - p.entry - Friction
             Banked(p) == [p EXCEPT !.t1 = TRUE, !.banked = gain(p)]
  <1>1. /\ {"active", "counter"} \subseteq DOMAIN after
        /\ after = [f \in DOMAIN after |-> after[f]]
        /\ after.counter = held.counter
        /\ after.active = (held.active \ S) \cup {Banked(p) : p \in S}
    BY DEF BankAll, Numbered
  <1>2. \A p \in S : /\ DOMAIN Banked(p) = DOMAIN p
                     /\ Banked(p).id = p.id /\ Banked(p).bars = p.bars
                     /\ Banked(p).t1 = TRUE
    BY DEF Numbered
  <1> HIDE DEF Banked, after
  <1>3. Numbered(after)
    BY <1>1, <1>2 DEF Numbered
  <1>4. /\ \A q \in after.active :
              \/ q \in held.active \ S
              \/ q.t1 = TRUE /\ \E p \in S : q.id = p.id /\ q.bars = p.bars
        /\ held.active \ S \subseteq after.active
    BY <1>1, <1>2
  <1> QED  BY <1>1, <1>3, <1>4 DEF after

\* The position that p is once it has banked a lot at bid.
AfterLot(p, bid) ==
    [p EXCEPT !.t1 = TRUE, !.banked = bid[p] - p.entry - Friction]

\* A position that banks a lot stays in the book.
LEMMA BankStays ==
  ASSUME NEW held, NEW S \in SUBSET held.active, NEW bid, Numbered(held)
  PROVE  \A p \in S : /\ AfterLot(p, bid) \in BankAll(held, S, bid).active
                      /\ AfterLot(p, bid).t1 = TRUE
  BY DEF AfterLot, BankAll, Numbered

\* Counting a bar keeps the ids.
LEMMA AgedNumbered ==
  ASSUME NEW older \in SUBSET pool.active, Numbered(pool)
  PROVE  Numbered(Aged(older)) /\ Aged(older).counter = pool.counter
  <1> DEFINE Older(p) == [p EXCEPT !.bars = Min({@ + 1, BoxHold})]
  <1>1. /\ {"active", "counter"} \subseteq DOMAIN Aged(older)
        /\ Aged(older) = [f \in DOMAIN Aged(older) |-> Aged(older)[f]]
        /\ Aged(older).counter = pool.counter
        /\ Aged(older).active =
               (pool.active \ older) \cup {Older(p) : p \in older}
    BY DEF Aged, Numbered
  <1>2. \A p \in older : DOMAIN Older(p) = DOMAIN p /\ Older(p).id = p.id
    BY DEF Numbered
  <1> HIDE DEF Older
  <1> QED  BY <1>1, <1>2 DEF Numbered

\* A signal takes the next id or none.
LEMMA AllocateNumbered ==
  ASSUME NEW held, NEW bid, NEW sig, Numbered(held)
  PROVE  Numbered(Allocate(held, sig, bid))
  <1> DEFINE flipped == Flipped(held, sig, bid)
  <1>1. Numbered(flipped)
    BY CloseNumbered DEF Flipped
  <1> HIDE DEF flipped
  <1> DEFINE p == [id |-> flipped.counter + 1, model |-> sig.model,
                   type |-> sig.type, strike |-> sig.strike,
                   lots |-> Lots(flipped, sig), entry |-> sig.ask,
                   t1 |-> FALSE, banked |-> 0, bars |-> 0]
  <1>2. /\ {"id", "t1", "bars", "banked"} \subseteq DOMAIN p
        /\ p.id = flipped.counter + 1
    OBVIOUS
  <1>3. /\ {"active", "counter"} \subseteq DOMAIN Opened(flipped, sig)
        /\ Opened(flipped, sig) =
               [f \in DOMAIN Opened(flipped, sig) |-> Opened(flipped, sig)[f]]
        /\ Opened(flipped, sig).counter = flipped.counter + 1
        /\ Opened(flipped, sig).active = flipped.active \cup {p}
    BY <1>1 DEF Opened, Numbered
  <1> HIDE DEF p
  <1>4. Numbered(Opened(flipped, sig))
    <2>1. \A q \in flipped.active : q.id # p.id
      BY <1>1, <1>2 DEF Numbered
    <2> QED  BY <1>1, <1>2, <1>3, <2>1 DEF Numbered
  <1> QED  BY <1>1, <1>4 DEF Allocate, flipped

-----------------------------------------------------------------------------
\* Judging the exits of a numbered book is a step of the account.
LEMMA ExitsJudge ==
  ASSUME NEW older \in SUBSET pool.active, Numbered(pool), NEW t,
         CheckExits(Aged(older), t)
  PROVE  Judge /\ Numbered(pool')
  <1> DEFINE held == Aged(older)
  <1>1. Numbered(held) /\ held.counter = pool.counter
    BY AgedNumbered
  <1> HIDE DEF held
  <1>2. PICK bid \in [held.active -> Bids],
             verdict \in [held.active -> {"hold", "bank", "exit"}] :
          LET exits == {p \in held.active : verdict[p] = "exit"}
              banks == {p \in held.active : verdict[p] = "bank"}
          IN  /\ \A p \in held.active : verdict[p] \in Verdicts(p, t)
              /\ pool' = CloseAll(BankAll(held, banks, bid), exits, bid)
    BY DEF CheckExits, held
  <1> DEFINE exits == {p \in held.active : verdict[p] = "exit"}
             banks == {p \in held.active : verdict[p] = "bank"}
             banked == BankAll(held, banks, bid)
  <1>3. /\ exits \in SUBSET held.active
        /\ banks \in SUBSET (held.active \ exits)
        /\ \A p \in banks : ~p.t1
    BY <1>2 DEF Verdicts
  <1>4. pool' = CloseAll(banked, exits, bid)
    BY <1>2
  <1> HIDE DEF exits, banks
  <1>5. banks \in SUBSET held.active
    BY <1>3
  <1> HIDE DEF banked
  <1>6. /\ Numbered(banked) /\ banked.counter = held.counter
        /\ \A q \in banked.active :
              \/ q \in held.active \ banks
              \/ q.t1 = TRUE /\ \E p \in banks : q.id = p.id /\ q.bars = p.bars
        /\ held.active \ banks \subseteq banked.active
        /\ \A p \in banks : /\ AfterLot(p, bid) \in banked.active
                           /\ AfterLot(p, bid).t1 = TRUE
                           /\ AfterLot(p, bid).id = p.id
                           /\ AfterLot(p, bid).bars = p.bars
    <2>1. Numbered(banked)
      BY <1>1, <1>5, BankNumbered DEF banked
    <2>2. banked.counter = held.counter
      BY <1>1, <1>5, BankNumbered DEF banked
    <2>3. held.active \ banks \subseteq banked.active
      BY <1>1, <1>5, BankNumbered DEF banked
    <2>4. \A q \in banked.active :
              \/ q \in held.active \ banks
              \/ q.t1 = TRUE /\ \E p \in banks : q.id = p.id /\ q.bars = p.bars
      BY <1>1, <1>5, BankNumbered DEF banked
    <2>5. \A p \in banks : /\ AfterLot(p, bid) \in banked.active
                           /\ AfterLot(p, bid).t1 = TRUE
                           /\ AfterLot(p, bid).id = p.id
                           /\ AfterLot(p, bid).bars = p.bars
      <3>1. \A p \in banks : /\ AfterLot(p, bid) \in BankAll(held, banks, bid).active
                             /\ AfterLot(p, bid).t1 = TRUE
        BY <1>1, <1>5, BankStays
      <3>2. \A p \in banks : AfterLot(p, bid).id = p.id
        BY <1>1, <1>5 DEF AfterLot, Numbered
      <3>3. \A p \in banks : AfterLot(p, bid).bars = p.bars
        BY <1>1, <1>5 DEF AfterLot, Numbered
      <3> QED  BY <3>1, <3>2, <3>3 DEF banked
    <2> QED  BY <2>1, <2>2, <2>3, <2>4, <2>5
  <1>7. /\ Numbered(pool') /\ pool'.counter = held.counter
        /\ pool'.active = banked.active \ exits
    BY <1>4, <1>6, CloseNumbered
  <1>8. ASSUME NEW q \in banked.active, NEW p \in banks, q.t1 = TRUE, q.id = p.id
        PROVE  q \notin exits
    BY <1>1, <1>3, <1>8 DEF Numbered
  <1>9. Held(pool'.active) = Held(held.active \ exits)
    <2>1. \A q \in pool'.active : \E p \in held.active \ exits :
              q.id = p.id /\ q.bars = p.bars
      BY <1>3, <1>6, <1>7
    <2>2. \A p \in held.active \ exits : \E q \in pool'.active :
              q.id = p.id /\ q.bars = p.bars
      BY <1>3, <1>6, <1>7, <1>8
    <2> QED  BY <2>1, <2>2 DEF Held
  <1>10. Judge
    <2>1. pool'.counter = pool.counter  BY <1>1, <1>7
    <2>2. pool' = CloseAll(BankAll(held, banks, bid), exits, bid)
      BY <1>4 DEF banked
    <2> QED  BY <1>2, <1>3, <1>9, <2>1, <2>2 DEF Judge, held
  <1> QED  BY <1>7, <1>10

\* Every step of the engine is a step of the account or leaves it alone.
LEMMA StepOfAccount ==
  ASSUME Numbered(pool), pending \in OptionType \cup {NoSignal}, [Next]_vars
  PROVE  /\ [AccountNext]_pool
         /\ Numbered(pool')
         /\ (pending \in OptionType \cup {NoSignal})'
  <1>1. CASE SameMinute \/ NewMinute \/ UNCHANGED vars
    BY <1>1 DEF SameMinute, NewMinute, vars, Numbered
  <1>2. CASE ExecutePending
    <2>1. CASE pending = NoSignal
      BY <1>2, <2>1 DEF ExecutePending, Numbered
    <2>2. CASE pending # NoSignal
      <3>1. PICK bid \in Prices, out \in ReversalExits,
                 strike \in Strikes, ask \in Asks :
              pool' = Allocate(CloseAll(pool, out, bid),
                               [model |-> Poc, type |-> pending,
                                strike |-> strike, ask |-> ask], bid)
        BY <1>2, <2>2 DEF ExecutePending
      <3>2. Poc \in Models /\ pending \in OptionType
        BY <2>2, EngineAssumption
      <3>3. out \in SUBSET pool.active
        BY DEF ReversalExits, Opposing
      <3>4. Trade
        BY <3>1, <3>2, <3>3 DEF Trade, Prices
      <3> QED
        BY <1>2, <3>1, <3>4, CloseNumbered, AllocateNumbered
        DEF ExecutePending, AccountNext
    <2> QED  BY <2>1, <2>2
  <1>3. CASE ExitsOnBar
    <2>1. BarHeld = Aged(pool.active)
      BY DEF BarHeld, Aged
    <2>2. Judge /\ Numbered(pool')
      BY <1>3, <2>1, ExitsJudge DEF ExitsOnBar
    <2> QED  BY <1>3, <2>2 DEF ExitsOnBar, AccountNext
  <1>4. CASE ExitsOnTick
    <2>1. pool = Aged({})
      BY DEF Aged, Numbered
    <2>2. Judge /\ Numbered(pool')
      BY <1>4, <2>1, ExitsJudge DEF ExitsOnTick
    <2> QED  BY <1>4, <2>2 DEF ExitsOnTick, AccountNext
  <1>5. CASE EvaluatePoc
    BY <1>5 DEF EvaluatePoc, Numbered
  <1>6. ASSUME NEW model \in Models, BuyAtClose(model)
        PROVE  Trade /\ Numbered(pool')
    <2>1. PICK type \in OptionType, strike \in Strikes, ask \in Asks,
               bid \in Prices :
            pool' = Allocate(pool, [model |-> model, type |-> type,
                                    strike |-> strike, ask |-> ask], bid)
      BY <1>6 DEF BuyAtClose
    <2>2. Trade  BY <2>1 DEF Trade, Prices
    <2> QED  BY <2>1, <2>2, AllocateNumbered
  <1>7. CASE EvaluateBox
    BY <1>6, <1>7, EngineAssumption DEF EvaluateBox, AccountNext
  <1>8. CASE EvaluateDalton
    BY <1>6, <1>8, EngineAssumption DEF EvaluateDalton, AccountNext
  <1>9. CASE Restart
    BY <1>9, EmptyNumbered DEF Restart, AccountNext, Forget
  <1> QED
    BY <1>1, <1>2, <1>3, <1>4, <1>5, <1>7, <1>8, <1>9 DEF Next

\* The collector's strategy engine implements the account: nothing it does
\* moves a position or a rupee except by allocating one signal or by judging
\* what is held (fifo_pool.cpp and strategy_engine.cpp).
THEOREM ImplementsAccount == Spec => KeepsAccount
  <1> DEFINE I == Numbered(pool) /\ pending \in OptionType \cup {NoSignal}
  <1>1. Init => I /\ AccountInit
    BY EmptyNumbered DEF Init, AccountInit
  <1>2. I /\ [Next]_vars => I' /\ [AccountNext]_pool
    BY StepOfAccount
  <1> QED  BY <1>1, <1>2, PTL DEF Spec, KeepsAccount, AccountSpec

-----------------------------------------------------------------------------
(* Amounts.  What is locked, what has been lost and what the books say are *)
(* sums over the positions that are held.  Every operator of the pool      *)
(* takes positions out of them, puts one in, or replaces some by others    *)
(* that are the same trade with one lot less or one bar more.              *)
(*                                                                         *)
(* WithinLimits is not inductive: a lot that is sold loses the friction on *)
(* top of what it cost.  So the invariant charges the friction that is     *)
(* still to come to the positions that will pay it, and knows that those   *)
(* charges never exceed what MaxStrikeLots lots would pay for every        *)
(* position ever opened.                                                   *)

\* The larger of a number and zero.
LEMMA AtLeastNothing == \A x \in Int : Max({0, x}) = IF x > 0 THEN x ELSE 0
  <1> SUFFICES ASSUME NEW x \in Int PROVE Max({0, x}) = IF x > 0 THEN x ELSE 0
    OBVIOUS
  <1> DEFINE m == IF x > 0 THEN x ELSE 0
  <1>1. m \in {0, x} /\ \A y \in {0, x} : m >= y
    OBVIOUS
  <1>2. Max({0, x}) \in {0, x} /\ \A y \in {0, x} : Max({0, x}) >= y
    BY <1>1 DEF Max
  <1> QED  BY <1>1, <1>2

\* What a position weighs in each of the sums.
Lot     == [p \in Position |-> p.lots]
Worth   == [p \in Position |-> Remaining(p) * p.entry]
Fee     == [p \in Position |-> Remaining(p) * Friction]
Exposed == [p \in Position |-> Remaining(p) * (p.entry + Friction)]
Booked  == [p \in Position |-> p.banked]

\* The positions on a strike.
On(held, strike, type) == {p \in held.active : p.strike = strike /\ p.type = type}

\* The types, ids that have been given out once, and a banked lot only where
\* one was sold.
Typed(held) ==
    /\ held \in Pool
    /\ IsFiniteSet(held.active)
    /\ \A p \in held.active : p.id <= held.counter /\ (p.t1 \/ p.banked = 0)
    /\ \A p, q \in held.active : p.id = q.id => p = q

\* The limits, with the friction that the open lots will still pay.
Within(held) ==
    /\ \A strike \in Strikes, type \in OptionType :
          SumOf(Lot, On(held, strike, type)) <= MaxStrikeLots
    /\ SumOf(Exposed, held.active) + held.losses
          <= StartingCapital + Friction * MaxStrikeLots * held.counter
    /\ SumOf(Fee, held.active) <= Friction * MaxStrikeLots * held.counter

\* BooksBalance, of any pool.
Balanced(held) ==
    held.profits - held.losses = held.closed + SumOf(Booked, held.active)

\* Each weight is a number, and the exposed amount is what is locked and the
\* friction to come.
LEMMA PositionWeighs ==
  ASSUME NEW p \in Position
  PROVE  /\ p.lots \in 1..MaxStrikeLots /\ Lot[p] = p.lots /\ Lot[p] \in Nat
         /\ Remaining(p) \in Nat /\ Remaining(p) <= p.lots /\ p.entry \in Nat
         /\ Worth[p] = Remaining(p) * p.entry /\ Worth[p] \in Nat
         /\ Fee[p] = Remaining(p) * Friction /\ Fee[p] \in Nat
         /\ Exposed[p] = Remaining(p) * (p.entry + Friction) /\ Exposed[p] \in Nat
         /\ Exposed[p] = Worth[p] + Fee[p]
         /\ Booked[p] = p.banked /\ Booked[p] \in Int
  <1>1. p.lots \in 1..MaxStrikeLots /\ p.entry \in Nat /\ p.t1 \in BOOLEAN /\ p.banked \in Int
    BY DEF Position
  <1>2. Remaining(p) \in Nat /\ Remaining(p) <= p.lots
    BY <1>1, PoolAssumption DEF Remaining
  <1>3. Friction \in Nat
    BY PoolAssumption
  <1>4. \A a, b, c \in Nat : a * b \in Nat /\ a * (b + c) \in Nat /\ a * (b + c) = a * b + a * c
    OBVIOUS
  <1>5. /\ Lot[p] = p.lots /\ Worth[p] = Remaining(p) * p.entry /\ Fee[p] = Remaining(p) * Friction
        /\ Exposed[p] = Remaining(p) * (p.entry + Friction) /\ Booked[p] = p.banked
    BY DEF Lot, Worth, Fee, Exposed, Booked
  <1>6. /\ Remaining(p) * p.entry \in Nat /\ Remaining(p) * Friction \in Nat
        /\ Remaining(p) * (p.entry + Friction) \in Nat
        /\ Remaining(p) * (p.entry + Friction) = Remaining(p) * p.entry + Remaining(p) * Friction
    BY <1>1, <1>2, <1>3, <1>4
  <1>7. Lot[p] \in Nat
    BY <1>1, <1>5, PoolAssumption
  <1> QED  BY <1>1, <1>2, <1>5, <1>6, <1>7, Zenon

\* The weights of a book can be summed.
LEMMA WeightsAdd ==
  ASSUME NEW S \in SUBSET Position, IsFiniteSet(S)
  PROVE  /\ Addable(Lot, S) /\ Addable(Worth, S) /\ Addable(Fee, S) /\ Addable(Exposed, S)
         /\ Addable(Booked, S)
  <1>1. \A p \in S : /\ Lot[p] \in Int /\ Worth[p] \in Int /\ Fee[p] \in Int
                     /\ Exposed[p] \in Int /\ Booked[p] \in Int
    BY PositionWeighs
  <1> QED  BY <1>1 DEF Addable

\* The sums of the pool are these.
LEMMA PoolSums ==
  ASSUME NEW S \in SUBSET Position, IsFiniteSet(S)
  PROVE  /\ SumFunction([p \in S |-> p.lots]) = SumOf(Lot, S)
         /\ SumFunction([p \in S |-> Remaining(p) * p.entry]) = SumOf(Worth, S)
         /\ SumFunction([p \in S |-> p.banked]) = SumOf(Booked, S)
  <1>0. /\ Addable(Lot, S) /\ Addable(Worth, S) /\ Addable(Booked, S)
    BY WeightsAdd
  <1> DEFINE lot == [p \in S |-> p.lots]
             worth == [p \in S |-> Remaining(p) * p.entry]
             booked == [p \in S |-> p.banked]
  <1>1. /\ DOMAIN lot = S /\ DOMAIN worth = S /\ DOMAIN booked = S
        /\ \A p \in S : /\ lot[p] = Lot[p] /\ worth[p] = Worth[p] /\ booked[p] = Booked[p]
    BY PositionWeighs
  <1> HIDE DEF lot, worth, booked
  <1>2. Addable(lot, S) /\ Addable(worth, S) /\ Addable(booked, S)
    BY <1>0, <1>1 DEF Addable
  <1>3. SumOf(lot, S) = SumOf(Lot, S) /\ SumOf(worth, S) = SumOf(Worth, S) /\ SumOf(booked, S) = SumOf(Booked, S)
    BY <1>0, <1>1, <1>2, SumSame
  <1>4. SumFunction(lot) = SumOf(lot, S) /\ SumFunction(worth) = SumOf(worth, S) /\ SumFunction(booked) = SumOf(booked, S)
    BY <1>1 DEF SumFunction, SumOf
  <1> QED  BY <1>3, <1>4 DEF lot, worth, booked

\* The parts of a typed pool.
LEMMA TypedSets ==
  ASSUME NEW held, Typed(held)
  PROVE  /\ \A S \in SUBSET held.active : S \in SUBSET Position /\ IsFiniteSet(S)
         /\ held.active \in SUBSET Position /\ IsFiniteSet(held.active)
         /\ held.counter \in Nat /\ held.profits \in Nat /\ held.losses \in Nat /\ held.closed \in Int
         /\ \A strike, type : On(held, strike, type) \in SUBSET held.active
  BY FS_Subset DEF Typed, Pool, On

\* The sums of what is locked and of the friction to come.
LEMMA ExposedParts ==
  ASSUME NEW held, Typed(held)
  PROVE  /\ SumOf(Exposed, held.active) = SumOf(Worth, held.active) + SumOf(Fee, held.active)
         /\ SumOf(Exposed, held.active) \in Nat
         /\ SumOf(Worth, held.active) \in Nat
         /\ SumOf(Fee, held.active) \in Nat
         /\ LockedMargin(held) = SumOf(Worth, held.active)
  <1>0. held.active \in SUBSET Position /\ IsFiniteSet(held.active)
    BY TypedSets
  <1>1. /\ Addable(Worth, held.active) /\ Addable(Fee, held.active) /\ Addable(Exposed, held.active)
    BY <1>0, WeightsAdd
  <1>2. \A p \in held.active : /\ Exposed[p] = Worth[p] + Fee[p]
                               /\ Exposed[p] >= 0 /\ Worth[p] >= 0 /\ Fee[p] >= 0
    BY <1>0, PositionWeighs
  <1>3. LockedMargin(held) = SumOf(Worth, held.active)
    BY <1>0, PoolSums DEF LockedMargin
  <1> QED  BY <1>1, <1>2, <1>3, SumPlus, SumPositive

\* The properties that the runs check follow from the invariant.
LEMMA AmountsHold ==
  ASSUME Typed(pool)
  PROVE  /\ Within(pool) => WithinLimits
         /\ Balanced(pool) => BooksBalance
  <1>0. pool.active \in SUBSET Position /\ IsFiniteSet(pool.active) /\ pool.losses \in Nat /\ pool.counter \in Nat
    BY TypedSets
  <1>1. ASSUME Within(pool) PROVE WithinLimits
    <2>1. ASSUME NEW strike \in Strikes, NEW type \in OptionType
          PROVE  StrikeLots(pool, strike, type) <= MaxStrikeLots
      <3>1. On(pool, strike, type) \in SUBSET Position /\ IsFiniteSet(On(pool, strike, type))
        BY TypedSets
      <3>2. SumFunction([p \in On(pool, strike, type) |-> p.lots]) = SumOf(Lot, On(pool, strike, type))
        BY <3>1, PoolSums
      <3> QED  BY <1>1, <3>2 DEF StrikeLots, On, Within
    <2>2. LockedMargin(pool) + pool.losses <= StartingCapital + Friction * MaxStrikeLots * pool.counter
      <3> DEFINE cap == StartingCapital + Friction * MaxStrikeLots * pool.counter
      <3>1. cap \in Int
        BY <1>0, PoolAssumption
      <3> HIDE DEF cap
      <3>2. SumOf(Exposed, pool.active) + pool.losses <= cap
        BY <1>1 DEF Within, cap
      <3>3. LockedMargin(pool) + pool.losses <= cap
        BY <1>0, <3>1, <3>2, ExposedParts
      <3> QED  BY <3>3 DEF cap
    <2> QED  BY <2>1, <2>2 DEF WithinLimits
  <1>2. ASSUME Balanced(pool) PROVE BooksBalance
    BY <1>0, <1>2, PoolSums DEF Balanced, BooksBalance
  <1> QED  BY <1>1, <1>2

-----------------------------------------------------------------------------
\* An empty account is in order.
LEMMA EmptyInOrder == Typed(EmptyPool) /\ Within(EmptyPool) /\ Balanced(EmptyPool)
  <1>1. EmptyPool = [active |-> {}, counter |-> 0, profits |-> 0, losses |-> 0, closed |-> 0]
    BY DEF EmptyPool
  <1>2. Typed(EmptyPool)
    BY <1>1, FS_EmptySet DEF Typed, Pool
  <1>3. \A strike, type : On(EmptyPool, strike, type) = {}
    BY <1>1 DEF On
  <1>4. Within(EmptyPool)
    <2>1. SumOf(Exposed, {}) = 0 /\ SumOf(Fee, {}) = 0 /\ SumOf(Lot, {}) = 0
      BY SumNothing
    <2>2. 0 <= Friction * MaxStrikeLots * 0 /\ 0 + 0 <= StartingCapital + Friction * MaxStrikeLots * 0
      BY PoolAssumption
    <2>3. 0 <= MaxStrikeLots
      BY PoolAssumption
    <2> QED  BY <1>1, <1>3, <2>1, <2>2, <2>3 DEF Within
  <1>5. Balanced(EmptyPool)
    BY <1>1, SumNothing DEF Balanced
  <1> QED  BY <1>2, <1>4, <1>5

\* What closing the positions S brings.
Won(S, bid)  == [p \in S |-> Max({0, Pnl(p, bid[p])})]
Lost(S, bid) == [p \in S |-> Max({0, -Pnl(p, bid[p])})]
Net(S, bid)  == [p \in S |-> Pnl(p, bid[p])]
Result(S, bid) == [p \in S |-> p.banked + Pnl(p, bid[p])]

\* A position loses no more than what it had exposed.
LEMMA CloseWeighs ==
  ASSUME NEW S \in SUBSET Position, NEW bid, NEW p \in S, bid[p] \in Nat
  PROVE  /\ Won(S, bid)[p] \in Nat /\ Lost(S, bid)[p] \in Nat
         /\ Net(S, bid)[p] \in Int /\ Result(S, bid)[p] \in Int
         /\ Lost(S, bid)[p] <= Exposed[p]
         /\ Won(S, bid)[p] = Lost(S, bid)[p] + Net(S, bid)[p]
         /\ Result(S, bid)[p] = Booked[p] + Net(S, bid)[p]
  <1>1. /\ Remaining(p) \in Nat /\ p.entry \in Nat /\ p.banked \in Int /\ Friction \in Nat
        /\ Exposed[p] = Remaining(p) * (p.entry + Friction) /\ Exposed[p] \in Nat
        /\ Booked[p] = p.banked
    BY PositionWeighs, PoolAssumption
  <1>2. Pnl(p, bid[p]) = (bid[p] - p.entry - Friction) * Remaining(p)
    BY DEF Pnl
  <1>3. \A b, e, f, r \in Nat : /\ (b - e - f) * r \in Int
                               /\ -((b - e - f) * r) <= r * (e + f)
    <2> SUFFICES ASSUME NEW b \in Nat, NEW e \in Nat, NEW f \in Nat, NEW r \in Nat
                 PROVE  /\ (b - e - f) * r \in Int
                        /\ -((b - e - f) * r) <= r * (e + f)
      OBVIOUS
    <2>1. (b - e - f) * r = b * r - r * (e + f)
      OBVIOUS
    <2>2. b * r \in Nat /\ r * (e + f) \in Nat
      OBVIOUS
    <2> QED  BY <2>1, <2>2
  <1>4. Pnl(p, bid[p]) \in Int /\ -Pnl(p, bid[p]) <= Exposed[p]
    BY <1>1, <1>2, <1>3
  <1> DEFINE x == Pnl(p, bid[p])
  <1>5. /\ Won(S, bid)[p] = Max({0, x}) /\ Lost(S, bid)[p] = Max({0, -x}) /\ Net(S, bid)[p] = x
        /\ Result(S, bid)[p] = p.banked + x
    BY DEF Won, Lost, Net, Result
  <1>6. x \in Int /\ -x <= Exposed[p]
    BY <1>4
  <1> HIDE DEF x
  <1>7. /\ Max({0, x}) = (IF x > 0 THEN x ELSE 0)
        /\ Max({0, -x}) = (IF -x > 0 THEN -x ELSE 0)
    BY <1>6, AtLeastNothing
  <1> QED  BY <1>1, <1>5, <1>6, <1>7

\* ... and so do the positions together.
LEMMA CloseSums ==
  ASSUME NEW S \in SUBSET Position, IsFiniteSet(S), NEW bid, \A p \in S : bid[p] \in Nat
  PROVE  /\ SumOf(Won(S, bid), S) \in Nat /\ SumOf(Lost(S, bid), S) \in Nat
         /\ SumOf(Net(S, bid), S) \in Int /\ SumOf(Result(S, bid), S) \in Int
         /\ SumOf(Lost(S, bid), S) <= SumOf(Exposed, S)
         /\ SumOf(Won(S, bid), S) = SumOf(Lost(S, bid), S) + SumOf(Net(S, bid), S)
         /\ SumOf(Result(S, bid), S) = SumOf(Booked, S) + SumOf(Net(S, bid), S)
  <1> DEFINE won == Won(S, bid)
             lost == Lost(S, bid)
             net == Net(S, bid)
             result == Result(S, bid)
  <1>1. \A p \in S :
         /\ won[p] \in Nat /\ lost[p] \in Nat /\ net[p] \in Int /\ result[p] \in Int
         /\ lost[p] <= Exposed[p]
         /\ won[p] = lost[p] + net[p]
         /\ result[p] = Booked[p] + net[p]
    BY CloseWeighs
  <1> HIDE DEF won, lost, net, result
  <1>2. /\ Addable(won, S) /\ Addable(lost, S) /\ Addable(net, S) /\ Addable(result, S)
    BY <1>1 DEF Addable
  <1>3. Addable(Exposed, S) /\ Addable(Booked, S)
    BY WeightsAdd
  <1>4. \A p \in S : won[p] >= 0 /\ lost[p] >= 0
    BY <1>1
  <1>5. SumOf(won, S) \in Nat /\ SumOf(lost, S) \in Nat
    BY <1>2, <1>4, SumPositive
  <1>6. SumOf(net, S) \in Int /\ SumOf(result, S) \in Int
    BY <1>2, SumOne
  <1>7. SumOf(lost, S) <= SumOf(Exposed, S)
    BY <1>1, <1>2, <1>3, SumBound
  <1>8. SumOf(won, S) = SumOf(lost, S) + SumOf(net, S)
    BY <1>1, <1>2, SumPlus
  <1>9. SumOf(result, S) = SumOf(Booked, S) + SumOf(net, S)
    BY <1>1, <1>2, <1>3, SumPlus
  <1> QED  BY <1>5, <1>6, <1>7, <1>8, <1>9 DEF won, lost, net, result

\* What CloseAll makes of the pool, in these sums.
LEMMA Closed ==
  ASSUME NEW held, Typed(held), NEW S, NEW bid
  PROVE  LET after == CloseAll(held, S, bid) IN
         /\ after.active = held.active \ S
         /\ after.counter = held.counter
         /\ after.profits = held.profits + SumOf(Won(S, bid), S)
         /\ after.losses = held.losses + SumOf(Lost(S, bid), S)
         /\ after.closed = held.closed + SumOf(Result(S, bid), S)
         /\ after = [active |-> after.active, counter |-> after.counter, profits |-> after.profits,
                     losses |-> after.losses, closed |-> after.closed]
  <1>1. held \in Pool
    BY DEF Typed
  <1>2. /\ DOMAIN Won(S, bid) = S /\ DOMAIN Lost(S, bid) = S /\ DOMAIN Result(S, bid) = S
    BY DEF Won, Lost, Result
  <1>3. /\ SumFunction(Won(S, bid)) = SumOf(Won(S, bid), S)
        /\ SumFunction(Lost(S, bid)) = SumOf(Lost(S, bid), S)
        /\ SumFunction(Result(S, bid)) = SumOf(Result(S, bid), S)
    BY <1>2 DEF SumFunction, SumOf
  <1>4. CloseAll(held, S, bid) =
          [held EXCEPT !.active  = @ \ S,
                       !.profits = @ + SumFunction(Won(S, bid)),
                       !.losses  = @ + SumFunction(Lost(S, bid)),
                       !.closed  = @ + SumFunction(Result(S, bid))]
    BY DEF CloseAll, Won, Lost, Result
  <1> QED  BY <1>1, <1>3, <1>4 DEF Pool

\* Closing positions leaves the account in order.
LEMMA CloseInOrder ==
  ASSUME NEW held, Typed(held), Within(held), Balanced(held),
         NEW S \in SUBSET held.active, NEW bid, \A p \in S : bid[p] \in Nat
  PROVE  LET after == CloseAll(held, S, bid) IN Typed(after) /\ Within(after) /\ Balanced(after)
  <1> DEFINE after == CloseAll(held, S, bid)
             won == SumOf(Won(S, bid), S)
             lost == SumOf(Lost(S, bid), S)
             net == SumOf(Net(S, bid), S)
             result == SumOf(Result(S, bid), S)
  <1>1. /\ held.active \in SUBSET Position /\ IsFiniteSet(held.active)
        /\ S \in SUBSET Position /\ IsFiniteSet(S)
        /\ held.active \ S \in SUBSET Position /\ IsFiniteSet(held.active \ S)
        /\ held.counter \in Nat /\ held.profits \in Nat /\ held.losses \in Nat /\ held.closed \in Int
    <2>1. held.active \ S \in SUBSET held.active
      OBVIOUS
    <2> QED  BY <2>1, TypedSets
  <1>2. /\ after.active = held.active \ S
        /\ after.counter = held.counter
        /\ after.profits = held.profits + won
        /\ after.losses = held.losses + lost
        /\ after.closed = held.closed + result
        /\ after = [active |-> after.active, counter |-> after.counter, profits |-> after.profits,
                    losses |-> after.losses, closed |-> after.closed]
    BY Closed
  <1>3. /\ won \in Nat /\ lost \in Nat /\ net \in Int /\ result \in Int
        /\ lost <= SumOf(Exposed, S)
        /\ won = lost + net
        /\ result = SumOf(Booked, S) + net
    BY <1>1, CloseSums
  <1> HIDE DEF after, won, lost, net, result
  <1>4. /\ Addable(Lot, held.active) /\ Addable(Fee, held.active)
        /\ Addable(Exposed, held.active) /\ Addable(Booked, held.active)
    BY <1>1, WeightsAdd
  <1>5. /\ SumOf(Fee, held.active) = SumOf(Fee, S) + SumOf(Fee, held.active \ S)
        /\ SumOf(Exposed, held.active) = SumOf(Exposed, S) + SumOf(Exposed, held.active \ S)
        /\ SumOf(Booked, held.active) = SumOf(Booked, S) + SumOf(Booked, held.active \ S)
    BY <1>4, SumSplit
  <1>6. /\ SumOf(Fee, S) \in Nat /\ SumOf(Fee, held.active \ S) \in Nat
        /\ SumOf(Exposed, S) \in Nat /\ SumOf(Exposed, held.active \ S) \in Nat
        /\ SumOf(Booked, S) \in Int /\ SumOf(Booked, held.active \ S) \in Int
    <2>1. /\ Addable(Fee, S) /\ Addable(Fee, held.active \ S)
          /\ Addable(Exposed, S) /\ Addable(Exposed, held.active \ S)
          /\ Addable(Booked, S) /\ Addable(Booked, held.active \ S)
      BY <1>1, WeightsAdd
    <2>2. \A p \in held.active : Fee[p] >= 0 /\ Exposed[p] >= 0
      BY <1>1, PositionWeighs
    <2> QED  BY <2>1, <2>2, SumPositive, SumOne
  <1>7. Typed(after)
    <2>1. after \in Pool
      BY <1>1, <1>2, <1>3 DEF Pool
    <2> QED  BY <1>1, <1>2, <2>1 DEF Typed
  <1>8. Within(after)
    <2> DEFINE cap == Friction * MaxStrikeLots * held.counter
    <2>1. cap \in Nat /\ StartingCapital \in Nat
      BY <1>1, PoolAssumption
    <2> HIDE DEF cap
    <2>2. /\ SumOf(Exposed, held.active) + held.losses <= StartingCapital + cap
          /\ SumOf(Fee, held.active) <= cap
      BY DEF Within, cap
    <2>3. SumOf(Exposed, held.active \ S) + (held.losses + lost) <= StartingCapital + cap
      BY <1>1, <1>3, <1>5, <1>6, <2>1, <2>2
    <2>4. SumOf(Fee, held.active \ S) <= cap
      BY <1>5, <1>6, <2>1, <2>2
    <2>5. ASSUME NEW strike \in Strikes, NEW type \in OptionType
          PROVE  SumOf(Lot, On(after, strike, type)) <= MaxStrikeLots
      <3> DEFINE T == On(held, strike, type)
                 U == S \cap T
      <3>1. T \in SUBSET held.active /\ Addable(Lot, T) /\ U \in SUBSET T
        BY <1>4, PartAddable DEF On
      <3>2. On(after, strike, type) = T \ U
        BY <1>2 DEF On
      <3>3. SumOf(Lot, T) <= MaxStrikeLots
        BY DEF Within
      <3> HIDE DEF T, U
      <3>4. SumOf(Lot, T) = SumOf(Lot, U) + SumOf(Lot, T \ U)
        BY <3>1, SumSplit
      <3>5. Addable(Lot, U) /\ Addable(Lot, T \ U)
        BY <3>1, PartAddable
      <3>6. SumOf(Lot, U) \in Nat /\ SumOf(Lot, T \ U) \in Int
        <4>1. \A p \in U : Lot[p] >= 0
          BY <1>1, <3>1, PositionWeighs
        <4> QED  BY <3>5, <4>1, SumPositive, SumOne
      <3>7. SumOf(Lot, T \ U) <= MaxStrikeLots
        BY <3>3, <3>4, <3>6, PoolAssumption
      <3> QED  BY <3>2, <3>7
    <2> QED  BY <1>2, <2>3, <2>4, <2>5 DEF Within, cap
  <1>9. Balanced(after)
    <2>1. held.profits - held.losses = held.closed + SumOf(Booked, held.active)
      BY DEF Balanced
    <2>2. (held.profits + won) - (held.losses + lost) = (held.closed + result) + SumOf(Booked, held.active \ S)
      BY <1>1, <1>3, <1>5, <1>6, <2>1
    <2> QED  BY <1>2, <2>2 DEF Balanced
  <1> QED  BY <1>7, <1>8, <1>9 DEF after

-----------------------------------------------------------------------------
\* h replaces the positions S of the book, each by one that is the same trade.
Replaces(h, S) ==
    \A p \in S : /\ h[p] \in Position
                 /\ h[p].id = p.id /\ h[p].strike = p.strike /\ h[p].type = p.type
                 /\ h[p].lots = p.lots /\ (h[p].t1 \/ h[p].banked = 0)

\* The new positions are as many as the old ones, and none is in the rest of
\* the book.
LEMMA ReplacedApart ==
  ASSUME NEW held, Typed(held), NEW S \in SUBSET held.active, NEW h, Replaces(h, S)
  PROVE  /\ \A U \in SUBSET S : Distinct(h, U)
         /\ Image(h, S) \cap (held.active \ S) = {}
         /\ Image(h, S) \in SUBSET Position
         /\ IsFiniteSet((held.active \ S) \cup Image(h, S))
  <1>1. \A p, q \in held.active : p.id = q.id => p = q
    BY DEF Typed
  <1>2. \A p \in S : h[p] \in Position /\ h[p].id = p.id
    BY DEF Replaces
  <1>3. \A p, q \in S : h[p] = h[q] => p = q
    BY <1>1, <1>2
  <1>4. \A p \in S : h[p] \notin held.active \ S
    BY <1>1, <1>2
  <1>5. IsFiniteSet(S) /\ IsFiniteSet(held.active \ S) /\ S \in SUBSET Position
    <2>1. held.active \ S \in SUBSET held.active
      OBVIOUS
    <2> QED  BY <2>1, TypedSets
  <1>6. IsFiniteSet(Image(h, S))
    <2> DEFINE one == [p \in S |-> 0]
               two == [p \in Image(h, S) |-> 0]
    <2>1. \A p \in S : two[h[p]] = one[p]
      BY DEF Image
    <2>2. Addable(one, S)
      BY <1>5 DEF Addable
    <2>3. Distinct(h, S)
      BY <1>3 DEF Distinct
    <2> HIDE DEF one, two
    <2>4. Addable(two, Image(h, S))
      BY <2>1, <2>2, <2>3, SumRenamed
    <2> QED  BY <2>4 DEF Addable
  <1> QED  BY <1>2, <1>3, <1>4, <1>5, <1>6, FS_Union DEF Distinct, Image

\* Replacing keeps the types and the ids.
LEMMA ReplacedTyped ==
  ASSUME NEW held, Typed(held), NEW S \in SUBSET held.active, NEW h, Replaces(h, S),
         NEW after, after \in [active : SUBSET Position, counter : Nat, profits : Nat, losses : Nat, closed : Int],
         after.active = (held.active \ S) \cup Image(h, S), after.counter = held.counter
  PROVE  Typed(after)
  <1>1. after \in Pool
    BY DEF Pool
  <1>2. IsFiniteSet(after.active)
    <2>1. IsFiniteSet((held.active \ S) \cup Image(h, S))
      BY ReplacedApart
    <2> QED  BY <2>1, Zenon
  <1>3. \A p \in S : h[p].id = p.id /\ (h[p].t1 \/ h[p].banked = 0)
    BY DEF Replaces
  <1>4. /\ \A p \in held.active : p.id <= held.counter /\ (p.t1 \/ p.banked = 0)
        /\ \A p, q \in held.active : p.id = q.id => p = q
    BY DEF Typed
  <1>5. \A q \in after.active : q \in held.active \ S \/ \E p \in S : q = h[p]
    BY DEF Image
  <1>6. \A q \in after.active : \E p \in held.active : q.id = p.id
    BY <1>3, <1>5
  <1>7. \A q \in after.active : q.id <= after.counter /\ (q.t1 \/ q.banked = 0)
    BY <1>3, <1>4, <1>5
  <1>8. \A p, q \in after.active : p.id = q.id => p = q
    BY <1>3, <1>4, <1>5
  <1> QED  BY <1>1, <1>2, <1>7, <1>8 DEF Typed

\* No strike carries more or less than before.
LEMMA ReplacedLots ==
  ASSUME NEW held, Typed(held), NEW S \in SUBSET held.active, NEW h, Replaces(h, S),
         NEW after, after.active = (held.active \ S) \cup Image(h, S)
  PROVE  \A strike, type : SumOf(Lot, On(after, strike, type)) = SumOf(Lot, On(held, strike, type))
  <1> SUFFICES ASSUME NEW strike, NEW type
               PROVE  SumOf(Lot, On(after, strike, type)) = SumOf(Lot, On(held, strike, type))
    OBVIOUS
  <1> DEFINE T == On(held, strike, type)
             U == S \cap T
             none == [p \in U |-> 0]
  <1>1. T \in SUBSET held.active /\ U \in SUBSET T /\ U \in SUBSET S
    BY DEF On
  <1>2. On(after, strike, type) = (T \ U) \cup Image(h, U)
    BY DEF On, Image, Replaces
  <1>3. \A p \in U : Lot[h[p]] = Lot[p] - none[p] /\ none[p] = 0 /\ none[p] + none[p] = none[p]
    <2>1. ASSUME NEW p \in U PROVE Lot[h[p]] = Lot[p] /\ Lot[p] \in Nat
      <3>1. h[p] \in Position /\ p \in Position /\ h[p].lots = p.lots
        BY TypedSets DEF Replaces
      <3> QED  BY <3>1, PositionWeighs
    <2> QED  BY <2>1
  <1>4. Distinct(h, U) /\ Image(h, U) \cap (T \ U) = {}
    <2>1. Image(h, U) \subseteq Image(h, S)
      BY <1>1 DEF Image
    <2>2. T \ U \subseteq held.active \ S
      BY <1>1
    <2>3. (\A V \in SUBSET S : Distinct(h, V)) /\ Image(h, S) \cap (held.active \ S) = {}
      BY ReplacedApart
    <2> QED  BY <1>1, <2>1, <2>2, <2>3
  <1>5. Addable(Lot, T)
    BY <1>1, TypedSets, WeightsAdd
  <1>6. Addable(none, U)
    BY <1>1, TypedSets, FS_Subset DEF Addable
  <1> HIDE DEF T, U, none
  <1>7. SumOf(Lot, (T \ U) \cup Image(h, U)) = SumOf(Lot, T) - SumOf(none, U)
    BY <1>1, <1>3, <1>4, <1>5, <1>6, SumReplaced
  <1>8. SumOf(none, U) = SumOf(none, U) + SumOf(none, U)
    BY <1>3, <1>6, SumPlus
  <1>9. SumOf(none, U) \in Int /\ SumOf(Lot, T) \in Int
    BY <1>5, <1>6, SumOne
  <1>10. SumOf(Lot, T) - SumOf(none, U) = SumOf(Lot, T)
    <2>1. \A a, b \in Int : b = b + b => a - b = a
      OBVIOUS
    <2> QED  BY <1>8, <1>9, <2>1
  <1> QED  BY <1>2, <1>7, <1>10 DEF T

\* What replacing does to a sum.
LEMMA ReplacedSum ==
  ASSUME NEW held, Typed(held), NEW S \in SUBSET held.active, NEW h, Replaces(h, S),
         NEW weight, Addable(weight, held.active), NEW less, Addable(less, S),
         \A p \in S : weight[h[p]] = weight[p] - less[p]
  PROVE  SumOf(weight, (held.active \ S) \cup Image(h, S)) = SumOf(weight, held.active) - SumOf(less, S)
  <1>1. Distinct(h, S) /\ Image(h, S) \cap (held.active \ S) = {}
    BY ReplacedApart
  <1> DEFINE D == held.active
  <1>2. /\ Addable(weight, D) /\ S \in SUBSET D /\ Image(h, S) \cap (D \ S) = {}
    BY <1>1
  <1> HIDE DEF D
  <1>3. SumOf(weight, (D \ S) \cup Image(h, S)) = SumOf(weight, D) - SumOf(less, S)
    BY <1>1, <1>2, SumReplaced
  <1> QED  BY <1>3 DEF D

-----------------------------------------------------------------------------
\* What banking a lot of each of S brings.
Gained(S, bid)   == [p \in S |-> Max({0, bid[p] - p.entry - Friction})]
Forgone(S, bid)  == [p \in S |-> Max({0, -(bid[p] - p.entry - Friction)})]
Banked(S, bid)   == [p \in S |-> AfterLot(p, bid)]
LessBooked(S, bid) == [p \in S |-> -(bid[p] - p.entry - Friction)]
LessExposed(S) == [p \in S |-> p.entry + Friction]
LessFee(S) == [p \in S |-> Friction]

\* A lot that is banked loses no more than it had exposed.
LEMMA BankWeighs ==
  ASSUME NEW S \in SUBSET Position, NEW bid, NEW p \in S, bid[p] \in Nat, ~p.t1, p.banked = 0
  PROVE  /\ Gained(S, bid)[p] \in Nat /\ Forgone(S, bid)[p] \in Nat
         /\ LessBooked(S, bid)[p] \in Int /\ LessExposed(S)[p] \in Nat /\ LessFee(S)[p] \in Nat
         /\ Forgone(S, bid)[p] <= LessExposed(S)[p]
         /\ Forgone(S, bid)[p] = Gained(S, bid)[p] + LessBooked(S, bid)[p]
         /\ Banked(S, bid)[p] \in Position /\ Banked(S, bid)[p].t1
         /\ Banked(S, bid)[p].id = p.id /\ Banked(S, bid)[p].strike = p.strike
         /\ Banked(S, bid)[p].type = p.type /\ Banked(S, bid)[p].lots = p.lots
         /\ Exposed[Banked(S, bid)[p]] = Exposed[p] - LessExposed(S)[p]
         /\ Fee[Banked(S, bid)[p]] = Fee[p] - LessFee(S)[p]
         /\ Booked[Banked(S, bid)[p]] = Booked[p] - LessBooked(S, bid)[p]
  <1> DEFINE q == AfterLot(p, bid)
             gain == bid[p] - p.entry - Friction
  <1>1. p \in Position /\ p.entry \in Nat /\ Friction \in Nat /\ gain \in Int /\ -gain <= p.entry + Friction
    BY PositionWeighs, PoolAssumption
  <1>2. /\ q \in Position /\ q.t1 = TRUE /\ q.banked = gain /\ q.id = p.id /\ q.strike = p.strike
        /\ q.type = p.type /\ q.lots = p.lots /\ q.entry = p.entry
    BY <1>1 DEF Position, AfterLot
  <1>3. /\ Banked(S, bid)[p] = q
        /\ Gained(S, bid)[p] = Max({0, gain}) /\ Forgone(S, bid)[p] = Max({0, -gain})
        /\ LessBooked(S, bid)[p] = -gain /\ LessExposed(S)[p] = p.entry + Friction
        /\ LessFee(S)[p] = Friction
    BY DEF Banked, Gained, Forgone, LessBooked, LessExposed, LessFee
  <1>4. Remaining(p) = p.lots /\ Remaining(q) = p.lots - 1 /\ p.lots \in Nat
    BY <1>1, <1>2, PositionWeighs DEF Remaining
  <1> HIDE DEF q, gain
  <1>5. /\ Max({0, gain}) = (IF gain > 0 THEN gain ELSE 0)
        /\ Max({0, -gain}) = (IF -gain > 0 THEN -gain ELSE 0)
    BY <1>1, AtLeastNothing
  <1>6. /\ Max({0, gain}) \in Nat /\ Max({0, -gain}) \in Nat /\ Max({0, -gain}) <= p.entry + Friction
        /\ Max({0, -gain}) = Max({0, gain}) + (-gain)
    BY <1>1, <1>5
  <1>7. /\ Exposed[q] = (p.lots - 1) * (p.entry + Friction) /\ Exposed[p] = p.lots * (p.entry + Friction)
        /\ Fee[q] = (p.lots - 1) * Friction /\ Fee[p] = p.lots * Friction
        /\ Booked[q] = gain /\ Booked[p] = 0
    BY <1>1, <1>2, <1>4, PositionWeighs
  <1>8. \A l, a \in Nat : (l - 1) * a = l * a - a
    OBVIOUS
  <1>9. p.entry + Friction \in Nat
    BY <1>1
  <1>10. Exposed[q] = Exposed[p] - (p.entry + Friction) /\ Fee[q] = Fee[p] - Friction
    BY <1>1, <1>4, <1>7, <1>8, <1>9
  <1>11. Booked[q] = Booked[p] - (-gain) /\ -gain \in Int
    BY <1>1, <1>7
  <1> QED  BY <1>1, <1>2, <1>3, <1>6, <1>9, <1>10, <1>11, Zenon

\* ... and so do the lots together.
LEMMA BankSums ==
  ASSUME NEW S \in SUBSET Position, IsFiniteSet(S), NEW bid,
         \A p \in S : bid[p] \in Nat /\ ~p.t1 /\ p.banked = 0
  PROVE  /\ Addable(LessBooked(S, bid), S) /\ Addable(LessExposed(S), S) /\ Addable(LessFee(S), S)
         /\ SumOf(Gained(S, bid), S) \in Nat /\ SumOf(Forgone(S, bid), S) \in Nat
         /\ SumOf(LessBooked(S, bid), S) \in Int /\ SumOf(LessExposed(S), S) \in Nat
         /\ SumOf(LessFee(S), S) \in Nat
         /\ SumOf(Forgone(S, bid), S) <= SumOf(LessExposed(S), S)
         /\ SumOf(Forgone(S, bid), S) = SumOf(Gained(S, bid), S) + SumOf(LessBooked(S, bid), S)
  <1> DEFINE gained == Gained(S, bid)
             forgone == Forgone(S, bid)
             booked == LessBooked(S, bid)
             exposed == LessExposed(S)
             fee == LessFee(S)
  <1>1. \A p \in S :
         /\ gained[p] \in Nat /\ forgone[p] \in Nat /\ booked[p] \in Int
         /\ exposed[p] \in Nat /\ fee[p] \in Nat
         /\ forgone[p] <= exposed[p]
         /\ forgone[p] = gained[p] + booked[p]
    <2> SUFFICES ASSUME NEW p \in S
                 PROVE  /\ gained[p] \in Nat /\ forgone[p] \in Nat /\ booked[p] \in Int
                        /\ exposed[p] \in Nat /\ fee[p] \in Nat
                        /\ forgone[p] <= exposed[p]
                        /\ forgone[p] = gained[p] + booked[p]
      OBVIOUS
    <2>1. bid[p] \in Nat /\ ~p.t1 /\ p.banked = 0
      OBVIOUS
    <2> QED  BY <2>1, BankWeighs
  <1> HIDE DEF gained, forgone, booked, exposed, fee
  <1>2. /\ Addable(gained, S) /\ Addable(forgone, S) /\ Addable(booked, S)
        /\ Addable(exposed, S) /\ Addable(fee, S)
    <2>1. \A p \in S : gained[p] \in Int /\ forgone[p] \in Int /\ booked[p] \in Int
      BY <1>1
    <2>2. \A p \in S : exposed[p] \in Int /\ fee[p] \in Int
      BY <1>1
    <2> QED  BY <2>1, <2>2 DEF Addable
  <1>3. \A p \in S : gained[p] >= 0 /\ forgone[p] >= 0 /\ exposed[p] >= 0 /\ fee[p] >= 0
    BY <1>1
  <1>4. /\ SumOf(gained, S) \in Nat /\ SumOf(forgone, S) \in Nat
        /\ SumOf(exposed, S) \in Nat /\ SumOf(fee, S) \in Nat
    BY <1>2, <1>3, SumPositive
  <1>5. SumOf(booked, S) \in Int
    BY <1>2, SumOne
  <1>6. SumOf(forgone, S) <= SumOf(exposed, S)
    BY <1>1, <1>2, SumBound
  <1>7. SumOf(forgone, S) = SumOf(gained, S) + SumOf(booked, S)
    BY <1>1, <1>2, SumPlus
  <1> QED  BY <1>2, <1>4, <1>5, <1>6, <1>7 DEF gained, forgone, booked, exposed, fee

\* What BankAll makes of the pool, in these sums.
LEMMA BankedIs ==
  ASSUME NEW held, Typed(held), NEW S, NEW bid
  PROVE  LET after == BankAll(held, S, bid) IN
         /\ after.active = (held.active \ S) \cup Image(Banked(S, bid), S)
         /\ after.counter = held.counter
         /\ after.profits = held.profits + SumOf(Gained(S, bid), S)
         /\ after.losses = held.losses + SumOf(Forgone(S, bid), S)
         /\ after.closed = held.closed
         /\ after = [active |-> after.active, counter |-> after.counter, profits |-> after.profits,
                     losses |-> after.losses, closed |-> after.closed]
  <1>1. held \in Pool
    BY DEF Typed
  <1>2. DOMAIN Gained(S, bid) = S /\ DOMAIN Forgone(S, bid) = S
    BY DEF Gained, Forgone
  <1>3. /\ SumFunction(Gained(S, bid)) = SumOf(Gained(S, bid), S)
        /\ SumFunction(Forgone(S, bid)) = SumOf(Forgone(S, bid), S)
    BY <1>2 DEF SumFunction, SumOf
  <1>4. Image(Banked(S, bid), S) = {AfterLot(p, bid) : p \in S}
    BY DEF Image, Banked
  <1>5. BankAll(held, S, bid) =
          [held EXCEPT !.active  = (@ \ S) \cup {AfterLot(p, bid) : p \in S},
                       !.profits = @ + SumFunction(Gained(S, bid)),
                       !.losses  = @ + SumFunction(Forgone(S, bid))]
    BY DEF BankAll, Gained, Forgone, AfterLot
  <1> QED  BY <1>1, <1>3, <1>4, <1>5 DEF Pool

\* Banking leaves the account in order.
LEMMA BankInOrder ==
  ASSUME NEW held, Typed(held), Within(held), Balanced(held),
         NEW S \in SUBSET held.active, NEW bid, \A p \in S : bid[p] \in Nat /\ ~p.t1
  PROVE  LET after == BankAll(held, S, bid) IN Typed(after) /\ Within(after) /\ Balanced(after)
  <1> DEFINE after == BankAll(held, S, bid)
             h == Banked(S, bid)
             gained == SumOf(Gained(S, bid), S)
             forgone == SumOf(Forgone(S, bid), S)
             booked == SumOf(LessBooked(S, bid), S)
             exposed == SumOf(LessExposed(S), S)
             fee == SumOf(LessFee(S), S)
  <1>1. /\ held.active \in SUBSET Position /\ IsFiniteSet(held.active)
        /\ S \in SUBSET Position /\ IsFiniteSet(S)
        /\ held.counter \in Nat /\ held.profits \in Nat /\ held.losses \in Nat /\ held.closed \in Int
    BY TypedSets
  <1>2. \A p \in S : bid[p] \in Nat /\ ~p.t1 /\ p.banked = 0
    BY DEF Typed
  <1>3. /\ after.active = (held.active \ S) \cup Image(h, S)
        /\ after.counter = held.counter
        /\ after.profits = held.profits + gained
        /\ after.losses = held.losses + forgone
        /\ after.closed = held.closed
        /\ after = [active |-> after.active, counter |-> after.counter, profits |-> after.profits,
                    losses |-> after.losses, closed |-> after.closed]
    BY BankedIs
  <1>4. /\ Addable(LessBooked(S, bid), S) /\ Addable(LessExposed(S), S) /\ Addable(LessFee(S), S)
        /\ gained \in Nat /\ forgone \in Nat /\ booked \in Int /\ exposed \in Nat /\ fee \in Nat
        /\ forgone <= exposed /\ forgone = gained + booked
    BY <1>1, <1>2, BankSums
  <1>5. Replaces(h, S)
    BY <1>1, <1>2, BankWeighs DEF Replaces
  <1>6. \A p \in S : /\ Exposed[h[p]] = Exposed[p] - LessExposed(S)[p]
                     /\ Fee[h[p]] = Fee[p] - LessFee(S)[p]
                     /\ Booked[h[p]] = Booked[p] - LessBooked(S, bid)[p]
    BY <1>1, <1>2, BankWeighs
  <1> HIDE DEF after, h, gained, forgone, booked, exposed, fee
  <1>7. /\ Addable(Fee, held.active) /\ Addable(Exposed, held.active) /\ Addable(Booked, held.active)
    BY <1>1, WeightsAdd
  <1>8. /\ SumOf(Exposed, after.active) = SumOf(Exposed, held.active) - exposed
        /\ SumOf(Fee, after.active) = SumOf(Fee, held.active) - fee
        /\ SumOf(Booked, after.active) = SumOf(Booked, held.active) - booked
    <2> DEFINE D == (held.active \ S) \cup Image(h, S)
    <2>1. SumOf(Exposed, D) = SumOf(Exposed, held.active) - exposed
      BY <1>4, <1>5, <1>6, <1>7, ReplacedSum DEF exposed
    <2>2. SumOf(Fee, D) = SumOf(Fee, held.active) - fee
      BY <1>4, <1>5, <1>6, <1>7, ReplacedSum DEF fee
    <2>3. SumOf(Booked, D) = SumOf(Booked, held.active) - booked
      BY <1>4, <1>5, <1>6, <1>7, ReplacedSum DEF booked
    <2> QED  BY <1>3, <2>1, <2>2, <2>3, Zenon
  <1>9. SumOf(Exposed, held.active) \in Nat /\ SumOf(Fee, held.active) \in Nat /\ SumOf(Booked, held.active) \in Int
    BY <1>7, ExposedParts, SumOne
  <1>10. Typed(after)
    <2>1. after.active \in SUBSET Position
      BY <1>1, <1>3, <1>5, ReplacedApart
    <2>2. after \in [active : SUBSET Position, counter : Nat, profits : Nat, losses : Nat, closed : Int]
      BY <1>1, <1>3, <1>4, <2>1
    <2> QED  BY <1>3, <1>5, <2>2, ReplacedTyped
  <1>11. Within(after)
    <2> DEFINE cap == Friction * MaxStrikeLots * held.counter
    <2>1. cap \in Nat /\ StartingCapital \in Nat
      BY <1>1, PoolAssumption
    <2> HIDE DEF cap
    <2>2. /\ SumOf(Exposed, held.active) + held.losses <= StartingCapital + cap
          /\ SumOf(Fee, held.active) <= cap
      BY DEF Within, cap
    <2>3. SumOf(Exposed, after.active) + after.losses <= StartingCapital + cap
      BY <1>1, <1>3, <1>4, <1>8, <1>9, <2>1, <2>2
    <2>4. SumOf(Fee, after.active) <= cap
      BY <1>4, <1>8, <1>9, <2>1, <2>2
    <2>5. \A strike, type : SumOf(Lot, On(after, strike, type)) = SumOf(Lot, On(held, strike, type))
      BY <1>3, <1>5, ReplacedLots
    <2>6. \A strike \in Strikes, type \in OptionType : SumOf(Lot, On(after, strike, type)) <= MaxStrikeLots
      BY <2>5 DEF Within
    <2> QED  BY <1>3, <2>3, <2>4, <2>6 DEF Within, cap
  <1>12. Balanced(after)
    <2>1. held.profits - held.losses = held.closed + SumOf(Booked, held.active)
      BY DEF Balanced
    <2>2. (held.profits + gained) - (held.losses + forgone) = held.closed + (SumOf(Booked, held.active) - booked)
      BY <1>1, <1>4, <1>9, <2>1
    <2> QED  BY <1>3, <1>8, <2>2 DEF Balanced
  <1> QED  BY <1>10, <1>11, <1>12 DEF after

\* The position a bar older.
AfterBar(p) == [p EXCEPT !.bars = Min({@ + 1, BoxHold})]

\* The smaller of two numbers.
LEMMA AtMostBoth == \A x, y \in Int : Min({x, y}) = IF x <= y THEN x ELSE y
  <1> SUFFICES ASSUME NEW x \in Int, NEW y \in Int PROVE Min({x, y}) = IF x <= y THEN x ELSE y
    OBVIOUS
  <1> DEFINE m == IF x <= y THEN x ELSE y
  <1>1. m \in {x, y} /\ \A z \in {x, y} : m <= z
    OBVIOUS
  <1>2. Min({x, y}) \in {x, y} /\ \A z \in {x, y} : Min({x, y}) <= z
    BY <1>1 DEF Min
  <1> QED  BY <1>1, <1>2

\* A bar more changes no amount.
LEMMA BarInOrder ==
  ASSUME Typed(pool), Within(pool), Balanced(pool)
  PROVE  Typed(BarHeld) /\ Within(BarHeld) /\ Balanced(BarHeld)
  <1> DEFINE h == [p \in pool.active |-> AfterBar(p)]
             none == [p \in pool.active |-> 0]
  <1>1. /\ pool.active \in SUBSET Position /\ IsFiniteSet(pool.active)
        /\ pool.counter \in Nat /\ pool.profits \in Nat /\ pool.losses \in Nat /\ pool.closed \in Int
    BY TypedSets
  <1>2. /\ BarHeld.active = (pool.active \ pool.active) \cup Image(h, pool.active)
        /\ BarHeld.counter = pool.counter /\ BarHeld.profits = pool.profits
        /\ BarHeld.losses = pool.losses /\ BarHeld.closed = pool.closed
        /\ BarHeld = [active |-> BarHeld.active, counter |-> pool.counter, profits |-> pool.profits,
                      losses |-> pool.losses, closed |-> pool.closed]
    <2>1. pool \in Pool
      BY DEF Typed
    <2>2. Image(h, pool.active) = {AfterBar(p) : p \in pool.active}
      BY DEF Image
    <2>3. BarHeld = [pool EXCEPT !.active = {AfterBar(p) : p \in pool.active}]
      BY DEF BarHeld, AfterBar
    <2> QED  BY <2>1, <2>2, <2>3 DEF Pool
  <1>3. ASSUME NEW p \in pool.active
        PROVE  /\ h[p] \in Position /\ h[p].id = p.id /\ h[p].strike = p.strike /\ h[p].type = p.type
               /\ h[p].lots = p.lots /\ h[p].t1 = p.t1 /\ h[p].banked = p.banked /\ h[p].entry = p.entry
               /\ (h[p].t1 \/ h[p].banked = 0)
    <2>1. p \in Position /\ p.bars \in Nat /\ (p.t1 \/ p.banked = 0)
      BY <1>1 DEF Position, Typed
    <2>2. Min({p.bars + 1, BoxHold}) \in Nat
      BY <2>1, AtMostBoth, EngineAssumption
    <2>3. h[p] = [p EXCEPT !.bars = Min({p.bars + 1, BoxHold})]
      BY DEF AfterBar
    <2> QED  BY <2>1, <2>2, <2>3 DEF Position
  <1>4. Replaces(h, pool.active)
    BY <1>3 DEF Replaces
  <1>5. \A p \in pool.active : /\ Exposed[h[p]] = Exposed[p] - none[p]
                               /\ Fee[h[p]] = Fee[p] - none[p]
                               /\ Booked[h[p]] = Booked[p] - none[p]
    <2>1. ASSUME NEW p \in pool.active
          PROVE  /\ Exposed[h[p]] = Exposed[p] /\ Fee[h[p]] = Fee[p] /\ Booked[h[p]] = Booked[p]
                 /\ Exposed[p] \in Int /\ Fee[p] \in Int /\ Booked[p] \in Int
      <3>1. p \in Position /\ h[p] \in Position /\ Remaining(h[p]) = Remaining(p)
        BY <1>1, <1>3 DEF Remaining
      <3>2. h[p].entry = p.entry /\ h[p].banked = p.banked
        BY <1>3
      <3> HIDE DEF h
      <3> QED  BY <3>1, <3>2, PositionWeighs
    <2>2. \A p \in pool.active : none[p] = 0
      OBVIOUS
    <2> HIDE DEF h, none
    <2> QED  BY <2>1, <2>2
  <1>6. Addable(none, pool.active) /\ \A p \in pool.active : none[p] = none[p] + none[p]
    BY <1>1 DEF Addable
  <1> HIDE DEF h, none
  <1>7. SumOf(none, pool.active) = 0
    <2>1. SumOf(none, pool.active) = SumOf(none, pool.active) + SumOf(none, pool.active)
      BY <1>6, SumPlus
    <2>2. SumOf(none, pool.active) \in Int
      BY <1>6, SumOne
    <2>3. \A a \in Int : a = a + a => a = 0
      OBVIOUS
    <2> QED  BY <2>1, <2>2, <2>3
  <1>8. /\ Addable(Fee, pool.active) /\ Addable(Exposed, pool.active) /\ Addable(Booked, pool.active)
    BY <1>1, WeightsAdd
  <1>9. /\ SumOf(Fee, pool.active) \in Int /\ SumOf(Exposed, pool.active) \in Int
        /\ SumOf(Booked, pool.active) \in Int
    BY <1>8, SumOne
  <1>10. /\ SumOf(Exposed, BarHeld.active) = SumOf(Exposed, pool.active)
         /\ SumOf(Fee, BarHeld.active) = SumOf(Fee, pool.active)
         /\ SumOf(Booked, BarHeld.active) = SumOf(Booked, pool.active)
    <2> DEFINE D == (pool.active \ pool.active) \cup Image(h, pool.active)
    <2>1. pool.active \in SUBSET pool.active
      OBVIOUS
    <2>2. SumOf(Exposed, D) = SumOf(Exposed, pool.active) - 0
      BY <1>4, <1>5, <1>6, <1>7, <1>8, <2>1, ReplacedSum
    <2>3. SumOf(Fee, D) = SumOf(Fee, pool.active) - 0
      BY <1>4, <1>5, <1>6, <1>7, <1>8, <2>1, ReplacedSum
    <2>4. SumOf(Booked, D) = SumOf(Booked, pool.active) - 0
      BY <1>4, <1>5, <1>6, <1>7, <1>8, <2>1, ReplacedSum
    <2>5. \A a \in Int : a - 0 = a
      OBVIOUS
    <2>6. /\ SumOf(Exposed, D) = SumOf(Exposed, pool.active)
          /\ SumOf(Fee, D) = SumOf(Fee, pool.active)
          /\ SumOf(Booked, D) = SumOf(Booked, pool.active)
      BY <1>9, <2>2, <2>3, <2>4, <2>5
    <2> QED  BY <1>2, <2>6, Zenon
  <1>11. Typed(BarHeld)
    <2>1. BarHeld.active \in SUBSET Position
      BY <1>2, <1>4, ReplacedApart
    <2>2. BarHeld \in [active : SUBSET Position, counter : Nat, profits : Nat, losses : Nat, closed : Int]
      BY <1>1, <1>2, <2>1
    <2> QED  BY <1>2, <1>4, <2>2, ReplacedTyped
  <1>12. \A strike, type : SumOf(Lot, On(BarHeld, strike, type)) = SumOf(Lot, On(pool, strike, type))
    BY <1>2, <1>4, ReplacedLots
  <1> QED  BY <1>2, <1>10, <1>11, <1>12 DEF Within, Balanced

-----------------------------------------------------------------------------
\* The least of three numbers.
LEMMA AtMostAll == \A x, y, z \in Int : Min({x, y, z}) = IF x <= y /\ x <= z THEN x ELSE IF y <= z THEN y ELSE z
  <1> SUFFICES ASSUME NEW x \in Int, NEW y \in Int, NEW z \in Int
               PROVE  Min({x, y, z}) = IF x <= y /\ x <= z THEN x ELSE IF y <= z THEN y ELSE z
    OBVIOUS
  <1> DEFINE m == IF x <= y /\ x <= z THEN x ELSE IF y <= z THEN y ELSE z
  <1>1. m \in {x, y, z} /\ \A w \in {x, y, z} : m <= w
    OBVIOUS
  <1>2. Min({x, y, z}) \in {x, y, z} /\ \A w \in {x, y, z} : Min({x, y, z}) <= w
    BY <1>1 DEF Min
  <1> QED  BY <1>1, <1>2

\* The larger of one and a number.
LEMMA AtLeastOne == \A x \in Int : Max({1, x}) = IF x > 1 THEN x ELSE 1
  <1> SUFFICES ASSUME NEW x \in Int PROVE Max({1, x}) = IF x > 1 THEN x ELSE 1
    OBVIOUS
  <1> DEFINE m == IF x > 1 THEN x ELSE 1
  <1>1. m \in {1, x} /\ \A y \in {1, x} : m >= y
    OBVIOUS
  <1>2. Max({1, x}) \in {1, x} /\ \A y \in {1, x} : Max({1, x}) >= y
    BY <1>1 DEF Max
  <1> QED  BY <1>1, <1>2

\* The lots of a signal that is let in can be paid and fit under the cap.
LEMMA LotsFit ==
  ASSUME NEW held, Typed(held), NEW sig, sig.ask \in Nat \ {0}, ~Refused(held, sig),
         SumOf(Lot, On(held, sig.strike, sig.type)) \in Nat
  PROVE  /\ Lots(held, sig) \in 1..MaxStrikeLots
         /\ SumOf(Lot, On(held, sig.strike, sig.type)) + Lots(held, sig) <= MaxStrikeLots
         /\ SumOf(Worth, held.active) + Lots(held, sig) * sig.ask + held.losses <= StartingCapital
  <1> DEFINE carried == SumOf(Lot, On(held, sig.strike, sig.type))
             cash == FreeCash(held)
             least == Min({cash \div LotCostDivisor, cash \div sig.ask, MaxStrikeLots - carried})
             locked == SumOf(Worth, held.active)
  <1>1. StrikeLots(held, sig.strike, sig.type) = carried
    <2>1. On(held, sig.strike, sig.type) \in SUBSET Position /\ IsFiniteSet(On(held, sig.strike, sig.type))
      BY TypedSets
    <2> QED  BY <2>1, PoolSums DEF StrikeLots, On
  <1>2. carried \in Nat /\ carried < MaxStrikeLots /\ MaxStrikeLots \in Nat
    BY <1>1, PoolAssumption DEF Refused
  <1>3. LockedMargin(held) = locked /\ locked \in Nat /\ held.losses \in Nat /\ StartingCapital \in Nat
    BY ExposedParts, TypedSets, PoolAssumption
  <1>4. Lots(held, sig) = Max({1, least})
    BY <1>1 DEF Lots
  <1>5. ~(cash < sig.ask)
    BY DEF Refused
  <1>6. cash = Max({0, StartingCapital - held.losses - locked})
    BY <1>3 DEF FreeCash
  <1> HIDE DEF carried, cash, locked
  <1>7. cash = StartingCapital - held.losses - locked /\ cash \in Nat /\ sig.ask <= cash
    BY <1>3, <1>5, <1>6, AtLeastNothing
  <1>8. cash \div LotCostDivisor \in Int /\ cash \div sig.ask \in Nat
    BY <1>7, PoolAssumption
  <1>9. least \in Int /\ least <= cash \div sig.ask /\ least <= MaxStrikeLots - carried
    BY <1>2, <1>8, AtMostAll
  <1> HIDE DEF least
  <1>10. Lots(held, sig) = IF least > 1 THEN least ELSE 1
    BY <1>4, <1>9, AtLeastOne
  <1>11. Lots(held, sig) \in 1..MaxStrikeLots /\ carried + Lots(held, sig) <= MaxStrikeLots
    BY <1>2, <1>9, <1>10
  <1>12. Lots(held, sig) * sig.ask <= cash
    <2>1. CASE least > 1
      <3>1. \A c, a, l, q \in Nat : c >= a * q /\ l <= q => l * a <= c
        OBVIOUS
      <3>2. \A c \in Nat, a \in Nat \ {0} : c >= a * (c \div a)
        OBVIOUS
      <3>3. cash >= sig.ask * (cash \div sig.ask)
        BY <1>7, <3>2
      <3>4. least \in Nat /\ sig.ask \in Nat /\ cash \in Nat
        BY <1>7, <1>9, <2>1
      <3>5. least * sig.ask <= cash
        BY <1>8, <1>9, <3>1, <3>3, <3>4
      <3> QED  BY <1>10, <2>1, <3>5
    <2>2. CASE ~(least > 1)
      BY <1>7, <1>9, <1>10, <2>2
    <2> QED  BY <2>1, <2>2
  <1>13. Lots(held, sig) * sig.ask \in Nat
    BY <1>11
  <1>14. locked + Lots(held, sig) * sig.ask + held.losses <= StartingCapital
    BY <1>3, <1>7, <1>12, <1>13
  <1> QED  BY <1>11, <1>14 DEF carried, locked

\* A signal that is let in leaves the account in order.
LEMMA OpenInOrder ==
  ASSUME NEW held, Typed(held), Within(held), Balanced(held),
         NEW model \in Models, NEW type \in OptionType, NEW strike \in Strikes, NEW ask \in Asks
  PROVE  LET sig == [model |-> model, type |-> type, strike |-> strike, ask |-> ask]
             after == Opened(held, sig) IN
         ~Refused(held, sig) => Typed(after) /\ Within(after) /\ Balanced(after)
  <1> DEFINE sig == [model |-> model, type |-> type, strike |-> strike, ask |-> ask]
             after == Opened(held, sig)
             p == [id |-> held.counter + 1, model |-> model, type |-> type,
                   strike |-> strike, lots |-> Lots(held, sig),
                   entry |-> ask, t1 |-> FALSE, banked |-> 0, bars |-> 0]
  <1> SUFFICES ASSUME ~Refused(held, sig) PROVE Typed(after) /\ Within(after) /\ Balanced(after)
    OBVIOUS
  <1>1. /\ held.active \in SUBSET Position /\ IsFiniteSet(held.active)
        /\ held.counter \in Nat /\ held.profits \in Nat /\ held.losses \in Nat /\ held.closed \in Int
    BY TypedSets
  <1>2. /\ sig.model = model /\ sig.type = type /\ sig.strike = strike /\ sig.ask = ask
        /\ ask \in Nat \ {0} /\ Friction \in Nat /\ MaxStrikeLots \in Nat /\ StartingCapital \in Nat
    BY EngineAssumption, PoolAssumption
  <1>3. /\ after.active = held.active \cup {p}
        /\ after.counter = held.counter + 1 /\ after.profits = held.profits
        /\ after.losses = held.losses /\ after.closed = held.closed
        /\ after = [active |-> after.active, counter |-> after.counter, profits |-> after.profits,
                    losses |-> after.losses, closed |-> after.closed]
    <2>1. held \in Pool
      BY DEF Typed
    <2>2. Opened(held, sig) = [held EXCEPT !.counter = @ + 1, !.active = @ \cup {p}]
      BY <1>2 DEF Opened
    <2> QED  BY <2>1, <2>2 DEF Pool
  <1>4. \A s \in Strikes, t \in OptionType :
           /\ Addable(Lot, On(held, s, t)) /\ SumOf(Lot, On(held, s, t)) \in Nat
           /\ SumOf(Lot, On(held, s, t)) <= MaxStrikeLots
    <2> SUFFICES ASSUME NEW s \in Strikes, NEW t \in OptionType
                 PROVE  /\ Addable(Lot, On(held, s, t)) /\ SumOf(Lot, On(held, s, t)) \in Nat
                        /\ SumOf(Lot, On(held, s, t)) <= MaxStrikeLots
      OBVIOUS
    <2>1. On(held, s, t) \in SUBSET Position /\ IsFiniteSet(On(held, s, t))
      BY TypedSets
    <2>2. Addable(Lot, On(held, s, t)) /\ \A q \in On(held, s, t) : Lot[q] >= 0
      BY <2>1, WeightsAdd, PositionWeighs
    <2> QED  BY <2>2, SumPositive DEF Within
  <1>5. /\ Lots(held, sig) \in 1..MaxStrikeLots
        /\ SumOf(Lot, On(held, strike, type)) + Lots(held, sig) <= MaxStrikeLots
        /\ SumOf(Worth, held.active) + Lots(held, sig) * ask + held.losses <= StartingCapital
    BY <1>2, <1>4, LotsFit
  <1>6. /\ p \in Position /\ p.id = held.counter + 1 /\ p.strike = strike /\ p.type = type
        /\ p.lots = Lots(held, sig) /\ p.entry = ask /\ ~p.t1 /\ p.banked = 0
    BY <1>1, <1>2, <1>5 DEF Position
  <1> HIDE DEF sig, after, p
  <1>7. p \notin held.active
    <2>1. \A q \in held.active : q.id <= held.counter
      BY DEF Typed
    <2> QED  BY <1>1, <1>6, <2>1
  <1>8. Typed(after)
    <2>1. after.active \in SUBSET Position /\ after.counter \in Nat
      BY <1>1, <1>3, <1>6
    <2>2. after \in Pool
      BY <1>1, <1>3, <2>1 DEF Pool
    <2>3. IsFiniteSet(after.active)
      <3>1. IsFiniteSet(held.active \cup {p})
        BY <1>1, FS_AddElement
      <3> QED  BY <1>3, <3>1, Zenon
    <2>4. \A q \in held.active : q.id <= held.counter /\ q.id \in Nat /\ (q.t1 \/ q.banked = 0)
      BY <1>1 DEF Typed, Position
    <2>5. \A q \in after.active : q.id <= after.counter /\ (q.t1 \/ q.banked = 0)
      BY <1>1, <1>3, <1>6, <2>4
    <2>6. \A q, r \in after.active : q.id = r.id => q = r
      <3>1. \A q, r \in held.active : q.id = r.id => q = r
        BY DEF Typed
      <3>2. \A q \in held.active : q.id # p.id
        BY <1>1, <1>6, <2>4
      <3> QED  BY <1>3, <3>1, <3>2
    <2> QED  BY <2>2, <2>3, <2>5, <2>6 DEF Typed
  <1>9. /\ Addable(Fee, held.active) /\ Addable(Exposed, held.active) /\ Addable(Booked, held.active)
    BY <1>1, WeightsAdd
  <1>10. /\ Exposed[p] = Lots(held, sig) * ask + Lots(held, sig) * Friction
         /\ Fee[p] = Lots(held, sig) * Friction /\ Booked[p] = 0
         /\ Exposed[p] \in Int /\ Fee[p] \in Int /\ Booked[p] \in Int
    <2>1. Remaining(p) = Lots(held, sig)
      BY <1>6 DEF Remaining
    <2>2. Worth[p] = Lots(held, sig) * ask
      BY <1>6, <2>1, PositionWeighs
    <2> QED  BY <1>6, <2>1, <2>2, PositionWeighs
  <1>11. /\ SumOf(Exposed, after.active) = SumOf(Exposed, held.active) + Exposed[p]
         /\ SumOf(Fee, after.active) = SumOf(Fee, held.active) + Fee[p]
         /\ SumOf(Booked, after.active) = SumOf(Booked, held.active) + Booked[p]
    <2> DEFINE D == held.active
    <2>1. Addable(Exposed, D) /\ Addable(Fee, D) /\ Addable(Booked, D) /\ p \notin D
      BY <1>7, <1>9
    <2> HIDE DEF D
    <2>2. /\ SumOf(Exposed, D \cup {p}) = SumOf(Exposed, D) + Exposed[p]
          /\ SumOf(Fee, D \cup {p}) = SumOf(Fee, D) + Fee[p]
          /\ SumOf(Booked, D \cup {p}) = SumOf(Booked, D) + Booked[p]
      BY <1>10, <2>1, SumWith
    <2> QED  BY <1>3, <2>2, Zenon DEF D
  <1>12. Within(after)
    <2> DEFINE n == Lots(held, sig)
               once == Friction * MaxStrikeLots
               cap == once * held.counter
    <2>1. /\ once * (held.counter + 1) = cap + once /\ cap \in Nat /\ once \in Nat
      BY <1>1, <1>2
    <2>2. n \in Nat /\ n * Friction \in Nat /\ n * ask \in Nat /\ n * Friction <= once
      <3>1. n \in Nat /\ n <= MaxStrikeLots
        BY <1>2, <1>5
      <3>2. \A a, b, f \in Nat : a <= b => a * f <= f * b /\ a * f \in Nat
        OBVIOUS
      <3> HIDE DEF n
      <3> QED  BY <1>2, <3>1, <3>2
    <2>3. /\ SumOf(Fee, held.active) <= cap
          /\ SumOf(Exposed, held.active) = SumOf(Worth, held.active) + SumOf(Fee, held.active)
          /\ SumOf(Worth, held.active) \in Nat /\ SumOf(Fee, held.active) \in Nat
      BY ExposedParts DEF Within
    <2>4. SumOf(Worth, held.active) + n * ask + held.losses <= StartingCapital
      BY <1>5
    <2>5. /\ SumOf(Exposed, after.active) = SumOf(Exposed, held.active) + (n * ask + n * Friction)
          /\ SumOf(Fee, after.active) = SumOf(Fee, held.active) + n * Friction
      BY <1>10, <1>11
    <2> HIDE DEF n, once, cap
    <2> DEFINE w == SumOf(Worth, held.active)
               fees == SumOf(Fee, held.active)
               paid == n * ask
               fee == n * Friction
    <2>6. \A a, b, c, d, e, f, g, i \in Nat :
             b <= f /\ d <= g /\ a + c + e <= i
             => ((a + b) + (c + d)) + e <= i + (f + g) /\ b + d <= f + g
      OBVIOUS
    <2>7. w \in Nat /\ fees \in Nat /\ paid \in Nat /\ fee \in Nat /\ held.losses \in Nat
      BY <1>1, <2>2, <2>3
    <2>8. fees <= cap /\ fee <= once /\ w + paid + held.losses <= StartingCapital
      BY <2>2, <2>3, <2>4
    <2> HIDE DEF w, fees, paid, fee
    <2>9. /\ ((w + fees) + (paid + fee)) + held.losses <= StartingCapital + (cap + once)
          /\ fees + fee <= cap + once
      BY <1>2, <2>1, <2>6, <2>7, <2>8
    <2>10. /\ SumOf(Exposed, after.active) + after.losses
                 <= StartingCapital + Friction * MaxStrikeLots * after.counter
           /\ SumOf(Fee, after.active) <= Friction * MaxStrikeLots * after.counter
      BY <1>3, <2>1, <2>3, <2>5, <2>9 DEF w, fees, paid, fee, once
    <2>11. ASSUME NEW s \in Strikes, NEW t \in OptionType
           PROVE  SumOf(Lot, On(after, s, t)) <= MaxStrikeLots
      <3>1. CASE s = strike /\ t = type
        <4> DEFINE D == On(held, s, t)
        <4>1. On(after, s, t) = D \cup {p}
          BY <1>3, <1>6, <3>1 DEF On
        <4>2. p \notin D /\ Addable(Lot, D) /\ Lot[p] = n /\ Lot[p] \in Int /\ SumOf(Lot, D) + n <= MaxStrikeLots
          BY <1>4, <1>5, <1>6, <1>7, <3>1, PositionWeighs DEF On, n
        <4> HIDE DEF D
        <4>3. SumOf(Lot, D \cup {p}) = SumOf(Lot, D) + Lot[p]
          BY <4>2, SumWith
        <4>4. SumOf(Lot, D \cup {p}) <= MaxStrikeLots
          BY <4>2, <4>3
        <4> QED  BY <4>1, <4>4, Zenon
      <3>2. CASE ~(s = strike /\ t = type)
        <4>1. On(after, s, t) = On(held, s, t)
          BY <1>3, <1>6, <3>2 DEF On
        <4>2. SumOf(Lot, On(held, s, t)) <= MaxStrikeLots
          BY <1>4
        <4> QED  BY <4>1, <4>2, Zenon
      <3> QED  BY <3>1, <3>2
    <2> QED  BY <2>10, <2>11 DEF Within
  <1>13. Balanced(after)
    <2>1. SumOf(Booked, held.active) \in Int
      BY <1>9, SumOne
    <2> QED  BY <1>3, <1>10, <1>11, <2>1 DEF Balanced
  <1> QED  BY <1>8, <1>12, <1>13

\* What every operator of the pool keeps.
InOrder(held) == Typed(held) /\ Within(held) /\ Balanced(held)

\* So does every signal, let in or refused, with the positions it closes.
LEMMA AllocateInOrder ==
  ASSUME NEW held, InOrder(held), NEW bid, \A p \in held.active : bid[p] \in Nat,
         NEW model \in Models, NEW type \in OptionType, NEW strike \in Strikes, NEW ask \in Asks
  PROVE  InOrder(Allocate(held, [model |-> model, type |-> type,
                                 strike |-> strike, ask |-> ask], bid))
  <1> DEFINE sig == [model |-> model, type |-> type, strike |-> strike, ask |-> ask]
             flipped == Flipped(held, sig, bid)
  <1>1. InOrder(flipped)
    <2> DEFINE against == Opposing(held, sig.type)
    <2>1. against \in SUBSET held.active /\ \A p \in against : bid[p] \in Nat
      BY DEF Opposing
    <2>2. flipped = CloseAll(held, against, bid) \/ flipped = held
      BY DEF Flipped
    <2> HIDE DEF against, flipped
    <2> QED  BY <2>1, <2>2, CloseInOrder DEF InOrder
  <1> HIDE DEF flipped
  <1>2. ~Refused(flipped, sig) => InOrder(Opened(flipped, sig))
    BY <1>1, OpenInOrder DEF InOrder
  <1> QED  BY <1>1, <1>2 DEF Allocate, flipped

\* An evaluation of the exits leaves the account in order.
LEMMA ExitsInOrder ==
  ASSUME NEW held, InOrder(held), NEW t, CheckExits(held, t)
  PROVE  InOrder(pool')
  <1>1. PICK bid \in [held.active -> Bids],
             verdict \in [held.active -> {"hold", "bank", "exit"}] :
          LET exits == {p \in held.active : verdict[p] = "exit"}
              banks == {p \in held.active : verdict[p] = "bank"}
          IN  /\ \A p \in held.active : verdict[p] \in Verdicts(p, t)
              /\ pool' = CloseAll(BankAll(held, banks, bid), exits, bid)
    BY DEF CheckExits
  <1> DEFINE exits == {p \in held.active : verdict[p] = "exit"}
             banks == {p \in held.active : verdict[p] = "bank"}
             banked == BankAll(held, banks, bid)
  <1>2. /\ exits \in SUBSET held.active /\ banks \in SUBSET held.active /\ exits \cap banks = {}
        /\ \A p \in banks : ~p.t1
        /\ \A p \in held.active : bid[p] \in Nat
    BY <1>1, EngineAssumption DEF Verdicts
  <1>3. pool' = CloseAll(banked, exits, bid)
    BY <1>1
  <1> HIDE DEF exits, banks
  <1>4. InOrder(banked)
    BY <1>2, BankInOrder DEF InOrder
  <1>5. exits \in SUBSET banked.active
    <2>1. banked.active = (held.active \ banks) \cup Image(Banked(banks, bid), banks)
      BY BankedIs DEF InOrder
    <2> QED  BY <1>2, <2>1
  <1> HIDE DEF banked
  <1>6. \A p \in exits : bid[p] \in Nat
    BY <1>2
  <1> QED  BY <1>3, <1>4, <1>5, <1>6, CloseInOrder DEF InOrder

\* Every step of the engine leaves the account in order.
LEMMA StepInOrder ==
  ASSUME InOrder(pool), pending \in OptionType \cup {NoSignal}, [Next]_vars
  PROVE  InOrder(pool') /\ (pending \in OptionType \cup {NoSignal})'
  <1>1. CASE SameMinute \/ NewMinute \/ UNCHANGED vars
    BY <1>1 DEF SameMinute, NewMinute, vars
  <1>2. CASE ExecutePending
    <2>1. CASE pending = NoSignal
      BY <1>2, <2>1 DEF ExecutePending
    <2>2. CASE pending # NoSignal
      <3>1. PICK bid \in Prices, out \in ReversalExits, strike \in Strikes, ask \in Asks :
              pool' = Allocate(CloseAll(pool, out, bid),
                               [model |-> Poc, type |-> pending,
                                strike |-> strike, ask |-> ask], bid)
        BY <1>2, <2>2 DEF ExecutePending
      <3>2. Poc \in Models /\ pending \in OptionType
        BY <2>2, EngineAssumption
      <3>3. out \in SUBSET pool.active
        BY DEF ReversalExits, Opposing
      <3>4. \A p \in pool.active : bid[p] \in Nat
        BY EngineAssumption DEF Prices
      <3> DEFINE held == CloseAll(pool, out, bid)
      <3>5. InOrder(held)
        BY <3>3, <3>4, CloseInOrder DEF InOrder
      <3>6. \A p \in held.active : bid[p] \in Nat
        <4>1. held.active = pool.active \ out
          BY Closed DEF InOrder
        <4> QED  BY <3>4, <4>1
      <3> HIDE DEF held
      <3>7. InOrder(Allocate(held, [model |-> Poc, type |-> pending,
                                    strike |-> strike, ask |-> ask], bid))
        BY <3>2, <3>5, <3>6, AllocateInOrder
      <3> QED  BY <1>2, <3>1, <3>7 DEF ExecutePending, held
    <2> QED  BY <2>1, <2>2
  <1>3. CASE ExitsOnBar
    <2>1. InOrder(BarHeld)
      BY BarInOrder DEF InOrder
    <2>2. InOrder(pool')
      BY <1>3, <2>1, ExitsInOrder DEF ExitsOnBar
    <2> QED  BY <1>3, <2>2 DEF ExitsOnBar
  <1>4. CASE ExitsOnTick
    BY <1>4, ExitsInOrder DEF ExitsOnTick
  <1>5. CASE EvaluatePoc
    BY <1>5 DEF EvaluatePoc
  <1>6. ASSUME NEW model \in Models, BuyAtClose(model) PROVE InOrder(pool')
    <2>1. PICK type \in OptionType, strike \in Strikes, ask \in Asks, bid \in Prices :
            pool' = Allocate(pool, [model |-> model, type |-> type,
                                    strike |-> strike, ask |-> ask], bid)
      BY <1>6 DEF BuyAtClose
    <2>2. \A p \in pool.active : bid[p] \in Nat
      BY EngineAssumption DEF Prices
    <2> QED  BY <2>1, <2>2, AllocateInOrder
  <1>7. CASE EvaluateBox
    BY <1>6, <1>7, EngineAssumption DEF EvaluateBox
  <1>8. CASE EvaluateDalton
    BY <1>6, <1>8, EngineAssumption DEF EvaluateDalton
  <1>9. CASE Restart
    BY <1>9, EmptyInOrder DEF Restart, InOrder
  <1> QED
    BY <1>1, <1>2, <1>3, <1>4, <1>5, <1>7, <1>8, <1>9 DEF Next

\* The account is always in order.
LEMMA AlwaysInOrder == Spec => [](InOrder(pool))
  <1> DEFINE I == InOrder(pool) /\ pending \in OptionType \cup {NoSignal}
  <1>1. Init => I
    BY EmptyInOrder DEF Init, InOrder
  <1>2. I /\ [Next]_vars => I'
    BY StepInOrder
  <1> QED  BY <1>1, <1>2, PTL DEF Spec

\* No strike carries more than its cap, and what is locked and lost never
\* exceeds the capital but for the friction paid (evaluate_and_allocate's sizing).
THEOREM StaysWithinLimits == Spec => []WithinLimits
  <1>1. InOrder(pool) => WithinLimits
    BY AmountsHold DEF InOrder
  <1> QED  BY <1>1, AlwaysInOrder, PTL

\* The running totals agree with the trades, whichever lots were banked before
\* (bank_lot1 and close_position).
THEOREM BooksAlwaysBalance == Spec => []BooksBalance
  <1>1. InOrder(pool) => BooksBalance
    BY AmountsHold DEF InOrder
  <1> QED  BY <1>1, AlwaysInOrder, PTL
=============================================================================
