------------------------- MODULE TriModelEngineProofs ------------------------
(***************************************************************************)
(* For every capital, price set, trading hours and number of failures of   *)
(* the Python twin: nothing is held once a candle at or after the          *)
(* square-off is finished, a reversal leaves nothing on the side it turned *)
(* away from, and the account is moved only as the C++ pool would move it. *)
(*                                                                         *)
(* The first two follow the side of the positions and the stage of a bar:  *)
(* only a bar before the cutoff reaches the models that queue or buy, a    *)
(* bar that passes the first stage leaves no signal, and a bar that fails  *)
(* is not counted as finished.  The third follows the margin and the       *)
(* remaining lots that the twin writes into every position.                *)
(***************************************************************************)
EXTENDS TriModelEngine, InductionTheorems

\* What the operators keep of the pool.
Sided(held) ==
    /\ "active" \in DOMAIN held
    /\ \A p \in held.active :
          /\ {"type", "model"} \subseteq DOMAIN p
          /\ p.type \in OptionType

Clock ==
    /\ minute \in Nat /\ last \in Nat /\ last <= minute
    /\ stage \in Stages

Staged ==
    /\ stage \in {"poc", "box", "dalton"} => minute < Cutoff
    /\ stage = "exits" => pending = Quiet

\* When a candle after the square-off has been finished, no later candle finds
\* anything to do.
DoneForToday == last >= SquareOff => pool.active = {} /\ pending = Quiet

Inv ==
    /\ Sided(pool) /\ Clock /\ Staged /\ DoneForToday
    /\ "type" \in DOMAIN pending /\ pending.type \in OptionType \cup {NoSignal}

-----------------------------------------------------------------------------
\* Closing positions keeps the rest as they are.
LEMMA CloseSided ==
  ASSUME NEW held, NEW S, NEW bid, Sided(held)
  PROVE  /\ Sided(Close(held, S, bid))
         /\ Close(held, S, bid).active = held.active \ S
  <1>1. "active" \in DOMAIN held  BY DEF Sided
  <1>2. Close(held, S, bid).active = held.active \ S
    BY <1>1 DEF Close
  <1>3. DOMAIN Close(held, S, bid) = DOMAIN held
    BY DEF Close
  <1> QED  BY <1>1, <1>2, <1>3 DEF Sided

\* Banking a lot leaves the side alone; banking nothing, the book.
LEMMA BankSided ==
  ASSUME NEW held, NEW S \in SUBSET held.active, NEW bid, Sided(held)
  PROVE  /\ Sided(Bank(held, S, bid))
         /\ S = {} => Bank(held, S, bid).active = held.active
  <1> DEFINE fresh == {p \in S : ~p.t1}
             gain(p) == bid[p] - p.entry - Friction
             Banked(p) == BankedLot(p, gain(p))
  <1>1. /\ "active" \in DOMAIN Bank(held, S, bid)
        /\ Bank(held, S, bid).active =
               (held.active \ fresh) \cup {Banked(p) : p \in fresh}
    BY DEF Bank, Sided
  <1>2. \A p \in S : DOMAIN Banked(p) = DOMAIN p /\ Banked(p).type = p.type
    BY DEF Sided, BankedLot
  <1>3. fresh \subseteq S  OBVIOUS
  <1> HIDE DEF Banked, fresh
  <1> QED  BY <1>1, <1>2, <1>3 DEF Sided

\* Counting a bar leaves the side alone.
LEMMA OlderSided ==
  ASSUME NEW S \in SUBSET pool.active, Sided(pool)
  PROVE  /\ Sided(Older(S))
         /\ pool.active = {} => Older(S).active = {}
  <1> DEFINE Aged(p) == [p EXCEPT !.bars = Min({@ + 1, BoxHold})]
  <1>1. /\ "active" \in DOMAIN Older(S)
        /\ Older(S).active = (pool.active \ S) \cup {Aged(p) : p \in S}
    BY DEF Older, Sided
  <1>2. \A p \in S : DOMAIN Aged(p) = DOMAIN p /\ Aged(p).type = p.type
    BY DEF Sided
  <1> HIDE DEF Aged
  <1> QED  BY <1>1, <1>2 DEF Sided

\* A signal adds at most one position, of its own side and model.
LEMMA AllocateSided ==
  ASSUME NEW held, NEW bid, NEW model, NEW type \in OptionType,
         NEW strike, NEW ask, Sided(held)
  PROVE  LET sig == [model |-> model, type |-> type, strike |-> strike, ask |-> ask]
             after == EvaluateAndAllocate(held, sig, bid)
         IN  /\ Sided(after)
             /\ \A p \in after.active : p \in held.active \/ p.type = type
  <1> DEFINE sig == [model |-> model, type |-> type, strike |-> strike, ask |-> ask]
             flipped == Close(held, Against(held, sig), bid)
  <1>1. sig.model = model /\ sig.type = type  OBVIOUS
  <1> HIDE DEF sig
  <1>2. Sided(flipped) /\ flipped.active \subseteq held.active
    BY CloseSided
  <1> HIDE DEF flipped
  <1> DEFINE p == [id |-> flipped.counter + 1, model |-> sig.model,
                   type |-> sig.type, strike |-> sig.strike,
                   lots |-> Sized(flipped, sig), remaining |-> Sized(flipped, sig),
                   entry |-> sig.ask, margin |-> Sized(flipped, sig) * sig.ask,
                   t1 |-> FALSE, banked |-> 0, bars |-> 0]
  <1>3. {"type", "model"} \subseteq DOMAIN p /\ p.type = type
    BY <1>1
  <1>4. /\ Bought(flipped, sig).active = flipped.active \cup {p}
        /\ "active" \in DOMAIN Bought(flipped, sig)
    BY <1>2 DEF Bought, Sided
  <1> HIDE DEF p
  <1>5. Sided(Bought(flipped, sig))
    BY <1>2, <1>3, <1>4 DEF Sided
  <1>6. EvaluateAndAllocate(held, sig, bid) \in {held, flipped, Bought(flipped, sig)}
    BY DEF EvaluateAndAllocate, flipped
  <1>7. /\ Sided(EvaluateAndAllocate(held, sig, bid))
        /\ \A q \in EvaluateAndAllocate(held, sig, bid).active :
              q \in held.active \/ q.type = type
    BY <1>2, <1>3, <1>4, <1>5, <1>6
  <1> QED  BY <1>7 DEF sig

\* So does a purchase of the box or Dalton model.
LEMMA BuysSided ==
  ASSUME NEW model, NEW type \in OptionType, Sided(pool), Buys(model, type)
  PROVE  Sided(pool')
  <1>1. PICK strike, ask, bid :
          pool' = EvaluateAndAllocate(pool, [model |-> model, type |-> type,
                                             strike |-> strike, ask |-> ask], bid)
    BY DEF Buys
  <1> QED  BY <1>1, AllocateSided

\* The positions of a book that are judged; when all are, and the square-off
\* has come, none is left.
LEMMA JudgedSided ==
  ASSUME NEW held, NEW judged \in SUBSET held.active, Sided(held), Judged(held, judged)
  PROVE  /\ Sided(pool')
         /\ held.active = {} => pool'.active = {}
         /\ minute >= SquareOff /\ judged = held.active => pool'.active = {}
  <1>1. PICK exits \in SUBSET judged, banks \in SUBSET judged, bid \in [held.active -> Bids] :
          /\ {p \in judged : MustExit(p)} \subseteq exits
          /\ exits \cap banks = {}
          /\ pool' = Close(Bank(held, banks, bid), exits, bid)
    BY DEF Judged
  <1> DEFINE banked == Bank(held, banks, bid)
  <1>2. Sided(banked) /\ (banks = {} => banked.active = held.active)
    BY BankSided
  <1>3. pool' = Close(banked, exits, bid)
    BY <1>1
  <1> HIDE DEF banked
  <1>4. pool'.active = banked.active \ exits /\ Sided(pool')
    BY <1>2, <1>3, CloseSided
  <1>5. minute >= SquareOff => exits = judged
    BY <1>1 DEF MustExit
  <1> QED  BY <1>1, <1>2, <1>4, <1>5

-----------------------------------------------------------------------------
LEMMA InitInv == Init => Inv
  BY TriModelAssumption
     DEF Init, Inv, Sided, Clock, Staged, DoneForToday, NewPool, Quiet, Stages

\* A bar that fails leaves the clock and the candle it counts as done alone.
LEMMA FailsKeeps ==
  ASSUME Inv, Fails, Sided(pool'), pool.active = {} => pool'.active = {},
         pending' = pending
  PROVE  Inv'
  <1> QED
    BY DEF Fails, Inv, Clock, Staged, DoneForToday, Stages

LEMMA NextInv == Inv /\ [Next]_vars => Inv'
  <1> SUFFICES ASSUME Inv, [Next]_vars PROVE Inv'
    OBVIOUS
  <1>0. Sided(pool) /\ Clock /\ {SquareOff, Cutoff, LastMinute} \subseteq Nat /\ Cutoff <= SquareOff
    BY TriModelAssumption DEF Inv
  <1> USE DEF Clock, Stages
  <1>1. CASE Look
    BY <1>0, <1>1 DEF Look, Inv, Sided, Staged, DoneForToday
  <1>2. CASE Restart
    BY <1>0, <1>2 DEF Restart, Inv, Sided, Staged, DoneForToday, NewPool, Quiet
  <1>3. CASE ExecutePending
    <2>1. pending' = Quiet /\ stage' = "exits" /\ UNCHANGED <<minute, last>>
      BY <1>3 DEF ExecutePending
    <2>2. Sided(pool') /\ (pending = Quiet => pool' = pool)
      <3>1. CASE pending.type = NoSignal
        BY <1>0, <1>3, <3>1 DEF ExecutePending, Sided
      <3>2. CASE pending.type # NoSignal
        <4>1. PICK bid, strike, ask :
                pool' = EvaluateAndAllocate(
                          Close(pool, Reversed, bid),
                          [model |-> Poc, type |-> pending.type,
                           strike |-> strike, ask |-> ask], bid)
          BY <1>3, <3>2 DEF ExecutePending
        <4>2. pending.type \in OptionType  BY <3>2 DEF Inv
        <4>3. Sided(Close(pool, Reversed, bid))
          BY <1>0, CloseSided
        <4>4. Sided(pool')
          BY <4>1, <4>2, <4>3, AllocateSided
        <4> QED  BY <3>2, <4>4 DEF Quiet
      <3> QED  BY <3>1, <3>2
    <2> QED  BY <1>0, <2>1, <2>2 DEF Inv, Staged, DoneForToday, Quiet
  <1>4. CASE PendingFails
    <2>1. PICK done, bid :
            pool' = Close(pool, {p \in Reversed : p.id <= done}, bid)
      BY <1>4 DEF PendingFails
    <2>2. Sided(pool') /\ (pool.active = {} => pool'.active = {})
      BY <1>0, <2>1, CloseSided
    <2> QED  BY <1>4, <2>2, FailsKeeps DEF PendingFails
  <1>5. CASE CheckExits
    <2> DEFINE held == Older(pool.active)
    <2>1. Sided(held) /\ (pool.active = {} => held.active = {})
      BY <1>0, OlderSided
    <2>2. Judged(held, held.active)
      BY <1>5 DEF CheckExits
    <2> HIDE DEF held
    <2>3. /\ Sided(pool')
          /\ pool.active = {} => pool'.active = {}
          /\ minute >= SquareOff => pool'.active = {}
      BY <2>1, <2>2, JudgedSided
    <2>4. /\ pending' = pending /\ pending = Quiet /\ minute' = minute
          /\ IF minute >= Cutoff THEN stage' = "idle" /\ last' = minute
                                 ELSE stage' = "poc" /\ last' = last
      BY <1>5 DEF CheckExits, Finished, Inv, Staged
    <2> QED  BY <1>0, <2>3, <2>4 DEF Inv, Staged, DoneForToday
  <1>6. CASE ExitsFail
    <2>1. PICK done \in 0..pool.counter - 1 :
          LET reached(P) == {p \in P : p.id <= done} IN
            \/ pool' = Older(reached(pool.active)) /\ UNCHANGED boxExit
            \/ LET held == Older(pool.active) IN Judged(held, reached(held.active))
      BY <1>6 DEF ExitsFail
    <2> DEFINE reached(P) == {p \in P : p.id <= done}
               held == Older(pool.active)
    <2>2. Sided(held) /\ (pool.active = {} => held.active = {})
      BY <1>0, OlderSided
    <2>3. reached(pool.active) \subseteq pool.active /\ reached(held.active) \subseteq held.active
      OBVIOUS
    <2>4. pool' = Older(reached(pool.active)) \/ Judged(held, reached(held.active))
      BY <2>1
    <2> HIDE DEF held, reached
    <2>5. Sided(pool') /\ (pool.active = {} => pool'.active = {})
      <3>1. CASE pool' = Older(reached(pool.active))
        BY <1>0, <2>3, <3>1, OlderSided
      <3>2. CASE Judged(held, reached(held.active))
        BY <2>2, <2>3, <3>2, JudgedSided
      <3> QED  BY <2>4, <3>1, <3>2
    <2> QED  BY <1>6, <2>5, FailsKeeps DEF ExitsFail
  <1>7. CASE EvaluatePoc
    BY <1>0, <1>7 DEF EvaluatePoc, Inv, Sided, Staged, DoneForToday
  <1>8. CASE EvaluateBox
    <2>1. Sided(pool')
      BY <1>0, <1>8, BuysSided DEF EvaluateBox, BoxMayEnter
    <2> QED  BY <1>0, <1>8, <2>1 DEF EvaluateBox, Inv, Staged, DoneForToday
  <1>9. CASE BoxFails
    BY <1>0, <1>9, FailsKeeps DEF BoxFails, Sided
  <1>10. CASE EvaluateDalton
    <2>1. Sided(pool')
      BY <1>0, <1>10, BuysSided DEF EvaluateDalton
    <2> QED  BY <1>0, <1>10, <2>1 DEF EvaluateDalton, Finished, Inv, Staged, DoneForToday
  <1>11. CASE DaltonFails
    BY <1>0, <1>11, FailsKeeps DEF DaltonFails, Sided
  <1>12. CASE UNCHANGED vars
    BY <1>12 DEF vars, Inv, Sided, Staged, DoneForToday
  <1> QED
    BY <1>1, <1>2, <1>3, <1>4, <1>5, <1>6, <1>7, <1>8, <1>9, <1>10, <1>11, <1>12
       DEF Next

LEMMA Invariance == Spec => []Inv
  <1> QED  BY InitInv, NextInv, PTL DEF Spec

\* When a candle at or after 15:20 has been finished nothing is held, also after
\* an attempt at it failed half-way (tri_model_python_engine.py:550-554 under the
\* retry of run_dual_forward_test.py:335-374).
THEOREM TwinSquaresOff == Spec => []SquaredOff
  <1>1. Inv => SquaredOff  BY DEF Inv, DoneForToday, SquaredOff
  <1> QED  BY <1>1, Invariance, PTL

\* The queued signal leaves the POC model nothing on the other side
\* (execute_pending_poc_signal, which runs over a copy of the list).
THEOREM ReversalsComplete == Spec => ReversalCompletes
  <1> DEFINE Completes ==
        stage = "open" /\ stage' = "exits" /\ pending.type # NoSignal =>
            \A p \in pool'.active : p.model = Poc => p.type = pending.type
  <1>1. Inv /\ [Next]_vars => [Completes]_vars
    <2> SUFFICES ASSUME Inv, Next, stage = "open", stage' = "exits", pending.type # NoSignal
                 PROVE  Completes
      OBVIOUS
    <2>1. ExecutePending
      BY DEF Next, Look, Restart, PendingFails, CheckExits, ExitsFail, EvaluatePoc,
             EvaluateBox, BoxFails, EvaluateDalton, DaltonFails, Fails, Finished
    <2>2. PICK bid, strike, ask :
            pool' = EvaluateAndAllocate(
                      Close(pool, Reversed, bid),
                      [model |-> Poc, type |-> pending.type,
                       strike |-> strike, ask |-> ask], bid)
      BY <2>1 DEF ExecutePending
    <2> DEFINE closed == Close(pool, Reversed, bid)
    <2>3. Sided(closed) /\ closed.active = pool.active \ Reversed
      BY CloseSided DEF Inv
    <2>4. \A p \in closed.active : p.model = Poc => p.type = pending.type
      BY <2>3 DEF Reversed, Inv, Sided, Other, OptionType
    <2>5. pending.type \in OptionType  BY DEF Inv
    <2>6. pool' = EvaluateAndAllocate(closed,
                      [model |-> Poc, type |-> pending.type,
                       strike |-> strike, ask |-> ask], bid)
      BY <2>2
    <2> HIDE DEF closed
    <2>7. \A p \in pool'.active : p \in closed.active \/ p.type = pending.type
      <3> DEFINE after == EvaluateAndAllocate(closed,
                            [model |-> Poc, type |-> pending.type,
                             strike |-> strike, ask |-> ask], bid)
      <3>1. \A p \in after.active : p \in closed.active \/ p.type = pending.type
        BY <2>3, <2>5, AllocateSided
      <3> QED  BY <2>6, <3>1
    <2> QED  BY <2>4, <2>7
  <1> QED  BY <1>1, Invariance, PTL DEF Spec, ReversalCompletes

-----------------------------------------------------------------------------
(* Replica.  The twin keeps by hand what the C++ pool derives, so the two  *)
(* agree as long as the margin and the remaining lots of every position    *)
(* are what the C++ pool would work out: the invariant.  Seen without them *)
(* (cpp below), each operator of the twin's pool is then the C++ one, sums *)
(* over positions included, because no two positions have the same id.     *)

\* A position whose remaining lots and margin are those of the lots it has.
Slips ==
    {p \in [id : Nat, model : Models, type : OptionType, strike : Strikes,
            lots : Nat \ {0}, remaining : Nat, entry : Nat, margin : Int,
            t1 : BOOLEAN, banked : Int, bars : Nat] :
        /\ p.remaining = IF p.t1 THEN p.lots - 1 ELSE p.lots
        /\ p.margin = p.remaining * p.entry}

\* What the C++ pool knows of it.
cpp == [p \in Slips |->
          [id |-> p.id, model |-> p.model, type |-> p.type, strike |-> p.strike,
           lots |-> p.lots, entry |-> p.entry, t1 |-> p.t1,
           banked |-> p.banked, bars |-> p.bars]]

Ledger(active, counter, profits, losses, closed) ==
    [active |-> active, counter |-> counter, profits |-> profits,
     losses |-> losses, closed |-> closed]

CppPool(held) ==
    Ledger(Image(cpp, held.active), held.counter, held.profits, held.losses, held.closed)

\* The book: positions in order, with ids that have been given out once.
Booked(held) ==
    /\ held = Ledger(held.active, held.counter, held.profits, held.losses, held.closed)
    /\ held.active \in SUBSET Slips /\ IsFiniteSet(held.active)
    /\ held.counter \in Nat
    /\ held.profits \in Int /\ held.losses \in Int /\ held.closed \in Int
    /\ \A p \in held.active : p.id <= held.counter
    /\ \A p, q \in held.active : p.id = q.id => p = q

\* The bids for the positions of S, the other one for what the C++ pool sees.
SameBids(S, bid, seen) == \A p \in S : bid[p] \in Int /\ seen[cpp[p]] = bid[p]

-----------------------------------------------------------------------------
LEMMA LedgerParts ==
  ASSUME NEW a, NEW n, NEW p, NEW l, NEW c
  PROVE  /\ Ledger(a, n, p, l, c).active = a /\ Ledger(a, n, p, l, c).counter = n
         /\ Ledger(a, n, p, l, c).profits = p /\ Ledger(a, n, p, l, c).losses = l
         /\ Ledger(a, n, p, l, c).closed = c
  BY DEF Ledger

\* The fields of a position as the C++ pool sees it.
LEMMA SlipParts ==
  ASSUME NEW p \in Slips
  PROVE  /\ cpp[p].id = p.id /\ cpp[p].model = p.model /\ cpp[p].type = p.type
         /\ cpp[p].strike = p.strike /\ cpp[p].lots = p.lots /\ cpp[p].entry = p.entry
         /\ cpp[p].t1 = p.t1 /\ cpp[p].banked = p.banked /\ cpp[p].bars = p.bars
         /\ Account!Remaining(cpp[p]) = p.remaining
         /\ p.id \in Nat /\ p.lots \in Nat \ {0} /\ p.remaining \in Nat /\ p.entry \in Nat
         /\ p.margin = p.remaining * p.entry /\ p.margin \in Int
         /\ p.t1 \in BOOLEAN /\ p.banked \in Int /\ p.bars \in Nat
         /\ p.type \in OptionType /\ p.model \in Models /\ p.strike \in Strikes
  BY DEF Slips, cpp, Account!Remaining

\* A book is made of slips, which the C++ pool tells apart.
LEMMA Slipped ==
  ASSUME NEW held, Booked(held)
  PROVE  /\ Distinct(cpp, held.active)
         /\ \A S \in SUBSET held.active : /\ Distinct(cpp, S) /\ S \in SUBSET Slips /\ IsFiniteSet(S)
                                          /\ Image(cpp, held.active \ S) = Image(cpp, held.active) \ Image(cpp, S)
  <1>1. Distinct(cpp, held.active)
    BY SlipParts DEF Booked, Distinct
  <1>2. ASSUME NEW S \in SUBSET held.active
        PROVE  /\ Distinct(cpp, S) /\ S \in SUBSET Slips /\ IsFiniteSet(S)
               /\ Image(cpp, held.active \ S) = Image(cpp, held.active) \ Image(cpp, S)
    <2>1. S \in SUBSET Slips /\ IsFiniteSet(S)
      BY FS_Subset DEF Booked
    <2> QED  BY <1>1, <2>1 DEF Distinct, Image
  <1> QED  BY <1>1, <1>2

\* A book without the fields the C++ pool derives.
LEMMA Derived ==
  ASSUME NEW held, Booked(held)
  PROVE  [held EXCEPT !.active =
             {[id |-> p.id, model |-> p.model, type |-> p.type, strike |-> p.strike,
               lots |-> p.lots, entry |-> p.entry, t1 |-> p.t1,
               banked |-> p.banked, bars |-> p.bars] : p \in @}] = CppPool(held)
  <1>1. {[id |-> p.id, model |-> p.model, type |-> p.type, strike |-> p.strike,
          lots |-> p.lots, entry |-> p.entry, t1 |-> p.t1,
          banked |-> p.banked, bars |-> p.bars] : p \in held.active} = Image(cpp, held.active)
    BY DEF Image, cpp, Booked
  <1>2. [held EXCEPT !.active = Image(cpp, held.active)] = CppPool(held)
    BY DEF Booked, CppPool, Ledger
  <1> QED  BY <1>1, <1>2

\* The account's pool is the book as the C++ pool sees it.
LEMMA Seen == (Booked(pool) => AsCpp = CppPool(pool)) /\ (Booked(pool') => AsCpp' = CppPool(pool'))
  BY Derived DEF AsCpp

\* A total over positions, and over what the C++ pool sees of them.
LEMMA SameTotal ==
  ASSUME NEW S, NEW h, Distinct(h, S), NEW f, NEW g, DOMAIN f = S, Addable(f, S),
         DOMAIN g = Image(h, S), \A p \in S : g[h[p]] = f[p]
  PROVE  SumFunction(g) = SumFunction(f) /\ SumFunction(f) \in Int
  <1>1. SumOf(g, Image(h, S)) = SumOf(f, S)
    BY SumRenamed
  <1>2. SumOf(f, S) \in Int
    BY SumOne
  <1>3. SumFunction(g) = SumOf(g, Image(h, S)) /\ SumFunction(f) = SumOf(f, S)
    BY DEF SumFunction, SumOf
  <1> QED  BY <1>1, <1>2, <1>3

\* The larger of a number and zero is a number.
LEMMA GainType == \A x \in Int : Gain(x) \in Int /\ Gain(x) = IF x > 0 THEN x ELSE 0
  <1> SUFFICES ASSUME NEW x \in Int PROVE Gain(x) \in Int /\ Gain(x) = IF x > 0 THEN x ELSE 0
    OBVIOUS
  <1> DEFINE m == IF x > 0 THEN x ELSE 0
  <1>1. m \in {0, x} /\ \A y \in {0, x} : m >= y
    OBVIOUS
  <1>2. Max({0, x}) \in {0, x} /\ \A y \in {0, x} : Max({0, x}) >= y
    BY <1>1 DEF Max
  <1> QED  BY <1>1, <1>2 DEF Gain

\* The library's operators are the same in both modules.
LEMMA SameLibrary ==
  /\ \A f : Account!SumFunction(f) = SumFunction(f)
  /\ \A S : Account!Max(S) = Max(S) /\ Account!Min(S) = Min(S)
  <1>1. \A f : Account!SumFunction(f) = SumFunction(f)
    BY DEF Account!SumFunction, SumFunction, Account!SumFunctionOnSet, SumFunctionOnSet,
           Account!FoldFunctionOnSet, FoldFunctionOnSet, Account!MapThenFoldSet, MapThenFoldSet
  <1>2. \A S : Account!Max(S) = Max(S) /\ Account!Min(S) = Min(S)
    BY DEF Account!Max, Max, Account!Min, Min
  <1> QED  BY <1>1, <1>2

-----------------------------------------------------------------------------
\* What each position of S brings when it is closed at its bid, in the twin ...
Worth(S, bid) == [p \in S |-> (bid[p] - p.entry - Friction) * p.remaining]
Won(S, bid)   == [p \in S |-> Gain((bid[p] - p.entry - Friction) * p.remaining)]
Lost(S, bid)  == [p \in S |-> Gain(-((bid[p] - p.entry - Friction) * p.remaining))]
Net(S, bid)   == [p \in S |-> (bid[p] - p.entry - Friction) * p.remaining + p.banked]

\* ... and in the C++ pool.
CppWon(T, bid)  == [q \in T |-> Account!Max({0, Account!Pnl(q, bid[q])})]
CppLost(T, bid) == [q \in T |-> Account!Max({0, -Account!Pnl(q, bid[q])})]
CppNet(T, bid)  == [q \in T |-> q.banked + Account!Pnl(q, bid[q])]

\* The parts of a closing.
LEMMA CloseIs ==
  ASSUME NEW held, Booked(held), NEW S, NEW bid
  PROVE  Close(held, S, bid) =
            Ledger(held.active \ S, held.counter,
                   held.profits + SumFunction(Won(S, bid)),
                   held.losses + SumFunction(Lost(S, bid)),
                   held.closed + SumFunction(Net(S, bid)))
  <1>1. Close(held, S, bid) =
            [held EXCEPT !.active  = @ \ S,
                         !.profits = @ + SumFunction(Won(S, bid)),
                         !.losses  = @ + SumFunction(Lost(S, bid)),
                         !.closed  = @ + SumFunction(Net(S, bid))]
    BY DEF Close, Won, Lost, Net
  <1>2. held = [active |-> held.active, counter |-> held.counter, profits |-> held.profits,
                losses |-> held.losses, closed |-> held.closed]
    BY DEF Booked, Ledger
  <1> QED  BY <1>1, <1>2 DEF Ledger

LEMMA CppCloseIs ==
  ASSUME NEW held, NEW T, NEW bid
  PROVE  Account!CloseAll(CppPool(held), T, bid) =
            Ledger(Image(cpp, held.active) \ T, held.counter,
                   held.profits + SumFunction(CppWon(T, bid)),
                   held.losses + SumFunction(CppLost(T, bid)),
                   held.closed + SumFunction(CppNet(T, bid)))
  <1>1. Account!CloseAll(CppPool(held), T, bid) =
            [CppPool(held) EXCEPT !.active  = @ \ T,
                                  !.profits = @ + Account!SumFunction(CppWon(T, bid)),
                                  !.losses  = @ + Account!SumFunction(CppLost(T, bid)),
                                  !.closed  = @ + Account!SumFunction(CppNet(T, bid))]
    BY DEF Account!CloseAll, CppWon, CppLost, CppNet
  <1>2. /\ Account!SumFunction(CppWon(T, bid)) = SumFunction(CppWon(T, bid))
        /\ Account!SumFunction(CppLost(T, bid)) = SumFunction(CppLost(T, bid))
        /\ Account!SumFunction(CppNet(T, bid)) = SumFunction(CppNet(T, bid))
    BY SameLibrary
  <1> QED  BY <1>1, <1>2 DEF CppPool, Ledger

\* Closing the same positions at the same bids.
LEMMA CloseReplica ==
  ASSUME NEW held, Booked(held), NEW S \in SUBSET held.active, NEW bid, NEW seen,
         SameBids(S, bid, seen)
  PROVE  /\ Booked(Close(held, S, bid))
         /\ Close(held, S, bid).active = held.active \ S
         /\ Close(held, S, bid).counter = held.counter
         /\ CppPool(Close(held, S, bid)) = Account!CloseAll(CppPool(held), Image(cpp, S), seen)
  <1> DEFINE worth == Worth(S, bid)
             won  == Won(S, bid)
             lost == Lost(S, bid)
             net  == Net(S, bid)
             seenWon  == CppWon(Image(cpp, S), seen)
             seenLost == CppLost(Image(cpp, S), seen)
             seenNet  == CppNet(Image(cpp, S), seen)
             after == Close(held, S, bid)
  <1>1. Distinct(cpp, S) /\ S \in SUBSET Slips /\ IsFiniteSet(S)
        /\ Image(cpp, held.active \ S) = Image(cpp, held.active) \ Image(cpp, S)
    BY Slipped
  <1>2. ASSUME NEW p \in S
        PROVE  /\ worth[p] \in Int /\ p.banked \in Int
               /\ Account!Pnl(cpp[p], seen[cpp[p]]) = worth[p]
               /\ cpp[p].banked = p.banked
    <2>1. p \in Slips /\ bid[p] \in Int /\ seen[cpp[p]] = bid[p] /\ Friction \in Nat
      BY <1>1, PythonPoolAssumption DEF SameBids
    <2>2. /\ p.entry \in Nat /\ p.remaining \in Nat /\ p.banked \in Int
          /\ cpp[p].entry = p.entry /\ Account!Remaining(cpp[p]) = p.remaining /\ cpp[p].banked = p.banked
      BY <2>1, SlipParts
    <2>3. Account!Pnl(cpp[p], seen[cpp[p]]) = worth[p]
      BY <2>1, <2>2 DEF Account!Pnl, Worth
    <2>4. \A x, y \in Int : x * y \in Int
      OBVIOUS
    <2>5. bid[p] - p.entry - Friction \in Int
      BY <2>1, <2>2
    <2>6. worth[p] \in Int
      BY <2>2, <2>4, <2>5 DEF Worth
    <2> QED  BY <2>2, <2>3, <2>6
  <1>3. /\ \A p \in S : won[p] = Gain(worth[p]) /\ lost[p] = Gain(-worth[p]) /\ net[p] = worth[p] + p.banked
        /\ DOMAIN won = S /\ DOMAIN lost = S /\ DOMAIN net = S
        /\ DOMAIN seenWon = Image(cpp, S) /\ DOMAIN seenLost = Image(cpp, S) /\ DOMAIN seenNet = Image(cpp, S)
    BY DEF Won, Lost, Net, Worth, CppWon, CppLost, CppNet
  <1>4. \A p \in S : /\ seenWon[cpp[p]] = Gain(Account!Pnl(cpp[p], seen[cpp[p]]))
                     /\ seenLost[cpp[p]] = Gain(-Account!Pnl(cpp[p], seen[cpp[p]]))
                     /\ seenNet[cpp[p]] = cpp[p].banked + Account!Pnl(cpp[p], seen[cpp[p]])
    BY SameLibrary DEF CppWon, CppLost, CppNet, Image, Gain
  <1> HIDE DEF worth, won, lost, net, seenWon, seenLost, seenNet
  <1>5. \A p \in S : seenWon[cpp[p]] = won[p] /\ seenLost[cpp[p]] = lost[p]
    BY <1>2, <1>3, <1>4
  <1>6. \A p \in S : seenNet[cpp[p]] = net[p]
    BY <1>2, <1>3, <1>4
  <1>7. Addable(won, S) /\ Addable(lost, S) /\ Addable(net, S)
    <2>1. \A p \in S : -worth[p] \in Int /\ worth[p] + p.banked \in Int
      BY <1>2
    <2>2. \A p \in S : won[p] \in Int /\ lost[p] \in Int /\ net[p] \in Int
      BY <1>2, <1>3, <2>1, GainType
    <2> QED  BY <1>1, <2>2 DEF Addable
  <1>8. /\ SumFunction(seenWon) = SumFunction(won) /\ SumFunction(won) \in Int
        /\ SumFunction(seenLost) = SumFunction(lost) /\ SumFunction(lost) \in Int
        /\ SumFunction(seenNet) = SumFunction(net) /\ SumFunction(net) \in Int
    BY <1>1, <1>3, <1>5, <1>6, <1>7, SameTotal
  <1>9. after = Ledger(held.active \ S, held.counter, held.profits + SumFunction(won),
                       held.losses + SumFunction(lost), held.closed + SumFunction(net))
    BY CloseIs, Zenon DEF won, lost, net, worth, after
  <1>10. Account!CloseAll(CppPool(held), Image(cpp, S), seen) =
            Ledger(Image(cpp, held.active) \ Image(cpp, S), held.counter,
                   held.profits + SumFunction(seenWon), held.losses + SumFunction(seenLost),
                   held.closed + SumFunction(seenNet))
    BY CppCloseIs DEF seenWon, seenLost, seenNet
  <1> HIDE DEF after
  <1>11. /\ after.active = held.active \ S /\ after.counter = held.counter
         /\ after.profits = held.profits + SumFunction(won)
         /\ after.losses = held.losses + SumFunction(lost)
         /\ after.closed = held.closed + SumFunction(net)
    BY <1>9, LedgerParts
  <1>12. Booked(after)
    <2>1. after = Ledger(after.active, after.counter, after.profits, after.losses, after.closed)
      BY <1>9, <1>11, Zenon
    <2>2. /\ held.active \in SUBSET Slips /\ IsFiniteSet(held.active) /\ held.counter \in Nat
          /\ held.profits \in Int /\ held.losses \in Int /\ held.closed \in Int
          /\ \A p \in held.active : p.id <= held.counter
          /\ \A p, q \in held.active : p.id = q.id => p = q
      BY DEF Booked
    <2>3. after.profits \in Int /\ after.losses \in Int /\ after.closed \in Int
      BY <1>8, <1>11, <2>2
    <2>4. after.active \in SUBSET held.active /\ IsFiniteSet(after.active)
      BY <1>11, <2>2, FS_Subset
    <2>5. \A p \in after.active : p.id <= after.counter
      BY <1>11, <2>2, <2>4
    <2> QED  BY <1>11, <2>1, <2>2, <2>3, <2>4, <2>5 DEF Booked
  <1>13. CppPool(after) = Ledger(Image(cpp, held.active) \ Image(cpp, S), held.counter,
                                 held.profits + SumFunction(won), held.losses + SumFunction(lost),
                                 held.closed + SumFunction(net))
    BY <1>1, <1>11, Zenon DEF CppPool
  <1>14. CppPool(after) = Account!CloseAll(CppPool(held), Image(cpp, S), seen)
    BY <1>8, <1>10, <1>13
  <1> QED  BY <1>11, <1>12, <1>14 DEF after

-----------------------------------------------------------------------------
SeenAs(held, h, S) == (Image(cpp, held.active) \ Image(cpp, S)) \cup {cpp[h[p]] : p \in S}

KeepsIds(h, S) == \A p \in S : h[p] \in Slips /\ h[p].id = p.id

\* Each position p of S is replaced by h[p].
Replacement(new, held, S, h, profits, losses) ==
    /\ KeepsIds(h, S) /\ profits \in Int /\ losses \in Int
    /\ new = Ledger((held.active \ S) \cup Image(h, S), held.counter, profits, losses, held.closed)

\* Positions are replaced by others with their ids: the book stays one, and
\* the C++ pool sees the same replacement.
LEMMA Replaced ==
  ASSUME NEW held, Booked(held), NEW S \in SUBSET held.active, NEW h,
         NEW profits, NEW losses, NEW new, Replacement(new, held, S, h, profits, losses)
  PROVE  /\ Booked(new)
         /\ CppPool(new) = Ledger(SeenAs(held, h, S), held.counter, profits, losses, held.closed)
  <1> DEFINE active == (held.active \ S) \cup Image(h, S)
             after == Ledger(active, held.counter, profits, losses, held.closed)
  <1>0. new = after /\ KeepsIds(h, S) /\ profits \in Int /\ losses \in Int
    BY DEF Replacement
  <1>1. /\ held.active \in SUBSET Slips /\ IsFiniteSet(held.active) /\ held.counter \in Nat
        /\ held.closed \in Int
        /\ \A p \in held.active : p.id <= held.counter
        /\ \A p, q \in held.active : p.id = q.id => p = q
    BY DEF Booked
  <1>2. /\ after.active = active /\ after.counter = held.counter /\ after.profits = profits
        /\ after.losses = losses /\ after.closed = held.closed
    BY LedgerParts
  <1>3. active \in SUBSET Slips /\ \A p \in active : p.id <= held.counter
    BY <1>0, <1>1 DEF Image, KeepsIds
  <1>4. IsFiniteSet(active)
    <2>1. IsFiniteSet(S) /\ IsFiniteSet(held.active \ S)
      BY <1>1, FS_Subset
    <2>2. IsFiniteSet(Image(h, S))
      <3> DEFINE onto == [p \in S |-> h[p]]
      <3>1. onto \in Surjection(S, Image(h, S))
        BY DEF Surjection, Image
      <3> QED  BY <2>1, <3>1, FS_Surjection
    <2> QED  BY <2>1, <2>2, FS_Union
  <1>5. \A p, q \in active : p.id = q.id => p = q
    BY <1>0, <1>1 DEF Image, KeepsIds
  <1>6. Image(cpp, active) = SeenAs(held, h, S)
    <2>1. Image(cpp, held.active \ S) = Image(cpp, held.active) \ Image(cpp, S)
      BY Slipped
    <2>2. Image(cpp, active) = Image(cpp, held.active \ S) \cup {cpp[h[p]] : p \in S}
      BY DEF Image
    <2> QED  BY <2>1, <2>2 DEF SeenAs
  <1> HIDE DEF active
  <1>7. Booked(after)
    <2>1. after = Ledger(after.active, after.counter, after.profits, after.losses, after.closed)
      BY <1>2, Zenon
    <2> HIDE DEF after
    <2> QED  BY <1>0, <1>1, <1>2, <1>3, <1>4, <1>5, <2>1 DEF Booked
  <1>8. CppPool(after) = Ledger(SeenAs(held, h, S), held.counter, profits, losses, held.closed)
    BY <1>2, <1>6, Zenon DEF CppPool
  <1> HIDE DEF after
  <1> QED  BY <1>0, <1>7, <1>8, Zenon

\* A position that banks a lot of those it has still has what the C++ pool
\* works out.
LEMMA LotReplica ==
  ASSUME NEW p \in Slips, ~p.t1, NEW gain \in Int
  PROVE  /\ BankedLot(p, gain) \in Slips
         /\ BankedLot(p, gain).id = p.id /\ BankedLot(p, gain).bars = p.bars
         /\ cpp[BankedLot(p, gain)] = [cpp[p] EXCEPT !.t1 = TRUE, !.banked = gain]
  <1>1. /\ p.lots \in Nat \ {0} /\ p.remaining = p.lots /\ p.entry \in Nat /\ p.margin = p.lots * p.entry
    BY DEF Slips
  <1>2. Gain(p.remaining - 1) = p.lots - 1 /\ p.lots - 1 \in Nat
    BY <1>1, GainType
  <1>3. p.margin - p.entry = (p.lots - 1) * p.entry /\ p.margin - p.entry \in Int
    <2>1. \A x, y \in Int : x * y - y = (x - 1) * y /\ x * y - y \in Int
      OBVIOUS
    <2> QED  BY <1>1, <2>1
  <1>4. BankedLot(p, gain) = [id |-> p.id, model |-> p.model, type |-> p.type, strike |-> p.strike,
                              lots |-> p.lots, remaining |-> p.lots - 1, entry |-> p.entry,
                              margin |-> p.margin - p.entry, t1 |-> TRUE, banked |-> gain,
                              bars |-> p.bars]
    <2>1. p = [id |-> p.id, model |-> p.model, type |-> p.type, strike |-> p.strike,
               lots |-> p.lots, remaining |-> p.remaining, entry |-> p.entry,
               margin |-> p.margin, t1 |-> p.t1, banked |-> p.banked, bars |-> p.bars]
      BY DEF Slips
    <2>2. PICK rest : rest = Gain(p.remaining - 1) /\ rest = p.lots - 1
      BY <1>2
    <2>3. BankedLot(p, gain) = [p EXCEPT !.t1 = TRUE, !.banked = gain, !.margin = @ - p.entry,
                                         !.remaining = rest]
      BY <2>2 DEF BankedLot
    <2> QED  BY <2>1, <2>2, <2>3
  <1>5. BankedLot(p, gain) \in Slips
    BY <1>1, <1>2, <1>3, <1>4 DEF Slips
  <1>6. /\ BankedLot(p, gain).id = p.id /\ BankedLot(p, gain).bars = p.bars
    BY <1>4
  <1>7. cpp[BankedLot(p, gain)] = [cpp[p] EXCEPT !.t1 = TRUE, !.banked = gain]
    <2> DEFINE b == BankedLot(p, gain)
    <2>1. /\ b.id = p.id /\ b.model = p.model /\ b.type = p.type /\ b.strike = p.strike
          /\ b.lots = p.lots /\ b.entry = p.entry /\ b.t1 = TRUE /\ b.banked = gain /\ b.bars = p.bars
      BY <1>4
    <2> HIDE DEF b
    <2>2. b \in Slips
      BY <1>5 DEF b
    <2>3. cpp[b] = [id |-> b.id, model |-> b.model, type |-> b.type, strike |-> b.strike,
                    lots |-> b.lots, entry |-> b.entry, t1 |-> b.t1, banked |-> b.banked, bars |-> b.bars]
      BY <2>2 DEF cpp
    <2>4. PICK c : c = cpp[p]
      OBVIOUS
    <2>5. [cpp[p] EXCEPT !.t1 = TRUE, !.banked = gain] =
             [id |-> p.id, model |-> p.model, type |-> p.type, strike |-> p.strike,
              lots |-> p.lots, entry |-> p.entry, t1 |-> TRUE, banked |-> gain, bars |-> p.bars]
      <3>1. c = [id |-> c.id, model |-> c.model, type |-> c.type, strike |-> c.strike,
                 lots |-> c.lots, entry |-> c.entry, t1 |-> c.t1, banked |-> c.banked, bars |-> c.bars]
        BY <2>4 DEF cpp
      <3>2. /\ c.id = p.id /\ c.model = p.model /\ c.type = p.type /\ c.strike = p.strike
            /\ c.lots = p.lots /\ c.entry = p.entry /\ c.bars = p.bars
        BY <2>4, SlipParts
      <3>3. [c EXCEPT !.t1 = TRUE, !.banked = gain] =
               [id |-> c.id, model |-> c.model, type |-> c.type, strike |-> c.strike,
                lots |-> c.lots, entry |-> c.entry, t1 |-> TRUE, banked |-> gain, bars |-> c.bars]
        <4>1. PICK d : d = [c EXCEPT !.t1 = TRUE, !.banked = gain]
          OBVIOUS
        <4>2. d = [id |-> c.id, model |-> c.model, type |-> c.type, strike |-> c.strike,
                   lots |-> c.lots, entry |-> c.entry, t1 |-> TRUE, banked |-> gain, bars |-> c.bars]
          BY <3>1, <4>1
        <4> QED  BY <4>1, <4>2, Zenon
      <3> QED  BY <2>4, <3>2, <3>3, Zenon
    <2>6. cpp[b] = [id |-> p.id, model |-> p.model, type |-> p.type, strike |-> p.strike,
                    lots |-> p.lots, entry |-> p.entry, t1 |-> TRUE, banked |-> gain, bars |-> p.bars]
      BY <2>1, <2>3, Zenon
    <2> QED  BY <2>5, <2>6, Zenon DEF b
  <1> QED  BY <1>5, <1>6, <1>7

\* What a lot of each position of S gains.
LotGain(S, bid) == [p \in S |-> Gain(bid[p] - p.entry - Friction)]
LotLoss(S, bid) == [p \in S |-> Gain(-(bid[p] - p.entry - Friction))]
CppLotGain(T, bid) == [q \in T |-> Account!Max({0, bid[q] - q.entry - Friction})]
CppLotLoss(T, bid) == [q \in T |-> Account!Max({0, -(bid[q] - q.entry - Friction)})]

LEMMA CppBankIs ==
  ASSUME NEW held, NEW T, NEW bid
  PROVE  Account!BankAll(CppPool(held), T, bid) =
            Ledger((Image(cpp, held.active) \ T) \cup
                      {[q EXCEPT !.t1 = TRUE, !.banked = bid[q] - q.entry - Friction] : q \in T},
                   held.counter,
                   held.profits + SumFunction(CppLotGain(T, bid)),
                   held.losses + SumFunction(CppLotLoss(T, bid)),
                   held.closed)
  <1> DEFINE banked == {[q EXCEPT !.t1 = TRUE, !.banked = bid[q] - q.entry - Friction] : q \in T}
  <1>1. Account!BankAll(CppPool(held), T, bid) =
            [CppPool(held) EXCEPT !.active  = (@ \ T) \cup banked,
                                  !.profits = @ + Account!SumFunction(CppLotGain(T, bid)),
                                  !.losses  = @ + Account!SumFunction(CppLotLoss(T, bid))]
    BY DEF Account!BankAll, CppLotGain, CppLotLoss
  <1> HIDE DEF banked
  <1>2. /\ Account!SumFunction(CppLotGain(T, bid)) = SumFunction(CppLotGain(T, bid))
        /\ Account!SumFunction(CppLotLoss(T, bid)) = SumFunction(CppLotLoss(T, bid))
    BY SameLibrary
  <1>3. Account!BankAll(CppPool(held), T, bid) =
            Ledger((Image(cpp, held.active) \ T) \cup banked, held.counter,
                   held.profits + SumFunction(CppLotGain(T, bid)),
                   held.losses + SumFunction(CppLotLoss(T, bid)), held.closed)
    BY <1>1, <1>2 DEF CppPool, Ledger
  <1> QED  BY <1>3 DEF banked

\* Banking a lot of the same positions at the same bids.
LEMMA BankReplica ==
  ASSUME NEW held, Booked(held), NEW S \in SUBSET held.active, \A p \in S : ~p.t1,
         NEW bid, NEW seen, SameBids(S, bid, seen)
  PROVE  /\ Booked(Bank(held, S, bid))
         /\ Bank(held, S, bid).counter = held.counter
         /\ Bank(held, S, bid).active =
              (held.active \ S) \cup {BankedLot(p, bid[p] - p.entry - Friction) : p \in S}
         /\ CppPool(Bank(held, S, bid)) = Account!BankAll(CppPool(held), Image(cpp, S), seen)
  <1> DEFINE h == [p \in S |-> BankedLot(p, bid[p] - p.entry - Friction)]
             T == Image(cpp, S)
             won == LotGain(S, bid)
             lost == LotLoss(S, bid)
             seenWon == CppLotGain(T, seen)
             seenLost == CppLotLoss(T, seen)
             active == (held.active \ S) \cup Image(h, S)
             after == Ledger(active, held.counter, held.profits + SumFunction(won),
                             held.losses + SumFunction(lost), held.closed)
  <1>1. Distinct(cpp, S) /\ S \in SUBSET Slips /\ IsFiniteSet(S)
    BY Slipped
  <1>2. /\ held = Ledger(held.active, held.counter, held.profits, held.losses, held.closed)
        /\ held.profits \in Int /\ held.losses \in Int
    BY DEF Booked
  <1>3. ASSUME NEW p \in S
        PROVE  /\ bid[p] - p.entry - Friction \in Int
               /\ seen[cpp[p]] = bid[p] /\ cpp[p].entry = p.entry
    <2>1. p \in Slips /\ bid[p] \in Int /\ seen[cpp[p]] = bid[p] /\ Friction \in Nat
      BY <1>1, PythonPoolAssumption DEF SameBids
    <2> QED  BY <2>1, SlipParts
  <1>4. \A p \in S : /\ h[p] \in Slips /\ h[p].id = p.id
                     /\ cpp[h[p]] = [cpp[p] EXCEPT !.t1 = TRUE, !.banked = bid[p] - p.entry - Friction]
    BY <1>1, <1>3, LotReplica
  <1>5. Bank(held, S, bid) = after
    <2>1. {p \in S : ~p.t1} = S
      OBVIOUS
    <2>2. {BankedLot(p, bid[p] - p.entry - Friction) : p \in S} = Image(h, S)
      BY DEF Image
    <2>3. Bank(held, S, bid) =
            [held EXCEPT !.active  = (@ \ S) \cup {BankedLot(p, bid[p] - p.entry - Friction) : p \in S},
                         !.profits = @ + SumFunction(won),
                         !.losses  = @ + SumFunction(lost)]
      BY <2>1 DEF Bank, LotGain, LotLoss
    <2> HIDE DEF won, lost, h
    <2> QED  BY <1>2, <2>2, <2>3 DEF Ledger
  <1>6. /\ DOMAIN won = S /\ DOMAIN lost = S /\ DOMAIN seenWon = T /\ DOMAIN seenLost = T
        /\ \A p \in S : /\ won[p] = Gain(bid[p] - p.entry - Friction)
                        /\ lost[p] = Gain(-(bid[p] - p.entry - Friction))
    BY DEF LotGain, LotLoss, CppLotGain, CppLotLoss
  <1>7. \A p \in S : /\ seenWon[cpp[p]] = Gain(seen[cpp[p]] - cpp[p].entry - Friction)
                     /\ seenLost[cpp[p]] = Gain(-(seen[cpp[p]] - cpp[p].entry - Friction))
    BY SameLibrary DEF CppLotGain, CppLotLoss, Image, Gain
  <1>8. {[q EXCEPT !.t1 = TRUE, !.banked = seen[q] - q.entry - Friction] : q \in T} = {cpp[h[p]] : p \in S}
    <2> HIDE DEF h
    <2>1. \A p \in S : [cpp[p] EXCEPT !.t1 = TRUE, !.banked = seen[cpp[p]] - cpp[p].entry - Friction] = cpp[h[p]]
      <3> SUFFICES ASSUME NEW p \in S
                   PROVE  [cpp[p] EXCEPT !.t1 = TRUE, !.banked = seen[cpp[p]] - cpp[p].entry - Friction] = cpp[h[p]]
        OBVIOUS
      <3>1. PICK gain : gain = bid[p] - p.entry - Friction
        OBVIOUS
      <3>2. gain = seen[cpp[p]] - cpp[p].entry - Friction
        BY <1>3, <3>1
      <3>3. cpp[h[p]] = [cpp[p] EXCEPT !.t1 = TRUE, !.banked = gain]
        BY <1>4, <3>1
      <3> QED  BY <3>2, <3>3
    <2> DEFINE banked(q) == [q EXCEPT !.t1 = TRUE, !.banked = seen[q] - q.entry - Friction]
    <2>2. \A p \in S : banked(cpp[p]) = cpp[h[p]]
      BY <2>1
    <2> HIDE DEF banked
    <2>3. {banked(q) : q \in T} = {cpp[h[p]] : p \in S}
      BY <2>2 DEF Image
    <2> QED  BY <2>3 DEF banked
  <1> HIDE DEF won, lost, seenWon, seenLost, h, T
  <1>9. \A p \in S : seenWon[cpp[p]] = won[p] /\ seenLost[cpp[p]] = lost[p]
    BY <1>3, <1>6, <1>7
  <1>10. Addable(won, S) /\ Addable(lost, S)
    <2>1. \A p \in S : -(bid[p] - p.entry - Friction) \in Int
      BY <1>3
    <2>2. \A p \in S : won[p] \in Int /\ lost[p] \in Int
      BY <1>3, <1>6, <2>1, GainType
    <2> QED  BY <1>1, <2>2 DEF Addable
  <1>11. /\ SumFunction(seenWon) = SumFunction(won) /\ SumFunction(won) \in Int
         /\ SumFunction(seenLost) = SumFunction(lost) /\ SumFunction(lost) \in Int
    BY <1>1, <1>6, <1>9, <1>10, SameTotal DEF T
  <1>12. held.profits + SumFunction(won) \in Int /\ held.losses + SumFunction(lost) \in Int
    BY <1>2, <1>11
  <1>13. /\ Booked(after)
         /\ CppPool(after) =
              Ledger((Image(cpp, held.active) \ T) \cup {cpp[h[p]] : p \in S}, held.counter,
                     held.profits + SumFunction(won), held.losses + SumFunction(lost), held.closed)
    <2>1. PICK profits, losses : profits = held.profits + SumFunction(won) /\ losses = held.losses + SumFunction(lost)
      OBVIOUS
    <2>2. profits \in Int /\ losses \in Int
      BY <1>12, <2>1
    <2>3. PICK new : new = Ledger((held.active \ S) \cup Image(h, S), held.counter, profits, losses, held.closed)
      OBVIOUS
    <2>4. Replacement(new, held, S, h, profits, losses)
      BY <1>4, <2>2, <2>3 DEF Replacement, KeepsIds
    <2>5. /\ Booked(new)
          /\ CppPool(new) = Ledger(SeenAs(held, h, S), held.counter, profits, losses, held.closed)
      BY <2>4, Replaced
    <2>6. new = after
      BY <2>1, <2>3
    <2> HIDE DEF after
    <2> QED  BY <2>1, <2>5, <2>6 DEF T, SeenAs
  <1>14. CppPool(after) = Account!BankAll(CppPool(held), T, seen)
    <2>1. Account!BankAll(CppPool(held), T, seen) =
            Ledger((Image(cpp, held.active) \ T) \cup
                      {[q EXCEPT !.t1 = TRUE, !.banked = seen[q] - q.entry - Friction] : q \in T},
                   held.counter, held.profits + SumFunction(seenWon),
                   held.losses + SumFunction(seenLost), held.closed)
      BY CppBankIs DEF seenWon, seenLost
    <2> HIDE DEF after
    <2> QED  BY <1>8, <1>11, <1>13, <2>1
  <1>15. after.active = active /\ after.counter = held.counter
    BY LedgerParts
  <1>16. active = (held.active \ S) \cup {BankedLot(p, bid[p] - p.entry - Friction) : p \in S}
    BY DEF Image, h
  <1> QED  BY <1>5, <1>13, <1>14, <1>15, <1>16 DEF T

-----------------------------------------------------------------------------
\* A position that has been held a bar longer.
BarLater(p) == [p EXCEPT !.bars = Min({@ + 1, BoxHold})]

LEMMA BarReplica ==
  ASSUME NEW p \in Slips
  PROVE  /\ BarLater(p) \in Slips /\ BarLater(p).id = p.id
         /\ cpp[BarLater(p)] = [cpp[p] EXCEPT !.bars = Min({@ + 1, BoxHold})]
  <1> DEFINE n == Min({p.bars + 1, BoxHold})
             b == BarLater(p)
  <1>1. n \in Nat
    <2>1. p.bars + 1 \in Nat /\ BoxHold \in Nat
      BY TriModelAssumption, SlipParts
    <2> DEFINE m == IF p.bars + 1 <= BoxHold THEN p.bars + 1 ELSE BoxHold
    <2>2. m \in {p.bars + 1, BoxHold} /\ \A x \in {p.bars + 1, BoxHold} : m <= x
      BY <2>1
    <2>3. n \in {p.bars + 1, BoxHold}
      BY <2>2 DEF Min
    <2> QED  BY <2>1, <2>3
  <1>2. b = [p EXCEPT !.bars = n]
    BY DEF BarLater
  <1> HIDE DEF n, b
  <1>3. b = [id |-> p.id, model |-> p.model, type |-> p.type, strike |-> p.strike,
             lots |-> p.lots, remaining |-> p.remaining, entry |-> p.entry,
             margin |-> p.margin, t1 |-> p.t1, banked |-> p.banked, bars |-> n]
    <2>1. p = [id |-> p.id, model |-> p.model, type |-> p.type, strike |-> p.strike,
               lots |-> p.lots, remaining |-> p.remaining, entry |-> p.entry,
               margin |-> p.margin, t1 |-> p.t1, banked |-> p.banked, bars |-> p.bars]
      BY DEF Slips
    <2> QED  BY <1>2, <2>1
  <1>4. b \in Slips
    BY <1>1, <1>3 DEF Slips
  <1>5. cpp[b] = [id |-> p.id, model |-> p.model, type |-> p.type, strike |-> p.strike,
                  lots |-> p.lots, entry |-> p.entry, t1 |-> p.t1, banked |-> p.banked, bars |-> n]
    <2>1. /\ b.id = p.id /\ b.model = p.model /\ b.type = p.type /\ b.strike = p.strike
          /\ b.lots = p.lots /\ b.entry = p.entry /\ b.t1 = p.t1 /\ b.banked = p.banked /\ b.bars = n
      BY <1>3
    <2> QED  BY <1>4, <2>1 DEF cpp
  <1>6. [cpp[p] EXCEPT !.bars = n] =
            [id |-> p.id, model |-> p.model, type |-> p.type, strike |-> p.strike,
             lots |-> p.lots, entry |-> p.entry, t1 |-> p.t1, banked |-> p.banked, bars |-> n]
    <2>1. PICK c : c = cpp[p]
      OBVIOUS
    <2>2. c = [id |-> c.id, model |-> c.model, type |-> c.type, strike |-> c.strike,
               lots |-> c.lots, entry |-> c.entry, t1 |-> c.t1, banked |-> c.banked, bars |-> c.bars]
      BY <2>1 DEF cpp
    <2>3. PICK d : d = [c EXCEPT !.bars = n]
      OBVIOUS
    <2>4. d = [id |-> c.id, model |-> c.model, type |-> c.type, strike |-> c.strike,
               lots |-> c.lots, entry |-> c.entry, t1 |-> c.t1, banked |-> c.banked, bars |-> n]
      BY <2>2, <2>3
    <2>5. /\ c.id = p.id /\ c.model = p.model /\ c.type = p.type /\ c.strike = p.strike
          /\ c.lots = p.lots /\ c.entry = p.entry /\ c.t1 = p.t1 /\ c.banked = p.banked
      BY <2>1, SlipParts
    <2> QED  BY <2>1, <2>3, <2>4, <2>5, Zenon
  <1>7. [cpp[p] EXCEPT !.bars = Min({@ + 1, BoxHold})] = [cpp[p] EXCEPT !.bars = n]
    BY SlipParts DEF n
  <1> QED  BY <1>3, <1>4, <1>5, <1>6, <1>7 DEF b

\* A bar more for the same positions.
LEMMA OlderReplica ==
  ASSUME Booked(pool), NEW S \in SUBSET pool.active
  PROVE  /\ Booked(Older(S)) /\ Older(S).counter = pool.counter
         /\ CppPool(Older(S)) = Account!Aged(Image(cpp, S))
  <1> DEFINE h == [p \in S |-> BarLater(p)]
             after == Older(S)
             active == (pool.active \ S) \cup Image(h, S)
  <1>1. S \in SUBSET Slips
    BY Slipped
  <1>2. /\ pool = Ledger(pool.active, pool.counter, pool.profits, pool.losses, pool.closed)
        /\ pool.profits \in Int /\ pool.losses \in Int
    BY DEF Booked
  <1>3. KeepsIds(h, S) /\ \A p \in S : cpp[h[p]] = [cpp[p] EXCEPT !.bars = Min({@ + 1, BoxHold})]
    BY <1>1, BarReplica DEF KeepsIds
  <1>4. after = Ledger(active, pool.counter, pool.profits, pool.losses, pool.closed)
    <2>1. {[p EXCEPT !.bars = Min({@ + 1, BoxHold})] : p \in S} = Image(h, S)
      BY DEF Image, BarLater
    <2>2. after = [pool EXCEPT !.active = (@ \ S) \cup Image(h, S)]
      BY <2>1 DEF Older
    <2> HIDE DEF h, after
    <2> QED  BY <1>2, <2>2 DEF Ledger
  <1> HIDE DEF h, after
  <1>5. Replacement(after, pool, S, h, pool.profits, pool.losses)
    BY <1>2, <1>3, <1>4 DEF Replacement
  <1> HIDE DEF active
  <1>8. /\ Booked(after)
        /\ CppPool(after) = Ledger(SeenAs(pool, h, S), pool.counter, pool.profits, pool.losses, pool.closed)
    BY <1>5, Replaced
  <1>10. SeenAs(pool, h, S) = (Image(cpp, pool.active) \ Image(cpp, S)) \cup
                                 {[q EXCEPT !.bars = Min({@ + 1, BoxHold})] : q \in Image(cpp, S)}
    <2> DEFINE later(q) == [q EXCEPT !.bars = Min({@ + 1, BoxHold})]
    <2>1. \A p \in S : later(cpp[p]) = cpp[h[p]]
      BY <1>3
    <2> HIDE DEF later
    <2>2. {later(q) : q \in Image(cpp, S)} = {cpp[h[p]] : p \in S}
      BY <2>1 DEF Image
    <2> QED  BY <2>2 DEF later, SeenAs
  <1>11. Account!Aged(Image(cpp, S)) =
            Ledger((Image(cpp, pool.active) \ Image(cpp, S)) \cup
                      {[q EXCEPT !.bars = Min({@ + 1, BoxHold})] : q \in Image(cpp, S)},
                   pool.counter, pool.profits, pool.losses, pool.closed)
    <2> DEFINE aged == {[q EXCEPT !.bars = Min({@ + 1, BoxHold})] : q \in Image(cpp, S)}
    <2>1. aged = {[q EXCEPT !.bars = Account!Min({@ + 1, BoxHold})] : q \in Image(cpp, S)}
      BY SameLibrary
    <2>2. Account!Aged(Image(cpp, S)) = [CppPool(pool) EXCEPT !.active = (@ \ Image(cpp, S)) \cup aged]
      BY <2>1, Seen DEF Account!Aged
    <2> HIDE DEF aged
    <2>3. Account!Aged(Image(cpp, S)) = Ledger((Image(cpp, pool.active) \ Image(cpp, S)) \cup aged,
                   pool.counter, pool.profits, pool.losses, pool.closed)
      BY <2>2 DEF CppPool, Ledger
    <2> QED  BY <2>3 DEF aged
  <1>12. after.counter = pool.counter
    BY <1>4, LedgerParts
  <1> QED  BY <1>8, <1>10, <1>11, <1>12, Zenon DEF after

-----------------------------------------------------------------------------
\* Banking, closing and counting nothing.
LEMMA Nothing ==
  ASSUME NEW held, Booked(held), NEW bid
  PROVE  Bank(held, {}, bid) = held /\ Close(held, {}, bid) = held
  <1>1. \A f : DOMAIN f = {} => SumFunction(f) = 0
    BY SumNothing DEF SumFunction, SumOf
  <1>2. /\ held = Ledger(held.active, held.counter, held.profits, held.losses, held.closed)
        /\ held.profits \in Int /\ held.losses \in Int /\ held.closed \in Int
    BY DEF Booked
  <1>3. Close(held, {}, bid) = held
    <2>1. DOMAIN Won({}, bid) = {} /\ DOMAIN Lost({}, bid) = {} /\ DOMAIN Net({}, bid) = {}
      BY DEF Won, Lost, Net
    <2>2. SumFunction(Won({}, bid)) = 0 /\ SumFunction(Lost({}, bid)) = 0 /\ SumFunction(Net({}, bid)) = 0
      BY <1>1, <2>1
    <2>3. /\ held.active \ {} = held.active /\ held.profits + 0 = held.profits
          /\ held.losses + 0 = held.losses /\ held.closed + 0 = held.closed
      BY <1>2
    <2>4. Close(held, {}, bid) =
            Ledger(held.active \ {}, held.counter, held.profits + SumFunction(Won({}, bid)),
                   held.losses + SumFunction(Lost({}, bid)), held.closed + SumFunction(Net({}, bid)))
      BY CloseIs
    <2> QED  BY <1>2, <2>2, <2>3, <2>4, Zenon
  <1>4. Bank(held, {}, bid) = held
    <2>1. DOMAIN LotGain({}, bid) = {} /\ DOMAIN LotLoss({}, bid) = {}
      BY DEF LotGain, LotLoss
    <2>2. SumFunction(LotGain({}, bid)) = 0 /\ SumFunction(LotLoss({}, bid)) = 0
      BY <1>1, <2>1
    <2>3. {p \in {} : ~p.t1} = {} /\ {BankedLot(p, bid[p] - p.entry - Friction) : p \in {}} = {}
      OBVIOUS
    <2>4. Bank(held, {}, bid) =
            [held EXCEPT !.active  = (@ \ {}) \cup {},
                         !.profits = @ + SumFunction(LotGain({}, bid)),
                         !.losses  = @ + SumFunction(LotLoss({}, bid))]
      BY <2>3 DEF Bank, LotGain, LotLoss
    <2>5. Bank(held, {}, bid) =
            Ledger((held.active \ {}) \cup {}, held.counter, held.profits + SumFunction(LotGain({}, bid)),
                   held.losses + SumFunction(LotLoss({}, bid)), held.closed)
      BY <1>2, <2>4 DEF Ledger
    <2>6. /\ (held.active \ {}) \cup {} = held.active
          /\ held.profits + 0 = held.profits /\ held.losses + 0 = held.losses
      BY <1>2
    <2> QED  BY <1>2, <2>2, <2>5, <2>6, Zenon
  <1> QED  BY <1>3, <1>4

LEMMA NoneOlder == Booked(pool) => Older({}) = pool
  BY DEF Older, Booked, Ledger

\* What the C++ pool is told the bids are.
Told(held, bid) ==
    [q \in Image(cpp, held.active) |-> bid[CHOOSE p \in held.active : cpp[p] = q]]

LEMMA BidsTold ==
  ASSUME NEW held, Booked(held), NEW bid, bid \in [held.active -> Bids]
  PROVE  /\ Told(held, bid) \in [Image(cpp, held.active) -> Bids]
         /\ \A S \in SUBSET held.active : SameBids(S, bid, Told(held, bid))
  <1>1. \A p \in held.active : (CHOOSE x \in held.active : cpp[x] = cpp[p]) = p
    BY Slipped DEF Distinct
  <1>2. \A p \in held.active : Told(held, bid)[cpp[p]] = bid[p] /\ bid[p] \in Int
    <2> SUFFICES ASSUME NEW p \in held.active
                 PROVE  Told(held, bid)[cpp[p]] = bid[p] /\ bid[p] \in Int
      OBVIOUS
    <2>1. Told(held, bid)[cpp[p]] = bid[CHOOSE x \in held.active : cpp[x] = cpp[p]]
      BY DEF Told, Image
    <2>2. bid[p] \in Int
      <3>1. Bids \subseteq Nat
        BY TriModelAssumption
      <3>2. bid[p] \in Bids
        OBVIOUS
      <3>3. bid[p] \in Nat
        BY <3>1, <3>2, Zenon
      <3> QED  BY <3>3
    <2> QED  BY <1>1, <2>1, <2>2
  <1>3. Told(held, bid) \in [Image(cpp, held.active) -> Bids]
    BY <1>1 DEF Told, Image
  <1> QED  BY <1>2, <1>3 DEF SameBids

\* The ids and bars of positions, which the C++ pool sees as they are.
Ages(S) == {<<p.id, p.bars>> : p \in S}

LEMMA SameAges == \A S \in SUBSET Slips : Account!Held(Image(cpp, S)) = Ages(S)
  BY SlipParts DEF Account!Held, Ages, Image

\* Judging a book, bars counted first, is a step of the account.
LEMMA JudgeReplica ==
  ASSUME Booked(pool), NEW older \in SUBSET pool.active, NEW held, held = Older(older),
         NEW exits \in SUBSET held.active, NEW banks \in SUBSET (held.active \ exits),
         \A p \in banks : ~p.t1, NEW bid \in [held.active -> Bids],
         pool' = Close(Bank(held, banks, bid), exits, bid)
  PROVE  Booked(pool') /\ Account!Judge
  <1> DEFINE seen == Told(held, bid)
             banked == Bank(held, banks, bid)
  <1>1. /\ Booked(held) /\ held.counter = pool.counter
        /\ CppPool(held) = Account!Aged(Image(cpp, older))
    BY OlderReplica
  <1>2. /\ seen \in [Image(cpp, held.active) -> Bids]
        /\ SameBids(banks, bid, seen) /\ SameBids(exits, bid, seen)
    BY <1>1, BidsTold
  <1> HIDE DEF seen, banked
  <1>3. /\ Booked(banked) /\ banked.counter = held.counter
        /\ banked.active = (held.active \ banks) \cup {BankedLot(p, bid[p] - p.entry - Friction) : p \in banks}
        /\ CppPool(banked) = Account!BankAll(CppPool(held), Image(cpp, banks), seen)
    <2>1. banks \in SUBSET held.active
      OBVIOUS
    <2> QED  BY <1>1, <1>2, <2>1, BankReplica DEF banked
  <1>4. exits \in SUBSET banked.active
    BY <1>3
  <1>5. /\ Booked(pool') /\ pool'.counter = banked.counter
        /\ pool'.active = banked.active \ exits
        /\ CppPool(pool') = Account!CloseAll(CppPool(banked), Image(cpp, exits), seen)
    <2>1. pool' = Close(banked, exits, bid)
      BY DEF banked
    <2>2. /\ Booked(Close(banked, exits, bid)) /\ Close(banked, exits, bid).counter = banked.counter
          /\ Close(banked, exits, bid).active = banked.active \ exits
          /\ CppPool(Close(banked, exits, bid)) = Account!CloseAll(CppPool(banked), Image(cpp, exits), seen)
      <3>1. Booked(banked) /\ exits \in SUBSET banked.active /\ SameBids(exits, bid, seen)
        BY <1>2, <1>3, <1>4
      <3>2. Booked(Close(banked, exits, bid))
        BY <3>1, CloseReplica
      <3>3. Close(banked, exits, bid).counter = banked.counter
        BY <3>1, CloseReplica
      <3>4. Close(banked, exits, bid).active = banked.active \ exits
        BY <3>1, CloseReplica
      <3>5. CppPool(Close(banked, exits, bid)) = Account!CloseAll(CppPool(banked), Image(cpp, exits), seen)
        BY <3>1, CloseReplica
      <3> QED  BY <3>2, <3>3, <3>4, <3>5
    <2> QED  BY <2>1, <2>2
  <1>6. AsCpp = CppPool(pool) /\ AsCpp' = CppPool(pool')
    BY <1>5, Seen
  <1>7. /\ CppPool(held).active = Image(cpp, held.active) /\ CppPool(pool').active = Image(cpp, pool'.active)
        /\ CppPool(pool).active = Image(cpp, pool.active)
        /\ CppPool(pool').counter = pool'.counter /\ CppPool(pool).counter = pool.counter
    BY LedgerParts DEF CppPool
  <1>8. Ages(pool'.active) = Ages(held.active \ exits)
    <2>1. ASSUME NEW p \in banks
          PROVE  LET b == BankedLot(p, bid[p] - p.entry - Friction)
                 IN  b.id = p.id /\ b.bars = p.bars /\ b \notin exits
      <3> DEFINE b == BankedLot(p, bid[p] - p.entry - Friction)
      <3>1. p \in Slips /\ ~p.t1 /\ bid[p] - p.entry - Friction \in Int
        <4>1. p \in Slips
          BY <1>1, Slipped
        <4>2. p.entry \in Nat /\ bid[p] \in Int /\ Friction \in Nat
          BY <1>2, <4>1, SlipParts, PythonPoolAssumption DEF SameBids
        <4> QED  BY <4>1, <4>2
      <3>2. b.id = p.id /\ b.bars = p.bars
        BY <3>1, LotReplica
      <3> HIDE DEF b
      <3>3. b \notin exits
        BY <1>1, <3>2 DEF Booked
      <3> QED  BY <3>2, <3>3 DEF b
    <2>2. \A q \in pool'.active : \E p \in held.active \ exits : q.id = p.id /\ q.bars = p.bars
      BY <1>3, <1>5, <2>1
    <2>3. \A p \in held.active \ exits : \E q \in pool'.active : q.id = p.id /\ q.bars = p.bars
      BY <1>3, <1>5, <2>1
    <2> QED  BY <2>2, <2>3 DEF Ages
  <1>9. Account!Held(Image(cpp, pool'.active)) = Account!Held(Image(cpp, held.active) \ Image(cpp, exits))
    <2>1. pool'.active \in SUBSET Slips /\ held.active \ exits \in SUBSET Slips
      BY <1>1, <1>5 DEF Booked
    <2>2. Image(cpp, held.active \ exits) = Image(cpp, held.active) \ Image(cpp, exits)
      BY <1>1, Slipped
    <2>3. /\ Account!Held(Image(cpp, pool'.active)) = Ages(pool'.active)
          /\ Account!Held(Image(cpp, held.active \ exits)) = Ages(held.active \ exits)
      BY <2>1, SameAges
    <2> QED  BY <1>8, <2>2, <2>3
  <1>10. /\ Image(cpp, older) \in SUBSET Image(cpp, pool.active)
         /\ Image(cpp, exits) \in SUBSET Image(cpp, held.active)
         /\ Image(cpp, banks) \in SUBSET (Image(cpp, held.active) \ Image(cpp, exits))
    <2>1. Distinct(cpp, held.active)
      BY <1>1, Slipped
    <2> QED  BY <2>1 DEF Image, Distinct
  <1>11. \A q \in Image(cpp, banks) : ~q.t1
    <2>1. banks \in SUBSET Slips
      BY <1>1 DEF Booked
    <2> QED  BY <2>1, SlipParts DEF Image
  <1>12. Account!Judge
    <2>1. PICK C, O, X, B : /\ C = CppPool(held) /\ O = Image(cpp, older)
                            /\ X = Image(cpp, exits) /\ B = Image(cpp, banks)
      OBVIOUS
    <2>2. AsCpp'.counter = AsCpp.counter
      BY <1>1, <1>3, <1>5, <1>6, <1>7
    <2>3. C = Account!Aged(O) /\ O \in SUBSET AsCpp.active
      BY <1>1, <1>6, <1>7, <1>10, <2>1
    <2>4. X \in SUBSET C.active /\ B \in SUBSET (C.active \ X) /\ seen \in [C.active -> Bids]
      BY <1>2, <1>7, <1>10, <2>1
    <2>5. Account!Held(AsCpp'.active) = Account!Held(C.active \ X)
      BY <1>6, <1>7, <1>9, <2>1
    <2>6. AsCpp' = Account!CloseAll(Account!BankAll(C, B, seen), X, seen)
      BY <1>3, <1>5, <1>6, <2>1
    <2>7. \A q \in B : ~q.t1
      BY <1>11, <2>1
    <2> QED  BY <2>2, <2>3, <2>4, <2>5, <2>6, <2>7 DEF Account!Judge
  <1> QED  BY <1>5, <1>12

-----------------------------------------------------------------------------
\* The sums of evaluate_and_allocate are those of the C++ pool.
LEMMA SameMargin ==
  ASSUME NEW held, Booked(held)
  PROVE  /\ Account!LockedMargin(CppPool(held)) = LockedMargin(held)
         /\ LockedMargin(held) \in Int
  <1> DEFINE A == held.active
             margin == [p \in A |-> p.margin]
             seen == [q \in Image(cpp, A) |-> Account!Remaining(q) * q.entry]
  <1>1. Distinct(cpp, A) /\ A \in SUBSET Slips /\ IsFiniteSet(A)
    BY Slipped DEF Booked
  <1>2. ASSUME NEW p \in A
        PROVE  seen[cpp[p]] = margin[p] /\ margin[p] \in Int
    <2>1. p \in Slips
      BY <1>1
    <2>2. /\ Account!Remaining(cpp[p]) = p.remaining /\ cpp[p].entry = p.entry
          /\ p.margin = p.remaining * p.entry /\ p.margin \in Int
      BY <2>1, SlipParts
    <2>3. seen[cpp[p]] = Account!Remaining(cpp[p]) * cpp[p].entry
      BY DEF Image
    <2> QED  BY <2>2, <2>3
  <1>3. DOMAIN margin = A /\ DOMAIN seen = Image(cpp, A)
    OBVIOUS
  <1>4. CppPool(held).active = Image(cpp, A)
    BY LedgerParts DEF CppPool
  <1>5. Account!LockedMargin(CppPool(held)) = Account!SumFunction(seen)
    BY <1>4 DEF Account!LockedMargin
  <1>6. LockedMargin(held) = SumFunction(margin)
    BY DEF LockedMargin
  <1> HIDE DEF A, margin, seen
  <1>7. Addable(margin, A)
    BY <1>1, <1>2 DEF Addable
  <1>8. SumFunction(seen) = SumFunction(margin) /\ SumFunction(margin) \in Int
    BY <1>1, <1>2, <1>3, <1>7, SameTotal
  <1>9. Account!SumFunction(seen) = SumFunction(seen)
    BY SameLibrary
  <1> QED  BY <1>5, <1>6, <1>8, <1>9

LEMMA SameStrikeLots ==
  ASSUME NEW held, Booked(held), NEW sig
  PROVE  /\ Account!StrikeLots(CppPool(held), sig.strike, sig.type) = StrikeLots(held, sig)
         /\ StrikeLots(held, sig) \in Int
  <1> DEFINE A == held.active
             S == {p \in A : p.strike = sig.strike /\ p.type = sig.type}
             T == {q \in Image(cpp, A) : q.strike = sig.strike /\ q.type = sig.type}
             lots == [p \in S |-> p.lots]
             seen == [q \in T |-> q.lots]
  <1>1. Distinct(cpp, S) /\ S \in SUBSET Slips /\ IsFiniteSet(S)
    <2>1. S \in SUBSET held.active
      OBVIOUS
    <2> QED  BY <2>1, Slipped
  <1>2. T = Image(cpp, S)
    <2>1. A \in SUBSET Slips
      BY DEF Booked
    <2>2. \A p \in A : cpp[p].strike = p.strike /\ cpp[p].type = p.type
      BY <2>1, SlipParts
    <2> QED  BY <2>2 DEF Image
  <1>3. ASSUME NEW p \in S
        PROVE  seen[cpp[p]] = lots[p] /\ lots[p] \in Int
    <2>1. p \in Slips /\ cpp[p] \in T
      BY <1>1, <1>2 DEF Image
    <2>2. cpp[p].lots = p.lots /\ p.lots \in Nat
      BY <2>1, SlipParts
    <2>3. seen[cpp[p]] = cpp[p].lots /\ lots[p] = p.lots
      BY <2>1
    <2> QED  BY <2>2, <2>3
  <1>4. DOMAIN lots = S /\ DOMAIN seen = T
    OBVIOUS
  <1>5. CppPool(held).active = Image(cpp, A)
    BY LedgerParts DEF CppPool
  <1>6. Account!StrikeLots(CppPool(held), sig.strike, sig.type) = Account!SumFunction(seen)
    BY <1>5 DEF Account!StrikeLots
  <1>7. StrikeLots(held, sig) = SumFunction(lots)
    BY DEF StrikeLots
  <1> HIDE DEF A, S, T, lots, seen
  <1>8. Addable(lots, S)
    BY <1>1, <1>3 DEF Addable
  <1>9. SumFunction(seen) = SumFunction(lots) /\ SumFunction(lots) \in Int
    BY <1>1, <1>2, <1>3, <1>4, <1>8, SameTotal
  <1>10. Account!SumFunction(seen) = SumFunction(seen)
    BY SameLibrary
  <1> QED  BY <1>6, <1>7, <1>9, <1>10

LEMMA SameCash ==
  ASSUME NEW held, Booked(held)
  PROVE  /\ Account!FreeCash(CppPool(held)) = FreeCash(held)
         /\ FreeCash(held) \in Nat
  <1> DEFINE locked == LockedMargin(held)
  <1>1. Account!LockedMargin(CppPool(held)) = locked /\ locked \in Int
    BY SameMargin
  <1>2. held.losses \in Int /\ StartingCapital \in Int /\ CppPool(held).losses = held.losses
    BY PythonPoolAssumption, LedgerParts DEF Booked, CppPool
  <1> HIDE DEF locked
  <1>3. PICK left \in Int : left = StartingCapital - locked - held.losses
    BY <1>1, <1>2
  <1>4. left = StartingCapital - held.losses - locked
    BY <1>1, <1>2, <1>3
  <1>5. FreeCash(held) = Gain(left)
    BY <1>3 DEF FreeCash, locked
  <1>6. Account!FreeCash(CppPool(held)) = Account!Max({0, left})
    BY <1>1, <1>2, <1>4 DEF Account!FreeCash
  <1>7. Account!Max({0, left}) = Gain(left)
    BY SameLibrary DEF Gain
  <1>8. Gain(left) \in Nat
    BY <1>3, GainType
  <1> QED  BY <1>5, <1>6, <1>7, <1>8

-----------------------------------------------------------------------------
\* A signal of one of the models.
Signed(sig) ==
    /\ sig.model \in Models /\ sig.type \in OptionType /\ sig.strike \in Strikes
    /\ sig.ask \in Nat \ {0}

\* The least of three numbers is one of them.
LEMMA LeastType == \A x, y, z \in Int : Min({x, y, z}) \in Int
  <1> SUFFICES ASSUME NEW x \in Int, NEW y \in Int, NEW z \in Int PROVE Min({x, y, z}) \in Int
    OBVIOUS
  <1> DEFINE m == IF x <= y /\ x <= z THEN x ELSE IF y <= z THEN y ELSE z
  <1>1. m \in {x, y, z} /\ \A w \in {x, y, z} : m <= w
    OBVIOUS
  <1>2. Min({x, y, z}) \in {x, y, z}
    BY <1>1 DEF Min
  <1> QED  BY <1>2

\* The larger of two numbers.
LEMMA LargerOf == \A x, y \in Int : Max({x, y}) = IF x > y THEN x ELSE y
  <1> SUFFICES ASSUME NEW x \in Int, NEW y \in Int PROVE Max({x, y}) = IF x > y THEN x ELSE y
    OBVIOUS
  <1> DEFINE m == IF x > y THEN x ELSE y
  <1>1. m \in {x, y} /\ \A w \in {x, y} : m >= w
    OBVIOUS
  <1>2. Max({x, y}) \in {x, y} /\ \A w \in {x, y} : Max({x, y}) >= w
    BY <1>1 DEF Max
  <1> QED  BY <1>1, <1>2

\* The same lots for the same signal.
LEMMA SameLots ==
  ASSUME NEW held, Booked(held), NEW sig, Signed(sig)
  PROVE  /\ Account!Lots(CppPool(held), sig) = Sized(held, sig)
         /\ Sized(held, sig) \in Nat \ {0}
  <1> DEFINE cash == FreeCash(held)
             there == StrikeLots(held, sig)
             least == Min({cash \div LotCostDivisor, cash \div sig.ask, MaxStrikeLots - there})
  <1>1. Account!FreeCash(CppPool(held)) = cash /\ cash \in Nat
    BY SameCash
  <1>2. Account!StrikeLots(CppPool(held), sig.strike, sig.type) = there /\ there \in Int
    BY SameStrikeLots
  <1>3. Sized(held, sig) = IF least > 0 THEN least ELSE 1
    BY DEF Sized
  <1>4. Account!Lots(CppPool(held), sig) =
            Account!Max({1, Account!Min({cash \div LotCostDivisor, cash \div sig.ask, MaxStrikeLots - there})})
    BY <1>1, <1>2 DEF Account!Lots
  <1>5. Account!Lots(CppPool(held), sig) = Max({1, least})
    BY <1>4, SameLibrary
  <1> HIDE DEF cash, there
  <1>6. least \in Int
    <2>1. cash \div LotCostDivisor \in Int /\ cash \div sig.ask \in Int /\ MaxStrikeLots - there \in Int
      BY <1>1, <1>2, PythonPoolAssumption DEF Signed
    <2> QED  BY <2>1, LeastType
  <1> HIDE DEF least
  <1>7. Max({1, least}) = IF 1 > least THEN 1 ELSE least
    BY <1>6, LargerOf
  <1> QED  BY <1>3, <1>5, <1>6, <1>7

\* The same position is bought.
LEMMA BoughtReplica ==
  ASSUME NEW held, Booked(held), NEW sig, Signed(sig)
  PROVE  /\ Booked(Bought(held, sig))
         /\ CppPool(Bought(held, sig)) = Account!Opened(CppPool(held), sig)
  <1>1. PICK n \in Nat \ {0} : n = Sized(held, sig) /\ n = Account!Lots(CppPool(held), sig)
    BY SameLots
  <1> DEFINE p == [id |-> held.counter + 1, model |-> sig.model, type |-> sig.type,
                   strike |-> sig.strike, lots |-> n, remaining |-> n,
                   entry |-> sig.ask, margin |-> n * sig.ask, t1 |-> FALSE,
                   banked |-> 0, bars |-> 0]
             q == [id |-> held.counter + 1, model |-> sig.model, type |-> sig.type,
                   strike |-> sig.strike, lots |-> n, entry |-> sig.ask, t1 |-> FALSE,
                   banked |-> 0, bars |-> 0]
             after == Bought(held, sig)
  <1>2. /\ held = Ledger(held.active, held.counter, held.profits, held.losses, held.closed)
        /\ held.active \in SUBSET Slips /\ IsFiniteSet(held.active) /\ held.counter \in Nat
        /\ held.profits \in Int /\ held.losses \in Int /\ held.closed \in Int
        /\ \A x \in held.active : x.id <= held.counter
        /\ \A x, y \in held.active : x.id = y.id => x = y
    BY DEF Booked
  <1>3. p \in Slips /\ p.id = held.counter + 1
    <2>1. /\ sig.model \in Models /\ sig.type \in OptionType /\ sig.strike \in Strikes
          /\ sig.ask \in Nat /\ held.counter + 1 \in Nat /\ n * sig.ask \in Nat
      BY <1>2 DEF Signed
    <2>2. PICK margin \in Nat : margin = n * sig.ask
      BY <2>1
    <2> QED  BY <2>1, <2>2 DEF Slips
  <1>4. cpp[p] = q
    BY <1>3 DEF cpp
  <1>5. after = Ledger(held.active \cup {p}, held.counter + 1, held.profits, held.losses, held.closed)
    <2>1. after = [held EXCEPT !.counter = @ + 1, !.active = @ \cup {p}]
      BY <1>1 DEF Bought
    <2> HIDE DEF p, after
    <2> QED  BY <1>2, <2>1 DEF Ledger
  <1>6. Account!Opened(CppPool(held), sig) =
            Ledger(Image(cpp, held.active) \cup {q}, held.counter + 1, held.profits, held.losses, held.closed)
    <2>1. CppPool(held).counter = held.counter
      BY LedgerParts DEF CppPool
    <2>2. Account!Opened(CppPool(held), sig) = [CppPool(held) EXCEPT !.counter = @ + 1, !.active = @ \cup {q}]
      BY <1>1, <2>1 DEF Account!Opened
    <2> HIDE DEF q
    <2> QED  BY <2>2 DEF CppPool, Ledger
  <1> HIDE DEF p, q, after
  <1>7. /\ after.active = held.active \cup {p} /\ after.counter = held.counter + 1
        /\ after.profits = held.profits /\ after.losses = held.losses /\ after.closed = held.closed
    BY <1>5, LedgerParts
  <1>8. Booked(after)
    <2>1. after = Ledger(after.active, after.counter, after.profits, after.losses, after.closed)
      BY <1>5, <1>7, Zenon
    <2>2. after.active \in SUBSET Slips /\ IsFiniteSet(after.active)
      BY <1>2, <1>3, <1>7, FS_AddElement
    <2>3. /\ \A x \in after.active : x.id <= after.counter
          /\ \A x, y \in after.active : x.id = y.id => x = y
      <3>1. \A x \in held.active : x.id \in Nat /\ x.id <= held.counter
        BY <1>2, SlipParts
      <3>2. \A x \in held.active : x.id # p.id
        BY <1>2, <1>3, <3>1
      <3> QED  BY <1>2, <1>3, <1>7, <3>1, <3>2
    <2>4. after.counter \in Nat
      BY <1>2, <1>7
    <2> QED  BY <1>2, <1>7, <2>1, <2>2, <2>3, <2>4 DEF Booked
  <1>9. CppPool(after) = Ledger(Image(cpp, held.active) \cup {q}, held.counter + 1,
                                held.profits, held.losses, held.closed)
    <2>1. Image(cpp, held.active \cup {p}) = Image(cpp, held.active) \cup {q}
      BY <1>4 DEF Image
    <2> QED  BY <1>7, <2>1, Zenon DEF CppPool
  <1> QED  BY <1>6, <1>8, <1>9 DEF after

\* What is held against a signal.
LEMMA SameAgainst ==
  ASSUME NEW held, Booked(held), NEW sig
  PROVE  /\ Account!Opposing(CppPool(held), sig.type) = Image(cpp, Against(held, sig))
         /\ Against(held, sig) \in SUBSET held.active
         /\ Blocked(held, sig) <=> \E q \in Image(cpp, Against(held, sig)) : q.model # sig.model
  <1>1. CppPool(held).active = Image(cpp, held.active)
    BY LedgerParts DEF CppPool
  <1>2. \A p \in held.active : cpp[p].type = p.type /\ cpp[p].model = p.model
    BY SlipParts DEF Booked
  <1>3. Account!Opposite(sig.type) = Other(sig.type)
    BY DEF Account!Opposite, Other
  <1> QED  BY <1>1, <1>2, <1>3 DEF Account!Opposing, Against, Blocked, Image

\* One signal does to the account what the C++ pool would do with it.
LEMMA AllocateReplica ==
  ASSUME NEW held, Booked(held), NEW sig, Signed(sig), NEW bid, NEW seen,
         SameBids(held.active, bid, seen)
  PROVE  /\ Booked(EvaluateAndAllocate(held, sig, bid))
         /\ CppPool(EvaluateAndAllocate(held, sig, bid)) = Account!Allocate(CppPool(held), sig, seen)
  <1> DEFINE A == Against(held, sig)
             flipped == Close(held, A, bid)
             seenFlipped == Account!Flipped(CppPool(held), sig, seen)
  <1>1. /\ Account!Opposing(CppPool(held), sig.type) = Image(cpp, A) /\ A \in SUBSET held.active
        /\ Blocked(held, sig) <=> \E q \in Image(cpp, A) : q.model # sig.model
    BY SameAgainst
  <1>2. CASE Blocked(held, sig)
    <2>1. EvaluateAndAllocate(held, sig, bid) = held
      BY <1>2 DEF EvaluateAndAllocate
    <2>2. seenFlipped = CppPool(held)
      BY <1>1, <1>2 DEF Account!Flipped
    <2>3. Account!Refused(CppPool(held), sig)
      BY <1>1, <1>2 DEF Account!Refused
    <2>4. Account!Allocate(CppPool(held), sig, seen) = CppPool(held)
      BY <2>2, <2>3 DEF Account!Allocate
    <2> QED  BY <2>1, <2>4
  <1>3. CASE ~Blocked(held, sig)
    <2>1. EvaluateAndAllocate(held, sig, bid) =
              IF Affordable(flipped, sig) THEN Bought(flipped, sig) ELSE flipped
      BY <1>3 DEF EvaluateAndAllocate
    <2>2. seenFlipped = Account!CloseAll(CppPool(held), Image(cpp, A), seen)
      BY <1>1, <1>3 DEF Account!Flipped
    <2>3. SameBids(A, bid, seen)
      BY <1>1 DEF SameBids
    <2> HIDE DEF A
    <2>4. Booked(flipped) /\ flipped.active = held.active \ A /\ seenFlipped = CppPool(flipped)
      BY <1>1, <2>2, <2>3, CloseReplica
    <2> HIDE DEF flipped, seenFlipped
    <2>5. Account!Opposing(CppPool(flipped), sig.type) = {}
      <3>1. Against(flipped, sig) = {}
        BY <2>4 DEF Against, A
      <3>2. Account!Opposing(CppPool(flipped), sig.type) = Image(cpp, Against(flipped, sig))
        BY <2>4, SameAgainst
      <3> QED  BY <3>1, <3>2 DEF Image
    <2>6. Account!Refused(CppPool(flipped), sig) <=> ~Affordable(flipped, sig)
      <3>1. PICK cash \in Nat, there \in Int :
               /\ cash = FreeCash(flipped) /\ cash = Account!FreeCash(CppPool(flipped))
               /\ there = StrikeLots(flipped, sig)
               /\ there = Account!StrikeLots(CppPool(flipped), sig.strike, sig.type)
        BY <2>4, SameCash, SameStrikeLots
      <3>2. sig.ask \in Int /\ MinCash \in Int /\ MaxStrikeLots \in Int
        BY PythonPoolAssumption DEF Signed
      <3>3. Max({sig.ask, MinCash}) = IF sig.ask > MinCash THEN sig.ask ELSE MinCash
        BY <3>2, LargerOf
      <3>4. Affordable(flipped, sig) <=>
               there < MaxStrikeLots /\ cash >= (IF sig.ask > MinCash THEN sig.ask ELSE MinCash)
        BY <3>1, <3>3 DEF Affordable
      <3>5. Account!Refused(CppPool(flipped), sig) <=>
               there >= MaxStrikeLots \/ cash < sig.ask \/ cash < MinCash
        BY <2>5, <3>1 DEF Account!Refused
      <3> QED  BY <3>1, <3>2, <3>4, <3>5
    <2>7. Account!Allocate(CppPool(held), sig, seen) =
              IF Account!Refused(CppPool(flipped), sig) THEN CppPool(flipped)
              ELSE Account!Opened(CppPool(flipped), sig)
      BY <2>4 DEF Account!Allocate, seenFlipped
    <2>8. /\ Booked(Bought(flipped, sig))
          /\ CppPool(Bought(flipped, sig)) = Account!Opened(CppPool(flipped), sig)
      BY <2>4, BoughtReplica
    <2> QED  BY <2>1, <2>4, <2>6, <2>7, <2>8
  <1> QED  BY <1>2, <1>3

-----------------------------------------------------------------------------
(* Every step of the twin is a step of the account or leaves it alone.     *)

LEMMA EmptyBooked == Booked(NewPool) /\ CppPool(NewPool) = Account!EmptyPool
  <1>1. Image(cpp, {}) = {} /\ IsFiniteSet({})
    BY FS_EmptySet DEF Image
  <1> QED  BY <1>1 DEF Booked, CppPool, NewPool, Account!EmptyPool, Ledger

\* A signal allocated, at once or after some positions have been closed.
LEMMA TradeReplica ==
  ASSUME Booked(pool), NEW out \in SUBSET pool.active, NEW bid \in Prices,
         NEW model \in Models, NEW type \in OptionType, NEW strike \in Strikes, NEW ask \in Asks,
         NEW sig, sig = [model |-> model, type |-> type, strike |-> strike, ask |-> ask],
         \/ pool' = EvaluateAndAllocate(pool, sig, bid)
         \/ pool' = EvaluateAndAllocate(Close(pool, out, bid), sig, bid)
  PROVE  Booked(pool') /\ Account!Trade
  <1> DEFINE seen == Told(pool, bid)
  <1>1. /\ seen \in [Image(cpp, pool.active) -> Bids]
        /\ \A S \in SUBSET pool.active : SameBids(S, bid, seen)
    BY BidsTold DEF Prices
  <1> HIDE DEF seen
  <1>2. Signed(sig)
    <2>1. Asks \subseteq Nat \ {0}
      BY TriModelAssumption
    <2> QED  BY <2>1 DEF Signed
  <1>3. AsCpp = CppPool(pool) /\ CppPool(pool).active = Image(cpp, pool.active)
    BY Seen, LedgerParts DEF CppPool
  <1>4. ASSUME NEW held, Booked(held), held.active \in SUBSET pool.active,
               pool' = EvaluateAndAllocate(held, sig, bid)
        PROVE  Booked(pool') /\ AsCpp' = Account!Allocate(CppPool(held), sig, seen)
    <2>1. SameBids(held.active, bid, seen)
      BY <1>1, <1>4
    <2>2. /\ Booked(EvaluateAndAllocate(held, sig, bid))
          /\ CppPool(EvaluateAndAllocate(held, sig, bid)) = Account!Allocate(CppPool(held), sig, seen)
      BY <1>2, <1>4, <2>1, AllocateReplica
    <2>3. Booked(pool') /\ CppPool(pool') = Account!Allocate(CppPool(held), sig, seen)
      BY <1>4, <2>2
    <2> QED  BY <2>3, Seen
  <1>5. type \in Account!OptionType
    BY DEF Account!OptionType, OptionType
  <1>6. CASE pool' = EvaluateAndAllocate(pool, sig, bid)
    <2>1. Booked(pool') /\ AsCpp' = Account!Allocate(AsCpp, sig, seen)
      BY <1>3, <1>4, <1>6
    <2>2. seen \in [AsCpp.active -> Bids]
      BY <1>1, <1>3
    <2> QED  BY <1>5, <2>1, <2>2 DEF Account!Trade
  <1>7. CASE pool' = EvaluateAndAllocate(Close(pool, out, bid), sig, bid)
    <2>1. PICK C : C = Image(cpp, out)
      OBVIOUS
    <2>2. /\ Booked(Close(pool, out, bid)) /\ Close(pool, out, bid).active = pool.active \ out
          /\ CppPool(Close(pool, out, bid)) = Account!CloseAll(AsCpp, C, seen)
      BY <1>1, <1>3, <2>1, CloseReplica
    <2>3. Booked(pool') /\ AsCpp' = Account!Allocate(Account!CloseAll(AsCpp, C, seen), sig, seen)
      BY <1>4, <1>7, <2>2
    <2>4. seen \in [AsCpp.active -> Bids] /\ C \in SUBSET AsCpp.active
      BY <1>1, <1>3, <2>1 DEF Image
    <2> QED  BY <1>5, <2>3, <2>4 DEF Account!Trade
  <1> QED  BY <1>6, <1>7

\* A purchase of the box or Dalton model.
LEMMA BuysReplica ==
  ASSUME Booked(pool), NEW model \in Models, NEW type \in OptionType, Buys(model, type)
  PROVE  Booked(pool') /\ Account!Trade
  <1>1. PICK strike \in Strikes, ask \in Asks, bid \in Prices :
          pool' = EvaluateAndAllocate(pool, [model |-> model, type |-> type,
                                             strike |-> strike, ask |-> ask], bid)
    BY DEF Buys
  <1>2. PICK sig : sig = [model |-> model, type |-> type, strike |-> strike, ask |-> ask]
    OBVIOUS
  <1>3. pool' = EvaluateAndAllocate(pool, sig, bid)
    BY <1>1, <1>2
  <1>4. {} \in SUBSET pool.active
    OBVIOUS
  <1> QED  BY <1>2, <1>3, <1>4, TradeReplica

\* Judging some of a book whose bars have been counted.
LEMMA JudgedReplica ==
  ASSUME Booked(pool), NEW held, held = Older(pool.active), NEW judged \in SUBSET held.active,
         Judged(held, judged)
  PROVE  Booked(pool') /\ Account!Judge
  <1>1. PICK exits \in SUBSET judged, banks \in SUBSET judged, bid \in [held.active -> Bids] :
          /\ exits \cap banks = {}
          /\ \A p \in banks : p.model = Poc /\ ~p.t1
          /\ pool' = Close(Bank(held, banks, bid), exits, bid)
    BY DEF Judged
  <1>2. /\ exits \in SUBSET held.active /\ banks \in SUBSET (held.active \ exits)
        /\ \A p \in banks : ~p.t1
    BY <1>1
  <1>3. pool.active \in SUBSET pool.active
    OBVIOUS
  <1> QED  BY <1>1, <1>2, <1>3, JudgeReplica

LEMMA StepOfAccount ==
  ASSUME Inv, Booked(pool), [Next]_vars
  PROVE  Booked(pool') /\ [Account!AccountNext]_AsCpp
  <1>1. CASE pool' = pool
    <2>1. Booked(pool') /\ AsCpp' = AsCpp
      BY <1>1, Seen
    <2> QED  BY <2>1
  <1>2. CASE Restart
    <2>1. Booked(pool') /\ AsCpp' = Account!EmptyPool
      BY <1>2, EmptyBooked, Seen DEF Restart
    <2> QED  BY <2>1 DEF Account!AccountNext, Account!Forget
  <1>3. CASE ExecutePending /\ pending.type # NoSignal
    <2>1. PICK bid \in Prices, strike \in Strikes, ask \in Asks :
            pool' = EvaluateAndAllocate(
                        Close(pool, Reversed, bid),
                        [model |-> Poc, type |-> pending.type,
                         strike |-> strike, ask |-> ask], bid)
      BY <1>3 DEF ExecutePending
    <2>2. PICK sig : sig = [model |-> Poc, type |-> pending.type, strike |-> strike, ask |-> ask]
      OBVIOUS
    <2>3. Poc \in Models /\ pending.type \in OptionType /\ Reversed \in SUBSET pool.active
      BY <1>3, TriModelAssumption DEF Inv, Reversed
    <2>4. pool' = EvaluateAndAllocate(Close(pool, Reversed, bid), sig, bid)
      BY <2>1, <2>2
    <2>5. Booked(pool') /\ Account!Trade
      BY <2>2, <2>3, <2>4, TradeReplica
    <2> QED  BY <2>5 DEF Account!AccountNext
  <1>4. CASE PendingFails
    <2>1. PICK done \in 0..pool.counter, bid \in Prices :
            pool' = Close(pool, {p \in Reversed : p.id <= done}, bid)
      BY <1>4 DEF PendingFails
    <2>2. PICK exits \in SUBSET pool.active : pool' = Close(pool, exits, bid)
      BY <2>1 DEF Reversed
    <2>3. PICK older : older = {}
      OBVIOUS
    <2>4. Older(older) = pool /\ Bank(pool, {}, bid) = pool
      BY <2>3, NoneOlder, Nothing
    <2>5. bid \in [pool.active -> Bids] /\ {} \in SUBSET (pool.active \ exits) /\ \A p \in {} : ~p.t1
      BY DEF Prices
    <2>6. older \in SUBSET pool.active /\ pool' = Close(Bank(pool, {}, bid), exits, bid)
      BY <2>2, <2>3, <2>4
    <2>7. Booked(pool') /\ Account!Judge
      BY <2>4, <2>5, <2>6, JudgeReplica
    <2> QED  BY <2>7 DEF Account!AccountNext
  <1>5. CASE CheckExits
    <2>1. PICK held : held = Older(pool.active)
      OBVIOUS
    <2>2. Judged(held, held.active)
      BY <1>5, <2>1 DEF CheckExits
    <2>3. Booked(pool') /\ Account!Judge
      BY <2>1, <2>2, JudgedReplica
    <2> QED  BY <2>3 DEF Account!AccountNext
  <1>6. CASE ExitsFail
    <2>1. PICK held : held = Older(pool.active)
      OBVIOUS
    <2>2. PICK done \in 0..pool.counter - 1 :
            \/ pool' = Older({p \in pool.active : p.id <= done})
            \/ Judged(held, {p \in held.active : p.id <= done})
      BY <1>6, <2>1 DEF ExitsFail
    <2>3. CASE pool' = Older({p \in pool.active : p.id <= done})
      <3>1. PICK older \in SUBSET pool.active : pool' = Older(older)
        BY <2>3
      <3>2. PICK next : next = Older(older)
        OBVIOUS
      <3>3. PICK bid : bid \in [next.active -> Bids]
        <4>1. PICK b : b \in Bids
          BY TriModelAssumption
        <4>2. [p \in next.active |-> b] \in [next.active -> Bids]
          BY <4>1
        <4> QED  BY <4>2
      <3>4. Booked(next)
        BY <3>2, OlderReplica
      <3>5. Close(Bank(next, {}, bid), {}, bid) = next
        BY <3>4, Nothing
      <3>6. {} \in SUBSET next.active /\ {} \in SUBSET (next.active \ {}) /\ \A p \in {} : ~p.t1
        OBVIOUS
      <3>7. pool' = Close(Bank(next, {}, bid), {}, bid)
        BY <3>1, <3>2, <3>5
      <3>8. Booked(pool') /\ Account!Judge
        BY <3>2, <3>3, <3>6, <3>7, JudgeReplica
      <3> QED  BY <3>8 DEF Account!AccountNext
    <2>4. CASE Judged(held, {p \in held.active : p.id <= done})
      <3>1. PICK judged \in SUBSET held.active : Judged(held, judged)
        BY <2>4
      <3>2. Booked(pool') /\ Account!Judge
        BY <2>1, <3>1, JudgedReplica
      <3> QED  BY <3>2 DEF Account!AccountNext
    <2> QED  BY <2>2, <2>3, <2>4
  <1>7. ASSUME NEW model \in {Box, Dalton}, NEW type \in OptionType, Buys(model, type)
        PROVE  Booked(pool') /\ [Account!AccountNext]_AsCpp
    <2>1. model \in Models
      BY TriModelAssumption
    <2>2. Booked(pool') /\ Account!Trade
      BY <1>7, <2>1, BuysReplica
    <2> QED  BY <2>2 DEF Account!AccountNext
  <1>8. \/ pool' = pool \/ Restart
        \/ ExecutePending /\ pending.type # NoSignal
        \/ PendingFails \/ CheckExits \/ ExitsFail
        \/ \E model \in {Box, Dalton}, type \in OptionType : Buys(model, type)
    <2>1. EvaluateBox => pool' = pool \/ \E type \in OptionType : Buys(Box, type)
      BY DEF EvaluateBox, BoxMayEnter
    <2>2. EvaluateDalton => pool' = pool \/ \E type \in OptionType : Buys(Dalton, type)
      BY DEF EvaluateDalton
    <2>3. ExecutePending /\ pending.type = NoSignal => pool' = pool
      BY DEF ExecutePending
    <2>4. Look \/ EvaluatePoc \/ BoxFails \/ DaltonFails \/ UNCHANGED vars => pool' = pool
      BY DEF Look, EvaluatePoc, BoxFails, DaltonFails, vars
    <2> QED  BY <2>1, <2>2, <2>3, <2>4 DEF Next
  <1> QED  BY <1>1, <1>2, <1>3, <1>4, <1>5, <1>6, <1>7, <1>8

\* The twin replicates the C++ pool (tri_model_python_engine.py:73): whatever a
\* look, a failed look or a restart does to its book is what the C++ pool would
\* do, although the twin adjusts margins and remaining lots by hand (lines
\* 189-238) where the C++ pool works them out.
THEOREM ReplicatesCpp == Spec => ReplicaOfCpp
  <1>1. Init => Inv /\ Booked(pool) /\ Account!AccountInit
    BY InitInv, EmptyBooked, Seen DEF Init, Account!AccountInit
  <1>2. Inv /\ Booked(pool) /\ [Next]_vars => (Inv /\ Booked(pool))' /\ [Account!AccountNext]_AsCpp
    <2> SUFFICES ASSUME Inv, Booked(pool), [Next]_vars
                 PROVE  (Inv /\ Booked(pool))' /\ [Account!AccountNext]_AsCpp
      OBVIOUS
    <2>1. Inv'
      BY NextInv
    <2>2. Booked(pool') /\ [Account!AccountNext]_AsCpp
      BY StepOfAccount
    <2> QED  BY <2>1, <2>2
  <1> QED  BY <1>1, <1>2, PTL DEF Spec, ReplicaOfCpp, Account!AccountSpec
=============================================================================
