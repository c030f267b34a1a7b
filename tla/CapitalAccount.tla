--------------------------- MODULE CapitalAccount ---------------------------
(***************************************************************************)
(* What an engine may do with the account of the forward tester, whichever *)
(* engine and whatever made it act: let one signal in, after closing some  *)
(* positions, or judge the positions it holds.  The account itself is the  *)
(* C++ pool, collector/src/fifo_pool.cpp.  Nothing else moves a position   *)
(* or a rupee.                                                             *)
(***************************************************************************)
EXTENDS FifoPool

CONSTANTS
    Asks, Bids,   \* option prices when buying and when selling
    BoxHold       \* bars_held is counted up to this many bars

VARIABLE pool

\* A signal is allocated or refused, at once or after some positions have been
\* closed.
Trade ==
    \E model \in Models, type \in OptionType, strike \in Strikes, ask \in Asks :
    LET sig == [model |-> model, type |-> type, strike |-> strike, ask |-> ask] IN
    \E bid \in [pool.active -> Bids] :
        \/ pool' = Allocate(pool, sig, bid)
        \/ \E out \in SUBSET pool.active :
              pool' = Allocate(CloseAll(pool, out, bid), sig, bid)

\* Some positions have been held a bar longer.
Aged(older) ==
    [pool EXCEPT !.active =
        (@ \ older) \cup {[p EXCEPT !.bars = Min({@ + 1, BoxHold})] : p \in older}]

Held(S) == {<<p.id, p.bars>> : p \in S}

\* Nothing is bought; what stays is what was held, no more than a bar older.
\* Of the positions that stay, some bank a lot they have not banked before.
Judge ==
    /\ pool'.counter = pool.counter
    /\ \E older \in SUBSET pool.active :
       LET held == Aged(older) IN
       \E exits \in SUBSET held.active :
         /\ Held(pool'.active) = Held(held.active \ exits)
         /\ \E banks \in SUBSET (held.active \ exits), bid \in [held.active -> Bids] :
              /\ \A p \in banks : ~p.t1
              /\ pool' = CloseAll(BankAll(held, banks, bid), exits, bid)

\* The engine's process starts again, and with it the account.
Forget == pool' = EmptyPool

AccountInit == pool = EmptyPool
AccountNext == Judge \/ Forget \/ Trade
AccountSpec == AccountInit /\ [][AccountNext]_pool
=============================================================================
