---------------------------- MODULE CandleHealing ----------------------------
(***************************************************************************)
(* The candles of one instrument under the two processes that write them:  *)
(* the collector, which builds them from ticks, and the reconciler, which  *)
(* corrects them from the broker.  They share the hashes in Redis and one  *)
(* publish/subscribe channel.                                              *)
(***************************************************************************)
EXTENDS CandleManager, Reconciler

vars == <<redis, traded, inbox, manager, reconciler>>

Init == ManagerInit /\ ReconcilerInit

Collector  == ManagerNext(listening) /\ UNCHANGED reconciler
Correction == ReconcilerNext /\ UNCHANGED manager

Next == Collector \/ Correction

Spec == Init /\ [][Next]_vars

\* The reconciler runs: a process that is up takes messages, its worker
\* threads get their turn, and one that was restarted subscribes.
FairSpec ==
    /\ Spec
    /\ \A m \in Minute : WF_vars(Take(m) /\ UNCHANGED manager)
    /\ \A j \in JobId : WF_vars(Work(j) /\ UNCHANGED manager)
    /\ WF_vars((CatchUp \/ Subscribe) /\ UNCHANGED manager)

-----------------------------------------------------------------------------
\* Types of both processes' state and of the hashes they share.
TypeOK ==
    /\ minutes \in [Minute -> Candle] /\ parents \in [Parent -> Candle]
    /\ traded \in 0..NTicks /\ quote \in 0..NTicks
    /\ inbox \subseteq Minute /\ delayed \subseteq Tick
    /\ todo \in Seq(Step)
    /\ tick \in 0..NTicks /\ inc \in Nat /\ lastVol \in 0..NTicks
    /\ minuteNow.at \in {-1} \cup Minute /\ parentNow.at \in {-1} \cup Parent
    /\ jobs \in [JobId -> Job]
    /\ listening \in BOOLEAN /\ booting \in BOOLEAN

\* However ticks, corrections and restarts interleave, a candle is made of
\* ticks of its own interval: nothing of one interval shows in another, in
\* the 1m candles or in those recomputed from them.
OwnTicksOnly ==
    /\ \A m \in Minute : minutes[m].ticks \subseteq TicksOf(m)
    /\ \A p \in Parent : parents[p].ticks \subseteq TicksIn(p)

\* The reconciler only ever works on minutes that have an indexed candle: its
\* own write (reconciler.py:320) does not add to the index, so a minute
\* announced without one would be healed where no chart or restart finds it.
WorksOnIndexed ==
    /\ \A m \in inbox : minutes[m].opened
    /\ \A j \in JobId : jobs[j].at # "none" => minutes[j[1]].opened

Official(m) ==
    /\ minutes[m].ticks = TicksOf(m)
    /\ minutes[m].vol = Cardinality(TicksOf(m))

\* A minute whose announced job ran to its end holds the official candle,
\* whatever the collector wrote or lost before, and stays official while the
\* collector restarts and later minutes trade.
HealedStaysOfficial ==
    \A m \in Minute : jobs[<<m, "trigger">>].at = "done" => Official(m)

\* An announced minute is official in the end and remains so.
AnnouncedIsHealed ==
    \A m \in Minute : m \in inbox ~> []Official(m)
=============================================================================
