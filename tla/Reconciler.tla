----------------------------- MODULE Reconciler -----------------------------
(***************************************************************************)
(* The standalone reconciler (reconciler.py).  For every closed minute it  *)
(* is told of, a worker thread asks the broker for the official candle,    *)
(* compares it with the one in Redis, overwrites it if they differ, and    *)
(* then recomputes the parent candle from the 1m candles around it.  Every *)
(* access to Redis is a step of its own; the workers and the collector     *)
(* run between them.                                                       *)
(*                                                                         *)
(* The back-off and retries of a request are one step that ends with an    *)
(* answer or gives up.  Messages for a minute whose job is running wait    *)
(* for it: two such jobs would ask and write the same.                     *)
(***************************************************************************)
EXTENDS CandleBook

CONSTANTS
    MaxGiveUps,     \* bound on requests that end without an answer
    MaxBoots        \* bound on restarts of the reconciler

VARIABLES
    jobs,       \* the worker that handles (minute, origin)
    listening,  \* subscribed to md:reco:trigger
    booting,    \* between the catch-up scan and the subscription
    giveUps, boots

reconciler == <<jobs, listening, booting, giveUps, boots>>

ASSUME WorkerAssumption == MaxGiveUps \in Nat /\ MaxBoots \in Nat

\* A minute is reconciled because it was announced, or by the boot-time scan.
Origin == {"trigger", "catchup"}
JobId  == Minute \X Origin
JobAt  == {"none", "ask", "compare", "stamp", "heal", "gather", "store",
           "done", "failed"}
Job    == [at : JobAt, ticks : SUBSET Tick, vol : Nat]

NoJob == [at |-> "none", ticks |-> {}, vol |-> 0]

ReconcilerInit ==
    /\ inbox = {}
    /\ jobs = [j \in JobId |-> NoJob]
    /\ listening = TRUE
    /\ booting = FALSE
    /\ giveUps = 0 /\ boots = 0

Ended(j) == jobs[j].at \in {"none", "done", "failed"}

\* Job j moves to step at, holding ticks and vol.
Moves(j, at, ticks, vol) ==
    jobs' = [jobs EXCEPT ![j] = [at |-> at, ticks |-> ticks, vol |-> vol]]

-----------------------------------------------------------------------------
\* process_item.  wait_sync measures from the start of the candle, which is a
\* minute ago: it does not wait.
Take(m) ==
    /\ listening
    /\ m \in inbox
    /\ Ended(<<m, "trigger">>)
    /\ inbox' = inbox \ {m}
    /\ Moves(<<m, "trigger">>, "ask", {}, 0)
    /\ UNCHANGED <<redis, traded, listening, booting, giveUps, boots>>

\* The broker answers with what has traded by now.  It may not answer, or not
\* know the minute yet, for as long as the worker asks.
Ask(j) ==
    /\ jobs[j].at = "ask"
    /\ \/ LET answer == Reported(j[1], traded) IN
          /\ answer # {}
          /\ Moves(j, "compare", answer, Cardinality(answer))
          /\ UNCHANGED giveUps
       \/ /\ giveUps < MaxGiveUps
          /\ giveUps' = giveUps + 1
          /\ Moves(j, "failed", {}, 0)
    /\ UNCHANGED <<redis, inbox, traded, listening, booting, boots>>

\* Mutant: a difference in volume alone is not a discrepancy.
AgreesOnPrice(hash, job) == hash.opened /\ hash.ticks = job.ticks

\* Is the candle in Redis the official one?
Agrees(hash, job) ==
    hash.opened /\ hash.ticks = job.ticks /\ hash.vol = job.vol

Compare(j) ==
    /\ jobs[j].at = "compare"
    /\ Moves(j, IF Agrees(minutes[j[1]], jobs[j]) THEN "stamp" ELSE "heal",
             jobs[j].ticks, jobs[j].vol)
    /\ UNCHANGED <<redis, inbox, traded, listening, booting, giveUps, boots>>

\* No discrepancy: only the status is written, and no parent.
Stamp(j) ==
    /\ jobs[j].at = "stamp"
    /\ minutes' = [minutes EXCEPT ![j[1]].status = "reconciled"]
    /\ Moves(j, "done", {}, 0)
    /\ UNCHANGED <<parents, inbox, traded, listening, booting, giveUps, boots>>

Heal(j) ==
    /\ jobs[j].at = "heal"
    /\ minutes' = [minutes EXCEPT ![j[1]] =
                      [ticks |-> jobs[j].ticks, vol |-> jobs[j].vol,
                       opened |-> TRUE, status |-> "reconciled"]]
    /\ Moves(j, "gather", {}, 0)
    /\ UNCHANGED <<parents, inbox, traded, listening, booting, giveUps, boots>>

\* propagate_parent_recalculations reads the 1m candles in one transaction; a
\* hash without an open field raises and ends the job.
Gather(j) ==
    LET siblings == {m \in MinutesIn(ParentOf(j[1])) : minutes[m] # Absent}
    IN  /\ jobs[j].at = "gather"
        /\ IF \E m \in siblings : ~minutes[m].opened
           THEN Moves(j, "failed", {}, 0)
           ELSE Moves(j, "store", UNION {minutes[m].ticks : m \in siblings},
                      MapThenSumSet(LAMBDA m : minutes[m].vol, siblings))
        /\ UNCHANGED <<redis, inbox, traded, listening, booting, giveUps, boots>>

\* ... and writes the parent in another.
Store(j) ==
    /\ jobs[j].at = "store"
    /\ parents' = [parents EXCEPT ![ParentOf(j[1])] =
                      [ticks |-> jobs[j].ticks, vol |-> jobs[j].vol,
                       opened |-> TRUE, status |-> "reconciled"]]
    /\ Moves(j, "done", {}, 0)
    /\ UNCHANGED <<minutes, inbox, traded, listening, booting, giveUps, boots>>

Work(j) ==
    Ask(j) \/ Compare(j) \/ Stamp(j) \/ Heal(j) \/ Gather(j) \/ Store(j)

-----------------------------------------------------------------------------
\* The process dies: its workers, and the messages it was sent, are gone.
Die ==
    /\ boots < MaxBoots
    /\ boots' = boots + 1
    /\ jobs' = [j \in JobId |-> NoJob]
    /\ inbox' = {}
    /\ listening' = FALSE
    /\ booting' = FALSE
    /\ UNCHANGED <<redis, traded, giveUps>>

\* run_catchup: the indexed candles of the last two minutes that are live, the
\* one still forming included.
CatchUp ==
    /\ ~listening /\ ~booting
    /\ booting' = TRUE
    /\ LET clock == IF traded = 0 THEN 0 ELSE MinuteOf[traded]
       IN  jobs' = [j \in JobId |->
              IF /\ j[2] = "catchup" /\ j[1] \in (clock - 1)..clock
                 /\ minutes[j[1]].opened /\ minutes[j[1]].status = "live"
              THEN [at |-> "ask", ticks |-> {}, vol |-> 0] ELSE jobs[j]]
    /\ UNCHANGED <<redis, inbox, traded, listening, giveUps, boots>>

Subscribe ==
    /\ booting
    /\ booting' = FALSE
    /\ listening' = TRUE
    /\ UNCHANGED <<redis, inbox, traded, jobs, giveUps, boots>>

ReconcilerNext ==
    \/ \E m \in Minute : Take(m)
    \/ \E j \in JobId : Work(j)
    \/ Die \/ CatchUp \/ Subscribe
=============================================================================
