---------------------------- MODULE FeedWatchdog ----------------------------
(***************************************************************************)
(* The collector's feed connection (collector/src/main.cpp): the thread    *)
(* that connects, subscribes, reads and reconnects, and the watchdog       *)
(* thread that cuts a connection that has been silent for three seconds    *)
(* of market hours.  They share four atomics; one action per access.       *)
(*                                                                         *)
(* The websocket object is a local of one loop iteration, so m_active_     *)
(* socket may outlive it: a pointer is "live" while its object exists and  *)
(* "stale" afterwards.  Closing through a stale pointer is undefined: it   *)
(* may do nothing, reach the object that has taken the slot, or crash.     *)
(***************************************************************************)
EXTENDS Integers

CONSTANTS
    Limit,          \* silence that triggers the watchdog (3,000 ms), in clock steps
    MaxAttempts     \* m_max_reconnect_attempts

ASSUME FeedAssumption == Limit \in Nat \ {0} /\ MaxAttempts \in Nat \ {0}

VARIABLES
    rpc,        \* where the reader thread stands
    ws,         \* its websocket: "none", "open" or "closed"
    dead,       \* the peer will never send on this connection again
    attempts,   \* m_reconnect_attempts
    active,     \* m_active_socket
    connected,  \* m_is_connected
    triggered,  \* m_watchdog_triggered
    age,        \* time since m_last_msg_time_ms, up to Limit
    wpc,        \* where the watchdog thread stands
    seen,       \* time since the last_msg it loaded, after the test since its now
    held,       \* the pointer it took out of m_active_socket
    market,     \* weekday between 09:15 and 15:30
    told        \* history: the watchdog raised its trigger while the reader was reading

readerVars == <<rpc, ws, dead, attempts>>
sharedVars == <<active, connected, triggered, age>>
watchdogVars == <<wpc, seen, held>>
feedVars == <<readerVars, sharedVars, watchdogVars, market, told>>

\* "connect": authorize, connect, handshakes, subscribe (330-489); "publish",
\* "stamp", "raise", "clear": before each of the four stores that follow
\* (491-498); "read", "process": in ws.read and process_message; "lower",
\* "forget", "ask": before the three accesses of the handler (516-519).
ReaderLabels == {"connect", "publish", "stamp", "raise", "clear", "read", "process",
                 "lower", "forget", "ask", "backoff", "exited"}

\* "poll": the sleep and the load of m_is_connected; "load", "judge": the load
\* of m_last_msg_time_ms and the test; then the trigger's five steps.
WatchdogLabels == {"poll", "load", "judge", "trigger", "drop", "take", "close", "restamp"}

Pointer == {"null", "live", "stale"}

FeedTypeOK ==
    /\ rpc \in ReaderLabels
    /\ ws \in {"none", "open", "closed"}
    /\ dead \in BOOLEAN
    /\ attempts \in 0..MaxAttempts
    /\ active \in Pointer
    /\ connected \in BOOLEAN
    /\ triggered \in BOOLEAN
    /\ age \in 0..Limit
    /\ wpc \in WatchdogLabels
    /\ seen \in 0..Limit
    /\ held \in Pointer
    /\ market \in BOOLEAN
    /\ told \in BOOLEAN

FeedInit ==
    /\ rpc = "connect"
    /\ ws = "none"
    /\ dead = FALSE
    /\ attempts = 0
    /\ active = "null"
    /\ connected = FALSE
    /\ triggered = FALSE
    /\ age = Limit
    /\ wpc = "poll"
    /\ seen = 0
    /\ held = "null"
    /\ market \in BOOLEAN
    /\ told = FALSE

-----------------------------------------------------------------------------
(* The reader thread *)

\* Authorization, connect, handshakes and subscription all succeed.
Connect ==
    /\ rpc = "connect"
    /\ rpc' = "publish"
    /\ ws' = "open"
    /\ dead' = FALSE
    /\ attempts' = 0
    /\ told' = FALSE
    /\ UNCHANGED <<sharedVars, watchdogVars, market>>

\* One of them throws; the count is already reset when it is the subscription.
ConnectFails ==
    /\ rpc = "connect"
    /\ rpc' = "lower"
    /\ attempts' \in {attempts, 0}
    /\ told' = FALSE
    /\ UNCHANGED <<ws, dead, sharedVars, watchdogVars, market>>

\* The four stores that hand the connection to the watchdog, in their order.
Publish ==
    /\ rpc = "publish"
    /\ rpc' = "stamp"
    /\ active' = "live"
    /\ UNCHANGED <<ws, dead, attempts, connected, triggered, age, watchdogVars, market, told>>

Stamp ==
    /\ rpc = "stamp"
    /\ rpc' = "raise"
    /\ age' = 0
    /\ UNCHANGED <<ws, dead, attempts, active, connected, triggered, watchdogVars, market, told>>

\* Mutant: the flag is never raised.
RaiseForgotten ==
    /\ rpc = "raise"
    /\ rpc' = "clear"
    /\ UNCHANGED <<ws, dead, attempts, sharedVars, watchdogVars, market, told>>
Raise ==
    /\ rpc = "raise"
    /\ rpc' = "clear"
    /\ connected' = TRUE
    /\ UNCHANGED <<ws, dead, attempts, active, triggered, age, watchdogVars, market, told>>

Clear ==
    /\ rpc = "clear"
    /\ rpc' = "read"
    /\ triggered' = FALSE
    /\ UNCHANGED <<ws, dead, attempts, active, connected, age, watchdogVars, market, told>>

\* ws.read returns a message ...
Read ==
    /\ rpc = "read"
    /\ ws = "open"
    /\ ~dead
    /\ rpc' = "process"
    /\ UNCHANGED <<ws, dead, attempts, sharedVars, watchdogVars, market, told>>

\* ... and process_message stamps its arrival, unless it does not parse.
Process ==
    /\ rpc = "process"
    /\ rpc' = "read"
    /\ age' \in {0, age}
    /\ UNCHANGED <<ws, dead, attempts, active, connected, triggered, watchdogVars, market, told>>

\* An exception leaves the iteration: the websocket is destroyed before the
\* handler runs, and pointers to it dangle.
Dangles(p) == IF p = "live" THEN "stale" ELSE p

Unwind ==
    /\ rpc' = "lower"
    /\ ws' = "none"
    /\ active' = Dangles(active)
    /\ held' = Dangles(held)
    /\ UNCHANGED <<dead, attempts, connected, triggered, age, wpc, seen, market, told>>

\* read throws because the socket was closed under it ...
ReadCut == rpc = "read" /\ ws = "closed" /\ Unwind

\* ... or read or process_message throw for a reason of their own.
ReadFails ==
    /\ (rpc = "read" /\ ws = "open") \/ rpc = "process"
    /\ Unwind

\* The handler lowers the flag, forgets the socket, and asks what happened.
Lower ==
    /\ rpc = "lower"
    /\ rpc' = "forget"
    /\ connected' = FALSE
    /\ UNCHANGED <<ws, dead, attempts, active, triggered, age, watchdogVars, market, told>>

\* Mutant: the handler lowers the trigger together with the socket.
ForgetAll ==
    /\ rpc = "forget"
    /\ rpc' = "ask"
    /\ active' = "null"
    /\ triggered' = FALSE
    /\ UNCHANGED <<ws, dead, attempts, connected, age, watchdogVars, market, told>>
Forget ==
    /\ rpc = "forget"
    /\ rpc' = "ask"
    /\ active' = "null"
    /\ UNCHANGED <<ws, dead, attempts, connected, triggered, age, watchdogVars, market, told>>

GivesUp(n) == n >= MaxAttempts

\* A cut by the watchdog is retried at once and forgives earlier failures;
\* anything else counts, waits 2^n seconds, and in the end gives up.
Ask ==
    /\ rpc = "ask"
    /\ triggered' = FALSE
    /\ IF triggered
       THEN attempts' = 0 /\ rpc' = "connect"
       ELSE /\ attempts' = attempts + 1
            /\ rpc' = IF GivesUp(attempts') THEN "exited" ELSE "backoff"
    /\ UNCHANGED <<ws, dead, active, connected, age, watchdogVars, market, told>>

Backoff ==
    /\ rpc = "backoff"
    /\ rpc' = "connect"
    /\ UNCHANGED <<ws, dead, attempts, sharedVars, watchdogVars, market, told>>

-----------------------------------------------------------------------------
(* The watchdog thread *)

WatchdogStep(from, to) ==
    /\ wpc = from
    /\ wpc' = to
    /\ UNCHANGED <<rpc, dead, attempts, market>>

Poll ==
    /\ connected
    /\ WatchdogStep("poll", "load")
    /\ UNCHANGED <<ws, sharedVars, seen, held, told>>

Load ==
    /\ WatchdogStep("load", "judge")
    /\ seen' = age
    /\ UNCHANGED <<ws, sharedVars, held, told>>

\* The clock is read after the stamp was loaded.
Silent == market /\ seen >= Limit

Judge ==
    /\ WatchdogStep("judge", IF Silent THEN "trigger" ELSE "poll")
    /\ seen' = 0
    /\ UNCHANGED <<ws, sharedVars, held, told>>

Trigger ==
    /\ WatchdogStep("trigger", "drop")
    /\ triggered' = TRUE
    /\ told' = (told \/ rpc \in {"read", "process"})
    /\ UNCHANGED <<ws, active, connected, age, seen, held>>

Drop ==
    /\ WatchdogStep("drop", "take")
    /\ connected' = FALSE
    /\ UNCHANGED <<ws, active, triggered, age, seen, held, told>>

Take ==
    /\ WatchdogStep("take", "close")
    /\ held' = active
    /\ active' = "null"
    /\ UNCHANGED <<ws, connected, triggered, age, seen, told>>

\* What cancel, shutdown and close do to the reader's websocket.
CutsOpen == ws = "open" /\ ws' = "closed"
CutsNone == UNCHANGED ws

Close ==
    /\ WatchdogStep("close", "restamp")
    /\ held' = "null"
    /\ \/ held # "null" /\ CutsOpen
       \/ (held = "live" => ws # "open") /\ CutsNone
    /\ UNCHANGED <<sharedVars, seen, told>>

\* m_last_msg_time_ms is set back to the instant of the test, even if the
\* reader has stamped a later one meanwhile.
\* Mutant: m_is_connected is lowered here and not before the socket is taken.
RestampDrops ==
    /\ WatchdogStep("restamp", "poll")
    /\ age' = seen
    /\ connected' = FALSE
    /\ UNCHANGED <<ws, active, triggered, seen, held, told>>
Restamp ==
    /\ WatchdogStep("restamp", "poll")
    /\ age' = seen
    /\ UNCHANGED <<ws, active, connected, triggered, seen, held, told>>

-----------------------------------------------------------------------------
(* The environment *)

Later(n) == IF n < Limit THEN n + 1 ELSE n

\* Time passes.
Tick ==
    /\ age' = Later(age)
    /\ seen' = Later(seen)
    /\ UNCHANGED <<readerVars, active, connected, triggered, wpc, held, market, told>>

\* The peer, or the path to it, dies without a reset.
PeerDies ==
    /\ ws = "open"
    /\ dead' = TRUE
    /\ UNCHANGED <<rpc, ws, attempts, sharedVars, watchdogVars, market, told>>

MarketOpensOrCloses ==
    /\ market' = ~market
    /\ UNCHANGED <<readerVars, sharedVars, watchdogVars, told>>

Reader ==
    \/ Connect \/ ConnectFails
    \/ Publish \/ Stamp \/ Raise \/ Clear
    \/ Process \/ ReadCut
    \/ Lower \/ Forget \/ Ask \/ Backoff

Network == Read \/ ReadFails \/ PeerDies

Watchdog == Poll \/ Load \/ Judge \/ Trigger \/ Drop \/ Take \/ Close \/ Restamp

FeedNext == Reader \/ Network \/ Watchdog \/ Tick \/ MarketOpensOrCloses

FeedSpec == FeedInit /\ [][FeedNext]_feedVars

\* Both threads run and time passes; what the network does is not assumed.
FairFeedSpec == FeedSpec /\ WF_feedVars(Reader) /\ WF_feedVars(Watchdog) /\ WF_feedVars(Tick)

-----------------------------------------------------------------------------
\* The reader never sits in read on an open connection that the watchdog no
\* longer looks at: when m_is_connected is FALSE there, the watchdog is about
\* to close exactly that connection.  This is what the order of the stores on
\* both sides is for.
NeverUnwatched ==
    rpc \in {"clear", "read", "process"} /\ ws = "open" /\ ~connected =>
        \/ wpc = "take" /\ active = "live"
        \/ wpc = "close" /\ held = "live"

\* A trigger raised while the reader reads is answered by a reconnect at once,
\* whatever else happens to the connection meanwhile ("3-second watchdog
\* triggered immediate reconnect", main.cpp:521).  One raised just before, while
\* the reader is still between m_is_connected and its own store, is lost.
ToldReconnects == told => rpc \notin {"backoff", "exited"}

\* While the market stays open, a reader whose peer died without a reset does
\* not stay in read forever.
GapIsBroken ==
    <>[]market => ((rpc = "read" /\ dead) ~> (rpc # "read"))
=============================================================================
