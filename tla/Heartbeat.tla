----------------------------- MODULE Heartbeat ------------------------------
(***************************************************************************)
(* The heartbeats of one control connection, with a clock: the client's    *)
(* ClientModel.heartbeat and control loop (client/model.go), and lastPing  *)
(* with the reap ticker of Control.manager (server/control.go).            *)
(*                                                                         *)
(* Time passes in ticks, only when everything that is due has been done; a *)
(* goroutine is not delayed by a whole tick.  A message arrives within     *)
(* Delay ticks, the time for which its receiver is busy included, or never *)
(* once the network is dead.  Each time stamp is kept as its age.          *)
(***************************************************************************)
EXTENDS Naturals

CONSTANTS
    PingInterval,      \* the client's pingInterval
    MaxPongLatency,    \* the client's maxPongLatency
    PingTimeout,       \* the server's pingTimeoutInterval
    ReapInterval,      \* the server's connReapInterval
    Delay,             \* bound: how long a message takes
    MaxReplacedWait,   \* bound: how long NewControl waits for the control it replaces
    Preempted,         \* whether a pong may come between a ping and its time stamp
    None

ASSUME HeartbeatAssumption ==
    /\ PingInterval \in Nat \ {0} /\ ReapInterval \in Nat \ {0}
    /\ MaxPongLatency \in Nat /\ PingTimeout \in Nat
    /\ Delay \in Nat /\ MaxReplacedWait \in 0..PingTimeout
    /\ Preempted \in BOOLEAN
    /\ None \notin Nat

\* a ping is answered, or taken for lost, before the next one
ASSUME LatencyAssumption == MaxPongLatency + 1 < PingInterval

VARIABLES
    server,      \* NewControl waiting, then manager; how the control ended
    client,      \* control() waiting for the AuthResp, then heartbeat; how it ended
    net,         \* whether messages still arrive
    flight,      \* how long the messages have been on their way
    pinged,      \* the server: age of c.lastPing
    reaper,      \* the server: time since the reap ticker's last tick
    pinger,      \* the client: time since the ping ticker's last tick
    checking,    \* the client: the pongCheck ticker has ticked
    needPong,    \* the client: lastPong is before lastPing
    lastPing,    \* the client: age of lastPing, None while it lies in the future
    silent       \* observed: for how long the network has been dead

vars == <<server, client, net, flight, pinged, reaper, pinger, checking, needPong, lastPing, silent>>

\* a fin is what the other end reads after a Close
ToServer == {"ping", "clientFin"}
ToClient == {"auth", "pong", "serverFin"}
Messages == ToServer \cup ToClient

Beating == client \in {"select", "wrote"}
Watched == server \in {"wait", "serving"}
Hears(m) == IF m \in ToServer THEN Watched ELSE client = "hello" \/ Beating

TypeOK ==
    /\ server \in {"wait", "serving", "reaped", "ended"}
    /\ client \in {"hello", "select", "wrote", "stale", "ended"}
    /\ net \in {"ok", "dead"}
    /\ flight \in [Messages -> 0..Delay \cup {None}]
    /\ pinged \in 0..PingTimeout + ReapInterval
    /\ reaper \in 0..ReapInterval
    /\ pinger \in 0..PingInterval
    /\ checking \in BOOLEAN /\ needPong \in BOOLEAN
    /\ lastPing \in 0..PingInterval \cup {None}
    /\ silent \in Nat

Init ==
    /\ server = "wait" /\ client = "hello" /\ net = "ok"
    /\ flight = [m \in Messages |-> None]
    /\ pinged = 0 /\ reaper = 0 /\ pinger = 0
    /\ checking = FALSE /\ needPong = TRUE /\ lastPing = None
    /\ silent = 0

-----------------------------------------------------------------------------
(***************************************************************************)
(* Messages                                                                *)
(***************************************************************************)
Sent(f, m)   == IF net = "ok" /\ Hears(m) THEN [f EXCEPT ![m] = 0] ELSE f
Arrives(m)   == net = "ok" /\ flight[m] # None
Received(m)  == [flight EXCEPT ![m] = None]

\* one end closes the connection: it hears no more, and tells the other
Closed(mine, fin) == Sent([m \in Messages |-> IF m \in mine THEN None ELSE flight[m]], fin)

\* the client has vanished or a middlebox has dropped the connection: nobody is told
NetDies ==
    /\ net = "ok"
    /\ net' = "dead"
    /\ flight' = [m \in Messages |-> None]
    /\ UNCHANGED <<server, client, pinged, reaper, pinger, checking, needPong, lastPing, silent>>

-----------------------------------------------------------------------------
(***************************************************************************)
(* The server: c.lastPing is set when the control is made, before it waits *)
(* for the control it replaces; the manager starts afterwards.             *)
(***************************************************************************)
ServerStarts ==
    /\ server = "wait"
    /\ server' = "serving"
    /\ reaper' = 0
    /\ flight' = Sent(flight, "auth")
    /\ UNCHANGED <<client, net, pinged, pinger, checking, needPong, lastPing, silent>>

ServerOnPing ==
    /\ server = "serving" /\ Arrives("ping")
    /\ pinged' = 0
    /\ flight' = Sent(Received("ping"), "pong")
    /\ UNCHANGED <<server, client, net, reaper, pinger, checking, needPong, lastPing, silent>>

\* mutant: the comparison is not strict
Overdue_AtTimeout == pinged >= PingTimeout

\* mutant: the client is given another round
Overdue_Late == pinged > PingTimeout + ReapInterval
Overdue == pinged > PingTimeout

ManagerReaps ==
    /\ server = "serving" /\ reaper = ReapInterval
    /\ reaper' = 0
    /\ IF Overdue
       THEN server' = "reaped" /\ flight' = Closed(ToServer, "serverFin")
       ELSE UNCHANGED <<server, flight>>
    /\ UNCHANGED <<client, net, pinged, pinger, checking, needPong, lastPing, silent>>

\* no tunnel could be registered, or a later control replaces this one
ServerEnds ==
    /\ server = "serving"
    /\ server' = "ended"
    /\ flight' = Closed(ToServer, "serverFin")
    /\ UNCHANGED <<client, net, pinged, reaper, pinger, checking, needPong, lastPing, silent>>

\* the client has closed the connection; its pings come first
ServerReadsEof ==
    /\ server = "serving" /\ Arrives("clientFin") /\ flight["ping"] = None
    /\ server' = "ended"
    /\ flight' = Received("clientFin")
    /\ UNCHANGED <<client, net, pinged, reaper, pinger, checking, needPong, lastPing, silent>>

-----------------------------------------------------------------------------
(***************************************************************************)
(* The client: control() has read the AuthResp, sent its requests and      *)
(* started the heartbeat.  The first lastPing takes nanoseconds for        *)
(* seconds and lies far in the future (model.go:414).                      *)
(***************************************************************************)
ClientStarts ==
    /\ client = "hello" /\ Arrives("auth")
    /\ client' = "select"
    /\ pinger' = 0
    /\ needPong' = TRUE /\ lastPing' = None
    /\ flight' = Received("auth")
    /\ UNCHANGED <<server, net, pinged, reaper, checking, silent>>

\* the ping ticker has ticked; a write into a dead connection succeeds
HeartbeatPings ==
    /\ client = "select" /\ pinger = PingInterval
    /\ client' = "wrote"
    /\ pinger' = 0
    /\ flight' = Sent(flight, "ping")
    /\ UNCHANGED <<server, net, pinged, reaper, checking, needPong, lastPing, silent>>

HeartbeatStamps ==
    /\ client = "wrote"
    /\ client' = "select"
    /\ needPong' = TRUE /\ lastPing' = 0
    /\ UNCHANGED <<server, net, flight, pinged, reaper, pinger, checking, silent>>

\* the control loop stores the time of the Pong
ControlOnPong ==
    /\ Beating /\ Arrives("pong")
    /\ client = "wrote" => Preempted
    /\ needPong' = FALSE
    /\ flight' = Received("pong")
    /\ UNCHANGED <<server, client, net, pinged, reaper, pinger, checking, lastPing, silent>>

\* mutant: whether there has been a pong does not matter
Stale_Answered == lastPing # None /\ lastPing > MaxPongLatency

\* mutant: the latency is compared with the interval of the pings
Stale_Interval == needPong /\ lastPing # None /\ lastPing > PingInterval
Stale == needPong /\ lastPing # None /\ lastPing > MaxPongLatency

HeartbeatChecks ==
    /\ client = "select" /\ checking
    /\ checking' = FALSE
    /\ IF Stale
       THEN client' = "stale" /\ flight' = Closed(ToClient, "clientFin")
       ELSE UNCHANGED <<client, flight>>
    /\ UNCHANGED <<server, net, pinged, reaper, pinger, needPong, lastPing, silent>>

\* the control loop has failed, or the program exits
ClientEnds ==
    /\ client = "select"
    /\ client' = "ended"
    /\ flight' = Closed(ToClient, "clientFin")
    /\ UNCHANGED <<server, net, pinged, reaper, pinger, checking, needPong, lastPing, silent>>

\* the server has closed the connection; what it sent before comes first
ControlReadsEof ==
    /\ client = "select" /\ Arrives("serverFin") /\ flight["pong"] = None
    /\ client' = "ended"
    /\ flight' = Received("serverFin")
    /\ UNCHANGED <<server, net, pinged, reaper, pinger, checking, needPong, lastPing, silent>>

-----------------------------------------------------------------------------
(***************************************************************************)
(* The clock                                                               *)
(***************************************************************************)
NothingIsDue ==
    /\ client # "wrote" /\ ~checking
    /\ client = "select" => pinger < PingInterval
    /\ server = "serving" => reaper < ReapInterval
    /\ server = "wait" => pinged < MaxReplacedWait
    /\ \A m \in Messages : flight[m] # Delay

Older(n) == IF n = None THEN None ELSE n + 1

Tick ==
    /\ Beating \/ Watched
    /\ NothingIsDue
    /\ flight' = [m \in Messages |-> Older(flight[m])]
    /\ IF Watched THEN pinged' = pinged + 1 ELSE UNCHANGED pinged
    /\ IF server = "serving" THEN reaper' = reaper + 1 ELSE UNCHANGED reaper
    /\ IF Beating
       THEN pinger' = pinger + 1 /\ lastPing' = Older(lastPing) /\ checking' = TRUE
       ELSE UNCHANGED <<pinger, lastPing, checking>>
    /\ silent' = IF net = "dead" THEN silent + 1 ELSE 0
    /\ UNCHANGED <<server, client, net, needPong>>

Next ==
    \/ NetDies \/ Tick
    \/ ServerStarts \/ ServerOnPing \/ ManagerReaps \/ ServerEnds \/ ServerReadsEof
    \/ ClientStarts \/ HeartbeatPings \/ HeartbeatStamps \/ ControlOnPong
    \/ HeartbeatChecks \/ ClientEnds \/ ControlReadsEof

Spec == Init /\ [][Next]_vars

-----------------------------------------------------------------------------
(***************************************************************************)
(* "Connection stale, haven't gotten PongMsg in %d seconds" (model.go:433) *)
(* is said only of a connection on which nothing arrives any more.         *)
(***************************************************************************)
AnsweredSessionsAreKept == client = "stale" => net = "dead"

(***************************************************************************)
(* The manager takes no client for dead ("Lost heartbeat", control.go:187) *)
(* that sends its pings, however long its control has waited for the one   *)
(* it replaced.                                                            *)
(***************************************************************************)
PingingClientsAreKept == server = "reaped" => net = "dead"

(***************************************************************************)
(* The client notices a server that has fallen silent within one interval  *)
(* between pings and the latency it allows (model.go:426).                 *)
(***************************************************************************)
SilenceEndsTheSession ==
    Beating => silent <= PingInterval + MaxPongLatency + 1

(***************************************************************************)
(* The server notices a client that has vanished within its timeout and    *)
(* one round of the reaper (control.go:186).                               *)
(***************************************************************************)
SilenceEndsTheControl ==
    server = "serving" => silent <= PingTimeout + ReapInterval

-----------------------------------------------------------------------------
(***************************************************************************)
(* What the two bounds rest on.  The server: its time stamp is older than  *)
(* the silence, and beyond the timeout only until the next tick of the     *)
(* reaper.                                                                 *)
(***************************************************************************)
ServerKnowsTheAge ==
    /\ net = "ok" => silent = 0
    /\ Watched => silent <= pinged
    /\ server = "wait" => pinged <= MaxReplacedWait
    /\ server = "serving" => pinged <= PingTimeout + reaper

(***************************************************************************)
(* The client: the silence began after the last ping, or that ping, sent   *)
(* within one interval of its beginning, is still unanswered.              *)
(***************************************************************************)
ClientAwaitsAPong ==
    /\ client = "select" /\ lastPing # None => lastPing = pinger
    /\ client = "wrote" => pinger = 0
    /\ client = "select" /\ needPong /\ lastPing # None =>
           lastPing <= MaxPongLatency + (IF checking THEN 1 ELSE 0)
    /\ net = "dead" /\ client = "wrote" => silent <= PingInterval
    /\ net = "dead" /\ client = "select" =>
           \/ silent <= pinger
           \/ needPong /\ lastPing # None /\ silent <= PingInterval + lastPing

(***************************************************************************)
(* The inductive invariant: the time stamps of both ends (model.go:412,    *)
(* control.go:186) bound the silence that they are compared with.          *)
(***************************************************************************)
IndInv == TypeOK /\ ServerKnowsTheAge /\ ClientAwaitsAPong
=============================================================================
