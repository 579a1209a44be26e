-------------------------- MODULE HeartbeatProofs ---------------------------
(***************************************************************************)
(* Proofs about Heartbeat, for every interval, latency, timeout and delay. *)
(***************************************************************************)
EXTENDS Heartbeat, TLAPS

\* The constants are numbers.
LEMMA Numbers ==
    /\ PingInterval \in Nat /\ ReapInterval \in Nat /\ MaxPongLatency \in Nat
    /\ PingTimeout \in Nat /\ Delay \in Nat /\ MaxReplacedWait \in Nat
    /\ MaxReplacedWait <= PingTimeout /\ MaxPongLatency + 1 < PingInterval
    /\ None \notin Nat
BY HeartbeatAssumption, LatencyAssumption

Flights == [Messages -> 0..Delay \cup {None}]

\* A message that is sent or received, or a Close, keeps the ages of the others.
LEMMA FlightIsTyped ==
    ASSUME TypeOK, NEW m \in Messages, NEW f \in Flights, NEW mine
    PROVE  /\ Sent(f, m) \in Flights
           /\ Received(m) \in Flights
           /\ Closed(mine, m) \in Flights
BY Numbers DEF TypeOK, Sent, Received, Closed, Flights

\* The messages that the actions name.
LEMMA MessageNames ==
    {"auth", "ping", "pong", "serverFin", "clientFin"} \subseteq Messages
BY DEF Messages, ToServer, ToClient

\* What is not due may grow older by one tick.
LEMMA OlderIsTyped ==
    ASSUME NEW max \in Nat, NEW n \in 0..max \cup {None}, n # max
    PROVE  Older(n) \in 0..max \cup {None}
BY Numbers DEF Older

-----------------------------------------------------------------------------
\* The initial state satisfies the invariant.
LEMMA IndInvInit == Init => IndInv
<1> SUFFICES ASSUME Init PROVE IndInv
  OBVIOUS
<1> USE Numbers DEF Init
<1>1. TypeOK
  <2>1. flight \in Flights
    BY DEF Flights
  <2>2. /\ 0 \in 0..PingTimeout + ReapInterval /\ 0 \in 0..ReapInterval
        /\ 0 \in 0..PingInterval /\ 0 \in Nat
    OBVIOUS
  <2> QED BY <2>1, <2>2 DEF TypeOK, Flights
<1>2. ServerKnowsTheAge
  BY DEF ServerKnowsTheAge, Watched
<1>3. ClientAwaitsAPong
  BY DEF ClientAwaitsAPong
<1> QED BY <1>1, <1>2, <1>3 DEF IndInv

\* A tick ages every stamp by one and keeps the invariant: nothing that is due is passed over.
LEMMA IndInvTick == IndInv /\ Tick => IndInv'
<1> SUFFICES ASSUME IndInv, Tick PROVE IndInv'
  OBVIOUS
<1> USE Numbers
<1>1. TypeOK /\ ServerKnowsTheAge /\ ClientAwaitsAPong
  BY DEF IndInv
<1>2. TypeOK'
  <2>1. flight' \in Flights
    BY <1>1, OlderIsTyped DEF Tick, NothingIsDue, TypeOK, Flights
  <2>2. pinged' \in 0..PingTimeout + ReapInterval
    BY <1>1 DEF Tick, NothingIsDue, TypeOK, ServerKnowsTheAge, Watched
  <2>3. reaper' \in 0..ReapInterval
    BY <1>1 DEF Tick, NothingIsDue, TypeOK
  <2>4. pinger' \in 0..PingInterval
    BY <1>1 DEF Tick, NothingIsDue, TypeOK, Beating
  <2>5. lastPing' \in 0..PingInterval \cup {None}
    <3>1. CASE client = "select" /\ lastPing # None
      <4>1. lastPing < PingInterval /\ lastPing \in Nat
        BY <1>1, <3>1 DEF Tick, NothingIsDue, TypeOK, ClientAwaitsAPong
      <4> QED BY <4>1, <3>1 DEF Tick, Beating, Older
    <3> QED BY <1>1, <3>1 DEF Tick, NothingIsDue, TypeOK, Beating, Older
  <2>6. silent' \in Nat
    BY <1>1 DEF Tick, TypeOK
  <2> QED BY <1>1, <2>1, <2>2, <2>3, <2>4, <2>5, <2>6 DEF Tick, TypeOK, Flights
<1>3. ServerKnowsTheAge'
  BY <1>1 DEF Tick, NothingIsDue, TypeOK, ServerKnowsTheAge, Watched
<1>4. ClientAwaitsAPong'
  <2>1. CASE client = "select"
    <3>1. CASE lastPing = None
      BY <1>1, <2>1, <3>1 DEF Tick, NothingIsDue, TypeOK, ClientAwaitsAPong, Beating, Older
    <3>2. CASE lastPing # None
      <4>1. /\ lastPing \in Nat /\ lastPing' = lastPing + 1 /\ pinger' = pinger + 1
            /\ ~checking /\ checking' /\ pinger \in Nat /\ silent \in Nat
            /\ client' = client /\ net' = net /\ needPong' = needPong
            /\ silent' = IF net = "dead" THEN silent + 1 ELSE 0
            /\ lastPing' # None
        BY <1>1, <2>1, <3>2 DEF Tick, NothingIsDue, TypeOK, Beating, Older
      <4>2. /\ lastPing = pinger
            /\ needPong => lastPing <= MaxPongLatency
            /\ net = "dead" => \/ silent <= pinger
                               \/ needPong /\ silent <= PingInterval + lastPing
        BY <1>1, <2>1, <3>2, <4>1 DEF ClientAwaitsAPong
      <4> QED BY <2>1, <4>1, <4>2 DEF ClientAwaitsAPong
    <3> QED BY <3>1, <3>2
  <2>2. CASE client # "select"
    BY <1>1, <2>2 DEF Tick, NothingIsDue, ClientAwaitsAPong
  <2> QED BY <2>1, <2>2
<1> QED BY <1>2, <1>3, <1>4 DEF IndInv

\* Every step keeps the invariant.
LEMMA IndInvNext == IndInv /\ [Next]_vars => IndInv'
<1> SUFFICES ASSUME IndInv, [Next]_vars PROVE IndInv'
  OBVIOUS
<1> USE Numbers
<1>1. CASE UNCHANGED vars
  BY <1>1 DEF vars, IndInv, TypeOK, ServerKnowsTheAge, ClientAwaitsAPong, Watched
<1>2. TypeOK /\ ServerKnowsTheAge /\ ClientAwaitsAPong
  BY DEF IndInv
<1> USE DEF IndInv, ServerKnowsTheAge, ClientAwaitsAPong, Watched
<1>3. CASE NetDies
  BY <1>2, <1>3 DEF NetDies, TypeOK
<1>4. CASE Tick
  BY <1>4, IndInvTick
<1>5. CASE ServerStarts
  <2>1. TypeOK'
    BY <1>2, <1>5, FlightIsTyped, MessageNames DEF Flights, ServerStarts, TypeOK
  <2> QED BY <1>2, <1>5, <2>1 DEF ServerStarts, TypeOK
<1>6. CASE ServerOnPing
  <2>1. TypeOK'
    BY <1>2, <1>6, FlightIsTyped, MessageNames DEF Flights, ServerOnPing, TypeOK
  <2> QED BY <1>2, <1>6, <2>1 DEF ServerOnPing, Arrives, TypeOK
<1>7. CASE ManagerReaps
  <2>1. TypeOK'
    BY <1>2, <1>7, FlightIsTyped, MessageNames DEF Flights, ManagerReaps, TypeOK
  <2> QED BY <1>2, <1>7, <2>1 DEF ManagerReaps, Overdue, TypeOK
<1>8. CASE ServerEnds \/ ServerReadsEof
  <2>1. TypeOK'
    BY <1>2, <1>8, FlightIsTyped, MessageNames DEF Flights, ServerEnds, ServerReadsEof, TypeOK
  <2> QED BY <1>2, <1>8, <2>1 DEF ServerEnds, ServerReadsEof
<1>9. CASE ClientStarts
  <2>1. TypeOK'
    <3>1. flight' \in Flights
      BY <1>2, <1>9, FlightIsTyped, MessageNames DEF ClientStarts, TypeOK, Flights
    <3> QED BY <1>2, <1>9, <3>1 DEF ClientStarts, TypeOK, Flights
  <2> QED BY <1>2, <1>9, <2>1 DEF ClientStarts, Arrives, TypeOK
<1>10. CASE HeartbeatPings
  <2>1. TypeOK'
    BY <1>2, <1>10, FlightIsTyped, MessageNames DEF Flights, HeartbeatPings, TypeOK
  \* a ping that is still unanswered at the next one would have ended the session
  <2>2. net = "dead" => silent <= PingInterval
    BY <1>2, <1>10 DEF HeartbeatPings, TypeOK
  <2> QED BY <1>2, <1>10, <2>1, <2>2 DEF HeartbeatPings, TypeOK
<1>11. CASE HeartbeatStamps
  BY <1>2, <1>11 DEF HeartbeatStamps, TypeOK
<1>12. CASE ControlOnPong
  <2>1. TypeOK'
    BY <1>2, <1>12, FlightIsTyped, MessageNames DEF Flights, ControlOnPong, TypeOK
  <2> QED BY <1>2, <1>12, <2>1 DEF ControlOnPong, Arrives, Beating
<1>13. CASE HeartbeatChecks
  <2>1. TypeOK' /\ ServerKnowsTheAge'
    <3>1. flight' \in Flights
      <4>1. TypeOK /\ flight \in Flights
        BY <1>2 DEF TypeOK, Flights
      <4>2. Closed(ToClient, "clientFin") \in Flights
        BY <4>1, FlightIsTyped, MessageNames
      <4> QED BY <1>13, <4>1, <4>2 DEF HeartbeatChecks
    <3> QED BY <1>2, <1>13, <3>1 DEF HeartbeatChecks, TypeOK, Flights
  <2>2. CASE Stale
    BY <1>2, <1>13, <2>1, <2>2 DEF HeartbeatChecks
  \* the pong has come, or the ping is not yet too old
  <2>3. CASE ~Stale
    <3>1. needPong /\ lastPing # None => lastPing <= MaxPongLatency
      BY <1>2, <2>3 DEF Stale, TypeOK
    <3> QED BY <1>2, <1>13, <2>1, <2>3, <3>1 DEF HeartbeatChecks
  <2> QED BY <2>1, <2>2, <2>3
<1>14. CASE ClientEnds \/ ControlReadsEof
  <2>1. TypeOK'
    BY <1>2, <1>14, FlightIsTyped, MessageNames DEF Flights, ClientEnds, ControlReadsEof, TypeOK
  <2> QED BY <1>2, <1>14, <2>1 DEF ClientEnds, ControlReadsEof
<1> QED BY <1>1, <1>3, <1>4, <1>5, <1>6, <1>7, <1>8, <1>9, <1>10, <1>11, <1>12, <1>13,
           <1>14 DEF Next

-----------------------------------------------------------------------------
(***************************************************************************)
(* The invariant holds in every reachable state: the time stamps that      *)
(* heartbeat (model.go:412) and manager (control.go:186) compare bound the *)
(* silence of the other end.                                               *)
(***************************************************************************)
THEOREM StampsBoundTheSilence == Spec => []IndInv
<1>1. Init => IndInv
  BY IndInvInit
<1>2. IndInv /\ [Next]_vars => IndInv'
  BY IndInvNext
<1> QED BY <1>1, <1>2, PTL DEF Spec

\* Type correctness: no message is ever late, no stamp older than its timeout allows.
THEOREM HeartbeatIsTyped == Spec => []TypeOK
<1>1. IndInv => TypeOK
  BY DEF IndInv
<1> QED BY <1>1, StampsBoundTheSilence, PTL

\* The manager's reaper (control.go:185-189) notices a client that has vanished.
THEOREM ServerNoticesSilence == Spec => []SilenceEndsTheControl
<1>1. IndInv => SilenceEndsTheControl
  BY Numbers DEF IndInv, TypeOK, ServerKnowsTheAge, Watched, SilenceEndsTheControl
<1> QED BY <1>1, StampsBoundTheSilence, PTL

\* The client's heartbeat (model.go:426-435) notices a server that has fallen silent.
THEOREM ClientNoticesSilence == Spec => []SilenceEndsTheSession
<1>1. IndInv => SilenceEndsTheSession
  <2> SUFFICES ASSUME IndInv, Beating PROVE silent <= PingInterval + MaxPongLatency + 1
    BY DEF SilenceEndsTheSession
  <2> USE Numbers DEF IndInv, TypeOK
  <2>1. CASE net = "ok"
    BY <2>1 DEF ServerKnowsTheAge
  <2>2. CASE net = "dead" /\ client = "wrote"
    BY <2>2 DEF ClientAwaitsAPong
  <2>3. CASE net = "dead" /\ client = "select"
    BY <2>3 DEF ClientAwaitsAPong
  <2> QED BY <2>1, <2>2, <2>3 DEF Beating
<1> QED BY <1>1, StampsBoundTheSilence, PTL

-----------------------------------------------------------------------------
(***************************************************************************)
(* That neither end gives up a live connection rests on where the messages *)
(* are: the ping that one end waits for, or whose answer the other waits   *)
(* for, is on its way, or is to be sent within the interval between pings. *)
(***************************************************************************)

\* Who may be in which position, and which message may be on its way, of each other's.
EndsInStep ==
    /\ server = "wait" => client = "hello" /\ flight["auth"] = None
    /\ flight["ping"] # None => client # "hello" /\ net = "ok" /\ Watched
    /\ Beating /\ flight["ping"] # None => flight["ping"] = pinger
    /\ flight["clientFin"] # None => client \in {"stale", "ended"}
    /\ Watched => flight["serverFin"] = None
    /\ net = "ok" /\ ~Watched /\ client \notin {"stale", "ended"} => flight["serverFin"] # None
    /\ net = "ok" /\ Watched /\ client \in {"stale", "ended"} => flight["clientFin"] # None

\* While the network lives, a ping without a pong is on its way, or its pong is, or the news that
\* the server has closed the connection.
PingIsAnswered == net = "ok" =>
    /\ client = "wrote" =>
        \/ server = "serving" /\ flight["ping"] = 0
        \/ flight["pong"] # None \/ flight["serverFin"] # None
    /\ client = "select" /\ needPong /\ lastPing # None =>
        \/ server = "serving" /\ flight["ping"] # None /\ lastPing <= flight["ping"]
        \/ flight["pong"] # None /\ lastPing <= flight["pong"] + Delay
        \/ flight["serverFin"] # None /\ lastPing <= flight["serverFin"] + Delay

\* The first ping, e after the manager has started.
FirstIsComing(e) ==
    \/ client = "hello" /\ flight["auth"] # None /\ e <= flight["auth"]
    \/ client = "select" /\ e <= Delay + pinger
    \/ flight["ping"] # None /\ e <= Delay + PingInterval + flight["ping"]
    \/ flight["clientFin"] # None /\ e <= Delay + PingInterval + flight["clientFin"]

\* The next ping, pinged after the one before.
NextIsComing ==
    \/ Beating /\ pinged <= pinger
    \/ flight["ping"] # None /\ pinged <= PingInterval + flight["ping"]
    \/ flight["clientFin"] # None /\ pinged <= PingInterval + flight["clientFin"]

\* The reap ticker has ticked at these times since the manager started.
ReapTimes == {k * ReapInterval : k \in Nat}

PingIsComing == net = "ok" /\ server = "serving" =>
    \/ \E w \in 0..MaxReplacedWait, t \in ReapTimes :
           pinged = w + t + reaper /\ FirstIsComing(t + reaper)
    \/ NextIsComing

\* A message is there and back within the latency the client allows.
QuickNetwork == 2 * Delay <= MaxPongLatency

\* The server's timeout leaves room for an interval between pings, and a tick of its reaper that
\* the first ping may come after does not find the control's time stamp too old.
PatientServer ==
    /\ PingInterval + Delay <= PingTimeout
    /\ \A t \in ReapTimes : t <= PingInterval + 2 * Delay => MaxReplacedWait + t <= PingTimeout

\* What a step leaves on its way, message by message.
FlightBecomes(auth, ping, pong, serverFin, clientFin) ==
    /\ flight'["auth"] = auth /\ flight'["ping"] = ping /\ flight'["pong"] = pong
    /\ flight'["serverFin"] = serverFin /\ flight'["clientFin"] = clientFin

\* What each step sends, receives or drops.
LEMMA StepFlights ==
    ASSUME TypeOK
    PROVE  /\ NetDies => FlightBecomes(None, None, None, None, None)
           /\ ServerStarts => FlightBecomes(
                  IF net = "ok" /\ (client = "hello" \/ Beating) THEN 0 ELSE flight["auth"],
                  flight["ping"], flight["pong"], flight["serverFin"], flight["clientFin"])
           /\ ServerOnPing => FlightBecomes(flight["auth"], None,
                  IF client = "hello" \/ Beating THEN 0 ELSE flight["pong"],
                  flight["serverFin"], flight["clientFin"])
           /\ (ServerEnds \/ (ManagerReaps /\ Overdue)) => FlightBecomes(
                  flight["auth"], None, flight["pong"],
                  IF net = "ok" /\ (client = "hello" \/ Beating) THEN 0 ELSE flight["serverFin"], None)
           /\ ServerReadsEof => FlightBecomes(flight["auth"], flight["ping"], flight["pong"],
                  flight["serverFin"], None)
           /\ ClientStarts => FlightBecomes(None, flight["ping"], flight["pong"],
                  flight["serverFin"], flight["clientFin"])
           /\ HeartbeatPings => FlightBecomes(flight["auth"],
                  IF net = "ok" /\ Watched THEN 0 ELSE flight["ping"],
                  flight["pong"], flight["serverFin"], flight["clientFin"])
           /\ ControlOnPong => FlightBecomes(flight["auth"], flight["ping"], None,
                  flight["serverFin"], flight["clientFin"])
           /\ (ClientEnds \/ (HeartbeatChecks /\ Stale)) => FlightBecomes(None, flight["ping"], None, None,
                  IF net = "ok" /\ Watched THEN 0 ELSE flight["clientFin"])
           /\ ControlReadsEof => FlightBecomes(flight["auth"], flight["ping"], flight["pong"],
                  None, flight["clientFin"])
<1> USE DEF Messages, ToServer, ToClient, FlightBecomes, Flights
<1>0. /\ Hears("auth") <=> client = "hello" \/ Beating
      /\ Hears("serverFin") <=> client = "hello" \/ Beating
      /\ Hears("ping") <=> Watched
      /\ Hears("clientFin") <=> Watched
  BY DEF Hears
<1>1. flight \in Flights
  BY DEF TypeOK
<1>2. NetDies => FlightBecomes(None, None, None, None, None)
  BY DEF NetDies
<1>3. ASSUME NEW m \in Messages, flight' = Received(m)
      PROVE  \A x \in Messages : flight'[x] = IF x = m THEN None ELSE flight[x]
  BY <1>1, <1>3 DEF Received
<1>4. ASSUME NEW m \in Messages, flight' = Sent(flight, m)
      PROVE  \A x \in Messages : flight'[x] = IF x = m /\ net = "ok" /\ Hears(m) THEN 0 ELSE flight[x]
  BY <1>1, <1>4 DEF Sent
<1>5. ASSUME NEW m \in Messages, NEW mine, flight' = Closed(mine, m)
      PROVE  \A x \in Messages : flight'[x] = IF x = m /\ net = "ok" /\ Hears(m) THEN 0
                                              ELSE IF x \in mine THEN None ELSE flight[x]
  BY <1>1, <1>5 DEF Sent, Closed
<1>6. ASSUME ServerOnPing
      PROVE  FlightBecomes(flight["auth"], None,
                 IF client = "hello" \/ Beating THEN 0 ELSE flight["pong"],
                 flight["serverFin"], flight["clientFin"])
  BY <1>1, <1>6 DEF ServerOnPing, Sent, Received, Hears, Arrives
<1>7. ASSUME flight' = Closed(ToServer, "serverFin")
      PROVE  FlightBecomes(flight["auth"], None, flight["pong"],
                 IF net = "ok" /\ (client = "hello" \/ Beating) THEN 0 ELSE flight["serverFin"], None)
  BY <1>0, <1>5, <1>7
<1>8. ASSUME flight' = Closed(ToClient, "clientFin")
      PROVE  FlightBecomes(None, flight["ping"], None, None,
                 IF net = "ok" /\ Watched THEN 0 ELSE flight["clientFin"])
  BY <1>0, <1>5, <1>8
<1>9. ServerStarts => FlightBecomes(
          IF net = "ok" /\ (client = "hello" \/ Beating) THEN 0 ELSE flight["auth"],
          flight["ping"], flight["pong"], flight["serverFin"], flight["clientFin"])
  BY <1>0, <1>4 DEF ServerStarts
<1>10. HeartbeatPings => FlightBecomes(flight["auth"],
           IF net = "ok" /\ Watched THEN 0 ELSE flight["ping"],
           flight["pong"], flight["serverFin"], flight["clientFin"])
  BY <1>0, <1>4 DEF HeartbeatPings
<1>11. /\ ServerReadsEof => FlightBecomes(flight["auth"], flight["ping"], flight["pong"],
                                flight["serverFin"], None)
       /\ ClientStarts => FlightBecomes(None, flight["ping"], flight["pong"],
                              flight["serverFin"], flight["clientFin"])
       /\ ControlOnPong => FlightBecomes(flight["auth"], flight["ping"], None,
                               flight["serverFin"], flight["clientFin"])
       /\ ControlReadsEof => FlightBecomes(flight["auth"], flight["ping"], flight["pong"],
                                 None, flight["clientFin"])
  BY <1>3 DEF ServerReadsEof, ClientStarts, ControlOnPong, ControlReadsEof
<1>12. (ServerEnds \/ (ManagerReaps /\ Overdue)) => flight' = Closed(ToServer, "serverFin")
  BY DEF ServerEnds, ManagerReaps
<1>13. (ClientEnds \/ (HeartbeatChecks /\ Stale)) => flight' = Closed(ToClient, "clientFin")
  BY DEF ClientEnds, HeartbeatChecks
<1> HIDE DEF FlightBecomes, Messages, ToServer, ToClient, Flights
<1> QED BY <1>2, <1>6, <1>7, <1>8, <1>9, <1>10, <1>11, <1>12, <1>13

\* A tick lets every message that is on its way grow older, none beyond Delay.
LEMMA TickFlights ==
    ASSUME TypeOK, Tick, NEW m \in Messages
    PROVE  /\ flight'[m] = None <=> flight[m] = None
           /\ flight[m] # None => flight'[m] = flight[m] + 1 /\ flight[m] < Delay /\ flight[m] \in Nat
BY Numbers DEF Tick, NothingIsDue, TypeOK, Older

\* Every way a step can go, with the steps that decide something split.
LEMMA StepCases ==
    ASSUME [Next]_vars
    PROVE  \/ UNCHANGED vars \/ NetDies \/ Tick
           \/ ServerStarts \/ ServerOnPing \/ (ManagerReaps /\ ~Overdue) \/ ServerReadsEof
           \/ (ServerEnds \/ (ManagerReaps /\ Overdue))
           \/ ClientStarts \/ HeartbeatPings \/ HeartbeatStamps \/ ControlOnPong
           \/ (HeartbeatChecks /\ ~Stale) \/ ControlReadsEof
           \/ (ClientEnds \/ (HeartbeatChecks /\ Stale))
BY DEF Next

-----------------------------------------------------------------------------
\* EndsInStep is inductive by itself.
LEMMA EndsInStepNext == IndInv /\ EndsInStep /\ [Next]_vars => EndsInStep'
<1> SUFFICES ASSUME IndInv, EndsInStep, [Next]_vars PROVE EndsInStep'
  OBVIOUS
<1> USE Numbers DEF EndsInStep, Watched, Beating
<1>0. TypeOK
  BY DEF IndInv
<1>1. CASE UNCHANGED vars
  BY <1>1 DEF vars
<1>2. CASE NetDies
  BY <1>0, <1>2, StepFlights DEF NetDies, FlightBecomes
<1>3. CASE Tick
  BY <1>0, <1>3, TickFlights, MessageNames DEF Tick, TypeOK
<1>4. CASE ServerStarts
  BY <1>0, <1>4, StepFlights DEF ServerStarts, FlightBecomes
<1>5. CASE ServerOnPing
  BY <1>0, <1>5, StepFlights DEF ServerOnPing, FlightBecomes
<1>6. CASE ServerEnds \/ (ManagerReaps /\ Overdue)
  BY <1>0, <1>6, StepFlights DEF ServerEnds, ManagerReaps, FlightBecomes, TypeOK
<1>7. CASE ManagerReaps /\ ~Overdue
  BY <1>7 DEF ManagerReaps
<1>8. CASE ServerReadsEof
  BY <1>0, <1>8, StepFlights DEF ServerReadsEof, Arrives, FlightBecomes
<1>9. CASE ClientStarts
  BY <1>0, <1>9, StepFlights DEF ClientStarts, Arrives, FlightBecomes
<1>10. CASE HeartbeatPings
  BY <1>0, <1>10, StepFlights DEF HeartbeatPings, FlightBecomes
<1>11. CASE HeartbeatStamps
  BY <1>11 DEF HeartbeatStamps
<1>12. CASE ControlOnPong
  BY <1>0, <1>12, StepFlights DEF ControlOnPong, Arrives, FlightBecomes
<1>13. CASE ClientEnds \/ (HeartbeatChecks /\ Stale)
  <2>1. client = "select" /\ client' \in {"stale", "ended"} /\ server' = server /\ net' = net
    BY <1>13 DEF ClientEnds, HeartbeatChecks
  <2>2. FlightBecomes(None, flight["ping"], None, None,
            IF net = "ok" /\ Watched THEN 0 ELSE flight["clientFin"])
    BY <1>0, <1>13, StepFlights
  <2> QED BY <2>1, <2>2 DEF FlightBecomes
<1>14. CASE HeartbeatChecks /\ ~Stale
  BY <1>14 DEF HeartbeatChecks
<1>15. CASE ControlReadsEof
  BY <1>0, <1>15, StepFlights DEF ControlReadsEof, Arrives, FlightBecomes
<1> QED BY <1>1, <1>2, <1>3, <1>4, <1>5, <1>6, <1>7, <1>8, <1>9, <1>10, <1>11, <1>12, <1>13,
           <1>14, <1>15, StepCases
-----------------------------------------------------------------------------
\* A ping of a live session is answered: within two delays, or the session has ended.
LEMMA PingIsAnsweredNext ==
    ASSUME ~Preempted
    PROVE  IndInv /\ EndsInStep /\ PingIsAnswered /\ [Next]_vars => PingIsAnswered'
<1> SUFFICES ASSUME IndInv, EndsInStep, PingIsAnswered, [Next]_vars, net = "ok", net' = "ok"
             PROVE  PingIsAnswered'
  BY DEF PingIsAnswered, Next, NetDies, Tick, ServerStarts, ServerOnPing, ManagerReaps, ServerEnds,
         ServerReadsEof, ClientStarts, HeartbeatPings, HeartbeatStamps, ControlOnPong,
         HeartbeatChecks, ClientEnds, ControlReadsEof, vars
<1>0. /\ TypeOK
      /\ \A m \in Messages : flight[m] = None \/ flight[m] \in 0..Delay
      /\ lastPing = None \/ lastPing \in Nat
  BY DEF IndInv, TypeOK
<1> USE Numbers, MessageNames DEF PingIsAnswered
<1>1. CASE UNCHANGED vars
  BY <1>1 DEF vars
<1>2. CASE NetDies
  BY <1>2 DEF NetDies
<1>3. CASE Tick
  BY <1>0, <1>3, TickFlights DEF Tick, NothingIsDue, Beating, Older
<1>4. CASE ServerStarts
  BY <1>4 DEF ServerStarts, EndsInStep
<1>5. CASE ServerOnPing
  <2>1. FlightBecomes(flight["auth"], None, IF client = "hello" \/ Beating THEN 0 ELSE flight["pong"],
                      flight["serverFin"], flight["clientFin"])
    BY <1>0, <1>5, StepFlights
  \* the ping that is read is the last one
  <2>2. client = "select" /\ lastPing # None => lastPing = flight["ping"]
    BY <1>5 DEF ServerOnPing, Arrives, EndsInStep, IndInv, ClientAwaitsAPong, Beating
  <2>3. flight["ping"] \in 0..Delay
    BY <1>0, <1>5 DEF ServerOnPing, Arrives
  <2> QED BY <1>5, <2>1, <2>2, <2>3 DEF ServerOnPing, FlightBecomes, Beating
<1>6. CASE ServerEnds \/ (ManagerReaps /\ Overdue)
  <2>1. FlightBecomes(flight["auth"], None, flight["pong"],
                  IF net = "ok" /\ (client = "hello" \/ Beating) THEN 0 ELSE flight["serverFin"], None)
    BY <1>0, <1>6, StepFlights
  <2>2. UNCHANGED <<client, needPong, lastPing>> /\ server = "serving"
    BY <1>6 DEF ServerEnds, ManagerReaps
  <2>3. flight["serverFin"] = None
    BY <2>2 DEF EndsInStep, Watched
  <2>4. ASSUME Beating PROVE flight'["serverFin"] = 0 /\ flight'["pong"] = flight["pong"]
    BY <2>1, <2>4 DEF FlightBecomes
  <2> QED BY <1>0, <2>2, <2>3, <2>4 DEF Beating
<1>7. CASE ManagerReaps /\ ~Overdue
  BY <1>7 DEF ManagerReaps
<1>8. CASE ServerReadsEof
  BY <1>8 DEF ServerReadsEof, Arrives, EndsInStep
<1>9. CASE ClientStarts
  BY <1>9 DEF ClientStarts
<1>10. CASE HeartbeatPings
  BY <1>0, <1>10, StepFlights DEF HeartbeatPings, FlightBecomes, EndsInStep, Watched, IndInv, TypeOK
<1>11. CASE HeartbeatStamps
  BY <1>0, <1>11 DEF HeartbeatStamps
<1>12. CASE ControlOnPong
  BY <1>12 DEF ControlOnPong
<1>13. CASE ClientEnds \/ (HeartbeatChecks /\ Stale)
  BY <1>13 DEF ClientEnds, HeartbeatChecks
<1>14. CASE HeartbeatChecks /\ ~Stale
  BY <1>14 DEF HeartbeatChecks
<1>15. CASE ControlReadsEof
  BY <1>15 DEF ControlReadsEof
<1> QED BY <1>1, <1>2, <1>3, <1>4, <1>5, <1>6, <1>7, <1>8, <1>9, <1>10, <1>11, <1>12, <1>13,
           <1>14, <1>15, StepCases

(***************************************************************************)
(* The heartbeat calls no session stale on which everything still arrives  *)
(* (model.go:426-435), provided that no pong slips in between a ping and   *)
(* its time stamp (model.go:439-444) and that there and back is within the *)
(* latency it allows.                                                      *)
(***************************************************************************)
THEOREM AnsweredSessionsStay ==
    ASSUME ~Preempted, QuickNetwork
    PROVE  Spec => []AnsweredSessionsAreKept
<1> DEFINE Inv == IndInv /\ EndsInStep /\ PingIsAnswered /\ AnsweredSessionsAreKept
<1>1. Init => Inv
  <2>1. Init => EndsInStep /\ PingIsAnswered /\ AnsweredSessionsAreKept
    BY MessageNames DEF Init, EndsInStep, PingIsAnswered, AnsweredSessionsAreKept, Beating, Watched
  <2> QED BY <2>1, IndInvInit
<1>2. Inv /\ [Next]_vars => Inv'
  <2> SUFFICES ASSUME Inv, [Next]_vars PROVE AnsweredSessionsAreKept'
    BY IndInvNext, EndsInStepNext, PingIsAnsweredNext
  <2>1. CASE HeartbeatChecks /\ Stale
    <3>1. /\ \A m \in Messages : flight[m] = None \/ flight[m] \in 0..Delay
          /\ lastPing = None \/ lastPing \in Nat
      BY DEF IndInv, TypeOK
    <3>2. net # "ok"
      BY <2>1, <3>1, Numbers, MessageNames
      DEF HeartbeatChecks, Stale, PingIsAnswered, QuickNetwork
    <3>3. net = "dead"
      BY <3>2 DEF IndInv, TypeOK
    <3> QED BY <2>1, <3>3 DEF HeartbeatChecks, AnsweredSessionsAreKept
  <2>2. CASE ~(HeartbeatChecks /\ Stale)
    BY <2>2 DEF AnsweredSessionsAreKept, Next, NetDies, Tick, ServerStarts, ServerOnPing,
         ManagerReaps, ServerEnds, ServerReadsEof, ClientStarts, HeartbeatPings, HeartbeatStamps,
         ControlOnPong, HeartbeatChecks, ClientEnds, ControlReadsEof, vars
  <2> QED BY <2>1, <2>2
<1>3. Inv => AnsweredSessionsAreKept
  OBVIOUS
<1> QED BY <1>1, <1>2, <1>3, PTL DEF Spec
-----------------------------------------------------------------------------
\* The times at which the reaper ticks: the start, and an interval after each of them.
LEMMA ReapTimesGoOn ==
    /\ 0 \in ReapTimes
    /\ ReapTimes \subseteq Nat
    /\ \A t \in ReapTimes : t + ReapInterval \in ReapTimes
<1>1. 0 \in ReapTimes
  <2>1. 0 = 0 * ReapInterval /\ 0 \in Nat
    BY Numbers
  <2> QED BY <2>1 DEF ReapTimes
<1>2. \A k \in Nat : k * ReapInterval \in Nat /\ k * ReapInterval + ReapInterval = (k + 1) * ReapInterval
  BY Numbers
<1>3. ReapTimes \subseteq Nat
  BY <1>2 DEF ReapTimes
<1>4. ASSUME NEW t \in ReapTimes PROVE t + ReapInterval \in ReapTimes
  <2>1. PICK k \in Nat : t = k * ReapInterval
    BY DEF ReapTimes
  <2>2. t + ReapInterval = (k + 1) * ReapInterval /\ k + 1 \in Nat
    BY <1>2, <2>1
  <2> QED BY <2>2 DEF ReapTimes
<1> QED BY <1>1, <1>3, <1>4

\* A step that leaves the first ping coming, and the server's clocks alone, or both a tick on.
LEMMA ComingStays ==
    ASSUME IndInv, PingIsComing, net = "ok", server = "serving",
           NEW d \in Nat, pinged' = pinged + d, reaper' = reaper + d,
           \A e \in Nat : FirstIsComing(e) => FirstIsComing(e + d)' \/ NextIsComing',
           NextIsComing => NextIsComing'
    PROVE  PingIsComing'
<1>1. CASE NextIsComing
  BY <1>1 DEF PingIsComing
<1>2. CASE ~NextIsComing
  <2>1. PICK w \in 0..MaxReplacedWait, t \in ReapTimes :
            pinged = w + t + reaper /\ FirstIsComing(t + reaper)
    BY <1>2 DEF PingIsComing
  <2>2. w \in Nat /\ t \in Nat /\ reaper \in Nat
    BY ReapTimesGoOn, Numbers DEF IndInv, TypeOK
  <2>3. PICK e \in Nat : e = t + reaper
    BY <2>2
  <2>4. CASE FirstIsComing(e + d)'
    <3>1. pinged' = w + t + reaper' /\ e + d = t + reaper'
      BY <2>1, <2>2, <2>3
    <3> QED BY <2>4, <3>1 DEF PingIsComing, FirstIsComing
  <2>5. CASE NextIsComing'
    BY <2>5 DEF PingIsComing
  <2> QED BY <2>1, <2>3, <2>4, <2>5
<1> QED BY <1>1, <1>2

\* The ping that the manager waits for is on its way to be sent.
LEMMA PingIsComingNext ==
    ASSUME QuickNetwork
    PROVE  IndInv /\ EndsInStep /\ PingIsComing /\ [Next]_vars => PingIsComing'
<1> SUFFICES ASSUME IndInv, EndsInStep, PingIsComing, [Next]_vars, net = "ok",
                    server' = "serving", net' = "ok"
             PROVE  PingIsComing'
  <2>1. [Next]_vars /\ net' = "ok" => net = "ok"
    BY DEF Next, NetDies, Tick, ServerStarts, ServerOnPing, ManagerReaps, ServerEnds,
           ServerReadsEof, ClientStarts, HeartbeatPings, HeartbeatStamps, ControlOnPong,
           HeartbeatChecks, ClientEnds, ControlReadsEof, vars
  <2> QED BY <2>1 DEF PingIsComing
<1>0. /\ TypeOK
      /\ \A m \in Messages : flight[m] = None \/ flight[m] \in 0..Delay
      /\ pinger \in 0..PingInterval /\ pinged \in Nat /\ reaper \in Nat
      /\ Delay < PingInterval
  BY Numbers DEF IndInv, TypeOK, QuickNetwork
<1> USE Numbers, MessageNames
<1>1. CASE UNCHANGED vars
  BY <1>1 DEF vars, PingIsComing, FirstIsComing, NextIsComing, Beating
<1>2. CASE NetDies
  BY <1>2 DEF NetDies
<1>3. CASE Tick
  <2>1. /\ server = "serving" /\ pinged' = pinged + 1 /\ reaper' = reaper + 1
        /\ client' = client /\ client # "wrote"
        /\ client = "select" => pinger' = pinger + 1
    BY <1>3 DEF Tick, NothingIsDue, Watched, Beating
  <2>2. \A e \in Nat : FirstIsComing(e) => FirstIsComing(e + 1)'
    BY <1>0, <1>3, <2>1, TickFlights DEF FirstIsComing
  <2>3. NextIsComing => NextIsComing'
    BY <1>0, <1>3, <2>1, TickFlights DEF NextIsComing, Beating
  <2> QED BY <2>1, <2>2, <2>3, ComingStays
<1>4. CASE ServerStarts
  <2>1. /\ server = "wait" /\ client = "hello" /\ client' = client
        /\ reaper' = 0 /\ pinged' = pinged /\ pinged \in 0..MaxReplacedWait
    BY <1>0, <1>4 DEF ServerStarts, EndsInStep, IndInv, ServerKnowsTheAge
  <2>2. flight'["auth"] = 0
    BY <1>0, <1>4, <2>1, StepFlights DEF FlightBecomes
  <2>3. FirstIsComing(0)' /\ pinged' = pinged + 0 + 0
    BY <2>1, <2>2 DEF FirstIsComing
  <2> QED BY <2>1, <2>3, ReapTimesGoOn DEF PingIsComing, FirstIsComing
<1>5. CASE ServerOnPing
  <2>1. flight["ping"] # None /\ pinged' = 0 /\ client' = client /\ pinger' = pinger /\ server = "serving"
    BY <1>5 DEF ServerOnPing, Arrives
  <2>2. flight'["clientFin"] = flight["clientFin"]
    BY <1>0, <1>5, StepFlights DEF FlightBecomes
  <2>3. CASE Beating
    BY <1>0, <2>1, <2>3 DEF NextIsComing, PingIsComing, Beating
  \* a client that has closed the connection: that, too, is still to be read
  <2>4. CASE ~Beating
    <3>1. client \in {"stale", "ended"} /\ flight["clientFin"] # None
      BY <1>0, <2>1, <2>4 DEF EndsInStep, TypeOK, Beating, Watched
    <3> QED BY <1>0, <2>1, <2>2, <3>1 DEF NextIsComing, PingIsComing
  <2> QED BY <2>3, <2>4
<1>6. CASE ServerEnds \/ (ManagerReaps /\ Overdue)
  BY <1>6 DEF ServerEnds, ManagerReaps
\* the reaper has ticked: the times of its ticks go on by one
<1>7. CASE ManagerReaps /\ ~Overdue
  <2>1. /\ server = "serving" /\ reaper = ReapInterval /\ reaper' = 0
        /\ UNCHANGED <<client, flight, pinged, pinger>>
    BY <1>7 DEF ManagerReaps
  <2>2. CASE NextIsComing
    BY <2>1, <2>2 DEF NextIsComing, PingIsComing, Beating
  <2>3. CASE ~NextIsComing
    <3>1. PICK w \in 0..MaxReplacedWait, t \in ReapTimes :
              pinged = w + t + reaper /\ FirstIsComing(t + reaper)
      BY <2>1, <2>3 DEF PingIsComing
    <3>2. PICK e \in ReapTimes : e = t + ReapInterval
      BY ReapTimesGoOn
    <3>3. e \in Nat /\ t \in Nat /\ w \in Nat
      BY ReapTimesGoOn
    <3>4. FirstIsComing(e)'
      BY <2>1, <3>1, <3>2 DEF FirstIsComing
    <3>5. pinged' = w + e + reaper' /\ e + reaper' = e
      BY <2>1, <3>1, <3>2, <3>3
    <3> QED BY <3>4, <3>5 DEF PingIsComing, FirstIsComing
  <2> QED BY <2>2, <2>3
<1>8. CASE ServerReadsEof
  BY <1>8 DEF ServerReadsEof
\* the steps of the client leave the server's clocks alone
<1>9. CASE ClientStarts
  <2>1. /\ client = "hello" /\ client' = "select" /\ pinger' = 0
        /\ UNCHANGED <<server, pinged, reaper>>
    BY <1>9 DEF ClientStarts
  <2>2. UNCHANGED <<flight["ping"], flight["clientFin"]>>
    BY <1>0, <1>9, StepFlights DEF FlightBecomes
  <2>3. \A e \in Nat : FirstIsComing(e) => FirstIsComing(e + 0)'
    BY <1>0, <2>1, <2>2 DEF FirstIsComing
  <2>4. NextIsComing => NextIsComing'
    BY <2>1, <2>2 DEF NextIsComing, Beating
  <2> QED BY <1>0, <2>1, <2>3, <2>4, ComingStays
<1>10. CASE HeartbeatPings
  <2>1. /\ client = "select" /\ client' = "wrote" /\ pinger = PingInterval /\ pinger' = 0
        /\ UNCHANGED <<server, pinged, reaper>>
    BY <1>10 DEF HeartbeatPings
  <2>2. flight'["ping"] = 0 /\ flight'["clientFin"] = flight["clientFin"]
    BY <1>0, <1>10, <2>1, StepFlights DEF FlightBecomes, Watched
  \* the ping before this one has long been read
  <2>3. flight["ping"] = None /\ flight["clientFin"] = None
    BY <1>0, <2>1 DEF EndsInStep, Beating
  <2>4. \A e \in Nat : FirstIsComing(e) => FirstIsComing(e + 0)'
    BY <1>0, <2>1, <2>2, <2>3 DEF FirstIsComing
  <2>5. NextIsComing => NextIsComing'
    BY <1>0, <2>1, <2>2, <2>3 DEF NextIsComing, Beating
  <2> QED BY <1>0, <2>1, <2>4, <2>5, ComingStays
<1>11. CASE HeartbeatStamps
  <2>1. /\ client = "wrote" /\ client' = "select"
        /\ UNCHANGED <<server, pinged, reaper, pinger, flight>>
    BY <1>11 DEF HeartbeatStamps
  <2>2. \A e \in Nat : FirstIsComing(e) => FirstIsComing(e + 0)'
    BY <2>1 DEF FirstIsComing
  <2>3. NextIsComing => NextIsComing'
    BY <2>1 DEF NextIsComing, Beating
  <2> QED BY <1>0, <2>1, <2>2, <2>3, ComingStays
<1>12. CASE ControlOnPong
  <2>1. UNCHANGED <<client, server, pinged, reaper, pinger, flight["auth"], flight["ping"], flight["clientFin"]>>
    BY <1>0, <1>12, StepFlights DEF ControlOnPong, FlightBecomes
  <2>2. \A e \in Nat : FirstIsComing(e) => FirstIsComing(e + 0)'
    BY <2>1 DEF FirstIsComing
  <2>3. NextIsComing => NextIsComing'
    BY <2>1 DEF NextIsComing, Beating
  <2> QED BY <1>0, <2>1, <2>2, <2>3, ComingStays
<1>13. CASE ClientEnds \/ (HeartbeatChecks /\ Stale)
  <2>1. client = "select" /\ client' \in {"stale", "ended"} /\ UNCHANGED <<server, pinged, reaper, pinger>>
    BY <1>13 DEF ClientEnds, HeartbeatChecks
  <2>2. flight'["clientFin"] = 0 /\ flight'["ping"] = flight["ping"] /\ flight["clientFin"] = None
    BY <1>0, <1>13, <2>1, StepFlights DEF FlightBecomes, Watched, EndsInStep
  <2>3. \A e \in Nat : FirstIsComing(e) => FirstIsComing(e + 0)'
    BY <1>0, <2>1, <2>2 DEF FirstIsComing
  <2>4. NextIsComing => NextIsComing'
    BY <1>0, <2>1, <2>2 DEF NextIsComing, Beating
  <2> QED BY <1>0, <2>1, <2>3, <2>4, ComingStays
<1>14. CASE HeartbeatChecks /\ ~Stale
  BY <1>14 DEF HeartbeatChecks, PingIsComing, FirstIsComing, NextIsComing, Beating
<1>15. CASE ControlReadsEof
  BY <1>15 DEF ControlReadsEof, Arrives, EndsInStep, Watched
<1> QED BY <1>1, <1>2, <1>3, <1>4, <1>5, <1>6, <1>7, <1>8, <1>9, <1>10, <1>11, <1>12, <1>13,
           <1>14, <1>15, StepCases

(***************************************************************************)
(* The manager's reaper (control.go:185-189) takes no client for dead      *)
(* whose pings arrive, however long NewControl has waited between the time *)
(* stamp and the start of the reaper (control.go:89-145).                  *)
(***************************************************************************)
THEOREM PingingClientsStay ==
    ASSUME QuickNetwork, PatientServer
    PROVE  Spec => []PingingClientsAreKept
<1> DEFINE Inv == IndInv /\ EndsInStep /\ PingIsComing /\ PingingClientsAreKept
<1>1. Init => Inv
  <2>1. Init => EndsInStep /\ PingIsComing /\ PingingClientsAreKept
    BY MessageNames DEF Init, EndsInStep, PingIsComing, PingingClientsAreKept, Beating, Watched
  <2> QED BY <2>1, IndInvInit
<1>2. Inv /\ [Next]_vars => Inv'
  <2> SUFFICES ASSUME Inv, [Next]_vars PROVE PingingClientsAreKept'
    BY IndInvNext, EndsInStepNext, PingIsComingNext
  <2>1. CASE ManagerReaps /\ Overdue
    <3>1. /\ \A m \in Messages : flight[m] = None \/ flight[m] \in 0..Delay
          /\ pinger \in 0..PingInterval /\ pinged \in Nat
      BY DEF IndInv, TypeOK
    <3>2. server = "serving" /\ reaper = ReapInterval /\ pinged > PingTimeout /\ net' = net
      BY <2>1 DEF ManagerReaps, Overdue
    <3> USE Numbers, MessageNames DEF PatientServer
    <3>3. ~NextIsComing
      BY <3>1, <3>2 DEF NextIsComing
    <3>4. ASSUME NEW w \in 0..MaxReplacedWait, NEW t \in ReapTimes,
                 pinged = w + t + reaper, FirstIsComing(t + reaper)
          PROVE  FALSE
      <4>1. t + ReapInterval \in ReapTimes /\ t \in Nat
        BY ReapTimesGoOn
      <4>2. t + ReapInterval <= PingInterval + 2 * Delay
        BY <3>1, <3>2, <3>4, <4>1 DEF FirstIsComing
      <4>3. MaxReplacedWait + (t + ReapInterval) <= PingTimeout
        BY <4>1, <4>2
      <4> QED BY <3>2, <3>4, <4>1, <4>3
    <3>5. net = "dead"
      BY <3>2, <3>3, <3>4 DEF PingIsComing, IndInv, TypeOK
    <3> QED BY <3>2, <3>5 DEF PingingClientsAreKept
  <2>2. CASE ~(ManagerReaps /\ Overdue)
    BY <2>2 DEF PingingClientsAreKept, Next, NetDies, Tick, ServerStarts, ServerOnPing,
         ManagerReaps, ServerEnds, ServerReadsEof, ClientStarts, HeartbeatPings, HeartbeatStamps,
         ControlOnPong, HeartbeatChecks, ClientEnds, ControlReadsEof, vars
  <2> QED BY <2>1, <2>2
<1>3. Inv => PingingClientsAreKept
  OBVIOUS
<1> QED BY <1>1, <1>2, <1>3, PTL DEF Spec

(***************************************************************************)
(* The times of the code (pingInterval and maxPongLatency, model.go:26-27; *)
(* pingTimeoutInterval and connReapInterval, control.go:16-17), in         *)
(* seconds, leave that room while a message takes up to four of them and   *)
(* the old control up to ten to go.                                        *)
(***************************************************************************)
THEOREM CodeIsPatient ==
    ASSUME PingInterval = 20, MaxPongLatency = 15, PingTimeout = 30, ReapInterval = 10,
           Delay <= 4, MaxReplacedWait <= 10
    PROVE  QuickNetwork /\ PatientServer
<1> USE Numbers
<1>1. QuickNetwork /\ PingInterval + Delay <= PingTimeout
  BY DEF QuickNetwork
<1>2. ASSUME NEW t \in ReapTimes, t <= PingInterval + 2 * Delay PROVE MaxReplacedWait + t <= PingTimeout
  <2>1. PICK k \in Nat : t = k * 10
    BY DEF ReapTimes
  <2> QED BY <1>2, <2>1
<1> QED BY <1>1, <1>2 DEF PatientServer
=============================================================================
