---------------------------- MODULE ClientProofs -----------------------------
(***************************************************************************)
(* Proofs about Client, for every configuration file and command line,     *)
(* every number of URLs, proxy connections, views and quit commands.       *)
(***************************************************************************)
EXTENDS Client, TLAPS

-----------------------------------------------------------------------------
(***************************************************************************)
(* The terminal view: an update that is dropped finds another one that is  *)
(* not yet printed.                                                        *)
(***************************************************************************)
\* While nothing is on its way to the terminal view, what it has printed is what is.
PrintedIsCurrent ==
    /\ buf \in Nat
    /\ shown = [status |-> shown.status, tunnels |-> shown.tunnels]
    /\ buf = 0 /\ run \notin {"online", "again"} =>
        /\ view \in {"tunnels", "select"} => shown.status = status
        /\ view = "select" => shown.tunnels = tunnels

\* The steps that change what the view prints, or what is on its way to it.
Announces == NewTunnel \/ Backoff
Tells == Sends("authed", "save") \/ Sends("online", "loop") \/ Sends("again", "dial")
           \/ \E p \in Proxies : ProxyUpdates(p)
Prints == PrintsStatus \/ PrintsTunnels

\* No other step does.
LEMMA OthersPrintNothing ==
    ASSUME [Next]_vars, ~Announces, ~Tells, ~Prints
    PROVE  /\ UNCHANGED <<status, tunnels, buf, shown>>
           /\ run \in {"online", "again"} <=> run' \in {"online", "again"}
           /\ view' = view \/ (view = "select" /\ view' = "unreg") \/ (view = "unreg" /\ view' = "gone")
<1> USE DEF Announces, Tells, Prints, model, wire, control, terminal, saving, Breaks, Gone
<1>1. CASE UNCHANGED vars
  BY <1>1 DEF vars
<1>2. CASE Dial \/ Authenticates
  BY <1>2 DEF Dial, Authenticates
<1>3. CASE Save \/ Fill \/ Request
  BY <1>3 DEF Save, Fill, Request
<1>4. CASE ModelQuits \/ NewTunnelError \/ ReqProxy \/ ReadFails
  BY <1>4 DEF ModelQuits, NewTunnelError, ReqProxy, ReadFails, Heads, Read
<1>5. CASE Registers \/ Refuses \/ AsksForProxy \/ Lost
  BY <1>5 DEF Registers, Refuses, AsksForProxy, Lost
<1>6. ASSUME NEW p \in Proxies, proxy(p)
      PROVE  UNCHANGED <<status, tunnels, buf, shown, run, view>>
  BY <1>6 DEF proxy, ProxyDials, StartProxy, ProxyFails, ProxyLooksUp, ProxyDialsLocal, JoinEnds, ProxyOnly
<1>7. CASE LoopStarts \/ Exits \/ ViewEnds \/ UnRegisters
  BY <1>7 DEF LoopStarts, Exits, ViewEnds, UnRegisters
<1>8. ASSUME NEW i \in 1..MaxShutdowns, doShutdown(i)
      PROVE  UNCHANGED <<status, tunnels, buf, shown, run, view>>
  BY <1>8 DEF doShutdown, CloseView, PanicQuits
<1> QED BY <1>1, <1>2, <1>3, <1>4, <1>5, <1>6, <1>7, <1>8 DEF Next, ClientModelRun, TermViewRun

(***************************************************************************)
(* While the terminal view has nothing left to do, what it has printed is  *)
(* what is: the broadcast drops an update only for a listener whose        *)
(* channel is full (broadcast.go:44), and whoever changes the model sends  *)
(* an update afterwards (model.go:206, 330).                               *)
(***************************************************************************)
THEOREM QuietViewIsCurrent == Spec => []QuietViewIsUpToDate
<1>1. Init => PrintedIsCurrent
  <2> SUFFICES ASSUME Init PROVE PrintedIsCurrent
    OBVIOUS
  <2>1. view = "state" /\ buf = 0 /\ shown = [status |-> "", tunnels |-> Nobody]
    BY DEF Init
  <2> QED BY <2>1 DEF PrintedIsCurrent
<1>2. PrintedIsCurrent /\ [Next]_vars => PrintedIsCurrent'
  <2> SUFFICES ASSUME PrintedIsCurrent, [Next]_vars PROVE PrintedIsCurrent'
    OBVIOUS
  <2> USE DEF PrintedIsCurrent
  <2>1. CASE Announces
    <3>1. run' \in {"online", "again"} /\ UNCHANGED <<buf, shown, view>>
      BY <2>1 DEF Announces, NewTunnel, Backoff, terminal, Heads
    <3> QED BY <3>1
  \* the update is in the channel now, or another one is
  <2>2. CASE Tells
    <3>1. UNCHANGED <<shown, view>> /\ Update
      BY <2>2 DEF Tells, Sends, ProxyUpdates
    <3>2. buf' \in Nat /\ (view # "gone" => buf' > 0)
      BY <3>1, ClientAssumption DEF Update
    <3> QED BY <3>1, <3>2
  <2>3. CASE PrintsStatus
    <3>1. UNCHANGED <<run, status, tunnels>> /\ view' = "tunnels" /\ shown' = [shown EXCEPT !.status = status]
      BY <2>3 DEF PrintsStatus, model
    <3>2. shown' = [status |-> status, tunnels |-> shown.tunnels]
      BY <3>1
    <3>3. buf' \in Nat
      BY <2>3 DEF PrintsStatus
    <3> QED BY <3>1, <3>2, <3>3
  <2>4. CASE PrintsTunnels
    <3>1. /\ UNCHANGED <<run, status, tunnels, buf>> /\ view = "tunnels" /\ view' = "select"
          /\ shown' = [shown EXCEPT !.tunnels = tunnels]
      BY <2>4 DEF PrintsTunnels, model
    <3>2. shown' = [status |-> shown.status, tunnels |-> tunnels]
      BY <3>1
    <3> QED BY <3>1, <3>2
  <2>5. CASE ~Announces /\ ~Tells /\ ~Prints
    BY <2>5, OthersPrintNothing
  <2> QED BY <2>1, <2>2, <2>3, <2>4, <2>5 DEF Prints
<1>3. PrintedIsCurrent => QuietViewIsUpToDate
  BY DEF PrintedIsCurrent, QuietViewIsUpToDate
<1> QED BY <1>1, <1>2, <1>3, PTL DEF Spec
-----------------------------------------------------------------------------
(***************************************************************************)
(* The URLs: what the client is told of a URL in one session never changes *)
(* in that session, neither while the message is on its way nor after the  *)
(* connection is lost.                                                     *)
(***************************************************************************)
\* The client is told nothing of u but that it leads to t.
LeadsTo(u, t) ==
    /\ u \in heard => tunnels[u].local = LocalAddr(t.req, t.protocol)
    /\ \A i \in 1..Len(inbox) : inbox[i].type = "NewTunnel" /\ inbox[i].url = u =>
           inbox[i].req = t.req /\ inbox[i].protocol = t.protocol

\* What the client is told of this session's urls is where the server has them lead.
ToldIsRegistered ==
    /\ heard \subseteq DOMAIN tunnels
    /\ \A u \in DOMAIN srv : LeadsTo(u, srv[u])
    /\ link # "up" => DOMAIN srv = {}
    /\ link = "up" =>
        /\ heard \subseteq DOMAIN srv
        /\ \A i \in 1..Len(inbox) : inbox[i].type = "NewTunnel" => inbox[i].url \in DOMAIN srv

\* Each visitor has been sent to a url of its session.
VisitShape(r) ==
    CASE r.pc \in {"free", "dial"} -> TRUE
      [] r.pc = "wait" -> r.session \in 0..session
      [] r.pc = "start" -> r.session \in 0..session
      [] OTHER -> r = [pc |-> r.pc, for |-> r.for, local |-> r.local, heard |-> r.heard]

VisitsAreRegistered ==
    /\ session \in Nat
    /\ DOMAIN proxies = Proxies
    /\ \A p \in Proxies : VisitShape(proxies[p])
    /\ \A p \in Proxies : proxies[p].pc = "start" /\ proxies[p].session = session =>
        /\ LeadsTo(proxies[p].url, proxies[p].for)
        /\ link = "up" => proxies[p].url \in DOMAIN srv /\ srv[proxies[p].url] = proxies[p].for
    /\ \A p \in Proxies : proxies[p].pc \in {"local", "update", "joined", "last"} /\ proxies[p].heard =>
        proxies[p].local = LocalAddr(proxies[p].for.req, proxies[p].for.protocol)

\* The inbox is a queue.
IsQueue(s) == \E S : s \in Seq(S)

\* What Append and Tail do to a queue.
LEMMA Queues ==
    ASSUME NEW s, IsQueue(s), NEW e
    PROVE  /\ Len(s) \in Nat
           /\ IsQueue(<<>>) /\ Len(<<>>) = 0
           /\ IsQueue(Append(s, e)) /\ Len(Append(s, e)) = Len(s) + 1
           /\ \A i \in 1..Len(s) : Append(s, e)[i] = s[i]
           /\ Append(s, e)[Len(s) + 1] = e
           /\ s # <<>> => /\ IsQueue(Tail(s)) /\ Len(Tail(s)) = Len(s) - 1 /\ Len(s) > 0
                          /\ Head(s) = s[1]
                          /\ \A i \in 1..Len(Tail(s)) : Tail(s)[i] = s[i + 1]
<1>1. PICK S : s \in Seq(S)
  BY DEF IsQueue
<1>2. s \in Seq(S \cup {e})
  BY <1>1
<1>3. IsQueue(Append(s, e))
  BY <1>2 DEF IsQueue
<1>4. s # <<>> => IsQueue(Tail(s))
  BY <1>1 DEF IsQueue
<1>5. <<>> \in Seq(S)
  OBVIOUS
<1> QED BY <1>1, <1>2, <1>3, <1>4, <1>5 DEF IsQueue

\* Where a message of a shorter inbox, or of one with a new message, comes from.
LEMMA LeadsToStays ==
    ASSUME IsQueue(inbox), NEW u, NEW t, LeadsTo(u, t), UNCHANGED conf,
           u \in heard' => tunnels'[u].local = LocalAddr(t.req, t.protocol),
           \/ UNCHANGED inbox
           \/ inbox # <<>> /\ inbox' = Tail(inbox)
           \/ inbox' = <<>>
           \/ \E m : /\ inbox' = Append(inbox, m)
                     /\ m.type = "NewTunnel" /\ m.url = u => m.req = t.req /\ m.protocol = t.protocol
    PROVE  LeadsTo(u, t)'
<1>1. \A n, k : LocalAddr(n, k)' = LocalAddr(n, k)
  BY DEF LocalAddr, Config
<1>2. (u \in heard => tunnels[u].local = LocalAddr(t.req, t.protocol))'
  BY <1>1 DEF LeadsTo
<1>3. ASSUME NEW i \in 1..Len(inbox'), inbox'[i].type = "NewTunnel", inbox'[i].url = u
      PROVE  inbox'[i].req = t.req /\ inbox'[i].protocol = t.protocol
  <2>1. CASE UNCHANGED inbox
    BY <1>3, <2>1 DEF LeadsTo
  <2>2. CASE inbox # <<>> /\ inbox' = Tail(inbox)
    <3>1. inbox'[i] = inbox[i + 1] /\ i + 1 \in 1..Len(inbox)
      BY <2>2, Queues
    <3> QED BY <1>3, <3>1 DEF LeadsTo
  <2>3. CASE inbox' = <<>>
    BY <2>3, Queues
  <2>4. ASSUME NEW m, inbox' = Append(inbox, m),
               m.type = "NewTunnel" /\ m.url = u => m.req = t.req /\ m.protocol = t.protocol
        PROVE  inbox'[i].req = t.req /\ inbox'[i].protocol = t.protocol
    <3>1. CASE i = Len(inbox) + 1
      BY <1>3, <2>4, <3>1, Queues
    <3>2. CASE i \in 1..Len(inbox)
      BY <1>3, <2>4, <3>2, Queues DEF LeadsTo
    <3>3. i \in 1..Len(inbox) + 1
      BY <2>4, Queues
    <3> QED BY <3>1, <3>2, <3>3, Queues
  <2> QED BY <2>1, <2>2, <2>3, <2>4
<1> QED BY <1>2, <1>3 DEF LeadsTo

UrlInv == IsQueue(inbox) /\ ToldIsRegistered /\ VisitsAreRegistered

\* The configuration never changes.
LEMMA ConfIsFixed == [Next]_vars => UNCHANGED <<found, opts, conf>>
<1> SUFFICES ASSUME [Next]_vars PROVE UNCHANGED <<found, opts, conf>>
  OBVIOUS
<1> USE DEF saving
<1>1. CASE UNCHANGED vars
  BY <1>1 DEF vars
<1>2. CASE ClientModelRun
  BY <1>2 DEF ClientModelRun, Dial, Authenticates, Save, Fill, Request, Backoff, ModelQuits, Sends,
              NewTunnel, NewTunnelError, ReqProxy, ReadFails
<1>3. CASE Registers \/ Refuses \/ AsksForProxy \/ Lost
  BY <1>3 DEF Registers, Refuses, AsksForProxy, Lost
<1>4. ASSUME NEW p \in Proxies, proxy(p) PROVE UNCHANGED <<found, opts, conf>>
  BY <1>4 DEF proxy, ProxyDials, StartProxy, ProxyFails, ProxyLooksUp, ProxyDialsLocal, ProxyUpdates,
              JoinEnds, ProxyOnly
<1>5. CASE LoopStarts \/ Exits \/ TermViewRun
  BY <1>5 DEF LoopStarts, Exits, TermViewRun, PrintsStatus, PrintsTunnels, ViewEnds, UnRegisters
<1>6. ASSUME NEW i \in 1..MaxShutdowns, doShutdown(i) PROVE UNCHANGED <<found, opts, conf>>
  BY <1>6 DEF doShutdown, CloseView, PanicQuits
<1> QED BY <1>1, <1>2, <1>3, <1>4, <1>5, <1>6 DEF Next

\* A session begins or ends: nothing is on its way, nothing has been heard.
Cleared ==
    /\ inbox' = <<>> /\ srv' = Nobody /\ heard' = {}
    /\ (link' # "up" /\ session' = session) \/ session' = session + 1
    /\ UNCHANGED <<tunnels, proxies>>

\* What each step does to the URLs, the messages and the visitors.
LEMMA UrlSteps ==
    ASSUME [Next]_vars
    PROVE  \/ UNCHANGED <<tunnels, heard, inbox, srv, link, session, proxies>>
           \/ Cleared
           \/ NewTunnel \/ NewTunnelError \/ ReqProxy
           \/ Registers \/ Refuses \/ AsksForProxy \/ Lost
           \/ \E q \in Proxies : proxy(q)
<1> USE DEF model, wire, Breaks, Gone
<1>1. CASE UNCHANGED vars
  BY <1>1 DEF vars
<1>2. CASE Dial
  BY <1>2 DEF Dial, Cleared
<1>3. CASE Authenticates \/ Request \/ ReadFails
  BY <1>3 DEF Authenticates, Request, ReadFails, Cleared
<1>4. CASE ModelQuits
  BY <1>4 DEF ModelQuits, Cleared
<1>5. CASE Save \/ Fill \/ Backoff \/ Sends("authed", "save") \/ Sends("online", "loop")
           \/ Sends("again", "dial")
  BY <1>5 DEF Save, Fill, Backoff, Sends
<1>6. CASE LoopStarts \/ Exits \/ TermViewRun
  BY <1>6 DEF LoopStarts, Exits, TermViewRun, PrintsStatus, PrintsTunnels, ViewEnds, UnRegisters
<1>7. ASSUME NEW i \in 1..MaxShutdowns, doShutdown(i)
      PROVE  UNCHANGED <<tunnels, heard, inbox, srv, link, session, proxies>>
  BY <1>7 DEF doShutdown, CloseView, PanicQuits
<1> QED BY <1>1, <1>2, <1>3, <1>4, <1>5, <1>6, <1>7 DEF Next, ClientModelRun

\* The visitors that a step lets be, or that it lets begin.
LEMMA VisitsStay ==
    ASSUME VisitsAreRegistered, UNCHANGED conf, DOMAIN proxies' = Proxies,
           session' \in {session, session + 1},
           \A q \in Proxies : proxies'[q] = proxies[q] \/ proxies'[q].pc = "dial",
           \A q \in Proxies :
               proxies'[q] = proxies[q] /\ proxies[q].pc = "start" /\ proxies[q].session = session' =>
               /\ LeadsTo(proxies[q].url, proxies[q].for)'
               /\ link' = "up" => /\ proxies[q].url \in DOMAIN srv'
                                  /\ srv'[proxies[q].url] = proxies[q].for
    PROVE  VisitsAreRegistered'
<1> USE DEF VisitsAreRegistered
<1>1. session' \in Nat /\ session \in Nat /\ session <= session'
  OBVIOUS
<1>2. ASSUME NEW q \in Proxies PROVE VisitShape(proxies[q])'
  <2>1. CASE proxies'[q].pc = "dial"
    BY <2>1 DEF VisitShape
  <2>2. CASE proxies'[q] = proxies[q]
    <3>1. VisitShape(proxies[q])
      OBVIOUS
    <3> QED BY <1>1, <2>2, <3>1 DEF VisitShape
  <2> QED BY <2>1, <2>2
<1>3. ASSUME NEW q \in Proxies, proxies'[q].pc = "start" /\ proxies'[q].session = session'
      PROVE  /\ LeadsTo(proxies[q].url, proxies[q].for)'
             /\ link' = "up" => proxies'[q].url \in DOMAIN srv' /\ srv'[proxies'[q].url] = proxies'[q].for
  <2>1. proxies'[q] = proxies[q]
    BY <1>3
  <2>2. /\ LeadsTo(proxies[q].url, proxies[q].for)'
        /\ link' = "up" => proxies[q].url \in DOMAIN srv' /\ srv'[proxies[q].url] = proxies[q].for
    BY <1>3, <2>1
  <2> QED BY <2>1, <2>2 DEF LeadsTo
<1>4. ASSUME NEW q \in Proxies, proxies'[q].pc \in {"local", "update", "joined", "last"} /\ proxies'[q].heard
      PROVE  proxies'[q].local = LocalAddr(proxies[q].for.req, proxies[q].for.protocol)'
  <2>1. proxies'[q] = proxies[q]
    BY <1>4
  <2>2. proxies[q].local = LocalAddr(proxies[q].for.req, proxies[q].for.protocol)
    BY <1>4, <2>1
  <2> QED BY <2>1, <2>2 DEF LocalAddr, Config
<1> QED BY <1>1, <1>2, <1>3, <1>4

\* Reading, sending and losing messages.
LEMMA MessagesKeepUrls ==
    ASSUME UrlInv, UNCHANGED conf, UNCHANGED session,
           DOMAIN proxies' = Proxies,
           \A q \in Proxies : proxies'[q] = proxies[q] \/ proxies'[q].pc = "dial",
           \/ UNCHANGED <<tunnels, heard, srv, link>> /\ (UNCHANGED inbox \/ (inbox # <<>> /\ inbox' = Tail(inbox)))
           \/ /\ UNCHANGED <<tunnels, heard, srv, link>>
              /\ \E m : m.type # "NewTunnel" /\ inbox' = Append(inbox, m)
           \/ UNCHANGED <<tunnels, heard, inbox>> /\ srv' = Nobody /\ link' = "lost"
    PROVE  UrlInv'
<1> USE DEF UrlInv
<1>1. IsQueue(inbox')
  <2>1. IsQueue(inbox) /\ (inbox # <<>> => IsQueue(Tail(inbox)))
    BY Queues
  <2>2. \A m : IsQueue(Append(inbox, m))
    BY Queues
  <2> QED BY <2>1, <2>2
<1>2. ASSUME NEW u, NEW t, LeadsTo(u, t) PROVE LeadsTo(u, t)'
  <2>1. u \in heard' => tunnels'[u].local = LocalAddr(t.req, t.protocol)
    BY <1>2 DEF LeadsTo
  <2>2. \/ UNCHANGED inbox
        \/ inbox # <<>> /\ inbox' = Tail(inbox)
        \/ inbox' = <<>>
        \/ \E m : /\ inbox' = Append(inbox, m)
                  /\ m.type = "NewTunnel" /\ m.url = u => m.req = t.req /\ m.protocol = t.protocol
    OBVIOUS
  <2> QED BY <1>2, <2>1, <2>2, LeadsToStays
<1>3. \A u \in DOMAIN srv' : u \in DOMAIN srv /\ srv'[u] = srv[u]
  BY DEF Nobody
<1>4. ToldIsRegistered'
  <2>1. heard' \subseteq DOMAIN tunnels' /\ (link' # "up" => DOMAIN srv' = {})
    BY DEF ToldIsRegistered, Nobody
  <2>2. ASSUME NEW u \in DOMAIN srv' PROVE LeadsTo(u, srv[u])'
    <3>1. LeadsTo(u, srv[u])
      BY <1>3 DEF ToldIsRegistered
    <3>2. PICK t : t = srv[u]
      OBVIOUS
    <3>3. LeadsTo(u, t)'
      BY <1>2, <3>1, <3>2
    <3>4. srv'[u] = t
      BY <1>3, <3>2
    <3> QED BY <3>3, <3>4 DEF LeadsTo
  <2>3. ASSUME link' = "up" PROVE heard' \subseteq DOMAIN srv'
    BY <2>3 DEF ToldIsRegistered
  <2>4. ASSUME link' = "up", NEW i \in 1..Len(inbox'), inbox'[i].type = "NewTunnel"
        PROVE  inbox'[i].url \in DOMAIN srv'
    <3>1. link = "up" /\ srv' = srv
      BY <2>4
    <3>2. CASE UNCHANGED inbox
      BY <2>4, <3>1, <3>2 DEF ToldIsRegistered
    <3>3. CASE inbox # <<>> /\ inbox' = Tail(inbox)
      <4>1. inbox'[i] = inbox[i + 1] /\ i + 1 \in 1..Len(inbox)
        BY <3>3, Queues
      <4> QED BY <2>4, <3>1, <4>1 DEF ToldIsRegistered
    <3>4. ASSUME NEW m, m.type # "NewTunnel", inbox' = Append(inbox, m)
          PROVE  inbox'[i].url \in DOMAIN srv'
      <4>1. i \in 1..Len(inbox) /\ inbox'[i] = inbox[i]
        BY <2>4, <3>4, Queues
      <4> QED BY <2>4, <3>1, <4>1 DEF ToldIsRegistered
    <3> QED BY <2>4, <3>2, <3>3, <3>4
  <2> QED BY <2>1, <2>2, <2>3, <2>4 DEF ToldIsRegistered
<1>5. ASSUME NEW q \in Proxies, proxies'[q] = proxies[q],
             proxies[q].pc = "start" /\ proxies[q].session = session'
      PROVE  /\ LeadsTo(proxies[q].url, proxies[q].for)'
             /\ link' = "up" => /\ proxies[q].url \in DOMAIN srv'
                                /\ srv'[proxies[q].url] = proxies[q].for
  <2>1. PICK u, t : u = proxies[q].url /\ t = proxies[q].for
    OBVIOUS
  <2>2. LeadsTo(u, t) /\ (link = "up" => u \in DOMAIN srv /\ srv[u] = t)
    BY <1>5, <2>1 DEF VisitsAreRegistered
  <2>3. LeadsTo(u, t)'
    BY <1>2, <2>2
  <2>4. u = proxies'[q].url /\ t = proxies'[q].for
    BY <1>5, <2>1
  <2>5. link' = "up" => link = "up" /\ srv' = srv
    OBVIOUS
  <2> QED BY <2>1, <2>2, <2>3, <2>4, <2>5 DEF LeadsTo
<1>6. VisitsAreRegistered'
  BY <1>5, VisitsStay
<1> QED BY <1>1, <1>4, <1>6

\* A session that begins or ends: whatever was sent to a visitor of an older one no longer counts.
LEMMA ClearingKeepsUrls == UrlInv /\ UNCHANGED conf /\ Cleared => UrlInv'
<1> SUFFICES ASSUME UrlInv, UNCHANGED conf, Cleared PROVE UrlInv'
  OBVIOUS
<1> USE DEF UrlInv, Cleared
<1>1. IsQueue(inbox') /\ Len(inbox') = 0
  BY Queues
<1>2. DOMAIN srv' = {}
  BY DEF Nobody
<1>3. ToldIsRegistered'
  BY <1>1, <1>2 DEF ToldIsRegistered
<1>4. ASSUME NEW q \in Proxies, proxies[q].pc = "start" /\ proxies[q].session = session'
      PROVE  /\ LeadsTo(proxies[q].url, proxies[q].for)'
             /\ link' = "up" => /\ proxies[q].url \in DOMAIN srv'
                                /\ srv'[proxies[q].url] = proxies[q].for
  <2>1. session \in Nat /\ proxies[q].session \in 0..session
    BY <1>4 DEF VisitsAreRegistered, VisitShape
  <2>2. session' = session /\ link' # "up"
    BY <1>4, <2>1
  <2>3. LeadsTo(proxies[q].url, proxies[q].for)'
    BY <1>1 DEF LeadsTo
  <2> QED BY <2>2, <2>3
<1>5. VisitsAreRegistered'
  <2>1. DOMAIN proxies' = Proxies
    BY DEF VisitsAreRegistered
  <2> QED BY <1>4, <2>1, VisitsStay
<1> QED BY <1>1, <1>3, <1>5

\* The control loop hears of a URL: it is taken down as leading where the server has it lead.
LEMMA NewTunnelKeepsUrls == UrlInv /\ UNCHANGED conf /\ NewTunnel => UrlInv'
<1> SUFFICES ASSUME UrlInv, UNCHANGED conf, NewTunnel PROVE UrlInv'
  OBVIOUS
<1> USE DEF UrlInv
<1>1. PICK m : m = Head(inbox)
  OBVIOUS
<1>2. /\ inbox # <<>> /\ m.type = "NewTunnel" /\ m = inbox[1] /\ 1 \in 1..Len(inbox)
      /\ inbox' = Tail(inbox) /\ IsQueue(inbox')
      /\ UNCHANGED <<srv, link, session, proxies>>
  BY <1>1, Queues DEF NewTunnel, Heads, Read
<1>3. /\ tunnels' = With(tunnels, m.url, [local |-> LocalAddr(m.req, m.protocol)])
      /\ heard' = heard \cup {m.url}
  BY <1>1 DEF NewTunnel
<1>4. /\ DOMAIN tunnels' = DOMAIN tunnels \cup {m.url}
      /\ tunnels'[m.url].local = LocalAddr(m.req, m.protocol)
      /\ \A u \in DOMAIN tunnels : u # m.url => tunnels'[u] = tunnels[u]
  BY <1>3 DEF With
<1>5. ASSUME NEW u, NEW t, LeadsTo(u, t) PROVE LeadsTo(u, t)'
  <2>1. u = m.url => t.req = m.req /\ t.protocol = m.protocol
    BY <1>2, <1>5 DEF LeadsTo
  <2>2. u \in heard' => tunnels'[u].local = LocalAddr(t.req, t.protocol)
    BY <1>3, <1>4, <1>5, <2>1 DEF LeadsTo, ToldIsRegistered
  <2> QED BY <1>2, <1>5, <2>2, LeadsToStays
<1>6. ToldIsRegistered'
  <2>1. ASSUME NEW u \in DOMAIN srv PROVE LeadsTo(u, srv[u])'
    <3>1. PICK t : t = srv[u]
      OBVIOUS
    <3>2. LeadsTo(u, t)'
      BY <1>5, <2>1, <3>1 DEF ToldIsRegistered
    <3> QED BY <1>2, <3>1, <3>2
  <2>2. ASSUME link = "up", NEW i \in 1..Len(inbox'), inbox'[i].type = "NewTunnel"
        PROVE  inbox'[i].url \in DOMAIN srv
    <3>1. inbox'[i] = inbox[i + 1] /\ i + 1 \in 1..Len(inbox)
      BY <1>2, Queues
    <3> QED BY <2>2, <3>1 DEF ToldIsRegistered
  <2>3. heard' \subseteq DOMAIN tunnels' /\ (link = "up" => heard' \subseteq DOMAIN srv)
    BY <1>2, <1>3, <1>4 DEF ToldIsRegistered
  <2>4. link # "up" => DOMAIN srv = {}
    BY DEF ToldIsRegistered
  <2> QED BY <1>2, <2>1, <2>2, <2>3, <2>4 DEF ToldIsRegistered
<1>7. VisitsAreRegistered'
  <2>1. ASSUME NEW q \in Proxies, proxies'[q] = proxies[q],
               proxies[q].pc = "start" /\ proxies[q].session = session'
        PROVE  /\ LeadsTo(proxies[q].url, proxies[q].for)'
               /\ link' = "up" => /\ proxies[q].url \in DOMAIN srv'
                                  /\ srv'[proxies[q].url] = proxies[q].for
    <3>1. PICK u, t : u = proxies[q].url /\ t = proxies[q].for
      OBVIOUS
    <3>2. LeadsTo(u, t)' /\ (link = "up" => u \in DOMAIN srv /\ srv[u] = t)
      BY <1>2, <1>5, <2>1, <3>1 DEF VisitsAreRegistered
    <3> QED BY <1>2, <3>1, <3>2
  <2>2. DOMAIN proxies' = Proxies
    BY <1>2 DEF VisitsAreRegistered
  <2> QED BY <1>2, <2>1, <2>2, VisitsStay
<1> QED BY <1>2, <1>6, <1>7

\* The server registers a URL that it has not registered in this session.
LEMMA RegistersKeepsUrls == UrlInv /\ UNCHANGED conf /\ Registers => UrlInv'
<1> SUFFICES ASSUME UrlInv, UNCHANGED conf, Registers PROVE UrlInv'
  OBVIOUS
<1> USE DEF UrlInv
<1>0. PICK v \in Urls \ DOMAIN srv : \E n, k :
        /\ srv' = With(srv, v, [req |-> n, protocol |-> k])
        /\ inbox' = Append(inbox, [type |-> "NewTunnel", url |-> v, req |-> n, protocol |-> k])
  BY DEF Registers, Delivers
<1>1. PICK n, k :
        /\ srv' = With(srv, v, [req |-> n, protocol |-> k])
        /\ inbox' = Append(inbox, [type |-> "NewTunnel", url |-> v, req |-> n, protocol |-> k])
  BY <1>0
<1>2. link = "up" /\ UNCHANGED <<tunnels, link, heard, session, proxies>>
  BY DEF Registers, model
<1>3. /\ DOMAIN srv' = DOMAIN srv \cup {v}
      /\ srv'[v] = [req |-> n, protocol |-> k]
      /\ \A u \in DOMAIN srv : srv'[u] = srv[u]
  BY <1>1 DEF With
<1>4. IsQueue(inbox')
  BY <1>1, Queues
<1>5. ASSUME NEW u, NEW t, LeadsTo(u, t), u = v => t.req = n /\ t.protocol = k PROVE LeadsTo(u, t)'
  <2>1. u \in heard' => tunnels'[u].local = LocalAddr(t.req, t.protocol)
    BY <1>2, <1>5 DEF LeadsTo
  <2>2. \E m : /\ inbox' = Append(inbox, m)
               /\ m.type = "NewTunnel" /\ m.url = u => m.req = t.req /\ m.protocol = t.protocol
    BY <1>1, <1>5
  <2> QED BY <1>5, <2>1, <2>2, LeadsToStays
<1>6. \A t : LeadsTo(v, t)
  BY <1>2 DEF LeadsTo, ToldIsRegistered
<1>7. ToldIsRegistered'
  <2>1. ASSUME NEW u \in DOMAIN srv' PROVE LeadsTo(u, srv[u])'
    <3>1. PICK t : t = srv'[u]
      OBVIOUS
    <3>2. LeadsTo(u, t)
      BY <1>3, <1>6, <3>1 DEF ToldIsRegistered
    <3>3. u = v => t.req = n /\ t.protocol = k
      BY <1>3, <3>1
    <3>4. LeadsTo(u, t)'
      BY <1>5, <3>2, <3>3
    <3> QED BY <3>1, <3>4
  <2>2. ASSUME NEW i \in 1..Len(inbox'), inbox'[i].type = "NewTunnel" PROVE inbox'[i].url \in DOMAIN srv'
    <3>1. i \in 1..Len(inbox) + 1
      BY <1>1, Queues
    <3>2. CASE i = Len(inbox) + 1
      BY <1>1, <1>3, <3>2, Queues
    <3>3. CASE i \in 1..Len(inbox)
      <4>1. inbox'[i] = inbox[i]
        BY <1>1, <3>3, Queues
      <4> QED BY <1>2, <1>3, <2>2, <3>3, <4>1 DEF ToldIsRegistered
    <3> QED BY <3>1, <3>2, <3>3, Queues
  <2> QED BY <1>2, <1>3, <2>1, <2>2 DEF ToldIsRegistered
<1>8. VisitsAreRegistered'
  <2>1. ASSUME NEW q \in Proxies, proxies'[q] = proxies[q],
               proxies[q].pc = "start" /\ proxies[q].session = session'
        PROVE  /\ LeadsTo(proxies[q].url, proxies[q].for)'
               /\ link' = "up" => /\ proxies[q].url \in DOMAIN srv'
                                  /\ srv'[proxies[q].url] = proxies[q].for
    <3>1. PICK u, t : u = proxies[q].url /\ t = proxies[q].for
      OBVIOUS
    <3>2. LeadsTo(u, t) /\ u \in DOMAIN srv /\ srv[u] = t
      BY <1>2, <2>1, <3>1 DEF VisitsAreRegistered
    <3>3. LeadsTo(u, t)'
      BY <1>5, <3>2
    <3> QED BY <1>2, <1>3, <3>1, <3>2, <3>3
  <2>2. DOMAIN proxies' = Proxies
    BY <1>2 DEF VisitsAreRegistered
  <2> QED BY <1>2, <2>1, <2>2, VisitsStay
<1> QED BY <1>4, <1>7, <1>8

\* A visitor goes on: to r.
LEMMA VisitGoesOn ==
    ASSUME VisitsAreRegistered, UNCHANGED <<conf, link, session, srv, heard, inbox, tunnels>>,
           NEW q \in Proxies, NEW r, proxies' = [proxies EXCEPT ![q] = r],
           VisitShape(r),
           r.pc = "start" => LeadsTo(r.url, r.for) /\ r.url \in DOMAIN srv /\ srv[r.url] = r.for,
           r.pc \in {"local", "update", "joined", "last"} /\ r.heard =>
               r.local = LocalAddr(r.for.req, r.for.protocol)
    PROVE  VisitsAreRegistered'
<1> USE DEF VisitsAreRegistered
<1>1. DOMAIN proxies' = Proxies /\ proxies'[q] = r /\ \A z \in Proxies : z # q => proxies'[z] = proxies[z]
  OBVIOUS
<1>2. /\ \A x : VisitShape(x) => VisitShape(x)'
      /\ \A u, t : LeadsTo(u, t) => LeadsTo(u, t)'
      /\ \A n, k : LocalAddr(n, k)' = LocalAddr(n, k)
  BY DEF VisitShape, LeadsTo, LocalAddr, Config
<1>3. ASSUME NEW z \in Proxies
      PROVE  \E x : /\ x = proxies'[z] /\ VisitShape(x)
                    /\ x.pc = "start" /\ x.session = session =>
                          LeadsTo(x.url, x.for) /\ (link = "up" => x.url \in DOMAIN srv /\ srv[x.url] = x.for)
                    /\ x.pc \in {"local", "update", "joined", "last"} /\ x.heard =>
                          x.local = LocalAddr(x.for.req, x.for.protocol)
  BY <1>1
<1>4. ASSUME NEW z \in Proxies
      PROVE  /\ VisitShape(proxies[z])'
             /\ proxies'[z].pc = "start" /\ proxies'[z].session = session' =>
                  /\ LeadsTo(proxies[z].url, proxies[z].for)'
                  /\ link' = "up" =>
                      proxies'[z].url \in DOMAIN srv' /\ srv'[proxies'[z].url] = proxies'[z].for
             /\ proxies'[z].pc \in {"local", "update", "joined", "last"} /\ proxies'[z].heard =>
                  proxies'[z].local = LocalAddr(proxies[z].for.req, proxies[z].for.protocol)'
  <2>1. PICK x : /\ x = proxies'[z] /\ VisitShape(x)
                 /\ x.pc = "start" /\ x.session = session =>
                       LeadsTo(x.url, x.for) /\ (link = "up" => x.url \in DOMAIN srv /\ srv[x.url] = x.for)
                 /\ x.pc \in {"local", "update", "joined", "last"} /\ x.heard =>
                       x.local = LocalAddr(x.for.req, x.for.protocol)
    BY <1>3
  <2>2. /\ VisitShape(x)'
        /\ LeadsTo(x.url, x.for) => LeadsTo(x.url, x.for)'
        /\ LocalAddr(x.for.req, x.for.protocol)' = LocalAddr(x.for.req, x.for.protocol)
    BY <1>2, <2>1
  <2> QED BY <2>1, <2>2
<1> QED BY <1>1, <1>4

\* The goroutine of a visitor: it is told where to go by the server, and what the client has heard.
LEMMA ProxyKeepsUrls ==
    ASSUME UrlInv, UNCHANGED conf, NEW q \in Proxies, proxy(q)
    PROVE  UrlInv'
<1> USE DEF UrlInv, ProxyOnly, Becomes, wire, model
<1>1. UNCHANGED <<link, session, srv, heard, inbox, tunnels>>
  BY DEF proxy, ProxyDials, StartProxy, ProxyFails, ProxyLooksUp, ProxyDialsLocal, ProxyUpdates, JoinEnds
<1>2. ToldIsRegistered' /\ IsQueue(inbox')
  BY <1>1 DEF ToldIsRegistered, LeadsTo, LocalAddr, Config
<1> SUFFICES VisitsAreRegistered'
  BY <1>2
<1>3. /\ session \in Nat
      /\ proxies[q].pc \in {"local", "update", "joined", "last"} =>
            proxies[q] = [pc |-> proxies[q].pc, for |-> proxies[q].for,
                          local |-> proxies[q].local, heard |-> proxies[q].heard]
      /\ proxies[q].pc \in {"local", "update", "joined", "last"} /\ proxies[q].heard =>
            proxies[q].local = LocalAddr(proxies[q].for.req, proxies[q].for.protocol)
  BY DEF VisitsAreRegistered, VisitShape
<1>4. ASSUME proxies' = [proxies EXCEPT ![q] = Free] PROVE VisitsAreRegistered'
  <2>1. VisitShape(Free) /\ Free.pc = "free"
    BY DEF VisitShape, Free
  <2> QED BY <1>1, <1>4, <2>1, VisitGoesOn
<1>5. ASSUME NEW h \in {"update", "joined", "last"}, proxies[q].pc \in {"local", "update", "joined"},
             proxies' = [proxies EXCEPT ![q] = [proxies[q] EXCEPT !.pc = h]]
      PROVE  VisitsAreRegistered'
  <2>1. PICK r : r = [pc |-> h, for |-> proxies[q].for,
                      local |-> proxies[q].local, heard |-> proxies[q].heard]
    OBVIOUS
  <2>2. [proxies[q] EXCEPT !.pc = h] = r
    BY <1>3, <1>5, <2>1
  <2>3. VisitShape(r) /\ r.pc = h
    BY <2>1 DEF VisitShape
  <2>4. r.heard => r.local = LocalAddr(r.for.req, r.for.protocol)
    BY <1>3, <1>5, <2>1
  <2> QED BY <1>1, <1>5, <2>2, <2>3, <2>4, VisitGoesOn
<1>6. CASE ProxyDials(q)
  <2>1. CASE link = "up"
    <3>1. PICK r : r = [pc |-> "wait", session |-> session]
      OBVIOUS
    <3>2. VisitShape(r) /\ r.pc = "wait"
      BY <1>3, <3>1 DEF VisitShape
    <3> QED BY <1>1, <1>6, <2>1, <3>1, <3>2, VisitGoesOn DEF ProxyDials
  <2>2. CASE link # "up"
    BY <1>4, <1>6, <2>2 DEF ProxyDials
  <2> QED BY <2>1, <2>2
<1>7. CASE StartProxy(q)
  <2>1. PICK u \in DOMAIN srv :
            proxies' = [proxies EXCEPT ![q] = [pc |-> "start", session |-> session, url |-> u, for |-> srv[u]]]
    BY <1>7 DEF StartProxy
  <2>2. PICK r : r = [pc |-> "start", session |-> session, url |-> u, for |-> srv[u]]
    OBVIOUS
  <2>3. VisitShape(r) /\ r.pc = "start" /\ r.url = u /\ r.for = srv[u]
    BY <1>3, <2>2 DEF VisitShape
  <2>4. LeadsTo(u, srv[u])
    BY DEF ToldIsRegistered
  <2> QED BY <1>1, <2>1, <2>2, <2>3, <2>4, VisitGoesOn
<1>8. CASE ProxyFails(q)
  BY <1>4, <1>8 DEF ProxyFails
<1>9. CASE ProxyLooksUp(q)
  <2>1. PICK s : s = proxies[q]
    OBVIOUS
  <2>2. CASE s.url \notin DOMAIN tunnels
    BY <1>4, <1>9, <2>1, <2>2 DEF ProxyLooksUp
  <2>3. CASE s.url \in DOMAIN tunnels
    <3>1. PICK r : r = [pc |-> "local", for |-> s.for, local |-> tunnels[s.url].local,
                        heard |-> s.session = session /\ s.url \in heard]
      OBVIOUS
    <3>2. s.pc = "start" /\ proxies' = [proxies EXCEPT ![q] = r]
      BY <1>9, <2>1, <2>3, <3>1 DEF ProxyLooksUp
    <3>3. VisitShape(r) /\ r.pc = "local"
      BY <3>1 DEF VisitShape
    <3>4. s.session = session => LeadsTo(s.url, s.for)
      BY <2>1, <3>2 DEF VisitsAreRegistered
    <3>5. r.heard => r.local = LocalAddr(r.for.req, r.for.protocol)
      BY <3>1, <3>4 DEF LeadsTo
    <3> QED BY <1>1, <3>2, <3>3, <3>5, VisitGoesOn
  <2> QED BY <2>2, <2>3
<1>10. CASE ProxyDialsLocal(q)
  BY <1>5, <1>10 DEF ProxyDialsLocal
<1>11. CASE ProxyUpdates(q)
  BY <1>4, <1>5, <1>11 DEF ProxyUpdates
<1>12. CASE JoinEnds(q)
  BY <1>5, <1>12 DEF JoinEnds
<1> QED BY <1>6, <1>7, <1>8, <1>9, <1>10, <1>11, <1>12 DEF proxy

\* Every step keeps what is told of the URLs.
LEMMA UrlInvNext == UrlInv /\ [Next]_vars => UrlInv'
<1> SUFFICES ASSUME UrlInv, [Next]_vars PROVE UrlInv'
  OBVIOUS
<1>1. UNCHANGED conf /\ DOMAIN proxies = Proxies
  BY ConfIsFixed DEF UrlInv, VisitsAreRegistered
<1>2. CASE UNCHANGED <<tunnels, heard, inbox, srv, link, session, proxies>>
  BY <1>1, <1>2, MessagesKeepUrls
<1>3. CASE Cleared
  BY <1>1, <1>3, ClearingKeepsUrls
<1>4. CASE NewTunnel
  BY <1>1, <1>4, NewTunnelKeepsUrls
<1>5. CASE NewTunnelError
  BY <1>1, <1>5, MessagesKeepUrls DEF NewTunnelError, Heads, Read
<1>6. CASE ReqProxy
  <2>1. PICK q \in Proxies : proxies' = [proxies EXCEPT ![q] = [pc |-> "dial"]]
    BY <1>6 DEF ReqProxy
  <2>2. /\ DOMAIN proxies' = Proxies
        /\ \A z \in Proxies : proxies'[z] = proxies[z] \/ proxies'[z].pc = "dial"
    BY <1>1, <2>1
  <2>3. inbox # <<>> /\ inbox' = Tail(inbox) /\ UNCHANGED <<tunnels, heard, srv, link, session>>
    BY <1>6 DEF ReqProxy, Heads, Read, model
  <2> QED BY <1>1, <2>2, <2>3, MessagesKeepUrls
<1>7. CASE Registers
  BY <1>1, <1>7, RegistersKeepsUrls
<1>8. CASE Refuses
  <2>1. UNCHANGED <<tunnels, heard, srv, link, session, proxies>> /\ inbox' = Append(inbox, [type |-> "Error"])
    BY <1>8 DEF Refuses, Delivers, model
  <2> QED BY <1>1, <2>1, MessagesKeepUrls
<1>9. CASE AsksForProxy
  <2>1. /\ UNCHANGED <<tunnels, heard, srv, link, session, proxies>>
        /\ inbox' = Append(inbox, [type |-> "ReqProxy"])
    BY <1>9 DEF AsksForProxy, Delivers, model
  <2> QED BY <1>1, <2>1, MessagesKeepUrls
<1>10. CASE Lost
  BY <1>1, <1>10, MessagesKeepUrls DEF Lost, model
<1>11. ASSUME NEW q \in Proxies, proxy(q) PROVE UrlInv'
  BY <1>1, <1>11, ProxyKeepsUrls
<1> QED BY <1>2, <1>3, <1>4, <1>5, <1>6, <1>7, <1>8, <1>9, <1>10, <1>11, UrlSteps

(***************************************************************************)
(* A visitor of a URL that the client has heard of in this session is      *)
(* taken to the local address of the tunnel the server registered it for:  *)
(* NewTunnel overwrites what a session before left in c.tunnels            *)
(* (model.go:329), and a URL of one session, once registered, leads to one *)
(* tunnel until the session ends.                                          *)
(***************************************************************************)
THEOREM AnnouncedUrlsStayHome == Spec => []AnnouncedUrlsLeadHome
<1>1. Init => UrlInv
  <2> SUFFICES ASSUME Init PROVE UrlInv
    OBVIOUS
  <2>1. /\ inbox = <<>> /\ srv = Nobody /\ heard = {} /\ session = 0 /\ link = "none"
        /\ proxies = [q \in Proxies |-> Free]
    BY DEF Init
  <2>2. IsQueue(<<>>) /\ Len(<<>>) = 0
    <3>1. <<>> \in Seq({}) /\ Len(<<>>) = 0
      OBVIOUS
    <3> QED BY <3>1 DEF IsQueue
  <2>3. DOMAIN srv = {} /\ Free.pc = "free"
    BY <2>1 DEF Nobody, Free
  <2>4. ToldIsRegistered
    BY <2>1, <2>2, <2>3 DEF ToldIsRegistered
  <2>5. VisitsAreRegistered
    BY <2>1, <2>3 DEF VisitsAreRegistered, VisitShape
  <2> QED BY <2>1, <2>2, <2>4, <2>5 DEF UrlInv
<1>2. UrlInv => AnnouncedUrlsLeadHome
  BY DEF UrlInv, VisitsAreRegistered, AnnouncedUrlsLeadHome
<1> QED BY <1>1, <1>2, UrlInvNext, PTL DEF Spec
-----------------------------------------------------------------------------
(***************************************************************************)
(* The configuration file: what a token is does not tell in what else a    *)
(* file means.                                                             *)
(***************************************************************************)
\* Main either fails, or says something, or loads the configuration.
LEMMA Starting ==
    ASSUME NEW f, NEW o
    PROVE  \/ ParseArgs(o.words) = "error" /\ Start(f, o) = Fails
           \/ ParseArgs(o.words) = "exit" /\ Start(f, o) = Listed
           \/ /\ ParseArgs(o.words) \in Commands \cup {"default"}
              /\ Start(f, o) = LoadConfiguration(f, o, ParseArgs(o.words), Args(o.words))
<1>1. ParseArgs(o.words) \in {"error", "exit", "default"} \cup Commands
  BY DEF ParseArgs
<1>2. CASE ParseArgs(o.words) = "error"
  BY <1>2 DEF Start, Commands
<1>3. CASE ParseArgs(o.words) = "exit"
  BY <1>3 DEF Start, Commands
<1>4. CASE ParseArgs(o.words) \in Commands \cup {"default"}
  BY <1>4 DEF Start, Commands
<1> QED BY <1>1, <1>2, <1>3, <1>4

\* A run that has a configuration has read the file, and has the token of the options or of the file.
LEMMA StartsWithAToken ==
    ASSUME NEW f, NEW o, Start(f, o).is = "config", IsConfig(Parsed(f))
    PROVE  /\ Parses(f)
           /\ Start(f, o).config.token = IF o.authtoken # "" THEN o.authtoken ELSE Parsed(f).token
<1>1. PICK command, args : Start(f, o) = LoadConfiguration(f, o, command, args)
  <2>1. Start(f, o) # Fails /\ Start(f, o) # Listed
    BY DEF Fails, Listed
  <2> QED BY <2>1, Starting
<1>2. Start(f, o) = File(Loaded(f, o, command, args)) /\ Loadable(f, o, command, args)
  BY <1>1 DEF LoadConfiguration, Fails, Listed
<1>3. Parses(f)
  BY <1>2 DEF Loadable
<1>4. PICK c : c = Parsed(f)
  OBVIOUS
<1>5. IsConfig(c)
  BY <1>4
<1>6. PICK c0 : c0 = Defaults(c)
  OBVIOUS
<1>7. IsConfig(c0) /\ c0.token = c.token
  BY <1>5, <1>6 DEF Defaults, IsConfig
<1>8. PICK c1 : c1 = Guarded(c0, o)
  OBVIOUS
<1>9. IsConfig(c1) /\ c1.token = c.token
  BY <1>7, <1>8 DEF Guarded, IsConfig
<1>10. PICK c2 : c2 = Normalized(c0, o)
  OBVIOUS
<1>11. IsConfig(c2) /\ c2.token = c.token
  BY <1>8, <1>9, <1>10 DEF Normalized, IsConfig
<1>12. Loaded(f, o, command, args).token = IF o.authtoken # "" THEN o.authtoken ELSE c.token
  BY <1>4, <1>6, <1>10, <1>11 DEF Loaded, IsConfig
<1>13. Start(f, o).config = Loaded(f, o, command, args)
  BY <1>2 DEF File
<1> QED BY <1>3, <1>4, <1>12, <1>13

\* No token; the options o with -authtoken t; the configuration c with the token t.
NoToken == ""
Given(o, t) == [o EXCEPT !.authtoken = t]
Tokened(c, t) == [c EXCEPT !.token = t]

\* A file with the token t, and the same file without, given -authtoken t, make the same run.
LEMMA TokenStandsForTheOption ==
    ASSUME NEW f, NEW g, NEW o, NEW t,
           Parses(f), Parses(g), IsConfig(Parsed(f)), IsOptions(o), ~o.explicit,
           Parsed(g) = Tokened(Parsed(f), t),
           t = NoToken => Parsed(f).token = NoToken
    PROVE  Start(g, Given(o, NoToken)) = Start(f, Given(o, t))
<1>1. PICK c, d, o1, o2 :
        c = Parsed(f) /\ d = Parsed(g) /\ o1 = Given(o, NoToken) /\ o2 = Given(o, t)
  OBVIOUS
<1>2. /\ o1.authtoken = "" /\ o2.authtoken = t
      /\ o1.explicit = o2.explicit /\ ~o1.explicit /\ o1.inspectauth = o2.inspectauth
      /\ o1.protocols = o2.protocols /\ o1.local = o2.local /\ o1.words = o2.words
      /\ o1.subdomain = o2.subdomain /\ o1.hostname = o2.hostname /\ o1.httpauth = o2.httpauth
  BY <1>1 DEF Given, NoToken, IsOptions
<1>3. /\ IsConfig(c) /\ IsConfig(d) /\ d.token = t
      /\ d.server = c.server /\ d.inspect = c.inspect /\ d.iauth = c.iauth
      /\ d.hproxy = c.hproxy /\ d.tunnels = c.tunnels
  BY <1>1 DEF Tokened, IsConfig
<1>4. PICK c0, d0 : c0 = Defaults(c) /\ d0 = Defaults(d)
  OBVIOUS
<1>5. /\ IsConfig(c0) /\ IsConfig(d0) /\ d0.token = t /\ c0.token = c.token
      /\ d0.server = c0.server /\ d0.inspect = c0.inspect /\ d0.iauth = c0.iauth
      /\ d0.hproxy = c0.hproxy /\ d0.tunnels = c0.tunnels
  BY <1>3, <1>4 DEF Defaults, IsConfig
<1>6. PICK c1, d1 : c1 = Guarded(c0, o2) /\ d1 = Guarded(d0, o1)
  OBVIOUS
<1>7. /\ IsConfig(c1) /\ IsConfig(d1) /\ d1.token = t /\ c1.token = c.token
      /\ d1.server = c1.server /\ d1.inspect = c1.inspect /\ d1.iauth = c1.iauth
      /\ d1.hproxy = c1.hproxy /\ d1.tunnels = c1.tunnels
  BY <1>2, <1>5, <1>6 DEF Guarded, IsConfig
<1>8. Valid(d0, o1) <=> Valid(c0, o2)
  BY <1>5, <1>6, <1>7 DEF Valid
<1>9. PICK c2, d2 : c2 = Normalized(c0, o2) /\ d2 = Normalized(d0, o1)
  OBVIOUS
<1>10. /\ IsConfig(c2) /\ IsConfig(d2) /\ d2.token = t /\ c2.token = c.token
       /\ d2.server = c2.server /\ d2.inspect = c2.inspect /\ d2.iauth = c2.iauth
       /\ d2.hproxy = c2.hproxy /\ d2.tunnels = c2.tunnels
  BY <1>5, <1>6, <1>7, <1>9 DEF Normalized, IsConfig
<1>11. ASSUME NEW command, NEW args
       PROVE  LoadConfiguration(g, o1, command, args) = LoadConfiguration(f, o2, command, args)
  <2>1. DefaultTunnel(o1) = DefaultTunnel(o2)
    BY <1>2 DEF DefaultTunnel
  <2>2. /\ Runnable(d2, o1, command, args) <=> Runnable(c2, o2, command, args)
        /\ ToRun(d2, o1, command, args) = ToRun(c2, o2, command, args)
    BY <1>2, <1>10, <2>1 DEF Runnable, ToRun
  <2>3. Loadable(g, o1, command, args) <=> Loadable(f, o2, command, args)
    BY <1>1, <1>2, <1>4, <1>8, <1>9, <2>2 DEF Loadable
  <2>4. /\ IF o2.authtoken # "" THEN o2.authtoken = t ELSE c2.token = t
        /\ o1.authtoken = ""
    BY <1>1, <1>2, <1>10 DEF NoToken
  <2>5. Loaded(g, o1, command, args) = [d2 EXCEPT !.token = t, !.tunnels = ToRun(d2, o1, command, args)]
    BY <1>1, <1>4, <1>9, <1>10, <2>4 DEF Loaded, IsConfig
  <2>6. Loaded(f, o2, command, args) = [c2 EXCEPT !.token = t, !.tunnels = ToRun(c2, o2, command, args)]
    BY <1>1, <1>4, <1>9, <1>10, <2>4 DEF Loaded, IsConfig
  <2>7. Loaded(g, o1, command, args) = Loaded(f, o2, command, args)
    <3>1. PICK ts : ts = ToRun(c2, o2, command, args)
      OBVIOUS
    <3>2. PICK x, y : /\ x = [d2 EXCEPT !.token = t, !.tunnels = ts]
                      /\ y = [c2 EXCEPT !.token = t, !.tunnels = ts]
      OBVIOUS
    <3>3. /\ IsConfig(x) /\ x.token = t /\ x.tunnels = ts /\ x.server = d2.server
          /\ x.inspect = d2.inspect /\ x.iauth = d2.iauth /\ x.hproxy = d2.hproxy
      BY <1>10, <3>2 DEF IsConfig
    <3>4. /\ IsConfig(y) /\ y.token = t /\ y.tunnels = ts /\ y.server = c2.server
          /\ y.inspect = c2.inspect /\ y.iauth = c2.iauth /\ y.hproxy = c2.hproxy
      BY <1>10, <3>2 DEF IsConfig
    <3>5. x = y
      BY <1>10, <3>3, <3>4 DEF IsConfig
    <3> QED BY <2>2, <2>5, <2>6, <3>1, <3>2, <3>5
  <2> QED BY <2>3, <2>7 DEF LoadConfiguration
<1>12. Start(g, o1) = Start(f, o2)
  <2>1. ParseArgs(o1.words) = ParseArgs(o2.words) /\ Args(o1.words) = Args(o2.words)
    BY <1>2
  <2>2. LoadConfiguration(g, o1, ParseArgs(o1.words), Args(o1.words)) =
            LoadConfiguration(f, o2, ParseArgs(o2.words), Args(o2.words))
    BY <1>11, <2>1
  <2>3. "error" \notin Commands \cup {"default"} /\ "exit" \notin Commands \cup {"default"}
    BY DEF Commands
  <2>4. CASE ParseArgs(o1.words) = "error"
    BY <2>1, <2>3, <2>4, Starting
  <2>5. CASE ParseArgs(o1.words) = "exit"
    BY <2>1, <2>3, <2>5, Starting
  <2>6. CASE ParseArgs(o1.words) \in Commands \cup {"default"}
    BY <2>1, <2>2, <2>3, <2>6, Starting
  <2> QED BY <2>4, <2>5, <2>6, Starting
<1> QED BY <1>1, <1>12

\* What SaveAuthToken makes of the file that was there.
WithToken == [Parsed(found) EXCEPT !.token = conf.config.token]

\* The file is what was found, or that with the token of this run; while it is written, draft is.
FileIsFoundOrSaved ==
    /\ \E s \in Starts : found = s.file /\ opts = s.opts
    /\ conf = Start(found, opts)
    /\ loop # "exited" => conf.is = "config"
    /\ conf.is = "config" =>
        /\ run # "fill" => file \in {found, Formatted(WithToken)}
        /\ run = "fill" => draft = WithToken

\* Only SaveAuthToken writes the file.
LEMMA OthersWriteNothing ==
    ASSUME [Next]_vars
    PROVE  /\ loop' # "exited" => loop # "exited"
           /\ \/ Save \/ Fill
              \/ UNCHANGED <<file, draft>> /\ (run = "fill" <=> run' = "fill")
<1> USE DEF saving, model, control, Breaks
<1>1. CASE UNCHANGED vars
  BY <1>1 DEF vars
<1>2. CASE Dial \/ Authenticates \/ Request \/ Backoff \/ ModelQuits
  BY <1>2 DEF Dial, Authenticates, Request, Backoff, ModelQuits, StartsShutdown
<1>3. CASE Sends("authed", "save") \/ Sends("online", "loop") \/ Sends("again", "dial")
  BY <1>3 DEF Sends
<1>4. CASE NewTunnel \/ NewTunnelError \/ ReqProxy \/ ReadFails
  BY <1>4 DEF NewTunnel, NewTunnelError, ReqProxy, ReadFails, Heads
<1>5. CASE Save \/ Fill
  BY <1>5 DEF Save, Fill
<1>6. CASE Registers \/ Refuses \/ AsksForProxy \/ Lost
  BY <1>6 DEF Registers, Refuses, AsksForProxy, Lost
<1>7. ASSUME NEW q \in Proxies, proxy(q) PROVE UNCHANGED <<file, draft, run, loop>>
  BY <1>7 DEF proxy, ProxyDials, StartProxy, ProxyFails, ProxyLooksUp, ProxyDialsLocal, ProxyUpdates,
              JoinEnds, ProxyOnly
<1>8. CASE LoopStarts \/ Exits \/ TermViewRun
  BY <1>8 DEF LoopStarts, Exits, TermViewRun, PrintsStatus, PrintsTunnels, ViewEnds, UnRegisters
<1>9. ASSUME NEW i \in 1..MaxShutdowns, doShutdown(i) PROVE UNCHANGED <<file, draft, run, loop>>
  BY <1>9 DEF doShutdown, CloseView, PanicQuits
<1> QED BY <1>1, <1>2, <1>3, <1>4, <1>5, <1>6, <1>7, <1>8, <1>9 DEF Next, ClientModelRun

\* What there is at the start is a configuration, or nothing.
LEMMA FoundIsAConfig ==
    ASSUME NEW s \in Starts
    PROVE  /\ s.file # Refused => IsConfig(Parsed(s.file))
           /\ IsOptions(s.opts)
<1>1. s.file \in {Absent, Refused} \/ (s.file = File(s.file.config) /\ IsConfig(s.file.config))
  BY ClientAssumption
<1>2. IsConfig(Nothing)
  BY DEF Nothing, IsConfig
<1>3. IsOptions(s.opts)
  BY ClientAssumption
<1>4. \A c : File(c) # Absent
  BY DEF File, Absent
<1> QED BY <1>1, <1>2, <1>3, <1>4 DEF Parsed

\* A run with a configuration has found one, or none, and its token is that of the options or the file.
LEMMA RunHasAToken ==
    ASSUME FileIsFoundOrSaved, conf.is = "config"
    PROVE  /\ Parses(found) /\ IsConfig(Parsed(found)) /\ IsConfig(WithToken)
           /\ WithToken.token = conf.config.token
           /\ conf.config.token = "" => Parsed(found).token = ""
<1>1. PICK s \in Starts : found = s.file /\ opts = s.opts
  BY DEF FileIsFoundOrSaved
<1>2. Start(found, opts).is = "config"
  BY DEF FileIsFoundOrSaved
<1>3. Parses(found)
  <2>1. \A command, args : ~Parses(found) => LoadConfiguration(found, opts, command, args) = Fails
    BY DEF LoadConfiguration, Loadable
  <2>2. Fails.is # "config" /\ Listed.is # "config"
    BY DEF Fails, Listed
  <2> QED BY <1>2, <2>1, <2>2, Starting
<1>4. IsConfig(Parsed(found))
  BY <1>1, <1>3, FoundIsAConfig DEF Parses
<1>5. conf.config.token = IF opts.authtoken # "" THEN opts.authtoken ELSE Parsed(found).token
  BY <1>2, <1>4, StartsWithAToken DEF FileIsFoundOrSaved
<1>6. IsConfig(WithToken) /\ WithToken.token = conf.config.token
  BY <1>4 DEF WithToken, IsConfig
<1> QED BY <1>3, <1>4, <1>5, <1>6

\* A file that was saved before is saved as it is.
LEMMA FileIsFoundOrSavedNext == FileIsFoundOrSaved /\ [Next]_vars => FileIsFoundOrSaved'
<1> SUFFICES ASSUME FileIsFoundOrSaved, [Next]_vars PROVE FileIsFoundOrSaved'
  OBVIOUS
<1>1. UNCHANGED <<found, opts, conf>> /\ (loop' # "exited" => loop # "exited")
  BY ConfIsFixed, OthersWriteNothing
<1>2. PICK w : w = WithToken
  OBVIOUS
<1>3. WithToken' = w
  BY <1>1, <1>2 DEF WithToken
<1>4. /\ \E s \in Starts : found' = s.file /\ opts' = s.opts
      /\ conf' = Start(found', opts')
      /\ loop' # "exited" => conf'.is = "config"
  BY <1>1 DEF FileIsFoundOrSaved
<1>5. ASSUME conf.is = "config"
      PROVE  /\ run' # "fill" => file' \in {found, Formatted(w)}
             /\ run' = "fill" => draft' = w
  <2>1. /\ run # "fill" => file \in {found, Formatted(w)}
        /\ run = "fill" => draft = w
    BY <1>2, <1>5 DEF FileIsFoundOrSaved
  <2>2. CASE Save
    <3>1. [Parsed(file) EXCEPT !.token = conf.config.token] = w
      <4>1. IsConfig(w) /\ w.token = conf.config.token
        BY <1>2, <1>5, RunHasAToken
      <4>2. CASE file = found
        BY <1>2, <4>2 DEF WithToken
      <4>3. CASE file = Formatted(w)
        <5>1. Parsed(file) = [w EXCEPT !.token = ReadBack[w.token]]
          BY <4>3 DEF Formatted, Parsed, File, Absent
        <5>2. PICK x, y : x = Parsed(file) /\ y = [x EXCEPT !.token = conf.config.token]
          OBVIOUS
        <5>3. /\ IsConfig(x) /\ x.server = w.server /\ x.inspect = w.inspect /\ x.iauth = w.iauth
              /\ x.hproxy = w.hproxy /\ x.tunnels = w.tunnels
          BY <4>1, <5>1, <5>2 DEF IsConfig
        <5>4. /\ IsConfig(y) /\ y.server = w.server /\ y.inspect = w.inspect /\ y.iauth = w.iauth
              /\ y.hproxy = w.hproxy /\ y.tunnels = w.tunnels /\ y.token = w.token
          BY <4>1, <5>2, <5>3 DEF IsConfig
        <5>5. y = w
          BY <4>1, <5>4 DEF IsConfig
        <5> QED BY <5>2, <5>5
      <4> QED BY <2>1, <2>2, <4>2, <4>3 DEF Save
    <3> QED BY <2>1, <2>2, <3>1 DEF Save
  <2>3. CASE Fill
    BY <2>1, <2>3 DEF Fill
  <2>4. CASE UNCHANGED <<file, draft>> /\ (run = "fill" <=> run' = "fill")
    BY <2>1, <2>4
  <2> QED BY <2>2, <2>3, <2>4, OthersWriteNothing
<1> QED BY <1>1, <1>3, <1>4, <1>5 DEF FileIsFoundOrSaved

(***************************************************************************)
(* SaveAuthToken changes nothing but the token (config.go:261): whatever   *)
(* command comes next, without -authtoken it does what it did with the     *)
(* file that was there and -authtoken.  SaveAuthToken reads the file       *)
(* again, and does not write what LoadConfiguration has made of it.        *)
(***************************************************************************)
THEOREM SavingIsHarmless == Spec => []SavingKeepsTheFile
<1>1. Init => FileIsFoundOrSaved
  <2> SUFFICES ASSUME Init PROVE FileIsFoundOrSaved
    OBVIOUS
  <2>1. PICK s \in Starts : file = s.file /\ found = file /\ opts = s.opts
    BY DEF Init
  <2>2. conf = Start(file, opts) /\ run = "dial"
    BY DEF Init
  <2>3. loop = IF conf.is = "config" THEN "setup" ELSE "exited"
    BY DEF Init
  <2> QED BY <2>1, <2>2, <2>3 DEF FileIsFoundOrSaved
<1>2. FileIsFoundOrSaved => SavingKeepsTheFile
  <2> SUFFICES ASSUME FileIsFoundOrSaved, loop # "exited", run # "fill", NEW t, t = conf.config.token,
                      ReadBack[t] = t, Parsed(file).token = t,
                      NEW s \in Starts, ~s.opts.explicit
               PROVE  Start(file, [s.opts EXCEPT !.authtoken = ""]) =
                      Start(found, [s.opts EXCEPT !.authtoken = t])
    BY DEF SavingKeepsTheFile
  <2>1. /\ conf.is = "config"
        /\ file \in {found, Formatted(WithToken)}
    BY DEF FileIsFoundOrSaved
  <2>2. /\ Parses(found) /\ IsConfig(Parsed(found)) /\ IsConfig(WithToken) /\ WithToken.token = t
        /\ t = "" => Parsed(found).token = ""
    BY <2>1, RunHasAToken
  <2>3. Parses(file) /\ Parsed(file) = [Parsed(found) EXCEPT !.token = t]
    <3>1. CASE file = found
      BY <2>2, <3>1 DEF IsConfig
    <3>2. CASE file = Formatted(WithToken)
      <4>1. Parses(file) /\ Parsed(file) = [WithToken EXCEPT !.token = t]
        BY <2>2, <3>2 DEF Formatted, Parsed, Parses, File, Absent, Refused
      <4>2. [WithToken EXCEPT !.token = t] = WithToken
        BY <2>2 DEF IsConfig
      <4> QED BY <4>1, <4>2 DEF WithToken
    <3> QED BY <2>1, <3>1, <3>2
  <2>4. IsOptions(s.opts)
    BY FoundIsAConfig
  <2>5. PICK f, g, o : f = found /\ g = file /\ o = s.opts
    OBVIOUS
  <2>6. Start(g, Given(o, NoToken)) = Start(f, Given(o, t))
    <3>1. Parses(f) /\ Parses(g) /\ IsConfig(Parsed(f))
      BY <2>2, <2>3, <2>5
    <3>2. IsOptions(o) /\ ~o.explicit
      BY <2>4, <2>5
    <3>3. Parsed(g) = Tokened(Parsed(f), t) /\ (t = NoToken => Parsed(f).token = NoToken)
      BY <2>2, <2>3, <2>5 DEF Tokened, NoToken
    <3> QED BY <3>1, <3>2, <3>3, TokenStandsForTheOption
  <2> QED BY <2>5, <2>6 DEF Given, NoToken
<1> QED BY <1>1, <1>2, FileIsFoundOrSavedNext, PTL DEF Spec
=============================================================================
