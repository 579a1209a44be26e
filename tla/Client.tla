------------------------------- MODULE Client -------------------------------
(***************************************************************************)
(* The client: its configuration file, ClientModel.Run and control with    *)
(* the proxy goroutines (client/model.go), the controller's loop and       *)
(* doShutdown (client/controller.go), the broadcast of updates             *)
(* (util/broadcast.go) and the terminal view (client/views/term).          *)
(*                                                                         *)
(* The ngrokd at the other end is external: it registers URLs, refuses     *)
(* them, asks for proxy connections and uses them, and the connection is   *)
(* lost at any time.  A message to the client is in inbox until the        *)
(* control loop reads it.  The heartbeat is part of the connection being   *)
(* lost here (module Heartbeat), and how long Run waits is left out.       *)
(*                                                                         *)
(* ctl.Update hands the broadcast goroutine a pointer to the one model, so *)
(* an update carries nothing: a view that receives one reads the model.    *)
(* The goroutine gives it to every listener or drops it, without waiting,  *)
(* before it takes the next, so sending an update is one step.             *)
(***************************************************************************)
EXTENDS ClientConfig, FiniteSets

CONSTANTS
    Urls, Proxies,
    Views,              \* the views whose Shutdown closes a channel: Term and others
    Term,               \* the terminal view
    None,
    Starts,             \* what may be found at start: [file, opts, bounds]; the bounds are of
                        \* connections lost or not made, refusals, and proxy connections
    ListenerBuffer,     \* broadcastListenerBuffer
    MaxShutdowns        \* bound: quit commands the controller takes

ASSUME ClientAssumption ==
    /\ Term \in Views
    /\ ListenerBuffer \in Nat \ {0} /\ MaxShutdowns \in Nat
    /\ \A s \in Starts :
        /\ s.file \in {Absent, Refused} \/ (s.file = File(s.file.config) /\ IsConfig(s.file.config))
        /\ IsOptions(s.opts)

VARIABLES
    file,               \* the configuration file
    opts,               \* the options of this run
    conf,               \* what LoadConfiguration returned
    draft,              \* what SaveAuthToken has read
    found,              \* observed: the file at start
    run,                \* ClientModel.Run
    status, tunnels,    \* c.connStatus, c.tunnels
    asked,              \* reqIdToTunnelConfig: the names asked for
    link, inbox,        \* the control connection
    owed, srv,          \* ngrokd: what it has not answered yet, and whose a URL is
    heard,              \* URLs whose NewTunnel of this session was read
    session, refused,   \* the number of this session; whether a request was refused
    left,               \* what is left of the bounds
    proxies,            \* the proxy goroutines
    loop,               \* Controller.Run
    shutdowns,          \* doShutdown goroutines: what each has done to each view
    closed,             \* views whose shutdown channel is closed
    view, buf, shown    \* TermView.run, its updates channel, what it has printed

saving == <<file, opts, conf, draft, found>>
model == <<run, status, tunnels, asked>>
wire == <<link, inbox, owed, srv, heard, session, refused, left>>
control == <<loop, shutdowns, closed>>
terminal == <<view, buf, shown>>
vars == <<saving, model, wire, proxies, control, terminal>>

Config == conf.config.tunnels
Names == DOMAIN Config

\* the server splits the protocols it is asked for at "+"
Split(k) == IF k = "http+https" THEN {"http", "https"} ELSE {k}
AskedOf(n) == UNION {Split(k) : k \in DOMAIN Config[n].proto}
LocalAddr(n, k) == IF k \in DOMAIN Config[n].proto THEN Config[n].proto[k] ELSE NoAddr

Free == [pc |-> "free"]
Nobody == [n \in {} |-> 0]
With(f, x, y) == [z \in DOMAIN f \cup {x} |-> IF z = x THEN y ELSE f[z]]

Init ==
    /\ \E s \in Starts : file = s.file /\ found = file /\ opts = s.opts /\ left = s.bounds
    /\ conf = Start(file, opts) /\ draft = Nothing
    /\ run = "dial" /\ status = "connecting" /\ tunnels = Nobody /\ asked = {}
    /\ link = "none" /\ inbox = <<>> /\ owed = Nobody /\ srv = Nobody /\ heard = {}
    /\ session = 0 /\ refused = FALSE
    /\ proxies = [p \in Proxies |-> Free]
    /\ loop = IF conf.is = "config" THEN "setup" ELSE "exited"
    /\ shutdowns = <<>> /\ closed = {}
    /\ view = "state" /\ buf = 0 /\ shown = [status |-> "", tunnels |-> Nobody]

Statuses == {"connecting", "reconnecting", "online"}
Positions == {"dial", "auth", "authed", "save", "fill", "request", "loop", "online",
              "quitLoop", "quitLost", "wait", "again"}
ProxyPositions == {"free", "dial", "wait", "start", "local", "update", "joined", "last"}

TypeOK ==
    /\ file.is \in {"absent", "refused", "config"} /\ conf.is \in {"error", "exit", "config"}
    /\ run \in Positions /\ status \in Statuses
    /\ DOMAIN tunnels \subseteq Urls /\ heard \subseteq DOMAIN tunnels
    /\ link \in {"none", "up", "lost"} /\ DOMAIN srv \subseteq Urls
    /\ {session, buf, left.losses, left.refusals, left.proxies} \subseteq Nat /\ buf <= ListenerBuffer
    /\ \A p \in Proxies : proxies[p].pc \in ProxyPositions
    /\ loop \in {"setup", "on", "exited"} /\ closed \subseteq Views
    /\ view \in {"state", "tunnels", "select", "unreg", "gone"}

-----------------------------------------------------------------------------
(* ClientModel.Run and control: the connection and the configuration file  *)

Uses(b) == left[b] > 0 /\ left' = [left EXCEPT ![b] = @ - 1]

Update == buf' = IF view = "gone" \/ buf = ListenerBuffer THEN buf ELSE buf + 1

Gone == link' = "none" /\ inbox' = <<>> /\ owed' = Nobody /\ srv' = Nobody /\ heard' = {}
Breaks == run' = "wait" /\ Gone /\ UNCHANGED <<status, tunnels, asked, session, refused>>

Dial ==
    /\ run = "dial"
    /\ \/ /\ run' = "auth" /\ asked' = {} /\ session' = session + 1
          /\ link' = "up" /\ inbox' = <<>> /\ owed' = Nobody /\ srv' = Nobody /\ heard' = {}
          /\ UNCHANGED <<status, tunnels, refused, left>>
       \/ Uses("losses") /\ Breaks
    /\ UNCHANGED <<saving, proxies, control, terminal>>

Authenticates ==
    /\ run = "auth"
    /\ \/ link = "up" /\ run' = "authed" /\ UNCHANGED <<wire, status, tunnels, asked>>
       \/ /\ link = "up" /\ Uses("refusals") /\ refused' = TRUE
          /\ run' = "quitLost"
          /\ UNCHANGED <<status, tunnels, asked, link, inbox, owed, srv, heard, session>>
       \/ link = "lost" /\ Breaks /\ UNCHANGED left
    /\ UNCHANGED <<saving, proxies, control, terminal>>

Sends(from, to) ==
    /\ run = from /\ run' = to /\ Update
    /\ UNCHANGED <<saving, status, tunnels, asked, wire, proxies, control, view, shown>>

\* mutant: what is saved is the configuration in memory
Save_FromMemory ==
    /\ run = "save" /\ Parses(file)
    /\ \/ /\ Parsed(file).token # conf.config.token
          /\ run' = "fill" /\ file' = File(Nothing)
          /\ draft' = conf.config
       \/ run' = "request" /\ UNCHANGED <<file, draft>>
    /\ UNCHANGED <<found, opts, conf, status, tunnels, asked, wire, proxies, control, terminal>>

\* SaveAuthToken: os.WriteFile truncates the file and then fills it
Save ==
    /\ run = "save" /\ Parses(file)
    /\ \/ /\ Parsed(file).token # conf.config.token
          /\ run' = "fill" /\ file' = File(Nothing)
          /\ draft' = [Parsed(file) EXCEPT !.token = conf.config.token]
       \/ run' = "request" /\ UNCHANGED <<file, draft>>
          \* the same token, or a file that cannot be opened
    /\ UNCHANGED <<found, opts, conf, status, tunnels, asked, wire, proxies, control, terminal>>

Fill ==
    /\ run = "fill" /\ run' = "request"
    /\ file' = Formatted(draft)
    /\ UNCHANGED <<found, opts, conf, draft, status, tunnels, asked, wire, proxies, control, terminal>>

Request ==
    /\ run = "request"
    /\ \/ /\ link = "up"
          /\ \E n \in Names \ asked : asked' = asked \cup {n} /\ owed' = With(owed, n, AskedOf(n))
          /\ UNCHANGED <<run, status, tunnels, link, inbox, srv, heard, session, refused, left>>
       \/ link = "lost" /\ asked # Names /\ Breaks /\ UNCHANGED left
       \/ asked = Names /\ run' = "loop" /\ UNCHANGED <<status, tunnels, asked, wire>>
    /\ UNCHANGED <<saving, proxies, control, terminal>>

-----------------------------------------------------------------------------
(* The control loop: one message                                           *)

Read == inbox' = Tail(inbox) /\ UNCHANGED <<link, owed, srv, session, refused, left>>
Heads(kind) == run = "loop" /\ inbox # <<>> /\ Head(inbox).type = kind

\* mutant: a URL that is known already keeps its tunnel
NewTunnel_KeepsKnown ==
    /\ Heads("NewTunnel")
    /\ LET m == Head(inbox) IN
        /\ tunnels' = IF m.url \in DOMAIN tunnels THEN tunnels
                      ELSE With(tunnels, m.url, [local |-> LocalAddr(m.req, m.protocol)])
        /\ heard' = heard \cup {m.url}
    /\ status' = "online" /\ run' = "online" /\ Read
    /\ UNCHANGED <<saving, asked, proxies, control, terminal>>

NewTunnel ==
    /\ Heads("NewTunnel")
    /\ LET m == Head(inbox) IN
        /\ tunnels' = With(tunnels, m.url, [local |-> LocalAddr(m.req, m.protocol)])
        /\ heard' = heard \cup {m.url}
    /\ status' = "online" /\ run' = "online" /\ Read
    /\ UNCHANGED <<saving, asked, proxies, control, terminal>>

NewTunnelError ==
    /\ Heads("Error")
    /\ run' = "quitLoop" /\ Read
    /\ UNCHANGED <<saving, status, tunnels, asked, heard, proxies, control, terminal>>

ReqProxy ==
    /\ Heads("ReqProxy")
    /\ \E p \in Proxies :
        proxies[p] = Free /\ proxies' = [proxies EXCEPT ![p] = [pc |-> "dial"]]
    /\ Read
    /\ UNCHANGED <<saving, model, heard, control, terminal>>

\* ReadMsg fails: the connection was lost, or the heartbeat has closed it
ReadFails ==
    /\ run = "loop" /\ link = "lost"
    /\ Breaks /\ UNCHANGED <<saving, left, proxies, control, terminal>>

\* Run: wait, and say so
\* mutant: the views are not told of the reconnect
Backoff_Silent ==
    /\ run = "wait"
    /\ status' = "reconnecting" /\ run' = "dial"
    /\ UNCHANGED <<saving, tunnels, asked, wire, proxies, control, terminal>>

\* mutant: Run only reconnects what was online
Backoff_OnlineOnly ==
    /\ run = "wait" /\ status = "online"
    /\ status' = "reconnecting" /\ run' = "again"
    /\ UNCHANGED <<saving, tunnels, asked, wire, proxies, control, terminal>>

Backoff ==
    /\ run = "wait"
    /\ status' = "reconnecting" /\ run' = "again"
    /\ UNCHANGED <<saving, tunnels, asked, wire, proxies, control, terminal>>

-----------------------------------------------------------------------------
(* ngrokd and the network                                                  *)

Delivers(m) == inbox' = Append(inbox, m)

Registers ==
    /\ link = "up"
    /\ \E n \in DOMAIN owed : \E k \in owed[n], u \in Urls \ DOMAIN srv :
        /\ srv' = With(srv, u, [req |-> n, protocol |-> k])
        /\ owed' = [owed EXCEPT ![n] = @ \ {k}]
        /\ Delivers([type |-> "NewTunnel", url |-> u, req |-> n, protocol |-> k])
    /\ UNCHANGED <<saving, model, link, heard, session, refused, left, proxies, control, terminal>>

\* the server gives up a request at its first error
Refuses ==
    /\ link = "up" /\ Uses("refusals") /\ refused' = TRUE
    /\ \E n \in DOMAIN owed :
        owed[n] # {} /\ owed' = [owed EXCEPT ![n] = {}] /\ Delivers([type |-> "Error"])
    /\ UNCHANGED <<saving, model, link, srv, heard, session, proxies, control, terminal>>

\* bound: no more requests for proxy connections than goroutines for them
AsksForProxy ==
    /\ link = "up" /\ run \notin {"dial", "auth"}
    /\ \E p \in Proxies : proxies[p] = Free
    /\ \A i \in 1..Len(inbox) : inbox[i].type # "ReqProxy"
    /\ Uses("proxies") /\ Delivers([type |-> "ReqProxy"])
    /\ UNCHANGED <<saving, model, link, owed, srv, heard, session, refused, proxies, control, terminal>>

\* what is in the inbox may arrive still
Lost ==
    /\ link = "up" /\ Uses("losses")
    /\ link' = "lost" /\ srv' = Nobody /\ owed' = Nobody
    /\ UNCHANGED <<saving, model, inbox, heard, session, refused, proxies, control, terminal>>

-----------------------------------------------------------------------------
(* ClientModel.proxy                                                       *)

Becomes(p, r) == proxies' = [proxies EXCEPT ![p] = r]
ProxyOnly == UNCHANGED <<saving, model, wire, control, terminal>>

\* dial and RegProxy; the server knows the client by its identifier
ProxyDials(p) ==
    /\ proxies[p].pc = "dial"
    /\ Becomes(p, IF link = "up" THEN [pc |-> "wait", session |-> session] ELSE Free)
    /\ ProxyOnly

StartProxy(p) ==
    /\ proxies[p].pc = "wait" /\ link = "up" /\ proxies[p].session = session
    /\ \E u \in DOMAIN srv :
        Becomes(p, [pc |-> "start", session |-> session, url |-> u, for |-> srv[u]])
    /\ ProxyOnly

\* the control connection has ended, or an error on the way
ProxyFails(p) == proxies[p].pc \in {"dial", "wait", "local"} /\ Becomes(p, Free) /\ ProxyOnly

ProxyLooksUp(p) ==
    /\ proxies[p].pc = "start"
    /\ LET r == proxies[p] IN
        Becomes(p, IF r.url \notin DOMAIN tunnels THEN Free
                   ELSE [pc |-> "local", for |-> r.for, local |-> tunnels[r.url].local,
                         heard |-> r.session = session /\ r.url \in heard])
    /\ ProxyOnly

ProxyDialsLocal(p) ==
    proxies[p].pc = "local" /\ Becomes(p, [proxies[p] EXCEPT !.pc = "update"]) /\ ProxyOnly

ProxyUpdates(p) ==
    /\ proxies[p].pc \in {"update", "last"} /\ Update
    /\ Becomes(p, IF proxies[p].pc = "last" THEN Free ELSE [proxies[p] EXCEPT !.pc = "joined"])
    /\ UNCHANGED <<saving, model, wire, control, view, shown>>

JoinEnds(p) ==
    proxies[p].pc = "joined" /\ Becomes(p, [proxies[p] EXCEPT !.pc = "last"]) /\ ProxyOnly

-----------------------------------------------------------------------------
(* Controller.Run and doShutdown                                           *)

LoopStarts == loop = "setup" /\ loop' = "on"
              /\ UNCHANGED <<saving, model, wire, proxies, shutdowns, closed, terminal>>

StartsShutdown ==
    /\ loop = "on" /\ Len(shutdowns) < MaxShutdowns
    /\ shutdowns' = Append(shutdowns, [v \in Views |-> "todo"])
    /\ UNCHANGED <<loop, closed>>

\* a Shutdown of the model goroutine is received; control reads on, or Run waits
ModelQuits ==
    /\ run \in {"quitLoop", "quitLost"} /\ StartsShutdown
    /\ \/ run = "quitLoop" /\ run' = "loop" /\ UNCHANGED <<status, tunnels, asked, wire>>
       \/ run = "quitLost" /\ Breaks /\ UNCHANGED left
    /\ UNCHANGED <<saving, proxies, terminal>>

\* v.Shutdown of doShutdown number i; closing a closed channel panics
CloseView(i, v) ==
    /\ i \in 1..Len(shutdowns) /\ shutdowns[i][v] = "todo"
    /\ shutdowns' = [shutdowns EXCEPT ![i][v] = IF v \in closed THEN "panic" ELSE "done"]
    /\ closed' = closed \cup {v}
    /\ UNCHANGED <<saving, model, wire, proxies, loop, terminal>>

\* ctl.Go recovers the panic and asks to shut down
PanicQuits(i, v) ==
    /\ i \in 1..Len(shutdowns) /\ shutdowns[i][v] = "panic"
    /\ loop = "on" /\ Len(shutdowns) < MaxShutdowns
    /\ shutdowns' = Append([shutdowns EXCEPT ![i][v] = "lost"], [w \in Views |-> "todo"])
    /\ UNCHANGED <<saving, model, wire, proxies, loop, closed, terminal>>

\* mutant: the model's Shutdown waits until its connection has ended
WaitsOver_Connection(i) == link = "none" /\ \A v \in Views : shutdowns[i][v] = "done"

\* wg.Wait returns; the model's Shutdown is empty
WaitsOver(i) == \A v \in Views : shutdowns[i][v] = "done"

Exits ==
    /\ loop = "on" /\ \E i \in 1..Len(shutdowns) : WaitsOver(i)
    /\ loop' = "exited"
    /\ UNCHANGED <<saving, model, wire, proxies, shutdowns, closed, terminal>>

-----------------------------------------------------------------------------
(* TermView.run                                                            *)

PrintsStatus ==
    /\ \/ view = "state" /\ loop = "on" /\ UNCHANGED buf
       \/ view = "select" /\ buf > 0 /\ buf' = buf - 1
    /\ shown' = [shown EXCEPT !.status = status] /\ view' = "tunnels"
    /\ UNCHANGED <<saving, model, wire, proxies, control>>

PrintsTunnels ==
    /\ view = "tunnels" /\ view' = "select"
    /\ shown' = [shown EXCEPT !.tunnels = tunnels]
    /\ UNCHANGED <<saving, model, wire, proxies, control, buf>>

ViewEnds ==
    /\ view = "select" /\ Term \in closed /\ view' = "unreg"
    /\ UNCHANGED <<saving, model, wire, proxies, control, buf, shown>>

UnRegisters ==
    /\ view = "unreg" /\ view' = "gone"
    /\ UNCHANGED <<saving, model, wire, proxies, control, buf, shown>>

-----------------------------------------------------------------------------
ClientModelRun ==
    \/ Dial \/ Authenticates \/ Save \/ Fill \/ Request \/ Backoff \/ ModelQuits
    \/ Sends("authed", "save") \/ Sends("online", "loop") \/ Sends("again", "dial")
    \/ NewTunnel \/ NewTunnelError \/ ReqProxy \/ ReadFails

proxy(p) ==
    \/ ProxyDials(p) \/ StartProxy(p) \/ ProxyFails(p) \/ ProxyLooksUp(p)
    \/ ProxyDialsLocal(p) \/ ProxyUpdates(p) \/ JoinEnds(p)

TermViewRun == PrintsStatus \/ PrintsTunnels \/ ViewEnds \/ UnRegisters

doShutdown(i) == \E v \in Views : CloseView(i, v) \/ PanicQuits(i, v)

\* the process is over when Controller.Run returns
Next ==
    /\ loop # "exited"
    /\ \/ ClientModelRun \/ Registers \/ Refuses \/ AsksForProxy \/ Lost
       \/ \E p \in Proxies : proxy(p)
       \/ LoopStarts \/ Exits \/ TermViewRun
       \/ \E i \in 1..MaxShutdowns : doShutdown(i)

Spec == Init /\ [][Next]_vars

(***************************************************************************)
(* The Go scheduler runs every goroutine that can run, and the server      *)
(* answers the requests it has read.  Connections are lost, and tunnels    *)
(* refused, finitely often (left).                                         *)
(***************************************************************************)
Fairness ==
    /\ WF_vars(loop # "exited" /\ ClientModelRun)
    /\ WF_vars(loop # "exited" /\ Registers)
    /\ \A p \in Proxies : WF_vars(loop # "exited" /\ (ProxyDials(p) \/ ProxyLooksUp(p) \/ ProxyUpdates(p)))
    /\ WF_vars(LoopStarts) /\ WF_vars(Exits)
    /\ WF_vars(loop # "exited" /\ TermViewRun)
    /\ \A i \in 1..MaxShutdowns, v \in Views :
        WF_vars(loop # "exited" /\ (CloseView(i, v) \/ PanicQuits(i, v)))

FairSpec == Spec /\ Fairness

-----------------------------------------------------------------------------
(***************************************************************************)
(* While the terminal view has nothing left to do, what it has printed is  *)
(* what is: dropping an update on a full channel (broadcast.go:44) loses   *)
(* nothing, because the update before it is not yet printed and will print *)
(* the model as it is then.                                                *)
(***************************************************************************)
QuietViewIsUpToDate ==
    view = "select" /\ buf = 0 /\ run \notin {"online", "again"} =>
        shown = [status |-> status, tunnels |-> tunnels]

(***************************************************************************)
(* A visitor of a URL that the client has heard of in this session is      *)
(* taken to the local address of the tunnel the server registered the URL  *)
(* for, although c.tunnels is never cleared and a URL may have led to      *)
(* another tunnel before the reconnect (model.go:329, 372).                *)
(***************************************************************************)
AnnouncedUrlsLeadHome ==
    \A p \in Proxies : proxies[p].pc \in {"local", "update", "joined"} /\ proxies[p].heard =>
        proxies[p].local = LocalAddr(proxies[p].for.req, proxies[p].for.protocol)

(***************************************************************************)
(* SaveAuthToken changes nothing but the token (config.go:261): whatever   *)
(* command comes next, without -authtoken it does what it did with the     *)
(* file that was there and -authtoken.  Of a token that a line of the file *)
(* can hold, and unless the client is killed between truncating the file   *)
(* and filling it (config.go:284).                                         *)
(***************************************************************************)
SavingKeepsTheFile ==
    LET token == conf.config.token IN
    loop # "exited" /\ run # "fill" /\ ReadBack[token] = token /\ Parsed(file).token = token =>
        \A s \in Starts : ~s.opts.explicit =>
            Start(file, [s.opts EXCEPT !.authtoken = ""]) =
            Start(found, [s.opts EXCEPT !.authtoken = token])

(***************************************************************************)
(* Run reconnects for as long as it takes (model.go:190-210): a client     *)
(* that is not told to quit ends up online with every tunnel it asks for,  *)
(* and knows whose each URL of the server is.                              *)
(***************************************************************************)
Serving ==
    /\ status = "online" /\ heard = DOMAIN srv
    /\ \A n \in Names, k \in {"http", "https", "tcp"} :
        k \in AskedOf(n) => \E u \in heard : srv[u] = [req |-> n, protocol |-> k]

EndsUpServing ==
    <>[](Serving \/ refused \/ loop = "exited" \/ Names = {})

(***************************************************************************)
(* A quit command ends the client, if it is the only one: every view and   *)
(* the model are shut down, and the loop returns (controller.go:105, 176). *)
(***************************************************************************)
AQuitEndsTheClient ==
    run \in {"quitLoop", "quitLost"} ~> loop = "exited" \/ Len(shutdowns) > 1

(***************************************************************************)
(* mvc/controller.go:11: Shutdown "instructs the controller to shut the    *)
(* app down".                                                              *)
(***************************************************************************)
QuitsEndTheClient == Len(shutdowns) > 0 ~> loop = "exited"

=============================================================================
