------------------------------ MODULE Control ------------------------------
(***************************************************************************)
(* The server's control connections (server/control.go) and the two        *)
(* registries they share (server/registry.go).                             *)
(*                                                                         *)
(* A control is one accepted control connection.  Five goroutines work on  *)
(* it: the one that runs NewControl, then manager, writer, reader and      *)
(* stopper.  They meet on two unbuffered channels, c.in (reader to         *)
(* manager) and c.out (anybody to writer): a send and its receive are one  *)
(* step, a goroutine at a send without a receiver is blocked, and a send   *)
(* on a closed channel panics.                                             *)
(*                                                                         *)
(* Each goroutine has a program counter that names what it does next.      *)
(* util.Shutdown is two channels that only ever get closed: `begin' here   *)
(* is the flag of c.shutdown, the completion of manager, writer and of the *)
(* whole control are the counters' last values.  Steps are as coarse as    *)
(* the registry locks and channel operations allow and no coarser; the     *)
(* stopper's read of c.id and its registry.Del(c.id) are two steps,        *)
(* because nothing protects c.id in between.                               *)
(*                                                                         *)
(* Abstracted: a tunnel is the public URL it holds, c.tunnels the set of   *)
(* URLs held by tunnels that have not been shut down, a ReqTunnel message  *)
(* the sequence of URLs its protocols ask for.  The pool of proxy          *)
(* connections is in ProxyPool.tla.                                        *)
(***************************************************************************)
EXTENDS Naturals, Sequences

CONSTANTS
    Controls,      \* the control connections that may ever be accepted
    ClientIds,     \* the identifiers of clients
    Urls,          \* public URLs
    Refused,       \* URLs NewTunnel never grants: unsupported protocol, foreign hostname
    Requests,      \* the ReqTunnel messages clients send: sequences of URLs
    NoId,          \* the empty string in c.id
    None,          \* nil
    WriteErrors,   \* whether a write on a lost connection may fail
    TornReads      \* whether the unsynchronised read of c.id may be torn

ASSUME ControlAssumption ==
    /\ NoId \notin ClientIds
    /\ None \notin Controls \cup ClientIds \cup {NoId}
    /\ Refused \subseteq Urls
    /\ Requests \subseteq Seq(Urls) \ {<<>>}
    /\ WriteErrors \in BOOLEAN
    /\ TornReads \in BOOLEAN

VARIABLES
    controls,   \* ControlRegistry.controls
    reg,        \* TunnelRegistry.tunnels: the control whose tunnel holds the URL
    client,     \* the identifier each control was accepted for
    id,         \* c.id
    told,       \* the ClientId in the AuthResp of the control
    newc,       \* NewControl
    replaced,   \* the control NewControl is waiting for, or nil
    conn,       \* the control's network connection
    begin,      \* c.shutdown has begun
    stale,      \* no ping for pingTimeoutInterval
    mgr,        \* manager
    mreq,       \* the rest of the request registerTunnel works on
    wtr,        \* writer
    rdr,        \* reader
    rmsg,       \* the message the reader holds
    stp,        \* stopper
    did,        \* the identifier the stopper read from c.id
    tunnels     \* c.tunnels

vars == <<controls, reg, client, id, told, newc, replaced, conn, begin, stale,
          mgr, mreq, wtr, rdr, rmsg, stp, did, tunnels>>

(***************************************************************************)
(* Messages from the client.  "Other" is any type the switch in manager    *)
(* has no case for.                                                        *)
(***************************************************************************)
NoMsg == [type |-> "Other", urls |-> <<>>]

Messages ==
    [type : {"Ping", "Other"}, urls : {<<>>}]
        \cup [type : {"ReqTunnel"}, urls : Requests]

(***************************************************************************)
(* close(c.in) and close(c.out) are steps of the stopper, so how far it    *)
(* has come tells whether they are closed.                                 *)
(***************************************************************************)
InClosed(c) == stp[c] \in {"closeOut", "closeConn", "tunnels", "done"}

OutClosed(c) == stp[c] \in {"closeConn", "tunnels", "done"}

\* mutant: the control completes before its tunnels are shut down
Complete_BeforeTunnels(c) == stp[c] \in {"tunnels", "done"}
Complete(c) == stp[c] = "done"

\* mutant: the test of inProgress is inverted
BeginShutdown_Inverted(c) == UNCHANGED begin
BeginShutdown(c) == begin' = [begin EXCEPT ![c] = TRUE]

\* somebody hands a message to the writer, which starts writing it
WriterTakes(c) == wtr[c] = "recv" /\ wtr' = [wtr EXCEPT ![c] = "write"]

Free(u) == reg[u] = None

-----------------------------------------------------------------------------
Init ==
    /\ controls = [i \in ClientIds |-> None]
    /\ reg      = [u \in Urls |-> None]
    /\ client   = [c \in Controls |-> None]
    /\ id       = [c \in Controls |-> NoId]
    /\ told     = [c \in Controls |-> None]
    /\ newc     = [c \in Controls |-> "idle"]
    /\ replaced = [c \in Controls |-> None]
    /\ conn     = [c \in Controls |-> "none"]
    /\ begin    = [c \in Controls |-> FALSE]
    /\ stale    = [c \in Controls |-> FALSE]
    /\ mgr      = [c \in Controls |-> "off"]
    /\ mreq     = [c \in Controls |-> <<>>]
    /\ wtr      = [c \in Controls |-> "off"]
    /\ rdr      = [c \in Controls |-> "off"]
    /\ rmsg     = [c \in Controls |-> NoMsg]
    /\ stp      = [c \in Controls |-> "off"]
    /\ did      = [c \in Controls |-> NoId]
    /\ tunnels  = [c \in Controls |-> {}]

-----------------------------------------------------------------------------
(***************************************************************************)
(* NewControl                                                              *)
(***************************************************************************)

\* wrong version or token: answer with an error, close, register nothing
Reject(c) ==
    /\ newc[c] = "idle"
    /\ newc' = [newc EXCEPT ![c] = "rejected"]
    /\ conn' = [conn EXCEPT ![c] = "closed"]
    /\ UNCHANGED <<controls, reg, client, id, told, replaced, begin, stale, mgr,
                   mreq, wtr, rdr, rmsg, stp, did, tunnels>>

(***************************************************************************)
(* ControlRegistry.Add and, under its lock, Replaced on the old control:   *)
(* c.id becomes the empty string, then the old one is told to shut down.   *)
(* The assignment to c.id races with the stopper's read of it; a string is *)
(* two words, and a read that sees only the first of them written faults,  *)
(* which the stopper's recover turns into its silent end.                  *)
(***************************************************************************)
Add(c, i) ==
    LET old == controls[i] IN
    /\ newc[c] = "idle"
    /\ newc' = [newc EXCEPT ![c] = "wait"]
    /\ conn' = [conn EXCEPT ![c] = "open"]
    /\ client' = [client EXCEPT ![c] = i]
    /\ replaced' = [replaced EXCEPT ![c] = old]
    /\ controls' = [controls EXCEPT ![i] = c]
    /\ IF old = None
       THEN /\ id' = [id EXCEPT ![c] = i]
            /\ UNCHANGED <<begin, stp>>
       ELSE /\ id' = [id EXCEPT ![c] = i, ![old] = NoId]
            /\ BeginShutdown(old)
            /\ \/ UNCHANGED stp
               \/ /\ TornReads /\ stp[old] = "begin" /\ begin[old]
                  /\ stp' = [stp EXCEPT ![old] = "crashed"]
    /\ UNCHANGED <<reg, told, stale, mgr, mreq, wtr, rdr, rmsg, did, tunnels>>

\* replaced.shutdown.WaitComplete; mutant: the wait is left out
OldIsOver_Unawaited(c) == TRUE
OldIsOver(c) == replaced[c] # None => Complete(replaced[c])

\* the wait for the replaced control is over: start the writer, build the AuthResp
StartWriter(c) ==
    /\ newc[c] = "wait"
    /\ OldIsOver(c)
    /\ newc' = [newc EXCEPT ![c] = "authresp"]
    /\ wtr' = [wtr EXCEPT ![c] = "recv"]
    /\ told' = [told EXCEPT ![c] = id[c]]
    /\ UNCHANGED <<controls, reg, client, id, replaced, conn, begin, stale, mgr,
                   mreq, rdr, rmsg, stp, did, tunnels>>

SendAuthResp(c) ==
    /\ newc[c] = "authresp"
    /\ WriterTakes(c)
    /\ newc' = [newc EXCEPT ![c] = "reqproxy"]
    /\ UNCHANGED <<controls, reg, client, id, told, replaced, conn, begin, stale,
                   mgr, mreq, rdr, rmsg, stp, did, tunnels>>

\* the first ReqProxy, then the other three goroutines start
StartControl(c) ==
    /\ newc[c] = "reqproxy"
    /\ WriterTakes(c)
    /\ newc' = [newc EXCEPT ![c] = "done"]
    /\ mgr' = [mgr EXCEPT ![c] = "select"]
    /\ rdr' = [rdr EXCEPT ![c] = "read"]
    /\ stp' = [stp EXCEPT ![c] = "begin"]
    /\ UNCHANGED <<controls, reg, client, id, told, replaced, conn, begin, stale,
                   mreq, rmsg, did, tunnels>>

-----------------------------------------------------------------------------
(***************************************************************************)
(* reader: the network delivers messages until the connection is lost.     *)
(* What a lost connection still delivers is delivered before the loss.     *)
(***************************************************************************)
ReaderReads(c) ==
    /\ rdr[c] = "read"
    /\ conn[c] = "open"
    /\ rdr' = [rdr EXCEPT ![c] = "send"]
    /\ \E m \in Messages : rmsg' = [rmsg EXCEPT ![c] = m]
    /\ UNCHANGED <<controls, reg, client, id, told, newc, replaced, conn, begin,
                   stale, mgr, mreq, wtr, stp, did, tunnels>>

\* ReadMsg fails, or the send on a closed c.in panics; both end in shutdown.Begin
ReaderEnds(c) ==
    /\ \/ rdr[c] = "read" /\ conn[c] # "open"
       \/ rdr[c] = "send" /\ InClosed(c)
    /\ rdr' = [rdr EXCEPT ![c] = "done"]
    /\ rmsg' = [rmsg EXCEPT ![c] = NoMsg]
    /\ BeginShutdown(c)
    /\ UNCHANGED <<controls, reg, client, id, told, newc, replaced, conn, stale,
                   mgr, mreq, wtr, stp, did, tunnels>>

-----------------------------------------------------------------------------
(***************************************************************************)
(* manager                                                                 *)
(***************************************************************************)

\* the reader's send on c.in meets the manager's select
ManagerReceives(c) ==
    /\ mgr[c] = "select" /\ rdr[c] = "send" /\ ~InClosed(c)
    /\ rdr' = [rdr EXCEPT ![c] = "read"]
    /\ rmsg' = [rmsg EXCEPT ![c] = NoMsg]

ManagerOnReqTunnel(c) ==
    /\ ManagerReceives(c)
    /\ rmsg[c].type = "ReqTunnel"
    /\ mgr' = [mgr EXCEPT ![c] = "register"]
    /\ mreq' = [mreq EXCEPT ![c] = rmsg[c].urls]
    /\ UNCHANGED <<controls, reg, client, id, told, newc, replaced, conn, begin,
                   stale, wtr, stp, did, tunnels>>

ManagerOnPing(c) ==
    /\ ManagerReceives(c)
    /\ rmsg[c].type = "Ping"
    /\ mgr' = [mgr EXCEPT ![c] = "pong"]
    /\ stale' = [stale EXCEPT ![c] = FALSE]
    /\ UNCHANGED <<controls, reg, client, id, told, newc, replaced, conn, begin,
                   mreq, wtr, stp, did, tunnels>>

ManagerOnOther(c) ==
    /\ ManagerReceives(c)
    /\ rmsg[c].type = "Other"
    /\ UNCHANGED <<controls, reg, client, id, told, newc, replaced, conn, begin,
                   stale, mgr, mreq, wtr, stp, did, tunnels>>

\* the reap ticker finds that the last ping is too long ago
ManagerReaps(c) ==
    /\ mgr[c] = "select" /\ stale[c] /\ ~begin[c]
    /\ BeginShutdown(c)
    /\ UNCHANGED <<controls, reg, client, id, told, newc, replaced, conn, stale,
                   mgr, mreq, wtr, rdr, rmsg, stp, did, tunnels>>

\* registerTunnel, one protocol: TunnelRegistry.Register succeeds ...
RegisterOk(c) ==
    LET u == Head(mreq[c]) IN
    /\ mgr[c] = "register"
    /\ u \notin Refused /\ Free(u)
    /\ reg' = [reg EXCEPT ![u] = c]
    /\ tunnels' = [tunnels EXCEPT ![c] = @ \cup {u}]
    /\ mreq' = [mreq EXCEPT ![c] = Tail(@)]
    /\ mgr' = [mgr EXCEPT ![c] = "newtunnel"]
    /\ UNCHANGED <<controls, client, id, told, newc, replaced, conn, begin, stale,
                   wtr, rdr, rmsg, stp, did>>

\* ... or finds the URL taken, or NewTunnel fails before it registers anything
RegisterFails(c) ==
    LET u == Head(mreq[c]) IN
    /\ mgr[c] = "register"
    /\ u \in Refused \/ ~Free(u)
    /\ mgr' = [mgr EXCEPT ![c] = "error"]
    /\ mreq' = [mreq EXCEPT ![c] = <<>>]
    /\ UNCHANGED <<controls, reg, client, id, told, newc, replaced, conn, begin,
                   stale, wtr, rdr, rmsg, stp, did, tunnels>>

\* c.out <- Pong, or NewTunnel for the protocol just registered
ManagerAnswers(c) ==
    /\ mgr[c] \in {"pong", "newtunnel"}
    /\ WriterTakes(c)
    /\ mgr' = [mgr EXCEPT ![c] = IF mreq[c] = <<>> THEN "select" ELSE "register"]
    /\ UNCHANGED <<controls, reg, client, id, told, newc, replaced, conn, begin,
                   stale, mreq, rdr, rmsg, stp, did, tunnels>>

\* c.out <- NewTunnel{Error}; a control left without tunnels shuts down
ManagerSendsError(c) ==
    /\ mgr[c] = "error"
    /\ WriterTakes(c)
    /\ mgr' = [mgr EXCEPT ![c] = "select"]
    /\ IF tunnels[c] = {} THEN BeginShutdown(c) ELSE UNCHANGED begin
    /\ UNCHANGED <<controls, reg, client, id, told, newc, replaced, conn, stale,
                   mreq, rdr, rmsg, stp, did, tunnels>>

\* c.in is closed: managerShutdown.Complete
ManagerEnds(c) ==
    /\ mgr[c] = "select" /\ InClosed(c)
    /\ mgr' = [mgr EXCEPT ![c] = "done"]
    /\ BeginShutdown(c)
    /\ UNCHANGED <<controls, reg, client, id, told, newc, replaced, conn, stale,
                   mreq, wtr, rdr, rmsg, stp, did, tunnels>>

-----------------------------------------------------------------------------
(***************************************************************************)
(* writer                                                                  *)
(***************************************************************************)
WriterWrites(c) ==
    /\ wtr[c] = "write"
    /\ wtr' = [wtr EXCEPT ![c] = "recv"]
    /\ UNCHANGED <<controls, reg, client, id, told, newc, replaced, conn, begin,
                   stale, mgr, mreq, rdr, rmsg, stp, did, tunnels>>

\* the write fails or exceeds its deadline, or c.out is closed and drained
WriterEnds(c) ==
    /\ \/ WriteErrors /\ wtr[c] = "write" /\ conn[c] # "open"
       \/ wtr[c] = "recv" /\ OutClosed(c)
    /\ wtr' = [wtr EXCEPT ![c] = "done"]
    /\ BeginShutdown(c)
    /\ UNCHANGED <<controls, reg, client, id, told, newc, replaced, conn, stale,
                   mgr, mreq, rdr, rmsg, stp, did, tunnels>>

-----------------------------------------------------------------------------
(***************************************************************************)
(* stopper                                                                 *)
(***************************************************************************)
StopperReadsId(c) ==
    /\ stp[c] = "begin" /\ begin[c]
    /\ did' = [did EXCEPT ![c] = id[c]]
    /\ stp' = [stp EXCEPT ![c] = "del"]
    /\ UNCHANGED <<controls, reg, client, id, told, newc, replaced, conn, begin,
                   stale, mgr, mreq, wtr, rdr, rmsg, tunnels>>

\* ControlRegistry.Del removes whatever is registered under the identifier
StopperDel(c) ==
    /\ stp[c] = "del"
    /\ controls' = [i \in ClientIds |-> IF i = did[c] THEN None ELSE controls[i]]
    /\ stp' = [stp EXCEPT ![c] = "closeIn"]
    /\ UNCHANGED <<reg, client, id, told, newc, replaced, conn, begin, stale, mgr,
                   mreq, wtr, rdr, rmsg, did, tunnels>>

StopperClosesIn(c) ==
    /\ stp[c] = "closeIn"
    /\ stp' = [stp EXCEPT ![c] = "closeOut"]
    /\ UNCHANGED <<controls, reg, client, id, told, newc, replaced, conn, begin,
                   stale, mgr, mreq, wtr, rdr, rmsg, did, tunnels>>

\* mutant: the stopper also waits for the reader, which waits for conn.Close
StopperClosesOut_AfterReader(c) ==
    /\ stp[c] = "closeOut" /\ mgr[c] = "done" /\ rdr[c] = "done"
    /\ stp' = [stp EXCEPT ![c] = "closeConn"]
    /\ UNCHANGED <<controls, reg, client, id, told, newc, replaced, conn, begin,
                   stale, mgr, mreq, wtr, rdr, rmsg, did, tunnels>>

\* managerShutdown.WaitComplete, then close(c.out)
StopperClosesOut(c) ==
    /\ stp[c] = "closeOut" /\ mgr[c] = "done"
    /\ stp' = [stp EXCEPT ![c] = "closeConn"]
    /\ UNCHANGED <<controls, reg, client, id, told, newc, replaced, conn, begin,
                   stale, mgr, mreq, wtr, rdr, rmsg, did, tunnels>>

\* writerShutdown.WaitComplete, then conn.Close
StopperClosesConn(c) ==
    /\ stp[c] = "closeConn" /\ wtr[c] = "done"
    /\ conn' = [conn EXCEPT ![c] = "closed"]
    /\ stp' = [stp EXCEPT ![c] = "tunnels"]
    /\ UNCHANGED <<controls, reg, client, id, told, newc, replaced, begin, stale,
                   mgr, mreq, wtr, rdr, rmsg, did, tunnels>>

\* Tunnel.Shutdown; TunnelRegistry.Del does not look whose URL it deletes
StopperShutsTunnel(c, u) ==
    /\ stp[c] = "tunnels" /\ u \in tunnels[c]
    /\ reg' = [reg EXCEPT ![u] = None]
    /\ tunnels' = [tunnels EXCEPT ![c] = @ \ {u}]
    /\ UNCHANGED <<controls, client, id, told, newc, replaced, conn, begin, stale,
                   mgr, mreq, wtr, rdr, rmsg, stp, did>>

\* the pool is closed and drained, shutdown.Complete
StopperCompletes(c) ==
    /\ stp[c] = "tunnels" /\ tunnels[c] = {}
    /\ stp' = [stp EXCEPT ![c] = "done"]
    /\ UNCHANGED <<controls, reg, client, id, told, newc, replaced, conn, begin,
                   stale, mgr, mreq, wtr, rdr, rmsg, did, tunnels>>

-----------------------------------------------------------------------------
(***************************************************************************)
(* The outside: handlers of public connections that ask for a proxy        *)
(* through c.out, the network, and the clock.                              *)
(***************************************************************************)
HandlerSendsReqProxy(c) ==
    /\ tunnels[c] # {}
    /\ ~OutClosed(c)
    /\ WriterTakes(c)
    /\ UNCHANGED <<controls, reg, client, id, told, newc, replaced, conn, begin,
                   stale, mgr, mreq, rdr, rmsg, stp, did, tunnels>>

ConnLost(c) ==
    /\ conn[c] = "open"
    /\ conn' = [conn EXCEPT ![c] = "lost"]
    /\ UNCHANGED <<controls, reg, client, id, told, newc, replaced, begin, stale,
                   mgr, mreq, wtr, rdr, rmsg, stp, did, tunnels>>

PingOverdue(c) ==
    /\ newc[c] = "done" /\ ~stale[c] /\ ~begin[c]
    /\ stale' = [stale EXCEPT ![c] = TRUE]
    /\ UNCHANGED <<controls, reg, client, id, told, newc, replaced, conn, begin,
                   mgr, mreq, wtr, rdr, rmsg, stp, did, tunnels>>

-----------------------------------------------------------------------------
NewControl(c) ==
    \/ Reject(c)
    \/ \E i \in ClientIds : Add(c, i)
    \/ StartWriter(c) \/ SendAuthResp(c) \/ StartControl(c)

reader(c) == ReaderReads(c) \/ ReaderEnds(c)

registerTunnel(c) == RegisterOk(c) \/ RegisterFails(c)

manager(c) ==
    \/ ManagerOnReqTunnel(c) \/ ManagerOnPing(c) \/ ManagerOnOther(c)
    \/ ManagerReaps(c) \/ registerTunnel(c)
    \/ ManagerAnswers(c) \/ ManagerSendsError(c) \/ ManagerEnds(c)

writer(c) == WriterWrites(c) \/ WriterEnds(c)

stopper(c) ==
    \/ StopperReadsId(c) \/ StopperDel(c) \/ StopperClosesIn(c)
    \/ StopperClosesOut(c) \/ StopperClosesConn(c)
    \/ \E u \in Urls : StopperShutsTunnel(c, u)
    \/ StopperCompletes(c)

outside(c) == HandlerSendsReqProxy(c) \/ ConnLost(c) \/ PingOverdue(c)

Next ==
    \E c \in Controls :
        NewControl(c) \/ reader(c) \/ manager(c) \/ writer(c) \/ stopper(c) \/ outside(c)

Spec == Init /\ [][Next]_vars

(***************************************************************************)
(* The Go scheduler runs every goroutine that can run.  A send on c.out is *)
(* strongly fair: a channel serves blocked senders in the order in which   *)
(* they came.  Nothing obliges the client to connect or to send, a reader  *)
(* to notice a lost connection before it is closed, or a connection that   *)
(* is not lost to go without pings.                                        *)
(***************************************************************************)
Fairness ==
    \A c \in Controls :
        /\ WF_vars(StartWriter(c) \/ SendAuthResp(c) \/ StartControl(c))
        /\ WF_vars((conn[c] = "closed" \/ rdr[c] = "send") /\ ReaderEnds(c))
        /\ WF_vars(manager(c))
        /\ SF_vars(ManagerAnswers(c) \/ ManagerSendsError(c))
        /\ WF_vars(writer(c))
        /\ WF_vars(stopper(c))
        /\ WF_vars(conn[c] = "lost" /\ PingOverdue(c))

FairSpec == Spec /\ Fairness

-----------------------------------------------------------------------------
(***************************************************************************)
(* Type correctness: every field holds a value its Go type and the program *)
(* counters allow.                                                         *)
(***************************************************************************)
TypeOK ==
    /\ controls \in [ClientIds -> Controls \cup {None}]
    /\ reg      \in [Urls -> Controls \cup {None}]
    /\ client   \in [Controls -> ClientIds \cup {None}]
    /\ id       \in [Controls -> ClientIds \cup {NoId}]
    /\ told     \in [Controls -> ClientIds \cup {NoId, None}]
    /\ newc     \in [Controls -> {"idle", "wait", "authresp", "reqproxy", "done", "rejected"}]
    /\ replaced \in [Controls -> Controls \cup {None}]
    /\ conn     \in [Controls -> {"none", "open", "lost", "closed"}]
    /\ begin    \in [Controls -> BOOLEAN]
    /\ stale    \in [Controls -> BOOLEAN]
    /\ mgr      \in [Controls -> {"off", "select", "register", "newtunnel", "error", "pong", "done"}]
    /\ mreq     \in [Controls -> Seq(Urls)]
    /\ wtr      \in [Controls -> {"off", "recv", "write", "done"}]
    /\ rdr      \in [Controls -> {"off", "read", "send", "done"}]
    /\ rmsg     \in [Controls -> Messages]
    /\ stp      \in [Controls -> {"off", "begin", "del", "closeIn", "closeOut", "closeConn",
                                  "tunnels", "done", "crashed"}]
    /\ did      \in [Controls -> ClientIds \cup {NoId}]
    /\ tunnels  \in [Controls -> SUBSET Urls]

(***************************************************************************)
(* The table of URLs and the controls' lists of tunnels agree: a URL leads *)
(* to a control exactly when that control has a tunnel for it.  Tunnel.    *)
(* Shutdown deletes its URLs from the registry without looking whose they  *)
(* are (registry.go Del), so this is what keeps it from deleting another   *)
(* session's registration.                                                 *)
(***************************************************************************)
RegistryAgreesWithTunnels ==
    \A c \in Controls, u \in Urls : reg[u] = c <=> u \in tunnels[c]

(***************************************************************************)
(* When the stopper completes, nothing of the control is left: no URL      *)
(* leads to it, the control registry does not name it, its connection is   *)
(* closed, and manager and writer have ended, so nothing can come back.    *)
(***************************************************************************)
CompletedLeavesNothing ==
    \A c \in Controls : Complete(c) =>
        /\ \A u \in Urls : reg[u] # c
        /\ \A i \in ClientIds : controls[i] # c
        /\ conn[c] = "closed"
        /\ mgr[c] = "done" /\ wtr[c] = "done"

(***************************************************************************)
(* A control that replaced another one (control.go:110) only starts to     *)
(* serve its client when the old one holds no URL any more, so the client  *)
(* gets its tunnels back.                                                  *)
(***************************************************************************)
HandoverIsClean ==
    \A c \in Controls : newc[c] \notin {"idle", "wait"} /\ replaced[c] # None =>
        /\ \A u \in Urls : reg[u] # replaced[c]
        /\ conn[replaced[c]] = "closed"

(***************************************************************************)
(* The manager never sends on a closed c.out: the stopper closes it only   *)
(* after the manager has ended.  The manager's sends, unlike those of      *)
(* GetProxy, are not wrapped in PanicToError.                              *)
(***************************************************************************)
ManagerNeverSendsOnClosed ==
    \A c \in Controls : mgr[c] \in {"register", "newtunnel", "error", "pong"} => ~OutClosed(c)

(***************************************************************************)
(* The first message on a control connection is the AuthResp: until        *)
(* NewControl has handed it over, the writer has received nothing          *)
(* (docs/CHANGELOG.md:27).                                                 *)
(***************************************************************************)
AuthRespIsFirst ==
    \A c \in Controls : newc[c] = "authresp" => wtr[c] = "recv"

(***************************************************************************)
(* Nobody takes a URL from a session that has not begun to shut down, and  *)
(* no URL passes from one session to another in one step.                  *)
(***************************************************************************)
LiveSessionKeepsItsUrls ==
    [][\A u \in Urls : reg[u] # None /\ reg'[u] # reg[u] =>
            reg'[u] = None /\ begin[reg[u]]]_vars

(***************************************************************************)
(* A control that serves and whose connection is lost, or whose shutdown   *)
(* has begun, is eventually cleaned up (docs/DEVELOPMENT.md:99).           *)
(***************************************************************************)
LostControlsAreCleanedUp ==
    \A c \in Controls : newc[c] = "done" /\ (begin[c] \/ conn[c] = "lost") ~> Complete(c)

(***************************************************************************)
(* A control that was accepted gets through NewControl, however many       *)
(* controls of the same client it has to wait for.                         *)
(***************************************************************************)
HandshakesEnd ==
    \A c \in Controls : newc[c] = "wait" ~> newc[c] = "done"

(***************************************************************************)
(* control.go:355: "set the control id to empty string so that when        *)
(* stopper() calls registry.Del it won't delete the replacement".  A       *)
(* control that was registered and has not begun to shut down is           *)
(* registered.                                                             *)
(***************************************************************************)
ReplacementStaysRegistered ==
    \A c \in Controls :
        client[c] # None /\ ~begin[c] => controls[client[c]] = c

(***************************************************************************)
(* docs/CHANGELOG.md:28: "Fixed an issue where under some circumstances,   *)
(* reconnecting would fail and tell the client the tunnels were still in   *)
(* use".  No request fails because an earlier session of the same client   *)
(* still holds the URL.                                                    *)
(***************************************************************************)
ReconnectFindsUrlsFree ==
    [][\A c \in Controls : mgr[c] = "register" /\ mgr'[c] = "error" =>
            LET owner == reg[Head(mreq[c])] IN
            owner \in Controls \ {c} => client[owner] # client[c]]_vars

(***************************************************************************)
(* msg.go:51: "The server response includes a unique ClientId that is used *)
(* to associate and authenticate future proxy connections".  An AuthResp   *)
(* carries the identifier the control was registered under.                *)
(***************************************************************************)
AuthRespNamesTheClient ==
    \A c \in Controls : told[c] \in {None, client[c]}

(***************************************************************************)
(* The control connections implement the abstract promise about URLs.      *)
(***************************************************************************)
over == {c \in Controls : Complete(c)}

Urls_ == INSTANCE UrlOwnership WITH Sessions <- Controls, owner <- reg, over <- over

KeepsUrlPromise == Urls_!Spec
-----------------------------------------------------------------------------
(***************************************************************************)
(* The inductive invariant behind the invariants above (ControlProofs).    *)
(***************************************************************************)

\* registerTunnel only looks at the head of a request it has not finished
RequestInWork == \A c \in Controls : mgr[c] = "register" => mreq[c] # <<>>

(***************************************************************************)
(* The order of the stopper: it gets past a stage only when what the stage *)
(* waits for is over, and a goroutine that is over does not come back.     *)
(***************************************************************************)
StoppingInOrder ==
    \A c \in Controls :
        /\ stp[c] \notin {"off", "begin"} => begin[c]
        /\ OutClosed(c) => mgr[c] = "done"
        /\ stp[c] \in {"tunnels", "done"} => wtr[c] = "done" /\ conn[c] = "closed"
        /\ Complete(c) => tunnels[c] = {}

(***************************************************************************)
(* Before NewControl has sent its two messages, only the writer runs.      *)
(***************************************************************************)
StartingInOrder ==
    \A c \in Controls :
        /\ newc[c] # "done" => mgr[c] = "off" /\ stp[c] = "off" /\ tunnels[c] = {}
        /\ newc[c] = "done" => mgr[c] # "off"
        /\ newc[c] = "authresp" => wtr[c] = "recv"

(***************************************************************************)
(* A control that is registered still carries the identifier it is         *)
(* registered under, and its stopper has not been past registry.Del.       *)
(***************************************************************************)
RegisteredByItsId ==
    \A c \in Controls, i \in ClientIds : controls[i] = c =>
        /\ newc[c] \notin {"idle", "rejected"}
        /\ id[c] = i
        /\ stp[c] \in {"off", "begin", "del"}
        /\ stp[c] = "del" => did[c] = i

(***************************************************************************)
(* NewControl gets past its wait only when the replaced control is over.   *)
(***************************************************************************)
ReplacedIsOver ==
    \A c \in Controls :
        /\ newc[c] \in {"idle", "rejected"} => replaced[c] = None
        /\ newc[c] # "wait" /\ replaced[c] # None => Complete(replaced[c])

(***************************************************************************)
(* All of it: what each goroutine of control.go may rely on about the      *)
(* others at every point of its life.                                      *)
(***************************************************************************)
IndInv ==
    /\ TypeOK
    /\ RequestInWork
    /\ RegistryAgreesWithTunnels
    /\ StoppingInOrder
    /\ StartingInOrder
    /\ RegisteredByItsId
    /\ ReplacedIsOver

=============================================================================
