----------------------------- MODULE ProxyPool -----------------------------
(***************************************************************************)
(* Public connections and the proxy connections that carry them, for one   *)
(* control: Control.GetProxy and RegisterProxy (server/control.go),        *)
(* Tunnel.HandlePublicConnection and listenTcp (server/tunnel.go),         *)
(* httpHandler (server/http.go), NewProxy and the connection slots         *)
(* (server/main.go).                                                       *)
(*                                                                         *)
(* The pool is a buffered Go channel, c.proxies: a receive takes the       *)
(* oldest connection, also when the channel has been closed, and reports   *)
(* the end only when it is empty; a send on the closed channel panics.     *)
(* c.out is unbuffered, its sender blocks until the writer receives.       *)
(*                                                                         *)
(* Abstracted: the control's life is the order of the stopper's steps that *)
(* touch what is modelled here (Control.tla has them all and shows that    *)
(* the manager is over before c.out is closed).  Whether a write on a      *)
(* proxy connection fails (the client is gone, or its 60 second deadline   *)
(* passed in the pool) is the flag `dead'.                                 *)
(***************************************************************************)
EXTENDS Naturals, Sequences, FiniteSets

CONSTANTS
    Proxies,    \* the proxy connections clients may open
    Publics,    \* the public connections that may arrive
    None,       \* nil
    PoolCap,    \* the capacity of c.proxies
    MaxTries,   \* 2 * proxyMaxPoolSize
    MaxSlots,   \* -maxConnections
    MaxAsked    \* bound: how many unanswered ReqProxy messages a client keeps

ASSUME PoolAssumption ==
    /\ None \notin Proxies
    /\ PoolCap \in Nat \ {0} /\ MaxTries \in Nat \ {0}
    /\ MaxSlots \in Nat \ {0} /\ MaxAsked \in Nat \ {0}

VARIABLES
    stp,      \* how far the stopper is
    wtr,      \* the writer
    asked,    \* ReqProxy messages the client has received and not answered
    slots,    \* len(connSlots)
    pool,     \* c.proxies
    px,       \* where each proxy connection is
    dead,     \* whether writes on a proxy connection fail
    pub,      \* the handler of each public connection
    cur,      \* the proxy connection the handler works with
    tries     \* rounds of the loop in HandlePublicConnection that failed

vars == <<stp, wtr, asked, slots, pool, px, dead, pub, cur, tries>>

\* the stopper's steps: registry.Del, close(c.out), t.Shutdown, close(c.proxies)
Unlisted   == stp # "run"
OutClosed  == stp \in {"outClosed", "noTunnels", "drain", "done"}
TunnelUp   == stp \in {"run", "unlisted", "outClosed"}

\* mutant: the stopper drains the pool without closing it
PoolClosed_Never == FALSE
PoolClosed == stp \in {"drain", "done"}

(***************************************************************************)
(* Type correctness, and the pool never holds more than the channel's      *)
(* capacity (control.go:72).                                               *)
(***************************************************************************)
TypeOK ==
    /\ stp \in {"run", "unlisted", "outClosed", "noTunnels", "drain", "done"}
    /\ wtr \in {"recv", "write", "done"}
    /\ asked \in 0..MaxAsked
    /\ slots \in 0..MaxSlots
    /\ pool \in Seq(Proxies) /\ Len(pool) <= PoolCap
    /\ px \in [Proxies -> {"free", "accepted", "found", "pooled", "taken", "closed"}]
    /\ dead \in [Proxies -> BOOLEAN]
    /\ pub \in [Publics -> {"none", "lookup", "get", "ask", "wait", "start", "more", "join", "closed"}]
    /\ cur \in [Publics -> Proxies \cup {None}]
    /\ tries \in [Publics -> 0..MaxTries]

\* the control has just been started; NewControl has asked for one proxy connection
Init ==
    /\ stp = "run" /\ wtr = "recv" /\ asked = 1 /\ slots = 0
    /\ pool = <<>>
    /\ px = [p \in Proxies |-> "free"]
    /\ dead = [p \in Proxies |-> FALSE]
    /\ pub = [v \in Publics |-> "none"]
    /\ cur = [v \in Publics |-> None]
    /\ tries = [v \in Publics |-> 0]

-----------------------------------------------------------------------------
(***************************************************************************)
(* Connection slots: taken by every accepted connection, or the connection *)
(* is closed; given back when the goroutine that handles it returns.       *)
(***************************************************************************)
AcquireSlot == slots < MaxSlots /\ slots' = slots + 1
NoSlot      == slots = MaxSlots
ReleaseSlot == slots' = slots - 1

-----------------------------------------------------------------------------
(***************************************************************************)
(* The client answers a ReqProxy with a connection (or not at all), and    *)
(* the server accepts it and registers it.                                 *)
(***************************************************************************)
ClientDials(p) ==
    /\ px[p] = "free" /\ asked > 0
    /\ asked' = asked - 1
    /\ \/ AcquireSlot /\ px' = [px EXCEPT ![p] = "accepted"]
       \/ NoSlot /\ px' = [px EXCEPT ![p] = "closed"] /\ UNCHANGED slots
    /\ UNCHANGED <<stp, wtr, pool, dead, pub, cur, tries>>

(***************************************************************************)
(* The read of the first message fails.  The result goes to a variable     *)
(* `err' that all the goroutines of tunnelListener share, so a connection  *)
(* may also be treated as failed because another one failed, or get past   *)
(* the test without a message; it is closed in every case.                 *)
(***************************************************************************)
ReadFails(p) ==
    /\ px[p] = "accepted"
    /\ px' = [px EXCEPT ![p] = "closed"]
    /\ ReleaseSlot
    /\ UNCHANGED <<stp, wtr, asked, pool, dead, pub, cur, tries>>

\* NewProxy looks its control up; without one it panics, recovers and closes
LookUpControl(p) ==
    /\ px[p] = "accepted"
    /\ \/ ~Unlisted /\ px' = [px EXCEPT ![p] = "found"] /\ UNCHANGED slots
       \/ Unlisted /\ px' = [px EXCEPT ![p] = "closed"] /\ ReleaseSlot
    /\ UNCHANGED <<stp, wtr, asked, pool, dead, pub, cur, tries>>

(***************************************************************************)
(* RegisterProxy: a send that does not block.  It finds room in the pool,  *)
(* or a full pool and closes the connection, or a closed channel: the      *)
(* panic ends in NewProxy's recover, which closes the connection.          *)
(***************************************************************************)
RegisterProxy(p) ==
    /\ px[p] = "found"
    /\ IF ~PoolClosed /\ Len(pool) < PoolCap
       THEN pool' = Append(pool, p) /\ px' = [px EXCEPT ![p] = "pooled"]
       ELSE px' = [px EXCEPT ![p] = "closed"] /\ UNCHANGED pool
    /\ ReleaseSlot
    /\ UNCHANGED <<stp, wtr, asked, dead, pub, cur, tries>>

ProxyDies(p) ==
    /\ px[p] \in {"accepted", "found", "pooled", "taken"} /\ ~dead[p]
    /\ dead' = [dead EXCEPT ![p] = TRUE]
    /\ UNCHANGED <<stp, wtr, asked, slots, pool, px, pub, cur, tries>>

-----------------------------------------------------------------------------
(***************************************************************************)
(* A public connection                                                     *)
(***************************************************************************)

\* it is accepted by a listener of the server or of a tcp tunnel, or refused
PublicArrives(v) ==
    /\ pub[v] = "none"
    /\ \/ AcquireSlot /\ pub' = [pub EXCEPT ![v] = "lookup"]
       \/ NoSlot /\ pub' = [pub EXCEPT ![v] = "closed"] /\ UNCHANGED slots
    /\ UNCHANGED <<stp, wtr, asked, pool, px, dead, cur, tries>>

\* the tunnel is in the registry; nothing keeps it there afterwards
FindTunnel(v) ==
    /\ pub[v] = "lookup" /\ TunnelUp
    /\ pub' = [pub EXCEPT ![v] = "get"]
    /\ UNCHANGED <<stp, wtr, asked, slots, pool, px, dead, cur, tries>>

\* mutant: the slot is not given back when there is no proxy connection to close
Finish_KeepsSlot(v) ==
    /\ pub' = [pub EXCEPT ![v] = "closed"]
    /\ px' = [p \in Proxies |-> IF p = cur[v] THEN "closed" ELSE px[p]]
    /\ cur' = [cur EXCEPT ![v] = None]
    /\ IF cur[v] = None THEN UNCHANGED slots ELSE ReleaseSlot

\* the handler returns: it closes its connections and gives its slot back
Finish(v) ==
    /\ pub' = [pub EXCEPT ![v] = "closed"]
    /\ px' = [p \in Proxies |-> IF p = cur[v] THEN "closed" ELSE px[p]]
    /\ cur' = [cur EXCEPT ![v] = None]
    /\ ReleaseSlot

\* bad request, unknown host or wrong credentials
RefuseRequest(v) ==
    /\ pub[v] = "lookup"
    /\ Finish(v)
    /\ UNCHANGED <<stp, wtr, asked, pool, dead, tries>>

\* GetProxy receives from the pool, at once or after it has asked
TakeProxy(v) ==
    /\ pub[v] \in {"get", "wait"} /\ pool # <<>>
    /\ pool' = Tail(pool)
    /\ px' = [px EXCEPT ![Head(pool)] = "taken"]
    /\ cur' = [cur EXCEPT ![v] = Head(pool)]
    /\ pub' = [pub EXCEPT ![v] = "start"]
    /\ UNCHANGED <<stp, wtr, asked, slots, dead, tries>>

\* GetProxy finds the pool empty and goes to send a ReqProxy
PoolIsEmpty(v) ==
    /\ pub[v] = "get" /\ pool = <<>> /\ ~PoolClosed
    /\ pub' = [pub EXCEPT ![v] = "ask"]
    /\ UNCHANGED <<stp, wtr, asked, slots, pool, px, dead, cur, tries>>

\* the writer receives the ReqProxy, of GetProxy or the replacement of a used connection
SendReqProxy(v) ==
    /\ pub[v] \in {"ask", "more"} /\ wtr = "recv" /\ ~OutClosed
    /\ wtr' = "write"
    /\ pub' = [pub EXCEPT ![v] = IF pub[v] = "ask" THEN "wait" ELSE "join"]
    /\ UNCHANGED <<stp, asked, slots, pool, px, dead, cur, tries>>

\* the send panics on the closed channel; PanicToError makes it an error that is ignored
ReplacementPanics(v) ==
    /\ pub[v] = "more" /\ OutClosed
    /\ pub' = [pub EXCEPT ![v] = "join"]
    /\ UNCHANGED <<stp, wtr, asked, slots, pool, px, dead, cur, tries>>

\* mutant: the send in GetProxy is not wrapped in PanicToError and never returns
GetProxyFails_NoPanic(v) ==
    /\ \/ pub[v] \in {"get", "wait"} /\ pool = <<>> /\ PoolClosed
       \/ pub[v] = "wait"
    /\ Finish(v)
    /\ UNCHANGED <<stp, wtr, asked, pool, dead, tries>>

\* GetProxy fails: the send panicked, the pool is closed and empty, or time is up
GetProxyFails(v) ==
    /\ \/ pub[v] = "ask" /\ OutClosed
       \/ pub[v] \in {"get", "wait"} /\ pool = <<>> /\ PoolClosed
       \/ pub[v] = "wait"
    /\ Finish(v)
    /\ UNCHANGED <<stp, wtr, asked, pool, dead, tries>>

\* StartProxy is written
StartProxy(v) ==
    /\ pub[v] = "start" /\ ~dead[cur[v]]
    /\ pub' = [pub EXCEPT ![v] = "more"]
    /\ UNCHANGED <<stp, wtr, asked, slots, pool, px, dead, cur, tries>>

\* mutant: the proxy connection that failed goes back into the pool
StartFails_PutsBack(v) ==
    /\ pub[v] = "start" /\ dead[cur[v]] /\ tries[v] + 1 < MaxTries
    /\ pub' = [pub EXCEPT ![v] = "get"]
    /\ px' = [px EXCEPT ![cur[v]] = "closed"]
    /\ pool' = IF Len(pool) < PoolCap THEN Append(pool, cur[v]) ELSE pool
    /\ cur' = [cur EXCEPT ![v] = None]
    /\ tries' = [tries EXCEPT ![v] = @ + 1]
    /\ UNCHANGED <<stp, wtr, asked, slots, dead>>

\* StartProxy cannot be written: close the proxy connection, try another one ...
StartFails(v) ==
    /\ pub[v] = "start" /\ dead[cur[v]] /\ tries[v] + 1 < MaxTries
    /\ pub' = [pub EXCEPT ![v] = "get"]
    /\ px' = [px EXCEPT ![cur[v]] = "closed"]
    /\ cur' = [cur EXCEPT ![v] = None]
    /\ tries' = [tries EXCEPT ![v] = @ + 1]
    /\ UNCHANGED <<stp, wtr, asked, slots, pool, dead>>

\* ... or give up
StartFailsForGood(v) ==
    /\ pub[v] = "start" /\ dead[cur[v]] /\ tries[v] + 1 = MaxTries
    /\ tries' = [tries EXCEPT ![v] = @ + 1]
    /\ Finish(v)
    /\ UNCHANGED <<stp, wtr, asked, pool, dead>>

\* one side of the join closes; both connections are closed
JoinEnds(v) ==
    /\ pub[v] = "join"
    /\ Finish(v)
    /\ UNCHANGED <<stp, wtr, asked, pool, dead, tries>>

-----------------------------------------------------------------------------
(***************************************************************************)
(* The writer and the stopper                                              *)
(***************************************************************************)
WriterWrites ==
    /\ wtr = "write" /\ wtr' = "recv"
    /\ asked' = IF asked < MaxAsked THEN asked + 1 ELSE asked
    /\ UNCHANGED <<stp, slots, pool, px, dead, pub, cur, tries>>

WriterEnds ==
    /\ wtr = "write" \/ (wtr = "recv" /\ OutClosed)
    /\ wtr' = "done"
    /\ UNCHANGED <<stp, asked, slots, pool, px, dead, pub, cur, tries>>

StopperUnlists ==
    /\ stp = "run" /\ stp' = "unlisted"
    /\ UNCHANGED <<wtr, asked, slots, pool, px, dead, pub, cur, tries>>

StopperClosesOut ==
    /\ stp = "unlisted" /\ stp' = "outClosed"
    /\ UNCHANGED <<wtr, asked, slots, pool, px, dead, pub, cur, tries>>

StopperShutsTunnels ==
    /\ stp = "outClosed" /\ wtr = "done" /\ stp' = "noTunnels"
    /\ UNCHANGED <<wtr, asked, slots, pool, px, dead, pub, cur, tries>>

StopperClosesPool ==
    /\ stp = "noTunnels" /\ stp' = "drain"
    /\ UNCHANGED <<wtr, asked, slots, pool, px, dead, pub, cur, tries>>

StopperDrains ==
    /\ stp = "drain" /\ pool # <<>>
    /\ pool' = Tail(pool)
    /\ px' = [px EXCEPT ![Head(pool)] = "closed"]
    /\ UNCHANGED <<stp, wtr, asked, slots, dead, pub, cur, tries>>

\* mutant: the stopper completes without draining the pool
StopperCompletes_Undrained ==
    /\ stp = "drain" /\ stp' = "done"
    /\ UNCHANGED <<wtr, asked, slots, pool, px, dead, pub, cur, tries>>

StopperCompletes ==
    /\ stp = "drain" /\ pool = <<>> /\ stp' = "done"
    /\ UNCHANGED <<wtr, asked, slots, pool, px, dead, pub, cur, tries>>

-----------------------------------------------------------------------------
NewProxy(p) == ReadFails(p) \/ LookUpControl(p) \/ RegisterProxy(p)

GetProxy(v) == TakeProxy(v) \/ PoolIsEmpty(v) \/ GetProxyFails(v)

HandlePublicConnection(v) ==
    \/ FindTunnel(v) \/ RefuseRequest(v) \/ GetProxy(v) \/ SendReqProxy(v)
    \/ ReplacementPanics(v) \/ StartProxy(v) \/ StartFails(v) \/ StartFailsForGood(v)

stopper ==
    \/ StopperClosesOut \/ StopperShutsTunnels \/ StopperClosesPool
    \/ StopperDrains \/ StopperCompletes

Next ==
    \/ \E p \in Proxies : ClientDials(p) \/ NewProxy(p) \/ ProxyDies(p)
    \/ \E v \in Publics : PublicArrives(v) \/ HandlePublicConnection(v) \/ JoinEnds(v)
    \/ WriterWrites \/ WriterEnds \/ StopperUnlists \/ stopper

Spec == Init /\ [][Next]_vars

(***************************************************************************)
(* Goroutines that can run do run.  Blocked senders on c.out are served in *)
(* order, hence strong fairness.  A shutdown that has begun goes on, and a *)
(* writer that failed begins it.  Nothing is assumed of clients: they need *)
(* not dial, public connections need not arrive nor end.                   *)
(***************************************************************************)
Fairness ==
    /\ \A p \in Proxies : WF_vars(NewProxy(p))
    /\ \A v \in Publics :
          /\ WF_vars(HandlePublicConnection(v))
          /\ SF_vars(SendReqProxy(v))
    /\ WF_vars(WriterWrites \/ WriterEnds)
    /\ WF_vars(stopper)
    /\ WF_vars(wtr = "done" /\ StopperUnlists)

FairSpec == Spec /\ Fairness
-----------------------------------------------------------------------------
(***************************************************************************)
(* The slots in use are exactly the goroutines that hold one: every path   *)
(* out of NewProxy, httpHandler and HandlePublicConnection gives the slot  *)
(* back once, panics and refusals included.                                *)
(***************************************************************************)
SlotsAreExact ==
    slots = Cardinality({p \in Proxies : px[p] \in {"accepted", "found"}})
          + Cardinality({v \in Publics : pub[v] \notin {"none", "closed"}})

(***************************************************************************)
(* A proxy connection has one holder: it is in the pool once, or one       *)
(* public connection uses it, and a closed one is in neither.              *)
(***************************************************************************)
Places(p) == {k \in DOMAIN pool : pool[k] = p}
Users(p)  == {v \in Publics : cur[v] = p}

EachProxyHasOneHolder ==
    \A p \in Proxies :
        /\ Cardinality(Places(p)) = IF px[p] = "pooled" THEN 1 ELSE 0
        /\ Cardinality(Users(p))  = IF px[p] = "taken" THEN 1 ELSE 0

(***************************************************************************)
(* When the control's shutdown is complete nothing is left in its pool,    *)
(* and nothing gets there any more: a RegProxy that found the control      *)
(* before it left the registry and registers after the drain is closed.    *)
(***************************************************************************)
NothingPooledAfterShutdown ==
    stp = "done" => \A p \in Proxies : px[p] # "pooled"

(***************************************************************************)
(* A handler is never left blocked: every public connection that is        *)
(* accepted is joined or closed, whatever the writer, the stopper, the     *)
(* client and the other handlers do.                                       *)
(***************************************************************************)
PublicsGetServedOrClosed ==
    \A v \in Publics : pub[v] = "lookup" ~> pub[v] \in {"join", "closed"}

(***************************************************************************)
(* When the control shuts down, the proxy connections that no public       *)
(* connection uses are closed, also those on their way into the pool.      *)
(***************************************************************************)
AbandonedProxiesClose ==
    \A p \in Proxies :
        Unlisted /\ px[p] \in {"accepted", "found", "pooled"} ~> px[p] \in {"taken", "closed"}

(***************************************************************************)
(* README.md:19: "`-maxConnections` limits accepted public and tunnel      *)
(* connections."  The open connections that were accepted are at most      *)
(* maxConnections.                                                         *)
(***************************************************************************)
OpenConnectionsAreLimited ==
    Cardinality({p \in Proxies : px[p] \notin {"free", "closed"}})
        + Cardinality({v \in Publics : pub[v] \notin {"none", "closed"}}) <= MaxSlots
=============================================================================
