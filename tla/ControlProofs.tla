--------------------------- MODULE ControlProofs ---------------------------
(***************************************************************************)
(* Proofs about Control, for every set of controls, clients, URLs and      *)
(* requests, with and without write errors and torn reads.                 *)
(***************************************************************************)
EXTENDS Control, TLAPS

Typed == TypeOK /\ RequestInWork

\* A message of type ReqTunnel carries a request.
LEMMA ReqTunnelCarriesRequest ==
    ASSUME NEW m \in Messages, m.type = "ReqTunnel"
    PROVE  m.urls \in Requests
BY DEF Messages

\* NoMsg is a message, requests are non-empty sequences of URLs.
LEMMA RequestsAreSequences ==
    /\ NoMsg \in Messages
    /\ Requests \subseteq Seq(Urls)
    /\ <<>> \notin Requests
BY ControlAssumption DEF Messages, NoMsg

\* Every step keeps the types.
LEMMA TypedNext == Typed /\ [Next]_vars => Typed'
<1> SUFFICES ASSUME Typed, [Next]_vars PROVE Typed'
  OBVIOUS
<1> USE RequestsAreSequences DEF Typed, TypeOK, RequestInWork
<1>1. CASE UNCHANGED vars
  BY <1>1 DEF vars
<1>2. ASSUME NEW c \in Controls, NewControl(c) PROVE Typed'
  <2>1. CASE Reject(c)
    BY <2>1 DEF Reject
  <2>2. ASSUME NEW i \in ClientIds, Add(c, i) PROVE Typed'
    <3>1. CASE controls[i] = None
      BY <2>2, <3>1 DEF Add
    <3>2. CASE controls[i] # None
      <4>1. controls[i] \in Controls
        BY <3>2
      <4>2. stp' = stp \/ stp' = [stp EXCEPT ![controls[i]] = "crashed"]
        BY <2>2, <3>2 DEF Add
      <4>3. stp' \in [Controls -> {"off", "begin", "del", "closeIn", "closeOut", "closeConn",
                                   "tunnels", "done", "crashed"}]
        BY <4>1, <4>2
      <4>4. id' \in [Controls -> ClientIds \cup {NoId}]
        <5>1. id' = [[id EXCEPT ![c] = i] EXCEPT ![controls[i]] = NoId]
          BY <2>2, <3>2 DEF Add
        <5> QED BY <4>1, <5>1
      <4>5. begin' \in [Controls -> BOOLEAN]
        BY <2>2, <3>2, <4>1 DEF Add, BeginShutdown
      <4>6. /\ controls' \in [ClientIds -> Controls \cup {None}]
            /\ client' \in [Controls -> ClientIds \cup {None}]
            /\ replaced' \in [Controls -> Controls \cup {None}]
            /\ newc' \in [Controls -> {"idle", "wait", "authresp", "reqproxy", "done", "rejected"}]
            /\ conn' \in [Controls -> {"none", "open", "lost", "closed"}]
        BY <2>2, <3>2, <4>1 DEF Add
      <4> QED BY <2>2, <4>3, <4>4, <4>5, <4>6 DEF Add
    <3> QED BY <3>1, <3>2
  <2>3. CASE StartWriter(c)
    BY <2>3 DEF StartWriter, OldIsOver
  <2>4. CASE SendAuthResp(c)
    BY <2>4 DEF SendAuthResp, WriterTakes
  <2>5. CASE StartControl(c)
    BY <2>5 DEF StartControl, WriterTakes
  <2> QED BY <1>2, <2>1, <2>2, <2>3, <2>4, <2>5 DEF NewControl
<1>3. ASSUME NEW c \in Controls, reader(c) PROVE Typed'
  <2>1. CASE ReaderReads(c)
    BY <2>1 DEF ReaderReads
  <2>2. CASE ReaderEnds(c)
    BY <2>2 DEF ReaderEnds, BeginShutdown
  <2> QED BY <1>3, <2>1, <2>2 DEF reader
<1>4. ASSUME NEW c \in Controls, manager(c) PROVE Typed'
  <2>1. CASE ManagerOnReqTunnel(c)
    <3>1. rmsg[c].urls \in Requests
      BY <2>1, ReqTunnelCarriesRequest DEF ManagerOnReqTunnel
    <3> QED BY <2>1, <3>1 DEF ManagerOnReqTunnel, ManagerReceives
  <2>2. CASE ManagerOnPing(c)
    BY <2>2 DEF ManagerOnPing, ManagerReceives
  <2>3. CASE ManagerOnOther(c)
    BY <2>3 DEF ManagerOnOther, ManagerReceives
  <2>4. CASE ManagerReaps(c)
    BY <2>4 DEF ManagerReaps, BeginShutdown
  <2>5. CASE RegisterOk(c)
    <3>1. /\ Head(mreq[c]) \in Urls
          /\ Tail(mreq[c]) \in Seq(Urls)
      BY <2>5 DEF RegisterOk, Free
    <3> QED BY <2>5, <3>1 DEF RegisterOk, Free
  <2>6. CASE RegisterFails(c)
    BY <2>6 DEF RegisterFails, Free
  <2>7. CASE ManagerAnswers(c)
    BY <2>7 DEF ManagerAnswers, WriterTakes
  <2>8. CASE ManagerSendsError(c)
    BY <2>8 DEF ManagerSendsError, WriterTakes, BeginShutdown
  <2>9. CASE ManagerEnds(c)
    BY <2>9 DEF ManagerEnds, BeginShutdown
  <2> QED BY <1>4, <2>1, <2>2, <2>3, <2>4, <2>5, <2>6, <2>7, <2>8, <2>9
          DEF manager, registerTunnel
<1>5. ASSUME NEW c \in Controls, writer(c) PROVE Typed'
  <2>1. CASE WriterWrites(c)
    BY <2>1 DEF WriterWrites
  <2>2. CASE WriterEnds(c)
    BY <2>2 DEF WriterEnds, BeginShutdown
  <2> QED BY <1>5, <2>1, <2>2 DEF writer
<1>6. ASSUME NEW c \in Controls, stopper(c) PROVE Typed'
  <2>1. CASE StopperReadsId(c)
    BY <2>1 DEF StopperReadsId
  <2>2. CASE StopperDel(c)
    BY <2>2 DEF StopperDel
  <2>3. CASE StopperClosesIn(c)
    BY <2>3 DEF StopperClosesIn
  <2>4. CASE StopperClosesOut(c)
    BY <2>4 DEF StopperClosesOut
  <2>5. CASE StopperClosesConn(c)
    BY <2>5 DEF StopperClosesConn
  <2>6. ASSUME NEW u \in Urls, StopperShutsTunnel(c, u) PROVE Typed'
    BY <2>6 DEF StopperShutsTunnel
  <2>7. CASE StopperCompletes(c)
    BY <2>7 DEF StopperCompletes
  <2> QED BY <1>6, <2>1, <2>2, <2>3, <2>4, <2>5, <2>6, <2>7 DEF stopper
<1>7. ASSUME NEW c \in Controls, outside(c) PROVE Typed'
  <2>1. CASE HandlerSendsReqProxy(c)
    BY <2>1 DEF HandlerSendsReqProxy, WriterTakes
  <2>2. CASE ConnLost(c)
    BY <2>2 DEF ConnLost
  <2>3. CASE PingOverdue(c)
    BY <2>3 DEF PingOverdue
  <2> QED BY <1>7, <2>1, <2>2, <2>3 DEF outside
<1> QED BY <1>1, <1>2, <1>3, <1>4, <1>5, <1>6, <1>7 DEF Next

\* The types hold initially.
LEMMA TypedInit == Init => Typed
BY RequestsAreSequences DEF Init, Typed, TypeOK, RequestInWork

-----------------------------------------------------------------------------
\* The rest of IndInv.
Orderly ==
    /\ RegistryAgreesWithTunnels
    /\ StoppingInOrder
    /\ StartingInOrder
    /\ RegisteredByItsId
    /\ ReplacedIsOver

(***************************************************************************)
(* Every step of every goroutine keeps the registries, the stages of the   *)
(* stopper and the stages of NewControl in order.                          *)
(***************************************************************************)
LEMMA OrderlyNext == Typed /\ Orderly /\ [Next]_vars => Orderly'
<1> SUFFICES ASSUME Typed, Orderly, [Next]_vars PROVE Orderly'
  OBVIOUS
<1> USE DEF Orderly, RegistryAgreesWithTunnels, StoppingInOrder, StartingInOrder,
            RegisteredByItsId, ReplacedIsOver, Typed, TypeOK, InClosed, OutClosed, Complete
<1>1. CASE UNCHANGED vars
  BY <1>1 DEF vars
<1>2. ASSUME NEW c \in Controls, NewControl(c) PROVE Orderly'
  <2>1. CASE Reject(c)
    BY <2>1 DEF Reject
  <2>2. ASSUME NEW i \in ClientIds, Add(c, i) PROVE Orderly'
    <3>1. /\ newc[c] = "idle"
          /\ newc' = [newc EXCEPT ![c] = "wait"]
          /\ conn' = [conn EXCEPT ![c] = "open"]
          /\ controls' = [controls EXCEPT ![i] = c]
          /\ replaced' = [replaced EXCEPT ![c] = controls[i]]
          /\ UNCHANGED <<reg, mgr, wtr, did, tunnels>>
      BY <2>2 DEF Add
    <3>2. id'[c] = i
      <4>1. CASE controls[i] = None
        BY <2>2, <4>1 DEF Add
      <4>2. CASE controls[i] # None
        <5>1. id' = [[id EXCEPT ![c] = i] EXCEPT ![controls[i]] = NoId]
          BY <2>2, <4>2 DEF Add
        <5>2. controls[i] # c
          BY <3>1
        <5> QED BY <5>1, <5>2
      <4> QED BY <4>1, <4>2
    <3>3. \A d \in Controls \ {c} : controls[i] # d => id'[d] = id[d] /\ stp'[d] = stp[d]
      BY <2>2 DEF Add
    <3>4. \A d \in Controls :
            \/ stp'[d] = stp[d]
            \/ stp[d] = "begin" /\ stp'[d] = "crashed" /\ begin[d]
      <4>1. \/ stp' = stp
            \/ stp[controls[i]] = "begin" /\ begin[controls[i]] /\ stp' = [stp EXCEPT ![controls[i]] = "crashed"]
        BY <2>2 DEF Add
      <4> QED BY <4>1
    <3>5. \A d \in Controls : begin[d] => begin'[d]
      BY <2>2 DEF Add, BeginShutdown
    <3>6. RegistryAgreesWithTunnels' /\ StoppingInOrder' /\ StartingInOrder'
      BY <3>1, <3>4, <3>5
    <3>7. ReplacedIsOver'
      <4> SUFFICES ASSUME NEW d \in Controls
                   PROVE  /\ newc'[d] \in {"idle", "rejected"} => replaced'[d] = None
                          /\ newc'[d] # "wait" /\ replaced'[d] # None => stp'[replaced'[d]] = "done"
        BY DEF ReplacedIsOver
      <4>1. CASE d = c
        BY <3>1, <4>1
      <4>2. CASE d # c
        <5>1. newc'[d] = newc[d] /\ replaced'[d] = replaced[d]
          BY <3>1, <4>2
        <5>2. replaced[d] # None => replaced[d] \in Controls
          OBVIOUS
        <5> QED BY <3>4, <5>1, <5>2
      <4> QED BY <4>1, <4>2
    <3>8. RegisteredByItsId'
      <4> SUFFICES ASSUME NEW d \in Controls, NEW j \in ClientIds, controls'[j] = d
                   PROVE  /\ newc'[d] \notin {"idle", "rejected"}
                          /\ id'[d] = j
                          /\ stp'[d] \in {"off", "begin", "del"}
                          /\ stp'[d] = "del" => did'[d] = j
        BY DEF RegisteredByItsId
      <4>1. CASE d = c
        <5>1. j = i
          BY <3>1, <4>1
        <5>2. stp'[c] = "off"
          <6>1. stp[c] = "off"
            BY <3>1
          <6> QED BY <3>4, <6>1
        <5>3. newc'[c] = "wait"
          BY <3>1
        <5> QED BY <3>2, <4>1, <5>1, <5>2, <5>3
      <4>2. CASE d # c
        <5>1. j # i /\ controls[j] = d
          BY <3>1, <4>2
        <5>2. controls[i] # d
          BY <5>1
        <5> QED BY <3>1, <3>3, <4>2, <5>1, <5>2
      <4> QED BY <4>1, <4>2
    <3> QED BY <3>6, <3>7, <3>8
  <2>3. CASE StartWriter(c)
    BY <2>3 DEF StartWriter, OldIsOver
  <2>4. CASE SendAuthResp(c)
    BY <2>4 DEF SendAuthResp, WriterTakes
  <2>5. CASE StartControl(c)
    BY <2>5 DEF StartControl, WriterTakes
  <2> QED BY <1>2, <2>1, <2>2, <2>3, <2>4, <2>5 DEF NewControl
<1>3. ASSUME NEW c \in Controls, reader(c) PROVE Orderly'
  <2>1. CASE ReaderReads(c)
    BY <2>1 DEF ReaderReads
  <2>2. CASE ReaderEnds(c)
    BY <2>2 DEF ReaderEnds, BeginShutdown
  <2> QED BY <1>3, <2>1, <2>2 DEF reader
<1>4. ASSUME NEW c \in Controls, manager(c) PROVE Orderly'
  <2>1. CASE ManagerOnReqTunnel(c)
    BY <2>1 DEF ManagerOnReqTunnel, ManagerReceives
  <2>2. CASE ManagerOnPing(c)
    BY <2>2 DEF ManagerOnPing, ManagerReceives
  <2>3. CASE ManagerOnOther(c)
    BY <2>3 DEF ManagerOnOther, ManagerReceives
  <2>4. CASE ManagerReaps(c)
    BY <2>4 DEF ManagerReaps, BeginShutdown
  <2>5. CASE RegisterOk(c)
    <3> DEFINE u == Head(mreq[c])
    <3>1. /\ u \in Urls
          /\ reg[u] = None
          /\ reg' = [reg EXCEPT ![u] = c]
          /\ tunnels' = [tunnels EXCEPT ![c] = tunnels[c] \cup {u}]
      BY <2>5 DEF RegisterOk, Free, RequestInWork
    <3>2. RegistryAgreesWithTunnels'
      <4> SUFFICES ASSUME NEW d \in Controls, NEW w \in Urls
                   PROVE  reg'[w] = d <=> w \in tunnels'[d]
        OBVIOUS
      <4>1. CASE w = u
        BY <3>1, <4>1, ControlAssumption
      <4>2. CASE w # u
        BY <3>1, <4>2
      <4> QED BY <4>1, <4>2
    <3>3. StoppingInOrder' /\ StartingInOrder'
      BY <2>5 DEF RegisterOk, Free
    <3>4. RegisteredByItsId' /\ ReplacedIsOver'
      BY <2>5 DEF RegisterOk, Free
    <3> QED BY <3>2, <3>3, <3>4
  <2>6. CASE RegisterFails(c)
    BY <2>6 DEF RegisterFails, Free
  <2>7. CASE ManagerAnswers(c)
    <3>1. RegistryAgreesWithTunnels' /\ RegisteredByItsId' /\ ReplacedIsOver'
      BY <2>7 DEF ManagerAnswers, WriterTakes
    <3>2. StoppingInOrder' /\ StartingInOrder'
      BY <2>7 DEF ManagerAnswers, WriterTakes
    <3> QED BY <3>1, <3>2
  <2>8. CASE ManagerSendsError(c)
    BY <2>8 DEF ManagerSendsError, WriterTakes, BeginShutdown
  <2>9. CASE ManagerEnds(c)
    BY <2>9 DEF ManagerEnds, BeginShutdown
  <2> QED BY <1>4, <2>1, <2>2, <2>3, <2>4, <2>5, <2>6, <2>7, <2>8, <2>9 DEF manager, registerTunnel
<1>5. ASSUME NEW c \in Controls, writer(c) PROVE Orderly'
  <2>1. CASE WriterWrites(c)
    BY <2>1 DEF WriterWrites
  <2>2. CASE WriterEnds(c)
    BY <2>2 DEF WriterEnds, BeginShutdown
  <2> QED BY <1>5, <2>1, <2>2 DEF writer
<1>6. ASSUME NEW c \in Controls, stopper(c) PROVE Orderly'
  <2>1. CASE StopperReadsId(c)
    BY <2>1 DEF StopperReadsId
  <2>2. CASE StopperDel(c)
    <3>1. RegistryAgreesWithTunnels' /\ StoppingInOrder' /\ StartingInOrder' /\ ReplacedIsOver'
      BY <2>2 DEF StopperDel
    <3>2. RegisteredByItsId'
      <4> SUFFICES ASSUME NEW d \in Controls, NEW i \in ClientIds, controls'[i] = d
                   PROVE  /\ newc'[d] \notin {"idle", "rejected"}
                          /\ id'[d] = i
                          /\ stp'[d] \in {"off", "begin", "del"}
                          /\ stp'[d] = "del" => did'[d] = i
        OBVIOUS
      <4>1. /\ i # did[c]
            /\ controls[i] = d
        BY <2>2, ControlAssumption DEF StopperDel
      <4>2. d # c
        BY <2>2, <4>1 DEF StopperDel
      <4> QED BY <2>2, <4>1, <4>2 DEF StopperDel
    <3> QED BY <3>1, <3>2
  <2>3. CASE StopperClosesIn(c)
    BY <2>3 DEF StopperClosesIn
  <2>4. CASE StopperClosesOut(c)
    BY <2>4 DEF StopperClosesOut
  <2>5. CASE StopperClosesConn(c)
    BY <2>5 DEF StopperClosesConn
  <2>6. ASSUME NEW u \in Urls, StopperShutsTunnel(c, u) PROVE Orderly'
    <3>1. RegistryAgreesWithTunnels'
      <4> SUFFICES ASSUME NEW d \in Controls, NEW w \in Urls
                   PROVE  reg'[w] = d <=> w \in tunnels'[d]
        OBVIOUS
      <4>1. /\ reg' = [reg EXCEPT ![u] = None]
            /\ tunnels' = [tunnels EXCEPT ![c] = tunnels[c] \ {u}]
            /\ reg[u] = c
        BY <2>6 DEF StopperShutsTunnel
      <4>2. CASE w = u
        BY <4>1, <4>2, ControlAssumption
      <4>3. CASE w # u
        BY <4>1, <4>3
      <4> QED BY <4>2, <4>3
    <3>2. StoppingInOrder' /\ StartingInOrder'
      BY <2>6 DEF StopperShutsTunnel
    <3>3. RegisteredByItsId' /\ ReplacedIsOver'
      BY <2>6 DEF StopperShutsTunnel
    <3> QED BY <3>1, <3>2, <3>3
  <2>7. CASE StopperCompletes(c)
    BY <2>7 DEF StopperCompletes
  <2> QED BY <1>6, <2>1, <2>2, <2>3, <2>4, <2>5, <2>6, <2>7 DEF stopper
<1>7. ASSUME NEW c \in Controls, outside(c) PROVE Orderly'
  <2>1. CASE HandlerSendsReqProxy(c)
    BY <2>1 DEF HandlerSendsReqProxy, WriterTakes
  <2>2. CASE ConnLost(c)
    BY <2>2 DEF ConnLost
  <2>3. CASE PingOverdue(c)
    BY <2>3 DEF PingOverdue
  <2> QED BY <1>7, <2>1, <2>2, <2>3 DEF outside
<1> QED BY <1>1, <1>2, <1>3, <1>4, <1>5, <1>6, <1>7 DEF Next

\* Nothing has started initially.
LEMMA OrderlyInit == Init => Orderly
BY ControlAssumption
   DEF Init, Orderly, RegistryAgreesWithTunnels, StoppingInOrder, StartingInOrder,
       RegisteredByItsId, ReplacedIsOver, InClosed, OutClosed, Complete

\* IndInv is inductive, so it always holds.
LEMMA Inductive == Spec => [](Typed /\ Orderly)
<1>1. Init => Typed /\ Orderly
  BY TypedInit, OrderlyInit
<1>2. Typed /\ Orderly /\ [Next]_vars => (Typed /\ Orderly)'
  BY TypedNext, OrderlyNext
<1> QED BY <1>1, <1>2, PTL DEF Spec

-----------------------------------------------------------------------------
(***************************************************************************)
(* Type correctness of the control connections and the registries          *)
(* (Control in server/control.go, the tables in server/registry.go).       *)
(***************************************************************************)
THEOREM TypeCorrect == Spec => []TypeOK
<1>1. Typed /\ Orderly => TypeOK
  BY DEF Typed
<1> QED BY <1>1, Inductive, PTL

(***************************************************************************)
(* The inductive invariant holds in every reachable state: what each       *)
(* goroutine of control.go relies on about the others.                     *)
(***************************************************************************)
THEOREM InvariantHolds == Spec => []IndInv
<1>1. Typed /\ Orderly => IndInv
  BY DEF Typed, Orderly, IndInv
<1> QED BY <1>1, Inductive, PTL

(***************************************************************************)
(* The URL table and the controls' tunnels agree, so that the              *)
(* unconditional TunnelRegistry.Del of a Tunnel.Shutdown only ever deletes *)
(* the tunnel's own registration.                                          *)
(***************************************************************************)
THEOREM UrlsAgree == Spec => []RegistryAgreesWithTunnels
<1>1. Typed /\ Orderly => RegistryAgreesWithTunnels
  BY DEF Orderly
<1> QED BY <1>1, Inductive, PTL

(***************************************************************************)
(* A control whose stopper has completed (control.go:295) has left nothing *)
(* behind.                                                                 *)
(***************************************************************************)
THEOREM NothingIsLeft == Spec => []CompletedLeavesNothing
<1>1. Typed /\ Orderly => CompletedLeavesNothing
  <2> SUFFICES ASSUME Typed, Orderly, NEW c \in Controls, stp[c] = "done"
               PROVE  /\ \A u \in Urls : reg[u] # c
                      /\ \A i \in ClientIds : controls[i] # c
                      /\ conn[c] = "closed"
                      /\ mgr[c] = "done" /\ wtr[c] = "done"
    BY DEF CompletedLeavesNothing, Complete
  <2>1. \A u \in Urls : reg[u] # c
    BY DEF Orderly, RegistryAgreesWithTunnels, StoppingInOrder, Complete
  <2>2. \A i \in ClientIds : controls[i] # c
    BY DEF Orderly, RegisteredByItsId
  <2>3. conn[c] = "closed" /\ mgr[c] = "done" /\ wtr[c] = "done"
    BY DEF Orderly, StoppingInOrder, OutClosed
  <2> QED BY <2>1, <2>2, <2>3
<1> QED BY <1>1, Inductive, PTL

(***************************************************************************)
(* A replacement starts to serve only when the control it waited for       *)
(* (control.go:111) holds no URL and no connection.                        *)
(***************************************************************************)
THEOREM HandoversAreClean == Spec => []HandoverIsClean
<1>1. Typed /\ Orderly => HandoverIsClean
  <2> SUFFICES ASSUME Typed, Orderly, NEW c \in Controls,
                      newc[c] \notin {"idle", "wait"}, replaced[c] # None
               PROVE  /\ \A u \in Urls : reg[u] # replaced[c]
                      /\ conn[replaced[c]] = "closed"
    BY DEF HandoverIsClean
  <2>1. replaced[c] \in Controls
    BY DEF Typed, TypeOK
  <2>2. Complete(replaced[c])
    BY DEF Orderly, ReplacedIsOver
  <2> QED BY <2>1, <2>2 DEF Orderly, StoppingInOrder, RegistryAgreesWithTunnels, Complete
<1> QED BY <1>1, Inductive, PTL

(***************************************************************************)
(* The manager never sends on a closed c.out (control.go:278).             *)
(***************************************************************************)
THEOREM SendsAreSafe == Spec => []ManagerNeverSendsOnClosed
<1>1. Typed /\ Orderly => ManagerNeverSendsOnClosed
  BY DEF Orderly, StoppingInOrder, ManagerNeverSendsOnClosed
<1> QED BY <1>1, Inductive, PTL

(***************************************************************************)
(* The AuthResp is the first message on the connection (control.go:118).   *)
(***************************************************************************)
THEOREM AuthRespComesFirst == Spec => []AuthRespIsFirst
<1>1. Typed /\ Orderly => AuthRespIsFirst
  BY DEF Orderly, StartingInOrder, AuthRespIsFirst
<1> QED BY <1>1, Inductive, PTL
-----------------------------------------------------------------------------
(***************************************************************************)
(* What a step does to the URLs: nothing, or one abstract action; and a    *)
(* URL is only released by a session that has begun to shut down.          *)
(***************************************************************************)
UrlStep ==
    \/ UNCHANGED <<reg, over>>
    \/ \E s \in Controls, w \in Urls : Urls_!Acquire(s, w)
    \/ \E s \in Controls, w \in Urls : Urls_!Release(s, w) /\ begin[s]
    \/ \E s \in Controls : Urls_!Finish(s)

\* Every step of every goroutine is such a step.
LEMMA EveryStepIsAUrlStep == Typed /\ Orderly /\ [Next]_vars => UrlStep
<1> SUFFICES ASSUME Typed, Orderly, [Next]_vars PROVE UrlStep
  OBVIOUS
<1> USE DEF Typed, TypeOK, over, Complete
<1>1. CASE UNCHANGED vars
  BY <1>1 DEF vars, UrlStep
<1>2. ASSUME NEW c \in Controls, NewControl(c) PROVE UrlStep
  <2>1. CASE Reject(c)
    BY <2>1 DEF Reject, UrlStep
  <2>2. ASSUME NEW i \in ClientIds, Add(c, i) PROVE UrlStep
    <3>1. \/ stp' = stp
          \/ stp[controls[i]] = "begin" /\ stp' = [stp EXCEPT ![controls[i]] = "crashed"]
      BY <2>2 DEF Add
    <3>2. UNCHANGED over
      BY <3>1
    <3> QED BY <2>2, <3>2 DEF Add, UrlStep
  <2>3. CASE StartWriter(c)
    BY <2>3 DEF StartWriter, UrlStep
  <2>4. CASE SendAuthResp(c)
    BY <2>4 DEF SendAuthResp, UrlStep
  <2>5. CASE StartControl(c)
    <3>1. stp[c] = "off"
      BY <2>5 DEF StartControl, Orderly, StartingInOrder
    <3>2. UNCHANGED over
      BY <2>5, <3>1 DEF StartControl
    <3> QED BY <2>5, <3>2 DEF StartControl, UrlStep
  <2> QED BY <1>2, <2>1, <2>2, <2>3, <2>4, <2>5 DEF NewControl
<1>3. ASSUME NEW c \in Controls, reader(c) PROVE UrlStep
  <2>1. CASE ReaderReads(c)
    BY <2>1 DEF ReaderReads, UrlStep
  <2>2. CASE ReaderEnds(c)
    BY <2>2 DEF ReaderEnds, UrlStep
  <2> QED BY <1>3, <2>1, <2>2 DEF reader
<1>4. ASSUME NEW c \in Controls, manager(c) PROVE UrlStep
  <2>1. CASE ManagerOnReqTunnel(c)
    BY <2>1 DEF ManagerOnReqTunnel, UrlStep
  <2>2. CASE ManagerOnPing(c)
    BY <2>2 DEF ManagerOnPing, UrlStep
  <2>3. CASE ManagerOnOther(c)
    BY <2>3 DEF ManagerOnOther, UrlStep
  <2>4. CASE ManagerReaps(c)
    BY <2>4 DEF ManagerReaps, UrlStep
  <2>5. CASE RegisterOk(c)
    <3> DEFINE u == Head(mreq[c])
    <3>1. u \in Urls
      BY <2>5 DEF RegisterOk, Free, RequestInWork
    <3>2. c \notin over
      BY <2>5 DEF RegisterOk, Orderly, StoppingInOrder, OutClosed
    <3>3. reg[u] = None /\ reg' = [reg EXCEPT ![u] = c] /\ UNCHANGED over
      BY <2>5 DEF RegisterOk, Free
    <3>4. Urls_!Acquire(c, u)
      BY <3>2, <3>3 DEF Urls_!Acquire
    <3> QED BY <3>1, <3>4 DEF UrlStep
  <2>6. CASE RegisterFails(c)
    BY <2>6 DEF RegisterFails, UrlStep
  <2>7. CASE ManagerAnswers(c)
    BY <2>7 DEF ManagerAnswers, UrlStep
  <2>8. CASE ManagerSendsError(c)
    BY <2>8 DEF ManagerSendsError, UrlStep
  <2>9. CASE ManagerEnds(c)
    BY <2>9 DEF ManagerEnds, UrlStep
  <2> QED BY <1>4, <2>1, <2>2, <2>3, <2>4, <2>5, <2>6, <2>7, <2>8, <2>9 DEF manager, registerTunnel
<1>5. ASSUME NEW c \in Controls, writer(c) PROVE UrlStep
  <2>1. CASE WriterWrites(c)
    BY <2>1 DEF WriterWrites, UrlStep
  <2>2. CASE WriterEnds(c)
    BY <2>2 DEF WriterEnds, UrlStep
  <2> QED BY <1>5, <2>1, <2>2 DEF writer
<1>6. ASSUME NEW c \in Controls, stopper(c) PROVE UrlStep
  <2>1. CASE StopperReadsId(c)
    BY <2>1 DEF StopperReadsId, UrlStep
  <2>2. CASE StopperDel(c)
    BY <2>2 DEF StopperDel, UrlStep
  <2>3. CASE StopperClosesIn(c)
    BY <2>3 DEF StopperClosesIn, UrlStep
  <2>4. CASE StopperClosesOut(c)
    BY <2>4 DEF StopperClosesOut, UrlStep
  <2>5. CASE StopperClosesConn(c)
    BY <2>5 DEF StopperClosesConn, UrlStep
  <2>6. ASSUME NEW u \in Urls, StopperShutsTunnel(c, u) PROVE UrlStep
    <3>1. reg[u] = c /\ reg' = [reg EXCEPT ![u] = None] /\ UNCHANGED over
      BY <2>6 DEF StopperShutsTunnel, Orderly, RegistryAgreesWithTunnels
    <3>2. begin[c]
      BY <2>6 DEF StopperShutsTunnel, Orderly, StoppingInOrder
    <3>3. Urls_!Release(c, u)
      BY <3>1 DEF Urls_!Release
    <3> QED BY <3>2, <3>3 DEF UrlStep
  <2>7. CASE StopperCompletes(c)
    <3>1. \A u \in Urls : reg[u] # c
      BY <2>7 DEF StopperCompletes, Orderly, RegistryAgreesWithTunnels
    <3>2. over' = over \cup {c} /\ UNCHANGED reg
      BY <2>7 DEF StopperCompletes
    <3>3. Urls_!Finish(c)
      BY <3>1, <3>2 DEF Urls_!Finish
    <3> QED BY <3>3 DEF UrlStep
  <2> QED BY <1>6, <2>1, <2>2, <2>3, <2>4, <2>5, <2>6, <2>7 DEF stopper
<1>7. ASSUME NEW c \in Controls, outside(c) PROVE UrlStep
  <2>1. CASE HandlerSendsReqProxy(c)
    BY <2>1 DEF HandlerSendsReqProxy, UrlStep
  <2>2. CASE ConnLost(c)
    BY <2>2 DEF ConnLost, UrlStep
  <2>3. CASE PingOverdue(c)
    BY <2>3 DEF PingOverdue, UrlStep
  <2> QED BY <1>7, <2>1, <2>2, <2>3 DEF outside
<1> QED BY <1>1, <1>2, <1>3, <1>4, <1>5, <1>6, <1>7 DEF Next

(***************************************************************************)
(* A live session keeps its URLs: only the stopper of the session itself   *)
(* gives them up (Tunnel.Shutdown, tunnel.go:298).                         *)
(***************************************************************************)
THEOREM LiveSessionsKeepUrls == Spec => LiveSessionKeepsItsUrls
<1> DEFINE A == \A u \in Urls : reg[u] # None /\ reg'[u] # reg[u] => reg'[u] = None /\ begin[reg[u]]
<1>1. Typed /\ Orderly /\ [Next]_vars => [A]_vars
  <2> SUFFICES ASSUME Typed, Orderly, [Next]_vars PROVE A
    OBVIOUS
  <2>1. UrlStep
    BY EveryStepIsAUrlStep
  <2> SUFFICES ASSUME NEW u \in Urls, reg[u] # None, reg'[u] # reg[u]
               PROVE  reg'[u] = None /\ begin[reg[u]]
    OBVIOUS
  <2>2. PICK s \in Controls, w \in Urls : Urls_!Release(s, w) /\ begin[s]
    BY <2>1 DEF UrlStep, Urls_!Acquire, Urls_!Finish, Typed, TypeOK
  <2> QED BY <2>2 DEF Urls_!Release, Typed, TypeOK
<1>2. LiveSessionKeepsItsUrls <=> [][A]_vars
  BY DEF LiveSessionKeepsItsUrls
<1> QED BY <1>1, <1>2, Inductive, PTL DEF Spec

(***************************************************************************)
(* The control connections implement UrlOwnership: exclusive URLs, given   *)
(* up by their owner only, and none for a session that is over.            *)
(***************************************************************************)
THEOREM KeepsThePromise == Spec => KeepsUrlPromise
<1>1. Init => Urls_!Init
  BY DEF Init, Urls_!Init, over, Complete
<1>2. Typed /\ Orderly /\ [Next]_vars => [Urls_!Next]_(Urls_!vars)
  <2> SUFFICES ASSUME Typed, Orderly, [Next]_vars PROVE [Urls_!Next]_(Urls_!vars)
    OBVIOUS
  <2>1. UrlStep
    BY EveryStepIsAUrlStep
  <2> QED BY <2>1 DEF UrlStep, Urls_!Next, Urls_!vars
<1> QED BY <1>1, <1>2, Inductive, PTL DEF Spec, Urls_!Spec, KeepsUrlPromise
=============================================================================
