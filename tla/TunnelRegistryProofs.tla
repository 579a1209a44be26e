------------------------ MODULE TunnelRegistryProofs ------------------------
(***************************************************************************)
(* Proofs about TunnelRegistry, for every set of tunnels, names and ports, *)
(* every request, and every number of attempts; and, in the second part,   *)
(* about its affinity cache, LRUCache, for every set of keys and values.   *)
(***************************************************************************)
EXTENDS TunnelRegistry, LRUCache, TLAPS, SequenceTheorems, WellFoundedInduction

\* The keys of the affinity cache, and what a request asks for.
LEMMA KeysAreKeys ==
    ASSUME TypeOK, NEW t \in Tunnels, req[t] \in Requests
    PROVE  /\ req[t].proto \in Protocols
           /\ IdKey(t) \in {"id"} \X {req[t].proto} \X (Ids \cup {NoId})
           /\ IdKey(t) \in AffinityKeys
           /\ IpKey(t) \in AffinityKeys
           /\ Expected(t) \in Urls \cup {None}
<1>1. req[t].proto \in Protocols
  BY RegistryAssumption
<1>2. id[t] \in Ids \cup {NoId}
  BY DEF TypeOK
<1>3. IpOf[t] \in {IpOf[s] : s \in Tunnels}
  OBVIOUS
<1>4. last \in [Protocols \X Ids -> Urls \cup {None}]
  BY DEF TypeOK
<1>5. Expected(t) \in Urls \cup {None}
  <2>1. CASE id[t] = NoId
    BY <2>1 DEF Expected
  <2>2. CASE id[t] # NoId
    <3>1. <<req[t].proto, id[t]>> \in Protocols \X Ids
      BY <1>1, <1>2, <2>2
    <3> QED BY <1>4, <2>2, <3>1 DEF Expected
  <2> QED BY <2>1, <2>2
<1> QED BY <1>1, <1>2, <1>3, <1>5 DEF IdKey, IpKey, AffinityKeys

\* A url made of a host name or of a port is a url.
LEMMA UrlsAreUrls ==
    /\ \A p \in Ports : <<"tcp", p>> \in Urls
    /\ \A t \in Tunnels, n \in Names :
          req[t] \in Requests /\ ~Tcp(t) => <<req[t].proto, n>> \in Urls
    /\ {"tcp"} \X Ports \subseteq Urls
BY RegistryAssumption DEF Urls, Tcp, Protocols

Typed == TypeOK /\ StagesInOrder

\* The types and stages hold initially.
LEMMA TypedInit == Init => Typed
BY RegistryAssumption DEF Init, Typed, TypeOK, StagesInOrder, Ids, Holding, Listening

\* Every step keeps the types.
LEMMA TypeNext == Typed /\ [Next]_vars => TypeOK'
<1> SUFFICES ASSUME Typed, [Next]_vars PROVE TypeOK'
  OBVIOUS
<1> USE DEF Typed, TypeOK, Go, Try, From
<1>1. CASE UNCHANGED vars
  BY <1>1 DEF vars, tunnelVars, observed
<1>2. ASSUME NEW t \in Tunnels, NewTunnel(t) PROVE TypeOK'
  <2>1. CASE Start(t)
    <3>1. PICK r \in Requests : Start(t)!2!(r)
      BY <2>1 DEF Start
    <3>2. /\ r.port # None => <<"tcp", r.port>> \in Urls
          /\ r.proto # "tcp" /\ r.host # None => <<r.proto, r.host>> \in Urls
      BY RegistryAssumption DEF Urls, Protocols
    <3>3. UNCHANGED <<registry, affinity, listener, tries, key, id, closing, acceptor, last, hoped, beaten>>
      BY <2>1 DEF Start, observed
    <3>4. url' \in [Tunnels -> Urls \cup {None}]
      BY <3>1, <3>2
    <3>5. how' \in [Tunnels -> {"asked", "cached", "any"}]
      BY <3>1
    <3>6. /\ req' \in [Tunnels -> Requests \cup {None}]
          /\ pc' \in [Tunnels -> {"idle", "lookup", "lookupIp", "bind", "failed", "down", "over"}
                                    \cup Holding \cup Listening]
      BY <3>1 DEF Holding, Listening
    <3> QED BY <3>3, <3>4, <3>5, <3>6
  <2>2. CASE LookUpId(t)
    <3>1. req[t] \in Requests
      BY <2>2 DEF LookUpId, StagesInOrder
    <3>2. IdKey(t) \in AffinityKeys /\ Expected(t) \in Urls \cup {None}
      BY <3>1, KeysAreKeys
    <3> HIDE DEF Typed
    <3>3. hoped' \in [Tunnels -> Urls \cup {None}]
      BY <2>2, <3>2 DEF LookUpId, Typed
    <3>4. url' \in [Tunnels -> Urls \cup {None}] /\ how' \in [Tunnels -> {"asked", "cached", "any"}]
      BY <2>2, <3>2 DEF LookUpId, FirstKey, Suggest, Typed
    <3>5. pc' \in [Tunnels -> {"idle", "lookup", "lookupIp", "bind", "failed", "down", "over"}
                                 \cup Holding \cup Listening]
      BY <2>2 DEF LookUpId, Suggest, Listening, Typed
    <3> QED BY <2>2, <3>3, <3>4, <3>5 DEF LookUpId, Typed
  <2>3. CASE LookUpIp(t)
    <3>1. req[t] \in Requests
      BY <2>3 DEF LookUpIp, StagesInOrder
    <3>2. IpKey(t) \in AffinityKeys
      BY <3>1, KeysAreKeys
    <3> HIDE DEF Typed
    <3>3. url' \in [Tunnels -> Urls \cup {None}] /\ how' \in [Tunnels -> {"asked", "cached", "any"}]
      <4>1. CASE affinity[IpKey(t)] # None
        BY <2>3, <3>2, <4>1 DEF LookUpIp, Suggest, Typed
      <4>2. CASE affinity[IpKey(t)] = None /\ Tcp(t)
        BY <2>3, <4>2 DEF LookUpIp, Typed
      <4>3. CASE affinity[IpKey(t)] = None /\ ~Tcp(t)
        <5>1. PICK n \in Names : Try(t, <<req[t].proto, n>>) /\ From(t, "any")
          BY <2>3, <4>3 DEF LookUpIp
        <5>2. <<req[t].proto, n>> \in Urls
          BY <3>1, <4>3, UrlsAreUrls
        <5> QED BY <5>1, <5>2 DEF Typed
      <4> QED BY <4>1, <4>2, <4>3
    <3>4. pc' \in [Tunnels -> {"idle", "lookup", "lookupIp", "bind", "failed", "down", "over"}
                                 \cup Holding \cup Listening]
      BY <2>3 DEF LookUpIp, Suggest, Listening, Typed
    <3> QED BY <2>3, <3>3, <3>4 DEF LookUpIp, Typed, observed
  <2>4. CASE Bind(t)
    BY <2>4, UrlsAreUrls DEF Bind, Listening, observed
  <2>5. CASE BindFails(t)
    BY <2>5 DEF BindFails, GiveUpPort, Beaten
  <2>6. CASE Register(t)
    BY <2>6 DEF Register, Vacant, StagesInOrder, Holding, observed
  <2>7. CASE RegisterPortFails(t)
    BY <2>7 DEF RegisterPortFails, GiveUpPort, Beaten, CloseListener
  <2>8. CASE RegisterNameFails(t)
    <3>1. req[t] \in Requests /\ ~Tcp(t)
      BY <2>8 DEF RegisterNameFails, StagesInOrder
    <3> HIDE DEF Typed
    <3>2. url' \in [Tunnels -> Urls \cup {None}] /\ how' \in [Tunnels -> {"asked", "cached", "any"}]
      BY <2>8, <3>1, UrlsAreUrls DEF RegisterNameFails, Typed
    <3>3. tries' \in [Tunnels -> 0..MaxAttempts]
      BY <2>8, RegistryAssumption DEF RegisterNameFails, AttemptsLeft, Typed
    <3>4. beaten' \in [Tunnels -> BOOLEAN]
      BY <2>8 DEF RegisterNameFails, Beaten, Typed
    <3> QED BY <2>8, <3>2, <3>3, <3>4 DEF RegisterNameFails, Typed
  <2>9. CASE CacheUnderIp(t)
    BY <2>9, KeysAreKeys DEF CacheUnderIp, CacheUrl, StagesInOrder, Holding, observed
  <2>10. CASE CacheUnderId(t)
    <3>1. key[t] \in AffinityKeys /\ key[t][3] \in Ids \cup {NoId} /\ req[t].proto \in Protocols
          /\ url[t] \in Urls
      <4>1. /\ req[t] \in Requests
            /\ key[t] \in {"id"} \X {req[t].proto} \X (Ids \cup {NoId})
            /\ url[t] \in Urls
        BY <2>10, UrlsAreUrls DEF CacheUnderId, StagesInOrder, Holding
      <4>2. req[t].proto \in Protocols
        BY <4>1, KeysAreKeys
      <4> QED BY <4>1, <4>2 DEF AffinityKeys
    <3> HIDE DEF Typed
    <3>2. affinity' \in [AffinityKeys -> Urls \cup {None}]
      BY <2>10, <3>1 DEF CacheUnderId, CacheUrl, Typed
    <3>3. last' \in [Protocols \X Ids -> Urls \cup {None}]
      BY <2>10, <3>1 DEF CacheUnderId, Typed
    <3>4. /\ pc' \in [Tunnels -> {"idle", "lookup", "lookupIp", "bind", "failed", "down", "over"}
                                    \cup Holding \cup Listening]
          /\ acceptor' \in [Tunnels -> {"none", "accept", "ended"}]
      BY <2>10 DEF CacheUnderId, Holding, Typed
    <3> QED BY <2>10, <3>2, <3>3, <3>4 DEF CacheUnderId, Typed
  <2> QED BY <1>2, <2>1, <2>2, <2>3, <2>4, <2>5, <2>6, <2>7, <2>8, <2>9, <2>10 DEF NewTunnel
<1>3. ASSUME NEW t \in Tunnels, Shutdown(t) PROVE TypeOK'
  <2>1. CASE ShutdownBegins(t)
    BY <2>1 DEF ShutdownBegins, SetClosing, MarksClosing, Holding, observed
  <2>2. CASE ShutdownCloses(t)
    BY <2>2 DEF ShutdownCloses, CloseListener, Holding, observed
  <2>3. CASE ShutdownUnregisters(t)
    BY <2>3 DEF ShutdownUnregisters, SetClosing, MarksClosing, observed
  <2>4. CASE StopperCompletes(t)
    BY <2>4 DEF StopperCompletes, observed
  <2> QED BY <1>3, <2>1, <2>2, <2>3, <2>4 DEF Shutdown
<1>4. ASSUME NEW t \in Tunnels, AcceptorEnds(t) PROVE TypeOK'
  BY <1>4 DEF AcceptorEnds, tunnelVars, observed
<1>5. ASSUME NEW t \in Tunnels, Replaced(t) PROVE TypeOK'
  BY <1>5 DEF Replaced, tunnelVars, observed
<1>6. ASSUME NEW k \in AffinityKeys, Forget(k) PROVE TypeOK'
  BY <1>6 DEF Forget, CacheUrl, tunnelVars
<1> QED BY <1>1, <1>2, <1>3, <1>4, <1>5, <1>6 DEF Next

\* Every step keeps the stages.
LEMMA StagesNext == Typed /\ [Next]_vars => StagesInOrder'
<1> SUFFICES ASSUME Typed, [Next]_vars, NEW s \in Tunnels
             PROVE  StagesInOrder!(s)'
  BY DEF StagesInOrder
<1> USE DEF Typed, TypeOK, StagesInOrder, Go, Try, From, Tcp, Holding
<1>1. CASE UNCHANGED vars
  BY <1>1 DEF vars, tunnelVars, observed
<1>2. ASSUME NEW t \in Tunnels, NewTunnel(t) PROVE StagesInOrder!(s)'
  <2>1. CASE Start(t)
    <3>1. PICK r \in Requests : Start(t)!2!(r)
      BY <2>1 DEF Start
    <3>2. /\ r.proto = "tcp" /\ r.port # None => <<"tcp", r.port>> \in {"tcp"} \X Ports
          /\ r.proto # "tcp" /\ r.host # None => <<r.proto, r.host>> \in Urls
      BY RegistryAssumption DEF Urls, Protocols
    <3>3. pc[t] = "idle" /\ req' = [req EXCEPT ![t] = r] /\ UNCHANGED <<closing, acceptor, key>>
      BY <2>1, <3>1 DEF Start
    <3>4. CASE s # t
      BY <3>1, <3>3, <3>4
    <3>5. CASE s = t
      BY <3>1, <3>2, <3>3, <3>5
    <3> QED BY <3>4, <3>5
  <2>2. CASE LookUpId(t)
    <3>1. CASE affinity[FirstKey(t)] = None
      BY <2>2, <3>1 DEF LookUpId
    <3>2. CASE affinity[FirstKey(t)] # None
      <4>1. affinity[FirstKey(t)] \in Urls
        <5>1. FirstKey(t) \in AffinityKeys
          BY <2>2, KeysAreKeys DEF LookUpId, FirstKey
        <5> QED BY <5>1, <3>2
      <4>2. /\ Suggest(t, affinity[FirstKey(t)])
            /\ pc[t] = "lookup" /\ UNCHANGED <<req, key, closing, acceptor>>
        BY <2>2, <3>2 DEF LookUpId
      <4> QED BY <4>1, <4>2 DEF Suggest
    <3> QED BY <3>1, <3>2
  <2>3. CASE LookUpIp(t)
    <3>1. CASE affinity[IpKey(t)] = None
      BY <2>3, <3>1, UrlsAreUrls DEF LookUpIp
    <3>2. CASE affinity[IpKey(t)] # None
      <4>1. affinity[IpKey(t)] \in Urls
        <5>1. IpKey(t) \in AffinityKeys
          BY <2>3, KeysAreKeys DEF LookUpIp
        <5> QED BY <5>1, <3>2
      <4>2. /\ Suggest(t, affinity[IpKey(t)])
            /\ pc[t] = "lookupIp" /\ UNCHANGED <<req, key, closing, acceptor>>
        BY <2>3, <3>2 DEF LookUpIp, observed
      <4> QED BY <4>1, <4>2 DEF Suggest
    <3> QED BY <3>1, <3>2
  <2>4. CASE Bind(t)
    BY <2>4 DEF Bind
  <2>5. CASE BindFails(t)
    BY <2>5 DEF BindFails, GiveUpPort
  <2>6. CASE Register(t)
    BY <2>6 DEF Register
  <2>7. CASE RegisterPortFails(t)
    BY <2>7 DEF RegisterPortFails, GiveUpPort
  <2>8. CASE RegisterNameFails(t)
    BY <2>8, UrlsAreUrls DEF RegisterNameFails
  <2>9. CASE CacheUnderIp(t)
    BY <2>9, KeysAreKeys DEF CacheUnderIp
  <2>10. CASE CacheUnderId(t)
    BY <2>10 DEF CacheUnderId
  <2> QED BY <1>2, <2>1, <2>2, <2>3, <2>4, <2>5, <2>6, <2>7, <2>8, <2>9, <2>10 DEF NewTunnel
<1>3. ASSUME NEW t \in Tunnels, Shutdown(t) PROVE StagesInOrder!(s)'
  <2>1. CASE ShutdownBegins(t)
    <3>1. /\ pc[t] = "up" /\ closing' = [closing EXCEPT ![t] = @ \/ pc[t] = "up"]
          /\ pc' = [pc EXCEPT ![t] = IF Tcp(t) THEN "close" ELSE "unregister"]
          /\ UNCHANGED <<req, url, key, acceptor>>
      BY <2>1 DEF ShutdownBegins, SetClosing, MarksClosing
    <3>2. closing'[t] = TRUE
      <4>1. closing \in [Tunnels -> BOOLEAN]
        BY DEF Typed, TypeOK
        <4> HIDE DEF Typed
        <4> QED BY <3>1, <4>1
    <3>3. CASE s # t
      BY <3>1, <3>3
    <3>4. CASE s = t
      BY <3>1, <3>2, <3>4
    <3> QED BY <3>3, <3>4
  <2>2. CASE ShutdownCloses(t)
    BY <2>2 DEF ShutdownCloses
  <2>3. CASE ShutdownUnregisters(t)
    BY <2>3 DEF ShutdownUnregisters, SetClosing, MarksClosing
  <2>4. CASE StopperCompletes(t)
    BY <2>4 DEF StopperCompletes
  <2> QED BY <1>3, <2>1, <2>2, <2>3, <2>4 DEF Shutdown
<1>4. ASSUME NEW t \in Tunnels, AcceptorEnds(t) PROVE StagesInOrder!(s)'
  BY <1>4 DEF AcceptorEnds, tunnelVars
<1>5. ASSUME NEW t \in Tunnels, Replaced(t) PROVE StagesInOrder!(s)'
  BY <1>5 DEF Replaced, tunnelVars
<1>6. ASSUME NEW k \in AffinityKeys, Forget(k) PROVE StagesInOrder!(s)'
  BY <1>6 DEF Forget, tunnelVars
<1> QED BY <1>1, <1>2, <1>3, <1>4, <1>5, <1>6 DEF Next

\* Every step keeps the registry and the tunnels in agreement.
LEMMA UrlsNext == Typed /\ UrlsAreExclusive /\ [Next]_vars => UrlsAreExclusive'
<1> SUFFICES ASSUME Typed, UrlsAreExclusive, [Next]_vars, NEW s \in Tunnels, NEW u \in Urls
             PROVE  (registry[u] = s <=> (pc[s] \in Holding /\ url[s] = u))'
  BY DEF UrlsAreExclusive
<1> DEFINE Agree == registry[u] = s <=> (pc[s] \in Holding /\ url[s] = u)
<1>a. Agree
  BY DEF UrlsAreExclusive
<1> HIDE DEF Agree
<1> USE <1>a DEF Agree, Typed, TypeOK, Go, Try, From, Holding
<1>1. CASE UNCHANGED vars
  BY <1>1 DEF vars, tunnelVars
<1>2. ASSUME NEW t \in Tunnels, NewTunnel(t) PROVE Agree'
  <2>1. CASE Start(t)
    <3>1. pc[t] = "idle" /\ UNCHANGED registry
      BY <2>1 DEF Start
    <3>2. \E h \in {"failed", "bind", "register", "lookup"} : pc' = [pc EXCEPT ![t] = h]
      BY <2>1 DEF Start
    <3>3. s # t => url'[s] = url[s]
      BY <2>1 DEF Start
    <3> QED BY <3>1, <3>2, <3>3
  <2>2. CASE LookUpId(t)
    BY <2>2 DEF LookUpId, Suggest
  <2>3. CASE LookUpIp(t)
    BY <2>3 DEF LookUpIp, Suggest
  <2>4. CASE Bind(t)
    BY <2>4 DEF Bind
  <2>5. CASE BindFails(t)
    BY <2>5 DEF BindFails, GiveUpPort
  <2>6. CASE Register(t)
    <3>1. url[t] \in Urls
      BY <2>6, UrlsAreUrls DEF Register, StagesInOrder
    <3>2. registry[url[t]] = None /\ registry' = [registry EXCEPT ![url[t]] = t]
      BY <2>6 DEF Register, Vacant
    <3>3. /\ pc[t] = "register" /\ UNCHANGED url
          /\ \E h \in {"up", "cacheIp"} : pc' = [pc EXCEPT ![t] = h]
      BY <2>6 DEF Register
    <3>4. None \notin Tunnels
      BY RegistryAssumption
    <3> QED BY <3>1, <3>2, <3>3, <3>4
  <2>7. CASE RegisterPortFails(t)
    BY <2>7 DEF RegisterPortFails, GiveUpPort
  <2>8. CASE RegisterNameFails(t)
    BY <2>8 DEF RegisterNameFails
  <2>9. CASE CacheUnderIp(t)
    BY <2>9 DEF CacheUnderIp
  <2>10. CASE CacheUnderId(t)
    BY <2>10 DEF CacheUnderId
  <2> QED BY <1>2, <2>1, <2>2, <2>3, <2>4, <2>5, <2>6, <2>7, <2>8, <2>9, <2>10 DEF NewTunnel
<1>3. ASSUME NEW t \in Tunnels, Shutdown(t) PROVE Agree'
  <2>1. CASE ShutdownBegins(t)
    BY <2>1 DEF ShutdownBegins
  <2>2. CASE ShutdownCloses(t)
    BY <2>2 DEF ShutdownCloses
  <2>3. CASE ShutdownUnregisters(t)
    <3>1. /\ pc[t] = "unregister" /\ pc' = [pc EXCEPT ![t] = "down"] /\ UNCHANGED url
          /\ registry' = [registry EXCEPT ![url[t]] = None]
      BY <2>3 DEF ShutdownUnregisters
    <3>2. url[t] \in Urls /\ registry[url[t]] = t
      BY <3>1, UrlsAreUrls DEF StagesInOrder, UrlsAreExclusive
    <3>3. None \notin Tunnels
      BY RegistryAssumption
    <3> QED BY <3>1, <3>2, <3>3
  <2>4. CASE StopperCompletes(t)
    BY <2>4 DEF StopperCompletes
  <2> QED BY <1>3, <2>1, <2>2, <2>3, <2>4 DEF Shutdown
<1>4. ASSUME NEW t \in Tunnels, AcceptorEnds(t) PROVE Agree'
  BY <1>4 DEF AcceptorEnds, tunnelVars
<1>5. ASSUME NEW t \in Tunnels, Replaced(t) PROVE Agree'
  BY <1>5 DEF Replaced, tunnelVars
<1>6. ASSUME NEW k \in AffinityKeys, Forget(k) PROVE Agree'
  BY <1>6 DEF Forget, tunnelVars
<1> QED BY <1>1, <1>2, <1>3, <1>4, <1>5, <1>6 DEF Next

\* Every step keeps the listeners and the tunnels in agreement.
LEMMA ListenersNext == Typed /\ ListenersAreExact /\ [Next]_vars => ListenersAreExact'
<1> SUFFICES ASSUME Typed, ListenersAreExact, [Next]_vars, NEW s \in Tunnels, NEW p \in Ports
             PROVE  (listener[p] = s <=> (pc[s] \in Listening /\ Tcp(s) /\ url[s] = <<"tcp", p>>))'
  BY DEF ListenersAreExact
<1> DEFINE Agree == listener[p] = s <=> (pc[s] \in Listening /\ Tcp(s) /\ url[s] = <<"tcp", p>>)
<1>a. Agree
  BY DEF ListenersAreExact
<1>b. None \notin Tunnels
  BY RegistryAssumption
<1> HIDE DEF Agree
<1> USE <1>a, <1>b DEF Agree, Typed, TypeOK, Go, Try, From, Listening, Tcp
<1>1. CASE UNCHANGED vars
  BY <1>1 DEF vars, tunnelVars
<1>2. ASSUME NEW t \in Tunnels, NewTunnel(t) PROVE Agree'
  <2>1. CASE Start(t)
    <3>1. pc[t] = "idle" /\ UNCHANGED listener
      BY <2>1 DEF Start
    <3>2. PICK r \in Requests : Start(t)!2!(r)
      BY <2>1 DEF Start
    <3>3. CASE s # t
      BY <3>1, <3>2, <3>3
    <3>4. CASE s = t
      <4>1. pc'[t] \in {"failed", "bind", "lookup"} \/ ~Tcp(t)'
        BY <3>2
      <4> QED BY <3>1, <3>4, <4>1
    <3> QED BY <3>3, <3>4
  <2>2. CASE LookUpId(t)
    BY <2>2 DEF LookUpId, Suggest
  <2>3. CASE LookUpIp(t)
    BY <2>3 DEF LookUpIp, Suggest
  <2>4. CASE Bind(t)
    <3>1. PICK q \in Ports : /\ listener[q] = None
                              /\ listener' = [listener EXCEPT ![q] = t]
                              /\ url' = [url EXCEPT ![t] = <<"tcp", q>>]
      BY <2>4 DEF Bind
    <3>2. /\ pc[t] = "bind" /\ Tcp(t) /\ UNCHANGED req
          /\ pc' = [pc EXCEPT ![t] = "register"]
      BY <2>4 DEF Bind, StagesInOrder
    <3>3. CASE s # t
      BY <3>1, <3>2, <3>3
    <3>4. CASE s = t
      BY <3>1, <3>2, <3>4
    <3> QED BY <3>3, <3>4
  <2>5. CASE BindFails(t)
    BY <2>5 DEF BindFails, GiveUpPort
  <2>6. CASE Register(t)
    BY <2>6 DEF Register
  <2>7. CASE RegisterPortFails(t)
    BY <2>7 DEF RegisterPortFails, GiveUpPort, CloseListener
  <2>8. CASE RegisterNameFails(t)
    BY <2>8 DEF RegisterNameFails
  <2>9. CASE CacheUnderIp(t)
    BY <2>9 DEF CacheUnderIp
  <2>10. CASE CacheUnderId(t)
    BY <2>10 DEF CacheUnderId
  <2> QED BY <1>2, <2>1, <2>2, <2>3, <2>4, <2>5, <2>6, <2>7, <2>8, <2>9, <2>10 DEF NewTunnel
<1>3. ASSUME NEW t \in Tunnels, Shutdown(t) PROVE Agree'
  <2>1. CASE ShutdownBegins(t)
    BY <2>1 DEF ShutdownBegins
  <2>2. CASE ShutdownCloses(t)
    BY <2>2 DEF ShutdownCloses, CloseListener
  <2>3. CASE ShutdownUnregisters(t)
    BY <2>3 DEF ShutdownUnregisters
  <2>4. CASE StopperCompletes(t)
    BY <2>4 DEF StopperCompletes
  <2> QED BY <1>3, <2>1, <2>2, <2>3, <2>4 DEF Shutdown
<1>4. ASSUME NEW t \in Tunnels, AcceptorEnds(t) PROVE Agree'
  BY <1>4 DEF AcceptorEnds, tunnelVars
<1>5. ASSUME NEW t \in Tunnels, Replaced(t) PROVE Agree'
  BY <1>5 DEF Replaced, tunnelVars
<1>6. ASSUME NEW k \in AffinityKeys, Forget(k) PROVE Agree'
  BY <1>6 DEF Forget, tunnelVars
<1> QED BY <1>1, <1>2, <1>3, <1>4, <1>5, <1>6 DEF Next

-----------------------------------------------------------------------------
IndInv == Typed /\ UrlsAreExclusive /\ ListenersAreExact

\* The strengthening holds in every reachable state.
LEMMA Inductive == Spec => []IndInv
<1>1. Init => IndInv
  <2> SUFFICES ASSUME Init PROVE UrlsAreExclusive /\ ListenersAreExact
    BY TypedInit DEF IndInv
  <2>1. None \notin Tunnels
    BY RegistryAssumption
  <2> QED BY <2>1 DEF Init, UrlsAreExclusive, ListenersAreExact, Holding, Listening
<1>2. IndInv /\ [Next]_vars => IndInv'
  BY TypeNext, StagesNext, UrlsNext, ListenersNext DEF IndInv, Typed
<1> QED BY <1>1, <1>2, PTL DEF Spec

(***************************************************************************)
(* The tables of the registry, the cache and the operating system, and     *)
(* what NewTunnel and Shutdown keep, have their types: in particular the   *)
(* cache is only asked for keys that cacheKeys makes (registry.go:93), and *)
(* what it returns is a url.                                               *)
(***************************************************************************)
THEOREM RegistryIsTyped == Spec => []TypeOK
<1>1. IndInv => TypeOK
  BY DEF IndInv, Typed
<1> QED BY <1>1, Inductive, PTL

(***************************************************************************)
(* Whatever tunnels are asked for and however registrations, failures and  *)
(* shutdowns interleave, a url leads to the tunnel that has it and to no   *)
(* other: the unconditional Del of Tunnel.Shutdown (registry.go:154) never *)
(* removes another tunnel's url.                                           *)
(***************************************************************************)
THEOREM UrlsStayExclusive == Spec => []UrlsAreExclusive
<1>1. IndInv => UrlsAreExclusive
  BY DEF IndInv
<1> QED BY <1>1, Inductive, PTL

(***************************************************************************)
(* No listener is leaked and none is closed early: bindTcp closes the      *)
(* listener it cannot register (tunnel.go:226), and Shutdown closes the    *)
(* one of its own tunnel (tunnel.go:306).                                  *)
(***************************************************************************)
THEOREM ListenersStayExact == Spec => []ListenersAreExact
<1>1. IndInv => ListenersAreExact
  BY DEF IndInv
<1> QED BY <1>1, Inductive, PTL

(***************************************************************************)
(* When the Accept of listenTcp fails because the listener was closed,     *)
(* t.closing is already set: Shutdown sets the flag before it closes the   *)
(* listener, so the loop ends rather than running hot.                     *)
(***************************************************************************)
THEOREM ClosedLoopsEnd == Spec => []AcceptLoopKnowsItEnds
<1>1. IndInv => AcceptLoopKnowsItEnds
  <2> SUFFICES ASSUME IndInv, NEW t \in Tunnels, AcceptFails(t) PROVE closing[t]
    BY DEF AcceptLoopKnowsItEnds
  <2>1. acceptor[t] = "accept" /\ \A p \in Ports : listener[p] # t
    BY DEF AcceptFails
  <2>2. Tcp(t) /\ pc[t] \in {"up", "close", "unregister", "down", "over"}
    BY <2>1 DEF IndInv, Typed, StagesInOrder
  <2>3. CASE pc[t] = "up"
    <3>1. url[t] \in {"tcp"} \X Ports
      BY <2>2, <2>3 DEF IndInv, Typed, StagesInOrder, Holding
    <3>2. PICK p \in Ports : url[t] = <<"tcp", p>>
      BY <3>1
    <3>3. listener[p] = t
      BY <2>2, <2>3, <3>2 DEF IndInv, ListenersAreExact, Listening
    <3> QED BY <2>1, <3>3
  <2>4. CASE pc[t] \in {"close", "unregister", "down", "over"}
    BY <2>4 DEF IndInv, Typed, StagesInOrder
  <2> QED BY <2>2, <2>3, <2>4
<1> QED BY <1>1, Inductive, PTL

-----------------------------------------------------------------------------
(***************************************************************************)
(* What a step does to the urls: nothing, or one abstract action.          *)
(***************************************************************************)
UrlStep ==
    \/ UNCHANGED <<registry, over>>
    \/ \E t \in Tunnels, u \in Urls : Promise!Acquire(t, u) \/ Promise!Release(t, u)
    \/ \E t \in Tunnels : Promise!Finish(t)

\* Whoever is over holds nothing, so giving up is an abstract Finish.
LEMMA GivingUp ==
    ASSUME IndInv, NEW t \in Tunnels, pc[t] \notin Holding, UNCHANGED registry,
           NEW to \in {"failed", "over"}, pc' = [pc EXCEPT ![t] = to]
    PROVE  Promise!Finish(t)
<1>1. \A u \in Urls : registry[u] # t
  BY DEF IndInv, UrlsAreExclusive
<1>2. over' = over \cup {t}
  BY DEF over, IndInv, Typed, TypeOK
<1> QED BY <1>1, <1>2 DEF Promise!Finish

\* Every step is such a step.
LEMMA EveryStepIsAUrlStep == IndInv /\ [Next]_vars => UrlStep
<1> SUFFICES ASSUME IndInv, [Next]_vars PROVE UrlStep
  OBVIOUS
<1> USE DEF Go, Try, From
<1>a. pc \in [Tunnels -> {"idle", "lookup", "lookupIp", "bind", "failed", "down", "over"}
                           \cup Holding \cup Listening]
  BY DEF IndInv, Typed, TypeOK
<1>b. \A t \in Tunnels :
        (\E to \in {"lookup", "lookupIp", "bind", "register", "cacheIp", "cacheId", "up",
                     "close", "unregister", "down"} : pc' = [pc EXCEPT ![t] = to])
        /\ pc[t] \notin {"failed", "over"} => UNCHANGED over
  BY <1>a DEF over
<1>1. CASE UNCHANGED vars
  BY <1>1 DEF vars, tunnelVars, over, UrlStep
<1>2. ASSUME NEW t \in Tunnels, NewTunnel(t) PROVE UrlStep
  <2>a. \A to \in {"failed", "over"} :
           UNCHANGED registry /\ pc[t] \notin Holding /\ pc' = [pc EXCEPT ![t] = to] => UrlStep
    BY GivingUp DEF UrlStep
  <2>1. CASE Start(t)
    <3>1. pc[t] = "idle" /\ UNCHANGED registry
      BY <2>1 DEF Start
    <3>2. \E to \in {"failed", "bind", "register", "lookup"} : pc' = [pc EXCEPT ![t] = to]
      BY <2>1 DEF Start
    <3>3. pc[t] \notin Holding
      BY <3>1 DEF Holding
    <3> QED BY <1>b, <2>a, <3>1, <3>2, <3>3 DEF UrlStep
  <2>2. CASE LookUpId(t)
    <3>1. UNCHANGED registry /\ pc[t] \notin {"failed", "over"}
      BY <2>2 DEF LookUpId, observed
    <3>2. \E to \in {"lookupIp", "bind", "register"} : pc' = [pc EXCEPT ![t] = to]
      BY <2>2 DEF LookUpId, Suggest
    <3> QED BY <1>b, <3>1, <3>2 DEF UrlStep
  <2>3. CASE LookUpIp(t)
    <3>1. UNCHANGED registry /\ pc[t] \notin {"failed", "over"}
      BY <2>3 DEF LookUpIp, observed
    <3>2. \E to \in {"lookupIp", "bind", "register"} : pc' = [pc EXCEPT ![t] = to]
      BY <2>3 DEF LookUpIp, Suggest
    <3> QED BY <1>b, <3>1, <3>2 DEF UrlStep
  <2>4. CASE Bind(t)
    <3>1. UNCHANGED registry /\ pc[t] \notin {"failed", "over"}
      BY <2>4 DEF Bind, observed
    <3>2. \E to \in {"lookupIp", "bind", "register"} : pc' = [pc EXCEPT ![t] = to]
      BY <2>4 DEF Bind
    <3> QED BY <1>b, <3>1, <3>2 DEF UrlStep
  <2>5. CASE BindFails(t)
    <3>1. UNCHANGED registry /\ pc[t] \notin Holding \cup {"failed", "over"}
      BY <2>5 DEF BindFails, Holding
    <3>2. (\E to \in {"bind", "failed"} : pc' = [pc EXCEPT ![t] = to]) \/ UNCHANGED pc
      BY <2>5 DEF BindFails, GiveUpPort
    <3>3. UNCHANGED pc => UNCHANGED over
      BY DEF over
    <3> QED BY <1>b, <2>a, <3>1, <3>2, <3>3 DEF UrlStep
  <2>6. CASE Register(t)
    <3>1. /\ pc[t] = "register" /\ url[t] \in Urls /\ registry[url[t]] = None
          /\ registry' = [registry EXCEPT ![url[t]] = t]
      BY <2>6, UrlsAreUrls DEF Register, Vacant, IndInv, Typed, StagesInOrder
    <3>2. UNCHANGED over
      BY <1>b, <2>6 DEF Register
    <3>3. t \notin over
      BY <3>1 DEF over
    <3>4. Promise!Acquire(t, url[t])
      BY <3>1, <3>2, <3>3 DEF Promise!Acquire
    <3> QED BY <3>1, <3>4 DEF UrlStep
  <2>7. CASE RegisterPortFails(t)
    <3>1. UNCHANGED registry /\ pc[t] \notin Holding \cup {"failed", "over"}
      BY <2>7 DEF RegisterPortFails, Holding
    <3>2. (\E to \in {"bind", "failed"} : pc' = [pc EXCEPT ![t] = to]) \/ UNCHANGED pc
      BY <2>7 DEF RegisterPortFails, GiveUpPort
    <3>3. UNCHANGED pc => UNCHANGED over
      BY DEF over
    <3> QED BY <1>b, <2>a, <3>1, <3>2, <3>3 DEF UrlStep
  <2>8. CASE RegisterNameFails(t)
    <3>1. UNCHANGED registry /\ pc[t] \notin Holding \cup {"failed", "over"}
      BY <2>8 DEF RegisterNameFails, Holding
    <3>2. (\E to \in {"bind", "failed"} : pc' = [pc EXCEPT ![t] = to]) \/ UNCHANGED pc
      BY <2>8 DEF RegisterNameFails, GiveUpPort
    <3>3. UNCHANGED pc => UNCHANGED over
      BY DEF over
    <3> QED BY <1>b, <2>a, <3>1, <3>2, <3>3 DEF UrlStep
  <2>9. CASE CacheUnderIp(t)
    BY <1>b, <2>9 DEF CacheUnderIp, UrlStep
  <2>10. CASE CacheUnderId(t)
    BY <1>b, <2>10 DEF CacheUnderId, UrlStep
  <2> QED BY <1>2, <2>1, <2>2, <2>3, <2>4, <2>5, <2>6, <2>7, <2>8, <2>9, <2>10 DEF NewTunnel
<1>3. ASSUME NEW t \in Tunnels, Shutdown(t) PROVE UrlStep
  <2>1. CASE ShutdownBegins(t)
    BY <1>b, <2>1 DEF ShutdownBegins, UrlStep
  <2>2. CASE ShutdownCloses(t)
    BY <1>b, <2>2 DEF ShutdownCloses, UrlStep
  <2>3. CASE ShutdownUnregisters(t)
    <3>1. pc[t] = "unregister" /\ registry' = [registry EXCEPT ![url[t]] = None]
      BY <2>3 DEF ShutdownUnregisters
    <3>2. url[t] \in Urls /\ registry[url[t]] = t
      BY <3>1, UrlsAreUrls DEF IndInv, Typed, StagesInOrder, UrlsAreExclusive, Holding
    <3>3. UNCHANGED over
      BY <1>b, <2>3 DEF ShutdownUnregisters
    <3>4. Promise!Release(t, url[t])
      BY <3>1, <3>2, <3>3 DEF Promise!Release
    <3> QED BY <3>2, <3>4 DEF UrlStep
  <2>4. CASE StopperCompletes(t)
    <3>1. UNCHANGED registry /\ pc[t] \notin Holding /\ pc' = [pc EXCEPT ![t] = "over"]
      BY <2>4 DEF StopperCompletes, Holding
    <3> QED BY <3>1, GivingUp DEF UrlStep
  <2> QED BY <1>3, <2>1, <2>2, <2>3, <2>4 DEF Shutdown
<1>4. ASSUME NEW t \in Tunnels, AcceptorEnds(t) PROVE UrlStep
  BY <1>4 DEF AcceptorEnds, tunnelVars, over, UrlStep
<1>5. ASSUME NEW t \in Tunnels, Replaced(t) PROVE UrlStep
  BY <1>5 DEF Replaced, tunnelVars, over, UrlStep
<1>6. ASSUME NEW k \in AffinityKeys, Forget(k) PROVE UrlStep
  BY <1>6 DEF Forget, tunnelVars, over, UrlStep
<1> QED BY <1>1, <1>2, <1>3, <1>4, <1>5, <1>6 DEF Next

(***************************************************************************)
(* The registry, the tunnels and their listeners implement UrlOwnership:   *)
(* Register only takes a vacant url, Shutdown only gives up its own, and a *)
(* tunnel that failed or was shut down has none and gets none.             *)
(***************************************************************************)
THEOREM RegistryKeepsThePromise == Spec => KeepsUrlPromise
<1>1. Init => Promise!Init
  BY DEF Init, Promise!Init, over
<1>2. IndInv /\ [Next]_vars => [Promise!Next]_(Promise!vars)
  <2> SUFFICES ASSUME IndInv, [Next]_vars PROVE [Promise!Next]_(Promise!vars)
    OBVIOUS
  <2>1. UrlStep
    BY EveryStepIsAUrlStep
  <2> QED BY <2>1 DEF UrlStep, Promise!Next, Promise!vars
<1> QED BY <1>1, <1>2, Inductive, PTL DEF Spec, Promise!Spec, KeepsUrlPromise
-----------------------------------------------------------------------------
(***************************************************************************)
(* That clients come back to their urls rests on the cache, which answers  *)
(* a ClientId with the url it was last given or not at all, and on nobody  *)
(* replacing the url that the cache has answered but a loser.              *)
(***************************************************************************)
LastIsCached ==
    \A c \in Protocols \X Ids : last[c] # None => affinity[<<"id", c[1], c[2]>>] = last[c]

HopeIsTried ==
    \A t \in Tunnels :
        /\ pc[t] \in {"idle", "lookup", "lookupIp"} => hoped[t] = None
        /\ hoped[t] # None /\ ~beaten[t] => how[t] # "any" /\ url[t] = hoped[t]

\* Only the two Sets of RegisterAndCache and forgetting change what is cached.
LEMMA OthersLeaveTheCache ==
    ASSUME [Next]_vars, \A t \in Tunnels : ~CacheUnderIp(t) /\ ~CacheUnderId(t),
           \A k \in AffinityKeys : ~Forget(k)
    PROVE  UNCHANGED <<affinity, last>>
<1>1. CASE UNCHANGED vars
  BY <1>1 DEF vars, observed
<1>2. ASSUME NEW t \in Tunnels, NewTunnel(t) PROVE UNCHANGED <<affinity, last>>
  BY <1>2 DEF NewTunnel, Start, LookUpId, LookUpIp, Bind, BindFails, Register, RegisterPortFails,
              RegisterNameFails, observed
<1>3. ASSUME NEW t \in Tunnels, Shutdown(t) \/ AcceptorEnds(t) \/ Replaced(t)
      PROVE  UNCHANGED <<affinity, last>>
  BY <1>3 DEF Shutdown, ShutdownBegins, ShutdownCloses, ShutdownUnregisters, StopperCompletes,
              AcceptorEnds, Replaced, observed
<1> QED BY <1>1, <1>2, <1>3 DEF Next

\* Whatever is cached under a ClientId is what it was last given.
LEMMA LastNext == Typed /\ LastIsCached /\ [Next]_vars => LastIsCached'
<1> SUFFICES ASSUME Typed, LastIsCached, [Next]_vars, NEW p \in Protocols, NEW i \in Ids,
                    last'[<<p, i>>] # None
             PROVE  affinity'[<<"id", p, i>>] = last'[<<p, i>>]
  BY DEF LastIsCached
<1>a. last[<<p, i>>] # None => affinity[<<"id", p, i>>] = last[<<p, i>>]
  BY DEF LastIsCached
<1>b. /\ affinity \in [AffinityKeys -> Urls \cup {None}]
      /\ last \in [Protocols \X Ids -> Urls \cup {None}]
      /\ <<"id", p, i>> \in AffinityKeys /\ <<p, i>> \in Protocols \X Ids
      /\ i # NoId
  BY RegistryAssumption DEF Typed, TypeOK, AffinityKeys
<1>1. ASSUME NEW t \in Tunnels, CacheUnderIp(t) PROVE affinity'[<<"id", p, i>>] = last'[<<p, i>>]
  BY <1>a, <1>b, <1>1 DEF CacheUnderIp, CacheUrl, IpKey, observed
<1>2. ASSUME NEW t \in Tunnels, CacheUnderId(t) PROVE affinity'[<<"id", p, i>>] = last'[<<p, i>>]
  <2>1. PICK x \in Ids \cup {NoId} : key[t] = <<"id", req[t].proto, x>>
    BY <1>2 DEF CacheUnderId, Typed, StagesInOrder
  <2>2. affinity' = [affinity EXCEPT ![<<"id", req[t].proto, x>>] = url[t]]
    BY <1>2, <2>1 DEF CacheUnderId, CacheUrl
  <2>3. last' = IF x = NoId THEN last ELSE [last EXCEPT ![<<req[t].proto, x>>] = url[t]]
    BY <1>2, <2>1 DEF CacheUnderId
  <2>4. CASE <<p, i>> = <<req[t].proto, x>>
    BY <1>b, <2>2, <2>3, <2>4
  <2>5. CASE <<p, i>> # <<req[t].proto, x>>
    BY <1>a, <1>b, <2>2, <2>3, <2>5
  <2> QED BY <2>4, <2>5
<1>3. ASSUME NEW k \in AffinityKeys, Forget(k) PROVE affinity'[<<"id", p, i>>] = last'[<<p, i>>]
  BY <1>a, <1>b, <1>3 DEF Forget, CacheUrl
<1>4. CASE UNCHANGED <<affinity, last>>
  BY <1>a, <1>4
<1> QED BY <1>1, <1>2, <1>3, <1>4, OthersLeaveTheCache

\* Nobody replaces a url that the cache has answered but a loser.
LEMMA HopeNext == Typed /\ LastIsCached /\ HopeIsTried /\ [Next]_vars => HopeIsTried'
<1> SUFFICES ASSUME Typed, LastIsCached, HopeIsTried, [Next]_vars, NEW s \in Tunnels
             PROVE  HopeIsTried!(s)'
  BY DEF HopeIsTried
<1>a. /\ pc[s] \in {"idle", "lookup", "lookupIp"} => hoped[s] = None
      /\ hoped[s] # None /\ ~beaten[s] => how[s] # "any" /\ url[s] = hoped[s]
  BY DEF HopeIsTried
<1>b. /\ pc \in [Tunnels -> {"idle", "lookup", "lookupIp", "bind", "failed", "down", "over"}
                             \cup Holding \cup Listening]
      /\ url \in [Tunnels -> Urls \cup {None}]
      /\ how \in [Tunnels -> {"asked", "cached", "any"}]
      /\ hoped \in [Tunnels -> Urls \cup {None}]
      /\ beaten \in [Tunnels -> BOOLEAN]
  BY DEF Typed, TypeOK
<1> USE <1>a, <1>b DEF Go, Try, From
<1>1. CASE UNCHANGED vars
  BY <1>1 DEF vars, tunnelVars, observed
<1>2. ASSUME NEW t \in Tunnels, NewTunnel(t) PROVE HopeIsTried!(s)'
  <2>1. CASE Start(t)
    <3>1. pc[t] = "idle" /\ UNCHANGED <<hoped, beaten>>
      BY <2>1 DEF Start, observed
    <3>2. s # t => UNCHANGED <<pc[s], url[s], how[s]>>
      BY <2>1 DEF Start
    <3> QED BY <3>1, <3>2
  \* what is expected is in the cache, and tried first
  <2>2. CASE LookUpId(t)
    <3>1. /\ pc[t] = "lookup" /\ UNCHANGED <<beaten, last>>
          /\ hoped' = [hoped EXCEPT ![t] = Expected(t)]
      BY <2>2 DEF LookUpId
    <3>2. Expected(t) # None => affinity[FirstKey(t)] = Expected(t)
      <4> SUFFICES ASSUME Expected(t) # None PROVE affinity[FirstKey(t)] = Expected(t)
        OBVIOUS
      <4>1. id[t] # NoId /\ Expected(t) = last[<<req[t].proto, id[t]>>]
        BY DEF Expected
      <4>2. <<req[t].proto, id[t]>> \in Protocols \X Ids
        BY <3>1, <4>1, KeysAreKeys DEF Typed, TypeOK, StagesInOrder
      <4> QED BY <4>1, <4>2 DEF LastIsCached, FirstKey, IdKey
    <3>3. CASE affinity[FirstKey(t)] # None
      <4>1. /\ url' = [url EXCEPT ![t] = affinity[FirstKey(t)]]
            /\ how' = [how EXCEPT ![t] = "cached"]
            /\ \E h \in {"bind", "register"} : pc' = [pc EXCEPT ![t] = h]
        BY <2>2, <3>3 DEF LookUpId, Suggest
      <4> QED BY <3>1, <3>2, <4>1
    <3>4. CASE affinity[FirstKey(t)] = None
      <4>1. pc' = [pc EXCEPT ![t] = "lookupIp"] /\ UNCHANGED <<url, how>>
        BY <2>2, <3>4 DEF LookUpId
      <4> QED BY <3>1, <3>2, <3>4, <4>1
    <3> QED BY <3>3, <3>4
  <2>3. CASE LookUpIp(t)
    <3>1. pc[t] = "lookupIp" /\ UNCHANGED <<hoped, beaten>>
      BY <2>3 DEF LookUpIp, observed
    <3>2. s # t => UNCHANGED <<pc[s], url[s], how[s]>>
      BY <2>3 DEF LookUpIp, Suggest
    <3> QED BY <3>1, <3>2
  \* a port that was suggested is the one that is bound
  <2>4. CASE Bind(t)
    <3>1. PICK p \in Ports : (how[t] # "any" => url[t] = <<"tcp", p>>) /\ Try(t, <<"tcp", p>>)
      BY <2>4 DEF Bind
    <3>2. pc' = [pc EXCEPT ![t] = "register"] /\ UNCHANGED <<how, hoped, beaten>>
      BY <2>4 DEF Bind, observed
    <3> QED BY <3>1, <3>2
  <2>5. CASE BindFails(t)
    <3>1. /\ pc[t] = "bind" /\ UNCHANGED <<url, hoped>>
          /\ beaten' = [beaten EXCEPT ![t] = beaten[t] \/ url[t] = hoped[t]]
      BY <2>5 DEF BindFails, Beaten
    <3>2. /\ how' = [how EXCEPT ![t] = "any"] \/ UNCHANGED how
          /\ \E h \in {"bind", "failed"} : pc' = [pc EXCEPT ![t] = h]
      BY <2>5 DEF BindFails, GiveUpPort
    <3> QED BY <3>1, <3>2
  <2>6. CASE Register(t)
    BY <2>6 DEF Register, observed
  <2>7. CASE RegisterPortFails(t)
    <3>1. /\ pc[t] = "register" /\ UNCHANGED <<url, hoped>>
          /\ beaten' = [beaten EXCEPT ![t] = beaten[t] \/ url[t] = hoped[t]]
      BY <2>7 DEF RegisterPortFails, Beaten
    <3>2. /\ how' = [how EXCEPT ![t] = "any"] \/ UNCHANGED how
          /\ \E h \in {"bind", "failed"} : pc' = [pc EXCEPT ![t] = h]
      BY <2>7 DEF RegisterPortFails, GiveUpPort
    <3> QED BY <3>1, <3>2
  <2>8. CASE RegisterNameFails(t)
    <3>1. /\ pc[t] = "register" /\ UNCHANGED hoped
          /\ beaten' = [beaten EXCEPT ![t] = beaten[t] \/ url[t] = hoped[t]]
      BY <2>8 DEF RegisterNameFails, Beaten
    <3>2. /\ s # t => UNCHANGED <<url[s], how[s]>>
          /\ UNCHANGED pc \/ pc' = [pc EXCEPT ![t] = "failed"]
      BY <2>8 DEF RegisterNameFails
    \* the url that was hoped for was the one that was taken
    <3>3. hoped[t] # None => beaten'[t]
      BY <3>1 DEF HopeIsTried
    <3> QED BY <3>1, <3>2, <3>3
  <2>9. CASE CacheUnderIp(t)
    BY <2>9 DEF CacheUnderIp, observed
  <2>10. CASE CacheUnderId(t)
    BY <2>10 DEF CacheUnderId
  <2> QED BY <1>2, <2>1, <2>2, <2>3, <2>4, <2>5, <2>6, <2>7, <2>8, <2>9, <2>10 DEF NewTunnel
<1>3. ASSUME NEW t \in Tunnels, Shutdown(t) PROVE HopeIsTried!(s)'
  BY <1>3 DEF Shutdown, ShutdownBegins, ShutdownCloses, ShutdownUnregisters, StopperCompletes, observed
<1>4. ASSUME NEW t \in Tunnels, AcceptorEnds(t) \/ Replaced(t) PROVE HopeIsTried!(s)'
  BY <1>4 DEF AcceptorEnds, Replaced, tunnelVars, observed
<1>5. ASSUME NEW k \in AffinityKeys, Forget(k) PROVE HopeIsTried!(s)'
  BY <1>5 DEF Forget, tunnelVars
<1> QED BY <1>1, <1>2, <1>3, <1>4, <1>5 DEF Next

(***************************************************************************)
(* A client that asks for any url gets the one its ClientId was last given *)
(* for that protocol, unless the cache forgot it or somebody had it when   *)
(* it was tried: GetCachedRegistration looks under the ClientId first      *)
(* (registry.go:102), NewTunnel and RegisterRepeat try what it returns     *)
(* before anything else, and replacing a control changes no key of another *)
(* one.                                                                    *)
(***************************************************************************)
THEOREM ClientsComeBack == Spec => []ClientsComeBackToTheirUrls
<1> DEFINE Inv == Typed /\ LastIsCached /\ HopeIsTried
<1>1. Init => Inv
  <2>1. Init => LastIsCached /\ HopeIsTried
    BY DEF Init, LastIsCached, HopeIsTried
  <2> QED BY <2>1, TypedInit
<1>2. Inv /\ [Next]_vars => Inv'
  BY TypeNext, StagesNext, LastNext, HopeNext DEF Typed
<1>3. Inv => ClientsComeBackToTheirUrls
  BY DEF HopeIsTried, ClientsComeBackToTheirUrls
<1> QED BY <1>1, <1>2, <1>3, PTL DEF Spec

(***************************************************************************)
(* The affinity cache.  The registry asks it for the URLs and hosts a      *)
(* client had before; what follows is about LRUCache and LRU, for every    *)
(* set of keys and values, every size, and every capacity that fits.       *)
(***************************************************************************)
LEMMA NatIsWellFounded ==
    \E R : IsWellFoundedOn(R, Nat) /\ \A x, y \in Nat : x < y => <<x, y>> \in R
<1>1. \A x, y \in Nat : x < y => <<x, y>> \in OpToRel(<, Nat)
  BY DEF OpToRel
<1> QED BY <1>1, NatLessThanWellFounded, Zenon

LEMMA LeastElement ==
    ASSUME NEW T, T \subseteq Nat, T # {}
    PROVE  \E x \in T : \A y \in T : x <= y
<1>1. PICK R : IsWellFoundedOn(R, Nat) /\ \A x, y \in Nat : x < y => <<x, y>> \in R
  BY NatIsWellFounded, Zenon
<1>2. PICK x \in T : \A y \in T : ~(<<y, x>> \in R)
  BY <1>1, WFMin, ZenonT(40)
<1>3. ASSUME NEW y \in T PROVE x <= y
  <2>1. x \in Nat /\ y \in Nat
    OBVIOUS
  <2>2. ~(y < x)
    BY <1>1, <1>2, <2>1, Zenon
  <2> QED BY <2>1, <2>2
<1> QED BY <1>3

LEMMA Climb ==
    ASSUME NEW S, 0 \in S, \A n \in Nat : n \in S => n + 1 \in S
    PROVE  Nat \subseteq S
<1> SUFFICES ASSUME Nat \ S # {} PROVE FALSE
  OBVIOUS
<1>1. PICK x \in Nat \ S : \A y \in Nat \ S : x <= y
  BY LeastElement
<1>2. x - 1 \in Nat
  OBVIOUS
<1>3. x - 1 \in S
  BY <1>1, <1>2
<1> QED BY <1>2, <1>3

\* f goes from base along 1..n, one step at a time
Walk(f, step, base, n, V) ==
    f \in [0..n -> V] /\ f[0] = base /\ \A i \in 1..n : f[i] = step[i][f[i - 1]]

LEMMA StepByStep ==
    ASSUME NEW V, NEW base \in V, NEW n \in Nat, NEW step,
           \A i \in 1..n : \A x \in V : step[i][x] \in V
    PROVE  \E f : Walk(f, step, base, n, V)
<1> DEFINE Good(f, m) == f \in [0..m -> V] /\ f[0] = base /\ \A i \in 1..m : f[i] = step[i][f[i - 1]]
           S == {m \in Nat : m <= n => \E f : Good(f, m)}
<1>1. 0 \in S
  <2>1. Good([i \in 0..0 |-> base], 0)
    OBVIOUS
  <2> QED BY <2>1
<1>2. ASSUME NEW m \in Nat, m \in S PROVE m + 1 \in S
  <2> SUFFICES ASSUME m + 1 <= n PROVE \E f : Good(f, m + 1)
    OBVIOUS
  <2>1. PICK f : Good(f, m)
    BY <1>2
  <2>2. f[m] \in V /\ m + 1 \in 1..n
    BY <2>1
  <2> DEFINE x == step[m + 1][f[m]]
             g == [i \in 0..(m + 1) |-> IF i = m + 1 THEN x ELSE f[i]]
  <2>3. x \in V
    BY <2>2
  <2>4. g \in [0..(m + 1) -> V] /\ g[0] = base
    BY <2>1, <2>3
  <2>5. \A i \in 1..(m + 1) : g[i] = step[i][g[i - 1]]
    <3> SUFFICES ASSUME NEW i \in 1..(m + 1) PROVE g[i] = step[i][g[i - 1]]
      OBVIOUS
    <3>1. CASE i = m + 1
      BY <3>1
    <3>2. CASE i # m + 1
      <4>1. i \in 1..m /\ i - 1 \in 0..m
        BY <3>2
      <4> QED BY <2>1, <4>1
    <3> QED BY <3>1, <3>2
  <2> QED BY <2>4, <2>5
<1> HIDE DEF S
<1>3. n \in S
  BY <1>1, <1>2, Climb
<1> QED BY <1>3 DEF S, Walk

LEMMA SameSteps ==
    ASSUME NEW n \in Nat, NEW f, NEW g, f[0] = g[0],
           \A i \in 1..n : f[i - 1] = g[i - 1] => f[i] = g[i]
    PROVE  \A m \in 0..n : f[m] = g[m]
<1> DEFINE S == {m \in Nat : m <= n => f[m] = g[m]}
<1>1. 0 \in S
  OBVIOUS
<1>2. ASSUME NEW m \in Nat, m \in S  PROVE m + 1 \in S
  <2>1. m + 1 <= n => m + 1 \in 1..n /\ (m + 1) - 1 = m /\ m <= n
    OBVIOUS
  <2> QED BY <1>2, <2>1
<1> HIDE DEF S
<1>3. Nat \subseteq S
  BY <1>1, <1>2, Climb
<1>4. \A m \in 0..n : m \in S /\ m <= n
  BY <1>3
<1> QED BY <1>4 DEF S

\* what the code's unsigned arithmetic gives when nothing overflows
LEMMA Remainder ==
    ASSUME NEW w \in Nat, NEW x \in Nat, x < w
    PROVE  x % w = x /\ (x + w) % w = x
OBVIOUS

LEMMA PlusMinus ==
    ASSUME NEW x \in Nat, NEW y \in Nat, NEW z \in Nat, Word \in Nat
    PROVE  /\ x + y < Word => Plus(x, y) = x + y
           /\ y <= x /\ x < Word => Minus(x, y) = x - y
           /\ z <= x /\ x < Word /\ y < Word /\ (x - z) + y < Word => Plus(x, Minus(y, z)) = (x - z) + y
<1>1. ASSUME x + y < Word PROVE Plus(x, y) = x + y
  BY <1>1, Remainder DEF Plus
<1>2. ASSUME y <= x, x < Word PROVE Minus(x, y) = x - y
  <2>1. x - y \in Nat /\ x - y < Word /\ x + Word - y = (x - y) + Word
    BY <1>2
  <2> QED BY <2>1, Remainder DEF Minus
<1>3. ASSUME z <= x, x < Word, y < Word, (x - z) + y < Word
      PROVE Plus(x, Minus(y, z)) = (x - z) + y
  <2>1. CASE z <= y
    <3>1. Minus(y, z) = y - z
      <4>1. y - z \in Nat /\ y - z < Word /\ y + Word - z = (y - z) + Word
        BY <1>3, <2>1
      <4> QED BY <4>1, Remainder DEF Minus
    <3>2. (x - z) + y \in Nat /\ x + (y - z) = (x - z) + y
      BY <1>3, <2>1
    <3> QED BY <1>3, <3>1, <3>2, Remainder DEF Plus
  <2>2. CASE y < z
    <3>1. y + Word - z \in Nat /\ y + Word - z < Word
      BY <1>3, <2>2
    <3>2. Minus(y, z) = y + Word - z
      BY <3>1, Remainder DEF Minus
    <3>3. (x - z) + y \in Nat /\ x + (y + Word - z) = ((x - z) + y) + Word
      BY <1>3
    <3> QED BY <1>3, <3>2, <3>3, Remainder DEF Plus
  <2> QED BY <2>1, <2>2
<1> QED BY <1>1, <1>2, <1>3

(***************************************************************************)
(* Sums of sizes.                                                          *)
(***************************************************************************)
\* t goes through the totals of s
Totals(t, s) ==
    t \in [0..Len(s) -> Nat] /\ t[0] = 0 /\ \A i \in 1..Len(s) : t[i] = t[i - 1] + s[i]

LEMMA TotalsAdd ==
    ASSUME NEW s \in Seq(Nat)
    PROVE  Totals(RunningTotals(s), s)
<1> DEFINE Body(g) == [i \in 0..Len(s) |-> IF i = 0 THEN 0 ELSE g[i - 1] + s[i]]
<1>1. PICK n : n = Len(s) /\ n \in Nat
  OBVIOUS
<1>2. PICK kept : kept = CHOOSE g : g = Body(g)
  OBVIOUS
<1>3. RunningTotals(s) = kept
  BY <1>2 DEF RunningTotals
<1>4. PICK h \in [0..n -> Nat] : h[0] = 0 /\ \A i \in 1..n : h[i] = h[i - 1] + s[i]
  <2>1. PICK step : step = [i \in 1..n |-> [x \in Nat |-> x + s[i]]]
    OBVIOUS
  <2>2. \A i \in 1..n : \A x \in Nat : step[i][x] = x + s[i] /\ step[i][x] \in Nat
    BY <1>1, <2>1
  <2>3. PICK h : Walk(h, step, 0, n, Nat)
    <3>1. n \in Nat /\ 0 \in Nat /\ \A i \in 1..n : \A x \in Nat : step[i][x] \in Nat
      BY <1>1, <2>2
    <3> QED BY <3>1, StepByStep
  <2>4. h \in [0..n -> Nat] /\ h[0] = 0 /\ \A i \in 1..n : h[i] = step[i][h[i - 1]]
    BY <2>3 DEF Walk
  <2>5. ASSUME NEW i \in 1..n PROVE h[i] = h[i - 1] + s[i]
    <3>1. i - 1 \in 0..n
      BY <1>1
    <3>2. h[i - 1] \in Nat
      BY <2>4, <3>1
    <3> QED BY <2>2, <2>4, <3>2
  <2> QED BY <2>4, <2>5
<1>5. h = Body(h)
  BY <1>1, <1>4
<1>6. kept = Body(kept)
  BY <1>2, <1>5
<1> HIDE DEF Body
<1>7. kept = [i \in 0..n |-> IF i = 0 THEN 0 ELSE kept[i - 1] + s[i]]
  BY <1>1, <1>6 DEF Body
<1>8. kept[0] = 0 /\ \A i \in 1..n : kept[i] = kept[i - 1] + s[i]
  <2>1. 0 \in 0..n /\ \A i \in 1..n : i \in 0..n /\ i # 0
    BY <1>1
  <2> QED BY <1>7, <2>1, Zenon
<1>9. \A m \in 0..n : kept[m] = h[m]
  <2>1. n \in Nat /\ kept[0] = h[0] /\ \A i \in 1..n : kept[i - 1] = h[i - 1] => kept[i] = h[i]
    BY <1>1, <1>4, <1>8
  <2> QED BY <2>1, SameSteps, ZenonT(40)
<1>10. kept \in [0..n -> Nat]
  BY <1>4, <1>7, <1>9
<1> QED BY <1>1, <1>3, <1>8, <1>10 DEF Totals

LEMMA NextTotal ==
    ASSUME NEW s \in Seq(Nat), NEW t, Totals(t, s), NEW i \in 1..Len(s)
    PROVE  t[i] = t[i - 1] + s[i] /\ s[i] \in Nat /\ t[i - 1] \in Nat /\ t[i] \in Nat
<1>1. i - 1 \in 0..Len(s) /\ i \in 0..Len(s)
  OBVIOUS
<1>2. t[i - 1] \in Nat /\ t[i] \in Nat
  BY <1>1 DEF Totals
<1> QED BY <1>2 DEF Totals

\* a part of a list adds up to no more than a longer one
LEMMA TotalsGrow ==
    ASSUME NEW s \in Seq(Nat), NEW t, Totals(t, s), NEW i \in 0..Len(s), NEW j \in i..Len(s)
    PROVE  t[i] <= t[j]
<1> DEFINE S == {m \in Nat : i + m <= Len(s) => t[i] <= t[i + m]}
<1>1. 0 \in S
  <2>1. t[i] \in Nat /\ i + 0 = i
    BY DEF Totals
  <2> QED BY <2>1
<1>2. ASSUME NEW m \in Nat, m \in S PROVE m + 1 \in S
  <2> SUFFICES ASSUME i + (m + 1) <= Len(s) PROVE t[i] <= t[i + (m + 1)]
    OBVIOUS
  <2>1. i + m \in 0..Len(s) /\ i + (m + 1) \in 1..Len(s) /\ (i + (m + 1)) - 1 = i + m
    OBVIOUS
  <2>2. t[i] \in Nat /\ t[i] <= t[i + m]
    <3>1. t[i] \in Nat
      BY DEF Totals
    <3>2. i + m <= Len(s)
      BY <2>1
    <3> QED BY <1>2, <3>1, <3>2
  <2>3. t[i + (m + 1)] = t[i + m] + s[i + (m + 1)] /\ t[i + m] \in Nat /\ s[i + (m + 1)] \in Nat
    BY <2>1, NextTotal
  <2> QED BY <2>2, <2>3
<1> HIDE DEF S
<1>3. j - i \in S
  <2>1. j - i \in Nat
    OBVIOUS
  <2> QED BY <1>1, <1>2, <2>1, Climb
<1>4. i + (j - i) = j /\ j <= Len(s)
  OBVIOUS
<1> QED BY <1>3, <1>4 DEF S

\* lists that begin alike add up alike
LEMMA TotalsOfPart ==
    ASSUME NEW s \in Seq(Nat), NEW t, Totals(t, s), NEW w \in Seq(Nat), NEW u, Totals(u, w),
           Len(w) <= Len(s), \A i \in 1..Len(w) : w[i] = s[i]
    PROVE  \A i \in 0..Len(w) : u[i] = t[i]
<1>1. /\ Len(w) \in Nat /\ u[0] = t[0]
      /\ \A i \in 1..Len(w) : u[i - 1] = t[i - 1] => u[i] = t[i]
  BY DEF Totals
<1> QED BY <1>1, SameSteps, ZenonT(40)

\* one more in front
LEMMA TotalsOfMore ==
    ASSUME NEW s \in Seq(Nat), NEW t, Totals(t, s), NEW w \in Seq(Nat), NEW u, Totals(u, w),
           Len(w) = Len(s) + 1, \A i \in 1..Len(s) : w[i + 1] = s[i]
    PROVE  u[Len(w)] = w[1] + t[Len(s)]
<1> DEFINE S == {m \in Nat : m <= Len(s) => u[m + 1] = w[1] + t[m]}
<1>1. 0 \in S
  <2>1. u[1] = u[0] + w[1] /\ w[1] \in Nat /\ u[0] = 0 /\ t[0] = 0
    <3>1. 1 \in 1..Len(w) /\ 1 - 1 = 0
      OBVIOUS
    <3> QED BY <3>1 DEF Totals
  <2> QED BY <2>1
<1>2. ASSUME NEW m \in Nat, m \in S PROVE m + 1 \in S
  <2> SUFFICES ASSUME m + 1 <= Len(s) PROVE u[(m + 1) + 1] = w[1] + t[m + 1]
    OBVIOUS
  <2>1. /\ m + 1 \in 1..Len(s) /\ (m + 1) - 1 = m /\ m \in 0..Len(s)
        /\ (m + 1) + 1 \in 1..Len(w) /\ ((m + 1) + 1) - 1 = m + 1 /\ 1 \in 1..Len(w)
    OBVIOUS
  <2>2. /\ t[m + 1] = t[m] + s[m + 1] /\ t[m] \in Nat /\ s[m + 1] \in Nat
        /\ u[(m + 1) + 1] = u[m + 1] + w[(m + 1) + 1]
    <3>1. t[m + 1] = t[m] + s[m + 1] /\ t[m] \in Nat /\ s[m + 1] \in Nat
      BY <2>1, NextTotal
    <3>2. u[(m + 1) + 1] = u[m + 1] + w[(m + 1) + 1]
      <4> DEFINE j == (m + 1) + 1
      <4>1. j \in 1..Len(w) /\ j - 1 = m + 1
        BY <2>1
      <4> HIDE DEF j
      <4>2. u[j] = u[j - 1] + w[j]
        BY <4>1, NextTotal
      <4> QED BY <4>1, <4>2 DEF j
    <3> QED BY <3>1, <3>2
  <2>3. u[m + 1] = w[1] + t[m] /\ w[(m + 1) + 1] = s[m + 1] /\ w[1] \in Nat
    BY <1>2, <2>1
  <2> QED BY <2>2, <2>3
<1> HIDE DEF S
<1>3. Len(s) \in S
  <2>1. Nat \subseteq S
    BY <1>1, <1>2, Climb
  <2> QED BY <2>1
<1> QED BY <1>3 DEF S

\* one left out
LEMMA TotalsOfLess ==
    ASSUME NEW s \in Seq(Nat), NEW t, Totals(t, s), NEW w \in Seq(Nat), NEW u, Totals(u, w),
           NEW k \in 1..Len(s), Len(w) = Len(s) - 1,
           \A i \in 1..Len(w) : w[i] = IF i < k THEN s[i] ELSE s[i + 1]
    PROVE  t[Len(s)] = u[Len(w)] + s[k]
<1>1. s[k] \in Nat /\ Len(s) \in Nat \ {0} /\ Len(w) \in Nat
  OBVIOUS
<1> DEFINE S == {m \in Nat : /\ m < k => u[m] = t[m]
                             /\ m >= k /\ m <= Len(s) => t[m] = u[m - 1] + s[k]}
<1>2. 0 \in S
  BY DEF Totals
<1>3. ASSUME NEW m \in Nat, m \in S PROVE m + 1 \in S
  <2>1. CASE m + 1 < k
    <3>1. m + 1 \in 1..Len(s) /\ m + 1 \in 1..Len(w) /\ (m + 1) - 1 = m /\ m < k
      BY <1>1, <2>1
    <3>2. t[m + 1] = t[m] + s[m + 1] /\ u[m + 1] = u[m] + w[m + 1]
      BY <3>1 DEF Totals
    <3>3. u[m] = t[m] /\ w[m + 1] = s[m + 1]
      BY <1>3, <2>1, <3>1
    <3> QED BY <2>1, <3>2, <3>3
  <2>2. CASE m + 1 = k
    <3>1. k \in 1..Len(s) /\ k - 1 = m /\ m < k
      BY <2>2
    <3>2. t[k] = t[m] + s[k] /\ u[m] = t[m]
      BY <1>3, <3>1 DEF Totals
    <3> QED BY <2>2, <3>1, <3>2
  <2>3. CASE m + 1 > k /\ m + 1 <= Len(s)
    <3>1. /\ m + 1 \in 1..Len(s) /\ m \in 1..Len(w) /\ (m + 1) - 1 = m /\ m >= k /\ m <= Len(s)
          /\ m - 1 \in 0..Len(w) /\ ~(m < k)
      BY <1>1, <2>3
    <3>2. t[m + 1] = t[m] + s[m + 1] /\ s[m + 1] \in Nat
      BY <3>1, NextTotal
    <3>3. u[m] = u[m - 1] + w[m] /\ u[m - 1] \in Nat
      BY <3>1, NextTotal
    <3>4. t[m] = u[m - 1] + s[k] /\ w[m] = s[m + 1]
      BY <1>3, <3>1
    <3>5. t[m + 1] = u[m] + s[k]
      BY <1>1, <3>2, <3>3, <3>4
    <3> QED BY <2>3, <3>1, <3>5
  <2>4. CASE m + 1 > Len(s)
    BY <1>1, <2>4
  <2> QED BY <1>1, <2>1, <2>2, <2>3, <2>4
<1> HIDE DEF S
<1>4. Len(s) \in S
  BY <1>1, <1>2, <1>3, Climb
<1> QED BY <1>1, <1>4 DEF S

(***************************************************************************)
(* Lists of entries.                                                       *)
(***************************************************************************)
Entry(k, v) == [key |-> k, value |-> v, size |-> SizeOf(v)]
Entries == {Entry(k, v) : k \in Keys, v \in Values}

\* a list that holds each key once, and what it holds
CacheList(l) ==
    l \in Seq(Entries) /\ \A i, j \in 1..Len(l) : l[i].key = l[j].key => i = j
Members(l) == {l[i] : i \in 1..Len(l)}
KeysOf(l)  == {l[i].key : i \in 1..Len(l)}
KeysAfter(l, n) == {l[i].key : i \in n + 1..Len(l)}
TotalOf(l) == RunningTotals(Sizes(l))[Len(l)]

\* every key of the list comes before those that were used before it
Recent(l, u) == \A i, j \in 1..Len(l) : i < j => <<l[i].key, l[j].key>> \in u

LEMMA EntryFacts ==
    ASSUME NEW e \in Entries
    PROVE  /\ e.key \in Keys /\ e.value \in Values /\ e.size = SizeOf(e.value) /\ e.size \in Nat
           /\ e = Entry(e.key, e.value)
<1>1. PICK k \in Keys, v \in Values : e = Entry(k, v)
  BY DEF Entries
<1>2. e.key = k /\ e.value = v /\ e.size = SizeOf(v)
  BY <1>1 DEF Entry
<1> QED BY <1>1, <1>2, CacheAssumption

LEMMA SizesFacts ==
    ASSUME NEW l \in Seq(Entries)
    PROVE  /\ Sizes(l) \in Seq(Nat) /\ Len(Sizes(l)) = Len(l)
           /\ \A i \in 1..Len(l) : Sizes(l)[i] = l[i].size
           /\ Totals(RunningTotals(Sizes(l)), Sizes(l))
           /\ TotalOf(l) \in Nat
<1>1. PICK n \in Nat : n = Len(l) /\ DOMAIN l = 1..n
  OBVIOUS
<1>2. \A i \in 1..n : l[i].size \in Nat
  <2> SUFFICES ASSUME NEW i \in 1..n PROVE l[i].size \in Nat
    OBVIOUS
  <2>1. l[i] \in Entries
    BY <1>1
  <2> QED BY <2>1, EntryFacts
<1>3. Sizes(l) = [i \in 1..n |-> l[i].size]
  BY <1>1 DEF Sizes
<1>4. Sizes(l) \in [1..n -> Nat]
  BY <1>2, <1>3
<1>5. Sizes(l) \in Seq(Nat) /\ Len(Sizes(l)) = n
  BY <1>4
<1>6. Totals(RunningTotals(Sizes(l)), Sizes(l))
  BY <1>5, TotalsAdd
<1>7. TotalOf(l) \in Nat
  BY <1>1, <1>5, <1>6 DEF TotalOf, Totals
<1> QED BY <1>1, <1>3, <1>5, <1>6, <1>7

LEMMA ConcatFacts ==
    ASSUME NEW S, NEW a \in Seq(S), NEW b \in Seq(S)
    PROVE  /\ a \o b \in Seq(S) /\ Len(a \o b) = Len(a) + Len(b)
           /\ \A j \in 1..Len(a) : (a \o b)[j] = a[j]
           /\ \A j \in 1..Len(b) : (a \o b)[Len(a) + j] = b[j]
<1>1. PICK c : c = a \o b
  OBVIOUS
<1>2. /\ c \in Seq(S) /\ Len(c) = Len(a) + Len(b)
      /\ \A j \in 1..(Len(a) + Len(b)) : c[j] = IF j <= Len(a) THEN a[j] ELSE b[j - Len(a)]
  BY <1>1, ConcatProperties
<1>3. PICK p \in Nat, q \in Nat : p = Len(a) /\ q = Len(b)
  OBVIOUS
<1>4. \A j \in 1..p : c[j] = a[j]
  BY <1>2, <1>3
<1>5. \A j \in 1..q : c[p + j] = b[j]
  <2> SUFFICES ASSUME NEW j \in 1..q PROVE c[p + j] = b[j]
    OBVIOUS
  <2>1. p + j \in 1..(p + q) /\ ~(p + j <= p) /\ (p + j) - p = j
    BY <1>3
  <2> QED BY <1>2, <1>3, <2>1
<1> QED BY <1>1, <1>2, <1>3, <1>4, <1>5

LEMMA RemoveAtFacts ==
    ASSUME NEW S, NEW l \in Seq(S), NEW i \in 1..Len(l)
    PROVE  /\ RemoveAt(l, i) \in Seq(S) /\ Len(RemoveAt(l, i)) = Len(l) - 1
           /\ \A j \in 1..(Len(l) - 1) : RemoveAt(l, i)[j] = IF j < i THEN l[j] ELSE l[j + 1]
<1>1. PICK n \in Nat : n = Len(l) /\ i \in 1..n
  OBVIOUS
<1>2. PICK a : a = SubSeq(l, 1, i - 1)
  OBVIOUS
<1>3. PICK b : b = SubSeq(l, i + 1, n)
  OBVIOUS
<1>4. a \in Seq(S) /\ Len(a) = i - 1 /\ \A j \in 1..(i - 1) : a[j] = l[j]
  BY <1>1, <1>2
<1>5. b \in Seq(S) /\ Len(b) = n - i /\ \A j \in 1..(n - i) : b[j] = l[i + j]
  BY <1>1, <1>3
<1>6. RemoveAt(l, i) = a \o b
  BY <1>1, <1>2, <1>3 DEF RemoveAt
<1>7. /\ a \o b \in Seq(S) /\ Len(a \o b) = n - 1
      /\ \A j \in 1..(i - 1) : (a \o b)[j] = a[j]
      /\ \A j \in 1..(n - i) : (a \o b)[(i - 1) + j] = b[j]
  <2>1. (i - 1) + (n - i) = n - 1
    BY <1>1
  <2>2. /\ a \o b \in Seq(S) /\ Len(a \o b) = Len(a) + Len(b)
        /\ \A j \in 1..Len(a) : (a \o b)[j] = a[j]
        /\ \A j \in 1..Len(b) : (a \o b)[Len(a) + j] = b[j]
    <3>1. a \in Seq(S) /\ b \in Seq(S)
      BY <1>4, <1>5
    <3>2. a \o b \in Seq(S)
      BY <3>1, ConcatFacts
    <3>3. Len(a \o b) = Len(a) + Len(b)
      BY <3>1, ConcatFacts
    <3>4. \A j \in 1..Len(a) : (a \o b)[j] = a[j]
      BY <3>1, ConcatFacts
    <3>5. \A j \in 1..Len(b) : (a \o b)[Len(a) + j] = b[j]
      BY <3>1, ConcatFacts
    <3> QED BY <3>2, <3>3, <3>4, <3>5
  <2> QED BY <1>4, <1>5, <2>1, <2>2
<1>8. ASSUME NEW j \in 1..(n - 1) PROVE (a \o b)[j] = IF j < i THEN l[j] ELSE l[j + 1]
  <2>1. CASE j < i
    <3>1. j \in 1..(i - 1)
      BY <1>1, <2>1
    <3> QED BY <1>4, <1>7, <2>1, <3>1
  <2>2. CASE ~(j < i)
    <3>1. /\ j - (i - 1) \in 1..(n - i) /\ i + (j - (i - 1)) = j + 1
          /\ (i - 1) + (j - (i - 1)) = j
      BY <1>1, <2>2
    <3>2. (a \o b)[j] = b[j - (i - 1)]
      BY <1>7, <3>1
    <3>3. b[j - (i - 1)] = l[i + (j - (i - 1))]
      BY <1>5, <3>1
    <3> QED BY <2>2, <3>1, <3>2, <3>3
  <2> QED BY <2>1, <2>2
<1> QED BY <1>1, <1>6, <1>7, <1>8

\* the list without its i-th entry
LEMMA CutFacts ==
    ASSUME NEW l, CacheList(l), NEW i \in 1..Len(l), NEW r, r = RemoveAt(l, i)
    PROVE  /\ CacheList(r) /\ Members(r) = Members(l) \ {l[i]}
           /\ l[i].key \notin KeysOf(r) /\ KeysOf(r) = KeysOf(l) \ {l[i].key}
           /\ TotalOf(l) = TotalOf(r) + l[i].size
           /\ \A u : Recent(l, u) => Recent(r, u)
<1>1. PICK n \in Nat : n = Len(l) /\ i \in 1..n
  BY DEF CacheList
<1>2. /\ l \in Seq(Entries) /\ \A p, q \in 1..n : l[p].key = l[q].key => p = q
  BY <1>1 DEF CacheList
<1>3. /\ r \in Seq(Entries) /\ Len(r) = n - 1
      /\ \A j \in 1..(n - 1) : r[j] = IF j < i THEN l[j] ELSE l[j + 1]
  BY <1>1, <1>2, RemoveAtFacts
<1>4. PICK e : e = [j \in 1..(n - 1) |-> IF j < i THEN j ELSE j + 1]
  OBVIOUS
<1>5. /\ \A j \in 1..(n - 1) : e[j] \in 1..n /\ e[j] # i /\ r[j] = l[e[j]]
      /\ \A j, m \in 1..(n - 1) : j < m => e[j] < e[m]
  BY <1>1, <1>3, <1>4
<1>6. ASSUME NEW p \in 1..n, p # i PROVE \E j \in 1..(n - 1) : e[j] = p
  <2>1. CASE p < i
    BY <1>1, <1>4, <2>1
  <2>2. CASE p > i
    <3>1. p - 1 \in 1..(n - 1) /\ ~(p - 1 < i) /\ (p - 1) + 1 = p
      BY <1>1, <2>2
    <3> QED BY <1>4, <3>1
  <2> QED BY <1>1, <1>6, <2>1, <2>2
<1>7. CacheList(r)
  <2> SUFFICES ASSUME NEW j \in 1..(n - 1), NEW m \in 1..(n - 1), r[j].key = r[m].key
               PROVE  j = m
    BY <1>3 DEF CacheList
  <2>1. e[j] = e[m]
    <3>1. e[j] \in 1..n /\ e[m] \in 1..n /\ l[e[j]].key = l[e[m]].key
      BY <1>5
    <3> QED BY <1>2, <3>1
  <2> QED BY <1>5, <2>1
<1>8. Members(r) = Members(l) \ {l[i]}
  <2>1. \A j \in 1..(n - 1) : l[e[j]] # l[i]
    BY <1>1, <1>2, <1>5
  <2>2. ASSUME NEW p \in 1..n, p # i PROVE \E j \in 1..(n - 1) : r[j] = l[p]
    <3>1. PICK j \in 1..(n - 1) : e[j] = p
      BY <1>6, <2>2
    <3> QED BY <1>5, <3>1
  <2>3. \A j \in 1..(n - 1) : r[j] \in Members(l) /\ r[j] # l[i]
    BY <1>1, <1>5, <2>1 DEF Members
  <2>4. \A p \in 1..n : l[p] # l[i] => l[p] \in Members(r)
    BY <1>3, <2>2 DEF Members
  <2>5. Members(l) = {l[p] : p \in 1..n} /\ Members(r) = {r[j] : j \in 1..(n - 1)}
    BY <1>1, <1>3 DEF Members
  <2>6. Members(r) \subseteq Members(l) \ {l[i]}
    BY <2>3, <2>5
  <2>7. Members(l) \ {l[i]} \subseteq Members(r)
    BY <2>4, <2>5
  <2> QED BY <2>6, <2>7
<1>9. KeysOf(r) = KeysOf(l) \ {l[i].key}
  <2>1. \A j \in 1..(n - 1) : l[e[j]].key # l[i].key
    BY <1>1, <1>2, <1>5
  <2>2. ASSUME NEW p \in 1..n, p # i PROVE \E j \in 1..(n - 1) : r[j].key = l[p].key
    <3>1. PICK j \in 1..(n - 1) : e[j] = p
      BY <1>6, <2>2
    <3> QED BY <1>5, <3>1
  <2>3. \A j \in 1..(n - 1) : r[j].key \in KeysOf(l) /\ r[j].key # l[i].key
    BY <1>1, <1>5, <2>1 DEF KeysOf
  <2>4. \A p \in 1..n : l[p].key # l[i].key => l[p].key \in KeysOf(r)
    BY <1>3, <2>2 DEF KeysOf
  <2>5. KeysOf(l) = {l[p].key : p \in 1..n} /\ KeysOf(r) = {r[j].key : j \in 1..(n - 1)}
    BY <1>1, <1>3 DEF KeysOf
  <2>6. KeysOf(r) \subseteq KeysOf(l) \ {l[i].key}
    BY <2>3, <2>5
  <2>7. KeysOf(l) \ {l[i].key} \subseteq KeysOf(r)
    BY <2>4, <2>5
  <2> QED BY <2>6, <2>7
<1>10. TotalOf(l) = TotalOf(r) + l[i].size
  <2>1. /\ Sizes(l) \in Seq(Nat) /\ Len(Sizes(l)) = n /\ \A j \in 1..n : Sizes(l)[j] = l[j].size
        /\ Totals(RunningTotals(Sizes(l)), Sizes(l))
    BY <1>1, <1>2, SizesFacts
  <2>2. /\ Sizes(r) \in Seq(Nat) /\ Len(Sizes(r)) = n - 1
        /\ \A j \in 1..(n - 1) : Sizes(r)[j] = r[j].size
        /\ Totals(RunningTotals(Sizes(r)), Sizes(r))
    BY <1>3, SizesFacts
  <2>3. \A j \in 1..(n - 1) : Sizes(r)[j] = IF j < i THEN Sizes(l)[j] ELSE Sizes(l)[j + 1]
    <3> SUFFICES ASSUME NEW j \in 1..(n - 1)
                 PROVE  Sizes(r)[j] = IF j < i THEN Sizes(l)[j] ELSE Sizes(l)[j + 1]
      OBVIOUS
    <3>1. j \in 1..n /\ j + 1 \in 1..n
      BY <1>1
    <3> QED BY <1>3, <2>1, <2>2, <3>1
  <2>4. RunningTotals(Sizes(l))[Len(Sizes(l))] = RunningTotals(Sizes(r))[Len(Sizes(r))] + Sizes(l)[i]
    <3>1. i \in 1..Len(Sizes(l)) /\ Len(Sizes(r)) = Len(Sizes(l)) - 1
      BY <1>1, <2>1, <2>2
    <3>2. \A j \in 1..Len(Sizes(r)) : Sizes(r)[j] = IF j < i THEN Sizes(l)[j] ELSE Sizes(l)[j + 1]
      BY <2>2, <2>3
    <3> QED BY <2>1, <2>2, <3>1, <3>2, TotalsOfLess
  <2> QED BY <1>1, <1>3, <2>1, <2>2, <2>4 DEF TotalOf
<1>11. ASSUME NEW u, Recent(l, u) PROVE Recent(r, u)
  <2> SUFFICES ASSUME NEW j \in 1..(n - 1), NEW m \in 1..(n - 1), j < m
               PROVE  <<r[j].key, r[m].key>> \in u
    BY <1>3 DEF Recent
  <2>1. e[j] \in 1..n /\ e[m] \in 1..n /\ e[j] < e[m] /\ r[j] = l[e[j]] /\ r[m] = l[e[m]]
    BY <1>5
  <2> QED BY <1>1, <1>11, <2>1 DEF Recent
<1> QED BY <1>7, <1>8, <1>9, <1>10, <1>11

\* the list with a new entry in front
LEMMA PutFirstFacts ==
    ASSUME NEW r, CacheList(r), NEW e \in Entries, e.key \notin KeysOf(r), NEW l, l = <<e>> \o r
    PROVE  /\ CacheList(l) /\ Members(l) = {e} \cup Members(r)
           /\ KeysOf(l) = {e.key} \cup KeysOf(r)
           /\ TotalOf(l) = e.size + TotalOf(r)
           /\ Len(l) = Len(r) + 1 /\ l[1] = e
           /\ \A u : Recent(r, u) /\ (\A k \in KeysOf(r) : <<e.key, k>> \in u) => Recent(l, u)
<1>1. PICK n \in Nat : n = Len(r)
  BY DEF CacheList
<1>2. r \in Seq(Entries) /\ \A p, q \in 1..n : r[p].key = r[q].key => p = q
  BY <1>1 DEF CacheList
<1>3. l \in Seq(Entries) /\ Len(l) = n + 1 /\ l[1] = e /\ \A j \in 1..n : l[j + 1] = r[j]
  <2>1. <<e>> \in Seq(Entries) /\ Len(<<e>>) = 1 /\ <<e>>[1] = e
    OBVIOUS
  <2>2. <<e>> \o r \in Seq(Entries)
    BY <1>2, <2>1, ConcatFacts
  <2>3. Len(<<e>> \o r) = Len(<<e>>) + Len(r)
    BY <1>2, <2>1, ConcatFacts
  <2>4. \A j \in 1..Len(<<e>>) : (<<e>> \o r)[j] = <<e>>[j]
    BY <1>2, <2>1, ConcatFacts
  <2>5. \A j \in 1..Len(r) : (<<e>> \o r)[Len(<<e>>) + j] = r[j]
    BY <1>2, <2>1, ConcatFacts
  <2>6. l[1] = e
    BY <2>1, <2>4
  <2>7. \A j \in 1..n : l[j + 1] = r[j]
    <3> SUFFICES ASSUME NEW j \in 1..n PROVE l[j + 1] = r[j]
      OBVIOUS
    <3>1. 1 + j = j + 1 /\ j \in 1..Len(r)
      BY <1>1
    <3>2. l[1 + j] = r[j]
      BY <2>1, <2>5, <3>1
    <3> QED BY <3>1, <3>2
  <2>8. Len(l) = n + 1
    BY <1>1, <2>1, <2>3
  <2> QED BY <2>2, <2>6, <2>7, <2>8
<1>4. \A i \in 1..(n + 1) : i = 1 \/ (i - 1 \in 1..n /\ l[i] = r[i - 1])
  <2> SUFFICES ASSUME NEW i \in 1..(n + 1), i # 1 PROVE i - 1 \in 1..n /\ l[i] = r[i - 1]
    OBVIOUS
  <2>1. i - 1 \in 1..n /\ (i - 1) + 1 = i
    BY <1>1
  <2> QED BY <1>3, <2>1
<1>5. \A j \in 1..n : r[j].key # e.key /\ r[j].key \in KeysOf(r) /\ r[j] \in Members(r)
  BY <1>1 DEF KeysOf, Members
<1>6. CacheList(l)
  <2> SUFFICES ASSUME NEW i \in 1..(n + 1), NEW j \in 1..(n + 1), l[i].key = l[j].key
               PROVE  i = j
    BY <1>3 DEF CacheList
  <2>1. CASE i = 1 \/ j = 1
    BY <1>3, <1>4, <1>5, <2>1
  <2>2. CASE i # 1 /\ j # 1
    <3>1. i - 1 \in 1..n /\ j - 1 \in 1..n /\ r[i - 1].key = r[j - 1].key
      BY <1>4, <2>2
    <3>2. i - 1 = j - 1
      BY <1>2, <3>1
    <3> QED BY <3>2
  <2> QED BY <2>1, <2>2
<1>7. Members(l) = {e} \cup Members(r)
  <2>1. Members(l) = {l[i] : i \in 1..(n + 1)} /\ Members(r) = {r[j] : j \in 1..n}
    BY <1>1, <1>3 DEF Members
  <2>2. \A i \in 1..(n + 1) : l[i] \in {e} \cup Members(r)
    BY <1>3, <1>4, <1>5
  <2>3. \A j \in 1..n : r[j] \in Members(l)
    <3>1. \A j \in 1..n : j + 1 \in 1..(n + 1)
      BY <1>1
    <3> QED BY <1>3, <2>1, <3>1
  <2>4. e \in Members(l)
    <3>1. 1 \in 1..(n + 1)
      BY <1>1
    <3> QED BY <1>3, <2>1, <3>1
  <2> QED BY <2>1, <2>2, <2>3, <2>4
<1>8. KeysOf(l) = {e.key} \cup KeysOf(r)
  <2>1. KeysOf(l) = {l[i].key : i \in 1..(n + 1)} /\ KeysOf(r) = {r[j].key : j \in 1..n}
    BY <1>1, <1>3 DEF KeysOf
  <2>2. \A i \in 1..(n + 1) : l[i].key \in {e.key} \cup KeysOf(r)
    BY <1>3, <1>4, <1>5
  <2>3. \A j \in 1..n : r[j].key \in KeysOf(l)
    <3>1. \A j \in 1..n : j + 1 \in 1..(n + 1)
      BY <1>1
    <3> QED BY <1>3, <2>1, <3>1
  <2>4. e.key \in KeysOf(l)
    <3>1. 1 \in 1..(n + 1)
      BY <1>1
    <3>2. l[1].key = e.key
      BY <1>3
    <3> QED BY <2>1, <3>1, <3>2
  <2> QED BY <2>1, <2>2, <2>3, <2>4
<1>9. TotalOf(l) = e.size + TotalOf(r)
  <2>1. /\ Sizes(l) \in Seq(Nat) /\ Len(Sizes(l)) = n + 1 /\ \A j \in 1..(n + 1) : Sizes(l)[j] = l[j].size
        /\ Totals(RunningTotals(Sizes(l)), Sizes(l))
    BY <1>3, SizesFacts
  <2>2. /\ Sizes(r) \in Seq(Nat) /\ Len(Sizes(r)) = n /\ \A j \in 1..n : Sizes(r)[j] = r[j].size
        /\ Totals(RunningTotals(Sizes(r)), Sizes(r))
    BY <1>1, <1>2, SizesFacts
  <2>3. \A j \in 1..Len(Sizes(r)) : Sizes(l)[j + 1] = Sizes(r)[j]
    <3> SUFFICES ASSUME NEW j \in 1..n PROVE Sizes(l)[j + 1] = Sizes(r)[j]
      BY <2>2
    <3>1. j + 1 \in 1..(n + 1)
      BY <1>1
    <3> QED BY <1>3, <2>1, <2>2, <3>1
  <2>4. RunningTotals(Sizes(l))[Len(Sizes(l))] = Sizes(l)[1] + RunningTotals(Sizes(r))[Len(Sizes(r))]
    <3>1. Len(Sizes(l)) = Len(Sizes(r)) + 1
      BY <2>1, <2>2
    <3> QED BY <2>1, <2>2, <2>3, <3>1, TotalsOfMore
  <2>5. Sizes(l)[1] = e.size
    BY <1>1, <1>3, <2>1
  <2> QED BY <1>1, <1>3, <2>1, <2>2, <2>4, <2>5 DEF TotalOf
<1>10. ASSUME NEW u, Recent(r, u), \A k \in KeysOf(r) : <<e.key, k>> \in u
       PROVE  Recent(l, u)
  <2> SUFFICES ASSUME NEW i \in 1..(n + 1), NEW j \in 1..(n + 1), i < j
               PROVE  <<l[i].key, l[j].key>> \in u
    BY <1>3 DEF Recent
  <2>1. j # 1 /\ j - 1 \in 1..n /\ l[j] = r[j - 1]
    <3>1. j # 1
      BY <1>1
    <3> QED BY <1>4, <3>1
  <2>2. CASE i = 1
    BY <1>3, <1>5, <1>10, <2>1, <2>2
  <2>3. CASE i # 1
    <3>1. i - 1 \in 1..n /\ l[i] = r[i - 1]
      BY <1>4, <2>3
    <3>2. i - 1 < j - 1
      BY <1>1
    <3> QED BY <1>1, <1>10, <2>1, <3>1, <3>2 DEF Recent
  <2> QED BY <2>2, <2>3
<1> QED BY <1>1, <1>3, <1>6, <1>7, <1>8, <1>9, <1>10

\* the first n entries of the list
LEMMA FirstFacts ==
    ASSUME NEW l, CacheList(l), NEW n \in 0..Len(l), NEW p, p = SubSeq(l, 1, n)
    PROVE  /\ CacheList(p) /\ Len(p) = n /\ \A i \in 1..n : p[i] = l[i]
           /\ Members(p) \subseteq Members(l)
           /\ KeysOf(p) = KeysOf(l) \ KeysAfter(l, n)
           /\ TotalOf(p) = RunningTotals(Sizes(l))[n]
           /\ \A u : Recent(l, u) => Recent(p, u)
<1>1. PICK m \in Nat : m = Len(l) /\ n \in 0..m
  BY DEF CacheList
<1>2. l \in Seq(Entries) /\ \A i, j \in 1..m : l[i].key = l[j].key => i = j
  BY <1>1 DEF CacheList
<1>3. p \in Seq(Entries) /\ Len(p) = n /\ \A i \in 1..n : p[i] = l[i] /\ i \in 1..m
  BY <1>1, <1>2
<1>4. CacheList(p)
  BY <1>2, <1>3 DEF CacheList
<1>5. Members(p) \subseteq Members(l)
  BY <1>1, <1>3 DEF Members
<1>6. KeysOf(p) = KeysOf(l) \ KeysAfter(l, n)
  <2>1. \A i \in 1..n, j \in n + 1..m : l[i].key # l[j].key
    <3> SUFFICES ASSUME NEW i \in 1..n, NEW j \in n + 1..m PROVE l[i].key # l[j].key
      OBVIOUS
    <3>1. i \in 1..m /\ j \in 1..m /\ i # j
      BY <1>1
    <3> QED BY <1>2, <3>1
  <2>2. \A i \in 1..m : i \in 1..n \/ i \in n + 1..m
    BY <1>1
  <2>3. KeysOf(l) = {l[i].key : i \in 1..m} /\ KeysOf(p) = {l[i].key : i \in 1..n}
    <3>1. {p[i].key : i \in 1..n} = {l[i].key : i \in 1..n}
      BY <1>3
    <3> QED BY <1>1, <1>3, <3>1 DEF KeysOf
  <2>4. \A i \in 1..n : i \in 1..m
    BY <1>1
  <2>5. {l[i].key : i \in 1..n} = {l[i].key : i \in 1..m} \ {l[i].key : i \in n + 1..m}
    BY <2>1, <2>2, <2>4
  <2> QED BY <1>1, <2>3, <2>5 DEF KeysAfter
<1>7. TotalOf(p) = RunningTotals(Sizes(l))[n]
  <2>1. /\ Sizes(l) \in Seq(Nat) /\ Len(Sizes(l)) = m /\ \A j \in 1..m : Sizes(l)[j] = l[j].size
        /\ Totals(RunningTotals(Sizes(l)), Sizes(l))
    BY <1>1, <1>2, SizesFacts
  <2>2. /\ Sizes(p) \in Seq(Nat) /\ Len(Sizes(p)) = n /\ \A j \in 1..n : Sizes(p)[j] = p[j].size
        /\ Totals(RunningTotals(Sizes(p)), Sizes(p))
    BY <1>3, SizesFacts
  <2>3. Len(Sizes(p)) <= Len(Sizes(l)) /\ \A j \in 1..Len(Sizes(p)) : Sizes(p)[j] = Sizes(l)[j]
    BY <1>1, <1>3, <2>1, <2>2
  <2>4. \A i \in 0..Len(Sizes(p)) : RunningTotals(Sizes(p))[i] = RunningTotals(Sizes(l))[i]
    BY <2>1, <2>2, <2>3, TotalsOfPart
  <2>5. n \in 0..Len(Sizes(p))
    BY <1>1, <2>2
  <2> QED BY <1>3, <2>4, <2>5 DEF TotalOf
<1>8. ASSUME NEW u, Recent(l, u) PROVE Recent(p, u)
  BY <1>1, <1>3, <1>8 DEF Recent
<1> QED BY <1>3, <1>4, <1>5, <1>6, <1>7, <1>8

(***************************************************************************)
(* The operations.  A cache is counted when the size it has added up is    *)
(* that of its list, and sound when it is not too large either.            *)
(***************************************************************************)
Limits == Capacities \cup {Capacity}
Counted(c) ==
    /\ c \in [list : Seq(Entries), table : SUBSET Keys, size : Nat, capacity : Limits]
    /\ CacheList(c.list) /\ c.table = KeysOf(c.list) /\ c.size = TotalOf(c.list)
Sound(c) == Counted(c) /\ c.size <= c.capacity

LEMMA LimitFacts ==
    ASSUME NEW n \in Limits
    PROVE  n \in Nat /\ n < Word /\ Word \in Nat /\ \A v \in Values : n + SizeOf(v) < Word
BY CacheAssumption, SizesFit DEF Limits

LEMMA GreatestElement ==
    ASSUME NEW n \in Nat, NEW T \in SUBSET (0..n), T # {}
    PROVE  Max(T) \in T /\ \A y \in T : Max(T) >= y
<1>1. PICK D : D = {n - y : y \in T}
  OBVIOUS
<1>2. D \subseteq Nat /\ D # {}
  <2>1. \A y \in T : n - y \in Nat
    OBVIOUS
  <2>2. PICK y : y \in T
    OBVIOUS
  <2>3. n - y \in D
    BY <1>1, <2>2
  <2> QED BY <1>1, <2>1, <2>3
<1>3. PICK d \in D : \A y \in D : d <= y
  BY <1>2, LeastElement
<1>4. PICK x \in T : d = n - x
  BY <1>1, <1>3
<1>5. \A y \in T : x >= y
  <2> SUFFICES ASSUME NEW y \in T PROVE x >= y
    OBVIOUS
  <2>1. n - x <= n - y
    BY <1>1, <1>3, <1>4
  <2>2. x \in 0..n /\ y \in 0..n
    OBVIOUS
  <2> QED BY <2>1, <2>2
<1>6. \E z \in T : \A y \in T : z >= y
  BY <1>5
<1> QED BY <1>6 DEF Max

\* The entries at the back are dropped until the rest fits, and none that need not be.
LEMMA CheckCapacityFacts ==
    ASSUME NEW c, Counted(c), c.size < Word, NEW d, d = CheckCapacity(c)
    PROVE  /\ Sound(d) /\ d.capacity = c.capacity
           /\ \E n \in 0..Len(c.list) : d.list = SubSeq(c.list, 1, n)
           /\ c.size <= c.capacity => d.list = c.list
<1>1. PICK l, m : l = c.list /\ m = Len(l)
  OBVIOUS
<1>2. /\ CacheList(l) /\ m \in Nat /\ l \in Seq(Entries) /\ c.table = KeysOf(l) /\ c.size = TotalOf(l)
      /\ c.capacity \in Nat /\ c.capacity \in Limits /\ Word \in Nat
      /\ c = [list |-> l, table |-> c.table, size |-> c.size, capacity |-> c.capacity]
  <2>1. c \in [list : Seq(Entries), table : SUBSET Keys, size : Nat, capacity : Limits]
    BY DEF Counted
  <2>2. l \in Seq(Entries) /\ m \in Nat /\ c.capacity \in Limits
    BY <1>1, <2>1
  <2>3. c.capacity \in Nat /\ Word \in Nat
    BY <2>2, LimitFacts
  <2> QED BY <1>1, <2>1, <2>2, <2>3 DEF Counted
<1>3. PICK t : t = RunningTotals(Sizes(l))
  OBVIOUS
<1>4. Totals(t, Sizes(l)) /\ Sizes(l) \in Seq(Nat) /\ Len(Sizes(l)) = m
  BY <1>1, <1>2, <1>3, SizesFacts
<1>5. t[0] = 0 /\ t[m] = c.size /\ \A i \in 0..m : t[i] \in Nat /\ t[i] <= t[m]
  <2>1. t[0] = 0 /\ t[m] = c.size /\ \A i \in 0..m : t[i] \in Nat
    BY <1>1, <1>2, <1>3, <1>4 DEF Totals, TotalOf
  <2>2. ASSUME NEW i \in 0..m PROVE t[i] <= t[m]
    <3>1. i \in 0..Len(Sizes(l)) /\ m \in i..Len(Sizes(l))
      BY <1>1, <1>4
    <3> QED BY <1>4, <3>1, TotalsGrow
  <2> QED BY <2>1, <2>2
<1>6. ASSUME NEW i \in 0..m PROVE SizeOfFirst(c, i) = t[i]
  <2>1. t[m] - t[i] \in Nat /\ t[m] - t[i] <= c.size /\ t[m] - t[i] < Word
    BY <1>2, <1>5
  <2>2. (t[m] - t[i]) % Word = t[m] - t[i]
    BY <1>2, <2>1, Remainder
  <2>3. c.size \in Nat /\ Minus(c.size, t[m] - t[i]) = c.size - (t[m] - t[i])
    BY <1>2, <1>5, <2>1, PlusMinus
  <2>4. SizeOfFirst(c, i) = Minus(c.size, (t[m] - t[i]) % Word)
    BY <1>1, <1>3 DEF SizeOfFirst
  <2> QED BY <1>5, <2>2, <2>3, <2>4
<1>7. PICK fits : fits = {i \in 0..m : SizeOfFirst(c, i) <= c.capacity}
  OBVIOUS
<1>8. \A i \in 0..m : i \in fits <=> t[i] <= c.capacity
  BY <1>6, <1>7
<1>9. 0 \in fits
  BY <1>1, <1>2, <1>5, <1>8
<1>10. PICK n : n = Max(fits)
  OBVIOUS
<1>11. n \in fits /\ n \in 0..m /\ \A y \in fits : n >= y
  <2>1. m \in Nat /\ fits \in SUBSET (0..m) /\ fits # {}
    BY <1>2, <1>7, <1>9
  <2>2. Max(fits) \in fits /\ \A y \in fits : Max(fits) >= y
    BY <2>1, GreatestElement
  <2> QED BY <1>10, <2>1, <2>2
<1>12. PICK p : p = SubSeq(l, 1, n)
  OBVIOUS
<1>13. d = [list |-> p, table |-> c.table \ {l[i].key : i \in n + 1..m}, size |-> t[n],
            capacity |-> c.capacity]
  <2>1. d = [c EXCEPT !.list = SubSeq(@, 1, n), !.table = @ \ {l[i].key : i \in n + 1..m},
                      !.size = SizeOfFirst(c, n)]
    BY <1>1, <1>7, <1>10 DEF CheckCapacity
  <2>2. SizeOfFirst(c, n) = t[n]
    BY <1>6, <1>11
  <2> QED BY <1>1, <1>2, <1>12, <2>1, <2>2
<1>14. /\ CacheList(p) /\ KeysOf(p) = KeysOf(l) \ {l[i].key : i \in n + 1..m} /\ TotalOf(p) = t[n]
  <2>1. CacheList(l) /\ n \in 0..Len(l) /\ p = SubSeq(l, 1, n)
    BY <1>1, <1>2, <1>11, <1>12
  <2>2. CacheList(p)
    BY <2>1, FirstFacts
  <2>3. KeysOf(p) = KeysOf(l) \ KeysAfter(l, n)
    BY <2>1, FirstFacts
  <2>4. TotalOf(p) = RunningTotals(Sizes(l))[n]
    BY <2>1, FirstFacts
  <2> QED BY <1>1, <1>3, <2>2, <2>3, <2>4 DEF KeysAfter
<1>15. Sound(d)
  <2>1. p \in Seq(Entries) /\ t[n] \in Nat /\ t[n] <= c.capacity
    BY <1>5, <1>8, <1>11, <1>14 DEF CacheList
  <2>2. c.table \in SUBSET Keys
    BY DEF Counted
  <2> QED BY <1>2, <1>13, <1>14, <2>1, <2>2 DEF Sound, Counted
<1>16. ASSUME c.size <= c.capacity PROVE d.list = l
  <2>1. m \in fits
    BY <1>1, <1>5, <1>8, <1>16
  <2>2. n = m
    BY <1>1, <1>11, <2>1
  <2>3. p = l
    BY <1>1, <1>2, <1>12, <2>2
  <2> QED BY <1>13, <2>3
<1>17. d.list = SubSeq(c.list, 1, n) /\ d.capacity = c.capacity
  <2>1. d.list = p /\ d.capacity = c.capacity
    BY <1>13
  <2> QED BY <1>1, <1>12, <2>1
<1> QED BY <1>1, <1>11, <1>15, <1>16, <1>17

\* the list without the entry of k, and that entry
Rest(c, k) == IF Hit(c, k) THEN RemoveAt(c.list, Element(c, k)) ELSE c.list

LEMMA CountedFacts ==
    ASSUME NEW c, Counted(c)
    PROVE  /\ CacheList(c.list) /\ c.list \in Seq(Entries) /\ Len(c.list) \in Nat
           /\ DOMAIN c.list = 1..Len(c.list)
           /\ c.table = KeysOf(c.list) /\ c.table \subseteq Keys /\ c.size = TotalOf(c.list)
           /\ c.size \in Nat /\ c.capacity \in Limits /\ c.capacity \in Nat
           /\ c = [list |-> c.list, table |-> c.table, size |-> c.size, capacity |-> c.capacity]
<1>1. c \in [list : Seq(Entries), table : SUBSET Keys, size : Nat, capacity : Limits]
  BY DEF Counted
<1>2. c.capacity \in Nat
  BY <1>1, LimitFacts
<1> QED BY <1>1, <1>2 DEF Counted

LEMMA ElementFacts ==
    ASSUME NEW c, Counted(c), NEW k, k \in c.table
    PROVE  /\ Element(c, k) \in 1..Len(c.list)
           /\ c.list[Element(c, k)].key = k /\ c.list[Element(c, k)] \in Entries
           /\ \A j \in 1..Len(c.list) : c.list[j].key = k => j = Element(c, k)
<1>1. PICK l, n : l = c.list /\ n = Len(l)
  OBVIOUS
<1>2. /\ CacheList(l) /\ n \in Nat /\ l \in Seq(Entries) /\ DOMAIN l = 1..n /\ c.table = KeysOf(l)
  BY <1>1, CountedFacts
<1>3. \E j \in 1..n : l[j].key = k
  BY <1>1, <1>2 DEF KeysOf
<1>4. Element(c, k) = CHOOSE i \in 1..n : l[i].key = k
  BY <1>1, <1>2 DEF Element
<1>5. Element(c, k) \in 1..n /\ l[Element(c, k)].key = k
  BY <1>3, <1>4
<1>6. l[Element(c, k)] \in Entries
  BY <1>2, <1>5
<1>7. \A j \in 1..n : l[j].key = k => j = Element(c, k)
  BY <1>1, <1>2, <1>5 DEF CacheList
<1> QED BY <1>1, <1>5, <1>6, <1>7

LEMMA RestFacts ==
    ASSUME NEW c, Counted(c), NEW k, NEW r, r = Rest(c, k)
    PROVE  /\ CacheList(r) /\ KeysOf(r) = c.table \ {k}
           /\ Members(r) = {e \in Members(c.list) : e.key # k}
           /\ TotalOf(r) \in Nat
           /\ k \in c.table => c.size = TotalOf(r) + c.list[Element(c, k)].size
           /\ k \notin c.table => c.size = TotalOf(r)
           /\ \A u : Recent(c.list, u) => Recent(r, u)
<1>1. PICK l : l = c.list
  OBVIOUS
<1>2. CacheList(l) /\ l \in Seq(Entries) /\ Len(l) \in Nat /\ c.table = KeysOf(l) /\ c.size = TotalOf(l)
  BY <1>1, CountedFacts
<1>3. ASSUME CacheList(r) PROVE TotalOf(r) \in Nat
  BY <1>3, SizesFacts DEF CacheList
<1>4. CASE k \in c.table
  <2>1. PICK i : i = Element(c, k)
    OBVIOUS
  <2>2. i \in 1..Len(l) /\ l[i].key = k /\ \A j \in 1..Len(l) : l[j].key = k => j = i
    BY <1>1, <1>4, <2>1, ElementFacts
  <2>3. r = RemoveAt(l, i)
    BY <1>1, <1>4, <2>1 DEF Rest, Hit
  <2>4. CacheList(r)
    BY <1>2, <2>2, <2>3, CutFacts
  <2>5. KeysOf(r) = KeysOf(l) \ {l[i].key}
    BY <1>2, <2>2, <2>3, CutFacts
  <2>6. Members(r) = Members(l) \ {l[i]}
    BY <1>2, <2>2, <2>3, CutFacts
  <2>7. TotalOf(l) = TotalOf(r) + l[i].size
    BY <1>2, <2>2, <2>3, CutFacts
  <2>8. \A u : Recent(l, u) => Recent(r, u)
    BY <1>2, <2>2, <2>3, CutFacts
  <2>9. Members(l) \ {l[i]} = {e \in Members(l) : e.key # k}
    BY <2>2 DEF Members
  <2> QED BY <1>1, <1>2, <1>3, <1>4, <2>1, <2>2, <2>4, <2>5, <2>6, <2>7, <2>8, <2>9
<1>5. CASE k \notin c.table
  <2>1. r = l
    BY <1>1, <1>5 DEF Rest, Hit
  <2>2. Members(l) = {e \in Members(l) : e.key # k}
    BY <1>2, <1>5 DEF Members, KeysOf
  <2>3. KeysOf(l) = c.table \ {k}
    BY <1>2, <1>5
  <2> QED BY <1>1, <1>2, <1>3, <1>5, <2>1, <2>2, <2>3
<1> QED BY <1>4, <1>5

LEMMA EntryIsEntry ==
    ASSUME NEW k \in Keys, NEW v \in Values
    PROVE  /\ Entry(k, v) \in Entries /\ Entry(k, v).key = k /\ Entry(k, v).value = v
           /\ Entry(k, v).size = SizeOf(v) /\ SizeOf(v) \in Nat
<1>1. Entry(k, v) \in Entries
  BY DEF Entries
<1> QED BY <1>1, CacheAssumption DEF Entry

\* Get, and SetIfAbsent of a key that is there
LEMMA MoveFacts ==
    ASSUME NEW c, Sound(c), NEW k, k \in c.table, NEW d, d = MoveToFront(c, k)
    PROVE  /\ Sound(d) /\ d.capacity = c.capacity
           /\ d.list = <<c.list[Element(c, k)]>> \o Rest(c, k)
<1>1. PICK l, i, r : l = c.list /\ i = Element(c, k) /\ r = Rest(c, k)
  OBVIOUS
<1>2. PICK e, m : e = l[i] /\ m = <<e>> \o r
  OBVIOUS
<1>3. Counted(c) /\ c.size <= c.capacity
  BY DEF Sound
<1>4. e \in Entries /\ e.key = k /\ e.size \in Nat
  BY <1>1, <1>2, <1>3, ElementFacts, EntryFacts
<1>5. CacheList(r) /\ KeysOf(r) = c.table \ {k} /\ c.size = TotalOf(r) + e.size /\ TotalOf(r) \in Nat
  <2>1. CacheList(r)
    BY <1>1, <1>3, RestFacts
  <2>2. KeysOf(r) = c.table \ {k}
    BY <1>1, <1>3, RestFacts
  <2>3. c.size = TotalOf(r) + e.size /\ TotalOf(r) \in Nat
    BY <1>1, <1>2, <1>3, RestFacts
  <2> QED BY <2>1, <2>2, <2>3
<1>6. d = [c EXCEPT !.list = m]
  BY <1>1, <1>2 DEF MoveToFront, Rest, Hit
<1>7. CacheList(m) /\ KeysOf(m) = {k} \cup KeysOf(r) /\ TotalOf(m) = e.size + TotalOf(r)
  <2>1. e.key \notin KeysOf(r)
    BY <1>4, <1>5
  <2>2. CacheList(m)
    BY <1>2, <1>4, <1>5, <2>1, PutFirstFacts
  <2>3. KeysOf(m) = {e.key} \cup KeysOf(r)
    BY <1>2, <1>4, <1>5, <2>1, PutFirstFacts
  <2>4. TotalOf(m) = e.size + TotalOf(r)
    BY <1>2, <1>4, <1>5, <2>1, PutFirstFacts
  <2> QED BY <1>4, <2>2, <2>3, <2>4
<1>8. /\ c.table \subseteq Keys /\ c.size \in Nat /\ c.capacity \in Limits
      /\ c = [list |-> c.list, table |-> c.table, size |-> c.size, capacity |-> c.capacity]
  BY <1>3, CountedFacts
<1>9. d = [list |-> m, table |-> c.table, size |-> c.size, capacity |-> c.capacity]
  BY <1>6, <1>8
<1>10. c.size = TotalOf(m) /\ c.table = KeysOf(m) /\ m \in Seq(Entries)
  BY <1>4, <1>5, <1>7 DEF CacheList
<1>11. Sound(d)
  BY <1>3, <1>7, <1>8, <1>9, <1>10 DEF Sound, Counted
<1> QED BY <1>1, <1>2, <1>9, <1>11

\* a list with one of its entries replaced by another for the same key
LEMMA ReplaceFacts ==
    ASSUME NEW l, CacheList(l), NEW i \in 1..Len(l), NEW e \in Entries, e.key = l[i].key,
           NEW m, m = [l EXCEPT ![i] = e]
    PROVE  /\ CacheList(m) /\ Len(m) = Len(l) /\ m[i] = e /\ RemoveAt(m, i) = RemoveAt(l, i)
           /\ KeysOf(m) = KeysOf(l)
<1>1. PICK n \in Nat : n = Len(l) /\ i \in 1..n
  BY DEF CacheList
<1>2. l \in Seq(Entries) /\ \A p, q \in 1..n : l[p].key = l[q].key => p = q
  BY <1>1 DEF CacheList
<1>3. m \in Seq(Entries) /\ Len(m) = n /\ \A p \in 1..n : m[p] = IF p = i THEN e ELSE l[p]
  BY <1>1, <1>2
<1>4. \A p \in 1..n : m[p].key = l[p].key
  BY <1>3
<1>5. CacheList(m)
  <2> SUFFICES ASSUME NEW p \in 1..n, NEW q \in 1..n, m[p].key = m[q].key PROVE p = q
    BY <1>3 DEF CacheList
  <2> QED BY <1>2, <1>4
<1>6. RemoveAt(m, i) = RemoveAt(l, i)
  <2>1. PICK a, b : a = RemoveAt(m, i) /\ b = RemoveAt(l, i)
    OBVIOUS
  <2>2. /\ a \in Seq(Entries) /\ Len(a) = n - 1
        /\ \A j \in 1..(n - 1) : a[j] = IF j < i THEN m[j] ELSE m[j + 1]
    <3>1. m \in Seq(Entries) /\ i \in 1..Len(m) /\ Len(m) = n
      BY <1>1, <1>3
    <3>2. a \in Seq(Entries) /\ Len(a) = n - 1
      BY <2>1, <3>1, RemoveAtFacts
    <3>3. \A j \in 1..(n - 1) : a[j] = IF j < i THEN m[j] ELSE m[j + 1]
      BY <2>1, <3>1, RemoveAtFacts
    <3> QED BY <3>2, <3>3
  <2>3. /\ b \in Seq(Entries) /\ Len(b) = n - 1
        /\ \A j \in 1..(n - 1) : b[j] = IF j < i THEN l[j] ELSE l[j + 1]
    BY <1>1, <1>2, <2>1, RemoveAtFacts
  <2>4. ASSUME NEW j \in 1..(n - 1) PROVE a[j] = b[j]
    <3>1. j \in 1..n /\ j + 1 \in 1..n /\ (j < i => j # i) /\ (~(j < i) => j + 1 # i)
      BY <1>1
    <3> QED BY <1>3, <2>2, <2>3, <3>1
  <2>5. a = b
    BY <1>1, <2>2, <2>3, <2>4
  <2> QED BY <2>1, <2>5
<1>7. KeysOf(m) = KeysOf(l)
  BY <1>1, <1>3, <1>4 DEF KeysOf
<1>8. m[i] = e
  BY <1>1, <1>3
<1> QED BY <1>1, <1>3, <1>5, <1>6, <1>7, <1>8

\* a cache with the new entry in front, before it is looked at whether that fits
Put(c, k, v) ==
    [list |-> <<Entry(k, v)>> \o Rest(c, k), table |-> c.table \cup {k},
     size |-> SizeOf(v) + TotalOf(Rest(c, k)), capacity |-> c.capacity]

LEMMA PutFacts ==
    ASSUME NEW c, Sound(c), NEW k \in Keys, NEW v \in Values, NEW p, p = Put(c, k, v)
    PROVE  Counted(p) /\ p.size < Word
<1>1. PICK r, e, m : r = Rest(c, k) /\ e = Entry(k, v) /\ m = <<e>> \o r
  OBVIOUS
<1>2. Counted(c) /\ c.size <= c.capacity /\ c.table \subseteq Keys
      /\ c.capacity \in Limits /\ c.size \in Nat /\ c.capacity \in Nat
  BY CountedFacts DEF Sound
<1>3. e \in Entries /\ e.key = k /\ e.size = SizeOf(v) /\ SizeOf(v) \in Nat
  BY <1>1, EntryIsEntry
<1>4. CacheList(r) /\ KeysOf(r) = c.table \ {k}
  <2>1. CacheList(r)
    BY <1>1, <1>2, RestFacts
  <2>2. KeysOf(r) = c.table \ {k}
    BY <1>1, <1>2, RestFacts
  <2> QED BY <2>1, <2>2
<1>5. TotalOf(r) \in Nat /\ TotalOf(r) <= c.size
  <2>1. TotalOf(r) \in Nat
    BY <1>1, <1>2, RestFacts
  <2>2. CASE k \in c.table
    <3>1. c.size = TotalOf(r) + c.list[Element(c, k)].size
      BY <1>1, <1>2, <2>2, RestFacts
    <3>2. c.list[Element(c, k)].size \in Nat
      BY <1>2, <2>2, ElementFacts, EntryFacts
    <3> QED BY <2>1, <3>1, <3>2
  <2>3. CASE k \notin c.table
    <3>1. c.size = TotalOf(r)
      BY <1>1, <1>2, <2>3, RestFacts
    <3> QED BY <1>2, <3>1
  <2> QED BY <2>1, <2>2, <2>3
<1>6. CacheList(m) /\ KeysOf(m) = {k} \cup KeysOf(r) /\ TotalOf(m) = SizeOf(v) + TotalOf(r)
  <2>1. e.key \notin KeysOf(r)
    BY <1>3, <1>4
  <2>2. CacheList(m)
    BY <1>1, <1>3, <1>4, <2>1, PutFirstFacts
  <2>3. KeysOf(m) = {e.key} \cup KeysOf(r)
    BY <1>1, <1>3, <1>4, <2>1, PutFirstFacts
  <2>4. TotalOf(m) = e.size + TotalOf(r)
    BY <1>1, <1>3, <1>4, <2>1, PutFirstFacts
  <2> QED BY <1>3, <2>2, <2>3, <2>4
<1>7. p = [list |-> m, table |-> c.table \cup {k}, size |-> TotalOf(m), capacity |-> c.capacity]
  BY <1>1, <1>6 DEF Put
<1>8. /\ m \in Seq(Entries) /\ c.table \cup {k} \in SUBSET Keys /\ c.table \cup {k} = KeysOf(m)
      /\ TotalOf(m) \in Nat
  BY <1>2, <1>3, <1>4, <1>5, <1>6 DEF CacheList
<1>9. TotalOf(m) < Word
  <2>1. Word \in Nat /\ c.capacity + SizeOf(v) < Word
    BY <1>2, LimitFacts
  <2> QED BY <1>2, <1>3, <1>5, <1>6, <2>1
<1>10. Counted(p)
  BY <1>2, <1>6, <1>7, <1>8 DEF Counted
<1> QED BY <1>7, <1>9, <1>10

LEMMA AddNewIsPut ==
    ASSUME NEW c, Sound(c), NEW k \in Keys, NEW v \in Values, k \notin c.table
    PROVE  AddNew(c, k, v) = CheckCapacity(Put(c, k, v))
<1>1. Counted(c) /\ c.size <= c.capacity
  BY DEF Sound
<1>2. /\ c.size \in Nat /\ c.capacity \in Limits /\ c.capacity \in Nat
      /\ c = [list |-> c.list, table |-> c.table, size |-> c.size, capacity |-> c.capacity]
  BY <1>1, CountedFacts
<1>3. Rest(c, k) = c.list
  BY DEF Rest, Hit
<1>4. c.size = TotalOf(c.list)
  BY <1>1, CountedFacts
<1>5. Plus(c.size, SizeOf(v)) = SizeOf(v) + TotalOf(c.list)
  <2>1. Word \in Nat /\ c.capacity + SizeOf(v) < Word /\ SizeOf(v) \in Nat
    BY <1>2, LimitFacts, EntryIsEntry
  <2>2. c.size + SizeOf(v) < Word
    BY <1>1, <1>2, <2>1
  <2>3. Plus(c.size, SizeOf(v)) = c.size + SizeOf(v)
    BY <1>2, <2>1, <2>2, PlusMinus
  <2> QED BY <1>2, <1>4, <2>1, <2>3
<1>6. [c EXCEPT !.list  = <<[key |-> k, value |-> v, size |-> SizeOf(v)]>> \o @,
                !.table = @ \cup {k}, !.size = Plus(@, SizeOf(v))] = Put(c, k, v)
  <2>1. PICK m, t, s : /\ m = <<[key |-> k, value |-> v, size |-> SizeOf(v)]>> \o c.list
                       /\ t = c.table \cup {k} /\ s = Plus(c.size, SizeOf(v))
    OBVIOUS
  <2>2. [c EXCEPT !.list = m, !.table = t, !.size = s]
            = [list |-> m, table |-> t, size |-> s, capacity |-> c.capacity]
    <3>1. PICK l0, t0, s0, n0 : l0 = c.list /\ t0 = c.table /\ s0 = c.size /\ n0 = c.capacity
      OBVIOUS
    <3>2. c = [list |-> l0, table |-> t0, size |-> s0, capacity |-> n0]
      BY <1>2, <3>1
    <3>3. PICK d : d = [c EXCEPT !.list = m, !.table = t, !.size = s]
      OBVIOUS
    <3>4. d = [list |-> m, table |-> t, size |-> s, capacity |-> n0]
      BY <3>2, <3>3
    <3> QED BY <3>1, <3>3, <3>4
  <2>3. Put(c, k, v) = [list |-> m, table |-> t, size |-> s, capacity |-> c.capacity]
    BY <1>3, <1>5, <2>1 DEF Put, Entry
  <2> QED BY <2>1, <2>2, <2>3
<1> QED BY <1>6 DEF AddNew

LEMMA UpdateInplaceIsPut ==
    ASSUME NEW c, Sound(c), NEW k \in Keys, NEW v \in Values, k \in c.table
    PROVE  UpdateInplace(c, k, v) = CheckCapacity(Put(c, k, v))
<1>1. Counted(c) /\ c.size <= c.capacity
  BY DEF Sound
<1>2. PICK i, l, e, m : i = Element(c, k) /\ l = c.list /\ e = Entry(k, v) /\ m = [l EXCEPT ![i] = e]
  OBVIOUS
<1>3. /\ c.size \in Nat /\ c.capacity \in Limits /\ c.capacity \in Nat
      /\ c = [list |-> l, table |-> c.table, size |-> c.size, capacity |-> c.capacity]
      /\ CacheList(l) /\ l \in Seq(Entries)
  BY <1>1, <1>2, CountedFacts
<1>4. i \in 1..Len(l) /\ l[i].key = k /\ l[i] \in Entries /\ l[i].size \in Nat
  BY <1>1, <1>2, ElementFacts, EntryFacts
<1>5. e \in Entries /\ e.key = k /\ SizeOf(v) \in Nat
  BY <1>2, EntryIsEntry
<1>6. CacheList(m) /\ Len(m) = Len(l) /\ m[i] = e /\ RemoveAt(m, i) = RemoveAt(l, i)
  BY <1>2, <1>3, <1>4, <1>5, ReplaceFacts
<1>7. PICK s : s = Plus(c.size, Minus(SizeOf(v), l[i].size))
  OBVIOUS
<1>8. s = SizeOf(v) + TotalOf(Rest(c, k))
  <2>1. PICK t : t = TotalOf(Rest(c, k))
    OBVIOUS
  <2>2. t \in Nat /\ c.size = t + l[i].size
    BY <1>1, <1>2, <2>1, RestFacts
  <2>3. Word \in Nat /\ c.capacity + SizeOf(v) < Word
    BY <1>3, LimitFacts
  <2>4. /\ l[i].size <= c.size /\ c.size < Word /\ SizeOf(v) < Word /\ (c.size - l[i].size) + SizeOf(v) < Word
        /\ c.size - l[i].size = t
    BY <1>1, <1>3, <1>4, <1>5, <2>2, <2>3
  <2>5. Plus(c.size, Minus(SizeOf(v), l[i].size)) = (c.size - l[i].size) + SizeOf(v)
    BY <1>3, <1>4, <1>5, <2>3, <2>4, PlusMinus
  <2> QED BY <1>5, <1>7, <2>1, <2>2, <2>4, <2>5
<1>9. PICK d : d = [list |-> m, table |-> c.table, size |-> s, capacity |-> c.capacity]
  OBVIOUS
<1>10. UpdateInplace(c, k, v) = CheckCapacity(MoveToFront(d, k))
  <2>1. d = [c EXCEPT !.list[i] = [key |-> k, value |-> v, size |-> SizeOf(v)],
                      !.size = Plus(@, Minus(SizeOf(v), c.list[i].size))]
    <3>1. [c EXCEPT !.list[i] = e, !.size = s] = d
      <4>1. PICK t0, s0, n0 : t0 = c.table /\ s0 = c.size /\ n0 = c.capacity
        OBVIOUS
      <4>2. c = [list |-> l, table |-> t0, size |-> s0, capacity |-> n0]
        BY <1>3, <4>1
      <4>3. PICK b : b = [c EXCEPT !.list[i] = e, !.size = s]
        OBVIOUS
      <4>4. b = [list |-> [l EXCEPT ![i] = e], table |-> t0, size |-> s, capacity |-> n0]
        BY <4>2, <4>3
      <4> QED BY <1>2, <1>9, <4>1, <4>3, <4>4
    <3>2. e = [key |-> k, value |-> v, size |-> SizeOf(v)] /\ s = Plus(c.size, Minus(SizeOf(v), c.list[i].size))
      BY <1>2, <1>7 DEF Entry
    <3> QED BY <3>1, <3>2
  <2> QED BY <1>2, <2>1 DEF UpdateInplace
<1>11. Element(d, k) = i
  <2>1. DOMAIN m = 1..Len(l)
    BY <1>6 DEF CacheList
  <2>2. \A j \in 1..Len(l) : m[j].key = k => j = i
    BY <1>4, <1>5, <1>6 DEF CacheList
  <2>3. Element(d, k) = CHOOSE j \in 1..Len(l) : m[j].key = k
    BY <1>9, <2>1 DEF Element
  <2>4. i \in 1..Len(l) /\ m[i].key = k
    BY <1>4, <1>5, <1>6
  <2> QED BY <2>2, <2>3, <2>4
<1>12. MoveToFront(d, k) = Put(c, k, v)
  <2>1. MoveToFront(d, k) = [d EXCEPT !.list = <<m[i]>> \o RemoveAt(m, i)]
    BY <1>9, <1>11 DEF MoveToFront
  <2>2. Rest(c, k) = RemoveAt(m, i)
    BY <1>2, <1>6 DEF Rest, Hit
  <2>3. c.table = c.table \cup {k}
    OBVIOUS
  <2>4. MoveToFront(d, k) = [list |-> <<e>> \o Rest(c, k), table |-> c.table, size |-> s,
                             capacity |-> c.capacity]
    BY <1>6, <1>9, <2>1, <2>2
  <2> QED BY <1>2, <1>8, <2>3, <2>4 DEF Put
<1> QED BY <1>10, <1>12

\* a cache that a key has just been set in: the new entry in front, as much of the rest as fits
SetDone(c, d, k, v) ==
    /\ Sound(d) /\ d.capacity = c.capacity
    /\ \E n \in 0..Len(Put(c, k, v).list) : d.list = SubSeq(Put(c, k, v).list, 1, n)
    /\ Put(c, k, v).size <= c.capacity => d.list = Put(c, k, v).list

LEMMA SetFacts ==
    ASSUME NEW c, Sound(c), NEW k \in Keys, NEW v \in Values
    PROVE  /\ SetDone(c, AfterSet(c, k, v), k, v)
           /\ ~Hit(c, k) => SetDone(c, AfterSetIfAbsent(c, k, v), k, v)
<1>1. PICK p, d : p = Put(c, k, v) /\ d = CheckCapacity(p)
  OBVIOUS
<1>2. Counted(p) /\ p.size < Word
  BY <1>1, PutFacts
<1>3. Sound(d) /\ d.capacity = p.capacity
  BY <1>1, <1>2, CheckCapacityFacts
<1>4. \E n \in 0..Len(p.list) : d.list = SubSeq(p.list, 1, n)
  BY <1>1, <1>2, CheckCapacityFacts
<1>5. p.size <= p.capacity => d.list = p.list
  BY <1>1, <1>2, CheckCapacityFacts
<1>6. p.capacity = c.capacity
  BY <1>1 DEF Put
<1>7. SetDone(c, d, k, v)
  BY <1>1, <1>3, <1>4, <1>5, <1>6 DEF SetDone
<1>8. AfterSet(c, k, v) = d
  BY <1>1, AddNewIsPut, UpdateInplaceIsPut DEF AfterSet, Hit
<1>9. ~Hit(c, k) => AfterSetIfAbsent(c, k, v) = d
  BY <1>1, AddNewIsPut DEF AfterSetIfAbsent, Hit
<1> QED BY <1>7, <1>8, <1>9

LEMMA NewFacts ==
    ASSUME NEW n \in Limits
    PROVE  Sound(New(n)) /\ New(n).capacity = n /\ New(n).list = <<>> /\ Members(<<>>) = {}
<1>1. PICK c : c = New(n)
  OBVIOUS
<1>2. c = [list |-> <<>>, table |-> {}, size |-> 0, capacity |-> n] /\ n \in Nat
  BY <1>1, LimitFacts DEF New
<1>3. <<>> \in Seq(Entries) /\ Len(<<>>) = 0
  OBVIOUS
<1>4. CacheList(<<>>) /\ KeysOf(<<>>) = {} /\ Members(<<>>) = {}
  BY <1>3 DEF CacheList, KeysOf, Members
<1>5. TotalOf(<<>>) = 0
  <2>1. Totals(RunningTotals(Sizes(<<>>)), Sizes(<<>>))
    BY <1>3, SizesFacts
  <2> QED BY <1>3, <2>1 DEF TotalOf, Totals
<1>6. c \in [list : Seq(Entries), table : SUBSET Keys, size : Nat, capacity : Limits]
  BY <1>2, <1>3
<1>7. Sound(c)
  BY <1>2, <1>4, <1>5, <1>6 DEF Sound, Counted
<1> QED BY <1>1, <1>2, <1>4, <1>7

LEMMA DeleteFacts ==
    ASSUME NEW c, Sound(c), NEW k, NEW d, d = AfterDelete(c, k)
    PROVE  Sound(d) /\ d.capacity = c.capacity /\ d.list = Rest(c, k)
<1>1. Counted(c) /\ c.size <= c.capacity
  BY DEF Sound
<1>2. CASE k \notin c.table
  BY <1>2 DEF AfterDelete, Hit, Rest
<1>3. CASE k \in c.table
  <2>1. PICK i, r, l0, t0, s0, n0 : /\ i = Element(c, k) /\ r = Rest(c, k)
                            /\ l0 = c.list /\ t0 = c.table /\ s0 = c.size /\ n0 = c.capacity
    OBVIOUS
  <2>2. c = [list |-> l0, table |-> t0, size |-> s0, capacity |-> n0] /\ t0 \subseteq Keys
        /\ s0 \in Nat /\ n0 \in Limits /\ n0 \in Nat /\ s0 <= n0
    BY <1>1, <2>1, CountedFacts
  <2>3. CacheList(r)
    BY <1>1, <2>1, RestFacts
  <2>4. KeysOf(r) = t0 \ {k}
    BY <1>1, <2>1, RestFacts
  <2>5. TotalOf(r) \in Nat /\ s0 = TotalOf(r) + l0[i].size
    BY <1>1, <1>3, <2>1, RestFacts
  <2>6. l0[i].size \in Nat
    BY <1>1, <1>3, <2>1, ElementFacts, EntryFacts
  <2>7. Minus(s0, l0[i].size) = TotalOf(r) /\ TotalOf(r) <= n0
    <3>1. n0 < Word /\ Word \in Nat
      BY <2>2, LimitFacts
    <3>2. l0[i].size <= s0 /\ s0 < Word /\ s0 - l0[i].size = TotalOf(r)
      BY <2>2, <2>5, <2>6, <3>1
    <3>3. Minus(s0, l0[i].size) = s0 - l0[i].size
      BY <2>2, <2>6, <3>1, <3>2, PlusMinus
    <3> QED BY <2>2, <2>5, <2>6, <3>2, <3>3
  <2>8. d = [list |-> r, table |-> t0 \ {k}, size |-> TotalOf(r), capacity |-> n0]
    <3>1. d = [c EXCEPT !.list = RemoveAt(@, i), !.table = @ \ {k}, !.size = Minus(@, c.list[i].size)]
      BY <1>3, <2>1 DEF AfterDelete, Hit
    <3>2. r = RemoveAt(l0, i)
      BY <1>3, <2>1 DEF Rest, Hit
    <3>3. d = [list |-> RemoveAt(l0, i), table |-> t0 \ {k}, size |-> Minus(s0, l0[i].size), capacity |-> n0]
      BY <2>1, <2>2, <3>1
    <3> QED BY <2>7, <3>2, <3>3
  <2>9. Sound(d)
    <3>1. r \in Seq(Entries) /\ t0 \ {k} \in SUBSET Keys
      BY <2>2, <2>3 DEF CacheList
    <3>2. /\ d.list = r /\ d.table = t0 \ {k} /\ d.size = TotalOf(r) /\ d.capacity = n0
          /\ d \in [list : Seq(Entries), table : SUBSET Keys, size : Nat, capacity : Limits]
      BY <2>2, <2>5, <2>8, <3>1
    <3>3. Counted(d)
      BY <2>3, <2>4, <3>2 DEF Counted
    <3> QED BY <2>7, <3>2, <3>3 DEF Sound
  <2> QED BY <2>1, <2>8, <2>9
<1> QED BY <1>2, <1>3

LEMMA SetCapacityFacts ==
    ASSUME NEW c, Sound(c), NEW n \in Limits, NEW d, d = AfterSetCapacity(c, n)
    PROVE  Sound(d) /\ \E m \in 0..Len(c.list) : d.list = SubSeq(c.list, 1, m)
<1>1. Counted(c) /\ c.size <= c.capacity
  BY DEF Sound
<1>2. PICK l0, t0, s0, n0 : l0 = c.list /\ t0 = c.table /\ s0 = c.size /\ n0 = c.capacity
  OBVIOUS
<1>3. c = [list |-> l0, table |-> t0, size |-> s0, capacity |-> n0] /\ t0 \subseteq Keys
      /\ s0 \in Nat /\ n0 \in Limits /\ n0 \in Nat /\ s0 <= n0 /\ l0 \in Seq(Entries)
      /\ CacheList(l0) /\ t0 = KeysOf(l0) /\ s0 = TotalOf(l0)
  BY <1>1, <1>2, CountedFacts
<1>4. PICK p : p = [c EXCEPT !.capacity = n]
  OBVIOUS
<1>5. p = [list |-> l0, table |-> t0, size |-> s0, capacity |-> n]
  BY <1>3, <1>4
<1>6. Counted(p) /\ p.list = c.list
  BY <1>2, <1>3, <1>5 DEF Counted
<1>7. p.size < Word
  BY <1>3, <1>5, LimitFacts
<1>8. d = CheckCapacity(p)
  BY <1>4 DEF AfterSetCapacity
<1>9. Sound(d)
  BY <1>6, <1>7, <1>8, CheckCapacityFacts
<1>10. \E m \in 0..Len(p.list) : d.list = SubSeq(p.list, 1, m)
  BY <1>6, <1>7, <1>8, CheckCapacityFacts
<1> QED BY <1>6, <1>9, <1>10

(***************************************************************************)
(* What a list says of a key.                                              *)
(***************************************************************************)
OneOfEach(items) == \A i, j \in 1..Len(items) : items[i].key = items[j].key => i = j

LEMMA MapFacts ==
    ASSUME NEW S, \A x \in S : x.key \in Keys /\ x.value \in Values,
           NEW items \in Seq(S), OneOfEach(items)
    PROVE  /\ MapOf(items) \in [Keys -> Values \cup {NoValue}]
           /\ \A i \in 1..Len(items) : MapOf(items)[items[i].key] = items[i].value
           /\ \A k \in Keys : MapOf(items)[k] # NoValue => \E i \in 1..Len(items) : items[i].key = k
<1>1. PICK n \in Nat : n = Len(items) /\ DOMAIN items = 1..n
  OBVIOUS
<1>2. \A i \in 1..n : items[i].key \in Keys /\ items[i].value \in Values
  <2> SUFFICES ASSUME NEW i \in 1..n PROVE items[i] \in S
    OBVIOUS
  <2> QED BY <1>1
<1>3. MapOf(items) = [k \in Keys |->
         IF \E i \in 1..n : items[i].key = k
         THEN items[CHOOSE i \in 1..n : items[i].key = k].value ELSE NoValue]
  BY <1>1 DEF MapOf
<1>4. ASSUME NEW i \in 1..n
      PROVE  (CHOOSE j \in 1..n : items[j].key = items[i].key) = i
  BY <1>1 DEF OneOfEach
<1>5. ASSUME NEW i \in 1..n PROVE MapOf(items)[items[i].key] = items[i].value
  <2>1. PICK k \in Keys : k = items[i].key
    BY <1>2
  <2>2. MapOf(items)[k] = items[CHOOSE j \in 1..n : items[j].key = k].value
    BY <1>3, <2>1
  <2>3. (CHOOSE j \in 1..n : items[j].key = k) = i
    BY <1>4, <2>1
  <2> QED BY <2>1, <2>2, <2>3
<1>6. ASSUME NEW k \in Keys
      PROVE  /\ MapOf(items)[k] \in Values \cup {NoValue}
             /\ MapOf(items)[k] # NoValue => \E i \in 1..n : items[i].key = k
  <2>1. CASE \E i \in 1..n : items[i].key = k
    BY <1>2, <1>5, <2>1
  <2>2. CASE ~\E i \in 1..n : items[i].key = k
    BY <1>3, <2>2
  <2> QED BY <2>1, <2>2
<1>7. MapOf(items) \in [Keys -> Values \cup {NoValue}]
  BY <1>3, <1>6
<1> QED BY <1>1, <1>5, <1>6, <1>7

LEMMA MapOfList ==
    ASSUME NEW l, CacheList(l)
    PROVE  /\ MapOf(l) \in [Keys -> Values \cup {NoValue}]
           /\ \A e \in Members(l) : MapOf(l)[e.key] = e.value
           /\ \A k \in Keys : MapOf(l)[k] # NoValue => \E e \in Members(l) : e.key = k
           /\ \A k \in Keys : k \in KeysOf(l) <=> MapOf(l)[k] # NoValue
           /\ \A k \in Keys : k \in KeysOf(l) <=> \E e \in Members(l) : e.key = k
<1>1. l \in Seq(Entries) /\ OneOfEach(l)
  BY DEF CacheList, OneOfEach
<1>2. \A x \in Entries : x.key \in Keys /\ x.value \in Values
  BY EntryFacts
<1>3. MapOf(l) \in [Keys -> Values \cup {NoValue}]
  BY <1>1, <1>2, MapFacts
<1>4. \A i \in 1..Len(l) : MapOf(l)[l[i].key] = l[i].value
  BY <1>1, <1>2, MapFacts
<1>5. \A k \in Keys : MapOf(l)[k] # NoValue => \E i \in 1..Len(l) : l[i].key = k
  BY <1>1, <1>2, MapFacts
<1>6. \A e \in Members(l) : MapOf(l)[e.key] = e.value /\ e.value \in Values
  <2> SUFFICES ASSUME NEW i \in 1..Len(l) PROVE MapOf(l)[l[i].key] = l[i].value /\ l[i].value \in Values
    BY DEF Members
  <2>1. l[i] \in Entries
    BY <1>1
  <2> QED BY <1>2, <1>4, <2>1
<1>7. \A k \in Keys : k \in KeysOf(l) <=> \E e \in Members(l) : e.key = k
  BY DEF Members, KeysOf
<1>8. \A k \in Keys : MapOf(l)[k] # NoValue => k \in KeysOf(l)
  BY <1>5 DEF KeysOf
<1>9. \A k \in Keys : k \in KeysOf(l) => MapOf(l)[k] # NoValue
  BY <1>6, <1>7, CacheAssumption
<1> QED BY <1>3, <1>6, <1>7, <1>8, <1>9

\* a list that has less says less, and nothing else
LEMMA FewerSayLess ==
    ASSUME NEW l, CacheList(l), NEW p, CacheList(p), Members(p) \subseteq Members(l), NEW k \in Keys
    PROVE  MapOf(p)[k] \in {MapOf(l)[k], NoValue}
<1>1. CASE MapOf(p)[k] = NoValue
  BY <1>1
<1>2. CASE MapOf(p)[k] # NoValue
  <2>1. PICK e \in Members(p) : e.key = k
    BY <1>2, MapOfList
  <2>2. MapOf(p)[k] = e.value /\ MapOf(l)[k] = e.value
    BY <2>1, MapOfList
  <2> QED BY <2>2
<1> QED BY <1>1, <1>2

\* the order of use once k is used
Touched(u, k) == {<<k, l>> : l \in Keys \ {k}} \cup {p \in u : k \notin {p[1], p[2]}}

LEMMA RecentPut ==
    ASSUME NEW c, Counted(c), NEW k \in Keys, NEW e \in Entries, e.key = k,
           NEW u, Recent(c.list, u), NEW l, l = <<e>> \o Rest(c, k)
    PROVE  Recent(l, Touched(u, k))
<1>1. PICK r, w : r = Rest(c, k) /\ w = Touched(u, k)
  OBVIOUS
<1>2. CacheList(r)
  BY <1>1, RestFacts
<1>3. KeysOf(r) = c.table \ {k} /\ c.table \subseteq Keys
  <2>1. KeysOf(r) = c.table \ {k}
    BY <1>1, RestFacts
  <2> QED BY <2>1, CountedFacts
<1>4. Recent(r, u)
  BY <1>1, RestFacts
<1>5. Recent(r, w)
  <2> SUFFICES ASSUME NEW i \in 1..Len(r), NEW j \in 1..Len(r), i < j
               PROVE  <<r[i].key, r[j].key>> \in w
    BY DEF Recent
  <2>1. PICK p : p = <<r[i].key, r[j].key>>
    OBVIOUS
  <2>2. p \in u /\ p[1] = r[i].key /\ p[2] = r[j].key
    BY <1>4, <2>1 DEF Recent
  <2>3. r[i].key # k /\ r[j].key # k
    BY <1>3 DEF KeysOf
  <2>4. p \in w
    BY <1>1, <2>2, <2>3 DEF Touched
  <2> QED BY <2>1, <2>4
<1>6. \A x \in KeysOf(r) : <<e.key, x>> \in w
  BY <1>1, <1>3 DEF Touched
<1>7. e.key \notin KeysOf(r)
  BY <1>3
<1>8. Recent(l, w)
  <2>1. l = <<e>> \o r
    BY <1>1
  <2>2. \A u1 : Recent(r, u1) /\ (\A x \in KeysOf(r) : <<e.key, x>> \in u1) => Recent(l, u1)
    BY <1>2, <1>7, <2>1, PutFirstFacts
  <2> QED BY <1>5, <1>6, <2>2
<1> QED BY <1>1, <1>8

LEMMA RecentPart ==
    ASSUME NEW l, CacheList(l), NEW n \in 0..Len(l), NEW p, p = SubSeq(l, 1, n),
           NEW u, Recent(l, u)
    PROVE  /\ Recent(p, u)
           /\ \A x \in KeysOf(p), y \in KeysOf(l) \ KeysOf(p) : <<x, y>> \in u
<1>1. Recent(p, u)
  BY FirstFacts
<1>2. Len(p) = n /\ \A i \in 1..n : p[i] = l[i]
  BY FirstFacts
<1>3. ASSUME NEW x \in KeysOf(p), NEW y \in KeysOf(l), y \notin KeysOf(p)
      PROVE  <<x, y>> \in u
  <2>1. PICK i \in 1..n : x = p[i].key
    BY <1>2 DEF KeysOf
  <2>2. PICK j \in 1..Len(l) : y = l[j].key
    BY DEF KeysOf
  <2>3. PICK m \in Nat : m = Len(l)
    BY DEF CacheList
  <2>4. j \notin 1..n
    BY <1>2, <1>3, <2>2 DEF KeysOf
  <2>5. i \in 1..m /\ j \in 1..m /\ i < j
    BY <2>1, <2>2, <2>3, <2>4
  <2>6. x = l[i].key
    BY <1>2, <2>1
  <2> QED BY <2>2, <2>3, <2>5, <2>6 DEF Recent
<1> QED BY <1>1, <1>3

\* What setting a key does to a cache: an entry that is left is the new one or one of another
\* key; nothing is dropped if everything fits; and what is dropped was used before what stays.
LEMMA SetCase ==
    ASSUME NEW c, Sound(c), NEW k \in Keys, NEW v \in Values, NEW d, SetDone(c, d, k, v)
    PROVE  /\ Sound(d) /\ d.capacity = c.capacity
           /\ \A x \in Members(d.list) : x = Entry(k, v) \/ (x \in Members(c.list) /\ x.key # k)
           /\ k \notin c.table /\ SizeOf(v) + c.size <= c.capacity
                 => /\ Members(d.list) = {Entry(k, v)} \cup Members(c.list)
                    /\ d.size = SizeOf(v) + c.size
           /\ \A u : Recent(c.list, u)
                 => /\ Recent(d.list, Touched(u, k))
                    /\ \A x \in d.table, y \in c.table \ d.table : <<x, y>> \in Touched(u, k)
<1>1. Sound(d) /\ d.capacity = c.capacity
  BY DEF SetDone
<1>2. PICK p, r, l, e : p = Put(c, k, v) /\ r = Rest(c, k) /\ l = p.list /\ e = Entry(k, v)
  OBVIOUS
<1>3. l = <<e>> \o r /\ p.size = SizeOf(v) + TotalOf(r)
  BY <1>2 DEF Put
<1>4. Counted(c)
  BY DEF Sound
<1>5. Counted(p)
  BY <1>2, PutFacts
<1>6. CacheList(r)
  BY <1>2, <1>4, RestFacts
<1>7. KeysOf(r) = c.table \ {k}
  BY <1>2, <1>4, RestFacts
<1>8. Members(r) = {x \in Members(c.list) : x.key # k}
  BY <1>2, <1>4, RestFacts
<1>9. e \in Entries /\ e.key = k /\ e.key \notin KeysOf(r)
  BY <1>2, <1>7, EntryIsEntry
<1>10. Members(l) = {e} \cup Members(r)
  BY <1>3, <1>6, <1>9, PutFirstFacts
<1>11. CacheList(l)
  BY <1>2, <1>5, CountedFacts
<1>12. PICK n \in 0..Len(l) : d.list = SubSeq(l, 1, n)
  BY <1>2 DEF SetDone
<1>13. Members(d.list) \subseteq Members(l)
  BY <1>11, <1>12, FirstFacts
<1>14. ASSUME k \notin c.table, SizeOf(v) + c.size <= c.capacity
       PROVE  Members(d.list) = {e} \cup Members(c.list) /\ d.size = SizeOf(v) + c.size
  <2>1. c.size = TotalOf(r) /\ r = c.list
    <3>1. c.size = TotalOf(r)
      BY <1>2, <1>4, <1>14, RestFacts
    <3> QED BY <1>2, <1>14, <3>1 DEF Rest, Hit
  <2>2. d.list = l
    BY <1>2, <1>3, <1>14, <2>1 DEF SetDone
  <2>3. d.size = TotalOf(l) /\ p.size = TotalOf(l)
    <3>1. Counted(d)
      BY <1>1 DEF Sound
    <3> QED BY <1>2, <1>5, <2>2, <3>1, CountedFacts
  <2> QED BY <1>3, <1>10, <2>1, <2>2, <2>3
<1>15. \A x \in Members(d.list) : x = Entry(k, v) \/ (x \in Members(c.list) /\ x.key # k)
  BY <1>2, <1>8, <1>10, <1>13
<1>16. ASSUME NEW u, Recent(c.list, u)
       PROVE  /\ Recent(d.list, Touched(u, k))
              /\ \A x \in d.table, y \in c.table \ d.table : <<x, y>> \in Touched(u, k)
  <2>1. PICK w : w = Touched(u, k)
    OBVIOUS
  <2>2. Recent(l, w)
    BY <1>2, <1>3, <1>4, <1>9, <1>16, <2>1, RecentPut
  <2>3. Recent(d.list, w)
    BY <1>11, <1>12, <2>2, RecentPart
  <2>4. \A x \in KeysOf(d.list), y \in KeysOf(l) \ KeysOf(d.list) : <<x, y>> \in w
    BY <1>11, <1>12, <2>2, RecentPart
  <2>5. d.table = KeysOf(d.list)
    BY <1>1, CountedFacts DEF Sound
  <2>6. KeysOf(l) = {k} \cup KeysOf(r)
    BY <1>3, <1>6, <1>9, PutFirstFacts
  <2>7. c.table \ d.table \subseteq KeysOf(l) \ KeysOf(d.list)
    BY <1>7, <2>5, <2>6
  <2> QED BY <2>1, <2>3, <2>4, <2>5, <2>7
<1> QED BY <1>1, <1>2, <1>14, <1>15, <1>16

\* What using a key that is there does to a cache: nothing but to the order.
LEMMA MoveCase ==
    ASSUME NEW c, Sound(c), NEW k \in c.table, NEW d, d = MoveToFront(c, k)
    PROVE  /\ Sound(d) /\ d.capacity = c.capacity
           /\ Members(d.list) = Members(c.list) /\ d.table = c.table
           /\ \A u : Recent(c.list, u) => Recent(d.list, Touched(u, k))
<1>1. Sound(d) /\ d.capacity = c.capacity
  BY MoveFacts
<1>2. PICK e, r : e = c.list[Element(c, k)] /\ r = Rest(c, k)
  OBVIOUS
<1>3. d.list = <<e>> \o r
  BY <1>2, MoveFacts
<1>4. Counted(c) /\ Counted(d) /\ c.table \subseteq Keys /\ CacheList(c.list)
  BY <1>1, CountedFacts DEF Sound
<1>5. Element(c, k) \in 1..Len(c.list) /\ e \in Entries /\ e.key = k
  BY <1>2, <1>4, ElementFacts
<1>6. CacheList(r)
  BY <1>2, <1>4, RestFacts
<1>7. KeysOf(r) = c.table \ {k}
  BY <1>2, <1>4, RestFacts
<1>8. Members(r) = {x \in Members(c.list) : x.key # k}
  BY <1>2, <1>4, RestFacts
<1>9. e.key \notin KeysOf(r)
  BY <1>5, <1>7
<1>10. Members(d.list) = {e} \cup Members(r)
  BY <1>3, <1>5, <1>6, <1>9, PutFirstFacts
<1>11. KeysOf(d.list) = {e.key} \cup KeysOf(r)
  BY <1>3, <1>5, <1>6, <1>9, PutFirstFacts
<1>12. \A x \in Members(c.list) : x.key = k => x = e
  <2>1. \A j \in 1..Len(c.list) : c.list[j].key = k => j = Element(c, k)
    BY <1>4, ElementFacts
  <2> QED BY <1>2, <2>1 DEF Members
<1>13. e \in Members(c.list)
  BY <1>2, <1>5 DEF Members
<1>14. d.table = KeysOf(d.list)
  BY <1>4, CountedFacts
<1>15. ASSUME NEW u, Recent(c.list, u) PROVE Recent(d.list, Touched(u, k))
  <2>1. k \in Keys
    BY <1>4
  <2> QED BY <1>2, <1>3, <1>4, <1>5, <1>15, <2>1, RecentPut
<1>16. Members(d.list) = Members(c.list)
  BY <1>8, <1>10, <1>12, <1>13
<1>17. d.table = c.table
  BY <1>5, <1>7, <1>11, <1>14
<1> QED BY <1>1, <1>15, <1>16, <1>17

(***************************************************************************)
(* LoadItems.                                                              *)
(***************************************************************************)
SoundCaches ==
    {c \in [list : Seq(Entries), table : SUBSET Keys, size : Nat, capacity : Limits] : Sound(c)}

LEMMA SoundIsSound == \A c : c \in SoundCaches <=> Sound(c)
BY DEF SoundCaches, Sound, Counted

LEMMA ItemFacts ==
    ASSUME NEW items \in ItemSeq, NEW i \in 1..Len(items)
    PROVE  items[i].key \in Keys /\ items[i].value \in Values
<1>1. items \in Seq([key : Keys, value : Values])
  BY DEF ItemSeq
<1>2. items[i] \in [key : Keys, value : Values]
  BY <1>1, ElementOfSeq
<1> QED BY <1>2

LEMMA LoadsAdd ==
    ASSUME NEW c, Sound(c), NEW items \in ItemSeq, NEW f, f = Loads(c, items)
    PROVE  /\ f[0] = c
           /\ \A i \in 1..Len(items) : f[i] = AfterSet(f[i - 1], items[i].key, items[i].value)
           /\ \A i \in 0..Len(items) : Sound(f[i])
<1> DEFINE Body(g) == [m \in 0..Len(items) |->
                          IF m = 0 THEN c ELSE AfterSet(g[m - 1], items[m].key, items[m].value)]
<1>1. PICK n : n = Len(items) /\ n \in Nat
  BY DEF ItemSeq
<1>2. PICK kept : kept = CHOOSE g : g = Body(g)
  OBVIOUS
<1>3. f = kept
  BY <1>2 DEF Loads
<1>4. PICK h \in [0..n -> SoundCaches] :
          h[0] = c /\ \A i \in 1..n : h[i] = AfterSet(h[i - 1], items[i].key, items[i].value)
  <2>1. PICK step : step = [i \in 1..n |-> [x \in SoundCaches |-> AfterSet(x, items[i].key, items[i].value)]]
    OBVIOUS
  <2>2. \A i \in 1..n : \A x \in SoundCaches :
            step[i][x] = AfterSet(x, items[i].key, items[i].value) /\ step[i][x] \in SoundCaches
    <3> SUFFICES ASSUME NEW i \in 1..n, NEW x \in SoundCaches
                 PROVE  /\ step[i][x] = AfterSet(x, items[i].key, items[i].value)
                        /\ step[i][x] \in SoundCaches
      OBVIOUS
    <3>1. PICK k \in Keys, v \in Values : k = items[i].key /\ v = items[i].value
      BY <1>1, ItemFacts
    <3>2. step[i][x] = AfterSet(x, k, v)
      BY <2>1, <3>1
    <3>3. Sound(x)
      BY SoundIsSound
    <3>4. SetDone(x, AfterSet(x, k, v), k, v)
      BY <3>3, SetFacts
    <3>5. Sound(AfterSet(x, k, v))
      BY <3>4 DEF SetDone
    <3> QED BY <3>1, <3>2, <3>5, SoundIsSound
  <2>3. PICK h : Walk(h, step, c, n, SoundCaches)
    <3>1. n \in Nat /\ c \in SoundCaches /\ \A i \in 1..n : \A x \in SoundCaches : step[i][x] \in SoundCaches
      BY <1>1, <2>2, SoundIsSound
    <3> QED BY <3>1, StepByStep
  <2>4. h \in [0..n -> SoundCaches] /\ h[0] = c /\ \A i \in 1..n : h[i] = step[i][h[i - 1]]
    BY <2>3 DEF Walk
  <2>5. ASSUME NEW i \in 1..n PROVE h[i] = AfterSet(h[i - 1], items[i].key, items[i].value)
    <3>1. i - 1 \in 0..n
      BY <1>1
    <3>2. h[i - 1] \in SoundCaches
      BY <2>4, <3>1
    <3> QED BY <2>2, <2>4, <3>2
  <2> QED BY <2>4, <2>5
<1>5. h = Body(h)
  BY <1>1, <1>4
<1>6. kept = Body(kept)
  BY <1>2, <1>5
<1> HIDE DEF Body
<1>7. kept = [m \in 0..n |->
                 IF m = 0 THEN c ELSE AfterSet(kept[m - 1], items[m].key, items[m].value)]
  BY <1>1, <1>6 DEF Body
<1>8. kept[0] = c /\ \A i \in 1..n : kept[i] = AfterSet(kept[i - 1], items[i].key, items[i].value)
  <2>1. 0 \in 0..n /\ \A i \in 1..n : i \in 0..n /\ i # 0
    BY <1>1
  <2> QED BY <1>7, <2>1, Zenon
<1>9. \A m \in 0..n : kept[m] = h[m]
  <2>1. n \in Nat /\ kept[0] = h[0] /\ \A i \in 1..n : kept[i - 1] = h[i - 1] => kept[i] = h[i]
    BY <1>1, <1>4, <1>8
  <2> QED BY <2>1, SameSteps, ZenonT(40)
<1>10. \A m \in 0..n : Sound(kept[m])
  <2>1. \A m \in 0..n : h[m] \in SoundCaches
    BY <1>4
  <2> QED BY <1>9, <2>1, SoundIsSound
<1> QED BY <1>1, <1>3, <1>8, <1>10

\* One item after another is put in front; an entry of the cache comes from an item.
LEMMA LoadFacts ==
    ASSUME NEW items \in ItemSeq, NEW d, d = LoadItems(New(Capacity), items)
    PROVE  /\ Sound(d)
           /\ \A e \in Members(d.list) :
                 \E i \in 1..Len(items) : e = Entry(items[i].key, items[i].value)
           /\ OneOfEach(items) /\ ItemsTotal(items) <= Capacity
                 => \A i \in 1..Len(items) : Entry(items[i].key, items[i].value) \in Members(d.list)
<1>1. PICK n \in Nat : n = Len(items) /\ DOMAIN items = 1..n
  BY DEF ItemSeq
<1>2. PICK c, f : c = New(Capacity) /\ f = Loads(c, items)
  OBVIOUS
<1>3. Sound(c) /\ c.capacity = Capacity /\ c.list = <<>> /\ Members(c.list) = {}
  <2>1. Capacity \in Limits
    BY DEF Limits
  <2>2. Sound(New(Capacity))
    BY <2>1, NewFacts
  <2>3. New(Capacity).capacity = Capacity /\ New(Capacity).list = <<>> /\ Members(<<>>) = {}
    BY <2>1, NewFacts
  <2> QED BY <1>2, <2>2, <2>3
<1>4. d = f[n]
  BY <1>1, <1>2 DEF LoadItems
<1>5. /\ f[0] = c /\ \A i \in 0..n : Sound(f[i])
      /\ \A i \in 1..n : f[i] = AfterSet(f[i - 1], items[i].key, items[i].value)
  <2>1. f[0] = c
    BY <1>1, <1>2, <1>3, LoadsAdd
  <2>2. \A i \in 0..n : Sound(f[i])
    BY <1>1, <1>2, <1>3, LoadsAdd
  <2>3. \A i \in 1..n : f[i] = AfterSet(f[i - 1], items[i].key, items[i].value)
    BY <1>1, <1>2, <1>3, LoadsAdd
  <2> QED BY <2>1, <2>2, <2>3
<1>6. \A i \in 1..n : items[i].key \in Keys /\ items[i].value \in Values
  BY <1>1, ItemFacts
<1>7. PICK sizes : sizes = [i \in 1..n |-> SizeOf(items[i].value)]
  OBVIOUS
<1>8. sizes \in Seq(Nat) /\ Len(sizes) = n /\ \A i \in 1..n : sizes[i] = SizeOf(items[i].value)
  <2>1. \A i \in 1..n : SizeOf(items[i].value) \in Nat
    BY <1>6, CacheAssumption
  <2>2. sizes \in [1..n -> Nat]
    BY <1>7, <2>1
  <2> QED BY <1>1, <1>7, <2>2
<1>9. PICK t : t = RunningTotals(sizes)
  OBVIOUS
<1>10. Totals(t, sizes)
  BY <1>8, <1>9, TotalsAdd
<1>11. ItemsTotal(items) = t[n]
  BY <1>1, <1>7, <1>9 DEF ItemsTotal
<1> DEFINE
      Origin(m) == \A e \in Members(f[m].list) :
                     \E i \in 1..m : e = Entry(items[i].key, items[i].value)
      Whole(m) == /\ \A i \in 1..m : Entry(items[i].key, items[i].value) \in Members(f[m].list)
                  /\ f[m].size = t[m]
      S == {m \in Nat : m <= n => f[m].capacity = Capacity /\ Origin(m)}
      T == {m \in Nat : m <= n => Whole(m)}
<1>12. 0 \in S
  BY <1>3, <1>5
<1>13. ASSUME NEW m \in Nat, m \in S PROVE m + 1 \in S
  <2> SUFFICES ASSUME m + 1 <= n PROVE f[m + 1].capacity = Capacity /\ Origin(m + 1)
    OBVIOUS
  <2>1. m + 1 \in 1..n /\ m \in 0..n /\ (m + 1) - 1 = m
    BY <1>1
  <2>2. PICK k \in Keys, v \in Values : k = items[m + 1].key /\ v = items[m + 1].value
    BY <1>6, <2>1
  <2>3. f[m + 1] = AfterSet(f[m], k, v) /\ Sound(f[m])
    BY <1>5, <2>1, <2>2
  <2>4. SetDone(f[m], f[m + 1], k, v)
    BY <2>3, SetFacts
  <2>5. f[m + 1].capacity = f[m].capacity
    BY <2>3, <2>4, SetCase
  <2>6. \A x \in Members(f[m + 1].list) : x = Entry(k, v) \/ x \in Members(f[m].list)
    BY <2>3, <2>4, SetCase
  <2>7. f[m].capacity = Capacity /\ Origin(m)
    BY <1>1, <1>13, <2>1
  <2>8. ASSUME NEW e \in Members(f[m + 1].list)
        PROVE  \E i \in 1..(m + 1) : e = Entry(items[i].key, items[i].value)
    <3>1. CASE e = Entry(k, v)
      BY <2>1, <2>2, <3>1
    <3>2. CASE e \in Members(f[m].list)
      <4>1. PICK i \in 1..m : e = Entry(items[i].key, items[i].value)
        BY <2>7, <3>2
      <4> QED BY <4>1
    <3> QED BY <2>6, <3>1, <3>2
  <2> QED BY <2>5, <2>7, <2>8
<1> HIDE DEF S
<1>14. \A m \in 0..n : f[m].capacity = Capacity /\ Origin(m)
  <2>1. Nat \subseteq S
    BY <1>12, <1>13, Climb
  <2>2. \A m \in 0..n : m \in S /\ m <= n
    BY <2>1
  <2> QED BY <2>2 DEF S
<1>15. ASSUME OneOfEach(items), ItemsTotal(items) <= Capacity PROVE Whole(n)
  <2>1. 0 \in T
    <3>1. f[0].size = t[0]
      <4>1. c.size = 0
        BY <1>2 DEF New
      <4> QED BY <1>5, <1>10, <4>1 DEF Totals
    <3> QED BY <3>1
  <2>2. ASSUME NEW m \in Nat, m \in T PROVE m + 1 \in T
    <3> SUFFICES ASSUME m + 1 <= n PROVE Whole(m + 1)
      OBVIOUS
    <3>1. m + 1 \in 1..n /\ m \in 0..n /\ (m + 1) - 1 = m /\ m <= n /\ n \in (m + 1)..n
      BY <1>1
    <3>2. PICK k \in Keys, v \in Values : k = items[m + 1].key /\ v = items[m + 1].value
      BY <1>6, <3>1
    <3>3. f[m + 1] = AfterSet(f[m], k, v) /\ Sound(f[m])
      BY <1>5, <3>1, <3>2
    <3>4. Whole(m) /\ f[m].capacity = Capacity /\ Origin(m)
      BY <1>14, <2>2, <3>1
    <3>5. k \notin f[m].table
      <4> SUFFICES ASSUME k \in f[m].table PROVE FALSE
        OBVIOUS
      <4>1. CacheList(f[m].list) /\ k \in KeysOf(f[m].list)
        BY <3>3, CountedFacts DEF Sound
      <4>2. PICK e \in Members(f[m].list) : e.key = k
        BY <4>1, MapOfList
      <4>3. PICK i \in 1..m : e = Entry(items[i].key, items[i].value)
        BY <3>4, <4>2
      <4>4. items[i].key = items[m + 1].key /\ i \in 1..n /\ i # m + 1
        BY <3>1, <3>2, <4>2, <4>3 DEF Entry
      <4> QED BY <1>1, <1>15, <3>1, <4>4 DEF OneOfEach
    <3>6. t[m + 1] = t[m] + SizeOf(v) /\ t[m] \in Nat /\ SizeOf(v) \in Nat /\ t[m + 1] <= t[n]
      <4>1. t[m + 1] = t[m] + sizes[m + 1] /\ t[m] \in Nat /\ sizes[m + 1] \in Nat
        BY <1>8, <1>10, <3>1, NextTotal
      <4>2. t[m + 1] <= t[n]
        <5>1. m + 1 \in 0..Len(sizes) /\ n \in (m + 1)..Len(sizes)
          BY <1>8, <3>1
        <5> QED BY <1>8, <1>10, <5>1, TotalsGrow
      <4> QED BY <1>8, <3>1, <3>2, <4>1, <4>2
    <3>7. SizeOf(v) + f[m].size <= f[m].capacity
      <4>1. t[m + 1] \in Nat /\ t[n] \in Nat /\ Capacity \in Nat /\ t[n] <= Capacity
        <5>1. m + 1 \in 0..n /\ n \in 0..n
          BY <3>1
        <5> QED BY <1>8, <1>10, <1>11, <1>15, <5>1, CacheAssumption DEF Totals
      <4> QED BY <3>4, <3>6, <4>1
    <3>8. SetDone(f[m], f[m + 1], k, v)
      BY <3>3, SetFacts
    <3>9. Members(f[m + 1].list) = {Entry(k, v)} \cup Members(f[m].list)
      BY <3>3, <3>5, <3>7, <3>8, SetCase
    <3>10. f[m + 1].size = SizeOf(v) + f[m].size
      BY <3>3, <3>5, <3>7, <3>8, SetCase
    <3>11. f[m + 1].size = t[m + 1]
      BY <3>4, <3>6, <3>10
    <3>12. ASSUME NEW i \in 1..(m + 1)
           PROVE  Entry(items[i].key, items[i].value) \in Members(f[m + 1].list)
      <4>1. CASE i = m + 1
        BY <3>2, <3>9, <4>1
      <4>2. CASE i # m + 1
        <5>1. i \in 1..m
          BY <4>2
        <5> QED BY <3>4, <3>9, <5>1
      <4> QED BY <4>1, <4>2
    <3> QED BY <3>11, <3>12
  <2> HIDE DEF T
  <2>3. n \in T
    BY <1>1, <2>1, <2>2, Climb
  <2> QED BY <1>1, <2>3 DEF T
<1>16. Sound(d) /\ Origin(n)
  <2>1. n \in 0..n
    BY <1>1
  <2>2. Origin(n)
    BY <1>14, <2>1
  <2> QED BY <1>4, <1>5, <2>1, <2>2
<1> QED BY <1>1, <1>4, <1>15, <1>16

(***************************************************************************)
(* The inductive invariant: the cache is sound, its list is in the order   *)
(* of use, and what is in the file, or on its way there, has each key      *)
(* once.  A save that has not copied anything yet holds nothing, and the   *)
(* file cannot be decoded while one is under way.                          *)
(***************************************************************************)
SavesAreLists ==
    /\ file \in ItemSeq \cup {NoValue} /\ (file # NoValue => OneOfEach(file))
    /\ saver \in [at : {"idle", "open", "write"}, items : ItemSeq] /\ OneOfEach(saver.items)
    /\ saver.at \in {"idle", "open"} => saver.items = <<>>
    /\ saver.at # "idle" => file = NoValue
    /\ restarts \in 0..MaxRestarts

InOrder == restarts = 0 => Recent(cache.list, used)

CacheInv == Sound(cache) /\ SavesAreLists /\ InOrder

LEMMA ItemsFacts ==
    ASSUME NEW c, Sound(c)
    PROVE  /\ Items(c) \in ItemSeq /\ OneOfEach(Items(c)) /\ MapOf(Items(c)) = MapOf(c.list)
           /\ ToSet(Items(c)) = {[key |-> e.key, value |-> e.value] : e \in Members(c.list)}
<1>1. PICK l, n, s : l = c.list /\ n = Len(l) /\ s = Items(c)
  OBVIOUS
<1>2. CacheList(l) /\ l \in Seq(Entries) /\ n \in Nat /\ DOMAIN l = 1..n
  BY <1>1, CountedFacts DEF Sound
<1>3. s = [i \in 1..n |-> [key |-> l[i].key, value |-> l[i].value]]
  BY <1>1, <1>2 DEF Items
<1>4. \A i \in 1..n : l[i].key \in Keys /\ l[i].value \in Values
  <2> SUFFICES ASSUME NEW i \in 1..n PROVE l[i].key \in Keys /\ l[i].value \in Values
    OBVIOUS
  <2>1. l[i] \in Entries
    BY <1>1, <1>2
  <2> QED BY <2>1, EntryFacts
<1>5. \A i \in 1..n : s[i].key = l[i].key /\ s[i].value = l[i].value
  BY <1>3
<1>6. s \in ItemSeq /\ DOMAIN s = 1..n /\ Len(s) = n
  <2>1. PICK R : R = [key : Keys, value : Values]
    OBVIOUS
  <2>2. \A i \in 1..n : [key |-> l[i].key, value |-> l[i].value] \in R
    BY <1>4, <2>1
  <2>3. s \in [1..n -> R]
    BY <1>3, <2>2
  <2>4. s \in Seq(R) /\ DOMAIN s = 1..n /\ Len(s) = n
    BY <1>2, <2>3
  <2> QED BY <2>1, <2>4 DEF ItemSeq
<1>7. OneOfEach(s)
  BY <1>1, <1>2, <1>5, <1>6 DEF OneOfEach, CacheList
<1>8. MapOf(s) = MapOf(l)
  <2>1. ASSUME NEW k \in Keys PROVE MapOf(s)[k] = MapOf(l)[k]
    <3>1. (\E i \in 1..n : s[i].key = k) <=> (\E i \in 1..n : l[i].key = k)
      BY <1>5
    <3>2. PICK j : j = CHOOSE i \in 1..n : s[i].key = k
      OBVIOUS
    <3>3. j = CHOOSE i \in 1..n : l[i].key = k
      <4>1. \A i \in 1..n : s[i].key = k <=> l[i].key = k
        BY <1>5
      <4>2. (CHOOSE i \in 1..n : s[i].key = k) = (CHOOSE i \in 1..n : l[i].key = k)
        BY <4>1
      <4> QED BY <3>2, <4>2
    <3>4. MapOf(s)[k] = IF \E i \in 1..n : s[i].key = k THEN s[j].value ELSE NoValue
      BY <1>6, <3>2 DEF MapOf
    <3>5. MapOf(l)[k] = IF \E i \in 1..n : l[i].key = k THEN l[j].value ELSE NoValue
      BY <1>2, <3>3 DEF MapOf
    <3>6. CASE \E i \in 1..n : l[i].key = k
      <4>1. j \in 1..n
        BY <3>3, <3>6
      <4>2. s[j].value = l[j].value
        BY <1>5, <4>1
      <4> QED BY <3>1, <3>4, <3>5, <3>6, <4>2
    <3>7. CASE ~\E i \in 1..n : l[i].key = k
      BY <3>1, <3>4, <3>5, <3>7
    <3> QED BY <3>6, <3>7
  <2>2. MapOf(s) = [k \in Keys |-> MapOf(s)[k]] /\ MapOf(l) = [k \in Keys |-> MapOf(l)[k]]
    BY DEF MapOf
  <2> QED BY <2>1, <2>2
<1>9. ToSet(s) = {[key |-> e.key, value |-> e.value] : e \in Members(l)}
  <2>1. ToSet(s) = {[key |-> l[i].key, value |-> l[i].value] : i \in 1..n}
    BY <1>3, <1>6 DEF ToSet
  <2> QED BY <1>1, <2>1 DEF Members
<1> QED BY <1>1, <1>6, <1>7, <1>8, <1>9

LEMMA NothingSaved ==
    /\ <<>> \in ItemSeq /\ OneOfEach(<<>>) /\ MapOf(<<>>) = [k \in Keys |-> NoValue]
    /\ Idle = [at |-> "idle", items |-> <<>>]
<1>1. <<>> \in ItemSeq /\ OneOfEach(<<>>)
  BY DEF ItemSeq, OneOfEach
<1>2. MapOf(<<>>) = [k \in Keys |-> NoValue]
  BY DEF MapOf
<1> QED BY <1>1, <1>2 DEF Idle

LEMMA CacheStarts == CacheInit => CacheInv
<1> SUFFICES ASSUME CacheInit PROVE CacheInv
  OBVIOUS
<1>1. Capacity \in Limits
  BY DEF Limits
<1>2. Sound(cache) /\ cache.list = <<>>
  BY <1>1, NewFacts DEF CacheInit
<1>3. SavesAreLists
  BY NothingSaved, CacheAssumption DEF CacheInit, SavesAreLists
<1>4. InOrder
  BY <1>2 DEF InOrder, Recent
<1> QED BY <1>2, <1>3, <1>4 DEF CacheInv

\* what the steps on the cache leave alone
LEMMA OperateKeeps ==
    ASSUME NEW c, NEW e, SavesAreLists, Operate(c, e)
    PROVE  SavesAreLists' /\ cache' = c
BY DEF SavesAreLists, Operate, OneOfEach

LEMMA UseIsTouch ==
    ASSUME NEW k, Use(k), restarts = 0
    PROVE  used' = Touched(used, k)
BY DEF Use, Touched

LEMMA CacheSteps == CacheInv /\ [CacheNext]_cacheVars => CacheInv'
<1> SUFFICES ASSUME CacheInv, [CacheNext]_cacheVars PROVE CacheInv'
  OBVIOUS
<1>1. Sound(cache) /\ Counted(cache) /\ CacheList(cache.list) /\ SavesAreLists /\ InOrder
      /\ cache.table \subseteq Keys /\ cache.capacity \in Limits
  <2>1. Sound(cache) /\ Counted(cache) /\ SavesAreLists /\ InOrder
    BY DEF CacheInv, Sound
  <2> QED BY <2>1, CountedFacts
<1>2. ASSUME NEW k \in Keys, Get(k) PROVE CacheInv'
  <2>1. CASE ~Hit(cache, k)
    <3>1. Operate(cache, <<"get", k, NoValue>>) /\ NoUse
      BY <1>2, <2>1 DEF Get
    <3>2. SavesAreLists' /\ cache' = cache
      BY <1>1, <3>1, OperateKeeps
    <3>3. InOrder'
      BY <1>1, <3>1, <3>2 DEF InOrder, NoUse, Operate
    <3> QED BY <1>1, <3>2, <3>3 DEF CacheInv
  <2>2. CASE Hit(cache, k)
    <3>1. /\ Operate(AfterGet(cache, k), <<"get", k, ValueOf(cache, k)>>) /\ Use(k)
          /\ AfterGet(cache, k) = MoveToFront(cache, k) /\ k \in cache.table
      BY <1>2, <2>2 DEF Get, AfterGet, Hit
    <3>2. SavesAreLists' /\ cache' = MoveToFront(cache, k)
      BY <1>1, <3>1, OperateKeeps
    <3>3. Sound(cache')
      BY <1>1, <3>1, <3>2, MoveCase
    <3>4. \A u : Recent(cache.list, u) => Recent(cache'.list, Touched(u, k))
      BY <1>1, <3>1, <3>2, MoveCase
    <3>5. InOrder'
      BY <1>1, <3>1, <3>4, UseIsTouch DEF InOrder, Operate
    <3> QED BY <3>2, <3>3, <3>5 DEF CacheInv
  <2> QED BY <2>1, <2>2
<1>3. ASSUME NEW k \in Keys, Delete(k) PROVE CacheInv'
  <2>1. Operate(AfterDelete(cache, k), Quiet) /\ NoUse
    BY <1>3 DEF Delete
  <2>2. SavesAreLists' /\ cache' = AfterDelete(cache, k)
    BY <1>1, <2>1, OperateKeeps
  <2>3. Sound(cache') /\ cache'.list = Rest(cache, k)
    BY <1>1, <2>2, DeleteFacts
  <2>4. \A u : Recent(cache.list, u) => Recent(cache'.list, u)
    BY <1>1, <2>3, RestFacts
  <2>5. InOrder'
    BY <1>1, <2>1, <2>4 DEF InOrder, NoUse, Operate
  <2> QED BY <2>2, <2>3, <2>5 DEF CacheInv
<1>4. ASSUME NEW k \in Keys, NEW v \in Values, SetDone(cache, cache', k, v), Use(k),
             SavesAreLists', UNCHANGED restarts
      PROVE  CacheInv'
  <2>1. Sound(cache')
    BY <1>1, <1>4, SetCase
  <2>2. \A u : Recent(cache.list, u) => Recent(cache'.list, Touched(u, k))
    BY <1>1, <1>4, SetCase
  <2>3. InOrder'
    BY <1>1, <1>4, <2>2, UseIsTouch DEF InOrder
  <2> QED BY <1>4, <2>1, <2>3 DEF CacheInv
<1>5. ASSUME NEW k \in Keys, NEW v \in Values, Set(k, v) PROVE CacheInv'
  <2>1. Operate(AfterSet(cache, k, v), <<"set", k, v>>) /\ Use(k)
    BY <1>5 DEF Set
  <2>2. SavesAreLists' /\ cache' = AfterSet(cache, k, v)
    BY <1>1, <2>1, OperateKeeps
  <2>3. SetDone(cache, cache', k, v)
    BY <1>1, <2>2, SetFacts
  <2>4. UNCHANGED restarts
    BY <2>1 DEF Operate
  <2> QED BY <1>4, <2>1, <2>2, <2>3, <2>4
<1>6. ASSUME NEW k \in Keys, NEW v \in Values, SetIfAbsent(k, v) PROVE CacheInv'
  <2>1. Operate(AfterSetIfAbsent(cache, k, v), Quiet) /\ Use(k)
    BY <1>6 DEF SetIfAbsent
  <2>2. SavesAreLists' /\ cache' = AfterSetIfAbsent(cache, k, v)
    BY <1>1, <2>1, OperateKeeps
  <2>3. UNCHANGED restarts
    BY <2>1 DEF Operate
  <2>4. CASE ~Hit(cache, k)
    <3>1. SetDone(cache, cache', k, v)
      BY <1>1, <2>2, <2>4, SetFacts
    <3> QED BY <1>4, <2>1, <2>2, <2>3, <3>1
  <2>5. CASE Hit(cache, k)
    <3>1. k \in cache.table /\ cache' = MoveToFront(cache, k)
      BY <2>2, <2>5 DEF AfterSetIfAbsent, Hit
    <3>2. Sound(cache')
      BY <1>1, <3>1, MoveCase
    <3>3. \A u : Recent(cache.list, u) => Recent(cache'.list, Touched(u, k))
      BY <1>1, <3>1, MoveCase
    <3>4. InOrder'
      BY <1>1, <2>1, <2>3, <3>3, UseIsTouch DEF InOrder
    <3> QED BY <2>2, <3>2, <3>4 DEF CacheInv
  <2> QED BY <2>4, <2>5
<1>7. CASE Clear
  <2>1. Operate(New(cache.capacity), Quiet)
    BY <1>7 DEF Clear, AfterClear
  <2>2. SavesAreLists' /\ cache' = New(cache.capacity)
    BY <1>1, <2>1, OperateKeeps
  <2>3. Sound(cache') /\ cache'.list = <<>>
    BY <1>1, <2>2, NewFacts
  <2>4. InOrder'
    BY <2>3 DEF InOrder, Recent
  <2> QED BY <2>2, <2>3, <2>4 DEF CacheInv
<1>8. ASSUME NEW n \in Capacities, SetCapacity(n) PROVE CacheInv'
  <2>1. Operate(AfterSetCapacity(cache, n), Quiet) /\ NoUse
    BY <1>8 DEF SetCapacity
  <2>2. SavesAreLists' /\ cache' = AfterSetCapacity(cache, n) /\ n \in Limits
    BY <1>1, <2>1, OperateKeeps DEF Limits
  <2>3. Sound(cache')
    BY <1>1, <2>2, SetCapacityFacts
  <2>4. PICK m \in 0..Len(cache.list) : cache'.list = SubSeq(cache.list, 1, m)
    BY <1>1, <2>2, SetCapacityFacts
  <2>5. UNCHANGED restarts /\ UNCHANGED used
    BY <2>1 DEF Operate, NoUse
  <2>6. \A u : Recent(cache.list, u) => Recent(cache'.list, u)
    BY <1>1, <2>4, RecentPart
  <2>7. InOrder'
    BY <1>1, <2>5, <2>6 DEF InOrder
  <2> QED BY <2>2, <2>3, <2>7 DEF CacheInv
<1>9. ASSUME UNCHANGED <<cache, used, restarts>>, SavesAreLists' PROVE CacheInv'
  BY <1>1, <1>9 DEF CacheInv, InOrder
<1>10. CASE OpenFile
  <2>1. /\ saver' = [saver EXCEPT !.at = "open"] /\ file' = NoValue /\ saver.at = "idle"
        /\ UNCHANGED <<cache, used, restarts>>
    BY <1>10 DEF OpenFile
  <2>2. SavesAreLists'
    BY <1>1, <2>1 DEF SavesAreLists
  <2> QED BY <1>9, <2>1, <2>2
<1>11. CASE CopyItems
  <2>1. Items(cache) \in ItemSeq /\ OneOfEach(Items(cache))
    BY <1>1, ItemsFacts
  <2>2. saver' = [at |-> "write", items |-> Items(cache)]
    BY <1>11 DEF CopyItems
  <2>3. file' = file /\ restarts' = restarts /\ saver.at = "open" /\ UNCHANGED <<cache, used, restarts>>
    BY <1>11 DEF CopyItems
  <2>4. SavesAreLists'
    BY <1>1, <2>1, <2>2, <2>3 DEF SavesAreLists
  <2> QED BY <1>9, <2>3, <2>4
<1>12. CASE WriteFile
  <2>1. /\ saver' = [at |-> "idle", items |-> <<>>] /\ (file' = saver.items \/ file' = file)
        /\ UNCHANGED <<cache, used, restarts>>
    BY <1>12, NothingSaved DEF WriteFile
  <2>2. SavesAreLists'
    BY <1>1, <2>1, NothingSaved DEF SavesAreLists
  <2> QED BY <1>9, <2>1, <2>2
<1>13. CASE Restart
  <2>1. /\ cache' = Loaded /\ saver' = [at |-> "idle", items |-> <<>>] /\ file' = file
        /\ restarts' = restarts + 1 /\ restarts < MaxRestarts
    BY <1>13, NothingSaved DEF Restart
  <2>2. restarts' \in 0..MaxRestarts /\ restarts' # 0
    BY <1>1, <2>1, CacheAssumption DEF SavesAreLists
  <2>3. SavesAreLists'
    BY <1>1, <2>1, <2>2, NothingSaved DEF SavesAreLists
  <2>4. Sound(cache')
    <3>1. CASE file = NoValue
      <4>1. Capacity \in Limits
        BY DEF Limits
      <4> QED BY <2>1, <3>1, <4>1, NewFacts DEF Loaded
    <3>2. CASE file # NoValue
      <4>1. file \in ItemSeq /\ cache' = LoadItems(New(Capacity), file)
        BY <1>1, <2>1, <3>2 DEF Loaded, SavesAreLists
      <4> QED BY <4>1, LoadFacts
    <3> QED BY <3>1, <3>2
  <2>5. InOrder'
    BY <2>2 DEF InOrder
  <2> QED BY <2>3, <2>4, <2>5 DEF CacheInv
<1>14. CASE UNCHANGED cacheVars
  BY <1>1, <1>14 DEF CacheInv, SavesAreLists, InOrder, cacheVars, OneOfEach
<1> QED BY <1>2, <1>3, <1>5, <1>6, <1>7, <1>8, <1>10, <1>11, <1>12, <1>13, <1>14 DEF CacheNext


LEMMA CacheInductive == CacheSpec => []CacheInv
<1> QED BY CacheStarts, CacheSteps, PTL DEF CacheSpec

LEMMA OnlySound == CacheInv => Sound(cache)
BY DEF CacheInv

\* The size of an entry, and of the whole, is one an uint64 holds.
LEMMA SizesAreSmall ==
    ASSUME NEW c, Sound(c), NEW i \in 1..Len(c.list)
    PROVE  c.list[i] \in [key : Keys, value : Values, size : 0..Word - 1]
<1>1. PICK l, r, e : l = c.list /\ r = RemoveAt(l, i) /\ e = l[i]
  OBVIOUS
<1>2. CacheList(l) /\ l \in Seq(Entries) /\ c.size = TotalOf(l) /\ c.size <= c.capacity
  BY <1>1, CountedFacts DEF Sound, Counted
<1>3. e \in Entries
  BY <1>1, <1>2, ElementOfSeq
<1>4. TotalOf(l) = TotalOf(r) + e.size /\ CacheList(r)
  BY <1>1, <1>2, CutFacts
<1>5. TotalOf(r) \in Nat /\ TotalOf(l) \in Nat
  BY <1>2, <1>4, SizesFacts DEF CacheList
<1>6. e.key \in Keys /\ e.value \in Values /\ e.size \in Nat /\ e = Entry(e.key, e.value)
      /\ e.size = SizeOf(e.value)
  BY <1>3, EntryFacts
<1>7. c.capacity \in Limits
  BY CountedFacts DEF Sound
<1>8. c.capacity \in Nat /\ c.capacity < Word /\ Word \in Nat
  BY <1>7, LimitFacts
<1>9. e.size \in 0..Word - 1
  BY <1>2, <1>4, <1>5, <1>6, <1>8
<1>10. e = [key |-> e.key, value |-> e.value, size |-> e.size]
  BY <1>6 DEF Entry
<1> QED BY <1>1, <1>6, <1>9, <1>10

(***************************************************************************)
(* addNew, Delete and checkCapacity (cache/lru.go) keep the list and the   *)
(* table together, each key once, and what is saved stays a list of items. *)
(***************************************************************************)
THEOREM CacheTyped == CacheSpec => []CacheTypeOK
<1>1. CacheInv => CacheTypeOK
  <2> SUFFICES ASSUME CacheInv PROVE CacheTypeOK
    OBVIOUS
  <2>1. Sound(cache) /\ SavesAreLists
    BY DEF CacheInv
  <2>2. CacheList(cache.list) /\ cache.list \in Seq(Entries) /\ cache.table = KeysOf(cache.list)
    BY <2>1, CountedFacts DEF Sound, Counted
  <2>3. DOMAIN cache.list = 1..Len(cache.list)
    BY <2>2
  <2>4. \A i \in DOMAIN cache.list :
           cache.list[i] \in [key : Keys, value : Values, size : 0..Word - 1]
    BY <2>1, <2>3, SizesAreSmall
  <2>5. \A i, j \in DOMAIN cache.list : cache.list[i].key = cache.list[j].key => i = j
    BY <2>2, <2>3 DEF CacheList
  <2>6. cache.table = {cache.list[i].key : i \in DOMAIN cache.list}
    BY <2>2, <2>3 DEF KeysOf
  <2>7. /\ file \in ItemSeq \cup {NoValue}
        /\ saver \in [at : {"idle", "open", "write"}, items : ItemSeq]
        /\ restarts \in 0..MaxRestarts
    BY <2>1 DEF SavesAreLists
  <2> QED BY <2>4, <2>5, <2>6, <2>7 DEF CacheTypeOK
<1> QED BY <1>1, CacheInductive, PTL

(***************************************************************************)
(* lru.size, which addNew, updateInplace, Delete and checkCapacity         *)
(* (cache/lru.go) change in unsigned arithmetic, is the sum of what the    *)
(* list holds, and that sum is within the capacity.                        *)
(***************************************************************************)
THEOREM SizeStaysExact == CacheSpec => []SizeIsExact
<1>1. CacheInv => SizeIsExact
  <2> SUFFICES ASSUME CacheInv PROVE SizeIsExact
    OBVIOUS
  <2>1. cache.size = TotalOf(cache.list) /\ cache.size <= cache.capacity
    BY OnlySound DEF Sound, Counted
  <2>2. Total(cache) = TotalOf(cache.list)
    BY DEF Total, TotalOf
  <2> QED BY <2>1, <2>2 DEF SizeIsExact
<1> QED BY <1>1, CacheInductive, PTL

(***************************************************************************)
(* What is dropped for want of space, step by step.                        *)
(***************************************************************************)
LEMMA SetDrops ==
    ASSUME CacheInv, NEW k \in Keys, NEW v \in Values, SetDone(cache, cache', k, v), Use(k),
           restarts = 0
    PROVE  \A x \in cache'.table, y \in Dropped : <<x, y>> \in used'
<1>1. Sound(cache) /\ Recent(cache.list, used)
  BY OnlySound DEF CacheInv, InOrder
<1>2. \A x \in cache'.table, y \in cache.table \ cache'.table : <<x, y>> \in Touched(used, k)
  BY <1>1, SetCase
<1> QED BY <1>2, UseIsTouch DEF Dropped

LEMMA StepEvicts ==
    ASSUME CacheInv, CacheNext, restarts' = 0, ~\E k \in Keys : Delete(k)
    PROVE  \A x \in cache'.table, y \in Dropped : <<x, y>> \in used'
<1> DEFINE Ordered == \A x \in cache'.table, y \in Dropped : <<x, y>> \in used'
<1>1. /\ Sound(cache) /\ SavesAreLists /\ CacheList(cache.list)
      /\ cache.table = KeysOf(cache.list) /\ cache.capacity \in Limits
  <2>1. Sound(cache) /\ SavesAreLists
    BY DEF CacheInv
  <2>2. cache.table = KeysOf(cache.list)
    BY <2>1 DEF Sound, Counted
  <2> QED BY <2>1, <2>2, CountedFacts DEF Sound
<1>2. ASSUME cache'.table = cache.table PROVE Ordered
  BY <1>2 DEF Dropped
<1>3. ASSUME NEW k \in Keys, Get(k) PROVE Ordered
  <2>1. CASE ~Hit(cache, k)
    <3>1. cache' = cache
      BY <1>3, <2>1 DEF Get, Operate
    <3> QED BY <1>2, <3>1
  <2>2. CASE Hit(cache, k)
    <3>1. k \in cache.table /\ cache' = MoveToFront(cache, k)
      BY <1>3, <2>2 DEF Get, AfterGet, Hit, Operate
    <3>2. cache'.table = cache.table
      BY <1>1, <3>1, MoveCase
    <3> QED BY <1>2, <3>2
  <2> QED BY <2>1, <2>2
<1>4. ASSUME NEW k \in Keys, NEW v \in Values, Set(k, v) PROVE Ordered
  <2>1. Use(k) /\ cache' = AfterSet(cache, k, v) /\ restarts = 0
    BY <1>4 DEF Set, Operate
  <2>2. SetDone(cache, cache', k, v)
    BY <1>1, <2>1, SetFacts
  <2> QED BY <2>1, <2>2, SetDrops
<1>5. ASSUME NEW k \in Keys, NEW v \in Values, SetIfAbsent(k, v) PROVE Ordered
  <2>1. Use(k) /\ cache' = AfterSetIfAbsent(cache, k, v) /\ restarts = 0
    BY <1>5 DEF SetIfAbsent, Operate
  <2>2. CASE ~Hit(cache, k)
    <3>1. SetDone(cache, cache', k, v)
      BY <1>1, <2>1, <2>2, SetFacts
    <3> QED BY <2>1, <3>1, SetDrops
  <2>3. CASE Hit(cache, k)
    <3>1. k \in cache.table /\ cache' = MoveToFront(cache, k)
      BY <2>1, <2>3 DEF AfterSetIfAbsent, Hit
    <3>2. cache'.table = cache.table
      BY <1>1, <3>1, MoveCase
    <3> QED BY <1>2, <3>2
  <2> QED BY <2>2, <2>3
<1>6. CASE Clear
  <2>1. cache' = New(cache.capacity)
    BY <1>6 DEF Clear, AfterClear, Operate
  <2>2. cache'.table = {}
    BY <2>1 DEF New
  <2> QED BY <2>2
<1>7. ASSUME NEW n \in Capacities, SetCapacity(n) PROVE Ordered
  <2>1. cache' = AfterSetCapacity(cache, n) /\ restarts = 0 /\ used' = used /\ n \in Limits
    BY <1>7 DEF SetCapacity, Operate, NoUse, Limits
  <2>2. Sound(cache')
    BY <1>1, <2>1, SetCapacityFacts
  <2>3. PICK m \in 0..Len(cache.list) : cache'.list = SubSeq(cache.list, 1, m)
    BY <1>1, <2>1, SetCapacityFacts
  <2>4. cache'.table = KeysOf(cache'.list)
    BY <2>2 DEF Sound, Counted
  <2>5. Recent(cache.list, used)
    BY <2>1 DEF CacheInv, InOrder
  <2>6. \A x \in KeysOf(cache'.list), y \in KeysOf(cache.list) \ KeysOf(cache'.list) : <<x, y>> \in used
    BY <1>1, <2>3, <2>5, RecentPart
  <2> QED BY <1>1, <2>1, <2>4, <2>6 DEF Dropped
<1>8. CASE OpenFile \/ CopyItems \/ WriteFile
  <2>1. cache' = cache
    BY <1>8 DEF OpenFile, CopyItems, WriteFile
  <2> QED BY <1>2, <2>1
<1>9. ~Restart
  <2> SUFFICES ASSUME Restart PROVE FALSE
    OBVIOUS
  <2>1. restarts' = restarts + 1 /\ restarts \in 0..MaxRestarts
    BY <1>1 DEF Restart, SavesAreLists
  <2> QED BY <2>1, CacheAssumption
<1> QED BY <1>3, <1>4, <1>5, <1>6, <1>7, <1>8, <1>9 DEF CacheNext

(***************************************************************************)
(* checkCapacity takes entries from the back of the list, addNew and       *)
(* moveToFront put them at its front: until the first restart, what is     *)
(* dropped was used before everything that stays (cache/lru.go:8, 236).    *)
(***************************************************************************)
THEOREM LeastRecentlyUsedGoesFirst == CacheSpec => EvictsLeastRecentlyUsed
<1>1. CacheInv /\ [CacheNext]_cacheVars
      => [\/ \E k \in Keys : Delete(k)
          \/ restarts' > 0
          \/ \A k \in cache'.table, l \in Dropped : <<k, l>> \in used']_cacheVars
  <2> SUFFICES ASSUME CacheInv, CacheNext, ~(restarts' > 0), ~\E k \in Keys : Delete(k)
               PROVE  \A k \in cache'.table, l \in Dropped : <<k, l>> \in used'
    OBVIOUS
  <2>1. SavesAreLists'
    BY CacheSteps DEF CacheInv
  <2>2. restarts' = 0
    BY <2>1, CacheAssumption DEF SavesAreLists
  <2> QED BY <2>2, StepEvicts
<1> QED BY <1>1, CacheInductive, PTL DEF CacheSpec, EvictsLeastRecentlyUsed

(***************************************************************************)
(* NewTunnelRegistry (server/registry.go:48) sets every item of the file   *)
(* in the new cache: if they fit together, none is dropped on the way.     *)
(***************************************************************************)
THEOREM RestartBringsBackTheSave == CacheSpec => RestartRestoresTheSave
<1>1. ASSUME CacheInv, CacheNext, Restart, file # NoValue, ItemsTotal(file) <= Capacity
      PROVE  ToSet(Items(cache')) = ToSet(file)
  <2>1. /\ cache' = LoadItems(New(Capacity), file) /\ file \in ItemSeq /\ OneOfEach(file)
    BY <1>1 DEF Restart, Loaded, CacheInv, SavesAreLists
  <2>2. Sound(cache')
    BY <2>1, LoadFacts
  <2>3. \A e \in Members(cache'.list) :
           \E i \in 1..Len(file) : e = Entry(file[i].key, file[i].value)
    BY <2>1, LoadFacts
  <2>4. \A i \in 1..Len(file) : Entry(file[i].key, file[i].value) \in Members(cache'.list)
    BY <1>1, <2>1, LoadFacts
  <2>5. ToSet(Items(cache')) = {[key |-> e.key, value |-> e.value] : e \in Members(cache'.list)}
    BY <2>2, ItemsFacts
  <2>6. PICK n \in Nat : n = Len(file) /\ DOMAIN file = 1..n
    BY <2>1 DEF ItemSeq
  <2>7. \A i \in 1..n : file[i] = [key |-> file[i].key, value |-> file[i].value]
    <3> SUFFICES ASSUME NEW i \in 1..n PROVE file[i] = [key |-> file[i].key, value |-> file[i].value]
      OBVIOUS
    <3>1. file[i] \in [key : Keys, value : Values]
      BY <2>1, <2>6, ElementOfSeq DEF ItemSeq
    <3> QED BY <3>1
  <2>8. ToSet(file) = {file[i] : i \in 1..n}
    BY <2>6 DEF ToSet
  <2>9. \A x : x \in ToSet(file) <=> \E e \in Members(cache'.list) : x = [key |-> e.key, value |-> e.value]
    <3>1. ASSUME NEW x \in ToSet(file)
          PROVE  \E e \in Members(cache'.list) : x = [key |-> e.key, value |-> e.value]
      <4>1. PICK i \in 1..n : x = file[i]
        BY <2>8
      <4>2. PICK e \in Members(cache'.list) : e = Entry(file[i].key, file[i].value)
        BY <2>4, <2>6
      <4>3. e.key = file[i].key /\ e.value = file[i].value
        BY <4>2 DEF Entry
      <4>4. x = [key |-> e.key, value |-> e.value]
        BY <2>7, <4>1, <4>3
      <4> QED BY <4>4
    <3>2. ASSUME NEW e \in Members(cache'.list)
          PROVE  [key |-> e.key, value |-> e.value] \in ToSet(file)
      <4>1. PICK i \in 1..n : e = Entry(file[i].key, file[i].value)
        BY <2>3, <2>6
      <4>2. e.key = file[i].key /\ e.value = file[i].value
        BY <4>1 DEF Entry
      <4>3. file[i] = [key |-> e.key, value |-> e.value]
        BY <2>7, <4>2
      <4> QED BY <2>8, <4>3
    <3> QED BY <3>1, <3>2
  <2> QED BY <2>5, <2>9
<1>2. CacheInv /\ [CacheNext]_cacheVars
      => [Restart /\ file # NoValue /\ ItemsTotal(file) <= Capacity
             => ToSet(Items(cache')) = ToSet(file)]_cacheVars
  BY <1>1
<1> QED BY <1>2, CacheInductive, PTL DEF CacheSpec, RestartRestoresTheSave

(***************************************************************************)
(* The refinement: what the cache, the save and the file say of each key.  *)
(***************************************************************************)
SaidNow   == MapOf(cache.list)
SaidTaken == MapOf(saver.items)
SaidSaved == IF file = NoValue THEN MapOf(<<>>) ELSE MapOf(file)

LEMMA ForgetsSome ==
    ASSUME Sound(cache'), NEW m, \A j \in Keys : SaidNow'[j] \in {m[j], NoValue}
    PROVE  SaidNow' \in CachePromise!Forgotten(m)
<1>1. CacheList(cache'.list) /\ SaidNow' = MapOf(cache'.list)
  BY DEF Sound, Counted, SaidNow
<1>2. SaidNow' \in [Keys -> Values \cup {NoValue}]
  BY <1>1, MapOfList
<1> QED BY <1>2 DEF CachePromise!Forgotten

\* an entry that is left says of its key what the whole list says
LEMMA SaidByAnEntry ==
    ASSUME NEW l, CacheList(l), NEW j \in Keys, MapOf(l)[j] # NoValue
    PROVE  \E x \in Members(l) : x.key = j /\ MapOf(l)[j] = x.value
<1>1. PICK x \in Members(l) : x.key = j
  BY MapOfList
<1>2. MapOf(l)[x.key] = x.value
  BY MapOfList
<1> QED BY <1>1, <1>2

LEMMA FewerIsForgotten ==
    ASSUME Sound(cache), Sound(cache'), Members(cache'.list) \subseteq Members(cache.list)
    PROVE  SaidNow' \in CachePromise!Forgotten(SaidNow)
<1>1. CacheList(cache.list) /\ CacheList(cache'.list)
      /\ SaidNow = MapOf(cache.list) /\ SaidNow' = MapOf(cache'.list)
  BY DEF Sound, Counted, SaidNow
<1>2. \A j \in Keys : SaidNow'[j] \in {SaidNow[j], NoValue}
  BY <1>1, FewerSayLess
<1> QED BY <1>2, ForgetsSome

LEMMA SameEntriesSaySame ==
    ASSUME Sound(cache), Sound(cache'), Members(cache'.list) = Members(cache.list)
    PROVE  SaidNow' = SaidNow
<1>1. CacheList(cache.list) /\ CacheList(cache'.list)
      /\ SaidNow = MapOf(cache.list) /\ SaidNow' = MapOf(cache'.list)
  BY DEF Sound, Counted, SaidNow
<1>2. \A j \in Keys : SaidNow'[j] \in {SaidNow[j], NoValue}
  BY <1>1, FewerSayLess
<1>3. \A j \in Keys : SaidNow[j] \in {SaidNow'[j], NoValue}
  BY <1>1, FewerSayLess
<1>4. \A j \in Keys : SaidNow'[j] = SaidNow[j]
  BY <1>2, <1>3
<1>5. SaidNow \in [Keys -> Values \cup {NoValue}] /\ SaidNow' \in [Keys -> Values \cup {NoValue}]
  BY <1>1, MapOfList
<1> QED BY <1>4, <1>5

LEMMA SetSays ==
    ASSUME Sound(cache), NEW k \in Keys, NEW v \in Values, SetDone(cache, cache', k, v)
    PROVE  SaidNow' \in CachePromise!Forgotten([SaidNow EXCEPT ![k] = v])
<1>1. CacheList(cache.list) /\ SaidNow = MapOf(cache.list) /\ SaidNow' = MapOf(cache'.list)
  BY DEF Sound, Counted, SaidNow
<1>2. Sound(cache')
      /\ \A x \in Members(cache'.list) : x = Entry(k, v) \/ (x \in Members(cache.list) /\ x.key # k)
  BY SetCase
<1>3. CacheList(cache'.list)
  BY <1>2 DEF Sound, Counted
<1>4. PICK m : m = [SaidNow EXCEPT ![k] = v]
  OBVIOUS
<1>5. m[k] = v /\ \A j \in Keys : j # k => m[j] = SaidNow[j]
  <2>1. SaidNow \in [Keys -> Values \cup {NoValue}]
    BY <1>1, MapOfList
  <2> QED BY <1>4, <2>1
<1>6. ASSUME NEW j \in Keys, SaidNow'[j] # NoValue PROVE SaidNow'[j] = m[j]
  <2>1. PICK x \in Members(cache'.list) : x.key = j /\ SaidNow'[j] = x.value
    BY <1>1, <1>3, <1>6, SaidByAnEntry
  <2>2. CASE x = Entry(k, v)
    <3>1. x.key = k /\ x.value = v
      BY <2>2 DEF Entry
    <3> QED BY <1>5, <2>1, <3>1
  <2>3. CASE x \in Members(cache.list) /\ x.key # k
    <3>1. MapOf(cache.list)[x.key] = x.value
      BY <1>1, <2>3, MapOfList
    <3> QED BY <1>1, <1>5, <2>1, <2>3, <3>1
  <2> QED BY <1>2, <2>2, <2>3
<1> QED BY <1>2, <1>4, <1>6, ForgetsSome

\* a key is in the table if something is said of it, and Get says just that
LEMMA HitSays ==
    ASSUME Sound(cache), NEW k \in Keys
    PROVE  /\ Hit(cache, k) <=> SaidNow[k] # NoValue
           /\ Hit(cache, k) => ValueOf(cache, k) = SaidNow[k]
<1>1. CacheList(cache.list) /\ SaidNow = MapOf(cache.list) /\ cache.table = KeysOf(cache.list)
  BY DEF Sound, Counted, SaidNow
<1>2. Hit(cache, k) <=> k \in KeysOf(cache.list)
  BY <1>1 DEF Hit
<1>3. k \in KeysOf(cache.list) <=> MapOf(cache.list)[k] # NoValue
  BY <1>1, MapOfList
<1>4. DOMAIN cache.list = 1..Len(cache.list)
  BY <1>1 DEF CacheList
<1>5. ASSUME Hit(cache, k) PROVE ValueOf(cache, k) = SaidNow[k]
  <2>1. \E i \in DOMAIN cache.list : cache.list[i].key = k
    BY <1>2, <1>4, <1>5 DEF KeysOf
  <2> QED BY <1>1, <2>1 DEF ValueOf, Element, MapOf
<1> QED BY <1>1, <1>2, <1>3, <1>5

LEMMA UseSaysNothing ==
    ASSUME Sound(cache), NEW k \in Keys, Hit(cache, k), cache' = MoveToFront(cache, k)
    PROVE  SaidNow' = SaidNow
<1>1. k \in cache.table
  BY DEF Hit
<1>2. Sound(cache')
  BY <1>1, MoveCase
<1>3. Members(cache'.list) = Members(cache.list)
  BY <1>1, MoveCase
<1> QED BY <1>2, <1>3, SameEntriesSaySame

LEMMA LoadSays ==
    ASSUME file \in ItemSeq, OneOfEach(file), cache' = LoadItems(New(Capacity), file)
    PROVE  SaidNow' \in CachePromise!Forgotten(MapOf(file))
<1>1. Sound(cache')
  BY LoadFacts
<1>2. \A e \in Members(cache'.list) : \E i \in 1..Len(file) : e = Entry(file[i].key, file[i].value)
  BY LoadFacts
<1>3. CacheList(cache'.list) /\ SaidNow' = MapOf(cache'.list)
  BY <1>1 DEF Sound, Counted, SaidNow
<1>4. \A i \in 1..Len(file) : MapOf(file)[file[i].key] = file[i].value
  <2>1. PICK R : R = [key : Keys, value : Values]
    OBVIOUS
  <2>2. \A x \in R : x.key \in Keys /\ x.value \in Values
    BY <2>1
  <2>3. file \in Seq(R)
    BY <2>1 DEF ItemSeq
  <2> QED BY <2>2, <2>3, MapFacts
<1>5. ASSUME NEW j \in Keys, SaidNow'[j] # NoValue PROVE SaidNow'[j] = MapOf(file)[j]
  <2>1. PICK x \in Members(cache'.list) : x.key = j /\ SaidNow'[j] = x.value
    BY <1>3, <1>5, SaidByAnEntry
  <2>2. PICK i \in 1..Len(file) : x = Entry(file[i].key, file[i].value)
    BY <1>2
  <2>3. x.key = file[i].key /\ x.value = file[i].value
    BY <2>2 DEF Entry
  <2> QED BY <1>4, <2>1, <2>3
<1> QED BY <1>1, <1>5, ForgetsSome

\* Every step of the cache, of a save and of a restart is a step of CacheMap.
LEMMA StepKeepsPromise ==
    ASSUME CacheInv, CacheNext
    PROVE  CachePromise!Next \/ UNCHANGED <<event, SaidNow, SaidTaken, SaidSaved>>
<1> DEFINE Goal == CachePromise!Next \/ UNCHANGED <<event, SaidNow, SaidTaken, SaidSaved>>
<1>1. /\ Sound(cache) /\ SavesAreLists /\ CacheList(cache.list) /\ cache.capacity \in Limits
  <2>1. Sound(cache) /\ SavesAreLists
    BY DEF CacheInv
  <2> QED BY <2>1, CountedFacts DEF Sound
<1>2. CacheInv' /\ Sound(cache')
  <2>1. CacheInv'
    BY CacheSteps
  <2> QED BY <2>1 DEF CacheInv
<1>3. ASSUME NEW c, NEW e, Operate(c, e)
      PROVE  event' = e /\ cache' = c /\ UNCHANGED <<SaidTaken, SaidSaved>>
  BY <1>3 DEF Operate, SaidTaken, SaidSaved
<1>4. ASSUME event' = Quiet, SaidNow' \in CachePromise!Forgotten(SaidNow), UNCHANGED <<SaidTaken, SaidSaved>>
      PROVE  Goal
  <2>1. CachePromise!Forget
    BY <1>4 DEF CachePromise!Forget, CachePromise!Quiet, Quiet, SaidNow, SaidTaken, SaidSaved
  <2> QED BY <2>1 DEF CachePromise!Next
<1>5. ASSUME NEW k \in Keys, Get(k) PROVE Goal
  <2>1. event' = <<"get", k, SaidNow[k]>> /\ UNCHANGED <<SaidNow, SaidTaken, SaidSaved>>
    <3>1. CASE ~Hit(cache, k)
      <4>1. Operate(cache, <<"get", k, NoValue>>)
        BY <1>5, <3>1 DEF Get
      <4>2. event' = <<"get", k, NoValue>> /\ cache' = cache /\ UNCHANGED <<SaidTaken, SaidSaved>>
        BY <1>3, <4>1
      <4>3. SaidNow[k] = NoValue
        BY <1>1, <3>1, HitSays
      <4> QED BY <4>2, <4>3 DEF SaidNow
    <3>2. CASE Hit(cache, k)
      <4>1. Operate(MoveToFront(cache, k), <<"get", k, ValueOf(cache, k)>>)
        BY <1>5, <3>2 DEF Get, AfterGet
      <4>2. event' = <<"get", k, ValueOf(cache, k)>> /\ cache' = MoveToFront(cache, k)
            /\ UNCHANGED <<SaidTaken, SaidSaved>>
        BY <1>3, <4>1
      <4>3. ValueOf(cache, k) = SaidNow[k]
        BY <1>1, <3>2, HitSays
      <4>4. SaidNow' = SaidNow
        BY <1>1, <3>2, <4>2, UseSaysNothing
      <4> QED BY <4>2, <4>3, <4>4
    <3> QED BY <3>1, <3>2
  <2>2. CachePromise!Get(k)
    BY <2>1 DEF CachePromise!Get, SaidNow, SaidTaken, SaidSaved
  <2> QED BY <2>2 DEF CachePromise!Next
<1>6. ASSUME NEW k \in Keys, Delete(k) PROVE Goal
  <2>1. Operate(AfterDelete(cache, k), Quiet)
    BY <1>6 DEF Delete
  <2>2. event' = Quiet /\ cache' = AfterDelete(cache, k) /\ UNCHANGED <<SaidTaken, SaidSaved>>
    BY <1>3, <2>1
  <2>3. cache'.list = Rest(cache, k) /\ Counted(cache)
    BY <1>1, <2>2, DeleteFacts DEF Sound
  <2>4. Members(cache'.list) \subseteq Members(cache.list)
    BY <2>3, RestFacts
  <2>5. SaidNow' \in CachePromise!Forgotten(SaidNow)
    BY <1>1, <1>2, <2>4, FewerIsForgotten
  <2> QED BY <1>4, <2>2, <2>5
<1>7. ASSUME NEW k \in Keys, NEW v \in Values, Set(k, v) PROVE Goal
  <2>1. Operate(AfterSet(cache, k, v), <<"set", k, v>>)
    BY <1>7 DEF Set
  <2>2. event' = <<"set", k, v>> /\ cache' = AfterSet(cache, k, v) /\ UNCHANGED <<SaidTaken, SaidSaved>>
    BY <1>3, <2>1
  <2>3. SetDone(cache, cache', k, v)
    BY <1>1, <2>2, SetFacts
  <2>4. SaidNow' \in CachePromise!Forgotten([SaidNow EXCEPT ![k] = v])
    BY <1>1, <2>3, SetSays
  <2>5. CachePromise!Set(k, v)
    BY <2>2, <2>4 DEF CachePromise!Set, SaidNow, SaidTaken, SaidSaved
  <2> QED BY <2>5 DEF CachePromise!Next
<1>8. ASSUME NEW k \in Keys, NEW v \in Values, SetIfAbsent(k, v) PROVE Goal
  <2>1. Operate(AfterSetIfAbsent(cache, k, v), Quiet)
    BY <1>8 DEF SetIfAbsent
  <2>2. event' = Quiet /\ cache' = AfterSetIfAbsent(cache, k, v) /\ UNCHANGED <<SaidTaken, SaidSaved>>
    BY <1>3, <2>1
  <2>3. CASE ~Hit(cache, k)
    <3>1. SetDone(cache, cache', k, v)
      BY <1>1, <2>2, <2>3, SetFacts
    <3>2. SaidNow' \in CachePromise!Forgotten([SaidNow EXCEPT ![k] = v])
      BY <1>1, <3>1, SetSays
    <3>3. SaidNow[k] = NoValue
      BY <1>1, <2>3, HitSays
    <3>4. SaidNow' \in CachePromise!Forgotten(
                          [SaidNow EXCEPT ![k] = IF SaidNow[k] = NoValue THEN v ELSE @])
      BY <3>2, <3>3
    <3>5. CachePromise!SetIfAbsent(k, v)
      BY <2>2, <3>4 DEF CachePromise!SetIfAbsent, CachePromise!Quiet, Quiet, SaidNow, SaidTaken, SaidSaved
    <3> QED BY <3>5 DEF CachePromise!Next
  <2>4. CASE Hit(cache, k)
    <3>1. cache' = MoveToFront(cache, k)
      BY <2>2, <2>4 DEF AfterSetIfAbsent
    <3>2. SaidNow' = SaidNow
      BY <1>1, <2>4, <3>1, UseSaysNothing
    <3>3. SaidNow' \in CachePromise!Forgotten(SaidNow)
      BY <1>1, <1>2, <3>2, ForgetsSome
    <3> QED BY <1>4, <2>2, <3>3
  <2> QED BY <2>3, <2>4
<1>9. CASE Clear
  <2>1. Operate(New(cache.capacity), Quiet)
    BY <1>9 DEF Clear, AfterClear
  <2>2. event' = Quiet /\ cache' = New(cache.capacity) /\ UNCHANGED <<SaidTaken, SaidSaved>>
    BY <1>3, <2>1
  <2>3. Members(cache'.list) = {}
    BY <1>1, <2>2, NewFacts
  <2>4. SaidNow' \in CachePromise!Forgotten(SaidNow)
    BY <1>1, <1>2, <2>3, FewerIsForgotten
  <2> QED BY <1>4, <2>2, <2>4
<1>10. ASSUME NEW n \in Capacities, SetCapacity(n) PROVE Goal
  <2>1. Operate(AfterSetCapacity(cache, n), Quiet)
    BY <1>10 DEF SetCapacity
  <2>2. event' = Quiet /\ cache' = AfterSetCapacity(cache, n) /\ UNCHANGED <<SaidTaken, SaidSaved>>
    BY <1>3, <2>1
  <2>3. n \in Limits
    BY DEF Limits
  <2>4. PICK m \in 0..Len(cache.list) : cache'.list = SubSeq(cache.list, 1, m)
    BY <1>1, <2>2, <2>3, SetCapacityFacts
  <2>5. Members(cache'.list) \subseteq Members(cache.list)
    <3>1. PICK l, p : l = cache.list /\ p = cache'.list
      OBVIOUS
    <3>2. l \in Seq(Entries) /\ m \in 0..Len(l) /\ p = SubSeq(l, 1, m)
      BY <1>1, <2>4, <3>1 DEF CacheList
    <3>3. Len(p) = m /\ Len(l) \in Nat /\ \A i \in 1..m : p[i] = l[i]
      BY <3>2
    <3> QED BY <3>1, <3>2, <3>3 DEF Members
  <2>6. SaidNow' \in CachePromise!Forgotten(SaidNow)
    BY <1>1, <1>2, <2>5, FewerIsForgotten
  <2> QED BY <1>4, <2>2, <2>6
<1>11. PICK nothing : nothing = [k \in Keys |-> NoValue]
  OBVIOUS
<1>12. MapOf(<<>>) = nothing /\ CachePromise!Nothing = nothing
  BY <1>11, NothingSaved DEF CachePromise!Nothing
<1>13. ASSUME event' = Quiet, UNCHANGED cache, SaidTaken' = nothing, SaidSaved' = nothing PROVE Goal
  <2>1. CachePromise!LoseSave
    BY <1>12, <1>13 DEF CachePromise!LoseSave, CachePromise!Quiet, Quiet, SaidTaken, SaidSaved
  <2> QED BY <2>1 DEF CachePromise!Next
<1>14. CASE OpenFile
  <2>1. /\ event' = Quiet /\ UNCHANGED cache /\ file' = NoValue /\ saver'.items = saver.items
        /\ saver.items = <<>>
    <3>1. saver' = [saver EXCEPT !.at = "open"] /\ saver.at = "idle"
      BY <1>14 DEF OpenFile
    <3>2. saver'.items = saver.items /\ saver.items = <<>>
      BY <1>1, <3>1 DEF SavesAreLists
    <3> QED BY <1>14, <3>2 DEF OpenFile
  <2>2. SaidTaken' = nothing /\ SaidSaved' = nothing
    BY <1>12, <2>1 DEF SaidTaken, SaidSaved
  <2> QED BY <1>13, <2>1, <2>2
<1>15. CASE CopyItems
  <2>1. /\ event' = Quiet /\ UNCHANGED <<cache, file>> /\ saver'.items = Items(cache)
    BY <1>15 DEF CopyItems
  <2>2. SaidTaken' = SaidNow
    <3>1. MapOf(Items(cache)) = MapOf(cache.list)
      BY <1>1, ItemsFacts
    <3> QED BY <2>1, <3>1 DEF SaidTaken, SaidNow
  <2>3. UNCHANGED <<SaidNow, SaidSaved>>
    BY <2>1 DEF SaidNow, SaidSaved
  <2>4. CachePromise!BeginSave
    BY <2>1, <2>2, <2>3 DEF CachePromise!BeginSave, CachePromise!Quiet, Quiet, SaidNow, SaidTaken, SaidSaved
  <2> QED BY <2>4 DEF CachePromise!Next
<1>16. CASE WriteFile
  <2>1. /\ event' = Quiet /\ UNCHANGED cache /\ saver'.items = <<>> /\ saver.at = "write"
        /\ (file' = saver.items \/ file' = file)
    BY <1>16, NothingSaved DEF WriteFile
  <2>2. SaidTaken' = nothing
    BY <1>12, <2>1 DEF SaidTaken
  <2>3. CASE file' = file
    <3>1. file' = NoValue
      BY <1>1, <2>1, <2>3 DEF SavesAreLists
    <3>2. SaidSaved' = nothing
      BY <1>12, <3>1 DEF SaidSaved
    <3> QED BY <1>13, <2>1, <2>2, <3>2
  <2>4. CASE file' = saver.items
    <3>1. saver.items \in ItemSeq
      BY <1>1 DEF SavesAreLists
    <3>2. file' # NoValue
      BY <2>4, <3>1, CacheAssumption
    <3>3. SaidSaved' = SaidTaken /\ UNCHANGED SaidNow
      BY <2>1, <2>4, <3>2 DEF SaidSaved, SaidTaken, SaidNow
    <3>4. CachePromise!EndSave
      BY <1>12, <2>1, <2>2, <3>3
         DEF CachePromise!EndSave, CachePromise!Quiet, Quiet, SaidNow, SaidTaken, SaidSaved
    <3> QED BY <3>4 DEF CachePromise!Next
  <2> QED BY <2>1, <2>3, <2>4
<1>17. CASE Restart
  <2>1. event' = Quiet /\ cache' = Loaded /\ saver'.items = <<>> /\ UNCHANGED file
    BY <1>17, NothingSaved DEF Restart
  <2>2. SaidTaken' = nothing /\ UNCHANGED SaidSaved
    BY <1>12, <2>1 DEF SaidTaken, SaidSaved
  <2>3. SaidNow' \in CachePromise!Forgotten(SaidSaved)
    <3>1. CASE file = NoValue
      <4>1. cache' = New(Capacity) /\ Capacity \in Limits
        BY <2>1, <3>1 DEF Loaded, Limits
      <4>2. cache'.list = <<>>
        BY <4>1, NewFacts
      <4>3. SaidNow' = nothing /\ SaidSaved = nothing
        BY <1>12, <3>1, <4>2 DEF SaidNow, SaidSaved
      <4>4. \A j \in Keys : SaidNow'[j] \in {SaidSaved[j], NoValue}
        BY <4>3
      <4> QED BY <1>2, <4>4, ForgetsSome
    <3>2. CASE file # NoValue
      <4>1. file \in ItemSeq /\ OneOfEach(file) /\ cache' = LoadItems(New(Capacity), file)
        BY <1>1, <2>1, <3>2 DEF SavesAreLists, Loaded
      <4>2. SaidNow' \in CachePromise!Forgotten(MapOf(file))
        BY <4>1, LoadSays
      <4> QED BY <3>2, <4>2 DEF SaidSaved
    <3> QED BY <3>1, <3>2
  <2>4. CachePromise!Restart
    BY <1>12, <2>1, <2>2, <2>3
       DEF CachePromise!Restart, CachePromise!Quiet, Quiet, SaidNow, SaidTaken, SaidSaved
  <2> QED BY <2>4 DEF CachePromise!Next
<1> QED BY <1>5, <1>6, <1>7, <1>8, <1>9, <1>10, <1>14, <1>15, <1>16, <1>17 DEF CacheNext

(***************************************************************************)
(* The cache, its saves and its restarts implement CacheMap: Get answers   *)
(* with the value that was last set, or that a save brought back; dropping *)
(* an entry only forgets it, and a save that fails only loses the file.    *)
(***************************************************************************)
THEOREM CacheKeepsThePromise == CacheSpec => KeepsCachePromise
<1>1. CacheInit => CachePromise!Init
  <2> SUFFICES ASSUME CacheInit PROVE CachePromise!Init
    OBVIOUS
  <2>1. cache.list = <<>> /\ saver.items = <<>> /\ file = NoValue /\ event = <<"none">>
    BY NothingSaved DEF CacheInit, New
  <2> QED BY <2>1, NothingSaved DEF CachePromise!Init, CachePromise!Nothing
<1>2. CacheInv /\ [CacheNext]_cacheVars => [CachePromise!Next]_(CachePromise!vars)
  <2> SUFFICES ASSUME CacheInv, [CacheNext]_cacheVars
               PROVE  CachePromise!Next \/ UNCHANGED CachePromise!vars
    OBVIOUS
  <2>1. CASE CacheNext
    BY <2>1, StepKeepsPromise DEF CachePromise!vars, SaidNow, SaidTaken, SaidSaved
  <2>2. CASE UNCHANGED cacheVars
    BY <2>2 DEF cacheVars, CachePromise!vars
  <2> QED BY <2>1, <2>2
<1> QED BY <1>1, <1>2, CacheInductive, PTL DEF CacheSpec, CachePromise!Spec, KeepsCachePromise
=============================================================================
