--------------------------- MODULE TunnelRegistry ---------------------------
(***************************************************************************)
(* How tunnels come by their public URLs: NewTunnel, registerVhost and     *)
(* Tunnel.Shutdown (server/tunnel.go), and the TunnelRegistry with its     *)
(* affinity cache (server/registry.go).  A tunnel is asked for by the      *)
(* manager of its control and shut down by that control's stopper; tunnels *)
(* of different controls meet at the locks of the registry and the cache,  *)
(* and at the ports of the operating system.                               *)
(*                                                                         *)
(* Abstracted: the affinity cache is a map that may forget entries, which  *)
(* is what LRUCache.tla implements (CacheMap.tla).  Host names and the     *)
(* conditions on them are members of Names and requests that are rejected. *)
(* Each control asks for one tunnel; Control.tla has several.              *)
(***************************************************************************)
EXTENDS Naturals

CONSTANTS
    Tunnels,            \* the tunnels that are asked for
    IpOf, IdOf,         \* address and ClientId of each tunnel's control
    Names, Ports,       \* host names and tcp ports
    Vhosts,             \* the virtually hosted protocols: "http", "https"
    Requests,           \* what may be asked for: [proto, host, port]
    AllowRemotePorts,   \* -allowRemotePorts
    MaxAttempts,        \* maxAttempts in RegisterRepeat
    Replaceable,        \* bound: the tunnels whose control may be replaced
    NoId, None

Urls == (Vhosts \X Names) \cup ({"tcp"} \X Ports)
Protocols == Vhosts \cup {"tcp"}
Ids == {IdOf[t] : t \in Tunnels}
AffinityKeys ==
    ({"id"} \X Protocols \X (Ids \cup {NoId})) \cup ({"ip"} \X Protocols \X {IpOf[t] : t \in Tunnels})

ASSUME RegistryAssumption ==
    /\ None \notin Tunnels \cup Names \cup Ports \cup Urls /\ NoId \notin Ids
    /\ "tcp" \notin Vhosts
    /\ Requests \subseteq [proto : Protocols, host : Names \cup {None}, port : Ports \cup {None}]
    /\ MaxAttempts \in Nat \ {0}
    /\ AllowRemotePorts \in BOOLEAN

VARIABLES
    registry,    \* TunnelRegistry.tunnels
    affinity,    \* TunnelRegistry.affinity
    listener,    \* whose listener each port has
    pc,          \* where NewTunnel or Shutdown is
    req,         \* t.req
    url,         \* the url being tried, then t.url
    how,         \* where that url comes from: asked for, cached, or any
    tries,       \* i in RegisterRepeat
    key,         \* idCacheKey in RegisterAndCache
    id,          \* t.ctl.id
    closing,     \* t.closing
    acceptor,    \* the goroutine listenTcp
    last,        \* observed: the url each client was last given, by protocol
    hoped,       \* observed: last, when the tunnel was asked for
    beaten       \* observed: somebody else had that url when it was tried

vars == <<registry, affinity, listener, pc, req, url, how, tries, key, id,
          closing, acceptor, last, hoped, beaten>>

tunnelVars == <<pc, req, url, how, tries, key>>
observed   == <<last, hoped, beaten>>

Tcp(t)    == req[t].proto = "tcp"
Holding   == {"cacheIp", "cacheId", "up", "close", "unregister"}
Listening == {"register", "cacheIp", "cacheId", "up", "close"}

(***************************************************************************)
(* Types.                                                                  *)
(***************************************************************************)
TypeOK ==
    /\ registry \in [Urls -> Tunnels \cup {None}]
    /\ affinity \in [AffinityKeys -> Urls \cup {None}]
    /\ listener \in [Ports -> Tunnels \cup {None}]
    /\ pc \in [Tunnels -> {"idle", "lookup", "lookupIp", "bind", "failed", "down", "over"}
                             \cup Holding \cup Listening]
    /\ req \in [Tunnels -> Requests \cup {None}]
    /\ url \in [Tunnels -> Urls \cup {None}]
    /\ how \in [Tunnels -> {"asked", "cached", "any"}]
    /\ tries \in [Tunnels -> 0..MaxAttempts]
    /\ key \in [Tunnels -> AffinityKeys \cup {None}]
    /\ id \in [Tunnels -> Ids \cup {NoId}]
    /\ closing \in [Tunnels -> BOOLEAN]
    /\ acceptor \in [Tunnels -> {"none", "accept", "ended"}]
    /\ last \in [Protocols \X Ids -> Urls \cup {None}]
    /\ hoped \in [Tunnels -> Urls \cup {None}]
    /\ beaten \in [Tunnels -> BOOLEAN]

-----------------------------------------------------------------------------
Init ==
    /\ registry = [u \in Urls |-> None]
    /\ affinity = [k \in AffinityKeys |-> None]
    /\ listener = [p \in Ports |-> None]
    /\ pc = [t \in Tunnels |-> "idle"]
    /\ req = [t \in Tunnels |-> None]
    /\ url = [t \in Tunnels |-> None]
    /\ how = [t \in Tunnels |-> "any"]
    /\ tries = [t \in Tunnels |-> 0]
    /\ key = [t \in Tunnels |-> None]
    /\ id = [t \in Tunnels |-> IdOf[t]]
    /\ closing = [t \in Tunnels |-> FALSE]
    /\ acceptor = [t \in Tunnels |-> "none"]
    /\ last = [c \in Protocols \X Ids |-> None]
    /\ hoped = [t \in Tunnels |-> None]
    /\ beaten = [t \in Tunnels |-> FALSE]

Go(t, to)  == pc' = [pc EXCEPT ![t] = to]
Try(t, u)  == url' = [url EXCEPT ![t] = u]
From(t, h) == how' = [how EXCEPT ![t] = h]

-----------------------------------------------------------------------------
(***************************************************************************)
(* cacheKeys and the affinity cache.                                       *)
(***************************************************************************)
IpKey(t) == <<"ip", req[t].proto, IpOf[t]>>

\* mutant: the ClientId is looked up whatever the protocol (the fault that
\* docs/CHANGELOG.md:61 says was fixed)
IdKey_AnyProtocol(t) == <<"id", CHOOSE p \in Protocols : TRUE, id[t]>>
IdKey(t) == <<"id", req[t].proto, id[t]>>

FirstKey(t) == IdKey(t)

CacheUrl(k, u) == affinity' = [affinity EXCEPT ![k] = u]

\* the cache is full, or has been restored without this entry
Forget(k) ==
    /\ affinity[k] # None
    /\ CacheUrl(k, None)
    /\ last' = [c \in DOMAIN last |-> IF k = <<"id", c[1], c[2]>> THEN None ELSE last[c]]
    /\ UNCHANGED <<registry, listener, tunnelVars, id, closing, acceptor, hoped, beaten>>

\* what the client may expect to get back
Expected(t) == IF id[t] = NoId THEN None ELSE last[<<req[t].proto, id[t]>>]

-----------------------------------------------------------------------------
(***************************************************************************)
(* NewTunnel.  A request that is not valid (a protocol without listener, a *)
(* host name outside the domains, a remote port where that is disabled) is *)
(* refused before anything has happened.                                   *)
(***************************************************************************)
Start(t) ==
    /\ pc[t] = "idle"
    /\ \E r \in Requests :
        /\ req' = [req EXCEPT ![t] = r]
        /\ \/ Go(t, "failed") /\ UNCHANGED <<url, how>>
           \/ /\ r.proto = "tcp" /\ r.port # None /\ AllowRemotePorts
              /\ Go(t, "bind") /\ Try(t, <<"tcp", r.port>>) /\ From(t, "asked")
           \/ /\ r.proto # "tcp" /\ r.host # None
              /\ Go(t, "register") /\ Try(t, <<r.proto, r.host>>) /\ From(t, "asked")
           \/ /\ IF r.proto = "tcp" THEN r.port = None ELSE r.host = None
              /\ Go(t, "lookup") /\ UNCHANGED <<url, how>>
    /\ UNCHANGED <<registry, affinity, listener, tries, key, id, closing, acceptor, observed>>

\* the first url to try: bindTcp(port), or RegisterRepeat's first attempt
Suggest(t, u) ==
    /\ Try(t, u) /\ From(t, "cached")
    /\ Go(t, IF Tcp(t) THEN "bind" ELSE "register")

(***************************************************************************)
(* GetCachedRegistration: the ClientId first, then the address.            *)
(***************************************************************************)
LookUpId(t) ==
    /\ pc[t] = "lookup"
    /\ hoped' = [hoped EXCEPT ![t] = Expected(t)]
    /\ \/ affinity[FirstKey(t)] # None /\ Suggest(t, affinity[FirstKey(t)])
       \/ affinity[FirstKey(t)] = None /\ Go(t, "lookupIp") /\ UNCHANGED <<url, how>>
    /\ UNCHANGED <<registry, affinity, listener, req, tries, key, id, closing, acceptor, last, beaten>>

LookUpIp(t) ==
    /\ pc[t] = "lookupIp"
    /\ \/ affinity[IpKey(t)] # None /\ Suggest(t, affinity[IpKey(t)])
       \/ /\ affinity[IpKey(t)] = None /\ From(t, "any")
          /\ \/ Tcp(t) /\ Go(t, "bind") /\ UNCHANGED url
             \/ ~Tcp(t) /\ Go(t, "register") /\ \E n \in Names : Try(t, <<req[t].proto, n>>)
    /\ UNCHANGED <<registry, affinity, listener, req, tries, key, id, closing, acceptor, observed>>

-----------------------------------------------------------------------------
(***************************************************************************)
(* bindTcp: the operating system gives a port to one listener at a time.   *)
(***************************************************************************)
Bind(t) ==
    /\ pc[t] = "bind"
    /\ \E p \in Ports :
        /\ how[t] # "any" => url[t] = <<"tcp", p>>
        /\ listener[p] = None
        /\ listener' = [listener EXCEPT ![p] = t]
        /\ Try(t, <<"tcp", p>>)
    /\ Go(t, "register")
    /\ UNCHANGED <<registry, affinity, req, how, tries, key, id, closing, acceptor, observed>>

\* mutant: a cached port that is taken is tried again
GiveUpPort_Retries(t) ==
    \/ how[t] = "cached" /\ Go(t, "bind") /\ UNCHANGED how
    \/ how[t] # "cached" /\ Go(t, "failed") /\ UNCHANGED how

\* after a cached port the operating system may choose one, otherwise that was all
GiveUpPort(t) ==
    \/ how[t] = "cached" /\ From(t, "any") /\ Go(t, "bind")
    \/ how[t] # "cached" /\ Go(t, "failed") /\ UNCHANGED how

Beaten(t) == beaten' = [beaten EXCEPT ![t] = @ \/ url[t] = hoped[t]]

\* the port is taken, by a tunnel or by another program, or may not be bound
BindFails(t) ==
    /\ pc[t] = "bind"
    /\ GiveUpPort(t)
    /\ Beaten(t)
    /\ UNCHANGED <<registry, affinity, listener, req, url, tries, key, id, closing, acceptor, last, hoped>>

-----------------------------------------------------------------------------
(***************************************************************************)
(* Register, under the registry's lock.  A url that was asked for by its   *)
(* host name is not cached.                                                *)
(***************************************************************************)
\* mutant: Register does not look whether the url is taken
Vacant_Always(u) == TRUE
Vacant(u) == registry[u] = None

Register(t) ==
    /\ pc[t] = "register" /\ Vacant(url[t])
    /\ registry' = [registry EXCEPT ![url[t]] = t]
    /\ Go(t, IF ~Tcp(t) /\ how[t] = "asked" THEN "up" ELSE "cacheIp")
    /\ UNCHANGED <<affinity, listener, req, url, how, tries, key, id, closing, acceptor, observed>>

\* mutant: the listener of a port that cannot be registered stays open
CloseListener_Forgotten(t) == UNCHANGED listener
CloseListener(t) == listener' = [p \in Ports |-> IF listener[p] = t THEN None ELSE listener[p]]

RegisterPortFails(t) ==
    /\ pc[t] = "register" /\ Tcp(t) /\ ~Vacant(url[t])
    /\ CloseListener(t)
    /\ GiveUpPort(t)
    /\ Beaten(t)
    /\ UNCHANGED <<registry, affinity, req, url, tries, key, id, closing, acceptor, last, hoped>>

AttemptsLeft(t) == tries[t] + 1 < MaxAttempts

RegisterNameFails(t) ==
    /\ pc[t] = "register" /\ ~Tcp(t) /\ ~Vacant(url[t])
    /\ \/ /\ how[t] # "asked" /\ AttemptsLeft(t)
          /\ tries' = [tries EXCEPT ![t] = @ + 1]
          /\ From(t, "any") /\ \E n \in Names : Try(t, <<req[t].proto, n>>)
          /\ UNCHANGED pc
       \/ /\ how[t] = "asked" \/ ~AttemptsLeft(t)
          /\ Go(t, "failed") /\ UNCHANGED <<tries, how, url>>
    /\ Beaten(t)
    /\ UNCHANGED <<registry, affinity, listener, req, key, id, closing, acceptor, last, hoped>>

\* RegisterAndCache: both keys are made before the first of the two Sets
CacheUnderIp(t) ==
    /\ pc[t] = "cacheIp"
    /\ CacheUrl(IpKey(t), url[t])
    /\ key' = [key EXCEPT ![t] = IdKey(t)]
    /\ Go(t, "cacheId")
    /\ UNCHANGED <<registry, listener, req, url, how, tries, id, closing, acceptor, observed>>

CacheUnderId(t) ==
    /\ pc[t] = "cacheId"
    /\ CacheUrl(key[t], url[t])
    /\ Go(t, "up")
    /\ acceptor' = [acceptor EXCEPT ![t] = IF Tcp(t) THEN "accept" ELSE @]
    /\ last' = IF key[t][3] = NoId THEN last ELSE [last EXCEPT ![<<req[t].proto, key[t][3]>>] = url[t]]
    /\ UNCHANGED <<registry, listener, req, url, how, tries, key, id, closing, hoped, beaten>>

-----------------------------------------------------------------------------
(***************************************************************************)
(* Control.Replaced, by another control of the same client.                *)
(***************************************************************************)
Replaced(t) ==
    /\ t \in Replaceable /\ id[t] # NoId
    /\ id' = [id EXCEPT ![t] = NoId]
    /\ UNCHANGED <<registry, affinity, listener, tunnelVars, closing, acceptor, observed>>

(***************************************************************************)
(* Tunnel.Shutdown, by the stopper, once NewTunnel has returned.           *)
(***************************************************************************)
\* mutant: nobody sets the flag
MarksClosing_Never(t) == FALSE

MarksClosing(t) == pc[t] = "up"

SetClosing(t) == closing' = [closing EXCEPT ![t] = @ \/ MarksClosing(t)]

ShutdownBegins(t) ==
    /\ pc[t] = "up"
    /\ SetClosing(t)
    /\ Go(t, IF Tcp(t) THEN "close" ELSE "unregister")
    /\ UNCHANGED <<registry, affinity, listener, req, url, how, tries, key, id, acceptor, observed>>

ShutdownCloses(t) ==
    /\ pc[t] = "close"
    /\ CloseListener(t)
    /\ Go(t, "unregister")
    /\ UNCHANGED <<registry, affinity, req, url, how, tries, key, id, closing, acceptor, observed>>

ShutdownUnregisters(t) ==
    /\ pc[t] = "unregister"
    /\ SetClosing(t)
    /\ registry' = [registry EXCEPT ![url[t]] = None]
    /\ Go(t, "down")
    /\ UNCHANGED <<affinity, listener, req, url, how, tries, key, id, acceptor, observed>>

\* the stopper has been through c.tunnels
StopperCompletes(t) ==
    /\ pc[t] = "down"
    /\ Go(t, "over")
    /\ UNCHANGED <<registry, affinity, listener, req, url, how, tries, key, id, closing, acceptor, observed>>

(***************************************************************************)
(* listenTcp: Accept fails when the listener is closed, and the loop looks *)
(* at t.closing to tell whether to go on.                                  *)
(***************************************************************************)
AcceptFails(t) == acceptor[t] = "accept" /\ \A p \in Ports : listener[p] # t

AcceptorEnds(t) ==
    /\ AcceptFails(t) /\ closing[t]
    /\ acceptor' = [acceptor EXCEPT ![t] = "ended"]
    /\ UNCHANGED <<registry, affinity, listener, tunnelVars, id, closing, observed>>

NewTunnel(t) ==
    \/ Start(t) \/ LookUpId(t) \/ LookUpIp(t) \/ Bind(t) \/ BindFails(t)
    \/ Register(t) \/ RegisterPortFails(t) \/ RegisterNameFails(t)
    \/ CacheUnderIp(t) \/ CacheUnderId(t)
Shutdown(t) == ShutdownBegins(t) \/ ShutdownCloses(t) \/ ShutdownUnregisters(t) \/ StopperCompletes(t)

Next ==
    \/ \E t \in Tunnels : NewTunnel(t) \/ Shutdown(t) \/ AcceptorEnds(t) \/ Replaced(t)
    \/ \E k \in AffinityKeys : Forget(k)

\* goroutines that can go on do so; nobody has to ask for a tunnel or to leave
Fairness ==
    \A t \in Tunnels :
        /\ WF_vars(NewTunnel(t) /\ pc[t] # "idle")
        /\ WF_vars(Shutdown(t) /\ pc[t] # "up")
        /\ WF_vars(AcceptorEnds(t))

Spec     == Init /\ [][Next]_vars
FairSpec == Spec /\ Fairness

-----------------------------------------------------------------------------
(***************************************************************************)
(* A url leads to the tunnel that believes to have it, from the moment it  *)
(* is registered until it is unregistered, and to no other; the            *)
(* unconditional Del (registry.go:154) removes no other tunnel's url.      *)
(***************************************************************************)
UrlsAreExclusive ==
    \A t \in Tunnels, u \in Urls :
        registry[u] = t <=> (pc[t] \in Holding /\ url[t] = u)

(***************************************************************************)
(* The listener of a tcp tunnel is open exactly while it is being          *)
(* registered and served: none is left behind by a registration that fails *)
(* (tunnel.go:226) or by a shutdown.                                       *)
(***************************************************************************)
ListenersAreExact ==
    \A t \in Tunnels, p \in Ports :
        listener[p] = t <=> (pc[t] \in Listening /\ Tcp(t) /\ url[t] = <<"tcp", p>>)

(***************************************************************************)
(* Which facts hold at which stage of NewTunnel and Shutdown; with the two *)
(* invariants above it is preserved by every step.                         *)
(***************************************************************************)
StagesInOrder ==
    \A t \in Tunnels :
        /\ pc[t] # "idle" => req[t] \in Requests
        /\ pc[t] \in {"bind", "close"} => Tcp(t)
        /\ pc[t] \in Holding \cup {"register"} =>
              url[t] \in (IF Tcp(t) THEN {"tcp"} \X Ports ELSE Urls)
        /\ pc[t] = "cacheId" => key[t] \in {"id"} \X {req[t].proto} \X (Ids \cup {NoId})
        /\ pc[t] \in {"close", "unregister", "down", "over"} => closing[t]
        /\ acceptor[t] = "accept" =>
              Tcp(t) /\ pc[t] \in {"up", "close", "unregister", "down", "over"}

(***************************************************************************)
(* A listener that is closed always finds t.closing set (tunnel.go:338),   *)
(* so the loop of listenTcp never runs hot over a closed listener.         *)
(***************************************************************************)
AcceptLoopKnowsItEnds == \A t \in Tunnels : AcceptFails(t) => closing[t]

(***************************************************************************)
(* A client that asks for any url gets the one its ClientId was last given *)
(* for that protocol, unless the cache forgot it or somebody has it when   *)
(* it is tried (GetCachedRegistration, RegisterRepeat, NewTunnel).         *)
(***************************************************************************)
ClientsComeBackToTheirUrls ==
    \A t \in Tunnels :
        pc[t] = "up" /\ hoped[t] # None /\ ~beaten[t] => url[t] = hoped[t]

(***************************************************************************)
(* Every request is answered, and every shutdown leaves nothing running:   *)
(* the number of attempts is bounded, and so is the way from a cached port *)
(* to one the operating system chooses.                                    *)
(***************************************************************************)
RequestsEnd ==
    \A t \in Tunnels : pc[t] # "idle" ~> pc[t] \in {"up", "failed", "over"}
AcceptLoopsEnd ==
    \A t \in Tunnels : pc[t] = "over" ~> acceptor[t] # "accept"

(***************************************************************************)
(* "This should never be possible because the OS will only assign          *)
(* available ports to us" (tunnel.go:224): a port that could be bound is   *)
(* not registered.  Shutdown closes the listener before it unregisters the *)
(* url, and another tunnel may bind the port in between.                   *)
(***************************************************************************)
BoundPortsAreUnregistered ==
    \A t \in Tunnels : pc[t] = "register" /\ Tcp(t) => registry[url[t]] = None

\* the tunnels that never came about or were shut down
over == {t \in Tunnels : pc[t] \in {"failed", "over"}}

Promise == INSTANCE UrlOwnership WITH Sessions <- Tunnels, owner <- registry, over <- over

(***************************************************************************)
(* The registry implements UrlOwnership: a url changes hands only by being *)
(* given up by its holder, and a tunnel that failed or was shut down holds *)
(* nothing.                                                                *)
(***************************************************************************)
KeepsUrlPromise == Promise!Spec
=============================================================================
