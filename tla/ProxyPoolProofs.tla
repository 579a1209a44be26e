-------------------------- MODULE ProxyPoolProofs --------------------------
(***************************************************************************)
(* Proofs about ProxyPool, for any number of proxy and public connections, *)
(* any capacity of the pool and any number of slots.                       *)
(***************************************************************************)
EXTENDS ProxyPool, FiniteSetTheorems, TLAPS

\* the goroutines that hold a slot
RegisteringProxies == {p \in Proxies : px[p] \in {"accepted", "found"}}
HandledPublics == {v \in Publics : pub[v] \notin {"none", "closed"}}

\* What is counted is what is held.
SlotsInv ==
    /\ IsFiniteSet(RegisteringProxies) /\ IsFiniteSet(HandledPublics)
    /\ slots \in 0..MaxSlots
    /\ slots = Cardinality(RegisteringProxies) + Cardinality(HandledPublics)

\* The pool has the pooled connections, each at one place.
PoolInv ==
    /\ pool \in Seq(Proxies) /\ Len(pool) <= PoolCap
    /\ \A i \in 1..Len(pool) : px[pool[i]] = "pooled"
    /\ \A p \in Proxies : px[p] = "pooled" => \E i \in 1..Len(pool) : pool[i] = p
    /\ \A i, j \in 1..Len(pool) : pool[i] = pool[j] => i = j
    /\ stp = "done" => pool = <<>>

\* The handlers have the taken ones, each one of its own.
HandlersInv ==
    /\ \A v \in Publics : cur[v] # None => px[cur[v]] = "taken"
    /\ \A p \in Proxies : px[p] = "taken" => \E v \in Publics : cur[v] = p
    /\ \A v, w \in Publics : cur[v] = cur[w] /\ cur[v] # None => v = w
    /\ \A v \in Publics : cur[v] # None <=> pub[v] \in {"start", "more", "join"}

PlacesOfProxies == {"free", "accepted", "found", "pooled", "taken", "closed"}
StagesOfPublics == {"none", "lookup", "get", "ask", "wait", "start", "more", "join", "closed"}

Typed ==
    /\ stp \in {"run", "unlisted", "outClosed", "noTunnels", "drain", "done"}
    /\ wtr \in {"recv", "write", "done"}
    /\ asked \in 0..MaxAsked
    /\ px \in [Proxies -> PlacesOfProxies]
    /\ dead \in [Proxies -> BOOLEAN]
    /\ pub \in [Publics -> StagesOfPublics]
    /\ cur \in [Publics -> Proxies \cup {None}]
    /\ tries \in [Publics -> 0..MaxTries]

IndInv == Typed /\ SlotsInv /\ PoolInv /\ HandlersInv

-----------------------------------------------------------------------------
(* Slots                                                                   *)

\* The count follows one connection that takes a slot,
LEMMA SlotTaken ==
    ASSUME SlotsInv, AcquireSlot,
           \/ /\ HandledPublics' = HandledPublics
              /\ \E p : p \notin RegisteringProxies /\ RegisteringProxies' = RegisteringProxies \cup {p}
           \/ /\ RegisteringProxies' = RegisteringProxies
              /\ \E v : v \notin HandledPublics /\ HandledPublics' = HandledPublics \cup {v}
    PROVE  SlotsInv'
<1> USE PoolAssumption
<1>1. /\ Cardinality(RegisteringProxies) \in Nat /\ Cardinality(HandledPublics) \in Nat
      /\ slots' \in 0..MaxSlots /\ slots' = slots + 1
  BY FS_CardinalityType DEF SlotsInv, AcquireSlot
<1>2. ASSUME NEW p, p \notin RegisteringProxies, RegisteringProxies' = RegisteringProxies \cup {p},
             HandledPublics' = HandledPublics
      PROVE  SlotsInv'
  <2>1. /\ IsFiniteSet(RegisteringProxies')
        /\ Cardinality(RegisteringProxies') = Cardinality(RegisteringProxies) + 1
    BY <1>2, FS_AddElement DEF SlotsInv
  <2> QED BY <1>1, <1>2, <2>1 DEF SlotsInv
<1>3. ASSUME NEW v, v \notin HandledPublics, HandledPublics' = HandledPublics \cup {v},
             RegisteringProxies' = RegisteringProxies
      PROVE  SlotsInv'
  <2>1. /\ IsFiniteSet(HandledPublics')
        /\ Cardinality(HandledPublics') = Cardinality(HandledPublics) + 1
    BY <1>3, FS_AddElement DEF SlotsInv
  <2> QED BY <1>1, <1>3, <2>1 DEF SlotsInv
<1> QED BY <1>2, <1>3

\* and one that gives it back.
LEMMA SlotGivenBack ==
    ASSUME SlotsInv, ReleaseSlot,
           \/ /\ HandledPublics' = HandledPublics
              /\ \E p \in RegisteringProxies : RegisteringProxies' = RegisteringProxies \ {p}
           \/ /\ RegisteringProxies' = RegisteringProxies
              /\ \E v \in HandledPublics : HandledPublics' = HandledPublics \ {v}
    PROVE  SlotsInv'
<1> USE PoolAssumption
<1>1. /\ Cardinality(RegisteringProxies) \in Nat /\ Cardinality(HandledPublics) \in Nat
      /\ slots' = slots - 1 /\ MaxSlots \in Nat
  BY FS_CardinalityType DEF SlotsInv, ReleaseSlot
<1>2. ASSUME NEW p \in RegisteringProxies, RegisteringProxies' = RegisteringProxies \ {p},
             HandledPublics' = HandledPublics
      PROVE  SlotsInv'
  <2>1. /\ IsFiniteSet(RegisteringProxies')
        /\ Cardinality(RegisteringProxies') = Cardinality(RegisteringProxies) - 1
    BY <1>2, FS_RemoveElement DEF SlotsInv
  <2>2. Cardinality(RegisteringProxies') \in Nat
    BY <2>1, FS_CardinalityType
  <2> QED BY <1>1, <1>2, <2>1, <2>2 DEF SlotsInv
<1>3. ASSUME NEW v \in HandledPublics, HandledPublics' = HandledPublics \ {v},
             RegisteringProxies' = RegisteringProxies
      PROVE  SlotsInv'
  <2>1. /\ IsFiniteSet(HandledPublics')
        /\ Cardinality(HandledPublics') = Cardinality(HandledPublics) - 1
    BY <1>3, FS_RemoveElement DEF SlotsInv
  <2>2. Cardinality(HandledPublics') \in Nat
    BY <2>1, FS_CardinalityType
  <2> QED BY <1>1, <1>3, <2>1, <2>2 DEF SlotsInv
<1> QED BY <1>2, <1>3

\* Otherwise it stays.
LEMMA SlotsStay ==
    ASSUME SlotsInv, slots' = slots,
           RegisteringProxies' = RegisteringProxies, HandledPublics' = HandledPublics
    PROVE  SlotsInv'
BY DEF SlotsInv

\* The handler of a public connection returns.
LEMMA FinishIsSafe ==
    ASSUME IndInv, NEW v \in Publics, pub[v] \notin {"none", "closed"}, Finish(v),
           UNCHANGED <<stp, pool>>
    PROVE  /\ SlotsInv' /\ PoolInv' /\ HandlersInv'
           /\ px' \in [Proxies -> PlacesOfProxies] /\ pub' \in [Publics -> StagesOfPublics]
           /\ cur' \in [Publics -> Proxies \cup {None}]
<1>1. /\ px \in [Proxies -> PlacesOfProxies] /\ pub \in [Publics -> StagesOfPublics]
      /\ cur \in [Publics -> Proxies \cup {None}]
  BY DEF IndInv, Typed
<1>2. /\ \A p \in Proxies : px'[p] = IF p = cur[v] THEN "closed" ELSE px[p]
      /\ \A w \in Publics : pub'[w] = IF w = v THEN "closed" ELSE pub[w]
      /\ \A w \in Publics : cur'[w] = IF w = v THEN None ELSE cur[w]
      /\ px' \in [Proxies -> PlacesOfProxies] /\ pub' \in [Publics -> StagesOfPublics]
      /\ cur' \in [Publics -> Proxies \cup {None}]
  BY <1>1 DEF Finish, PlacesOfProxies, StagesOfPublics
<1>3. \A p \in Proxies : p = cur[v] => px[p] = "taken"
  BY PoolAssumption DEF IndInv, HandlersInv
<1>4. SlotsInv'
  <2>1. RegisteringProxies' = RegisteringProxies
    BY <1>2, <1>3 DEF RegisteringProxies
  <2>2. v \in HandledPublics /\ HandledPublics' = HandledPublics \ {v}
    BY <1>2 DEF HandledPublics
  <2>3. ReleaseSlot
    BY DEF Finish
  <2> QED BY <2>1, <2>2, <2>3, SlotGivenBack DEF IndInv
<1>5. PoolInv'
  <2>1. \A i \in 1..Len(pool) : pool[i] \in Proxies /\ px'[pool[i]] = "pooled"
    BY <1>2, <1>3 DEF IndInv, PoolInv
  <2>2. \A p \in Proxies : px'[p] = "pooled" => px[p] = "pooled"
    BY <1>2
  <2> QED BY <2>1, <2>2 DEF IndInv, PoolInv
<1>6. HandlersInv'
  <2>1. \A w \in Publics : cur'[w] # None => px'[cur'[w]] = "taken"
    BY <1>1, <1>2 DEF IndInv, HandlersInv
  <2>2. \A p \in Proxies : px'[p] = "taken" => \E w \in Publics : cur'[w] = p
    BY <1>1, <1>2 DEF IndInv, HandlersInv
  <2>3. \A w \in Publics : cur'[w] # None <=> pub'[w] \in {"start", "more", "join"}
    BY <1>2 DEF IndInv, HandlersInv
  <2>4. \A w, x \in Publics : cur'[w] = cur'[x] /\ cur'[w] # None => w = x
    BY <1>2 DEF IndInv, HandlersInv
  <2> QED BY <2>1, <2>2, <2>3, <2>4 DEF HandlersInv
<1> QED BY <1>2, <1>4, <1>5, <1>6

-----------------------------------------------------------------------------
(* The steps                                                               *)

\* Moves that touch no connection of the pool and none that is in use.
LEMMA OthersMove ==
    ASSUME IndInv, UNCHANGED <<pool, cur>>, stp' = "done" => pool = <<>>,
           px' \in [Proxies -> PlacesOfProxies],
           \A p \in Proxies : px[p] # px'[p] => {px[p], px'[p]} \cap {"pooled", "taken"} = {},
           \A v \in Publics :
               pub'[v] \in {"start", "more", "join"} <=> pub[v] \in {"start", "more", "join"}
    PROVE  PoolInv' /\ HandlersInv'
<1>1. px \in [Proxies -> PlacesOfProxies] /\ cur \in [Publics -> Proxies \cup {None}]
  BY DEF IndInv, Typed
<1>2. /\ \A p \in Proxies : px[p] = "pooled" <=> px'[p] = "pooled"
      /\ \A p \in Proxies : px[p] = "taken" <=> px'[p] = "taken"
  OBVIOUS
<1>3. PoolInv'
  <2>1. \A i \in 1..Len(pool) : pool[i] \in Proxies
    BY DEF IndInv, PoolInv
  <2> QED BY <1>2, <2>1 DEF IndInv, PoolInv
<1>4. HandlersInv'
  BY <1>1, <1>2 DEF IndInv, HandlersInv
<1> QED BY <1>3, <1>4

\* A proxy connection on its way to the pool.
LEMMA ProxyStep ==
    ASSUME IndInv, NEW p \in Proxies, ClientDials(p) \/ NewProxy(p) \/ ProxyDies(p)
    PROVE  IndInv'
<1> USE PoolAssumption
<1>1. px \in [Proxies -> PlacesOfProxies]
  BY DEF IndInv, Typed
<1>2. CASE ClientDials(p)
  <2>1. PICK s \in {"accepted", "closed"} :
            /\ px' = [px EXCEPT ![p] = s]
            /\ (s = "accepted" /\ AcquireSlot) \/ (s = "closed" /\ UNCHANGED slots)
    BY <1>2 DEF ClientDials
  <2>2. px[p] = "free" /\ UNCHANGED <<stp, wtr, pool, dead, pub, cur, tries>> /\ asked' = asked - 1 /\ asked > 0
    BY <1>2 DEF ClientDials
  <2>3. Typed'
    BY <1>1, <2>1, <2>2 DEF IndInv, Typed, PlacesOfProxies
  <2>4. PoolInv' /\ HandlersInv'
    BY <1>1, <2>1, <2>2, <2>3, OthersMove DEF IndInv, PoolInv, Typed
  <2>5. SlotsInv'
    <3>1. HandledPublics' = HandledPublics
      BY <2>2 DEF HandledPublics
    <3>2. CASE s = "accepted"
      <4>1. p \notin RegisteringProxies /\ RegisteringProxies' = RegisteringProxies \cup {p}
        BY <1>1, <2>1, <2>2, <3>2 DEF RegisteringProxies
      <4> QED BY <2>1, <3>1, <3>2, <4>1, SlotTaken DEF IndInv
    <3>3. CASE s = "closed"
      <4>1. RegisteringProxies' = RegisteringProxies
        BY <1>1, <2>1, <2>2, <3>3 DEF RegisteringProxies
      <4> QED BY <2>1, <3>1, <3>3, <4>1, SlotsStay DEF IndInv
    <3> QED BY <3>2, <3>3
  <2> QED BY <2>3, <2>4, <2>5 DEF IndInv
<1>3. CASE ReadFails(p) \/ LookUpControl(p) \/ (RegisterProxy(p) /\ UNCHANGED pool)
  <2>1. PICK s \in {"found", "closed"} :
            /\ px' = [px EXCEPT ![p] = s]
            /\ (s = "found" /\ px[p] = "accepted" /\ UNCHANGED slots) \/ (s = "closed" /\ ReleaseSlot)
    BY <1>3 DEF ReadFails, LookUpControl, RegisterProxy
  <2>2. px[p] \in {"accepted", "found"} /\ UNCHANGED <<stp, wtr, asked, pool, dead, pub, cur, tries>>
    BY <1>3 DEF ReadFails, LookUpControl, RegisterProxy
  <2>3. Typed'
    BY <1>1, <2>1, <2>2 DEF IndInv, Typed, PlacesOfProxies
  <2>4. PoolInv' /\ HandlersInv'
    BY <1>1, <2>1, <2>2, <2>3, OthersMove DEF IndInv, PoolInv, Typed
  <2>5. SlotsInv'
    <3>1. HandledPublics' = HandledPublics
      BY <2>2 DEF HandledPublics
    <3>2. CASE s = "closed"
      <4>1. p \in RegisteringProxies /\ RegisteringProxies' = RegisteringProxies \ {p}
        BY <1>1, <2>1, <2>2, <3>2 DEF RegisteringProxies
      <4> QED BY <2>1, <3>1, <3>2, <4>1, SlotGivenBack DEF IndInv
    <3>3. CASE s = "found"
      <4>1. RegisteringProxies' = RegisteringProxies
        BY <1>1, <2>1, <2>2, <3>3 DEF RegisteringProxies
      <4> QED BY <2>1, <3>1, <3>3, <4>1, SlotsStay DEF IndInv
    <3> QED BY <3>2, <3>3
  <2> QED BY <2>3, <2>4, <2>5 DEF IndInv
<1>4. CASE RegisterProxy(p) /\ pool' # pool
  <2>1. /\ px[p] = "found" /\ pool' = Append(pool, p) /\ px' = [px EXCEPT ![p] = "pooled"]
        /\ ~PoolClosed /\ Len(pool) < PoolCap /\ ReleaseSlot
        /\ UNCHANGED <<stp, wtr, asked, dead, pub, cur, tries>>
    BY <1>4 DEF RegisterProxy
  <2>2. Typed'
    BY <1>1, <2>1 DEF IndInv, Typed, PlacesOfProxies
  <2>3. SlotsInv'
    <3>1. HandledPublics' = HandledPublics
      BY <2>1 DEF HandledPublics
    <3>2. p \in RegisteringProxies /\ RegisteringProxies' = RegisteringProxies \ {p}
      BY <1>1, <2>1 DEF RegisteringProxies
    <3> QED BY <2>1, <3>1, <3>2, SlotGivenBack DEF IndInv
  <2>4. /\ pool \in Seq(Proxies) /\ pool' \in Seq(Proxies) /\ Len(pool') = Len(pool) + 1
        /\ pool'[Len(pool) + 1] = p /\ \A i \in 1..Len(pool) : pool'[i] = pool[i]
        /\ \A i \in 1..Len(pool') : i \in 1..Len(pool) \/ i = Len(pool) + 1
        /\ Len(pool') <= PoolCap
    BY <2>1 DEF IndInv, PoolInv
  <2>5. \A i \in 1..Len(pool) : pool[i] \in Proxies /\ pool[i] # p /\ px[pool[i]] = "pooled"
    BY <2>1 DEF IndInv, PoolInv
  <2>6. PoolInv'
    <3>1. \A i \in 1..Len(pool') : px'[pool'[i]] = "pooled"
      BY <1>1, <2>1, <2>4, <2>5
    <3>2. \A q \in Proxies : px'[q] = "pooled" => \E i \in 1..Len(pool') : pool'[i] = q
      <4> SUFFICES ASSUME NEW q \in Proxies, px'[q] = "pooled"
                   PROVE  \E i \in 1..Len(pool') : pool'[i] = q
        OBVIOUS
      <4>1. CASE q = p
        <5>1. Len(pool) + 1 \in 1..Len(pool')
          BY <2>4
        <5> QED BY <2>4, <4>1, <5>1
      <4>2. CASE q # p
        <5>1. px[q] = "pooled"
          BY <1>1, <2>1, <4>2
        <5>2. PICK i \in 1..Len(pool) : pool[i] = q
          BY <5>1 DEF IndInv, PoolInv
        <5>3. i \in 1..Len(pool')
          BY <2>4
        <5> QED BY <2>4, <5>2, <5>3
      <4> QED BY <4>1, <4>2
    <3>3. \A i, j \in 1..Len(pool') : pool'[i] = pool'[j] => i = j
      BY <2>4, <2>5 DEF IndInv, PoolInv
    <3>4. stp' # "done"
      BY <2>1 DEF PoolClosed
    <3> QED BY <2>4, <3>1, <3>2, <3>3, <3>4 DEF PoolInv
  <2>7. HandlersInv'
    <3>1. \A q \in Proxies : px'[q] = "taken" <=> px[q] = "taken"
      BY <1>1, <2>1
    <3>2. cur \in [Publics -> Proxies \cup {None}]
      BY DEF IndInv, Typed
    <3> QED BY <2>1, <3>1, <3>2 DEF IndInv, HandlersInv
  <2> QED BY <2>2, <2>3, <2>6, <2>7 DEF IndInv
<1>5. CASE ProxyDies(p)
  <2>1. UNCHANGED <<stp, wtr, asked, slots, pool, px, pub, cur, tries>> /\ dead' \in [Proxies -> BOOLEAN]
    BY <1>5 DEF ProxyDies, IndInv, Typed
  <2> QED BY <2>1 DEF IndInv, Typed, SlotsInv, PoolInv, HandlersInv, RegisteringProxies, HandledPublics
<1> QED BY <1>2, <1>3, <1>4, <1>5 DEF NewProxy

\* What the pool is without its oldest connection.
LEMMA PoolTail ==
    ASSUME PoolInv, pool # <<>>
    PROVE  /\ Head(pool) \in Proxies /\ Head(pool) = pool[1] /\ 1 \in 1..Len(pool)
           /\ px[Head(pool)] = "pooled"
           /\ Tail(pool) \in Seq(Proxies) /\ Len(Tail(pool)) = Len(pool) - 1
           /\ \A i \in 1..Len(Tail(pool)) : i + 1 \in 1..Len(pool) /\ Tail(pool)[i] = pool[i + 1]
           /\ \A i \in 1..Len(pool) : i = 1 \/ (i - 1 \in 1..Len(Tail(pool)) /\ Tail(pool)[i - 1] = pool[i])
<1>1. pool \in Seq(Proxies) /\ Len(pool) \in Nat /\ Len(pool) > 0
  BY DEF PoolInv
<1>2. /\ Tail(pool) \in Seq(Proxies) /\ Len(Tail(pool)) = Len(pool) - 1
      /\ \A i \in 1..Len(Tail(pool)) : Tail(pool)[i] = pool[i + 1]
  BY <1>1
<1>3. \A i \in 1..Len(Tail(pool)) : i + 1 \in 1..Len(pool)
  BY <1>1, <1>2
<1>4. \A i \in 1..Len(pool) : i # 1 => i - 1 \in 1..Len(Tail(pool)) /\ (i - 1) + 1 = i
  BY <1>1, <1>2
<1>5. Head(pool) = pool[1] /\ 1 \in 1..Len(pool)
  BY <1>1
<1>6. pool[1] \in Proxies /\ px[pool[1]] = "pooled"
  BY <1>1, <1>5 DEF PoolInv
<1> QED BY <1>2, <1>3, <1>4, <1>5, <1>6

\* Taking the oldest connection out of the pool, to use it or to close it.
LEMMA PoolShrinks ==
    ASSUME IndInv, pool # <<>>, pool' = Tail(pool), stp' = stp,
           NEW s \in {"taken", "closed"}, px' = [px EXCEPT ![Head(pool)] = s]
    PROVE  PoolInv' /\ px' \in [Proxies -> PlacesOfProxies]
<1> DEFINE q == Head(pool)
<1>1. px \in [Proxies -> PlacesOfProxies] /\ PoolInv
  BY DEF IndInv, Typed
<1>2. /\ q \in Proxies /\ q = pool[1] /\ 1 \in 1..Len(pool)
      /\ pool' \in Seq(Proxies) /\ Len(pool') = Len(pool) - 1
      /\ \A i \in 1..Len(pool') : i + 1 \in 1..Len(pool) /\ pool'[i] = pool[i + 1]
      /\ \A i \in 1..Len(pool) : i = 1 \/ (i - 1 \in 1..Len(pool') /\ pool'[i - 1] = pool[i])
  BY <1>1, PoolTail
<1> HIDE DEF q
<1>3. /\ px' \in [Proxies -> PlacesOfProxies]
      /\ \A p \in Proxies : px'[p] = IF p = q THEN s ELSE px[p]
  BY <1>1, <1>2 DEF q, PlacesOfProxies
<1>4. \A i \in 1..Len(pool') : pool'[i] \in Proxies /\ px'[pool'[i]] = "pooled"
  <2> SUFFICES ASSUME NEW i \in 1..Len(pool')
               PROVE  pool'[i] \in Proxies /\ px'[pool'[i]] = "pooled"
    OBVIOUS
  <2>1. i + 1 \in 1..Len(pool) /\ pool'[i] = pool[i + 1] /\ i + 1 # 1
    BY <1>2
  <2>2. pool[i + 1] \in Proxies /\ px[pool[i + 1]] = "pooled" /\ pool[i + 1] # pool[1]
    BY <1>1, <1>2, <2>1 DEF PoolInv
  <2> QED BY <1>2, <1>3, <2>1, <2>2
<1>5. \A p \in Proxies : px'[p] = "pooled" => \E i \in 1..Len(pool') : pool'[i] = p
  <2> SUFFICES ASSUME NEW p \in Proxies, px'[p] = "pooled"
               PROVE  \E i \in 1..Len(pool') : pool'[i] = p
    OBVIOUS
  <2>1. p # q /\ px[p] = "pooled"
    BY <1>3
  <2>2. PICK i \in 1..Len(pool) : pool[i] = p
    BY <1>1, <2>1 DEF PoolInv
  <2>3. i - 1 \in 1..Len(pool') /\ pool'[i - 1] = p
    BY <1>2, <2>1, <2>2
  <2> QED BY <2>3
<1>6. \A i, j \in 1..Len(pool') : pool'[i] = pool'[j] => i = j
  <2> SUFFICES ASSUME NEW i \in 1..Len(pool'), NEW j \in 1..Len(pool'), pool'[i] = pool'[j]
               PROVE  i = j
    OBVIOUS
  <2>1. i + 1 = j + 1
    BY <1>1, <1>2 DEF PoolInv
  <2> QED BY <2>1
<1>7. stp' # "done" /\ Len(pool') <= PoolCap
  BY <1>1, <1>2, PoolAssumption DEF PoolInv
<1> QED BY <1>2, <1>3, <1>4, <1>5, <1>6, <1>7 DEF PoolInv

\* A handler of a public connection.
LEMMA PublicStep ==
    ASSUME IndInv, NEW v \in Publics, PublicArrives(v) \/ HandlePublicConnection(v) \/ JoinEnds(v)
    PROVE  IndInv'
<1> USE PoolAssumption
<1>1. /\ px \in [Proxies -> PlacesOfProxies] /\ pub \in [Publics -> StagesOfPublics]
      /\ cur \in [Publics -> Proxies \cup {None}] /\ tries \in [Publics -> 0..MaxTries]
  BY DEF IndInv, Typed
<1>2. CASE PublicArrives(v)
  <2>1. PICK s \in {"lookup", "closed"} :
            /\ pub' = [pub EXCEPT ![v] = s]
            /\ (s = "lookup" /\ AcquireSlot) \/ (s = "closed" /\ UNCHANGED slots)
    BY <1>2 DEF PublicArrives
  <2>2. pub[v] = "none" /\ UNCHANGED <<stp, wtr, asked, pool, px, dead, cur, tries>>
    BY <1>2 DEF PublicArrives
  <2>3. Typed'
    BY <1>1, <2>1, <2>2 DEF IndInv, Typed, StagesOfPublics
  <2>4. PoolInv' /\ HandlersInv'
    BY <1>1, <2>1, <2>2, OthersMove DEF IndInv, PoolInv
  <2>5. RegisteringProxies' = RegisteringProxies
    BY <2>2 DEF RegisteringProxies
  <2>6. CASE s = "lookup"
    <3>1. v \notin HandledPublics /\ HandledPublics' = HandledPublics \cup {v}
      BY <1>1, <2>1, <2>2, <2>6 DEF HandledPublics
    <3>2. SlotsInv'
      BY <2>1, <2>5, <2>6, <3>1, SlotTaken DEF IndInv
    <3> QED BY <2>3, <2>4, <3>2 DEF IndInv
  <2>7. CASE s = "closed"
    <3>1. HandledPublics' = HandledPublics
      BY <1>1, <2>1, <2>2, <2>7 DEF HandledPublics
    <3>2. SlotsInv'
      BY <2>1, <2>5, <2>7, <3>1, SlotsStay DEF IndInv
    <3> QED BY <2>3, <2>4, <3>2 DEF IndInv
  <2> QED BY <2>6, <2>7
<1>3. CASE FindTunnel(v) \/ PoolIsEmpty(v) \/ SendReqProxy(v) \/ ReplacementPanics(v) \/ StartProxy(v)
  <2>1. PICK s \in {"get", "ask", "wait", "more", "join"} :
            /\ pub' = [pub EXCEPT ![v] = s]
            /\ s \in {"more", "join"} <=> pub[v] \in {"start", "more", "join"}
            /\ pub[v] \notin {"none", "closed"}
    BY <1>3 DEF FindTunnel, PoolIsEmpty, SendReqProxy, ReplacementPanics, StartProxy
  <2>2. /\ UNCHANGED <<stp, asked, slots, pool, px, dead, cur, tries>>
        /\ wtr' \in {"recv", "write", "done"}
    BY <1>3 DEF FindTunnel, PoolIsEmpty, SendReqProxy, ReplacementPanics, StartProxy, IndInv, Typed
  <2>3. Typed'
    BY <1>1, <2>1, <2>2 DEF IndInv, Typed, StagesOfPublics
  <2>4. PoolInv' /\ HandlersInv'
    BY <1>1, <2>1, <2>2, OthersMove DEF IndInv, PoolInv
  <2>5. RegisteringProxies' = RegisteringProxies /\ HandledPublics' = HandledPublics
    BY <1>1, <2>1, <2>2 DEF RegisteringProxies, HandledPublics
  <2> QED BY <2>2, <2>3, <2>4, <2>5, SlotsStay DEF IndInv
<1>4. CASE RefuseRequest(v) \/ GetProxyFails(v) \/ StartFailsForGood(v) \/ JoinEnds(v)
  <2>1. /\ pub[v] \notin {"none", "closed"} /\ Finish(v)
        /\ UNCHANGED <<stp, wtr, asked, pool, dead>>
        /\ tries' \in [Publics -> 0..MaxTries]
    BY <1>1, <1>4 DEF RefuseRequest, GetProxyFails, StartFailsForGood, JoinEnds
  <2> QED BY <2>1, FinishIsSafe DEF IndInv, Typed
<1>5. CASE TakeProxy(v)
  <2> DEFINE q == Head(pool)
  <2>1. /\ pub[v] \in {"get", "wait"} /\ pool # <<>> /\ pool' = Tail(pool)
        /\ px' = [px EXCEPT ![q] = "taken"] /\ cur' = [cur EXCEPT ![v] = q]
        /\ pub' = [pub EXCEPT ![v] = "start"]
        /\ UNCHANGED <<stp, wtr, asked, slots, dead, tries>>
    BY <1>5 DEF TakeProxy
  <2>2. PoolInv' /\ px' \in [Proxies -> PlacesOfProxies]
    BY <2>1, PoolShrinks
  <2>3. q \in Proxies /\ px[q] = "pooled"
    BY <2>1, PoolTail DEF IndInv
  <2> HIDE DEF q
  <2>4. Typed'
    BY <1>1, <2>1, <2>2, <2>3 DEF IndInv, Typed, StagesOfPublics
  <2>5. RegisteringProxies' = RegisteringProxies /\ HandledPublics' = HandledPublics
    BY <1>1, <2>1, <2>3 DEF RegisteringProxies, HandledPublics
  <2>6. HandlersInv'
    <3>1. /\ \A p \in Proxies : px'[p] = IF p = q THEN "taken" ELSE px[p]
          /\ \A w \in Publics : cur'[w] = IF w = v THEN q ELSE cur[w]
          /\ \A w \in Publics : pub'[w] = IF w = v THEN "start" ELSE pub[w]
          /\ cur[v] = None /\ q # None
      BY <1>1, <2>1, <2>3 DEF IndInv, HandlersInv
    <3>2. \A w \in Publics : cur[w] # q
      BY <2>3, <3>1 DEF IndInv, HandlersInv
    <3>3. \A w \in Publics : cur'[w] # None => px'[cur'[w]] = "taken"
      BY <1>1, <2>3, <3>1 DEF IndInv, HandlersInv
    <3>4. \A p \in Proxies : px'[p] = "taken" => \E w \in Publics : cur'[w] = p
      <4> SUFFICES ASSUME NEW p \in Proxies, px'[p] = "taken"
                   PROVE  \E w \in Publics : cur'[w] = p
        OBVIOUS
      <4>1. CASE p = q
        BY <3>1, <4>1
      <4>2. CASE p # q
        <5>1. PICK w \in Publics : cur[w] = p
          BY <3>1, <4>2 DEF IndInv, HandlersInv
        <5>2. w # v
          BY <3>1, <5>1
        <5> QED BY <3>1, <5>1, <5>2
      <4> QED BY <4>1, <4>2
    <3>5. \A w, x \in Publics : cur'[w] = cur'[x] /\ cur'[w] # None => w = x
      BY <3>1, <3>2 DEF IndInv, HandlersInv
    <3>6. \A w \in Publics : cur'[w] # None <=> pub'[w] \in {"start", "more", "join"}
      BY <3>1 DEF IndInv, HandlersInv
    <3> QED BY <3>3, <3>4, <3>5, <3>6 DEF HandlersInv
  <2> QED BY <2>1, <2>2, <2>4, <2>5, <2>6, SlotsStay DEF IndInv
<1>6. CASE StartFails(v)
  <2> DEFINE q == cur[v]
  <2>1. /\ pub[v] = "start" /\ tries[v] + 1 < MaxTries
        /\ pub' = [pub EXCEPT ![v] = "get"] /\ px' = [px EXCEPT ![q] = "closed"]
        /\ cur' = [cur EXCEPT ![v] = None] /\ tries' = [tries EXCEPT ![v] = @ + 1]
        /\ UNCHANGED <<stp, wtr, asked, slots, pool, dead>>
    BY <1>6 DEF StartFails
  <2>2. q \in Proxies /\ px[q] = "taken"
    BY <1>1, <2>1 DEF IndInv, HandlersInv
  <2>3. Typed'
    BY <1>1, <2>1, <2>2 DEF IndInv, Typed, PlacesOfProxies, StagesOfPublics
  <2>4. RegisteringProxies' = RegisteringProxies /\ HandledPublics' = HandledPublics
    BY <1>1, <2>1, <2>2 DEF RegisteringProxies, HandledPublics
  <2>5. /\ \A p \in Proxies : px'[p] = IF p = q THEN "closed" ELSE px[p]
        /\ \A w \in Publics : cur'[w] = IF w = v THEN None ELSE cur[w]
        /\ \A w \in Publics : pub'[w] = IF w = v THEN "get" ELSE pub[w]
    BY <1>1, <2>1, <2>2
  <2>6. PoolInv'
    <3>1. \A i \in 1..Len(pool) : pool[i] \in Proxies /\ pool[i] # q
      BY <2>2 DEF IndInv, PoolInv
    <3> QED BY <2>1, <2>5, <3>1 DEF IndInv, PoolInv
  <2>7. HandlersInv'
    BY <1>1, <2>5 DEF IndInv, HandlersInv
  <2> QED BY <2>1, <2>3, <2>4, <2>6, <2>7, SlotsStay DEF IndInv
<1> QED BY <1>2, <1>3, <1>4, <1>5, <1>6 DEF HandlePublicConnection, GetProxy

\* The writer and the stopper.
LEMMA ControlStep ==
    ASSUME IndInv, WriterWrites \/ WriterEnds \/ StopperUnlists \/ stopper
    PROVE  IndInv'
<1> USE PoolAssumption
<1>1. CASE StopperDrains
  <2>1. /\ pool # <<>> /\ pool' = Tail(pool) /\ px' = [px EXCEPT ![Head(pool)] = "closed"]
        /\ UNCHANGED <<stp, wtr, asked, slots, dead, pub, cur, tries>>
    BY <1>1 DEF StopperDrains
  <2>2. PoolInv' /\ px' \in [Proxies -> PlacesOfProxies]
    BY <2>1, PoolShrinks
  <2>3. Head(pool) \in Proxies /\ px[Head(pool)] = "pooled" /\ px \in [Proxies -> PlacesOfProxies]
    BY <2>1, PoolTail DEF IndInv, Typed
  <2>4. \A p \in Proxies : px'[p] = px[p] \/ (px[p] = "pooled" /\ px'[p] = "closed")
    BY <2>1, <2>3
  <2>5. RegisteringProxies' = RegisteringProxies /\ HandledPublics' = HandledPublics
    BY <2>1, <2>4 DEF RegisteringProxies, HandledPublics
  <2>6. HandlersInv'
    BY <2>1, <2>4 DEF IndInv, HandlersInv, Typed
  <2>7. Typed'
    BY <2>1, <2>2 DEF IndInv, Typed
  <2> QED BY <2>1, <2>2, <2>5, <2>6, <2>7, SlotsStay DEF IndInv
<1>2. CASE \/ WriterWrites \/ WriterEnds \/ StopperUnlists \/ StopperClosesOut
           \/ StopperShutsTunnels \/ StopperClosesPool \/ StopperCompletes
  <2>1. /\ UNCHANGED <<slots, pool, px, dead, pub, cur, tries>>
        /\ stp' \in {"run", "unlisted", "outClosed", "noTunnels", "drain", "done"}
        /\ wtr' \in {"recv", "write", "done"} /\ asked' \in 0..MaxAsked
        /\ stp' = "done" => pool = <<>>
    BY <1>2 DEF WriterWrites, WriterEnds, StopperUnlists, StopperClosesOut, StopperShutsTunnels,
                StopperClosesPool, StopperCompletes, IndInv, Typed, PoolInv
  <2>2. Typed'
    BY <2>1 DEF IndInv, Typed
  <2>3. PoolInv' /\ HandlersInv'
    BY <2>1 DEF IndInv, PoolInv, HandlersInv
  <2>4. RegisteringProxies' = RegisteringProxies /\ HandledPublics' = HandledPublics
    BY <2>1 DEF RegisteringProxies, HandledPublics
  <2> QED BY <2>1, <2>2, <2>3, <2>4, SlotsStay DEF IndInv
<1> QED BY <1>1, <1>2 DEF stopper

-----------------------------------------------------------------------------
(* The theorems                                                            *)

\* IndInv is an invariant: nothing is counted that is not held, nothing held twice.
LEMMA Invariant == Spec => []IndInv
<1> USE PoolAssumption
<1>1. Init => IndInv
  <2> SUFFICES ASSUME Init  PROVE IndInv
    OBVIOUS
  <2>1. RegisteringProxies = {} /\ HandledPublics = {}
    BY DEF Init, RegisteringProxies, HandledPublics
  <2>2. SlotsInv
    BY <2>1, FS_EmptySet DEF Init, SlotsInv
  <2>3. Typed
    BY DEF Init, Typed, PlacesOfProxies, StagesOfPublics
  <2>4. PoolInv
    BY DEF Init, PoolInv
  <2>5. HandlersInv
    BY DEF Init, HandlersInv
  <2> QED BY <2>2, <2>3, <2>4, <2>5 DEF IndInv
<1>2. IndInv /\ [Next]_vars => IndInv'
  <2>1. ASSUME IndInv, Next  PROVE IndInv'
    BY <2>1, ProxyStep, PublicStep, ControlStep DEF Next
  <2>2. ASSUME IndInv, UNCHANGED vars  PROVE IndInv'
    BY <2>2 DEF vars, IndInv, Typed, SlotsInv, PoolInv, HandlersInv, RegisteringProxies, HandledPublics
  <2> QED BY <2>1, <2>2
<1> QED BY <1>1, <1>2, PTL DEF Spec

(***************************************************************************)
(* Type correctness.  That len(connSlots) is never negative and never over *)
(* maxConnections is a part of it (main.go:41-60).                         *)
(***************************************************************************)
THEOREM PoolIsTyped == Spec => []TypeOK
<1>1. IndInv => TypeOK
  BY DEF IndInv, Typed, SlotsInv, PoolInv, TypeOK, PlacesOfProxies, StagesOfPublics
<1> QED BY <1>1, Invariant, PTL

(***************************************************************************)
(* Every path out of NewProxy, httpHandler and HandlePublicConnection      *)
(* gives its slot back once, whatever number of connections there are.     *)
(***************************************************************************)
THEOREM SlotsStayExact == Spec => []SlotsAreExact
<1>1. IndInv => SlotsAreExact
  BY DEF IndInv, SlotsInv, SlotsAreExact, RegisteringProxies, HandledPublics
<1> QED BY <1>1, Invariant, PTL

(***************************************************************************)
(* A proxy connection is never in the pool twice, never in the hands of    *)
(* two handlers, and never in the pool while one uses it.                  *)
(***************************************************************************)
THEOREM ProxiesHaveOneHolder == Spec => []EachProxyHasOneHolder
<1>1. IndInv => EachProxyHasOneHolder
  <2> SUFFICES ASSUME IndInv, NEW p \in Proxies
               PROVE  /\ Cardinality(Places(p)) = IF px[p] = "pooled" THEN 1 ELSE 0
                      /\ Cardinality(Users(p))  = IF px[p] = "taken" THEN 1 ELSE 0
    BY DEF EachProxyHasOneHolder
  <2>1. DOMAIN pool = 1..Len(pool) /\ p # None
    BY PoolAssumption DEF IndInv, PoolInv
  <2>2. ASSUME px[p] = "pooled"  PROVE Cardinality(Places(p)) = 1
    <3>1. PICK i \in 1..Len(pool) : pool[i] = p
      BY <2>2 DEF IndInv, PoolInv
    <3>2. Places(p) = {i}
      BY <2>1, <3>1 DEF Places, IndInv, PoolInv
    <3> QED BY <3>2, FS_Singleton
  <2>3. ASSUME px[p] # "pooled"  PROVE Cardinality(Places(p)) = 0
    <3>1. Places(p) = {}
      BY <2>1, <2>3 DEF Places, IndInv, PoolInv
    <3> QED BY <3>1, FS_EmptySet
  <2>4. ASSUME px[p] = "taken"  PROVE Cardinality(Users(p)) = 1
    <3>1. PICK v \in Publics : cur[v] = p
      BY <2>4 DEF IndInv, HandlersInv
    <3>2. Users(p) = {v}
      BY <2>1, <3>1 DEF Users, IndInv, HandlersInv
    <3> QED BY <3>2, FS_Singleton
  <2>5. ASSUME px[p] # "taken"  PROVE Cardinality(Users(p)) = 0
    <3>1. Users(p) = {}
      BY <2>1, <2>5 DEF Users, IndInv, HandlersInv
    <3> QED BY <3>1, FS_EmptySet
  <2> QED BY <2>2, <2>3, <2>4, <2>5
<1> QED BY <1>1, Invariant, PTL

(***************************************************************************)
(* A control that has shut down has nothing in its pool and gets nothing   *)
(* into it any more (control.go:275-312).                   *)
(***************************************************************************)
THEOREM NothingIsPooledAfterwards == Spec => []NothingPooledAfterShutdown
<1>1. IndInv => NothingPooledAfterShutdown
  <2> SUFFICES ASSUME IndInv, stp = "done", NEW p \in Proxies, px[p] = "pooled"
               PROVE  FALSE
    BY DEF NothingPooledAfterShutdown
  <2>1. PICK i \in 1..Len(pool) : pool[i] = p
    BY DEF IndInv, PoolInv
  <2>2. Len(pool) = 0
    BY DEF IndInv, PoolInv
  <2> QED BY <2>1, <2>2
<1> QED BY <1>1, Invariant, PTL

=============================================================================
