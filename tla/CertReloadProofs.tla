-------------------------- MODULE CertReloadProofs --------------------------
(***************************************************************************)
(* Proofs about CertReload, for every number of sources, handshakes and    *)
(* renewals and every lifetime.                                            *)
(***************************************************************************)
EXTENDS CertReload, TLAPS

\* The positions are told apart by pc.
LEMMA PositionsByPc ==
    ASSUME TypeOK, NEW h \in Handshakes
    PROVE  /\ hs[h] \in Positions
           /\ hs[h].pc = "idle" => hs[h] = Idle
           /\ hs[h].pc = "done" => hs[h] \in Answered
           /\ hs[h].pc \notin {"idle", "done"} =>
                 /\ hs[h] \in Working
                 /\ hs[h].src \in Sources /\ hs[h].pc \in {"stat", "lock"} \cup InLock
                 /\ {hs[h].crtMod, hs[h].keyMod, hs[h].crt, hs[h].key, hs[h].began} \subseteq Nat
                 /\ hs[h].still \in BOOLEAN
<1>1. hs[h] \in Positions
  BY DEF TypeOK
<1>2. CASE hs[h] = Idle
  BY <1>1, <1>2 DEF Idle
<1>3. CASE hs[h] \in Working
  BY <1>1, <1>3 DEF Working, InLock
<1>4. CASE hs[h] \in Answered
  BY <1>1, <1>4 DEF Answered
<1> QED BY <1>1, <1>2, <1>3, <1>4 DEF Positions

\* A change of the files leaves a handshake where it is.
LEMMA DisturbedIsTyped ==
    ASSUME TypeOK, NEW s \in Sources
    PROVE  /\ Disturbed(s) \in [Handshakes -> Positions]
           /\ \A h \in Handshakes :
                 /\ Disturbed(s)[h].pc = hs[h].pc
                 /\ hs[h].pc # "idle" => Disturbed(s)[h].src = hs[h].src
                 /\ hs[h].pc \notin {"idle", "done"} => Disturbed(s)[h].crt = hs[h].crt
<1> SUFFICES ASSUME NEW h \in Handshakes
             PROVE  /\ Disturbed(s)[h] \in Positions
                    /\ Disturbed(s)[h].pc = hs[h].pc
                    /\ hs[h].pc # "idle" => Disturbed(s)[h].src = hs[h].src
                    /\ hs[h].pc \notin {"idle", "done"} => Disturbed(s)[h].crt = hs[h].crt
  BY DEF Disturbed
<1>1. CASE hs[h].pc = "idle"
  BY <1>1, PositionsByPc DEF Disturbed
<1>2. CASE hs[h].pc = "done"
  <2>1. hs[h] \in Answered
    BY <1>2, PositionsByPc
  <2>2. [hs[h] EXCEPT !.still = FALSE] \in Answered
    BY <2>1 DEF Answered
  <2> QED BY <1>2, <2>1, <2>2, PositionsByPc DEF Disturbed, Answered, Positions
<1>3. CASE hs[h].pc \notin {"idle", "done"}
  <2>1. hs[h] \in Working
    BY <1>3, PositionsByPc
  <2>2. [hs[h] EXCEPT !.still = FALSE] \in Working
    BY <2>1 DEF Working
  <2> QED BY <1>3, <2>1, <2>2, PositionsByPc DEF Disturbed, Working, Positions
<1> QED BY <1>1, <1>2, <1>3

-----------------------------------------------------------------------------
\* The initial state satisfies the invariant.
LEMMA IndInvInit == Init => IndInv
<1> SUFFICES ASSUME Init PROVE IndInv
  OBVIOUS
<1> USE CertAssumption DEF Init
<1>1. TypeOK
  <2>1. <<Lifetime>> \in Seq(Nat) /\ File(1, TRUE) \in Files
    BY DEF File, Files
  <2>2. Idle \in Positions
    BY DEF Positions
  <2>3. now \in Nat /\ hs \in [Handshakes -> Positions]
    BY <2>2
  <2>4. notAfter \in [Sources -> Seq(Nat)] /\ crt \in [Sources -> Files] /\ key \in [Sources -> Files]
    BY <2>1
  <2>5. /\ acme \in [Sources -> {"idle", "key", "crt", "fill"}] /\ whole \in [Sources -> SUBSET Nat]
        /\ lock \in [Sources -> Handshakes \cup {Nobody}]
    OBVIOUS
  <2>6. cert \in [Sources -> Nat] /\ crtMod \in [Sources -> Nat] /\ keyMod \in [Sources -> Nat]
    OBVIOUS
  <2> QED BY <2>3, <2>4, <2>5, <2>6 DEF TypeOK
<1>2. LockIsHeld
  BY DEF LockIsHeld, Idle, InLock
<1>3. DiskIsAhead
  BY DEF DiskIsAhead, File, Last
<1>4. ReadIsAhead
  BY DEF ReadIsAhead, Idle
<1> QED BY <1>1, <1>2, <1>3, <1>4 DEF IndInv

\* A step of acme.sh keeps the invariant.
LEMMA AcmeKeepsIndInv ==
    ASSUME IndInv, NEW s \in Sources,
           Renew(s) \/ KeyWritten(s) \/ CrtTruncated(s) \/ CrtWritten(s) \/ CutOff(s)
    PROVE  IndInv'
<1> USE DEF IndInv
<1>1. UNCHANGED source
  BY DEF Renew, KeyWritten, CrtTruncated, CrtWritten, CutOff
<1>2. hs' = Disturbed(s) \/ UNCHANGED hs
  BY DEF Renew, KeyWritten, CrtTruncated, CrtWritten, CutOff
<1>3. \A t \in Sources : whole[t] \subseteq whole'[t]
  <2>1. whole' = whole \/ whole' = [whole EXCEPT ![s] = @ \cup {Last(s)}]
    BY DEF Renew, KeyWritten, CrtTruncated, CrtWritten, CutOff
  <2> QED BY <2>1 DEF TypeOK
<1>4. Last(s) \in Nat
  BY DEF TypeOK, Last
<1>5. TypeOK'
  <2>1. /\ notAfter' \in [Sources -> Seq(Nat)] /\ crt' \in [Sources -> Files]
        /\ key' \in [Sources -> Files] /\ now' \in Nat
        /\ acme' \in [Sources -> {"idle", "key", "crt", "fill"}]
        /\ whole' \in [Sources -> SUBSET Nat]
    <3>1. CASE Renew(s)
      <4>1. Append(notAfter[s], now + Lifetime) \in Seq(Nat) /\ File(Last(s) + 1, FALSE) \in Files
        BY <1>4, CertAssumption DEF TypeOK, File, Files
      <4> QED BY <3>1, <4>1 DEF Renew, TypeOK
    <3>2. CASE KeyWritten(s)
      BY <3>2 DEF KeyWritten, TypeOK, Files
    <3>3. CASE CrtTruncated(s)
      BY <1>4, <3>3 DEF CrtTruncated, TypeOK, File, Files
    <3>4. CASE CrtWritten(s)
      BY <1>4, <3>4 DEF CrtWritten, TypeOK, Files
    <3>5. CASE CutOff(s)
      BY <3>5 DEF CutOff, TypeOK
    <3> QED BY <3>1, <3>2, <3>3, <3>4, <3>5
  <2> QED BY <1>1, <1>2, <2>1, DisturbedIsTyped DEF TypeOK, source
<1>6. LockIsHeld'
  BY <1>1, <1>2, DisturbedIsTyped DEF LockIsHeld, source, InLock
<1>7. DiskIsAhead'
  <2> SUFFICES ASSUME NEW t \in Sources
               PROVE  /\ cert'[t] \in whole'[t] /\ cert'[t] > 0
                      /\ cert'[t] <= crt'[t].n /\ crt'[t].n <= Len(notAfter'[t])
                      /\ crt'[t].full => crt'[t].n \in whole'[t]
                      /\ acme'[t] = "fill" => crt'[t].n = Len(notAfter'[t])
    BY DEF DiskIsAhead, Last
  <2>1. CASE Renew(s)
    <3>1. Len(notAfter'[t]) >= Len(notAfter[t])
      BY <2>1, CertAssumption DEF Renew, TypeOK
    <3>2. /\ cert[t] \in whole[t] /\ cert[t] > 0 /\ cert[t] \in Nat
          /\ cert[t] <= crt[t].n /\ crt[t].n <= Len(notAfter[t])
          /\ crt[t].full => crt[t].n \in whole[t]
          /\ acme[t] = "fill" => crt[t].n = Len(notAfter[t])
          /\ crt[t].n \in Nat /\ Len(notAfter[t]) \in Nat
      BY <1>1 DEF DiskIsAhead, Last, TypeOK, Files
    <3>3. /\ UNCHANGED <<cert, crt, whole>>
          /\ t # s => UNCHANGED <<acme[t], notAfter[t]>>
          /\ t = s => acme'[t] = "key"
      BY <1>1, <2>1 DEF Renew, TypeOK, source
    <3>4. Len(notAfter'[t]) \in Nat
      BY <1>1, <2>1, CertAssumption DEF Renew, TypeOK
    <3> QED BY <3>1, <3>2, <3>3, <3>4
  <2>2. CASE KeyWritten(s) \/ CutOff(s)
    BY <1>1, <2>2 DEF KeyWritten, CutOff, DiskIsAhead, Last, TypeOK, source
  <2>3. CASE CrtTruncated(s)
    BY <1>1, <1>4, <2>3 DEF CrtTruncated, DiskIsAhead, Last, TypeOK, File, Files, source
  <2>4. CASE CrtWritten(s)
    BY <1>1, <1>4, <2>4 DEF CrtWritten, DiskIsAhead, Last, TypeOK, Files, source
  <2> QED BY <2>1, <2>2, <2>3, <2>4
<1>8. ReadIsAhead'
  <2> SUFFICES ASSUME NEW h \in Handshakes, hs'[h].pc \in {"readKey", "pair"}, hs'[h].crt # 0
               PROVE  /\ hs'[h].crt \in whole'[hs'[h].src] /\ cert'[hs'[h].src] <= hs'[h].crt
                      /\ hs'[h].crt <= crt'[hs'[h].src].n
    BY DEF ReadIsAhead
  <2>0. \A t \in Sources : crt[t].n <= crt'[t].n /\ {crt[t].n, crt'[t].n} \subseteq Nat
    <3>1. \/ crt' = crt \/ crt' = [crt EXCEPT ![s] = File(Last(s), FALSE)]
          \/ crt' = [crt EXCEPT ![s].full = TRUE]
      BY DEF Renew, KeyWritten, CrtTruncated, CrtWritten, CutOff
    <3>2. crt \in [Sources -> Files] /\ \A t \in Sources : crt[t].n <= Last(t)
      BY DEF TypeOK, DiskIsAhead
    <3> QED BY <1>4, <3>1, <3>2 DEF Files, File
  <2>1. hs'[h].pc = hs[h].pc /\ hs'[h].src = hs[h].src /\ hs'[h].crt = hs[h].crt
    BY <1>2, DisturbedIsTyped
  <2>2. hs[h].src \in Sources
    BY <2>1, PositionsByPc
  <2>3. hs[h].crt \in Nat
    BY <2>1, PositionsByPc
  <2> QED BY <1>1, <1>3, <2>0, <2>1, <2>2, <2>3 DEF ReadIsAhead, source
<1> QED BY <1>5, <1>6, <1>7, <1>8

\* A handshake goes to another position and nothing but the lock and nextCheck changes.
LEMMA QuietStep ==
    ASSUME IndInv, NEW h \in Handshakes, NEW p \in Positions,
           hs' = [hs EXCEPT ![h] = p], UNCHANGED <<now, disk, cert, crtMod, keyMod>>,
           lock' \in [Sources -> Handshakes \cup {Nobody}],
           \A s \in Sources : lock'[s] = h <=> (p.pc \in InLock /\ p.src = s),
           \A s \in Sources, g \in Handshakes \ {h} : lock'[s] = g <=> lock[s] = g,
           (p.pc \in {"readKey", "pair"} /\ p.crt # 0) =>
               p.crt \in whole[p.src] /\ cert[p.src] <= p.crt /\ p.crt <= crt[p.src].n
    PROVE  IndInv'
<1>1. TypeOK'
  BY DEF IndInv, TypeOK, disk
<1>2. \A g \in Handshakes : hs'[g] = IF g = h THEN p ELSE hs[g]
  BY DEF IndInv, TypeOK
<1>3. LockIsHeld'
  BY <1>2 DEF IndInv, LockIsHeld
<1>4. DiskIsAhead'
  BY DEF IndInv, DiskIsAhead, disk, Last
<1>5. ReadIsAhead'
  BY <1>2 DEF IndInv, ReadIsAhead, disk
<1> QED BY <1>1, <1>3, <1>4, <1>5 DEF IndInv

\* The answers to a handshake at work are positions.
LEMMA Answers ==
    ASSUME TypeOK, NEW h \in Handshakes, hs[h].pc \notin {"idle", "done"}
    PROVE  /\ \A still \in BOOLEAN, n \in Nat :
                 LET p == Done(hs[h].src, hs[h].began, still, n)
                 IN  p \in Positions /\ p.pc = "done" /\ p.src = hs[h].src
BY PositionsByPc DEF Done, Answered, Working, Positions

\* What a handshake finds is a number.
LEMMA Numbers ==
    ASSUME TypeOK, NEW s \in Sources
    PROVE  {cert[s], crt[s].n, key[s].n, Content(crt[s]), Content(key[s])} \subseteq Nat
BY DEF TypeOK, Files, Content

\* A handshake that takes no lock and gives none back.
LEMMA OutsideTheLock ==
    ASSUME IndInv, NEW h \in Handshakes, Begin(h) \/ Stat(h) \/ Ends(h)
    PROVE  IndInv'
<1> USE DEF IndInv
<1>1. /\ UNCHANGED <<now, disk, source>> /\ hs[h].pc \notin InLock
      /\ \E p \in Positions : /\ hs' = [hs EXCEPT ![h] = p]
                             /\ p.pc \in {"idle", "stat", "lock", "done"}
  <2>1. CASE Begin(h)
    <3>1. PICK t \in Sources : hs' = [hs EXCEPT ![h] =
               IF now < nextCheck[t] THEN Done(t, now, TRUE, cert[t])
               ELSE [pc |-> "stat", src |-> t, began |-> now, still |-> TRUE,
                     crtMod |-> 0, keyMod |-> 0, crt |-> 0, key |-> 0]]
      BY <2>1 DEF Begin, Goes, CertificateForName, Sources
    <3>2. Done(t, now, TRUE, cert[t]) \in Answered
      BY DEF Done, Answered, TypeOK
    <3>3. [pc |-> "stat", src |-> t, began |-> now, still |-> TRUE,
           crtMod |-> 0, keyMod |-> 0, crt |-> 0, key |-> 0] \in Working
      BY DEF Working, TypeOK
    <3>4. PICK p : hs' = [hs EXCEPT ![h] = p] /\ p \in Positions /\ p.pc \in {"stat", "done"}
      <4>1. CASE now < nextCheck[t]
        <5>1. hs' = [hs EXCEPT ![h] = Done(t, now, TRUE, cert[t])]
          BY <3>1, <4>1
        <5>2. Done(t, now, TRUE, cert[t]).pc = "done"
          BY DEF Done
        <5> QED BY <3>2, <5>1, <5>2 DEF Positions
      <4>2. CASE ~(now < nextCheck[t])
        <5> DEFINE p == [pc |-> "stat", src |-> t, began |-> now, still |-> TRUE,
                         crtMod |-> 0, keyMod |-> 0, crt |-> 0, key |-> 0]
        <5>1. hs' = [hs EXCEPT ![h] = p]
          BY <3>1, <4>2
        <5>2. p \in Working /\ p.pc = "stat"
          BY <3>3
        <5> HIDE DEF p
        <5> QED BY <5>1, <5>2 DEF Positions
      <4> QED BY <4>1, <4>2
    <3> QED BY <2>1, <3>4 DEF Begin, InLock
  <2>2. CASE Stat(h)
    <3>1. hs[h].pc \notin {"idle", "done"} /\ UNCHANGED <<now, disk, source>> /\ hs[h].pc \notin InLock
      BY <2>2 DEF Stat, InLock
    <3>2. hs' \in {[hs EXCEPT ![h] = Done(hs[h].src, hs[h].began, hs[h].still, cert[hs[h].src])],
                   [hs EXCEPT ![h] = [hs[h] EXCEPT !.pc = "lock"]]}
      BY <2>2 DEF Stat, Answer, AnswerWith, Goes
    <3>3. hs[h].still \in BOOLEAN /\ cert[hs[h].src] \in Nat
      BY <3>1, PositionsByPc, Numbers
    <3>4. /\ Done(hs[h].src, hs[h].began, hs[h].still, cert[hs[h].src]) \in Positions
          /\ Done(hs[h].src, hs[h].began, hs[h].still, cert[hs[h].src]).pc = "done"
      BY <3>1, <3>3, Answers
    <3>5. [hs[h] EXCEPT !.pc = "lock"] \in Positions /\ [hs[h] EXCEPT !.pc = "lock"].pc = "lock"
      BY <3>1, PositionsByPc DEF Working, Positions
    <3> QED BY <3>1, <3>2, <3>4, <3>5
  <2>3. CASE Ends(h)
    <3>1. Idle \in Positions /\ Idle.pc = "idle"
      BY DEF Positions, Idle
    <3> QED BY <2>3, <3>1 DEF Ends, Goes, InLock
  <2> QED BY <2>1, <2>2, <2>3
<1>2. PICK p \in Positions : hs' = [hs EXCEPT ![h] = p] /\ p.pc \in {"idle", "stat", "lock", "done"}
  BY <1>1
<1>3. p.pc \notin InLock /\ p.pc \notin {"readKey", "pair"}
  BY <1>2 DEF InLock
<1>4. \A s \in Sources : lock[s] # h
  BY <1>1 DEF LockIsHeld
<1> QED BY <1>1, <1>2, <1>3, <1>4, QuietStep DEF source, TypeOK

\* A handshake that reads with the lock, or takes it.
LEMMA ReadingWithTheLock ==
    ASSUME IndInv, NEW h \in Handshakes, Lock(h) \/ StatCrt(h) \/ ReadCrt(h) \/ ReadKey(h)
    PROVE  IndInv'
<1> USE DEF IndInv
<1> DEFINE s == hs[h].src
<1>1. hs[h].pc \notin {"idle", "done"} /\ UNCHANGED <<now, disk, cert, crtMod, keyMod>>
  BY DEF Lock, StatCrt, ReadCrt, ReadKey, source
<1>2. s \in Sources /\ s \in DOMAIN lock
  BY <1>1, PositionsByPc DEF TypeOK
<1>3. {crt[s].n, Content(crt[s]), Content(key[s])} \subseteq Nat
  BY <1>2, Numbers
<1>4. PICK p : /\ hs' = [hs EXCEPT ![h] = p]
               /\ p \in Positions /\ p.pc \in InLock /\ p.src = s
               /\ p.pc = "readKey" => p.crt = Content(crt[s])
               /\ p.pc = "pair" => hs[h].pc = "readKey" /\ p.crt = hs[h].crt
  <2>0. hs[h] \in Working
    BY <1>1, PositionsByPc
  <2>1. CASE Lock(h)
    <3> DEFINE p == [hs[h] EXCEPT !.pc = "statCrt"]
    <3>1. p \in Working /\ p.src = s /\ p.pc \in InLock /\ p.pc = "statCrt"
      BY <1>3, <2>0, <2>1 DEF Lock, Working, InLock
    <3>2. hs' = [hs EXCEPT ![h] = p] /\ hs[h].pc = "lock"
      BY <2>1 DEF Lock, Goes
    <3> HIDE DEF p
    <3> QED BY <3>1, <3>2 DEF Positions
  <2>2. CASE StatCrt(h)
    <3> DEFINE p == [hs[h] EXCEPT !.pc = "statKey", !.crtMod = crt[s].n]
    <3>1. p \in Working /\ p.src = s /\ p.pc \in InLock /\ p.pc = "statKey"
      BY <1>3, <2>0, <2>2 DEF StatCrt, Working, InLock
    <3>2. hs' = [hs EXCEPT ![h] = p] /\ hs[h].pc = "statCrt"
      BY <2>2 DEF StatCrt, Goes
    <3> HIDE DEF p
    <3> QED BY <3>1, <3>2 DEF Positions
  <2>3. CASE ReadCrt(h)
    <3> DEFINE p == [hs[h] EXCEPT !.pc = "readKey", !.crt = Content(crt[s])]
    <3>1. p \in Working /\ p.src = s /\ p.pc \in InLock
          /\ p.pc = "readKey" /\ p.crt = Content(crt[s])
      BY <1>3, <2>0, <2>3 DEF ReadCrt, Working, InLock
    <3>2. hs' = [hs EXCEPT ![h] = p] /\ hs[h].pc = "readCrt"
      BY <2>3 DEF ReadCrt, Goes
    <3> HIDE DEF p
    <3> QED BY <3>1, <3>2 DEF Positions
  <2>4. CASE ReadKey(h)
    <3> DEFINE p == [hs[h] EXCEPT !.pc = "pair", !.key = Content(key[s])]
    <3>1. p \in Working /\ p.src = s /\ p.pc \in InLock
          /\ p.pc = "pair" /\ p.crt = hs[h].crt
      BY <1>3, <2>0, <2>4 DEF ReadKey, Working, InLock
    <3>2. hs' = [hs EXCEPT ![h] = p] /\ hs[h].pc = "readKey"
      BY <2>4 DEF ReadKey, Goes
    <3> HIDE DEF p
    <3> QED BY <3>1, <3>2 DEF Positions
  <2> QED BY <2>1, <2>2, <2>3, <2>4
<1>5. /\ lock' \in [Sources -> Handshakes \cup {Nobody}]
      /\ \A t \in Sources : lock'[t] = h <=> t = s
      /\ \A t \in Sources, g \in Handshakes \ {h} : lock'[t] = g <=> lock[t] = g
  <2>1. CASE Lock(h)
    <3>1. \A t \in Sources : lock[t] # h
      BY <2>1 DEF Lock, LockIsHeld, InLock
    <3> QED BY <1>2, <2>1, <3>1, CertAssumption DEF Lock, TypeOK
  <2>2. CASE StatCrt(h) \/ ReadCrt(h) \/ ReadKey(h)
    BY <1>2, <2>2 DEF StatCrt, ReadCrt, ReadKey, source, LockIsHeld, InLock, TypeOK
  <2> QED BY <2>1, <2>2
<1>6. (p.pc \in {"readKey", "pair"} /\ p.crt # 0) =>
         p.crt \in whole[s] /\ cert[s] <= p.crt /\ p.crt <= crt[s].n
  BY <1>2, <1>3, <1>4 DEF ReadIsAhead, DiskIsAhead, Content, TypeOK, Files
<1>7. /\ \A t \in Sources : lock'[t] = h <=> (p.pc \in InLock /\ p.src = t)
      /\ (p.pc \in {"readKey", "pair"} /\ p.crt # 0) =>
            p.crt \in whole[p.src] /\ cert[p.src] <= p.crt /\ p.crt <= crt[p.src].n
  BY <1>4, <1>5, <1>6
<1> QED BY <1>1, <1>4, <1>5, <1>7, QuietStep

\* A handshake that gives the lock back, or goes on to read the files.
LEMMA GivingTheLockBack ==
    ASSUME IndInv, NEW h \in Handshakes, StatKey(h) \/ FileFails(h) \/ Pair(h)
    PROVE  IndInv'
<1> USE DEF IndInv
<1> DEFINE s == hs[h].src
           done(still, n) == Done(s, hs[h].began, still, n)
<1>1. hs[h].pc \notin {"idle", "done"} /\ UNCHANGED <<now, disk>>
  BY DEF StatKey, FileFails, Pair
<1>2. s \in Sources /\ hs[h].still \in BOOLEAN /\ {hs[h].crt, hs[h].crtMod, hs[h].keyMod} \subseteq Nat
  BY <1>1, PositionsByPc
<1>3. {cert[s], key[s].n} \subseteq Nat
  BY <1>2, Numbers
<1>4. \A still \in BOOLEAN, n \in Nat :
         done(still, n) \in Positions /\ done(still, n).pc = "done" /\ done(still, n).src = s
  BY <1>1, Answers
<1>5. ASSUME Unlock(h), hs[h].pc \in InLock
      PROVE  /\ lock' \in [Sources -> Handshakes \cup {Nobody}]
             /\ \A t \in Sources : lock'[t] # h
             /\ \A t \in Sources, g \in Handshakes \ {h} : lock'[t] = g <=> lock[t] = g
  <2>1. lock \in [Sources -> Handshakes \cup {Nobody}] /\ Nobody \notin Handshakes
    BY CertAssumption DEF TypeOK
  <2>2. lock[s] = h /\ \A t \in Sources : t # s => lock[t] # h
    BY <1>2, <1>5 DEF LockIsHeld
  <2>3. lock' = [lock EXCEPT ![s] = Nobody]
    BY <1>5 DEF Unlock
  <2> QED BY <1>2, <2>1, <2>2, <2>3
<1>6. ASSUME NEW still \in BOOLEAN, NEW n \in Nat, hs' = [hs EXCEPT ![h] = done(still, n)],
             UNCHANGED <<cert, crtMod, keyMod>>, Unlock(h), hs[h].pc \in InLock
      PROVE  IndInv'
  <2>1. done(still, n).pc \notin InLock /\ done(still, n).pc \notin {"readKey", "pair"}
    BY <1>4 DEF InLock
  <2> HIDE DEF done
  <2> QED BY <1>1, <1>4, <1>5, <1>6, <2>1, QuietStep
<1>7. CASE StatKey(h)
  <2>1. hs[h].pc \in InLock /\ UNCHANGED <<cert, crtMod, keyMod>>
    BY <1>7 DEF StatKey, InLock
  <2>2. CASE Answer(h) /\ Unlock(h)
    BY <1>2, <1>3, <1>6, <2>1, <2>2 DEF Answer, AnswerWith, Goes
  <2>3. CASE Goes(h, [hs[h] EXCEPT !.pc = "readCrt", !.keyMod = key[s].n]) /\ UNCHANGED lock
    <3> DEFINE p == [hs[h] EXCEPT !.pc = "readCrt", !.keyMod = key[s].n]
    <3>1. p \in Positions /\ p.pc = "readCrt" /\ p.src = s
      BY <1>1, <1>3, PositionsByPc DEF Working, Positions, InLock
    <3>2. hs' = [hs EXCEPT ![h] = p]
      BY <2>3 DEF Goes
    <3>3. /\ \A t \in Sources : lock'[t] = h <=> (p.pc \in InLock /\ p.src = t)
          /\ \A t \in Sources, g \in Handshakes \ {h} : lock'[t] = g <=> lock[t] = g
      BY <2>1, <2>3, <3>1 DEF LockIsHeld, InLock
    <3>4. lock' \in [Sources -> Handshakes \cup {Nobody}] /\ p.pc \notin {"readKey", "pair"}
      BY <2>3, <3>1 DEF TypeOK
    <3> HIDE DEF p
    <3> QED BY <1>1, <2>1, <3>1, <3>2, <3>3, <3>4, QuietStep
  <2> QED BY <1>7, <2>2, <2>3 DEF StatKey
<1>8. CASE FileFails(h)
  <2>1. hs' = [hs EXCEPT ![h] = done(FALSE, cert[s])] /\ UNCHANGED <<cert, crtMod, keyMod>>
    BY <1>8 DEF FileFails, Goes
  <2>2. CASE hs[h].pc = "stat"
    <3>1. UNCHANGED lock /\ \A t \in Sources : lock[t] # h
      BY <1>8, <2>2 DEF FileFails, LockIsHeld, InLock
    <3>2. done(FALSE, cert[s]).pc \notin InLock /\ done(FALSE, cert[s]).pc \notin {"readKey", "pair"}
      BY <1>3, <1>4 DEF InLock
    <3>3. done(FALSE, cert[s]) \in Positions
      BY <1>3, <1>4
    <3> HIDE DEF done
    <3> QED BY <1>1, <2>1, <3>1, <3>2, <3>3, QuietStep DEF TypeOK
  <2>3. CASE hs[h].pc # "stat"
    BY <1>3, <1>6, <1>8, <2>1, <2>3 DEF FileFails, InLock
  <2> QED BY <2>2, <2>3
<1>9. CASE Pair(h)
  <2>1. hs[h].pc = "pair" /\ hs[h].pc \in InLock /\ Unlock(h) /\ lock[s] = h
    BY <1>2, <1>9 DEF Pair, InLock, LockIsHeld
  <2>2. CASE Answer(h) /\ UNCHANGED <<cert, crtMod, keyMod>>
    BY <1>2, <1>3, <1>6, <2>1, <2>2 DEF Answer, AnswerWith, Goes
  <2>3. CASE ~(Answer(h) /\ UNCHANGED <<cert, crtMod, keyMod>>)
    <3>1. /\ hs[h].crt # 0
          /\ cert' = [cert EXCEPT ![s] = hs[h].crt]
          /\ crtMod' = [crtMod EXCEPT ![s] = hs[h].crtMod]
          /\ keyMod' = [keyMod EXCEPT ![s] = hs[h].keyMod]
          /\ hs' = [hs EXCEPT ![h] = done(hs[h].still, hs[h].crt)]
      BY <1>9, <2>3 DEF Pair, Goes, AnswerWith
    <3>2. hs[h].crt \in whole[s] /\ cert[s] <= hs[h].crt /\ hs[h].crt <= crt[s].n
      BY <2>1, <3>1 DEF ReadIsAhead
    <3>3. /\ lock' \in [Sources -> Handshakes \cup {Nobody}]
          /\ \A t \in Sources : lock'[t] # h
          /\ \A t \in Sources, g \in Handshakes \ {h} : lock'[t] = g <=> lock[t] = g
      BY <1>5, <2>1
    <3>4. hs'[h] \in Positions /\ hs'[h].pc = "done" /\ \A g \in Handshakes \ {h} : hs'[g] = hs[g]
      BY <1>2, <1>4, <3>1 DEF TypeOK
    <3>5. TypeOK'
      <4>1. cert' \in [Sources -> Nat] /\ crtMod' \in [Sources -> Nat] /\ keyMod' \in [Sources -> Nat]
        BY <1>2, <3>1 DEF TypeOK
      <4>2. hs' \in [Handshakes -> Positions]
        BY <3>1, <3>4 DEF TypeOK
      <4> QED BY <1>1, <3>3, <4>1, <4>2 DEF TypeOK, disk
    <3>6. LockIsHeld'
      BY <3>3, <3>4 DEF LockIsHeld, InLock
    <3>7. DiskIsAhead'
      BY <1>1, <1>2, <3>1, <3>2 DEF DiskIsAhead, disk, Last, TypeOK
    <3>8. ReadIsAhead'
      <4> SUFFICES ASSUME NEW g \in Handshakes, hs'[g].pc \in {"readKey", "pair"}, hs'[g].crt # 0
                   PROVE  /\ hs'[g].crt \in whole'[hs'[g].src] /\ cert'[hs'[g].src] <= hs'[g].crt
                          /\ hs'[g].crt <= crt'[hs'[g].src].n
        BY DEF ReadIsAhead
      <4>1. g # h /\ hs'[g] = hs[g]
        BY <3>4
      <4>2. hs[g].src \in Sources
        BY <4>1, PositionsByPc
      <4>3. hs[g].src # s
        BY <1>2, <2>1, <4>1 DEF LockIsHeld, InLock
      <4> QED BY <1>1, <3>1, <4>1, <4>2, <4>3 DEF ReadIsAhead, disk, TypeOK
    <3> QED BY <3>5, <3>6, <3>7, <3>8
  <2> QED BY <2>2, <2>3
<1> QED BY <1>7, <1>8, <1>9

\* Every step keeps the invariant.
LEMMA IndInvNext == IndInv /\ [Next]_vars => IndInv'
<1> SUFFICES ASSUME IndInv, [Next]_vars PROVE IndInv'
  OBVIOUS
<1> USE DEF IndInv
<1>1. CASE \E s \in Sources : Renew(s) \/ KeyWritten(s) \/ CrtTruncated(s) \/ CrtWritten(s) \/ CutOff(s)
  BY <1>1, AcmeKeepsIndInv
<1>2. CASE \E h \in Handshakes :
          \/ Begin(h) \/ Stat(h) \/ Lock(h) \/ StatCrt(h) \/ StatKey(h) \/ ReadCrt(h) \/ ReadKey(h)
          \/ Pair(h) \/ FileFails(h) \/ Ends(h)
  BY <1>2, OutsideTheLock, ReadingWithTheLock, GivingTheLockBack
<1>3. CASE Tick
  BY <1>3 DEF Tick, TypeOK, LockIsHeld, DiskIsAhead, ReadIsAhead, disk, source, Last
<1>4. CASE Restart
  <2>1. TypeOK'
    BY <1>4 DEF Restart, TypeOK, disk, Positions, Files
  <2>2. LockIsHeld' /\ ReadIsAhead'
    BY <1>4, CertAssumption DEF Restart, LockIsHeld, ReadIsAhead, InLock, Idle
  <2>3. DiskIsAhead'
    BY <1>4 DEF Restart, DiskIsAhead, disk, Whole, Last, TypeOK, Files
  <2> QED BY <2>1, <2>2, <2>3
<1>5. CASE UNCHANGED vars
  BY <1>5 DEF vars, TypeOK, LockIsHeld, DiskIsAhead, ReadIsAhead, disk, source, Last
<1> QED BY <1>1, <1>2, <1>3, <1>4, <1>5 DEF Next

-----------------------------------------------------------------------------
\* The invariant holds in every reachable state: a reload is never overtaken (tls.go:126).
THEOREM ReloadsAreNotOvertaken == Spec => []IndInv
<1> QED BY IndInvInit, IndInvNext, PTL DEF Spec

\* Each source gives out one whole installed pair and never goes back to an earlier one: CertReload
\* implements CertPromise (certSource.Certificate, tls.go:97).
THEOREM CertReloadImplementsPromise == Spec => KeepsCertPromise
<1>1. Init => Promise!Init
  BY DEF Init, Promise!Init
<1>2. IndInv /\ IndInv' /\ [Next]_vars => [Promise!Next]_<<cert, whole>>
  <2> SUFFICES ASSUME IndInv, IndInv', [Next]_vars, ~UNCHANGED <<cert, whole>>
               PROVE  Promise!Next
    OBVIOUS
  <2>1. ASSUME NEW s \in Sources, CrtWritten(s) PROVE Promise!Install
    BY <2>1 DEF CrtWritten, IndInv, TypeOK, Promise!Install, source
  <2>2. ASSUME NEW h \in Handshakes, Pair(h) PROVE Promise!Serve \/ UNCHANGED <<cert, whole>>
    <3>1. hs[h].src \in Sources /\ hs[h].crt \in Nat
      BY <2>2, PositionsByPc DEF Pair, IndInv
    <3>2. UNCHANGED whole /\ hs[h].pc = "pair"
      BY <2>2 DEF Pair, disk
    <3>3. cert' = cert \/ (hs[h].crt # 0 /\ cert' = [cert EXCEPT ![hs[h].src] = hs[h].crt])
      BY <2>2 DEF Pair
    <3>4. ASSUME hs[h].crt # 0, cert' = [cert EXCEPT ![hs[h].src] = hs[h].crt]
          PROVE  \A s \in Sources : cert'[s] >= cert[s] /\ cert'[s] \in whole[s]
      BY <3>1, <3>2, <3>4 DEF IndInv, TypeOK, DiskIsAhead, ReadIsAhead
    <3> QED BY <3>2, <3>3, <3>4 DEF Promise!Serve, IndInv, TypeOK
  <2>3. CASE Restart
    <3>1. UNCHANGED whole
      BY <2>3 DEF Restart, disk
    <3>2. \A s \in Sources : cert'[s] = crt[s].n /\ crt[s].full
      BY <2>3 DEF Restart, Whole
    <3>3. \A s \in Sources : cert'[s] >= cert[s] /\ cert'[s] \in whole[s]
      BY <3>2 DEF IndInv, TypeOK, DiskIsAhead, Files
    <3>4. cert' \in [Sources -> Nat]
      BY DEF IndInv, TypeOK
    <3> QED BY <3>1, <3>3, <3>4 DEF Promise!Serve, Promise!Next
  <2>4. CASE ~Restart /\ (\A s \in Sources : ~CrtWritten(s)) /\ (\A h \in Handshakes : ~Pair(h))
    BY <2>4 DEF Next, Renew, KeyWritten, CrtTruncated, CutOff, Begin, Stat, Lock, StatCrt, StatKey,
                ReadCrt, ReadKey, FileFails, Ends, Tick, vars, source, disk
  <2> QED BY <2>1, <2>2, <2>3, <2>4 DEF Promise!Next
<1> QED BY <1>1, <1>2, ReloadsAreNotOvertaken, PTL DEF Spec, KeepsCertPromise, Promise!Spec

-----------------------------------------------------------------------------
(* RenewalReachesVisitors                                                  *)

\* Positions at which the time of the certificate has been taken, and its content.
Stamped == {"statKey", "readCrt", "readKey", "pair"}
Holding == {"readKey", "pair"}

TimesOK ==
    /\ since \in [Sources -> Nat] /\ nextCheck \in [Sources -> Nat]
    /\ \A s \in Sources : since[s] <= now

\* While the key is that of a renewal, the certificate is not yet.
KeyComesFirst == \A s \in Sources :
    acme[s] \in {"key", "crt"} => key[s].n = Last(s) /\ crt[s].n < Last(s)

\* The next look at the files is at most one Retry after t, or before the pair expires.
LooksBy(s, t) == nextCheck[s] <= t + Retry \/ nextCheck[s] <= notAfter[s][cert[s]]

\* The time that is remembered is not after the pair it is of, and a pair that is out of date is
\* looked at in time.
SourceIsFresh(s) ==
    /\ crtMod[s] <= cert[s]
    /\ LooksBy(s, now)
    /\ Whole(s) /\ cert[s] # crt[s].n => LooksBy(s, since[s])

\* The time a handshake took is not after what it has read.  What it has read of a pair that
\* stayed as it is, or that was there before the clock moved last, is that pair.
ReadingIsFresh(r) == r.pc \in Stamped =>
    /\ r.crtMod <= crt[r.src].n
    /\ r.pc \in Holding /\ r.crt # 0 => r.crtMod <= r.crt
    /\ Whole(r.src) /\ (r.still \/ since[r.src] < now) =>
          /\ r.crtMod = crt[r.src].n
          /\ r.pc \in Holding => r.crt = crt[r.src].n
          /\ r.pc = "pair" => r.key = crt[r.src].n

AnswerIsFresh(r) == r.pc = "done" =>
    ((/\ r.still /\ Whole(r.src) /\ r.began >= since[r.src] + Retry
      /\ notAfter[r.src][r.got] < r.began) => r.got = crt[r.src].n)

FreshInv ==
    /\ TimesOK /\ KeyComesFirst
    /\ \A s \in Sources : SourceIsFresh(s)
    /\ \A h \in Handshakes : ReadingIsFresh(hs[h]) /\ AnswerIsFresh(hs[h])

\* NextCertificateCheck gives a time that is near, or before the expiry.
LEMMA NextCheckIsNear ==
    ASSUME TypeOK, NEW s \in Sources, NEW n \in 1..Last(s)
    PROVE  /\ NextCertificateCheck(s, n, now) \in Nat
           /\ \/ NextCertificateCheck(s, n, now) <= now + Retry
              \/ NextCertificateCheck(s, n, now) <= notAfter[s][n]
<1>1. notAfter[s][n] \in Nat /\ now \in Nat /\ Before \in Nat /\ Retry \in Nat
  BY CertAssumption DEF TypeOK, Last
<1>2. CASE notAfter[s][n] < now + Before
  BY <1>1, <1>2 DEF NextCertificateCheck
<1>3. CASE ~(notAfter[s][n] < now + Before)
  BY <1>1, <1>3 DEF NextCertificateCheck
<1> QED BY <1>2, <1>3

\* The numbers that the invariant compares.
LEMMA DiskIsTyped ==
    ASSUME IndInv, NEW s \in Sources
    PROVE  /\ cert[s] \in 1..Last(s) /\ crt[s].n \in 1..Last(s)
           /\ crtMod[s] \in Nat /\ key[s].n \in Nat /\ Last(s) \in Nat
           /\ crt[s].full \in BOOLEAN /\ key[s].full \in BOOLEAN
           /\ now \in Nat /\ Retry \in Nat
           /\ notAfter[s][cert[s]] \in Nat
BY CertAssumption DEF IndInv, TypeOK, Files, DiskIsAhead, Last

\* The initial state satisfies the invariant.
LEMMA FreshInvInit == Init => FreshInv
<1> SUFFICES ASSUME Init PROVE FreshInv
  OBVIOUS
<1>0. IndInv
  BY IndInvInit
<1>1. TimesOK /\ KeyComesFirst
  <2>1. \A s \in Sources : NextCertificateCheck(s, 1, 0) \in Nat
    BY <1>0, NextCheckIsNear, DiskIsTyped DEF Init, IndInv, Last
  <2> QED BY <2>1 DEF Init, TimesOK, KeyComesFirst
<1>2. ASSUME NEW s \in Sources PROVE SourceIsFresh(s)
  <2>1. 1 \in 1..Last(s) /\ now = 0
    BY DEF Init, Last
  <2> QED BY <1>0, <2>1, NextCheckIsNear DEF Init, SourceIsFresh, LooksBy, File, IndInv
<1>3. \A h \in Handshakes : ReadingIsFresh(hs[h]) /\ AnswerIsFresh(hs[h])
  BY DEF Init, ReadingIsFresh, AnswerIsFresh, Stamped, Idle
<1> QED BY <1>1, <1>2, <1>3 DEF FreshInv

\* A step of one handshake; what it writes to its source is fresh.
LEMMA FreshStep ==
    ASSUME IndInv, FreshInv, NEW h \in Handshakes, NEW p,
           UNCHANGED <<now, disk>>, hs' = [hs EXCEPT ![h] = p],
           nextCheck' \in [Sources -> Nat], \A s \in Sources : SourceIsFresh(s)',
           ReadingIsFresh(p), AnswerIsFresh(p)
    PROVE  FreshInv'
<1>1. TimesOK' /\ KeyComesFirst'
  BY DEF FreshInv, TimesOK, KeyComesFirst, disk, Last
<1>2. ASSUME NEW g \in Handshakes PROVE ReadingIsFresh(hs[g])' /\ AnswerIsFresh(hs[g])'
  <2>1. hs'[g] = IF g = h THEN p ELSE hs[g]
    BY DEF IndInv, TypeOK
  <2>2. ReadingIsFresh(hs'[g]) /\ AnswerIsFresh(hs'[g])
    BY <2>1 DEF FreshInv
  <2> QED BY <2>2 DEF ReadingIsFresh, AnswerIsFresh, disk, Whole
<1> QED BY <1>1, <1>2 DEF FreshInv

\* A step of one handshake that leaves its source alone.
LEMMA FreshQuietStep ==
    ASSUME IndInv, FreshInv, NEW h \in Handshakes, NEW p,
           UNCHANGED <<now, disk, cert, crtMod, nextCheck>>, hs' = [hs EXCEPT ![h] = p],
           ReadingIsFresh(p), AnswerIsFresh(p)
    PROVE  FreshInv'
<1>1. \A s \in Sources : SourceIsFresh(s)'
  BY DEF FreshInv, SourceIsFresh, LooksBy, disk, Whole
<1>2. nextCheck' \in [Sources -> Nat]
  BY DEF FreshInv, TimesOK
<1> QED BY <1>1, <1>2, FreshStep

\* A step of acme.sh.
LEMMA AcmeKeepsFresh ==
    ASSUME IndInv, IndInv', FreshInv, NEW s \in Sources,
           Renew(s) \/ KeyWritten(s) \/ CrtTruncated(s) \/ CrtWritten(s) \/ CutOff(s)
    PROVE  FreshInv'
<1>1. UNCHANGED <<now, source>>
  BY DEF Renew, KeyWritten, CrtTruncated, CrtWritten, CutOff
<1>2. hs' = Disturbed(s) \/ (UNCHANGED hs /\ CutOff(s))
  BY DEF Renew, KeyWritten, CrtTruncated, CrtWritten, CutOff
<1>3. \A t \in Sources \ {s} : UNCHANGED <<notAfter[t], crt[t], key[t], acme[t], whole[t], since[t]>>
  BY DEF Renew, KeyWritten, CrtTruncated, CrtWritten, CutOff, IndInv, TypeOK, FreshInv, TimesOK
<1>4. ASSUME NEW t \in Sources, NEW n \in 1..Last(t) PROVE UNCHANGED notAfter[t][n]
  <2>1. CASE Renew(s) /\ t = s
    BY <2>1 DEF Renew, IndInv, TypeOK, Last
  <2>2. CASE ~(Renew(s) /\ t = s)
    BY <1>3, <2>2 DEF KeyWritten, CrtTruncated, CrtWritten, CutOff
  <2> QED BY <2>1, <2>2
<1>5. crt[s].n <= crt'[s].n
  <2>1. CASE CrtTruncated(s)
    BY <2>1, DiskIsTyped DEF CrtTruncated, IndInv, TypeOK, File
  <2>2. CASE CrtWritten(s)
    BY <2>2, DiskIsTyped DEF CrtWritten, IndInv, TypeOK, Files
  <2>3. CASE Renew(s) \/ KeyWritten(s) \/ CutOff(s)
    <3>1. crt' = crt
      BY <2>3 DEF Renew, KeyWritten, CutOff
    <3>2. crt[s].n \in Nat
      BY DiskIsTyped
    <3> QED BY <3>1, <3>2
  <2> QED BY <2>1, <2>2, <2>3
<1>6. KeyComesFirst'
  <2>1. acme'[s] \in {"key", "crt"} => key'[s].n = Last(s)' /\ crt'[s].n < Last(s)'
    <3>1. CASE Renew(s)
      BY <3>1, DiskIsTyped DEF Renew, IndInv, TypeOK, Last, File
    <3>2. CASE KeyWritten(s)
      BY <3>2 DEF KeyWritten, IndInv, TypeOK, Last, FreshInv, KeyComesFirst, Files
    <3>3. CASE CrtTruncated(s) \/ CrtWritten(s) \/ CutOff(s)
      BY <3>3 DEF CrtTruncated, CrtWritten, CutOff, IndInv, TypeOK
    <3> QED BY <3>1, <3>2, <3>3
  <2> QED BY <1>3, <2>1 DEF FreshInv, KeyComesFirst, Last
<1>7. TimesOK'
  <2>1. since' = since \/ since' = [since EXCEPT ![s] = now]
    BY DEF Renew, KeyWritten, CrtTruncated, CrtWritten, CutOff
  <2>2. since \in [Sources -> Nat] /\ now \in Nat /\ \A t \in Sources : since[t] <= now
    BY DEF FreshInv, TimesOK, IndInv, TypeOK
  <2>3. since' \in [Sources -> Nat] /\ \A t \in Sources : since'[t] <= now
    BY <2>1, <2>2
  <2> QED BY <1>1, <2>3 DEF FreshInv, TimesOK, source
<1>8. Whole(s)' => CutOff(s) \/ since'[s] = now
  <2>1. CASE Renew(s)
    BY <2>1, DiskIsTyped DEF Renew, IndInv, TypeOK, Whole, File
  <2>2. CASE KeyWritten(s)
    <3>1. crt'[s].n < Last(s) /\ key'[s].n = Last(s)
      BY <2>2 DEF KeyWritten, IndInv, TypeOK, FreshInv, KeyComesFirst, Files
    <3> QED BY <3>1, DiskIsTyped DEF Whole
  <2>3. CASE CrtTruncated(s)
    BY <2>3 DEF CrtTruncated, IndInv, TypeOK, Whole, File
  <2>4. CASE CrtWritten(s)
    BY <2>4 DEF CrtWritten, FreshInv, TimesOK
  <2> QED BY <2>1, <2>2, <2>3, <2>4
<1>9. ASSUME NEW t \in Sources PROVE SourceIsFresh(t)'
  <2>0. SourceIsFresh(t) /\ UNCHANGED <<now, nextCheck, cert, crtMod>>
    BY <1>1 DEF FreshInv, source
  <2>1. UNCHANGED notAfter[t][cert[t]]
    BY <1>4, <2>0, DiskIsTyped
  <2>2. crtMod'[t] <= cert'[t] /\ LooksBy(t, now)'
    BY <2>0, <2>1 DEF SourceIsFresh, LooksBy
  <2>3. ASSUME Whole(t)', cert'[t] # crt'[t].n PROVE LooksBy(t, since[t])'
    <3>1. CASE t = s /\ ~CutOff(s)
      BY <1>8, <2>0, <2>2, <2>3, <3>1 DEF LooksBy
    <3>2. CASE t # s \/ CutOff(s)
      <4>1. UNCHANGED <<crt[t], key[t], since[t]>>
        BY <1>3, <3>2 DEF CutOff
      <4> QED BY <2>0, <2>1, <2>3, <4>1 DEF SourceIsFresh, LooksBy, Whole
    <3> QED BY <3>1, <3>2
  <2> QED BY <2>2, <2>3 DEF SourceIsFresh
<1>10. ASSUME NEW h \in Handshakes PROVE ReadingIsFresh(hs[h])' /\ AnswerIsFresh(hs[h])'
  <2>0. ReadingIsFresh(hs[h]) /\ AnswerIsFresh(hs[h])
    BY DEF FreshInv
  <2>1. CASE hs[h].pc \in Stamped
    <3>0. PICK t \in Sources : t = hs[h].src
      BY <2>1, PositionsByPc DEF Stamped, IndInv
    <3>1. /\ hs[h] \in Working
          /\ hs'[h] = hs[h] \/ (t = s /\ hs'[h] = [hs[h] EXCEPT !.still = FALSE])
      <4>1. hs[h] \in Working /\ t = hs[h].src /\ hs[h].pc # "idle"
        BY <2>1, <3>0, PositionsByPc DEF Stamped, IndInv
      <4> QED BY <1>2, <4>1 DEF Disturbed
    <3>2. hs'[h].pc = hs[h].pc /\ hs'[h].src = t /\ hs'[h].crtMod = hs[h].crtMod
          /\ hs'[h].crt = hs[h].crt /\ hs'[h].key = hs[h].key
          /\ (hs'[h].still => hs[h].still)
      BY <3>0, <3>1 DEF Working
    <3>3. crt[t].n <= crt'[t].n /\ {hs[h].crtMod, crt[t].n, crt'[t].n} \subseteq Nat
      <4>1. crt[t] \in Files /\ crt'[t] \in Files
        BY DEF IndInv, TypeOK
      <4>2. crt[t].n <= crt'[t].n
        BY <1>3, <1>5, <4>1 DEF Files
      <4> QED BY <3>1, <4>1, <4>2 DEF Working, Files
    <3>4. ASSUME Whole(t)', hs'[h].still \/ since'[t] < now'
          PROVE  Whole(t) /\ (hs[h].still \/ since[t] < now) /\ crt'[t].n = crt[t].n
      <4>1. CASE t # s \/ CutOff(s)
        <5>1. UNCHANGED <<crt[t], key[t], since[t]>>
          BY <1>3, <3>1, <4>1 DEF CutOff
        <5> QED BY <1>1, <3>2, <3>4, <5>1 DEF Whole, source
      <4>2. CASE t = s /\ ~CutOff(s)
        <5>1. since'[s] = now /\ now \in Nat
          BY <1>8, <3>4, <4>2 DEF IndInv, TypeOK
        <5>2. hs'[h].still = FALSE
          <6>1. hs' = Disturbed(s) /\ hs[h].pc # "idle" /\ hs[h].src = s
            BY <1>2, <2>1, <3>0, <4>2 DEF Stamped
          <6>2. hs'[h] = [hs[h] EXCEPT !.still = FALSE]
            BY <6>1 DEF Disturbed
          <6> QED BY <3>1, <6>2 DEF Working
        <5> QED BY <1>1, <3>4, <4>2, <5>1, <5>2
      <4> QED BY <4>1, <4>2
    <3>5. ReadingIsFresh(hs[h])'
      BY <2>0, <3>0, <3>2, <3>3, <3>4 DEF ReadingIsFresh
    <3>6. AnswerIsFresh(hs[h])'
      BY <2>1, <3>2 DEF AnswerIsFresh, Stamped
    <3> QED BY <3>5, <3>6
  <2>2. CASE hs[h].pc = "done"
    <3>1. hs[h] \in Answered
      BY <2>2, PositionsByPc DEF IndInv
    <3>0. PICK t \in Sources : t = hs[h].src
      BY <3>1 DEF Answered
    <3>2. hs'[h] = hs[h] \/ (t = s /\ hs'[h] = [hs[h] EXCEPT !.still = FALSE])
      BY <1>2, <2>2, <3>0 DEF Disturbed
    <3>3. hs'[h].pc = "done" /\ hs'[h].src = t /\ hs'[h].got = hs[h].got /\ hs'[h].began = hs[h].began
          /\ (hs'[h].still => hs[h].still)
      BY <3>0, <3>1, <3>2 DEF Answered
    <3>4. CASE hs'[h].still
      <4>1. t # s \/ CutOff(s)
        BY <1>2, <2>2, <3>0, <3>1, <3>4 DEF Disturbed, Answered
      <4>2. UNCHANGED <<crt[t], key[t], since[t], notAfter[t]>>
        BY <1>3, <4>1 DEF CutOff
      <4>3. ReadingIsFresh(hs[h])'
        BY <3>3 DEF ReadingIsFresh, Stamped
      <4>4. AnswerIsFresh(hs[h])'
        <5> SUFFICES ASSUME hs'[h].still, Whole(t)', hs'[h].began >= since'[t] + Retry,
                            notAfter'[t][hs'[h].got] < hs'[h].began
                     PROVE  hs'[h].got = crt'[t].n
          BY <3>3 DEF AnswerIsFresh, Whole
        <5>1. Whole(t) /\ hs[h].began >= since[t] + Retry /\ notAfter[t][hs[h].got] < hs[h].began
          BY <3>3, <4>2 DEF Whole
        <5> QED BY <2>0, <2>2, <3>0, <3>3, <4>2, <5>1 DEF AnswerIsFresh
      <4> QED BY <4>3, <4>4
    <3>5. CASE ~hs'[h].still
      BY <3>3, <3>5 DEF AnswerIsFresh, ReadingIsFresh, Stamped
    <3> QED BY <3>4, <3>5
  <2>3. CASE hs[h].pc \notin Stamped \cup {"done"}
    <3>1. hs'[h].pc = hs[h].pc
      BY <1>2, DisturbedIsTyped DEF IndInv
    <3> QED BY <2>3, <3>1 DEF AnswerIsFresh, ReadingIsFresh
  <2> QED BY <2>1, <2>2, <2>3
<1> QED BY <1>6, <1>7, <1>9, <1>10 DEF FreshInv

\* A handshake begins, with the certificate that is there or with a look at the files.
LEMMA BeginKeepsFresh == ASSUME IndInv, FreshInv, NEW h \in Handshakes, Begin(h) PROVE FreshInv'
<1>1. PICK t \in Sources : hs' = [hs EXCEPT ![h] =
           IF now < nextCheck[t] THEN Done(t, now, TRUE, cert[t])
           ELSE [pc |-> "stat", src |-> t, began |-> now, still |-> TRUE,
                 crtMod |-> 0, keyMod |-> 0, crt |-> 0, key |-> 0]]
  BY DEF Begin, Goes, CertificateForName, Sources
<1>2. UNCHANGED <<now, disk, cert, crtMod, nextCheck>>
  BY DEF Begin, source
<1>3. CASE now < nextCheck[t]
  <2> DEFINE p == Done(t, now, TRUE, cert[t])
  <2>1. ReadingIsFresh(p)
    BY DEF ReadingIsFresh, Done, Stamped
  <2>2. ASSUME Whole(t), now >= since[t] + Retry, notAfter[t][cert[t]] < now PROVE cert[t] = crt[t].n
    <3>1. nextCheck[t] \in Nat /\ since[t] \in Nat
      BY DEF FreshInv, TimesOK
    <3> QED BY <1>3, <2>2, <3>1, DiskIsTyped DEF FreshInv, SourceIsFresh, LooksBy
  <2>3. AnswerIsFresh(p)
    BY <2>2 DEF AnswerIsFresh, Done
  <2>4. hs' = [hs EXCEPT ![h] = p]
    BY <1>1, <1>3
  <2> HIDE DEF p
  <2> QED BY <1>2, <2>1, <2>3, <2>4, FreshQuietStep
<1>4. CASE ~(now < nextCheck[t])
  <2> DEFINE p == [pc |-> "stat", src |-> t, began |-> now, still |-> TRUE,
                   crtMod |-> 0, keyMod |-> 0, crt |-> 0, key |-> 0]
  <2>1. ReadingIsFresh(p) /\ AnswerIsFresh(p)
    BY DEF ReadingIsFresh, AnswerIsFresh, Stamped
  <2>2. hs' = [hs EXCEPT ![h] = p]
    BY <1>1, <1>4
  <2> HIDE DEF p
  <2> QED BY <1>2, <2>1, <2>2, FreshQuietStep
<1> QED BY <1>3, <1>4

\* The times are compared without the lock; it is waited for, taken and an answer is over.
LEMMA OutsideKeepsFresh ==
    ASSUME IndInv, FreshInv, NEW h \in Handshakes, Stat(h) \/ Lock(h) \/ Ends(h)
    PROVE  FreshInv'
<1>1. UNCHANGED <<now, disk, cert, crtMod, nextCheck>>
  BY DEF Stat, Lock, Ends, source
<1>2. PICK p : hs' = [hs EXCEPT ![h] = p] /\ ReadingIsFresh(p) /\ AnswerIsFresh(p)
  <2>1. CASE Stat(h)
    <3>1. hs[h] \in Working /\ hs[h].src \in Sources
      BY <2>1, PositionsByPc DEF Stat, IndInv
    <3>2. CASE crt[hs[h].src].n = crtMod[hs[h].src] /\ key[hs[h].src].n = keyMod[hs[h].src]
      <4> DEFINE p == Done(hs[h].src, hs[h].began, hs[h].still, cert[hs[h].src])
      <4>1. crt[hs[h].src].n = cert[hs[h].src]
        BY <3>1, <3>2, DiskIsTyped DEF FreshInv, SourceIsFresh, IndInv, DiskIsAhead
      <4>2. ReadingIsFresh(p) /\ AnswerIsFresh(p)
        BY <4>1 DEF ReadingIsFresh, AnswerIsFresh, Done, Stamped
      <4>3. hs' = [hs EXCEPT ![h] = p]
        BY <2>1, <3>2 DEF Stat, Answer, AnswerWith, Goes
      <4> HIDE DEF p
      <4> QED BY <4>2, <4>3
    <3>3. CASE ~(crt[hs[h].src].n = crtMod[hs[h].src] /\ key[hs[h].src].n = keyMod[hs[h].src])
      <4> DEFINE p == [hs[h] EXCEPT !.pc = "lock"]
      <4>1. ReadingIsFresh(p) /\ AnswerIsFresh(p)
        BY <3>1 DEF ReadingIsFresh, AnswerIsFresh, Stamped, Working
      <4>2. hs' = [hs EXCEPT ![h] = p]
        BY <2>1, <3>3 DEF Stat, Goes
      <4> HIDE DEF p
      <4> QED BY <4>1, <4>2
    <3> QED BY <3>2, <3>3
  <2>2. CASE Lock(h)
    <3>1. hs[h] \in Working
      BY <2>2, PositionsByPc DEF Lock, IndInv
    <3> DEFINE p == [hs[h] EXCEPT !.pc = "statCrt"]
    <3>2. ReadingIsFresh(p) /\ AnswerIsFresh(p)
      BY <3>1 DEF ReadingIsFresh, AnswerIsFresh, Stamped, Working
    <3>3. hs' = [hs EXCEPT ![h] = p]
      BY <2>2 DEF Lock, Goes
    <3> HIDE DEF p
    <3> QED BY <3>2, <3>3
  <2>3. CASE Ends(h)
    <3>1. ReadingIsFresh(Idle) /\ AnswerIsFresh(Idle)
      BY DEF ReadingIsFresh, AnswerIsFresh, Stamped, Idle
    <3> QED BY <2>3, <3>1 DEF Ends, Goes
  <2> QED BY <2>1, <2>2, <2>3
<1> QED BY <1>1, <1>2, FreshQuietStep

\* A file is looked at or read with the lock.
LEMMA ReadingKeepsFresh ==
    ASSUME IndInv, FreshInv, NEW h \in Handshakes, StatCrt(h) \/ ReadCrt(h) \/ ReadKey(h)
    PROVE  FreshInv'
<1>1. UNCHANGED <<now, disk, cert, crtMod, nextCheck>>
  BY DEF StatCrt, ReadCrt, ReadKey, source
<1>2. hs[h] \in Working /\ hs[h].src \in Sources /\ ReadingIsFresh(hs[h])
  BY PositionsByPc DEF StatCrt, ReadCrt, ReadKey, IndInv, FreshInv
<1>3. PICK s \in Sources : s = hs[h].src
  BY <1>2
<1>4. {crt[s].n, key[s].n, hs[h].crtMod} \subseteq Nat /\ Content(crt[s]) \in {0, crt[s].n}
  BY <1>2, DiskIsTyped DEF Working, Content
<1>5. Whole(s) => Content(crt[s]) = crt[s].n /\ Content(key[s]) = crt[s].n
  BY DEF Whole, Content
<1>6. PICK p : hs' = [hs EXCEPT ![h] = p] /\ ReadingIsFresh(p) /\ AnswerIsFresh(p)
  <2>1. CASE StatCrt(h)
    <3> DEFINE p == [hs[h] EXCEPT !.pc = "statKey", !.crtMod = crt[s].n]
    <3>1. p.pc = "statKey" /\ p.crtMod = crt[s].n /\ p.src = s
      BY <1>2, <1>3 DEF Working
    <3>2. hs' = [hs EXCEPT ![h] = p]
      BY <1>3, <2>1 DEF StatCrt, Goes
    <3> HIDE DEF p
    <3>3. ReadingIsFresh(p) /\ AnswerIsFresh(p)
      BY <1>4, <3>1 DEF ReadingIsFresh, AnswerIsFresh, Holding
    <3> QED BY <3>2, <3>3
  <2>2. CASE ReadCrt(h)
    <3> DEFINE p == [hs[h] EXCEPT !.pc = "readKey", !.crt = Content(crt[s])]
    <3>1. p.pc = "readKey" /\ p.crt = Content(crt[s]) /\ p.src = s /\ p.crtMod = hs[h].crtMod
          /\ p.still = hs[h].still /\ hs[h].pc = "readCrt"
      BY <1>2, <1>3, <2>2 DEF Working, ReadCrt
    <3>2. hs' = [hs EXCEPT ![h] = p]
      BY <1>3, <2>2 DEF ReadCrt, Goes
    <3> HIDE DEF p
    <3>3. ReadingIsFresh(p) /\ AnswerIsFresh(p)
      BY <1>2, <1>3, <1>4, <1>5, <3>1 DEF ReadingIsFresh, AnswerIsFresh, Holding, Stamped
    <3> QED BY <3>2, <3>3
  <2>3. CASE ReadKey(h)
    <3> DEFINE p == [hs[h] EXCEPT !.pc = "pair", !.key = Content(key[s])]
    <3>1. p.pc = "pair" /\ p.crt = hs[h].crt /\ p.src = s /\ p.crtMod = hs[h].crtMod
          /\ p.still = hs[h].still /\ hs[h].pc = "readKey" /\ p.key = Content(key[s])
      BY <1>2, <1>3, <2>3 DEF Working, ReadKey
    <3>2. hs' = [hs EXCEPT ![h] = p]
      BY <1>3, <2>3 DEF ReadKey, Goes
    <3> HIDE DEF p
    <3>3. ReadingIsFresh(p) /\ AnswerIsFresh(p)
      BY <1>2, <1>3, <1>4, <1>5, <3>1 DEF ReadingIsFresh, AnswerIsFresh, Holding, Stamped
    <3> QED BY <3>2, <3>3
  <2> QED BY <2>1, <2>2, <2>3
<1> QED BY <1>1, <1>6, FreshQuietStep

\* The lock is given back, or the files are going to be read.
LEMMA EndingKeepsFresh ==
    ASSUME IndInv, IndInv', FreshInv, NEW h \in Handshakes, StatKey(h) \/ Pair(h) \/ FileFails(h)
    PROVE  FreshInv'
<1>1. hs[h] \in Working /\ ReadingIsFresh(hs[h])
  BY PositionsByPc DEF StatKey, Pair, FileFails, IndInv, FreshInv
<1>2. PICK s \in Sources : s = hs[h].src
  BY <1>1 DEF Working
<1>3. UNCHANGED <<now, disk>>
  BY DEF StatKey, Pair, FileFails
<1>4. \A n, still : LET p == Done(s, hs[h].began, still, n)
                    IN  /\ ReadingIsFresh(p)
                        /\ ~still \/ n = crt[s].n \/ ~Whole(s) => AnswerIsFresh(p)
  BY DEF ReadingIsFresh, AnswerIsFresh, Done, Stamped
<1>5. /\ nextCheck \in [Sources -> Nat] /\ since[s] \in Nat /\ since[s] <= now
      /\ \A t \in Sources : SourceIsFresh(t)
  BY DEF FreshInv, TimesOK
<1>6. ASSUME NEW n \in 1..Last(s), n # crt[s].n => (Whole(s) => since[s] = now),
             cert' = [cert EXCEPT ![s] = n], NEW m \in Nat, m <= n,
             crtMod' = [crtMod EXCEPT ![s] = m],
             nextCheck' = [nextCheck EXCEPT ![s] = NextCertificateCheck(s, n, now)]
      PROVE  nextCheck' \in [Sources -> Nat] /\ \A t \in Sources : SourceIsFresh(t)'
  <2>1. /\ NextCertificateCheck(s, n, now) \in Nat
        /\ \/ NextCertificateCheck(s, n, now) <= now + Retry
           \/ NextCertificateCheck(s, n, now) <= notAfter[s][n]
    BY NextCheckIsNear DEF IndInv
  <2>2. cert'[s] = n /\ crtMod'[s] = m /\ nextCheck'[s] = NextCertificateCheck(s, n, now)
    BY <1>5, <1>6 DEF IndInv, TypeOK
  <2>3. SourceIsFresh(s)'
    BY <1>3, <1>6, <2>1, <2>2 DEF SourceIsFresh, LooksBy, disk, Whole
  <2>4. ASSUME NEW t \in Sources, t # s PROVE SourceIsFresh(t)'
    <3>1. UNCHANGED <<cert[t], crtMod[t], nextCheck[t]>>
      BY <1>5, <1>6, <2>4 DEF IndInv, TypeOK
    <3> QED BY <1>3, <1>5, <3>1 DEF SourceIsFresh, LooksBy, disk, Whole
  <2> QED BY <1>5, <1>6, <2>1, <2>3, <2>4
<1>7. CASE StatKey(h)
  <2>0. hs[h].pc = "statKey" /\ hs[h].pc \in Stamped
    BY <1>7 DEF StatKey, Stamped
  <2>1. CASE hs[h].crtMod = crtMod[s] /\ key[s].n = keyMod[s]
    <3> DEFINE p == Done(s, hs[h].began, hs[h].still, cert[s])
    <3>1. /\ hs' = [hs EXCEPT ![h] = p] /\ UNCHANGED <<cert, crtMod>>
          /\ nextCheck' = [nextCheck EXCEPT ![s] = NextCertificateCheck(s, cert[s], now)]
      BY <1>2, <1>7, <2>1 DEF StatKey, Answer, AnswerWith, Goes
    <3>2. ASSUME Whole(s), hs[h].still \/ since[s] < now PROVE cert[s] = crt[s].n
      <4>1. crtMod[s] = crt[s].n
        BY <1>1, <1>2, <2>0, <2>1, <3>2 DEF ReadingIsFresh
      <4>2. crtMod[s] <= cert[s] /\ cert[s] <= crt[s].n
        BY <1>5 DEF SourceIsFresh, IndInv, DiskIsAhead
      <4> QED BY <4>1, <4>2, DiskIsTyped
    <3>3. /\ cert' = [cert EXCEPT ![s] = cert[s]] /\ crtMod' = [crtMod EXCEPT ![s] = crtMod[s]]
          /\ crtMod[s] <= cert[s]
      BY <1>5, <3>1 DEF SourceIsFresh, IndInv, TypeOK
    <3>4. cert[s] # crt[s].n => (Whole(s) => since[s] = now)
      BY <1>5, <3>2, DiskIsTyped
    <3>5. nextCheck' \in [Sources -> Nat] /\ \A t \in Sources : SourceIsFresh(t)'
      BY <1>6, <3>1, <3>3, <3>4, DiskIsTyped
    <3>6. ReadingIsFresh(p) /\ AnswerIsFresh(p)
      BY <1>4, <3>2
    <3> HIDE DEF p
    <3> QED BY <1>3, <3>1, <3>5, <3>6, FreshStep
  <2>2. CASE ~(hs[h].crtMod = crtMod[s] /\ key[s].n = keyMod[s])
    <3> DEFINE p == [hs[h] EXCEPT !.pc = "readCrt", !.keyMod = key[s].n]
    <3>1. hs' = [hs EXCEPT ![h] = p] /\ UNCHANGED <<cert, crtMod, nextCheck>>
      BY <1>2, <1>7, <2>2 DEF StatKey, Goes
    <3>2. p.pc = "readCrt" /\ p.src = s /\ p.crtMod = hs[h].crtMod /\ p.still = hs[h].still
      BY <1>1, <1>2 DEF Working
    <3> HIDE DEF p
    <3>3. ReadingIsFresh(p) /\ AnswerIsFresh(p)
      BY <1>1, <1>2, <2>0, <3>2 DEF ReadingIsFresh, AnswerIsFresh, Holding, Stamped
    <3> QED BY <1>3, <3>1, <3>3, FreshQuietStep
  <2> QED BY <2>1, <2>2
<1>8. CASE FileFails(h)
  <2> DEFINE p == Done(s, hs[h].began, FALSE, cert[s])
  <2>1. hs' = [hs EXCEPT ![h] = p] /\ UNCHANGED <<cert, crtMod, nextCheck>>
    BY <1>2, <1>8 DEF FileFails, Goes
  <2>2. ReadingIsFresh(p) /\ AnswerIsFresh(p)
    BY <1>4
  <2> HIDE DEF p
  <2> QED BY <1>3, <2>1, <2>2, FreshQuietStep
<1>9. CASE Pair(h)
  <2>0. hs[h].pc = "pair" /\ hs[h].pc \in Stamped /\ hs[h].pc \in Holding
    BY <1>9 DEF Pair, Stamped, Holding
  <2>1. Whole(s) /\ (hs[h].still \/ since[s] < now) => hs[h].crt = crt[s].n /\ hs[h].key = crt[s].n
    BY <1>1, <1>2, <2>0 DEF ReadingIsFresh
  <2>2. CASE hs[h].crt # 0 /\ hs[h].key = hs[h].crt
    <3> DEFINE p == Done(s, hs[h].began, hs[h].still, hs[h].crt)
    <3>1. /\ hs' = [hs EXCEPT ![h] = p]
          /\ cert' = [cert EXCEPT ![s] = hs[h].crt] /\ crtMod' = [crtMod EXCEPT ![s] = hs[h].crtMod]
          /\ nextCheck' = [nextCheck EXCEPT ![s] = NextCertificateCheck(s, hs[h].crt, now)]
      BY <1>2, <1>9, <2>2 DEF Pair, AnswerWith, Goes
    <3>2. hs[h].crt \in 1..Last(s) /\ hs[h].crtMod \in Nat /\ hs[h].crtMod <= hs[h].crt
      <4>1. hs[h].crt <= crt[s].n
        BY <1>2, <2>0, <2>2 DEF IndInv, ReadIsAhead
      <4>2. hs[h].crtMod <= hs[h].crt
        BY <1>1, <2>0, <2>2 DEF ReadingIsFresh
      <4> QED BY <1>1, <2>2, <4>1, <4>2, DiskIsTyped DEF Working
    <3>3. hs[h].crt # crt[s].n => (Whole(s) => since[s] = now)
      BY <1>5, <2>1, DiskIsTyped
    <3>4. nextCheck' \in [Sources -> Nat] /\ \A t \in Sources : SourceIsFresh(t)'
      BY <1>6, <3>1, <3>2, <3>3
    <3>5. ReadingIsFresh(p) /\ AnswerIsFresh(p)
      BY <1>4, <2>1
    <3> HIDE DEF p
    <3> QED BY <1>3, <3>1, <3>4, <3>5, FreshStep
  <2>3. CASE ~(hs[h].crt # 0 /\ hs[h].key = hs[h].crt)
    <3> DEFINE p == Done(s, hs[h].began, hs[h].still, cert[s])
    <3>1. hs' = [hs EXCEPT ![h] = p] /\ UNCHANGED <<cert, crtMod, nextCheck>>
      BY <1>2, <1>9, <2>3 DEF Pair, Answer, AnswerWith, Goes
    <3>2. ~(Whole(s) /\ hs[h].still)
      BY <2>1, <2>3, DiskIsTyped
    <3>3. hs[h].still \in BOOLEAN
      BY <1>1 DEF Working
    <3>4. ReadingIsFresh(p) /\ AnswerIsFresh(p)
      BY <1>4, <3>2, <3>3
    <3> HIDE DEF p
    <3> QED BY <1>3, <3>1, <3>4, FreshQuietStep
  <2> QED BY <2>2, <2>3
<1> QED BY <1>7, <1>8, <1>9

\* Every step keeps the invariant; the clock does not move while the lock is held.
LEMMA FreshInvNext == IndInv /\ IndInv' /\ FreshInv /\ [Next]_vars => FreshInv'
<1> SUFFICES ASSUME IndInv, IndInv', FreshInv, [Next]_vars PROVE FreshInv'
  OBVIOUS
<1>1. CASE \E s \in Sources : Renew(s) \/ KeyWritten(s) \/ CrtTruncated(s) \/ CrtWritten(s) \/ CutOff(s)
  BY <1>1, AcmeKeepsFresh
<1>2. CASE \E h \in Handshakes :
          \/ Begin(h) \/ Stat(h) \/ Lock(h) \/ StatCrt(h) \/ StatKey(h) \/ ReadCrt(h) \/ ReadKey(h)
          \/ Pair(h) \/ FileFails(h) \/ Ends(h)
  BY <1>2, BeginKeepsFresh, OutsideKeepsFresh, ReadingKeepsFresh, EndingKeepsFresh
<1>3. CASE Tick
  <2>1. now' = now + 1 /\ now \in Nat /\ UNCHANGED <<disk, source, hs>>
    BY <1>3 DEF Tick, IndInv, TypeOK
  <2>2. TimesOK' /\ KeyComesFirst'
    BY <2>1 DEF FreshInv, TimesOK, KeyComesFirst, disk, source, Last
  <2>3. ASSUME NEW s \in Sources PROVE SourceIsFresh(s)'
    <3>1. {nextCheck[s], Retry} \subseteq Nat
      BY CertAssumption DEF FreshInv, TimesOK
    <3> QED BY <2>1, <3>1 DEF FreshInv, SourceIsFresh, LooksBy, disk, source, Whole
  <2>4. ASSUME NEW h \in Handshakes PROVE ReadingIsFresh(hs[h])' /\ AnswerIsFresh(hs[h])'
    <3>1. hs[h].pc \notin Stamped
      <4>1. ASSUME hs[h].pc \in Stamped PROVE hs[h].src \in Sources /\ lock[hs[h].src] = h
        BY <4>1, PositionsByPc DEF Stamped, InLock, IndInv, LockIsHeld
      <4> QED BY <1>3, <4>1, CertAssumption DEF Tick
    <3> QED BY <2>1, <3>1 DEF FreshInv, ReadingIsFresh, AnswerIsFresh, disk, Whole
  <2> QED BY <2>2, <2>3, <2>4 DEF FreshInv
<1>4. CASE Restart
  <2>1. UNCHANGED <<now, disk>>
    BY <1>4 DEF Restart
  <2>2. \A s \in Sources : cert'[s] = crt[s].n /\ crtMod'[s] = crt[s].n
    BY <1>4 DEF Restart
  <2>3. ASSUME NEW s \in Sources
        PROVE  /\ nextCheck'[s] = NextCertificateCheck(s, crt[s].n, now) /\ nextCheck'[s] \in Nat
               /\ SourceIsFresh(s)'
    <3>1. nextCheck'[s] = NextCertificateCheck(s, crt[s].n, now)
      BY <1>4 DEF Restart
    <3>2. /\ nextCheck'[s] \in Nat
          /\ nextCheck'[s] <= now + Retry \/ nextCheck'[s] <= notAfter[s][crt[s].n]
      BY <3>1, NextCheckIsNear, DiskIsTyped DEF IndInv
    <3>3. crt[s].n \in Nat
      BY DiskIsTyped
    <3> QED BY <2>1, <2>2, <3>1, <3>2, <3>3 DEF SourceIsFresh, LooksBy, disk
  <2>4. nextCheck' \in [Sources -> Nat]
    BY <1>4, <2>3 DEF Restart
  <2>5. TimesOK' /\ KeyComesFirst'
    BY <2>1, <2>4 DEF FreshInv, TimesOK, KeyComesFirst, disk, Last
  <2>6. \A h \in Handshakes : ReadingIsFresh(hs[h])' /\ AnswerIsFresh(hs[h])'
    BY <1>4 DEF Restart, ReadingIsFresh, AnswerIsFresh, Stamped, Idle
  <2> QED BY <2>3, <2>5, <2>6 DEF FreshInv
<1>5. CASE UNCHANGED vars
  BY <1>5 DEF vars, FreshInv, TimesOK, KeyComesFirst, SourceIsFresh, LooksBy, ReadingIsFresh,
              AnswerIsFresh, disk, source, Whole, Last
<1> QED BY <1>1, <1>2, <1>3, <1>4, <1>5 DEF Next

\* A handshake that begins one certReloadRetryAfter after a renewal was complete is not answered
\* with the expired certificate before it, unless a file could not be read or changed in the
\* meantime (tls.go:97-168).
THEOREM VisitorsSeeRenewals == Spec => []RenewalReachesVisitors
<1>1. IndInv /\ FreshInv => RenewalReachesVisitors
  BY DEF FreshInv, AnswerIsFresh, RenewalReachesVisitors
<1> QED BY <1>1, FreshInvInit, FreshInvNext, ReloadsAreNotOvertaken, PTL DEF Spec
=============================================================================
