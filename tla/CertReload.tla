----------------------------- MODULE CertReload -----------------------------
(***************************************************************************)
(* The server's TLS certificates: certSource.Certificate, called by every  *)
(* handshake, reloads a pair of files that acme.sh replaces underneath it. *)
(*                                                                         *)
(* Handshakes run concurrently; each read of a file's time or content is a *)
(* step, and so is each truncation and each filling of a file by acme.sh   *)
(* (external; it may be cut off anywhere, and the next renewal begins      *)
(* again).  Renewals are numbered; a file is the number of the renewal     *)
(* that wrote it last, which is also its modification time, and whether    *)
(* its content is there.  X509KeyPair takes two files of one number.       *)
(* assetBacked sources never change and are left out.                      *)
(***************************************************************************)
EXTENDS Naturals, Sequences

CONSTANTS
    Domains,        \* -domainCert domains
    Default,        \* the source of -tlsCrt and -tlsKey
    Handshakes,     \* handshakes in work at one time
    Nobody,         \* no handshake
    MaxRenewals,    \* bound: renewals of a source
    MaxTime,        \* bound: the clock
    Lifetime,       \* time from the issue of a certificate to NotAfter
    Before, Retry   \* certReloadBeforeExpiry, certReloadRetryAfter

ASSUME CertAssumption ==
    /\ Default \notin Domains /\ Nobody \notin Handshakes
    /\ {MaxRenewals, MaxTime, Lifetime, Before, Retry} \subseteq Nat
    /\ MaxRenewals > 0

Sources == Domains \cup {Default}

VARIABLES
    now,            \* the clock
    notAfter,       \* [Sources -> Seq]: NotAfter of each renewal
    crt, key,       \* [Sources -> file]
    acme,           \* [Sources -> position of acme.sh --install-cert]
    whole,          \* [Sources -> renewals that were installed completely]
    since,          \* [Sources -> when the pair that is there was complete,]
    cert, crtMod, keyMod, nextCheck, \* the fields of certSource
    lock,           \* [Sources -> who holds the write lock]
    hs              \* [Handshakes -> record]

disk == <<notAfter, crt, key, acme, whole, since>>
source == <<cert, crtMod, keyMod, nextCheck, lock>>
vars == <<now, disk, source, hs>>

Renewals == 1..MaxRenewals
File(n, full) == [n |-> n, full |-> full]
Content(f) == IF f.full THEN f.n ELSE 0
Last(s) == Len(notAfter[s])
Whole(s) == crt[s] = key[s] /\ crt[s].full

NextCertificateCheck(s, n, time) ==
    IF notAfter[s][n] < time + Before THEN time + Retry ELSE notAfter[s][n] - Before

Idle == [pc |-> "idle"]
InLock == {"statCrt", "statKey", "readCrt", "readKey", "pair"}

Init ==
    /\ now = 0
    /\ notAfter = [s \in Sources |-> <<Lifetime>>]
    /\ crt = [s \in Sources |-> File(1, TRUE)] /\ key = crt
    /\ acme = [s \in Sources |-> "idle"]
    /\ whole = [s \in Sources |-> {1}] /\ since = [s \in Sources |-> 0]
    /\ cert = [s \in Sources |-> 1] /\ crtMod = cert /\ keyMod = cert
    /\ nextCheck = [s \in Sources |-> NextCertificateCheck(s, 1, 0)]
    /\ lock = [s \in Sources |-> Nobody]
    /\ hs = [h \in Handshakes |-> Idle]

Files == [n : Nat, full : BOOLEAN]
Working == [pc : {"stat", "lock"} \cup InLock, src : Sources, began : Nat, still : BOOLEAN,
            crtMod : Nat, keyMod : Nat, crt : Nat, key : Nat]
Answered == [pc : {"done"}, src : Sources, began : Nat, still : BOOLEAN, got : Nat]
Positions == {Idle} \cup Working \cup Answered

TypeOK ==
    /\ now \in Nat
    /\ notAfter \in [Sources -> Seq(Nat)]
    /\ crt \in [Sources -> Files] /\ key \in [Sources -> Files]
    /\ acme \in [Sources -> {"idle", "key", "crt", "fill"}]
    /\ whole \in [Sources -> SUBSET Nat]
    /\ cert \in [Sources -> Nat] /\ crtMod \in [Sources -> Nat] /\ keyMod \in [Sources -> Nat]
    /\ lock \in [Sources -> Handshakes \cup {Nobody}]
    /\ hs \in [Handshakes -> Positions]

-----------------------------------------------------------------------------
(* acme.sh --install-cert: the key, then the certificate                   *)

\* handshakes whose answer may be of before or after a change of the files of s
Disturbed(s) == [h \in Handshakes |-> IF hs[h].pc # "idle" /\ hs[h].src = s
                                      THEN [hs[h] EXCEPT !.still = FALSE] ELSE hs[h]]

Renew(s) ==
    /\ acme[s] = "idle" /\ Last(s) < MaxRenewals
    /\ notAfter' = [notAfter EXCEPT ![s] = Append(@, now + Lifetime)]
    /\ key' = [key EXCEPT ![s] = File(Last(s) + 1, FALSE)]
    /\ acme' = [acme EXCEPT ![s] = "key"]
    /\ hs' = Disturbed(s)
    /\ UNCHANGED <<now, crt, whole, since, source>>

KeyWritten(s) ==
    /\ acme[s] = "key"
    /\ key' = [key EXCEPT ![s].full = TRUE]
    /\ acme' = [acme EXCEPT ![s] = "crt"]
    /\ hs' = Disturbed(s)
    /\ UNCHANGED <<now, notAfter, crt, whole, since, source>>

CrtTruncated(s) ==
    /\ acme[s] = "crt"
    /\ crt' = [crt EXCEPT ![s] = File(Last(s), FALSE)]
    /\ acme' = [acme EXCEPT ![s] = "fill"]
    /\ hs' = Disturbed(s)
    /\ UNCHANGED <<now, notAfter, key, whole, since, source>>

CrtWritten(s) ==
    /\ acme[s] = "fill"
    /\ crt' = [crt EXCEPT ![s].full = TRUE]
    /\ acme' = [acme EXCEPT ![s] = "idle"]
    /\ whole' = [whole EXCEPT ![s] = @ \cup {Last(s)}] /\ since' = [since EXCEPT ![s] = now]
    /\ hs' = Disturbed(s)
    /\ UNCHANGED <<now, notAfter, key, source>>

\* killed at its time limit, or with the machine
CutOff(s) ==
    /\ acme[s] # "idle"
    /\ acme' = [acme EXCEPT ![s] = "idle"]
    /\ UNCHANGED <<now, notAfter, crt, key, whole, since, source, hs>>

\* reading two small files takes less than one unit
Tick ==
    /\ now < MaxTime /\ \A s \in Sources : lock[s] = Nobody
    /\ now' = now + 1
    /\ UNCHANGED <<disk, source, hs>>

-----------------------------------------------------------------------------
(* certReloader and certSource                                             *)

\* certificateForName: a name is a label ("" for the domain itself, "a.b" for a deeper one)
\* under a domain; the map has each domain and its wildcard
CertificateForName(label, d) == IF d \in Domains /\ label # "a.b" THEN d ELSE Default

Goes(h, to) == hs' = [hs EXCEPT ![h] = to]
Done(s, began, still, n) == [pc |-> "done", src |-> s, began |-> began, still |-> still, got |-> n]
AnswerWith(h, n) == Goes(h, Done(hs[h].src, hs[h].began, hs[h].still, n))
Answer(h) == AnswerWith(h, cert[hs[h].src])
Unlock(h) == lock' = [lock EXCEPT ![hs[h].src] = Nobody]

\* GetCertificate, up to the first RUnlock
Begin(h) == \E label \in {"", "a", "a.b"}, d \in Sources :
    LET s == CertificateForName(label, d)
    IN  /\ hs[h].pc = "idle" /\ lock[s] = Nobody
        /\ IF now < nextCheck[s]
           THEN Goes(h, Done(s, now, TRUE, cert[s]))
           ELSE Goes(h, [pc |-> "stat", src |-> s, began |-> now, still |-> TRUE,
                         crtMod |-> 0, keyMod |-> 0, crt |-> 0, key |-> 0])
        /\ UNCHANGED <<now, disk, source>>

\* the first statModTimes and the comparison under the read lock
Stat(h) ==
    /\ hs[h].pc = "stat"
    /\ LET s == hs[h].src
       IN  /\ lock[s] = Nobody
           /\ IF crt[s].n = crtMod[s] /\ key[s].n = keyMod[s] THEN Answer(h)
              ELSE Goes(h, [hs[h] EXCEPT !.pc = "lock"])
    /\ UNCHANGED <<now, disk, source>>

\* mutant: the write lock is not taken
Lock_Shared(h) ==
    /\ hs[h].pc = "lock"
    /\ Goes(h, [hs[h] EXCEPT !.pc = "statCrt"])
    /\ UNCHANGED <<now, disk, source>>
Lock(h) ==
    /\ hs[h].pc = "lock" /\ lock[hs[h].src] = Nobody
    /\ lock' = [lock EXCEPT ![hs[h].src] = h]
    /\ Goes(h, [hs[h] EXCEPT !.pc = "statCrt"])
    /\ UNCHANGED <<now, disk, cert, crtMod, keyMod, nextCheck>>

StatCrt(h) ==
    /\ hs[h].pc = "statCrt"
    /\ Goes(h, [hs[h] EXCEPT !.pc = "statKey", !.crtMod = crt[hs[h].src].n])
    /\ UNCHANGED <<now, disk, source>>

StatKey(h) ==
    /\ hs[h].pc = "statKey"
    /\ LET s == hs[h].src
       IN  IF hs[h].crtMod = crtMod[s] /\ key[s].n = keyMod[s]
           THEN /\ nextCheck' = [nextCheck EXCEPT ![s] = NextCertificateCheck(s, cert[s], now)]
                /\ Answer(h) /\ Unlock(h)
           ELSE /\ Goes(h, [hs[h] EXCEPT !.pc = "readCrt", !.keyMod = key[s].n])
                /\ UNCHANGED <<nextCheck, lock>>
    /\ UNCHANGED <<now, disk, cert, crtMod, keyMod>>

ReadCrt(h) ==
    /\ hs[h].pc = "readCrt"
    /\ Goes(h, [hs[h] EXCEPT !.pc = "readKey", !.crt = Content(crt[hs[h].src])])
    /\ UNCHANGED <<now, disk, source>>

ReadKey(h) ==
    /\ hs[h].pc = "readKey"
    /\ Goes(h, [hs[h] EXCEPT !.pc = "pair", !.key = Content(key[hs[h].src])])
    /\ UNCHANGED <<now, disk, source>>

\* mutant: the times that are kept are those after the files were read
Pair_LateTimes(h) ==
    /\ hs[h].pc = "pair"
    /\ LET s == hs[h].src
           n == hs[h].crt
       IN  IF n # 0 /\ hs[h].key = n
           THEN /\ cert' = [cert EXCEPT ![s] = n]
                /\ crtMod' = [crtMod EXCEPT ![s] = crt[s].n]
                /\ keyMod' = [keyMod EXCEPT ![s] = key[s].n]
                /\ nextCheck' = [nextCheck EXCEPT ![s] = NextCertificateCheck(s, n, now)]
                /\ AnswerWith(h, n)
           ELSE Answer(h) /\ UNCHANGED <<cert, crtMod, keyMod, nextCheck>>
    /\ Unlock(h)
    /\ UNCHANGED <<now, disk>>
\* X509KeyPair, and the assignments or the old certificate
Pair(h) ==
    /\ hs[h].pc = "pair"
    /\ LET s == hs[h].src
           n == hs[h].crt
       IN  IF n # 0 /\ hs[h].key = n
           THEN /\ cert' = [cert EXCEPT ![s] = n]
                /\ crtMod' = [crtMod EXCEPT ![s] = hs[h].crtMod]
                /\ keyMod' = [keyMod EXCEPT ![s] = hs[h].keyMod]
                /\ nextCheck' = [nextCheck EXCEPT ![s] = NextCertificateCheck(s, n, now)]
                /\ AnswerWith(h, n)
           ELSE Answer(h) /\ UNCHANGED <<cert, crtMod, keyMod, nextCheck>>
    /\ Unlock(h)
    /\ UNCHANGED <<now, disk>>

\* a file cannot be looked at or opened at this moment: the old certificate
FileFails(h) ==
    /\ hs[h].pc \in {"stat", "statCrt", "statKey", "readCrt", "readKey"}
    /\ Goes(h, Done(hs[h].src, hs[h].began, FALSE, cert[hs[h].src]))
    /\ IF hs[h].pc = "stat" THEN UNCHANGED lock ELSE Unlock(h)
    /\ UNCHANGED <<now, disk, cert, crtMod, keyMod, nextCheck>>

Ends(h) == hs[h].pc = "done" /\ Goes(h, Idle) /\ UNCHANGED <<now, disk, source>>

\* The process ends and LoadTLSConfig loads every pair; it fails, and systemd tries again, as
\* long as one of them cannot be loaded.
Restart ==
    /\ \A s \in Sources : Whole(s)
    /\ cert' = [s \in Sources |-> crt[s].n] /\ crtMod' = cert' /\ keyMod' = cert'
    /\ nextCheck' = [s \in Sources |-> NextCertificateCheck(s, crt[s].n, now)]
    /\ lock' = [s \in Sources |-> Nobody]
    /\ hs' = [h \in Handshakes |-> Idle]
    /\ UNCHANGED <<now, disk>>

Next ==
    \/ \E s \in Sources : Renew(s) \/ KeyWritten(s) \/ CrtTruncated(s) \/ CrtWritten(s) \/ CutOff(s)
    \/ \E h \in Handshakes :
          \/ Begin(h) \/ Stat(h) \/ Lock(h) \/ StatCrt(h) \/ StatKey(h) \/ ReadCrt(h) \/ ReadKey(h) \/ Pair(h)
          \/ FileFails(h) \/ Ends(h)
    \/ Tick \/ Restart

Spec == Init /\ [][Next]_vars

-----------------------------------------------------------------------------
\* Whatever is replaced while it is read, and however many handshakes reload at one time, each
\* source gives out one whole installed pair and never goes back to an earlier one
\* (certSource.Certificate, tls.go:97).
Promise == INSTANCE CertPromise WITH served <- cert
KeepsCertPromise == Promise!Spec

\* The write lock belongs to the handshake that is between Lock and Unlock.
LockIsHeld == \A h \in Handshakes, s \in Sources :
    lock[s] = h <=> (hs[h].pc \in InLock /\ hs[h].src = s)

\* A certificate whose content is there came with its key; what is on disk is never older than
\* what is given out.
DiskIsAhead == \A s \in Sources :
    /\ cert[s] \in whole[s] /\ cert[s] > 0
    /\ cert[s] <= crt[s].n /\ crt[s].n <= Last(s)
    /\ crt[s].full => crt[s].n \in whole[s]
    /\ acme[s] = "fill" => crt[s].n = Last(s)

\* What the holder of the lock has read is no older than what is given out, and no newer than the
\* disk.
ReadIsAhead == \A h \in Handshakes :
    (hs[h].pc \in {"readKey", "pair"} /\ hs[h].crt # 0) =>
        /\ hs[h].crt \in whole[hs[h].src]
        /\ cert[hs[h].src] <= hs[h].crt /\ hs[h].crt <= crt[hs[h].src].n

\* No reload is based on times or contents that an earlier one, or a replacement of the files, has
\* overtaken (the write lock of tls.go:126).
IndInv == TypeOK /\ LockIsHeld /\ DiskIsAhead /\ ReadIsAhead

\* One certReloadRetryAfter after a pair is complete no handshake is answered with a certificate
\* that had expired when the handshake began, unless a file could not be read or was being replaced
\* again: the times are taken before the contents, so that a pair that changes while it is read is
\* found changed the next time (tls.go:129-168).
RenewalReachesVisitors ==
    \A h \in Handshakes : hs[h].pc = "done" =>
        LET s == hs[h].src
        IN  (/\ hs[h].still /\ Whole(s) /\ hs[h].began >= since[s] + Retry
             /\ notAfter[s][hs[h].got] < hs[h].began) => hs[h].got = crt[s].n
=============================================================================
