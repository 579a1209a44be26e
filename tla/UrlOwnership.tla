---------------------------- MODULE UrlOwnership ----------------------------
(***************************************************************************)
(* What the server promises about public URLs, without any of the          *)
(* goroutines that keep the promise: a URL serves at most one session at a *)
(* time, only the session that holds it gives it up, and a session that    *)
(* has been shut down holds nothing and never acquires anything again.     *)
(*                                                                         *)
(* Control.tla implements this specification: owner is the table of the    *)
(* TunnelRegistry (server/registry.go) and a session is over when          *)
(* Control.stopper() has completed (server/control.go).                    *)
(***************************************************************************)
EXTENDS Naturals

CONSTANTS Sessions, Urls, None

VARIABLES
    owner,   \* which session serves each public URL
    over     \* the sessions that have been shut down completely

vars == <<owner, over>>

TypeOK ==
    /\ owner \in [Urls -> Sessions \cup {None}]
    /\ over \subseteq Sessions

Init ==
    /\ owner = [u \in Urls |-> None]
    /\ over = {}

Acquire(s, u) ==
    /\ s \notin over
    /\ owner[u] = None
    /\ owner' = [owner EXCEPT ![u] = s]
    /\ UNCHANGED over

Release(s, u) ==
    /\ owner[u] = s
    /\ owner' = [owner EXCEPT ![u] = None]
    /\ UNCHANGED over

Finish(s) ==
    /\ \A u \in Urls : owner[u] # s
    /\ over' = over \cup {s}
    /\ UNCHANGED owner

Next ==
    \E s \in Sessions :
        \/ \E u \in Urls : Acquire(s, u) \/ Release(s, u)
        \/ Finish(s)

Spec == Init /\ [][Next]_vars
=============================================================================
