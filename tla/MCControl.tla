----------------------------- MODULE MCControl -----------------------------
(***************************************************************************)
(* Small instances of Control for TLC.                                     *)
(***************************************************************************)
EXTENDS Control, FiniteSets, TLC

CONSTANTS u1, u2

\* what a client asks for: one tunnel, a tunnel for two protocols, and a granted and a refused
\* protocol in one request or one after the other
OneUrl == {<<u1>>}
Two == {<<u2, u1>>}
WithRefused == {<<u1>>, <<u1, u2>>, <<u2>>}

Symmetry == Permutations(Controls)

\* the run with fairness: two connections that ask for nothing, or one that asks for tunnels; what a
\* client does is the only thing it restricts, and nothing obliges the client to do it
Asked == \E c \in Controls : tunnels[c] # {} \/ mreq[c] # <<>> \/ rmsg[c].type = "ReqTunnel"
Handed == Cardinality({c \in Controls : newc[c] # "idle"}) > 1
HandoverOrTunnels == Init /\ [][Next /\ ~(Asked' /\ Handed')]_vars /\ Fairness
=============================================================================
