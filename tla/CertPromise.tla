---------------------------- MODULE CertPromise ----------------------------
(***************************************************************************)
(* What the server promises about its TLS certificates: each source always *)
(* gives out one whole pair, and only ever a later one.                    *)
(***************************************************************************)
EXTENDS Naturals

CONSTANT Sources
VARIABLES
    served,         \* [Sources -> Nat]: the number of the pair that is given out
    whole           \* [Sources -> SUBSET Nat]: the pairs that were installed completely

Init == served = [s \in Sources |-> 1] /\ whole = [s \in Sources |-> {1}]

\* further pairs are installed
Install == (\A s \in Sources : whole[s] \subseteq whole'[s]) /\ UNCHANGED served

\* sources take over whole pairs, later ones than they had
Serve ==
    /\ served' \in [Sources -> Nat]
    /\ \A s \in Sources : served'[s] >= served[s] /\ served'[s] \in whole[s]
    /\ UNCHANGED whole

Next == Install \/ Serve

Spec == Init /\ [][Next]_<<served, whole>>
=============================================================================
