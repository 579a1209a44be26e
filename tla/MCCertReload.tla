---------------------------- MODULE MCCertReload ----------------------------
(***************************************************************************)
(* Handshakes are alike.                                                   *)
(***************************************************************************)
EXTENDS CertReload, TLC

Sym == Permutations(Handshakes)
=============================================================================
