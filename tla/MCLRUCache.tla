----------------------------- MODULE MCLRUCache -----------------------------
(***************************************************************************)
(* Small instances of LRUCache for TLC: a value is its own size, so that a *)
(* value may be replaced by a larger or a smaller one, and one entry may   *)
(* push out several others, or not fit at all.                             *)
(***************************************************************************)
EXTENDS LRUCache

OwnSize(v) == v
=============================================================================
