------------------------------ MODULE CacheMap ------------------------------
(***************************************************************************)
(* What a cache that is saved to a file promises its users: it may forget  *)
(* anything at any time, but what it answers for a key is the last value   *)
(* set for it, or after a restart the value it had in the last save.       *)
(*                                                                         *)
(* LRUCache.tla implements this specification.                             *)
(***************************************************************************)
CONSTANTS Keys, Values, None

VARIABLES
    event,     \* what the last operation was, and its answer
    map,       \* the value of each key
    taken,     \* the copy a save in progress works with
    saved      \* what a restart can recover

vars == <<event, map, taken, saved>>

Nothing == [k \in Keys |-> None]

\* m with some of its keys forgotten
Forgotten(m) == {n \in [Keys -> Values \cup {None}] : \A k \in Keys : n[k] \in {m[k], None}}

Quiet == event' = <<"none">>

Init == event = <<"none">> /\ map = Nothing /\ taken = Nothing /\ saved = Nothing

\* k is set to v; other keys may be forgotten, and k itself if v does not fit
Set(k, v) ==
    /\ event' = <<"set", k, v>>
    /\ map' \in Forgotten([map EXCEPT ![k] = v])
    /\ UNCHANGED <<taken, saved>>

Get(k) ==
    /\ event' = <<"get", k, map[k]>>
    /\ UNCHANGED <<map, taken, saved>>

\* set only if it is not there
SetIfAbsent(k, v) ==
    /\ Quiet
    /\ map' \in Forgotten([map EXCEPT ![k] = IF map[k] = None THEN v ELSE @])
    /\ UNCHANGED <<taken, saved>>

Forget    == Quiet /\ map' \in Forgotten(map) /\ UNCHANGED <<taken, saved>>
LoseSave  == Quiet /\ saved' = Nothing /\ taken' = Nothing /\ UNCHANGED map
BeginSave == Quiet /\ taken' = map /\ UNCHANGED <<map, saved>>
EndSave   == Quiet /\ saved' = taken /\ taken' = Nothing /\ UNCHANGED map
Restart   == Quiet /\ map' \in Forgotten(saved) /\ taken' = Nothing /\ UNCHANGED saved

Next ==
    \/ \E k \in Keys : Get(k)
    \/ \E k \in Keys, v \in Values : Set(k, v) \/ SetIfAbsent(k, v)
    \/ Forget \/ LoseSave \/ BeginSave \/ EndSave \/ Restart

Spec == Init /\ [][Next]_vars
=============================================================================
