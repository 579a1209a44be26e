-------------------------------- MODULE LRU --------------------------------
(***************************************************************************)
(* The operations of LRUCache (cache/lru.go) as operators on a cache: the  *)
(* list of entries from the most to the least recently used one, the table *)
(* of keys, the size that has been added up, and the capacity.  Each       *)
(* exported operation of the code holds lru.mu from beginning to end, so   *)
(* one operator is one atomic step.                                        *)
(*                                                                         *)
(* Abstracted: the table's pointers into the list (a key in the table      *)
(* points to the entry of that key) and the access times, which are the    *)
(* order of the list.                                                      *)
(***************************************************************************)
EXTENDS Naturals, SequencesExt

CONSTANTS
    SizeOf(_),   \* Value.Size()
    Word         \* the number of values of an uint64

\* lru.size is unsigned and wraps round; a difference of sizes may be negative
Plus(x, y)  == (x + y) % Word
Minus(x, y) == (x + Word - y) % Word

\* what the first 0, 1, 2, ... of some sizes add up to
RunningTotals(sizes) ==
    LET total[i \in 0..Len(sizes)] == IF i = 0 THEN 0 ELSE total[i - 1] + sizes[i]
    IN  total
Sizes(list) == [i \in DOMAIN list |-> list[i].size]

New(capacity) == [list |-> <<>>, table |-> {}, size |-> 0, capacity |-> capacity]

\* the element the table points to
Element(c, k) == CHOOSE i \in DOMAIN c.list : c.list[i].key = k
ValueOf(c, k) == c.list[Element(c, k)].value

MoveToFront(c, k) ==
    LET i == Element(c, k)
    IN  [c EXCEPT !.list = <<@[i]>> \o RemoveAt(@, i)]

\* lru.size once only the first n entries are left
SizeOfFirst(c, n) ==
    LET total == RunningTotals(Sizes(c.list))
    IN  Minus(c.size, (total[Len(c.list)] - total[n]) % Word)

\* entries are dropped from the back for as long as the cache is too large
CheckCapacity(c) ==
    LET n == Max({m \in 0..Len(c.list) : SizeOfFirst(c, m) <= c.capacity})
    IN  [c EXCEPT !.list  = SubSeq(@, 1, n),
                  !.table = @ \ {c.list[i].key : i \in n + 1..Len(c.list)},
                  !.size  = SizeOfFirst(c, n)]

AddNew(c, k, v) ==
    CheckCapacity([c EXCEPT !.list  = <<[key |-> k, value |-> v, size |-> SizeOf(v)]>> \o @,
                            !.table = @ \cup {k},
                            !.size  = Plus(@, SizeOf(v))])

\* mutant: updateInplace forgets what the old value took
UpdateInplace_Adds(c, k, v) ==
    LET i == Element(c, k)
        d == [c EXCEPT !.list[i] = [key |-> k, value |-> v, size |-> SizeOf(v)],
                       !.size    = Plus(@, SizeOf(v))]
    IN  CheckCapacity(MoveToFront(d, k))

UpdateInplace(c, k, v) ==
    LET i == Element(c, k)
        d == [c EXCEPT !.list[i] = [key |-> k, value |-> v, size |-> SizeOf(v)],
                       !.size    = Plus(@, Minus(SizeOf(v), c.list[i].size))]
    IN  CheckCapacity(MoveToFront(d, k))

\* Get gives the value back and makes its key the most recently used one
Hit(c, k) == k \in c.table

\* mutant: Get leaves the order of the list alone
AfterGet_Untouched(c, k) == c
AfterGet(c, k) == IF Hit(c, k) THEN MoveToFront(c, k) ELSE c

\* mutant: Set keeps the value that is there
AfterSet_IfAbsent(c, k, v) == IF Hit(c, k) THEN MoveToFront(c, k) ELSE AddNew(c, k, v)
AfterSet(c, k, v) == IF Hit(c, k) THEN UpdateInplace(c, k, v) ELSE AddNew(c, k, v)

AfterSetIfAbsent(c, k, v) == IF Hit(c, k) THEN MoveToFront(c, k) ELSE AddNew(c, k, v)

AfterDelete(c, k) ==
    IF ~Hit(c, k) THEN c
    ELSE LET i == Element(c, k)
         IN  [c EXCEPT !.list = RemoveAt(@, i), !.table = @ \ {k},
                       !.size = Minus(@, c.list[i].size)]

AfterClear(c) == New(c.capacity)

AfterSetCapacity(c, n) == CheckCapacity([c EXCEPT !.capacity = n])

\* SaveItems writes the items from the front to the back
Items(c) == [i \in DOMAIN c.list |-> [key |-> c.list[i].key, value |-> c.list[i].value]]

\* the cache before the first item and after each one that is set
Loads(c, items) ==
    LET after[m \in 0..Len(items)] ==
            IF m = 0 THEN c ELSE AfterSet(after[m - 1], items[m].key, items[m].value)
    IN  after

\* mutant: LoadItems stops before the last item
LoadItems_ButLast(c, items) ==
    IF items = <<>> THEN c ELSE Loads(c, items)[Len(items) - 1]

\* LoadItems sets the items in their order, so that the last one ends up at the front
LoadItems(c, items) == Loads(c, items)[Len(items)]
=============================================================================
