-------------------------------- MODULE Heap ---------------------------------
(***************************************************************************)
(* The collector of gc.c and the table of strings of object.c.             *)
(*                                                                         *)
(* An object is a string, of which nothing matters but its name, or a      *)
(* container (a list, map, closure, ...), of which nothing matters but     *)
(* what gc_trace_object follows.  Objects are numbered in the order of     *)
(* their allocation, and a number is not used again.  The program reaches  *)
(* objects from its stack and globals (`held'), and C code those it has    *)
(* pinned or pushed as roots.  DISPATCH is the only caller of the          *)
(* collector, so that no native function sees it run, and the program does *)
(* nothing until the marks are made, followed and swept.                   *)
(***************************************************************************)
EXTENDS Integers, Sequences, FiniteSets, FiniteSetsExt, Functions

CONSTANTS Strings,       \* contents
          Hash,          \* [Strings -> Nat]
          InitCapacity,  \* INTERN_TABLE_INIT_CAP
          MaxObjects, MaxCapacity, MaxPins  \* bounds; of pins and roots

ASSUME HeapConstants ==
    /\ Hash \in [Strings -> Nat] /\ InitCapacity \in Nat \ {0}
    /\ {MaxObjects, MaxCapacity, MaxPins} \subseteq Nat

VARIABLES heap,             \* [allocated objects -> [name, refs]]
          allocations,
          held, pinned, roots,
          entries, interned, \* intern_table: entries and count
          hung,
          marked, gray,      \* objects with OBJ_FLAG_MARK; gc.gray_stack
          collecting         \* gc_collect has marked its roots, not yet swept

intern_table == <<entries, interned>>
collector == <<marked, gray, collecting>>
HeapVars == <<heap, allocations, held, pinned, roots, intern_table, hung, collector>>

NULL == 0
TOMBSTONE == -1
Container == "container"  \* the name of an object that is not a string
ASSUME NameOfContainers == Container \notin Strings

Objects == DOMAIN heap
Without(s, i) == [k \in 1 .. Len(s) - 1 |-> IF k = i THEN s[Len(s)] ELSE s[k]]
-----------------------------------------------------------------------------
(* The intern table: open addressing, with tombstones.                     *)

At(table, n, k) == table[((Hash[n] + k) % Len(table)) + 1]
Probes(table) == 0 .. Len(table) - 1
\* The first probe that meets one of `stops'.
FirstProbe(table, n, stops) == Min({k \in Probes(table) : At(table, n, k) \in stops})

\* A search ends at the string or at an empty entry.
Stops(n) == {NULL} \cup {x \in Objects : heap[x].name = n}
FindEnds(n) == Stops(n) \cap Range(entries) # {}
intern_table_find(n) == At(entries, n, FirstProbe(entries, n, Stops(n)))

Put(table, x, n) ==
    [table EXCEPT ![((Hash[n] + FirstProbe(table, n, {NULL, TOMBSTONE})) % Len(table)) + 1] = x]

\* rehashed[i]: the new entries when the first i have been gone through.
Reenter(table, x) == IF x \in {NULL, TOMBSTONE} THEN table ELSE Put(table, x, heap[x].name)
intern_table_grow ==
    LET rehashed[i \in 0 .. Len(entries)] ==
            IF i = 0 THEN [j \in 1 .. 2 * Len(entries) |-> NULL]
                     ELSE Reenter(rehashed[i - 1], entries[i])
    IN  rehashed[Len(entries)]
Full == 4 * (interned + 1) > 3 * Len(entries)
intern_table_insert(x, n) ==
    /\ entries' = Put(IF Full THEN intern_table_grow ELSE entries, x, n)
    /\ interned' = interned + 1

\* A mutant: the entry is emptied.
Removed_emptied == NULL
Removed == TOMBSTONE
intern_table_remove_unmarked ==
    /\ entries' = [i \in DOMAIN entries |->
                      IF entries[i] \in {NULL, TOMBSTONE} \cup marked THEN entries[i] ELSE Removed]
    /\ interned' = interned - Cardinality(Range(entries) \ ({NULL, TOMBSTONE} \cup marked))

-----------------------------------------------------------------------------
(* The program.                                                            *)

Going == ~hung /\ ~collecting /\ UNCHANGED <<hung, collector>>
Allocate(name) ==
    /\ allocations < MaxObjects
    /\ allocations' = allocations + 1
    /\ heap' = [x \in Objects \cup {allocations'} |->
                   IF x = allocations' THEN [name |-> name, refs |-> {}] ELSE heap[x]]
    /\ held' = held \cup {allocations'}

obj_string_new(n) ==
    /\ Going /\ FindEnds(n)
    /\ LET x == intern_table_find(n)
       IN  IF x # NULL THEN held' = held \cup {x} /\ UNCHANGED <<heap, allocations, intern_table>>
           ELSE /\ Full => 2 * Len(entries) <= MaxCapacity
                /\ Allocate(n) /\ intern_table_insert(allocations + 1, n)
    /\ UNCHANGED <<pinned, roots>>

\* Nothing more happens.
obj_string_new_searches_for_ever(n) ==
    /\ ~collecting /\ ~FindEnds(n) /\ ~hung /\ hung' = TRUE
    /\ UNCHANGED <<heap, allocations, held, pinned, roots, intern_table, collector>>

alloc_object ==
    /\ Going /\ Allocate(Container) /\ UNCHANGED <<pinned, roots, intern_table>>

\* The program stores a value it can reach in an object it can reach, or
\* replaces one.
Store(x, y) ==
    /\ Going /\ {x, y} \subseteq held /\ heap[x].name = Container
    /\ heap' = [heap EXCEPT ![x].refs = {y}]
    /\ UNCHANGED <<allocations, held, pinned, roots, intern_table>>
Load(x, y) ==
    /\ Going /\ x \in held /\ y \in heap[x].refs \ held /\ held' = held \cup {y}
    /\ UNCHANGED <<heap, allocations, pinned, roots, intern_table>>
Drop(x) ==
    /\ Going /\ x \in held /\ held' = held \ {x}
    /\ UNCHANGED <<heap, allocations, pinned, roots, intern_table>>

\* C code pins what the program hands to it, and unpins what it has pinned.
HasPin == Len(pinned) + Len(roots) < MaxPins
vm_pin(x) ==
    /\ Going /\ x \in held /\ HasPin /\ pinned' = Append(pinned, x)
    /\ UNCHANGED <<heap, allocations, held, roots, intern_table>>
vm_unpin(i) ==
    /\ Going /\ pinned' = Without(pinned, i)
    /\ UNCHANGED <<heap, allocations, held, roots, intern_table>>
gc_push_root(x) ==
    /\ Going /\ x \in held /\ HasPin /\ roots' = Append(roots, x)
    /\ UNCHANGED <<heap, allocations, held, pinned, intern_table>>
gc_pop_root ==
    /\ Going /\ roots # <<>> /\ roots' = SubSeq(roots, 1, Len(roots) - 1)
    /\ UNCHANGED <<heap, allocations, held, pinned, intern_table>>

-----------------------------------------------------------------------------
(* gc_collect.                                                             *)

\* gc_mark_object for each of `set', when `rest' is on the gray stack: those
\* that have no mark get one and are pushed.
gc_mark_objects(set, rest) ==
    /\ marked' = marked \cup set
    /\ gray' = rest \cup (set \ marked)

\* vm_mark_roots, and what C code has pinned and pushed.
RootSet == held \cup Range(pinned) \cup Range(roots)

gc_mark_roots ==
    /\ ~hung /\ ~collecting /\ collecting' = TRUE
    /\ gc_mark_objects(RootSet, gray)
    /\ UNCHANGED <<heap, allocations, held, pinned, roots, intern_table, hung>>

\* An object is popped and its references are marked; which of the stack it is
\* does not matter.
gc_trace_object(x) ==
    /\ collecting /\ x \in gray
    /\ gc_mark_objects(heap[x].refs, gray \ {x})
    /\ UNCHANGED <<heap, allocations, held, pinned, roots, intern_table, hung, collecting>>

\* A mutant: the marks of this collection are still there in the next.
Unmarked_not == marked
Unmarked == {}

\* With the gray stack empty the table of strings forgets, and the sweep frees,
\* what has no mark, and takes the marks off the rest.
gc_sweep ==
    /\ collecting /\ gray = {} /\ collecting' = FALSE
    /\ intern_table_remove_unmarked
    /\ heap' = Restrict(heap, marked \cap Objects)
    /\ marked' = Unmarked
    /\ UNCHANGED <<allocations, held, pinned, roots, hung, gray>>

-----------------------------------------------------------------------------
HeapInit ==
    /\ heap = <<>> /\ allocations = 0 /\ held = {} /\ pinned = <<>> /\ roots = <<>>
    /\ entries = [i \in 1 .. InitCapacity |-> NULL] /\ interned = 0 /\ hung = FALSE
    /\ marked = {} /\ gray = {} /\ collecting = FALSE

HeapNext ==
    \/ \E n \in Strings : obj_string_new(n) \/ obj_string_new_searches_for_ever(n)
    \/ alloc_object
    \/ \E x, y \in Objects : Store(x, y) \/ Load(x, y)
    \/ \E x \in Objects : Drop(x) \/ vm_pin(x) \/ gc_push_root(x)
    \/ \E i \in DOMAIN pinned : vm_unpin(i)
    \/ gc_pop_root
    \/ gc_mark_roots \/ (\E x \in gray : gc_trace_object(x)) \/ gc_sweep

HeapSpec == HeapInit /\ [][HeapNext]_HeapVars

-----------------------------------------------------------------------------
(* Properties.                                                             *)

\* What can be got at from `set': the least set with the references of its own
\* objects.
ClosedUnderRefs(set) == \A x \in set \cap Objects : heap[x].refs \subseteq set
Reach(set) ==
    LET known  == set \cup Objects \cup UNION {heap[x].refs : x \in Objects}
        closed == {S \in SUBSET known : set \subseteq S /\ ClosedUnderRefs(S)}
    IN  {x \in known : \A S \in closed : x \in S}

\* Nothing that the program or C code can get at has been freed, after any
\* number of collections (gc_mark_roots, gc_trace_references, gc_sweep), also when
\* an object is pinned twice and unpinned once.
NothingInUseFreed == Reach(held \cup Range(pinned) \cup Range(roots)) \subseteq Objects

\* Two strings with the same contents are one object, as == of strings, which
\* compares pointers, needs: the table has each string that is allocated and
\* finds it, after any collections and growths.
Interned ==
    /\ \A x \in Objects : heap[x].name # Container => FindEnds(heap[x].name) /\ intern_table_find(heap[x].name) = x
    /\ \A i \in DOMAIN entries : entries[i] \in {NULL, TOMBSTONE} \cup Objects
    /\ interned = Cardinality({x \in Objects : heap[x].name # Container})

\* "Grow if load factor > 0.75" (intern_table_insert): the search for a string
\* ends, also when the string is not there.
SearchesEnd == ~hung
=============================================================================
