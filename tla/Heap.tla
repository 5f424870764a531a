--------------------------------- MODULE Heap ---------------------------------
(* kmalloc and kfree (mm/memory.cc) over groups of slabs (mm/slab.cc): the *)
(* search for the size class, the layout of a slab, and the two lists of a *)
(* group, whose links are updated by hand.  Every operation on a group     *)
(* holds its lock.                                                         *)
EXTENDS Integers, Sequences, SequencesExt, FiniteSets, FiniteSetsExt

CONSTANTS
  KmallocSizes,   \* kmalloc_fixed_slab_size: the sizes of the classes
  PageSize,       \* memory::page_size
  SlabHeader,     \* sizeof(slab), aligned
  HeapSizes,      \* sizes that are asked for
  HeapStarts,     \* objects that were allocated before
  MaxHeapCalls    \* bound: calls of a behaviour

VARIABLES
  groups,     \* the group of each class: slabs, free_head, used_head
  handed,     \* objects handed out: [class, slab, cell, size]
  heapCalls
heapVars == <<groups, handed, heapCalls>>

Null == 0
Classes == DOMAIN KmallocSizes

-----------------------------------------------------------------------------
\* slab_group::slab_group: pages and objects of a slab.
slab_group(size) ==
  LET rest == PageSize - SlabHeader
      pages == CASE size * 64 <= rest -> 1
                 [] size * 64 > rest /\ size * 16 <= rest -> 2
                 [] size * 16 > rest /\ size * 4 <= rest -> 4
                 [] size * 4 > rest /\ size <= rest -> 8
                 [] OTHER -> 16
  IN [pages |-> pages, nodes |-> (rest + PageSize * (pages - 1)) \div size]
Nodes(c) == slab_group(KmallocSizes[c]).nodes

\* The search of kmalloc.  At the first class it compares with the entry in
\* front of the table, whose value may stop the search or not.
kmalloc_search[left \in Nat, right \in Nat] ==
  LET mid == left + (right - left) \div 2
  IN [size \in HeapSizes |->
       IF KmallocSizes[mid + 1] >= size
       THEN IF mid > 0 /\ KmallocSizes[mid] < size THEN mid + 1
            ELSE IF mid > left THEN kmalloc_search[left, mid][size] ELSE mid + 1
       ELSE IF mid + 1 < right THEN kmalloc_search[mid + 1, right][size] ELSE mid + 1]
ClassOf(size) == kmalloc_search[0, Len(KmallocSizes)][size]

-----------------------------------------------------------------------------
NewSlab(c) == [cells |-> {}, rest |-> Nodes(c), prev |-> Null, next |-> Null]

Linked(slabs, s, prev, next) ==
  [i \in DOMAIN slabs |-> IF i = s THEN [slabs[i] EXCEPT !.prev = prev, !.next = next] ELSE slabs[i]]
SetPrev(slabs, s, p) == IF s = Null THEN slabs ELSE [slabs EXCEPT ![s].prev = p]
SetNext(slabs, s, n) == IF s = Null THEN slabs ELSE [slabs EXCEPT ![s].next = n]

\* new_memory_node, when the free list is empty.
new_memory_node(g, c) ==
  IF g.free_head # Null THEN g
  ELSE [g EXCEPT !.slabs = Append(@, NewSlab(c)), !.free_head = Len(g.slabs) + 1]

\* A slab that is full moves to the head of the list of full slabs.
Filled(g) ==
  LET s == g.free_head
      next == g.slabs[s].next
      unlinked == SetPrev(Linked(g.slabs, s, Null, g.used_head), g.used_head, s)
  IN [slabs |-> SetPrev(unlinked, next, Null), free_head |-> next, used_head |-> s]

\* slab_group::alloc: the first free cell of the first slab.
alloc(g0, c) ==
  LET g == new_memory_node(g0, c)
      s == g.free_head
      cell == Min((0..(Nodes(c) - 1)) \ g.slabs[s].cells)
      taken == [g EXCEPT !.slabs[s].cells = @ \cup {cell}, !.slabs[s].rest = @ - 1]
  IN [group |-> IF taken.slabs[s].rest = 0 THEN Filled(taken) ELSE taken, slab |-> s, cell |-> cell]

Unfilled_stale(g, s) ==
  LET p == g.slabs[s].prev
      n == g.slabs[s].next
      closed == SetPrev(g.slabs, n, p)
  IN [g EXCEPT !.slabs = SetPrev(Linked(closed, s, Null, g.free_head), g.free_head, s),
               !.used_head = IF p = Null THEN n ELSE @]

\* The first free cell of a full slab: the slab leaves the list of full ones
\* and is linked in front of the free list, whose head is not moved to it.
Unfilled(g, s) ==
  LET p == g.slabs[s].prev
      n == g.slabs[s].next
      closed == SetNext(SetPrev(g.slabs, n, p), p, n)
  IN [g EXCEPT !.slabs = SetPrev(Linked(closed, s, Null, g.free_head), g.free_head, s),
               !.used_head = IF p = Null THEN n ELSE @]

\* slab_group::free; a cell that is not in use is a failed assertion.
free(g, s, cell) ==
  LET given == [g EXCEPT !.slabs[s].cells = @ \ {cell}, !.slabs[s].rest = @ + 1]
  IN IF given.slabs[s].rest = 1 THEN Unfilled(given, s) ELSE given

-----------------------------------------------------------------------------
Allocated(h, l, size) ==
  LET c == ClassOf(size)
      a == alloc(h[c], c)
  IN [groups |-> [h EXCEPT ![c] = a.group],
      handed |-> l \cup {[class |-> c, slab |-> a.slab, cell |-> a.cell, size |-> size]}]

Empty == [c \in Classes |-> [slabs |-> <<>>, free_head |-> Null, used_head |-> Null]]
\* The heap after n allocations of one size.
Before[n \in Nat, size \in HeapSizes] ==
  IF n = 0 THEN [groups |-> Empty, handed |-> {}]
  ELSE LET b == Before[n - 1, size] IN Allocated(b.groups, b.handed, size)

HeapInit ==
  /\ \E s \in HeapStarts : groups = Before[s[1], s[2]].groups /\ handed = Before[s[1], s[2]].handed
  /\ heapCalls = 0

kmalloc(size) ==
  /\ LET a == Allocated(groups, handed, size) IN groups' = a.groups /\ handed' = a.handed
  /\ heapCalls < MaxHeapCalls /\ heapCalls' = heapCalls + 1

\* kfree finds the group by the page of the address.
kfree(o) ==
  /\ groups' = [groups EXCEPT ![o.class] = free(groups[o.class], o.slab, o.cell)]
  /\ handed' = handed \ {o}
  /\ heapCalls < MaxHeapCalls /\ heapCalls' = heapCalls + 1

HeapNext == (\E size \in HeapSizes : kmalloc(size)) \/ (\E o \in handed : kfree(o))
HeapSpec == HeapInit /\ [][HeapNext]_heapVars

-----------------------------------------------------------------------------
\* The list that starts at a slab, as far as its links lead without a cycle.
ListOf(g, head) ==
  LET From[s \in 0..Len(g.slabs), n \in 0..(Len(g.slabs) + 1)] ==
        IF s = Null \/ n = 0 THEN <<>> ELSE <<s>> \o From[g.slabs[s].next, n - 1]
  IN From[head, Len(g.slabs) + 1]

(* The heap is what its callers see: an object lies in the smallest class  *)
(* that holds it and inside its slab, no two objects share a cell, and a   *)
(* cell is marked exactly while its object is handed out; the slabs on the *)
(* list of full slabs are the full ones, each once and linked both ways,   *)
(* and no full slab is on the free list, from which alloc would hand out a *)
(* cell beyond its end (slab_group::alloc and free, kmalloc).              *)
HeapExact ==
  /\ \A o \in handed :
       /\ KmallocSizes[o.class] >= o.size
       /\ \A c \in Classes : KmallocSizes[c] >= o.size => c >= o.class
       /\ SlabHeader + (o.cell + 1) * KmallocSizes[o.class] <= PageSize * slab_group(KmallocSizes[o.class]).pages
  /\ \A c \in DOMAIN groups :
       LET g == groups[c]
           used == ListOf(g, g.used_head)
           avail == ListOf(g, g.free_head)
       IN /\ \A s \in DOMAIN g.slabs :
               /\ g.slabs[s].cells = {o.cell : o \in {x \in handed : x.class = c /\ x.slab = s}}
               /\ Cardinality({x \in handed : x.class = c /\ x.slab = s}) = Nodes(c) - g.slabs[s].rest
          /\ ToSet(used) = {s \in DOMAIN g.slabs : g.slabs[s].rest = 0}
          /\ \A i \in DOMAIN used : g.slabs[used[i]].prev = IF i = 1 THEN Null ELSE used[i - 1]
          /\ IsInjective(used) /\ IsInjective(avail)
          /\ \A s \in ToSet(avail) : g.slabs[s].rest > 0
=============================================================================
