------------------------------ MODULE AddressSpace ------------------------------
(***************************************************************************)
(* Address spaces: the areas of a process (mm/vm.cc), the page tables that *)
(* processes share copy-on-write (arch/paging.cc), the reference counts of *)
(* page frames (mm/zone.cc), the map, unmap and brk calls and the          *)
(* framebuffer (dev/framebuffer.cc), whose writer holds a lease that must  *)
(* outlive its mappings.                                                   *)
(*                                                                         *)
(* The record mm holds the frames, the address spaces and the framebuffer; *)
(* each function of the code is an operator from it to it.  A table has    *)
(* Fan entries (512) and there are Depth levels of them (4); an address is *)
(* a page number.  What a page holds is left out.  A step is what one      *)
(* holder of paging_spin_ does; the code takes that lock for each part of  *)
(* a call that touches the tables.  A null or wild pointer followed by the *)
(* kernel, or trace::panic, leaves mm.crashed TRUE and is the last step.   *)
(***************************************************************************)
EXTENDS Integers, Sequences, FiniteSets, SequencesExt, FiniteSetsExt

CONSTANTS
  Fan,           \* entries of a page table, 512
  Depth,         \* levels of page tables, 4
  Bottom,        \* user_code_bottom_address, in pages
  HeapPages,     \* user_head_size, in pages
  MaxFrames,     \* bound: page frames
  Spaces,        \* process_t addresses, so a new process may get an old one
  Image,         \* the areas that the loader maps for the first process
  MmStarts,      \* the calls it has made so far
  Frontends,     \* processes with the console_frontend capability
  MmCalls,       \* the calls and the accesses that processes make
  MaxMmCalls     \* bound: calls made

VARIABLES mm, mmCalls
mmVars == <<mm, mmCalls>>

Index == 0 .. Fan - 1
Levels == 1 .. Depth - 1                 \* the tables that have tables below
Top == Fan ^ Depth                       \* user_mmap_top_address
NoFrame == 0
Device == MaxFrames + 1                  \* a page outside every zone
Frames == 1 .. MaxFrames
Absent == [to |-> NoFrame, w |-> FALSE]
FreeFrame == [ref |-> 0, count |-> 0, entries |-> [i \in Index |-> Absent]]
NoSpace == [live |-> FALSE, root |-> NoFrame, areas |-> {}, heap |-> <<>>, brk |-> 0]
NoHeap == <<>>                           \* heap_vm_ == nullptr

Panicked(S) == [S EXCEPT !.crashed = TRUE]
Present(e) == e.to # NoFrame
\* the index of address v at a level: 1 in the root, Depth in the last table
IndexAt(v, level) == (v \div Fan ^ (Depth - level)) % Fan
-----------------------------------------------------------------------------
(* Frames *)

\* the frame that zones::allocate returns next, with one reference
Fresh(S) == Min({f \in Frames : S.frames[f].ref = 0})

allocate(S) == [S EXCEPT !.frames[Fresh(S)] = [FreeFrame EXCEPT !.ref = 1]]

deallocate(S, f) ==
  IF f \notin Frames \/ S.frames[f].ref = 0 THEN Panicked(S)
  ELSE [S EXCEPT !.frames[f] = IF @.ref = 1 THEN FreeFrame ELSE [@ EXCEPT !.ref = @ - 1]]

page_add_reference(S, f) ==
  IF f \notin Frames \/ S.frames[f].ref = 0 THEN Panicked(S)
  ELSE [S EXCEPT !.frames[f].ref = @ + 1]

EntryAt(S, t, i) == S.frames[t].entries[i]
SetEntry(S, t, i, e) == [S EXCEPT !.frames[t].entries[i] = e]
Counted(S, t, n) == [S EXCEPT !.frames[t].count = @ + n]
-----------------------------------------------------------------------------
(* Page tables *)

\* share_page_entry: the table below entry i of t, shared with other tables,
\* is replaced by a copy.  Both copies lose the write permission.
CopyTable(S, t, i, w) ==
  LET old == EntryAt(S, t, i).to
      held == {k \in Index : Present(EntryAt(S, old, k))}
      sealed == [k \in Index |-> [EntryAt(S, old, k) EXCEPT !.w = FALSE]]
      Replaced(R, new) ==
        IF R.crashed THEN R
        ELSE SetEntry(deallocate([R EXCEPT
                                    !.frames[old].entries = sealed,
                                    !.frames[new] = [ref |-> 1, entries |-> sealed,
                                                     count |-> Cardinality(held)]], old),
                      t, i, [to |-> new, w |-> w])
  IN Replaced(FoldSet(LAMBDA k, R : page_add_reference(R, EntryAt(S, old, k).to), S, held), Fresh(S))

share_page_entry_shared(S, t, i, w, all) ==
  IF ~w /\ ~all THEN S ELSE SetEntry(S, t, i, [EntryAt(S, t, i) EXCEPT !.w = w])

share_page_entry(S, t, i, w, all) ==
  IF ~w /\ ~all THEN S
  ELSE IF S.frames[EntryAt(S, t, i).to].ref = 1
  THEN SetEntry(S, t, i, [EntryAt(S, t, i) EXCEPT !.w = w])
  ELSE CopyTable(S, t, i, w)

ensure_single(S, t, i, w, all) ==
  IF Present(EntryAt(S, t, i)) THEN share_page_entry(S, t, i, w, all)
  ELSE SetEntry(Counted(allocate(S), t, 1), t, i, [to |-> Fresh(S), w |-> w])

\* the tables from the root to the last one for v, as far as they are present
Tables(S, root, v) ==
  FoldLeft(LAMBDA path, level :
             IF Len(path) < level THEN path
             ELSE LET e == EntryAt(S, path[level], IndexAt(v, level))
                  IN IF Present(e) THEN Append(path, e.to) ELSE path,
           <<root>>, [k \in Levels |-> k])

\* tables down to v, each of them this space's alone when w or all
ensure(S, root, v, w, all) ==
  FoldLeft(LAMBDA R, level :
             IF R.crashed THEN R
             ELSE ensure_single(R, Tables(R, root, v)[level], IndexAt(v, level), w, all),
           S, [k \in Levels |-> k])

LastTable(S, root, v) == Tables(S, root, v)[Depth]
LeafOf(S, path, v) ==
  IF Len(path) = Depth THEN EntryAt(S, path[Depth], IndexAt(v, Depth)) ELSE Absent
Leaf(S, root, v) == LeafOf(S, Tables(S, root, v), v)

\* what the processor allows: the permission of every level
Writable(S, root, v) ==
  /\ Present(Leaf(S, root, v)) /\ Leaf(S, root, v).w
  /\ \A level \in Levels : EntryAt(S, Tables(S, root, v)[level], IndexAt(v, level)).w

\* page_table_t::map of one page with action override, and with cow too when
\* a page must already be there
map(S, root, v, w, cow) ==
  LET i == IndexAt(v, Depth)
      Filled(R, t, to) ==
        IF R.crashed THEN R
        ELSE IF Present(EntryAt(R, t, i))
        THEN SetEntry(deallocate(allocate(R), EntryAt(R, t, i).to), t, i, to)
        ELSE IF cow THEN Panicked(R)
        ELSE SetEntry(Counted(allocate(R), t, 1), t, i, to)
      In(R) == Filled(R, LastTable(R, root, v), [to |-> Fresh(R), w |-> w])
  IN In(ensure(S, root, v, w, FALSE))

\* page_table_t::map_to of one device page
map_to(S, root, v, w) ==
  LET i == IndexAt(v, Depth)
      Filled(R, t) ==
        IF R.crashed THEN R
        ELSE SetEntry(IF Present(EntryAt(R, t, i)) THEN R ELSE Counted(R, t, 1),
                      t, i, [to |-> Device, w |-> w])
      In(R) == Filled(R, LastTable(R, root, v))
  IN In(ensure(S, root, v, w, FALSE))

\* the entry for v in the table at a level goes; a table whose last entry
\* goes is freed, and its own entry goes.  The root's counter stays.
RECURSIVE Cascade(_, _, _, _)
Cascade(S, path, v, level) ==
  LET t == path[level]
      R == SetEntry(S, t, IndexAt(v, level), Absent)
  IN IF level = 1 THEN R
     ELSE IF S.frames[t].count > 1 THEN Counted(R, t, -1)
     ELSE Cascade(deallocate(R, t), path, v, level - 1)

unmap_page(S, root, v) ==
  LET Freed(R, path, to) ==
        IF R.crashed THEN R
        ELSE Cascade(IF to = Device THEN R ELSE deallocate(R, to), path, v, Depth)
      From(R, path) == Freed(R, path, LeafOf(R, path, v).to)
      In(R) == From(R, Tables(R, root, v))
      Of(e) == IF Present(e) THEN In(ensure(S, root, v, e.w, TRUE)) ELSE S
  IN Of(Leaf(S, root, v))

\* page_table_t::unmap.  A missing table is stepped over, and the pages it
\* would map are counted once more at each level below it.
RECURSIVE unmap(_, _, _, _)
unmap(S, root, v, pages) ==
  LET Skip(deep) == MapThenSumSet(LAMBDA k : (Fan - IndexAt(v, k)) * Fan ^ (Depth - k),
                                  deep + 1 .. Depth)
      After(deep) == (v \div Fan ^ (Depth - deep) + 1) * Fan ^ (Depth - deep)
      From(deep) == IF deep = Depth THEN unmap(unmap_page(S, root, v), root, v + 1, pages - 1)
                    ELSE unmap(S, root, After(deep), pages - Skip(deep))
  IN IF pages <= 0 \/ v >= Top \/ S.crashed THEN S ELSE From(Len(Tables(S, root, v)))

\* the leading present entries of the root are shared, both without the write
\* permission; the loop does not step past an absent one
clone_readonly_to(S, from, to) ==
  LET held == {i \in Index : \A k \in 0 .. i : Present(EntryAt(S, from, k))}
      sealed(t) == [i \in Index |-> IF i \in held THEN [EntryAt(S, from, i) EXCEPT !.w = FALSE]
                                    ELSE EntryAt(S, t, i)]
      R == FoldSet(LAMBDA i, Q : page_add_reference(Q, EntryAt(S, from, i).to), S, held)
  IN [R EXCEPT !.frames[from].entries = sealed(from),
               !.frames[to].entries = sealed(to),
               !.frames[to].count = @ + Cardinality(held)]
-----------------------------------------------------------------------------
(* Areas *)

Area(start, end, method, w) ==
  [start |-> start, end |-> end, method |-> method, w |-> w, cow |-> FALSE]

\* the list is ordered by end, and areas with the same end compare equal
Ordered(areas) == SetToSortSeq(areas, LAMBDA a, b : a.end < b.end)
upper_find(areas, p) ==
  LET above == {a \in areas : a.end > p}
  IN {a \in above : \A b \in above : a.end <= b.end}
get_vm_area(areas, p) == {a \in upper_find(areas, p) : a.start <= p}
Areas(S, p) == S.spaces[p].areas
Root(S, p) == S.spaces[p].root
WithArea(S, p, area) == [S EXCEPT !.spaces[p].areas = @ \cup {area}]

\* allocate_map: first fit.  The difference is unsigned, so an area that
\* begins below the end of the one before it also makes room.
FirstFit(areas, size) ==
  FoldLeft(LAMBDA at, a : IF at.found \/ a.start < at.low \/ a.start - at.low >= size
                          THEN [at EXCEPT !.found = TRUE] ELSE [at EXCEPT !.low = a.end],
           [found |-> FALSE, low |-> Bottom], Ordered(areas))

allocate_map(areas, size) ==
  LET at == FirstFit(areas, size)
  IN IF ~at.found /\ Top < at.low + size THEN {} ELSE {at.low}

\* add_map at the hint: refused when the next area that ends later begins at
\* the same place; an overlap is not noticed otherwise
add_map(areas, hint, size) ==
  IF hint < Bottom \/ hint + size > Top
     \/ \E a \in upper_find(areas, hint + size) : a.start = hint
  THEN {} ELSE {hint}

\* on_mapping_created and on_mapping_released of the framebuffer
release_writer_if_idle(fb) ==
  IF fb.opens = 0 /\ fb.mappings = 0 THEN [fb EXCEPT !.active = FALSE] ELSE fb

IsScanout(area) == area.method = "physical" /\ area.w
on_mapping_created(fb, area) == IF IsScanout(area) THEN [fb EXCEPT !.mappings = @ + 1] ELSE fb
on_mapping_released(fb, area) ==
  IF IsScanout(area) /\ fb.mappings > 0
  THEN release_writer_if_idle([fb EXCEPT !.mappings = @ - 1]) ELSE fb

allow_mapping(S, p, w) == w => p \in Frontends /\ S.fb.active /\ S.fb.writer = p

\* map_file and map_memory_object.  The device is told of its mapping before
\* a place is looked for, and told again when there is none.
map_file(S, p, c) ==
  LET at == IF c.hint = 0 THEN allocate_map(Areas(S, p), c.size)
            ELSE add_map(Areas(S, p), c.hint, c.size)
      start == CHOOSE v \in at : TRUE
      area == Area(start, start + c.size, c.method, c.w)
      fb == on_mapping_created(S.fb, area)
  IN IF at = {} THEN S
     ELSE WithArea([S EXCEPT !.fb = fb], p, area)

\* one area's pages are unmapped and the area forgotten
Drop(S, p, area) ==
  LET R == unmap(S, Root(S, p), area.start, area.end - area.start)
  IN [R EXCEPT !.spaces[p].areas = @ \ {area}, !.fb = on_mapping_released(@, area)]

umap_file(S, p, start, size) ==
  LET hit == {a \in get_vm_area(Areas(S, p), start) : a.end - a.start = size}
  IN IF hit = {} THEN S ELSE Drop(S, p, CHOOSE a \in hit : TRUE)

\* The rights of the handle and the extent of the object allow the call, or
\* it is refused.  When the address cannot be returned the area goes again.
memory_map(S, p, c) ==
  LET R == map_file(S, p, c)
  IN IF ~c.granted \/ (c.method = "physical" /\ ~allow_mapping(S, p, c.w)) THEN S
     ELSE IF c.copied THEN R
     ELSE FoldSet(LAMBDA a, Q : umap_file(Q, p, a.start, a.end - a.start), R,
                  Areas(R, p) \ Areas(S, p))

set_brk(S, p, ptr) ==
  LET heap == S.spaces[p].heap
      brk == S.spaces[p].brk
      R == IF ptr > brk THEN S ELSE unmap(S, Root(S, p), ptr, brk - ptr)
  IN IF heap = NoHeap THEN Panicked(S)
     ELSE IF ptr > heap[2] \/ ptr < heap[1] THEN S
     ELSE [R EXCEPT !.spaces[p].brk = ptr]
-----------------------------------------------------------------------------
(* Page faults *)

expand_brk(S, p, v, area) ==
  IF v < S.spaces[p].brk THEN map(S, Root(S, p), v, area.w, FALSE) ELSE S

expand_vm(S, p, v, area) == map(S, Root(S, p), v, area.w, FALSE)

\* the page is then filled from the file or the memory object, whose extent
\* was checked when the area was made
expand_file(S, p, v, area) == map(S, Root(S, p), v, area.w, FALSE)

expand_physical(S, p, v, area) == map_to(S, Root(S, p), v, area.w)

expand(S, p, v, area) ==
  CASE area.method = "heap_break" -> expand_brk(S, p, v, area)
    [] area.method = "common"     -> expand_vm(S, p, v, area)
    [] area.method \in {"file", "memory_object"} -> expand_file(S, p, v, area)
    [] area.method = "physical"   -> expand_physical(S, p, v, area)

page_fault_present(S, p, v) ==
  LET hit == get_vm_area(Areas(S, p), v)
  IN IF hit = {} THEN S ELSE expand(S, p, v, CHOOSE a \in hit : TRUE)

copy_at(S, p, v) ==
  LET hit == {a \in get_vm_area(Areas(S, p), v) : a.w /\ a.cow}
  IN IF hit = {} THEN S
     ELSE IF \E a \in hit : a.method = "physical" THEN map_to(S, Root(S, p), v, TRUE)
     ELSE map(S, Root(S, p), v, TRUE, TRUE)

\* An address of the kernel, which copy_at does not see, is left out.
page_fault_cow(S, p, v) == copy_at(S, p, v)

\* page_fault_func, for an access the tables do not allow.  One that is not
\* handled leaves the tables alone and signals the process.
access(S, p, v, write) ==
  IF ~Present(Leaf(S, Root(S, p), v)) THEN page_fault_present(S, p, v)
  ELSE IF write /\ ~Writable(S, Root(S, p), v) THEN page_fault_cow(S, p, v)
  ELSE S
-----------------------------------------------------------------------------
(* Processes *)

restore_fork_disallowed_mappings(S, p) ==
  FoldLeft(LAMBDA R, a :
             FoldLeft(LAMBDA Q, k : IF Q.crashed THEN Q
                                    ELSE map_to(Q, Root(S, p), a.start + k - 1, a.w),
                      R, [k \in 1 .. a.end - a.start |-> k]),
           S, Ordered({a \in Areas(S, p) : a.method = "physical"}))

RECURSIVE remove_fork_disallowed_mappings(_, _)
remove_fork_disallowed_mappings(S, p) ==
  LET From(R) == IF R = S THEN S ELSE remove_fork_disallowed_mappings(R, p)
      Of(areas) == IF areas = <<>> THEN S
                   ELSE From(umap_file(S, p, areas[1].start, areas[1].end - areas[1].start))
  IN Of(Ordered({a \in Areas(S, p) : IsScanout(a)}))

\* vm_allocator::clone: both spaces get the copy-on-write mark
clone(S, p, q) ==
  LET marked == {[a EXCEPT !.cow = TRUE] : a \in Areas(S, p)}
  IN [S EXCEPT !.spaces[p].areas = marked, !.spaces[q].areas = marked,
               !.fb = FoldSet(LAMBDA a, fb : on_mapping_created(fb, a), @, marked)]

NewSpace(S, p) ==
  [allocate(S) EXCEPT !.spaces[p] = [NoSpace EXCEPT !.live = TRUE, !.root = Fresh(S)]]

\* share_to, for fork.  The heap pointer and the break are not copied.
share_to(S, p, q) ==
  LET R == clone(NewSpace(S, q), p, q)
      Trimmed(Q) == IF Q.crashed THEN Q ELSE remove_fork_disallowed_mappings(Q, q)
  IN Trimmed(restore_fork_disallowed_mappings(clone_readonly_to(R, Root(R, p), Root(R, q)), p))

\* ~info_t
delete_space(S, p) ==
  LET Without(R) == IF R.crashed THEN R
                    ELSE [deallocate(R, Root(S, p)) EXCEPT !.spaces[p] = NoSpace]
  IN Without(FoldLeft(LAMBDA Q, a : Drop(Q, p, a), S, Ordered(Areas(S, p))))

\* the framebuffer device opened for writing, and the file closed
open_framebuffer(S, p) ==
  IF p \notin Frontends \/ S.fb.active THEN S
  ELSE [S EXCEPT !.fb = [@ EXCEPT !.active = TRUE, !.writer = p, !.opens = 1]]

close_with_flags(S) ==
  IF S.fb.opens = 0 THEN S ELSE [S EXCEPT !.fb = release_writer_if_idle([@ EXCEPT !.opens = @ - 1])]

force_offline(S) ==
  IF S.fb.active /\ S.spaces[S.fb.writer].live THEN delete_space(S, S.fb.writer) ELSE S
-----------------------------------------------------------------------------
MmAnswer(S, c) ==
  CASE c.op = "access" -> access(S, c.p, c.v, c.write)
    [] c.op = "map"    -> memory_map(S, c.p, c)
    [] c.op = "unmap"  -> umap_file(S, c.p, c.start, c.size)
    [] c.op = "brk"    -> set_brk(S, c.p, c.ptr)
    [] c.op = "fork"   -> share_to(S, c.p, c.q)
    [] c.op = "exit"   -> delete_space(S, c.p)
    [] c.op = "open"   -> open_framebuffer(S, c.p)

\* the image as the loader leaves it: its areas, then the heap above them
Loaded(S, p) ==
  LET R == [NewSpace(S, p) EXCEPT !.spaces[p].areas = Image]
      end == Max({a.end : a \in Image})
      heap == Area(end, end + HeapPages, "heap_break", TRUE)
  IN [WithArea(R, p, heap) EXCEPT !.spaces[p].heap = <<heap.start, heap.end>>,
                                  !.spaces[p].brk = heap.start]

Booted ==
  LET first == CHOOSE p \in Spaces : TRUE
  IN Loaded([frames |-> [f \in Frames |-> FreeFrame],
             spaces |-> [p \in Spaces |-> NoSpace],
             fb |-> [active |-> FALSE, writer |-> first, opens |-> 0, mappings |-> 0],
             crashed |-> FALSE], first)

MmInit ==
  /\ mm \in {FoldLeft(MmAnswer, Booted, start) : start \in MmStarts}
  /\ mmCalls = 0

MmCall(c) ==
  /\ mmCalls < MaxMmCalls /\ ~mm.crashed
  /\ mm.spaces[c.p].live /\ (c.op = "fork" => ~mm.spaces[c.q].live)
  /\ mm' = MmAnswer(mm, c)
  /\ mmCalls' = mmCalls + 1

\* the last handle of the open framebuffer goes, or the terminal takes the
\* screen back
CloseFramebuffer ==
  /\ mmCalls < MaxMmCalls /\ ~mm.crashed /\ mm.fb.active
  /\ mm' \in {close_with_flags(mm), force_offline(mm)}
  /\ mmCalls' = mmCalls + 1

MmNext == (\E c \in MmCalls : MmCall(c)) \/ CloseFramebuffer
-----------------------------------------------------------------------------
Live == {p \in Spaces : mm.spaces[p].live}

WritableIsPrivate ==
  LET Seen == Live \X (0 .. Top - 1)
      page == [at \in Seen |-> Leaf(mm, Root(mm, at[1]), at[2]).to]
  IN \A at \in Seen :
       page[at] \in Frames /\ Writable(mm, Root(mm, at[1]), at[2])
       => \A other \in Seen \ {at} : page[other] # page[at]

ReferencesCovered ==
  \A f \in Frames :
    LET pointing == {<<t, i>> \in {u \in Frames : mm.frames[u].ref > 0} \X Index :
                       mm.frames[t].entries[i].to = f}
        roots == {p \in Live : Root(mm, p) = f}
    IN mm.frames[f].ref >= Cardinality(pointing) + Cardinality(roots)

LeaseOutlivesMappings ==
  \A p \in Live, a \in UNION {Areas(mm, q) : q \in Live} :
    IsScanout(a) /\ a \in Areas(mm, p) => mm.fb.active /\ mm.fb.writer = p

\* A page that a process can write without a fault is in no other process's
\* tables: after fork both see a write only through copy_at, which gives the
\* writer tables and a page of its own.  A frame is not freed while a table
\* that is in use points to it: the count that share_page_entry,
\* clone_readonly_to and unmap keep is never below the number of entries.
\* The framebuffer's lease is held as long as some process has it mapped, by
\* the process that has: fork gives the child's mapping back without giving
\* up the parent's.
AddressSpacesApart ==
  mm.crashed \/ (WritableIsPrivate /\ ReferencesCovered /\ LeaseOutlivesMappings)
=============================================================================
