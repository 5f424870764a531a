------------------------------ MODULE DataPlane ------------------------------
(***************************************************************************)
(* The bulk-data objects of mm/data_plane.cc and the handlers of their     *)
(* protocols (publish_shared_ring_call, publish_memory_object_call): a     *)
(* ring of records, popped by a claim, a copy and a commit, and a memory   *)
(* object read and written by extents.  Every call of an object is one     *)
(* step under its lock_; a pop is two of them, so that poppers of several  *)
(* workers meet between its claim and its commit.                          *)
(***************************************************************************)
EXTENDS Integers, Sequences, FiniteSetsExt

CONSTANTS
  DpWorkers,   \* kernel workers that run calls
  Slots,       \* slots of the ring
  SlotBytes,   \* bytes of a slot
  MemoryBytes, \* bytes of the memory object
  ReadOnly,    \* it has NA_MEMORY_FLAG_READ_ONLY
  WordBits,    \* width of an offset or a size, 64
  Sizes,       \* sizes of pushed records and capacities of pops
  MaxPushes,   \* bound: records accepted
  MaxWrites    \* bound: writes of the memory object

ASSUME DataPlaneConstants == Slots \in Nat \ {0} /\ {SlotBytes, MemoryBytes, WordBits} \subseteq Nat /\ Sizes \subseteq Nat

VARIABLES ring, memory_bytes, dpWork
dpVars == <<ring, memory_bytes, dpWork>>

DpIdle == [at |-> "idle"]
Zeros(n) == [k \in 1..n |-> 0]
NoRecord == [size |-> 0, id |-> 0]

(* shared_ring's constructor; pushed and popped are what went in and out.  *)
shared_ring ==
  [slots |-> [k \in 0..(Slots - 1) |-> NoRecord], head |-> 0, tail |-> 0, count |-> 0,
   pop_claimed |-> FALSE, pushed |-> << >>, popped |-> << >>]

WouldBlock(r) == r.count = Slots
push(r, record) ==
  IF record.size > SlotBytes \/ WouldBlock(r) THEN r
  ELSE [r EXCEPT !.slots[r.tail] = record, !.tail = (@ + 1) % Slots, !.count = @ + 1,
                 !.pushed = Append(@, record)]

claim_pop_unclaimed(r) == r.count > 0
claim_pop(r) == r.count > 0 /\ ~r.pop_claimed
cancel_pop(r) == [r EXCEPT !.pop_claimed = FALSE]
commit_pop(r, snapshot) ==
  IF ~r.pop_claimed \/ r.count = 0 THEN r
  ELSE [r EXCEPT !.slots[r.head] = NoRecord, !.head = (@ + 1) % Slots, !.count = @ - 1,
                 !.pop_claimed = FALSE, !.popped = Append(@, snapshot)]

(* An extent lies in the object; no sum of it can wrap.                    *)
valid_extent(offset, size, limit) == offset <= limit /\ size <= limit - offset
memory_object == Zeros(MemoryBytes)
writable(bytes, offset, size) == ~ReadOnly /\ valid_extent(offset, size, Len(bytes))
write(bytes, offset, data) ==
  [k \in DOMAIN bytes |-> IF k \in (offset + 1)..(offset + Len(data)) THEN data[k - offset] ELSE bytes[k]]

-----------------------------------------------------------------------------
DpInit == ring = shared_ring /\ memory_bytes = memory_object /\ dpWork = [w \in DpWorkers |-> DpIdle]

ring_push(size) ==
  /\ Len(ring.pushed) < MaxPushes
  /\ ring' = push(ring, [size |-> size, id |-> Len(ring.pushed) + 1])
  /\ UNCHANGED <<memory_bytes, dpWork>>

(* The claim, with the copy it takes; a capacity too small gives it back.  *)
ring_pop_claim(w, capacity) ==
  /\ dpWork[w] = DpIdle
  /\ claim_pop(ring)
  /\ ring' = [ring EXCEPT !.pop_claimed = TRUE]
  /\ dpWork' = [dpWork EXCEPT ![w] = [at |-> "claimed", snapshot |-> ring.slots[ring.head], capacity |-> capacity]]
  /\ UNCHANGED memory_bytes
ring_pop_finish(w) ==
  /\ dpWork[w].at = "claimed"
  /\ ring' = IF dpWork[w].capacity < dpWork[w].snapshot.size THEN cancel_pop(ring)
             ELSE commit_pop(ring, dpWork[w].snapshot)
  /\ dpWork' = [dpWork EXCEPT ![w] = DpIdle]
  /\ UNCHANGED memory_bytes

(* A write of size bytes, all of the value one above the object's largest. *)
memory_write(offset, size) ==
  LET value == Max({memory_bytes[k] : k \in DOMAIN memory_bytes} \cup {0}) + 1 IN
  /\ value <= MaxWrites
  /\ writable(memory_bytes, offset, size)
  /\ memory_bytes' = write(memory_bytes, offset, [k \in 1..size |-> value])
  /\ UNCHANGED <<ring, dpWork>>

DpNext ==
  \/ \E size \in Sizes : ring_push(size)
  \/ \E w \in DpWorkers : (\E capacity \in Sizes : ring_pop_claim(w, capacity)) \/ ring_pop_finish(w)
  \/ \E offset, size \in 0..(2^WordBits - 1) : memory_write(offset, size)

DpSpec == DpInit /\ [][DpNext]_dpVars

-----------------------------------------------------------------------------
(* However the pops of several workers meet, each record pushed into the   *)
(* ring is popped once, in the order of the pushes: what was popped and    *)
(* what the slots hold, from head on, is what was pushed (shared_ring).    *)
EachRecordOnce ==
  ring.popped \o [k \in 1..ring.count |-> ring.slots[(ring.head + k - 1) % Slots]] = ring.pushed
=============================================================================
