--------------------------- MODULE ResourceTable ---------------------------
(***************************************************************************)
(* The per-process capability table (kernel/resource.cc, resource_table_t) *)
(* together with the transfers that move capabilities between tables       *)
(* (kernel/capability.hpp, transfer_record_list).                          *)
(*                                                                         *)
(* Every action is one critical section of native_map_lock, which is the   *)
(* granularity at which threads of a process interleave.  The object hooks *)
(* that run after the lock is dropped change endpoints, not tables, and    *)
(* are left out here.  Metadata other than the meta rights (scope,         *)
(* revision, features) is validated by the code the same way as the rights *)
(* and is left out.                                                        *)
(***************************************************************************)
EXTENDS Integers, FiniteSets

CONSTANTS
  Tables,       \* the processes, each with its table
  Objects,      \* kernel objects
  Batches,      \* transfer record lists that exist at the same time
  NoObject,     \* an empty khandle
  NoTable,      \* a null table pointer
  Unique,       \* objects with capability_is_unique()
  Inheritable,  \* objects bound as KERNEL_VIEW or CLIENT_END
  Terminal,     \* client ends of the terminal master/slave scope
  Granted,      \* the meta rights an object's first capability carries
  Requests,     \* the rights masks callers ask for
  MaxEntries,   \* NA_CAPABILITY_MAX_PER_PROCESS (4096)
  HandleSpace   \* 2^64: na_handle_t arithmetic is modulo this

DUPLICATE == "DUPLICATE"
TRANSFER == "TRANSFER"
INSPECT == "INSPECT"
Rights == {DUPLICATE, TRANSFER, INSPECT}

ASSUME TableConstants ==
  /\ MaxEntries \in Nat
  /\ HandleSpace \in Nat /\ HandleSpace > 1
  /\ Unique \subseteq Objects /\ Inheritable \subseteq Objects /\ Terminal \subseteq Objects
  /\ NoObject \notin Objects /\ NoTable \notin Tables
  /\ Granted \in [Objects -> SUBSET Rights]
  /\ Requests \subseteq SUBSET Rights

Handles == 1 .. (HandleSpace - 1)     \* NA_HANDLE_INVALID is 0

VARIABLES
  table,      \* native_handle_map: the entry of every handle of every table
  next,       \* next_native_handle
  count,      \* native_entry_count
  life,       \* whether the process exists, runs, or has released its table
  restricts,  \* <<source, restricted>> pairs between prepare and commit
  batch,      \* the transfer record lists
  lost        \* slots whose detached node was discarded without commit

vars == <<table, next, count, life, restricts, batch, lost>>

----------------------------------------------------------------------------
(* capability::entry and capability::transfer_record *)

EntryState == {"absent", "reserved", "active", "restricting"}
Entry == [st : EntryState, obj : Objects \cup {NoObject}, rights : SUBSET Rights]
Absent == [st |-> "absent", obj |-> NoObject, rights |-> {}]
Reserved == [st |-> "reserved", obj |-> NoObject, rights |-> {}]

\* One record per source handle: armed is restore_token.valid() of a MOVE,
\* obj the resource while the record (or the message built from it) still
\* owns it, orig the rights kept in the detached map node.
Record == [armed : BOOLEAN, obj : Objects \cup {NoObject}, rights : SUBSET Rights, orig : SUBSET Rights]
NoRecord == [armed |-> FALSE, obj |-> NoObject, rights |-> {}, orig |-> {}]
NoRecords == [h \in Handles |-> NoRecord]

\* taken: owned by the submitting call; queued: a message in a channel or
\* protocol queue; receiving: claimed by a receive that has reserved its slots; activating: the
\* copy to the receiver is done, some resources are active; drained: its resources are
\* delivered or dropped, the sender has still to commit; kernel: owned by a
\* kernel dispatch request.
Phase == {"idle", "taken", "queued", "receiving", "activating", "drained", "kernel"}
Batch == [phase : Phase, from : Tables \cup {NoTable}, to : Tables \cup {NoTable},
          rec : [Handles -> Record], slots : SUBSET Handles]
IdleBatch == [phase |-> "idle", from |-> NoTable, to |-> NoTable, rec |-> NoRecords, slots |-> {}]

Present(t) == {h \in Handles : table[t][h].st # "absent"}
Armed(b) == {h \in Handles : batch[b].rec[h].armed}
Detached(t) == {h \in Handles : \E b \in Batches : batch[b].from = t /\ batch[b].rec[h].armed}
Loaded(b) == {h \in Handles : batch[b].rec[h].obj # NoObject}

\* A slot is held while its entry is in the map or its detached node waits
\* for commit or restore: detach does not touch native_entry_count.
Held(t) == Present(t) \cup Detached(t)

Issued(t, h) == next[t] = 0 \/ h < next[t]

Init ==
  /\ table = [t \in Tables |-> [h \in Handles |-> Absent]]
  /\ next = [t \in Tables |-> 1]
  /\ count = [t \in Tables |-> 0]
  /\ life = [t \in Tables |-> "unborn"]
  /\ restricts = [t \in Tables |-> {}]
  /\ batch = [b \in Batches |-> IdleBatch]
  /\ lost = [t \in Tables |-> 0]

----------------------------------------------------------------------------
(* Allocation and the single-handle operations *)

\* allocate_native_handle_locked would succeed.
CanAllocate(t) == count[t] < MaxEntries /\ next[t] # 0

\* Mutated form: the counter wraps past the invalid handle.
After_wraps(n) == IF n + 1 = HandleSpace THEN 1 ELSE n + 1

After(n) == (n + 1) % HandleSpace

\* Mutated form: the insertion is not counted.
Insert_uncounted(t, e) ==
  /\ table' = [table EXCEPT ![t][next[t]] = e]
  /\ next' = [next EXCEPT ![t] = After(next[t])]
  /\ UNCHANGED count

\* Insert one entry under the next handle value.
Insert(t, e) ==
  /\ table' = [table EXCEPT ![t][next[t]] = e]
  /\ next' = [next EXCEPT ![t] = After(next[t])]
  /\ count' = [count EXCEPT ![t] = @ + 1]

\* An object is fresh while no table and no transfer holds it.
Fresh(o) == /\ \A t \in Tables, h \in Handles : table[t][h].obj # o
            /\ \A b \in Batches, h \in Handles : batch[b].rec[h].obj # o

\* create_process: an empty table.
Spawn(t) ==
  /\ life[t] = "unborn"
  /\ life' = [life EXCEPT ![t] = "live"]
  /\ UNCHANGED <<table, next, count, restricts, batch, lost>>

install_native(t, o) ==
  /\ life[t] = "live" /\ Fresh(o)
  /\ CanAllocate(t)
  /\ Insert(t, [st |-> "active", obj |-> o, rights |-> Granted[o]])
  /\ UNCHANGED <<life, restricts, batch, lost>>

\* Mutated form: close does not require the entry to be active.
close_native_any(t, h) ==
  /\ life[t] = "live"
  /\ table[t][h].st # "absent"
  /\ table' = [table EXCEPT ![t][h] = Absent]
  /\ count' = [count EXCEPT ![t] = @ - 1]
  /\ UNCHANGED <<next, life, restricts, batch, lost>>

close_native(t, h) ==
  /\ life[t] = "live"
  /\ table[t][h].st = "active"
  /\ table' = [table EXCEPT ![t][h] = Absent]
  /\ count' = [count EXCEPT ![t] = @ - 1]
  /\ UNCHANGED <<next, life, restricts, batch, lost>>

\* Mutated form: a mask of zero asks for every right there is.
Requested_everything(held, r) == IF r = {} THEN Rights ELSE r

\* A mask of zero asks for all the rights of the source.
Requested(held, r) == IF r = {} THEN held ELSE r

Duplicable(t, h) == DUPLICATE \in table[t][h].rights /\ table[t][h].obj \notin Unique

duplicate_native(t, h, r) ==
  /\ life[t] = "live"
  /\ table[t][h].st = "active"
  /\ Duplicable(t, h)
  /\ r \subseteq table[t][h].rights
  /\ CanAllocate(t)
  /\ Insert(t, [table[t][h] EXCEPT !.rights = Requested(@, r)])
  /\ UNCHANGED <<life, restricts, batch, lost>>

\* Prepare: the source is hidden and a reserved replacement without object
\* carries the narrower rights.
restrict_native(t, h, r) ==
  /\ life[t] = "live"
  /\ table[t][h].st = "active"
  /\ r \subseteq table[t][h].rights
  /\ CanAllocate(t)
  /\ table' = [table EXCEPT ![t][next[t]] = [st |-> "reserved", obj |-> NoObject, rights |-> r],
                            ![t][h].st = "restricting"]
  /\ next' = [next EXCEPT ![t] = After(next[t])]
  /\ count' = [count EXCEPT ![t] = @ + 1]
  /\ restricts' = [restricts EXCEPT ![t] = @ \cup {<<h, next[t]>>}]
  /\ UNCHANGED <<life, batch, lost>>

Prepared(t, h, n) ==
  /\ table[t][h].st = "restricting" /\ table[t][h].obj # NoObject
  /\ table[t][n].st = "reserved"

commit_restrict(t, h, n) ==
  /\ life[t] = "live"
  /\ <<h, n>> \in restricts[t]
  /\ Prepared(t, h, n)
  /\ table' = [table EXCEPT ![t][n].st = "active", ![t][n].obj = table[t][h].obj, ![t][h] = Absent]
  /\ count' = [count EXCEPT ![t] = @ - 1]
  /\ restricts' = [restricts EXCEPT ![t] = @ \ {<<h, n>>}]
  /\ UNCHANGED <<next, life, batch, lost>>

\* The handle could not be copied out to the caller.
rollback_restrict(t, h, n) ==
  /\ life[t] = "live"
  /\ <<h, n>> \in restricts[t]
  /\ Prepared(t, h, n)
  /\ table' = [table EXCEPT ![t][n] = Absent, ![t][h].st = "active"]
  /\ count' = [count EXCEPT ![t] = @ - 1]
  /\ restricts' = [restricts EXCEPT ![t] = @ \ {<<h, n>>}]
  /\ UNCHANGED <<next, life, batch, lost>>

fork_inheritable(e) ==
  /\ e.st = "active" /\ e.obj # NoObject
  /\ e.obj \in Inheritable
  /\ DUPLICATE \in e.rights \/ e.obj \in Terminal

\* The child table of a fork, filled before the child runs.
clone_fork_bindings(t, u) ==
  /\ life[t] = "live" /\ life[u] = "unborn"
  /\ count[u] = 0
  /\ LET cloned == {h \in Handles : fork_inheritable(table[t][h])}
     IN /\ Cardinality(cloned) <= MaxEntries
        /\ table' = [table EXCEPT ![u] = [h \in Handles |-> IF h \in cloned THEN table[t][h] ELSE @[h]]]
        /\ count' = [count EXCEPT ![u] = @ + Cardinality(cloned)]
  /\ next' = [next EXCEPT ![u] = next[t]]
  /\ life' = [life EXCEPT ![u] = "live"]
  /\ UNCHANGED <<restricts, batch, lost>>

\* The last thread of the process is gone (exit_process_thread).
clear(t) ==
  /\ life[t] = "live"
  /\ table' = [table EXCEPT ![t] = [h \in Handles |-> Absent]]
  /\ count' = [count EXCEPT ![t] = 0]
  /\ life' = [life EXCEPT ![t] = "cleared"]
  /\ restricts' = [restricts EXCEPT ![t] = {}]
  /\ UNCHANGED <<next, batch, lost>>

----------------------------------------------------------------------------
(* Transfers: take, then commit or restore *)

\* A disposition is valid for the whole batch or nothing is taken: moves and
\* dups are the sources of the two operations, r the attenuated rights.
Transferable(t, h) == table[t][h].st = "active" /\ TRANSFER \in table[t][h].rights
take_native_batch(b, t, moves, dups, r) ==
  /\ life[t] = "live" /\ batch[b].phase = "idle"
  /\ moves \cup dups # {} /\ moves \cap dups = {}
  /\ \A h \in moves \cup dups : Transferable(t, h) /\ r \subseteq table[t][h].rights
  /\ \A h \in dups : Duplicable(t, h)
  /\ batch' = [batch EXCEPT ![b] =
       [phase |-> "taken", from |-> t, to |-> NoTable, slots |-> {},
        rec |-> [h \in Handles |->
                   IF h \in moves \cup dups
                   THEN [armed |-> h \in moves, obj |-> table[t][h].obj,
                         rights |-> Requested(table[t][h].rights, r),
                         orig |-> table[t][h].rights]
                   ELSE NoRecord]]]
  /\ table' = [table EXCEPT ![t] = [h \in Handles |-> IF h \in moves THEN Absent ELSE @[h]]]
  /\ UNCHANGED <<next, count, life, restricts, lost>>

\* Every detached node finds its slot free and its resource still in place.
Restorable(b) ==
  \A h \in Armed(b) : batch[b].rec[h].obj # NoObject /\ h \notin Present(batch[b].from)

\* restore_native_batch succeeds and the record list is destroyed.
RestoreAll(b) ==
  /\ Restorable(b)
  /\ table' = [table EXCEPT ![batch[b].from] =
       [h \in Handles |-> IF h \in Armed(b)
                          THEN [st |-> "active", obj |-> batch[b].rec[h].obj, rights |-> batch[b].rec[h].orig]
                          ELSE @[h]]]
  /\ batch' = [batch EXCEPT ![b] = IdleBatch]
  /\ UNCHANGED <<next, count, life, restricts, lost>>

\* restore_native_batch refuses the batch as a whole; destroying the record
\* list resets every token, which frees the node (discard_transfer_node) and
\* leaves native_entry_count as it is.
RestoreNone(b) ==
  /\ ~ Restorable(b)
  /\ lost' = [lost EXCEPT ![batch[b].from] = @ + Cardinality(Armed(b))]
  /\ batch' = [batch EXCEPT ![b] = IdleBatch]
  /\ UNCHANGED <<table, next, count, life, restricts>>

\* The submitting call could not admit the message.  Its own refusal is out of
\* reach (RestoreNeverRefused below).
restore_native_batch(b) ==
  /\ batch[b].phase = "taken" /\ life[batch[b].from] = "live"
  /\ RestoreAll(b)

\* The message enters a channel or protocol queue.
Enqueue(b) ==
  /\ batch[b].phase = "taken" /\ life[batch[b].from] = "live"
  /\ batch' = [batch EXCEPT ![b].phase = "queued"]
  /\ UNCHANGED <<table, next, count, life, restricts, lost>>

commit_native_batch(b) ==
  /\ batch[b].phase \in {"queued", "receiving", "activating", "drained"} /\ life[batch[b].from] = "live"
  /\ Armed(b) # {}
  /\ count' = [count EXCEPT ![batch[b].from] = @ - Cardinality(Armed(b))]
  /\ batch' = [batch EXCEPT ![b] =
       IF batch[b].phase = "drained" THEN IdleBatch
       ELSE [batch[b] EXCEPT !.rec = [h \in Handles |-> [batch[b].rec[h] EXCEPT !.armed = FALSE]]]]
  /\ UNCHANGED <<table, next, life, restricts, lost>>

\* What remains of a batch whose resources are rec once the receiver is done.
Drained(b, rec) ==
  IF Armed(b) = {} THEN IdleBatch
  ELSE [batch[b] EXCEPT !.phase = "drained", !.to = NoTable, !.rec = rec, !.slots = {}]

\* The queue that holds the message is discarded (discard_raw_channel,
\* close_server_queue, orphan collection).
Discard(b) ==
  /\ batch[b].phase = "queued"
  /\ batch' = [batch EXCEPT ![b] = Drained(b, [h \in Handles |-> [batch[b].rec[h] EXCEPT !.obj = NoObject]])]
  /\ UNCHANGED <<table, next, count, life, restricts, lost>>

----------------------------------------------------------------------------
(* Receiving: reserve, copy out, activate *)

\* How many of the n requested handles allocate_native_handle_locked yields.
Room(t) == IF next[t] = 0 THEN 0 ELSE HandleSpace - next[t]

reserve_native(b, t) ==
  LET n == Cardinality(Loaded(b))
      new == {h \in Handles : next[t] <= h /\ h < next[t] + n}
  IN /\ batch[b].phase = "queued" /\ life[t] = "live"
     /\ n <= Room(t) /\ count[t] + n <= MaxEntries
     /\ table' = [table EXCEPT ![t] = [h \in Handles |-> IF h \in new THEN Reserved ELSE @[h]]]
     /\ next' = [next EXCEPT ![t] = (@ + n) % HandleSpace]
     /\ count' = [count EXCEPT ![t] = @ + n]
     /\ batch' = [batch EXCEPT ![b].phase = "receiving", ![b].to = t, ![b].slots = new]
     /\ UNCHANGED <<life, restricts, lost>>

\* RESOURCE_EXHAUSTED: the slots allocated so far are removed again, the
\* handle values they used are not given back.
reserve_native_fails(b, t) ==
  LET n == Cardinality(Loaded(b))
      free == MaxEntries - count[t]
  IN /\ batch[b].phase = "queued" /\ life[t] = "live"
     /\ n > Room(t) \/ n > free
     /\ next' = [next EXCEPT ![t] = IF free <= Room(t) THEN (@ + free) % HandleSpace ELSE 0]
     /\ UNCHANGED <<table, count, life, restricts, batch, lost>>

\* The message could not be copied out: the claim is cancelled.
rollback_native(b) ==
  LET t == batch[b].to
      gone == {h \in batch[b].slots : table[t][h].st = "reserved"}
  IN /\ batch[b].phase = "receiving" /\ life[t] = "live"
     /\ table' = [table EXCEPT ![t] = [h \in Handles |-> IF h \in gone THEN Absent ELSE @[h]]]
     /\ count' = [count EXCEPT ![t] = @ - Cardinality(gone)]
     /\ batch' = [batch EXCEPT ![b].phase = "queued", ![b].to = NoTable, ![b].slots = {}]
     /\ UNCHANGED <<next, life, restricts, lost>>

\* One resource becomes an active entry of the receiver.
activate_native(b, h, s) ==
  LET t == batch[b].to
      rec == [batch[b].rec EXCEPT ![h].obj = NoObject]
  IN /\ batch[b].phase \in {"receiving", "activating"} /\ life[t] = "live"
     /\ h \in Loaded(b) /\ s \in batch[b].slots
     /\ table[t][s].st = "reserved"
     /\ table' = [table EXCEPT ![t][s] = [st |-> "active", obj |-> batch[b].rec[h].obj,
                                          rights |-> batch[b].rec[h].rights]]
     /\ batch' = [batch EXCEPT ![b] =
          IF Loaded(b) = {h} THEN Drained(b, rec)
          ELSE [batch[b] EXCEPT !.phase = "activating", !.rec = rec, !.slots = batch[b].slots \ {s}]]
     /\ UNCHANGED <<next, count, life, restricts, lost>>

----------------------------------------------------------------------------
(* Kernel dispatch: a worker executes the call on behalf of the caller *)

Dispatch(b) ==
  /\ batch[b].phase = "taken" /\ life[batch[b].from] = "live"
  /\ batch' = [batch EXCEPT ![b].phase = "kernel"]
  /\ UNCHANGED <<table, next, count, life, restricts, lost>>

\* A handler keeps a resource (register_service, listen_service).
take_object_to_table(b, h) ==
  /\ batch[b].phase = "kernel" /\ h \in Loaded(b)
  /\ batch' = [batch EXCEPT ![b].rec[h].obj = NoObject]
  /\ UNCHANGED <<table, next, count, life, restricts, lost>>

\* execute_kernel_dispatch puts the batch back into the caller's table, which
\* may have been released meanwhile, and deletes the request.
execute_kernel_dispatch(b) ==
  /\ batch[b].phase = "kernel"
  /\ RestoreAll(b) \/ RestoreNone(b)

----------------------------------------------------------------------------

TableStep(t) ==
  \/ Spawn(t) \/ clear(t)
  \/ \E o \in Objects : install_native(t, o)
  \/ \E h \in Handles : close_native(t, h)
  \/ \E h \in Handles, r \in Requests : duplicate_native(t, h, r)
  \/ \E h \in Handles : \E r \in Requests \cup {table[t][h].rights} : restrict_native(t, h, r)
  \/ \E p \in restricts[t] : commit_restrict(t, p[1], p[2]) \/ rollback_restrict(t, p[1], p[2])
  \/ \E u \in Tables : clone_fork_bindings(t, u)

BatchStep(b) ==
  \/ \E t \in Tables, r \in Requests :
        \E moves, dups \in SUBSET {h \in Handles : Transferable(t, h)} : take_native_batch(b, t, moves, dups, r)
  \/ restore_native_batch(b) \/ Enqueue(b) \/ commit_native_batch(b) \/ Discard(b)
  \/ \E t \in Tables : reserve_native(b, t) \/ reserve_native_fails(b, t)
  \/ rollback_native(b)
  \/ \E h, s \in Handles : activate_native(b, h, s)
  \/ Dispatch(b) \/ execute_kernel_dispatch(b)
  \/ \E h \in Handles : take_object_to_table(b, h)

Next == (\E t \in Tables : TableStep(t)) \/ (\E b \in Batches : BatchStep(b))

Spec == Init /\ [][Next]_vars

----------------------------------------------------------------------------
(* Properties *)

TypeOK ==
  /\ table \in [Tables -> [Handles -> Entry]]
  /\ next \in [Tables -> 0 .. (HandleSpace - 1)]
  /\ count \in [Tables -> 0 .. MaxEntries]
  /\ life \in [Tables -> {"unborn", "live", "cleared"}]
  /\ restricts \in [Tables -> SUBSET (Handles \X Handles)]
  /\ batch \in [Batches -> Batch]
  /\ lost \in [Tables -> Nat]

\* native_entry_count is the number of slots held by entries and by detached
\* nodes, plus the slots whose node was discarded without a commit: no
\* interleaving of the operations counts an entry twice or drops one, so the
\* process never exceeds NA_CAPABILITY_MAX_PER_PROCESS entries.
CountExact ==
  \A t \in Tables : life[t] = "live" => count[t] = Cardinality(Held(t)) + lost[t]

\* A submitting call that must undo take_native_batch always can: the slot of
\* a detached node is free and no other transfer owns that slot, whatever the
\* other threads of the process did meanwhile (resource.cc:520).
RestoreNeverRefused ==
  /\ \A b \in Batches : batch[b].phase = "taken" => Restorable(b)
  /\ \A b, c \in Batches : b # c /\ batch[b].from = batch[c].from => Armed(b) \cap Armed(c) = {}

\* A handle value that was issued stays issued, and once it has left the
\* table it can only come back as the same capability, by the restore of its
\* own transfer: a stale handle never names another object, even when
\* next_native_handle has run out.
NoReissue ==
  [][\A t \in Tables, h \in Handles :
       life[t] = "live" /\ Issued(t, h) =>
         /\ Issued(t, h)'
         /\ h \notin Present(t) /\ h \in Present(t)' =>
              \E b \in Batches : /\ batch[b].from = t /\ h \in Armed(b)
                                 /\ table'[t][h].obj = batch[b].rec[h].obj
                                 /\ table'[t][h].rights = batch[b].rec[h].orig]_vars

\* The slots a receive has reserved stay reserved for it until it activates
\* or rolls them back, so activate_native cannot fail half-way and a message
\* is never dequeued partially (resource.cc:111).  handle_restrict either
\* replaces the source or leaves it: while the call is between prepare and
\* commit its two slots are the hidden source, with the object, and the
\* reserved replacement, so commit and rollback both apply.
ReservedSlotsIntact ==
  /\ \A b \in Batches :
       (batch[b].phase \in {"receiving", "activating"} /\ life[batch[b].to] = "live") =>
         /\ Cardinality(batch[b].slots) = Cardinality(Loaded(b))
         /\ \A s \in batch[b].slots : table[batch[b].to][s] = Reserved
         /\ \A p \in restricts[batch[b].to] : p[2] \notin batch[b].slots
  /\ \A t \in Tables : \A p \in restricts[t] : Prepared(t, p[1], p[2])

WithinGrant ==
  /\ \A t \in Tables, h \in Handles :
       table[t][h].obj # NoObject => table[t][h].rights \subseteq Granted[table[t][h].obj]
  /\ \A b \in Batches, h \in Handles :
       batch[b].rec[h].obj # NoObject => batch[b].rec[h].rights \subseteq Granted[batch[b].rec[h].obj]

Holders(o) ==
  {p \in Tables \X Handles : table[p[1]][p[2]].obj = o}
    \cup {p \in Batches \X Handles : batch[p[1]].rec[p[2]].obj = o}

\* Neither duplication, restriction, transfer nor rollback amplifies the
\* rights an object was granted.
\* A unique capability that fork does not inherit (channel ends, server ends,
\* invocations, responders) is held by one entry or one message at a time.
\* Client ends are left out: fork_inheritable does not ask whether an object
\* with the DUPLICATE right is unique.
HeldAsGranted ==
  /\ WithinGrant
  /\ \A o \in Unique \ Inheritable : Cardinality(Holders(o)) <= 1

\* The hard limit is on the number of active and reserved handles of a
\* process: no slot is charged for an entry that no longer exists.
NoSlotLost ==
  \A t \in Tables : life[t] = "live" => count[t] <= Cardinality(Held(t))

=============================================================================
