------------------------- MODULE HandleReuse_proofs -------------------------
(***************************************************************************)
(* A handle value of a capability table never comes to name another        *)
(* capability.                                                             *)
(*                                                                         *)
(* The inductive invariant of ResourceTable_proofs says that the next      *)
(* value is above every value in use, so an allocation fills only slots    *)
(* that were never issued.  Every other operation fills no slot at all,    *)
(* except the restore of a transfer, which puts back what it took.         *)
(***************************************************************************)
EXTENDS ResourceTable_proofs

\* The slots filled in a table that was running are new handle values.
FillsFreshOnly ==
  \A t \in Tables, h \in Handles :
    life[t] = "live" /\ h \notin Present(t) /\ h \in Present(t)' => ~ Issued(t, h)

\* The slots filled are those of batch b, which get their old capability.
FillsFrom(b) ==
  \A t \in Tables, h \in Handles :
    h \notin Present(t) /\ h \in Present(t)' =>
      /\ batch[b].from = t /\ h \in Armed(b)
      /\ table'[t][h].obj = batch[b].rec[h].obj
      /\ table'[t][h].rights = batch[b].rec[h].orig

\* An issued value of a running process stays issued.
IssuedStays ==
  \A t \in Tables, h \in Handles : life[t] = "live" /\ Issued(t, h) => Issued(t, h)'

Reissue ==
  \A t \in Tables, h \in Handles :
       life[t] = "live" /\ Issued(t, h) =>
         /\ Issued(t, h)'
         /\ h \notin Present(t) /\ h \in Present(t)' =>
              \E b \in Batches : /\ batch[b].from = t /\ h \in Armed(b)
                                 /\ table'[t][h].obj = batch[b].rec[h].obj
                                 /\ table'[t][h].rights = batch[b].rec[h].orig

LEMMA NextIsUnissued ==
  ASSUME IInv, NEW t \in Tables, CanAllocate(t)
  PROVE  next[t] \in Handles /\ ~ Issued(t, next[t])
  <1>1. next[t] \in 1 .. (HandleSpace - 1)
    BY TableConstants DEF IInv, TypeOK, CanAllocate
  <1> QED BY <1>1, TableConstants DEF Issued, Handles

LEMMA TableStepFills ==
  ASSUME IInv, NEW t \in Tables, TableStep(t)
  PROVE  FillsFreshOnly
  <1> USE DEF FillsFreshOnly, Present
  <1>1. table \in [Tables -> [Handles -> Entry]]
    BY DEF IInv, TypeOK
  <1>2. ASSUME NEW e, CanAllocate(t), Insert(t, e) PROVE FillsFreshOnly
    BY <1>1, <1>2, NextIsUnissued DEF Insert
  <1>3. CASE Spawn(t)
    BY <1>3 DEF Spawn
  <1>4. CASE clear(t)
    BY <1>1, <1>4 DEF clear, Absent
  <1>5. ASSUME NEW o \in Objects, install_native(t, o) PROVE FillsFreshOnly
    BY <1>2, <1>5 DEF install_native
  <1>6. ASSUME NEW h \in Handles, close_native(t, h) PROVE FillsFreshOnly
    BY <1>1, <1>6 DEF close_native, Absent
  <1>7. ASSUME NEW h \in Handles, NEW r \in Requests, duplicate_native(t, h, r) PROVE FillsFreshOnly
    BY <1>2, <1>7 DEF duplicate_native
  <1>8. ASSUME NEW h \in Handles, NEW r, restrict_native(t, h, r) PROVE FillsFreshOnly
    BY <1>1, <1>8, NextIsUnissued DEF restrict_native, Entry
  <1>9. ASSUME NEW q \in restricts[t], commit_restrict(t, q[1], q[2]) \/ rollback_restrict(t, q[1], q[2])
        PROVE  FillsFreshOnly
    <2>1. q[1] \in Handles /\ q[2] \in Handles
      BY DEF IInv, TypeOK
    <2>2. CASE commit_restrict(t, q[1], q[2])
      BY Zenon, <1>1, <2>1, <2>2 DEF commit_restrict, Prepared, Absent, Entry
    <2>3. CASE rollback_restrict(t, q[1], q[2])
      BY <1>1, <2>1, <2>3 DEF rollback_restrict, Prepared, Absent, Entry
    <2> QED BY <1>9, <2>2, <2>3
  <1>10. ASSUME NEW u \in Tables, clone_fork_bindings(t, u) PROVE FillsFreshOnly
    BY <1>1, <1>10 DEF clone_fork_bindings
  <1> QED BY <1>3, <1>4, <1>5, <1>6, <1>7, <1>8, <1>9, <1>10 DEF TableStep

LEMMA BatchStepFills ==
  ASSUME IInv, NEW b \in Batches, BatchStep(b)
  PROVE  FillsFreshOnly \/ FillsFrom(b)
  <1>1. table \in [Tables -> [Handles -> Entry]]
    BY DEF IInv, TypeOK
  <1>2. ASSUME table' = table PROVE FillsFreshOnly
    BY <1>2 DEF FillsFreshOnly, Present
  <1>3. ASSUME NEW t \in Tables, NEW r, NEW moves, NEW dups, take_native_batch(b, t, moves, dups, r)
        PROVE  FillsFreshOnly
    BY <1>1, <1>3 DEF take_native_batch, FillsFreshOnly, Present, Absent
  <1>4. ASSUME RestoreAll(b), batch[b].phase # "idle" PROVE FillsFrom(b)
    <2>1. batch[b].from \in Tables
      BY <1>4 DEF IInv, BatchShape
    <2> QED BY Zenon, <1>1, <1>4, <2>1 DEF RestoreAll, FillsFrom, Present
  <1>5. CASE restore_native_batch(b)
    BY <1>4, <1>5 DEF restore_native_batch
  <1>6. CASE execute_kernel_dispatch(b)
    BY <1>2, <1>4, <1>6 DEF execute_kernel_dispatch, RestoreNone
  <1>7. CASE Enqueue(b) \/ commit_native_batch(b) \/ Discard(b) \/ Dispatch(b)
    BY <1>2, <1>7 DEF Enqueue, commit_native_batch, Discard, Dispatch
  <1>8. ASSUME NEW t \in Tables, reserve_native(b, t) PROVE FillsFreshOnly
    <2> SUFFICES ASSUME NEW u \in Tables, NEW h \in Handles, h \notin Present(u), h \in Present(u)'
                 PROVE  ~ Issued(u, h)
      BY DEF FillsFreshOnly
    <2>1. Cardinality(Loaded(b)) \in Nat
      <3>1. Loaded(b) \subseteq Handles
        BY DEF Loaded
      <3> QED BY <3>1, HandlesFinite
    <2>2. PICK n \in Nat : n = Cardinality(Loaded(b))
      BY <2>1
    <2>3. u = t /\ next[t] <= h /\ h < next[t] + n /\ n <= Room(t)
      BY <1>1, <1>8, <2>2 DEF reserve_native, Present
    <2>4. next[t] \in 0 .. (HandleSpace - 1)
      BY DEF IInv, TypeOK
    <2>5. next[t] # 0
      BY <2>3 DEF Room, Handles
    <2> QED BY <2>3, <2>4, <2>5, TableConstants DEF Issued, Handles
  <1>9. ASSUME NEW t \in Tables, reserve_native_fails(b, t) PROVE FillsFreshOnly
    BY <1>2, <1>9 DEF reserve_native_fails
  <1>10. CASE rollback_native(b)
    <2>1. batch[b].to \in Tables
      BY <1>10 DEF IInv, BatchShape, rollback_native
    <2> QED BY <1>1, <1>10, <2>1 DEF rollback_native, FillsFreshOnly, Present, Absent
  <1>11. ASSUME NEW h \in Handles, NEW s \in Handles, activate_native(b, h, s) PROVE FillsFreshOnly
    <2>1. batch[b].to \in Tables
      BY <1>11 DEF IInv, BatchShape, activate_native
    <2> QED BY <1>1, <1>11, <2>1 DEF activate_native, FillsFreshOnly, Present
  <1>12. ASSUME NEW h \in Handles, take_object_to_table(b, h) PROVE FillsFreshOnly
    BY <1>2, <1>12 DEF take_object_to_table
  <1> QED BY <1>3, <1>5, <1>6, <1>7, <1>8, <1>9, <1>10, <1>11, <1>12 DEF BatchStep

----------------------------------------------------------------------------
(* The counter *)

\* The next value of a running process grows, or has run out for good.
LEMMA CounterGrows ==
  ASSUME IInv, NEW t \in Tables, NEW v \in Nat, next' = [next EXCEPT ![t] = v],
         life[t] = "live" => v = 0 \/ (next[t] # 0 /\ next[t] <= v)
  PROVE  IssuedStays
  <1>1. next \in [Tables -> 0 .. (HandleSpace - 1)]
    BY DEF IInv, TypeOK
  <1> SUFFICES ASSUME NEW u \in Tables, NEW h \in Handles, life[u] = "live", Issued(u, h)
               PROVE  Issued(u, h)'
    BY DEF IssuedStays
  <1>2. CASE u = t
    <2>1. next'[u] = v /\ (v = 0 \/ (next[u] # 0 /\ next[u] <= v))
      BY <1>1, <1>2
    <2>2. next[u] \in Nat /\ h \in Nat
      BY <1>1, TableConstants DEF Handles
    <2> QED BY <2>1, <2>2 DEF Issued
  <1>3. CASE u # t
    BY <1>1, <1>3 DEF Issued
  <1> QED BY <1>2, <1>3

LEMMA CounterKept ==
  ASSUME next' = next
  PROVE  IssuedStays
  BY DEF IssuedStays, Issued

LEMMA CounterAfterOne ==
  ASSUME IInv, NEW t \in Tables, CanAllocate(t), next' = [next EXCEPT ![t] = After(next[t])]
  PROVE  IssuedStays
  <1>1. PICK n \in 1 .. (HandleSpace - 1) : n = next[t]
    BY TableConstants DEF IInv, TypeOK, CanAllocate
  <1>2. PICK v : v = After(next[t])
    OBVIOUS
  <1>3. n + 1 \in 0 .. HandleSpace
    BY TableConstants
  <1>4. v = IF n + 1 = HandleSpace THEN 0 ELSE n + 1
    BY <1>1, <1>2, <1>3, ModuloSpace DEF After
  <1>5. v \in Nat /\ (v = 0 \/ (n # 0 /\ n <= v))
    BY <1>4
  <1> QED BY Zenon, <1>1, <1>2, <1>5, CounterGrows

LEMMA CounterAfterMany ==
  ASSUME IInv, NEW t \in Tables, NEW k \in Nat, k <= Room(t),
         next' = [next EXCEPT ![t] = (next[t] + k) % HandleSpace]
  PROVE  IssuedStays
  <1>1. PICK n \in 0 .. (HandleSpace - 1) : n = next[t]
    BY DEF IInv, TypeOK
  <1>2. PICK v : v = (next[t] + k) % HandleSpace
    OBVIOUS
  <1>3. n + k \in 0 .. HandleSpace /\ (n = 0 => k = 0)
    BY <1>1, TableConstants DEF Room
  <1>4. v = IF n + k = HandleSpace THEN 0 ELSE n + k
    BY <1>1, <1>2, <1>3, ModuloSpace
  <1>5. v \in Nat /\ (v = 0 \/ (n # 0 /\ n <= v))
    BY <1>3, <1>4
  <1> QED BY Zenon, <1>1, <1>2, <1>5, CounterGrows

LEMMA TableStepKeepsIssued ==
  ASSUME IInv, NEW t \in Tables, TableStep(t)
  PROVE  IssuedStays
  <1>1. CASE next' = next
    BY <1>1, CounterKept
  <1>2. CASE CanAllocate(t) /\ next' = [next EXCEPT ![t] = After(next[t])]
    BY Zenon, <1>2, CounterAfterOne
  <1>3. ASSUME NEW u \in Tables, clone_fork_bindings(t, u) PROVE IssuedStays
    <2>1. PICK v \in Nat : v = next[t]
      BY TableConstants DEF IInv, TypeOK
    <2>2. life[u] # "live" /\ next' = [next EXCEPT ![u] = v]
      BY <1>3, <2>1 DEF clone_fork_bindings
    <2> QED BY Zenon, <2>1, <2>2, CounterGrows
  <1>4. CASE \E o \in Objects : install_native(t, o)
    BY <1>2, <1>4 DEF install_native, Insert
  <1>5. CASE \E h \in Handles, r \in Requests : duplicate_native(t, h, r)
    BY <1>2, <1>5 DEF duplicate_native, Insert
  <1>6. CASE \E h \in Handles : \E r \in Requests \cup {table[t][h].rights} : restrict_native(t, h, r)
    BY <1>2, <1>6 DEF restrict_native
  <1>7. CASE Spawn(t) \/ clear(t) \/ \E h \in Handles : close_native(t, h)
    BY <1>1, <1>7 DEF Spawn, clear, close_native
  <1>8. CASE \E q \in restricts[t] : commit_restrict(t, q[1], q[2]) \/ rollback_restrict(t, q[1], q[2])
    BY <1>1, <1>8 DEF commit_restrict, rollback_restrict
  <1> QED BY <1>3, <1>4, <1>5, <1>6, <1>7, <1>8 DEF TableStep

LEMMA BatchStepKeepsIssued ==
  ASSUME IInv, NEW b \in Batches, BatchStep(b)
  PROVE  IssuedStays
  <1>1. CASE next' = next
    BY <1>1, CounterKept
  <1>2. ASSUME NEW t \in Tables, reserve_native(b, t) PROVE IssuedStays
    <2>1. Loaded(b) \subseteq Handles
      BY DEF Loaded
    <2>2. PICK n \in Nat : n = Cardinality(Loaded(b))
      BY <2>1, HandlesFinite
    <2>3. n <= Room(t) /\ next' = [next EXCEPT ![t] = (next[t] + n) % HandleSpace]
      BY <1>2, <2>2 DEF reserve_native
    <2> QED BY Zenon, <2>3, CounterAfterMany
  <1>3. ASSUME NEW t \in Tables, reserve_native_fails(b, t) PROVE IssuedStays
    <2>1. PICK free \in Nat : free = MaxEntries - count[t]
      BY TableConstants DEF IInv, TypeOK
    <2>2. next' = [next EXCEPT ![t] = IF free <= Room(t) THEN (next[t] + free) % HandleSpace ELSE 0]
      BY <1>3, <2>1 DEF reserve_native_fails
    <2>3. CASE free <= Room(t)
      BY Zenon, <2>2, <2>3, CounterAfterMany
    <2>4. CASE ~ (free <= Room(t))
      <3>1. next' = [next EXCEPT ![t] = 0]
        BY <2>2, <2>4
      <3> QED BY Zenon, <3>1, CounterGrows
    <2> QED BY <2>3, <2>4
  <1>4. CASE \E t \in Tables, r \in Requests :
               \E moves, dups \in SUBSET {h \in Handles : Transferable(t, h)} :
                 take_native_batch(b, t, moves, dups, r)
    BY <1>1, <1>4 DEF take_native_batch
  <1>5. CASE restore_native_batch(b) \/ Enqueue(b) \/ commit_native_batch(b) \/ Discard(b) \/ rollback_native(b)
    BY Zenon, <1>1, <1>5 DEF restore_native_batch, RestoreAll, Enqueue, commit_native_batch, Discard, rollback_native
  <1>6. CASE \E h, s \in Handles : activate_native(b, h, s)
    BY <1>1, <1>6 DEF activate_native
  <1>7. CASE Dispatch(b) \/ execute_kernel_dispatch(b) \/ \E h \in Handles : take_object_to_table(b, h)
    BY <1>1, <1>7 DEF Dispatch, execute_kernel_dispatch, RestoreAll, RestoreNone, take_object_to_table
  <1> QED BY <1>2, <1>3, <1>4, <1>5, <1>6, <1>7 DEF BatchStep

LEMMA NoStepReissues ==
  ASSUME IInv, [Next]_vars
  PROVE  [Reissue]_vars
  <1>1. ASSUME IssuedStays, FillsFreshOnly PROVE Reissue
    BY <1>1 DEF IssuedStays, FillsFreshOnly, Reissue
  <1>2. ASSUME IssuedStays, NEW b \in Batches, FillsFrom(b) PROVE Reissue
    BY <1>2 DEF IssuedStays, FillsFrom, Reissue
  <1>3. ASSUME NEW t \in Tables, TableStep(t) PROVE Reissue
    BY <1>1, <1>3, TableStepFills, TableStepKeepsIssued
  <1>4. ASSUME NEW b \in Batches, BatchStep(b) PROVE Reissue
    BY <1>1, <1>2, <1>4, BatchStepFills, BatchStepKeepsIssued
  <1> QED BY <1>3, <1>4 DEF Next

\* A handle that was closed or moved away comes back only when its own
\* transfer is restored, and then as the same capability: allocation never
\* hands out a value twice, even when next_native_handle has run out.
THEOREM StaleHandlesStayDead == Spec => NoReissue
  <1>1. IInv /\ [Next]_vars => [Reissue]_vars
    BY NoStepReissues
  <1> QED BY <1>1, AlwaysIInv, PTL DEF Spec, NoReissue, Reissue

=============================================================================
