------------------------ MODULE ResourceTable_proofs ------------------------
(***************************************************************************)
(* The slots of a capability table are accounted exactly, for any number   *)
(* of processes, objects, transfers and handles.                           *)
(*                                                                         *)
(* CountExact and RestoreNeverRefused are not inductive: a new handle is   *)
(* known to be free only because every handle in use was issued before.    *)
(* Slots says so for the entries and for the detached nodes, keeps the     *)
(* nodes of different transfers apart, and describes a table before its    *)
(* process exists.  An operation changes the slots of one table (OneTable) *)
(* and starts, ends or keeps one transfer (TransferStarts, TransferEnds,   *)
(* NoTransfer); each action is then shown to be of that form.              *)
(***************************************************************************)
EXTENDS ResourceTable, FiniteSetTheorems, TLAPS

HeldIssued == \A t \in Tables : \A h \in Held(t) : Issued(t, h)

DetachedApart == \A t \in Tables : Present(t) \cap Detached(t) = {}

TransfersApart ==
  \A b, c \in Batches : b # c /\ batch[b].from = batch[c].from => Armed(b) \cap Armed(c) = {}

HomeExists ==
  \A b \in Batches : Armed(b) # {} => batch[b].from \in Tables /\ life[batch[b].from] # "unborn"

UnbornEmpty ==
  \A t \in Tables : life[t] = "unborn" => Present(t) = {} /\ count[t] = 0 /\ lost[t] = 0

Slots == HeldIssued /\ DetachedApart /\ TransfersApart /\ HomeExists /\ UnbornEmpty /\ CountExact

\* What the transfers need beyond their slots: a receiver that exists, an
\* object in every active entry and in every record of a taken batch.
BatchShape ==
  \A b \in Batches :
    /\ batch[b].phase = "idle" => Armed(b) = {}
    /\ batch[b].phase # "idle" => batch[b].from \in Tables /\ life[batch[b].from] # "unborn"
    /\ batch[b].phase \in {"receiving", "activating"} => batch[b].to \in Tables
    /\ batch[b].phase = "taken" => Armed(b) \subseteq Loaded(b)

ActiveHasObject ==
  \A t \in Tables, h \in Handles : table[t][h].st = "active" => table[t][h].obj # NoObject

IInv == TypeOK /\ BatchShape /\ ActiveHasObject /\ Slots

----------------------------------------------------------------------------
(* Finite sets of handles and handle arithmetic *)

LEMMA HandlesFinite ==
  ASSUME NEW S, S \subseteq Handles
  PROVE  IsFiniteSet(S) /\ Cardinality(S) \in Nat
  <1>1. IsFiniteSet(Handles)
    BY FS_Interval, TableConstants DEF Handles
  <1>2. IsFiniteSet(S)
    BY <1>1, FS_Subset
  <1> QED BY <1>2, FS_CardinalityType

LEMMA ModuloSpace ==
  ASSUME NEW n \in 0 .. HandleSpace
  PROVE  n % HandleSpace = IF n = HandleSpace THEN 0 ELSE n
  BY TableConstants

LEMMA DisjointUnion ==
  ASSUME NEW S, NEW T, S \subseteq Handles, T \subseteq Handles, S \cap T = {}
  PROVE  Cardinality(S \cup T) = Cardinality(S) + Cardinality(T)
  <1>1. IsFiniteSet(S) /\ IsFiniteSet(T) /\ Cardinality(S) \in Nat /\ Cardinality(T) \in Nat
    BY HandlesFinite
  <1>2. Cardinality(S \cap T) = 0
    BY FS_EmptySet
  <1>3. Cardinality(S \cup T) = Cardinality(S) + Cardinality(T) - Cardinality(S \cap T)
    BY <1>1, FS_Union, Zenon
  <1> QED BY <1>1, <1>2, <1>3

LEMMA SubsetRemoved ==
  ASSUME NEW S, NEW T, S \subseteq Handles, T \subseteq S
  PROVE  /\ Cardinality(S \ T) = Cardinality(S) - Cardinality(T)
         /\ Cardinality(T) <= Cardinality(S)
  <1>1. T \subseteq Handles /\ (S \ T) \subseteq Handles /\ (S \ T) \cap T = {} /\ (S \ T) \cup T = S
    OBVIOUS
  <1>2. Cardinality(S) = Cardinality(S \ T) + Cardinality(T)
    BY <1>1, DisjointUnion
  <1>3. Cardinality(S) \in Nat /\ Cardinality(T) \in Nat /\ Cardinality(S \ T) \in Nat
    BY <1>1, HandlesFinite
  <1> QED BY <1>2, <1>3

LEMMA SlotSets ==
  ASSUME NEW t
  PROVE  Present(t) \subseteq Handles /\ Detached(t) \subseteq Handles /\ Held(t) \subseteq Handles
  BY DEF Present, Detached, Held

LEMMA DetachedIsArmed ==
  ASSUME NEW t, NEW h
  PROVE  h \in Detached(t) <=> \E b \in Batches : batch[b].from = t /\ h \in Armed(b)
  BY DEF Detached, Armed

----------------------------------------------------------------------------
(* An operation changes the slots of one table and the records of one batch *)

OtherTables(u) ==
  \A t \in Tables \ {u} :
    /\ Present(t)' = Present(t) /\ Detached(t)' = Detached(t)
    /\ next'[t] = next[t] /\ count'[t] = count[t] /\ lost'[t] = lost[t] /\ life'[t] = life[t]

SameTransfers ==
  \A b \in Batches : Armed(b)' = Armed(b) /\ (Armed(b) # {} => batch'[b].from = batch[b].from)

LEMMA OneTable ==
  ASSUME Slots, NEW u \in Tables, OtherTables(u),
         life'[u] # "unborn",
         \A h \in Held(u)' : Issued(u, h)',
         Present(u)' \cap Detached(u)' = {},
         life'[u] = "live" => count'[u] = Cardinality(Held(u)') + lost'[u]
  PROVE  HeldIssued' /\ DetachedApart' /\ UnbornEmpty' /\ CountExact'
  <1>1. \A t \in Tables \ {u} : Held(t)' = Held(t)
    BY DEF OtherTables, Held
  <1>2. HeldIssued'
    BY <1>1 DEF Slots, HeldIssued, OtherTables, Issued
  <1>3. DetachedApart'
    BY DEF Slots, DetachedApart, OtherTables
  <1>4. UnbornEmpty'
    BY DEF Slots, UnbornEmpty, OtherTables
  <1>5. CountExact'
    BY <1>1 DEF Slots, CountExact, OtherTables
  <1> QED BY <1>2, <1>3, <1>4, <1>5

LEMMA NoTransfer ==
  ASSUME Slots, SameTransfers, \A t \in Tables : life[t] # "unborn" => life'[t] # "unborn"
  PROVE  /\ TransfersApart' /\ HomeExists'
         /\ \A t \in Tables : Detached(t)' = Detached(t)
  <1>1. TransfersApart'
    BY DEF Slots, TransfersApart, SameTransfers
  <1>2. HomeExists'
    BY DEF Slots, HomeExists, SameTransfers
  <1>3. \A t \in Tables : Detached(t)' = Detached(t)
    BY DEF SameTransfers, Detached, Armed
  <1> QED BY <1>1, <1>2, <1>3

\* Batch b gives up its nodes, by restore, commit or loss.
LEMMA TransferEnds ==
  ASSUME Slots, NEW b \in Batches, life' = life, Armed(b)' = {}, batch[b].from \in Tables,
         \A c \in Batches \ {b} : batch'[c] = batch[c]
  PROVE  /\ TransfersApart' /\ HomeExists'
         /\ Armed(b) \subseteq Detached(batch[b].from)
         /\ \A t \in Tables : Detached(t)' = IF t = batch[b].from THEN Detached(t) \ Armed(b) ELSE Detached(t)
  <1>1. \A c \in Batches \ {b} : Armed(c)' = Armed(c)
    BY DEF Armed
  <1>2. TransfersApart'
    BY <1>1 DEF Slots, TransfersApart
  <1>3. HomeExists'
    BY <1>1 DEF Slots, HomeExists
  <1>4. Armed(b) \subseteq Detached(batch[b].from)
    BY DEF Armed, Detached
  <1>5. ASSUME NEW t \in Tables
        PROVE  Detached(t)' = IF t = batch[b].from THEN Detached(t) \ Armed(b) ELSE Detached(t)
    <2>1. ASSUME NEW h
          PROVE  h \in Detached(t)' <=> \E c \in Batches \ {b} : batch[c].from = t /\ h \in Armed(c)
      BY <1>1 DEF Detached, Armed
    <2>2. ASSUME NEW h
          PROVE  h \in Detached(t) <=> \E c \in Batches : batch[c].from = t /\ h \in Armed(c)
      BY DetachedIsArmed
    <2>3. \A c \in Batches \ {b} : batch[c].from = batch[b].from => Armed(c) \cap Armed(b) = {}
      BY DEF Slots, TransfersApart
    <2> QED BY <2>1, <2>2, <2>3
  <1> QED BY <1>2, <1>3, <1>4, <1>5

\* An idle batch b takes the nodes D out of table u.
\* Transfer b takes the nodes D out of table u.
Detaches(b, u, D) ==
  /\ life' = life /\ life[u] # "unborn"
  /\ Armed(b) = {} /\ Armed(b)' = D /\ batch'[b].from = u
  /\ D \cap Detached(u) = {} /\ D \subseteq Handles
  /\ \A c \in Batches \ {b} : batch'[c] = batch[c]

LEMMA TransferStarts ==
  ASSUME Slots, NEW b \in Batches, NEW u \in Tables, NEW D, Detaches(b, u, D)
  PROVE  /\ TransfersApart' /\ HomeExists'
         /\ \A t \in Tables : Detached(t)' = IF t = u THEN Detached(t) \cup D ELSE Detached(t)
  <1> USE DEF Detaches
  <1>1. \A c \in Batches \ {b} : Armed(c)' = Armed(c)
    BY DEF Armed
  <1>2. \A c \in Batches \ {b} : batch[c].from = u => Armed(c) \cap D = {}
    BY DEF Detached, Armed
  <1>3. TransfersApart'
    BY <1>1, <1>2 DEF Slots, TransfersApart
  <1>4. HomeExists'
    BY <1>1 DEF Slots, HomeExists
  <1>5. ASSUME NEW t \in Tables
        PROVE  Detached(t)' = IF t = u THEN Detached(t) \cup D ELSE Detached(t)
    <2>1. ASSUME NEW h
          PROVE  h \in Detached(t)' <=> \E c \in Batches : batch'[c].from = t /\ h \in Armed(c)'
      BY DEF Detached, Armed
    <2>2. ASSUME NEW h
          PROVE  h \in Detached(t) <=> \E c \in Batches : batch[c].from = t /\ h \in Armed(c)
      BY DetachedIsArmed
    <2>3. ASSUME NEW h
          PROVE  h \in Detached(t)' <=> h \in Detached(t) \/ (t = u /\ h \in D)
      BY <1>1, <2>1, <2>2
    <2> QED BY <2>3, SetExtensionality
  <1> QED BY <1>3, <1>4, <1>5

----------------------------------------------------------------------------
(* One slot is allocated, or some slots are freed *)

LEMMA SameBatches ==
  ASSUME IInv, batch' = batch, \A t \in Tables : life[t] # "unborn" => life'[t] # "unborn"
  PROVE  SameTransfers /\ BatchShape' /\ batch' \in [Batches -> Batch]
  <1>1. SameTransfers
    BY DEF SameTransfers, Armed
  <1>2. BatchShape'
    BY DEF IInv, BatchShape, Armed, Loaded
  <1> QED BY <1>1, <1>2 DEF IInv, TypeOK

LEMMA NewHandle ==
  ASSUME IInv, NEW t \in Tables, CanAllocate(t)
  PROVE  /\ next[t] \in Handles /\ next[t] \notin Held(t)
         /\ After(next[t]) = IF next[t] + 1 = HandleSpace THEN 0 ELSE next[t] + 1
         /\ After(next[t]) \in 0 .. (HandleSpace - 1)
  <1>1. next[t] \in 1 .. (HandleSpace - 1)
    BY TableConstants DEF IInv, TypeOK, CanAllocate
  <1>2. next[t] + 1 \in 0 .. HandleSpace
    BY <1>1, TableConstants
  <1>3. After(next[t]) = IF next[t] + 1 = HandleSpace THEN 0 ELSE next[t] + 1
    BY <1>2, ModuloSpace DEF After
  <1>4. next[t] \notin Held(t)
    BY <1>1, TableConstants DEF IInv, Slots, HeldIssued, Issued
  <1> QED BY <1>1, <1>3, <1>4, TableConstants DEF Handles

LEMMA OneSlotMore ==
  ASSUME IInv, NEW t \in Tables, life[t] = "live", CanAllocate(t),
         next' = [next EXCEPT ![t] = After(next[t])],
         count' = [count EXCEPT ![t] = @ + 1],
         UNCHANGED <<life, batch, lost>>,
         Present(t)' = Present(t) \cup {next[t]},
         \A u \in Tables \ {t} : Present(u)' = Present(u)
  PROVE  Slots' /\ next' \in [Tables -> 0 .. (HandleSpace - 1)] /\ count' \in [Tables -> 0 .. MaxEntries]
  <1>1. /\ next[t] \in Handles /\ next[t] \notin Held(t)
        /\ After(next[t]) = IF next[t] + 1 = HandleSpace THEN 0 ELSE next[t] + 1
        /\ After(next[t]) \in 0 .. (HandleSpace - 1)
    BY NewHandle
  <1>2. TransfersApart' /\ HomeExists' /\ \A u \in Tables : Detached(u)' = Detached(u)
    BY SameBatches, NoTransfer DEF IInv
  <1>3. /\ next'[t] = After(next[t]) /\ count'[t] = count[t] + 1 /\ lost'[t] = lost[t] /\ life'[t] = "live"
        /\ OtherTables(t)
    BY <1>2 DEF IInv, TypeOK, OtherTables
  <1>4. Held(t)' = Held(t) \cup {next[t]}
    BY <1>2 DEF Held
  <1>5. Cardinality(Held(t)') = Cardinality(Held(t)) + 1
    <2>1. IsFiniteSet(Held(t))
      BY SlotSets, HandlesFinite
    <2> QED BY Zenon, <1>1, <1>4, <2>1, FS_AddElement
  <1>6. count[t] = Cardinality(Held(t)) + lost[t] /\ Cardinality(Held(t)) \in Nat /\ lost[t] \in Nat
    BY SlotSets, HandlesFinite DEF IInv, Slots, CountExact, TypeOK
  <1>7. \A h \in Held(t)' : Issued(t, h)'
    <2> SUFFICES ASSUME NEW h \in Held(t)' PROVE next'[t] = 0 \/ h < next'[t]
      BY DEF Issued
    <2>1. h \in Handles
      BY <1>1, <1>4, SlotSets
    <2>2. h = next[t] \/ Issued(t, h)
      BY <1>4 DEF IInv, Slots, HeldIssued
    <2>3. next[t] # 0
      BY DEF CanAllocate
    <2> QED BY <1>1, <1>3, <2>1, <2>2, <2>3, TableConstants DEF Handles, Issued
  <1>8. Present(t)' \cap Detached(t)' = {}
    BY <1>1, <1>2 DEF IInv, Slots, DetachedApart, Held
  <1>9. HeldIssued' /\ DetachedApart' /\ UnbornEmpty' /\ CountExact'
    <2>1. count'[t] = Cardinality(Held(t)') + lost'[t]
      BY <1>3, <1>5, <1>6
    <2>2. life'[t] # "unborn"
      BY <1>3
    <2> QED BY <1>3, <1>7, <1>8, <2>1, <2>2, OneTable DEF IInv
  <1>10. count' \in [Tables -> 0 .. MaxEntries]
    BY TableConstants DEF IInv, TypeOK, CanAllocate
  <1> QED BY <1>1, <1>2, <1>9, <1>10 DEF Slots, IInv, TypeOK

LEMMA SomeSlotsFewer ==
  ASSUME IInv, NEW t \in Tables, life[t] = "live", NEW gone, gone \subseteq Present(t),
         SameTransfers, UNCHANGED <<next, life, lost>>,
         count' = [count EXCEPT ![t] = @ - Cardinality(gone)],
         Present(t)' = Present(t) \ gone,
         \A u \in Tables \ {t} : Present(u)' = Present(u)
  PROVE  Slots' /\ count' \in [Tables -> 0 .. MaxEntries]
  <1>1. TransfersApart' /\ HomeExists' /\ \A u \in Tables : Detached(u)' = Detached(u)
    BY NoTransfer DEF IInv
  <1>2. OtherTables(t) /\ count'[t] = count[t] - Cardinality(gone)
    BY <1>1 DEF IInv, TypeOK, OtherTables
  <1>3. Present(t) \cap Detached(t) = {}
    BY DEF IInv, Slots, DetachedApart
  <1>4. Held(t)' = Held(t) \ gone /\ gone \subseteq Held(t)
    BY <1>1, <1>3 DEF Held
  <1>5. /\ Cardinality(Held(t)') = Cardinality(Held(t)) - Cardinality(gone)
        /\ Cardinality(gone) <= Cardinality(Held(t))
    BY <1>4, SlotSets, SubsetRemoved
  <1>6. /\ Cardinality(Held(t)) \in Nat /\ Cardinality(gone) \in Nat /\ lost[t] \in Nat
        /\ count[t] = Cardinality(Held(t)) + lost[t] /\ count[t] \in 0 .. MaxEntries
    BY SlotSets, HandlesFinite DEF IInv, Slots, CountExact, TypeOK
  <1>7. HeldIssued' /\ DetachedApart' /\ UnbornEmpty' /\ CountExact'
    <2>1. count'[t] = Cardinality(Held(t)') + lost'[t]
      BY <1>2, <1>5, <1>6
    <2>2. life'[t] # "unborn" /\ Present(t)' \cap Detached(t)' = {}
      BY <1>1, <1>3
    <2>3. \A h \in Held(t)' : Issued(t, h)'
      BY <1>4 DEF IInv, Slots, HeldIssued, Issued
    <2> QED BY <1>2, <2>1, <2>2, <2>3, OneTable DEF IInv
  <1>8. count' \in [Tables -> 0 .. MaxEntries]
    BY <1>5, <1>6, TableConstants, SMTT(40) DEF IInv, TypeOK
  <1> QED BY <1>1, <1>7, <1>8 DEF Slots

----------------------------------------------------------------------------
(* The operations on one table *)

LEMMA EntryTyped ==
  ASSUME IInv, NEW t \in Tables, NEW h \in Handles
  PROVE  table[t][h] \in Entry
  BY DEF IInv, TypeOK

LEMMA InsertStep ==
  ASSUME IInv, NEW t \in Tables, NEW e \in Entry, e.st = "active", e.obj # NoObject,
         life[t] = "live", CanAllocate(t), Insert(t, e), UNCHANGED <<life, restricts, batch, lost>>
  PROVE  IInv'
  <1>1. next[t] \in Handles /\ next[t] \notin Held(t)
    BY NewHandle
  <1>2. table' \in [Tables -> [Handles -> Entry]] /\ ActiveHasObject'
    BY <1>1 DEF Insert, IInv, TypeOK, ActiveHasObject
  <1>3. Present(t)' = Present(t) \cup {next[t]} /\ \A u \in Tables \ {t} : Present(u)' = Present(u)
    BY <1>1 DEF Insert, IInv, TypeOK, Present
  <1>4. Slots' /\ next' \in [Tables -> 0 .. (HandleSpace - 1)] /\ count' \in [Tables -> 0 .. MaxEntries]
    BY Zenon, <1>3, OneSlotMore DEF Insert
  <1>5. BatchShape'
    BY SameBatches
  <1> QED BY <1>2, <1>4, <1>5 DEF IInv, TypeOK

LEMMA InstallStep ==
  ASSUME IInv, NEW t \in Tables, NEW o \in Objects, install_native(t, o)
  PROVE  IInv'
  <1>1. [st |-> "active", obj |-> o, rights |-> Granted[o]] \in Entry /\ o # NoObject
    BY TableConstants DEF Entry, EntryState
  <1> QED BY <1>1, InsertStep DEF install_native

LEMMA DuplicateStep ==
  ASSUME IInv, NEW t \in Tables, NEW h \in Handles, NEW r \in Requests, duplicate_native(t, h, r)
  PROVE  IInv'
  <1> DEFINE e == [table[t][h] EXCEPT !.rights = Requested(@, r)]
  <1>1. table[t][h] \in Entry /\ r \in SUBSET Rights
    BY TableConstants DEF IInv, TypeOK
  <1>2. e \in Entry /\ e.st = "active" /\ e.obj # NoObject
    BY <1>1 DEF duplicate_native, Entry, Requested, IInv, ActiveHasObject
  <1>3. Insert(t, e) /\ life[t] = "live" /\ CanAllocate(t) /\ UNCHANGED <<life, restricts, batch, lost>>
    BY DEF duplicate_native
  <1> QED BY Zenon, <1>2, <1>3, InsertStep

LEMMA RestrictStep ==
  ASSUME IInv, NEW t \in Tables, NEW h \in Handles, NEW r, restrict_native(t, h, r)
  PROVE  IInv'
  <1> USE DEF restrict_native
  <1>1. next[t] \in Handles /\ next[t] \notin Held(t)
    BY NewHandle
  <1>2. table[t][h] \in Entry /\ table[t][h].st = "active" /\ r \subseteq Rights
    BY DEF IInv, TypeOK, Entry
  <1>3. h # next[t]
    BY <1>1, <1>2 DEF Held, Present
  <1>4. table' = [table EXCEPT ![t] = [table[t] EXCEPT
                    ![next[t]] = [st |-> "reserved", obj |-> NoObject, rights |-> r],
                    ![h] = [table[t][h] EXCEPT !.st = "restricting"]]]
    BY Zenon, <1>1, <1>3 DEF IInv, TypeOK
  <1>5. [st |-> "reserved", obj |-> NoObject, rights |-> r] \in Entry /\ [table[t][h] EXCEPT !.st = "restricting"] \in Entry
    BY <1>2 DEF Entry, EntryState
  <1>6. table' \in [Tables -> [Handles -> Entry]]
    <2>1. table \in [Tables -> [Handles -> Entry]]
      BY DEF IInv, TypeOK
    <2>2. [table[t] EXCEPT ![next[t]] = [st |-> "reserved", obj |-> NoObject, rights |-> r],
                           ![h] = [table[t][h] EXCEPT !.st = "restricting"]] \in [Handles -> Entry]
      BY <1>1, <1>5, <2>1
    <2> HIDE DEF restrict_native
    <2> QED BY <1>4, <2>1, <2>2
  <1>7. ActiveHasObject'
    BY <1>1, <1>2, <1>3, <1>4 DEF IInv, TypeOK, ActiveHasObject, Entry
  <1>8. Present(t)' = Present(t) \cup {next[t]} /\ \A u \in Tables \ {t} : Present(u)' = Present(u)
    BY <1>1, <1>2, <1>3, <1>4 DEF IInv, TypeOK, Present, Entry
  <1>9. Slots' /\ next' \in [Tables -> 0 .. (HandleSpace - 1)] /\ count' \in [Tables -> 0 .. MaxEntries]
    BY Zenon, <1>8, OneSlotMore
  <1>10. BatchShape'
    BY SameBatches
  <1>11. restricts' \in [Tables -> SUBSET (Handles \X Handles)]
    BY <1>1 DEF IInv, TypeOK
  <1> QED BY Zenon, <1>6, <1>7, <1>9, <1>10, <1>11 DEF IInv, TypeOK

\* The slot h of t is freed while the other entries keep their presence.
LEMMA FreeStep ==
  ASSUME IInv, NEW t \in Tables, NEW h \in Handles, life[t] = "live",
         table[t][h].st # "absent", NEW f \in [Handles -> Entry], f[h] = Absent,
         \A g \in Handles \ {h} : f[g].st = "absent" <=> table[t][g].st = "absent",
         \A g \in Handles : f[g].st = "active" => f[g].obj # NoObject,
         table' = [table EXCEPT ![t] = f], count' = [count EXCEPT ![t] = @ - 1],
         restricts' \in [Tables -> SUBSET (Handles \X Handles)],
         UNCHANGED <<next, life, batch, lost>>
  PROVE  IInv'
  <1>1. table' \in [Tables -> [Handles -> Entry]] /\ ActiveHasObject'
    BY DEF IInv, TypeOK, ActiveHasObject
  <1>2. /\ {h} \subseteq Present(t) /\ Present(t)' = Present(t) \ {h}
        /\ \A u \in Tables \ {t} : Present(u)' = Present(u)
    BY DEF IInv, TypeOK, Present, Absent
  <1>3. Cardinality({h}) = 1
    BY Zenon, FS_Singleton
  <1>4. count' = [count EXCEPT ![t] = @ - Cardinality({h})]
    BY Zenon, <1>3
  <1>5. SameTransfers /\ BatchShape'
    BY SameBatches
  <1>6. Slots' /\ count' \in [Tables -> 0 .. MaxEntries]
    <2>1. PICK gone : gone = {h}
      BY Zenon
    <2>2. /\ gone \subseteq Present(t) /\ Present(t)' = Present(t) \ gone
          /\ count' = [count EXCEPT ![t] = @ - Cardinality(gone)]
          /\ UNCHANGED <<next, life, lost>>
      BY Zenon, <1>2, <1>4, <2>1
    <2> QED BY Zenon, <1>2, <1>5, <2>2, SomeSlotsFewer
  <1> QED BY <1>1, <1>5, <1>6 DEF IInv, TypeOK

LEMMA CloseStep ==
  ASSUME IInv, NEW t \in Tables, NEW h \in Handles, close_native(t, h)
  PROVE  IInv'
  <1> DEFINE f == [table[t] EXCEPT ![h] = Absent]
  <1>1. Absent \in Entry
    BY DEF Absent, Entry, EntryState
  <1>2. f \in [Handles -> Entry] /\ f[h] = Absent /\ \A g \in Handles \ {h} : f[g] = table[t][g]
    BY <1>1 DEF IInv, TypeOK
  <1>3. \A g \in Handles : f[g].st = "active" => f[g].obj # NoObject
    BY <1>2 DEF IInv, ActiveHasObject, Absent
  <1>4. table' = [table EXCEPT ![t] = f]
    BY DEF close_native
  <1>5. /\ life[t] = "live" /\ table[t][h].st # "absent" /\ count' = [count EXCEPT ![t] = @ - 1]
        /\ UNCHANGED <<next, life, batch, lost>> /\ restricts' \in [Tables -> SUBSET (Handles \X Handles)]
    BY DEF close_native, IInv, TypeOK
  <1>6. \A g \in Handles \ {h} : f[g].st = "absent" <=> table[t][g].st = "absent"
    BY <1>2
  <1> HIDE DEF f
  <1> QED BY Zenon, <1>2, <1>3, <1>4, <1>5, <1>6, FreeStep

LEMMA CommitRestrictStep ==
  ASSUME IInv, NEW t \in Tables, NEW h \in Handles, NEW n \in Handles, commit_restrict(t, h, n)
  PROVE  IInv'
  <1> DEFINE e == [table[t][n] EXCEPT !.st = "active", !.obj = table[t][h].obj]
             f == [table[t] EXCEPT ![n] = e, ![h] = Absent]
  <1>1. /\ Absent \in Entry /\ table[t][n] \in Entry /\ table[t][h] \in Entry /\ h # n
        /\ table \in [Tables -> [Handles -> Entry]]
    BY DEF Absent, Entry, EntryState, IInv, TypeOK, commit_restrict, Prepared
  <1>2. e \in Entry /\ e.st = "active" /\ e.obj # NoObject
    BY Zenon, <1>1 DEF Entry, EntryState, commit_restrict, Prepared
  <1>3. table' = [table EXCEPT ![t] = f]
    BY Zenon, <1>1 DEF commit_restrict
  <1> HIDE DEF e
  <1>4. f \in [Handles -> Entry] /\ f[h] = Absent /\ f[n] = e /\ \A g \in Handles \ {h, n} : f[g] = table[t][g]
    BY <1>1, <1>2
  <1>5. \A g \in Handles : f[g].st = "active" => f[g].obj # NoObject
    BY <1>2, <1>4 DEF IInv, ActiveHasObject, Absent
  <1>6. /\ life[t] = "live" /\ table[t][h].st # "absent" /\ table[t][n].st # "absent"
        /\ count' = [count EXCEPT ![t] = @ - 1]
        /\ UNCHANGED <<next, life, batch, lost>> /\ restricts' \in [Tables -> SUBSET (Handles \X Handles)]
    BY DEF commit_restrict, Prepared, IInv, TypeOK
  <1>7. \A g \in Handles \ {h} : f[g].st = "absent" <=> table[t][g].st = "absent"
    BY <1>2, <1>4, <1>6
  <1> HIDE DEF f
  <1> QED BY Zenon, <1>3, <1>4, <1>5, <1>6, <1>7, FreeStep

LEMMA RollbackRestrictStep ==
  ASSUME IInv, NEW t \in Tables, NEW h \in Handles, NEW n \in Handles, rollback_restrict(t, h, n)
  PROVE  IInv'
  <1> DEFINE e == [table[t][h] EXCEPT !.st = "active"]
             f == [table[t] EXCEPT ![n] = Absent, ![h] = e]
  <1>1. /\ Absent \in Entry /\ table[t][n] \in Entry /\ table[t][h] \in Entry /\ h # n
        /\ table \in [Tables -> [Handles -> Entry]]
    BY DEF Absent, Entry, EntryState, IInv, TypeOK, rollback_restrict, Prepared
  <1>2. e \in Entry /\ e.st = "active" /\ e.obj # NoObject
    BY <1>1 DEF Entry, EntryState, rollback_restrict, Prepared
  <1>3. table' = [table EXCEPT ![t] = f]
    BY Zenon, <1>1 DEF rollback_restrict
  <1> HIDE DEF e
  <1>4. f \in [Handles -> Entry] /\ f[n] = Absent /\ f[h] = e /\ \A g \in Handles \ {h, n} : f[g] = table[t][g]
    BY <1>1, <1>2
  <1>5. \A g \in Handles : f[g].st = "active" => f[g].obj # NoObject
    BY <1>2, <1>4 DEF IInv, ActiveHasObject, Absent
  <1>6. /\ life[t] = "live" /\ table[t][h].st # "absent" /\ table[t][n].st # "absent"
        /\ count' = [count EXCEPT ![t] = @ - 1]
        /\ UNCHANGED <<next, life, batch, lost>> /\ restricts' \in [Tables -> SUBSET (Handles \X Handles)]
    BY DEF rollback_restrict, Prepared, IInv, TypeOK
  <1>7. \A g \in Handles \ {n} : f[g].st = "absent" <=> table[t][g].st = "absent"
    BY <1>2, <1>4, <1>6
  <1> HIDE DEF f
  <1> QED BY Zenon, <1>3, <1>4, <1>5, <1>6, <1>7, FreeStep

LEMMA SpawnStep ==
  ASSUME IInv, NEW t \in Tables, Spawn(t)
  PROVE  IInv'
  <1> USE DEF Spawn
  <1>1. /\ life' \in [Tables -> {"unborn", "live", "cleared"}] /\ life'[t] = "live"
        /\ \A u \in Tables : life[u] # "unborn" => life'[u] # "unborn"
    BY DEF IInv, TypeOK
  <1>2. SameTransfers /\ BatchShape'
    BY <1>1, SameBatches
  <1>3. TransfersApart' /\ HomeExists' /\ \A u \in Tables : Detached(u)' = Detached(u)
    BY <1>1, <1>2, NoTransfer DEF IInv
  <1>4. \A u \in Tables : Present(u)' = Present(u) /\ Held(u)' = Held(u)
    BY <1>3 DEF Present, Held
  <1>5. OtherTables(t)
    BY <1>3, <1>4 DEF IInv, TypeOK, OtherTables
  <1>6. Detached(t) = {}
    BY DetachedIsArmed DEF IInv, Slots, HomeExists
  <1>7. Held(t) = {} /\ count[t] = 0 /\ lost[t] = 0 /\ Cardinality({}) = 0
    BY <1>6, FS_EmptySet DEF IInv, Slots, UnbornEmpty, Held
  <1>8. HeldIssued' /\ DetachedApart' /\ UnbornEmpty' /\ CountExact'
    <2>1. count'[t] = Cardinality(Held(t)') + lost'[t]
      BY <1>4, <1>7
    <2>2. Present(t)' \cap Detached(t)' = {} /\ \A h \in Held(t)' : Issued(t, h)'
      BY <1>3, <1>4, <1>6, <1>7
    <2> QED BY <1>1, <1>5, <2>1, <2>2, OneTable DEF IInv
  <1>9. ActiveHasObject'
    BY DEF IInv, ActiveHasObject
  <1> QED BY <1>1, <1>2, <1>3, <1>8, <1>9 DEF IInv, TypeOK, Slots

LEMMA ClearStep ==
  ASSUME IInv, NEW t \in Tables, clear(t)
  PROVE  IInv'
  <1> USE DEF clear
  <1>1. /\ life' \in [Tables -> {"unborn", "live", "cleared"}] /\ life'[t] = "cleared"
        /\ \A u \in Tables : life[u] # "unborn" => life'[u] # "unborn"
    BY DEF IInv, TypeOK
  <1>2. SameTransfers /\ BatchShape'
    BY <1>1, SameBatches
  <1>3. TransfersApart' /\ HomeExists' /\ \A u \in Tables : Detached(u)' = Detached(u)
    BY <1>1, <1>2, NoTransfer DEF IInv
  <1>4. Absent \in Entry
    BY DEF Absent, Entry, EntryState
  <1>5. table' \in [Tables -> [Handles -> Entry]] /\ ActiveHasObject'
    BY <1>4 DEF IInv, TypeOK, ActiveHasObject, Absent
  <1>6. Present(t)' = {} /\ \A u \in Tables \ {t} : Present(u)' = Present(u)
    BY DEF IInv, TypeOK, Present, Absent
  <1>7. OtherTables(t) /\ Held(t)' = Detached(t)
    BY <1>3, <1>6 DEF IInv, TypeOK, OtherTables, Held
  <1>8. HeldIssued' /\ DetachedApart' /\ UnbornEmpty' /\ CountExact'
    <2>1. \A h \in Held(t)' : Issued(t, h)'
      BY <1>7 DEF IInv, Slots, HeldIssued, Held, Issued
    <2>2. Present(t)' \cap Detached(t)' = {} /\ life'[t] # "unborn" /\ life'[t] # "live"
      BY <1>1, <1>6
    <2> QED BY <1>7, <2>1, <2>2, OneTable DEF IInv
  <1>9. count' \in [Tables -> 0 .. MaxEntries] /\ restricts' \in [Tables -> SUBSET (Handles \X Handles)]
    BY TableConstants DEF IInv, TypeOK
  <1> QED BY <1>1, <1>2, <1>3, <1>5, <1>8, <1>9 DEF IInv, TypeOK, Slots

LEMMA CloneStep ==
  ASSUME IInv, NEW t \in Tables, NEW u \in Tables, clone_fork_bindings(t, u)
  PROVE  IInv'
  <1> DEFINE cloned == {h \in Handles : fork_inheritable(table[t][h])}
  <1> HIDE DEF cloned
  <1>1. /\ life[t] = "live" /\ life[u] = "unborn" /\ count[u] = 0 /\ Cardinality(cloned) <= MaxEntries
        /\ table' = [table EXCEPT ![u] = [h \in Handles |-> IF h \in cloned THEN table[t][h] ELSE table[u][h]]]
        /\ count' = [count EXCEPT ![u] = @ + Cardinality(cloned)]
        /\ next' = [next EXCEPT ![u] = next[t]]
        /\ life' = [life EXCEPT ![u] = "live"]
        /\ UNCHANGED <<restricts, batch, lost>>
    BY DEF clone_fork_bindings, cloned
  <1>2. /\ life' \in [Tables -> {"unborn", "live", "cleared"}] /\ life'[u] = "live"
        /\ \A v \in Tables : life[v] # "unborn" => life'[v] # "unborn"
    BY <1>1 DEF IInv, TypeOK
  <1>3. SameTransfers /\ BatchShape'
    BY <1>1, <1>2, SameBatches
  <1>4. TransfersApart' /\ HomeExists' /\ \A v \in Tables : Detached(v)' = Detached(v)
    BY <1>2, <1>3, NoTransfer DEF IInv
  <1>5. Detached(u) = {}
    BY <1>1, DetachedIsArmed DEF IInv, Slots, HomeExists
  <1>6. cloned \subseteq Present(t) /\ cloned \subseteq Handles
    BY DEF cloned, fork_inheritable, Present
  <1>7. Present(u) = {} /\ lost[u] = 0
    BY <1>1 DEF IInv, Slots, UnbornEmpty
  <1>8. Present(u)' = cloned /\ \A v \in Tables \ {u} : Present(v)' = Present(v)
    BY <1>1, <1>6, <1>7 DEF IInv, TypeOK, Present
  <1>9. OtherTables(u) /\ Held(u)' = cloned /\ next'[u] = next[t]
    BY <1>1, <1>4, <1>5, <1>8 DEF IInv, TypeOK, OtherTables, Held
  <1>10. Cardinality(cloned) \in Nat /\ count'[u] = Cardinality(cloned)
    BY <1>1, <1>6, HandlesFinite DEF IInv, TypeOK
  <1>11. HeldIssued' /\ DetachedApart' /\ UnbornEmpty' /\ CountExact'
    <2>1. \A h \in Held(u)' : Issued(u, h)'
      BY <1>6, <1>9 DEF IInv, Slots, HeldIssued, Held, Issued
    <2>2. Present(u)' \cap Detached(u)' = {} /\ life'[u] # "unborn"
      BY <1>2, <1>4, <1>5
    <2>3. count'[u] = Cardinality(Held(u)') + lost'[u]
      BY <1>1, <1>7, <1>9, <1>10
    <2> QED BY <1>9, <2>1, <2>2, <2>3, OneTable DEF IInv
  <1>12. table' \in [Tables -> [Handles -> Entry]] /\ ActiveHasObject'
    BY <1>1, <1>6 DEF IInv, TypeOK, ActiveHasObject
  <1>13. count' \in [Tables -> 0 .. MaxEntries] /\ next' \in [Tables -> 0 .. (HandleSpace - 1)]
    BY <1>1, <1>10, TableConstants DEF IInv, TypeOK
  <1> QED BY <1>1, <1>2, <1>3, <1>4, <1>11, <1>12, <1>13 DEF IInv, TypeOK, Slots

----------------------------------------------------------------------------
(* The operations on one batch *)

\* What a batch must be so that BatchShape survives.
Shaped(x) ==
  /\ x.phase = "idle" => \A h \in Handles : ~ x.rec[h].armed
  /\ x.phase # "idle" => x.from \in Tables /\ life[x.from] # "unborn"
  /\ x.phase \in {"receiving", "activating"} => x.to \in Tables
  /\ x.phase = "taken" => \A h \in Handles : x.rec[h].armed => x.rec[h].obj # NoObject

LEMMA NewBatch ==
  ASSUME IInv, NEW b \in Batches, NEW x \in Batch, Shaped(x), batch' = [batch EXCEPT ![b] = x], life' = life
  PROVE  /\ BatchShape' /\ batch' \in [Batches -> Batch]
         /\ \A c \in Batches \ {b} : batch'[c] = batch[c]
         /\ batch'[b] = x /\ Armed(b)' = {h \in Handles : x.rec[h].armed}
  <1>1. batch' \in [Batches -> Batch] /\ batch'[b] = x /\ \A c \in Batches \ {b} : batch'[c] = batch[c]
    BY DEF IInv, TypeOK
  <1>2. Armed(b)' = {h \in Handles : x.rec[h].armed}
    BY <1>1 DEF Armed
  <1>3. BatchShape'
    <2>1. \A c \in Batches \ {b} : Armed(c)' = Armed(c) /\ Loaded(c)' = Loaded(c)
      BY <1>1 DEF Armed, Loaded
    <2>2. Loaded(b)' = {h \in Handles : x.rec[h].obj # NoObject}
      BY <1>1 DEF Loaded
    <2> SUFFICES ASSUME NEW c \in Batches
                 PROVE  (/\ batch[c].phase = "idle" => Armed(c) = {}
                         /\ batch[c].phase # "idle" => batch[c].from \in Tables /\ life[batch[c].from] # "unborn"
                         /\ batch[c].phase \in {"receiving", "activating"} => batch[c].to \in Tables
                         /\ batch[c].phase = "taken" => Armed(c) \subseteq Loaded(c))'
      BY DEF BatchShape
    <2>3. CASE c = b
      BY <1>1, <1>2, <2>2, <2>3 DEF Shaped
    <2>4. CASE c # b
      BY <1>1, <2>1, <2>4, SMTT(40) DEF IInv, BatchShape
    <2> QED BY <2>3, <2>4
  <1> QED BY <1>1, <1>2, <1>3

LEMMA ShapeOf ==
  ASSUME IInv, NEW b \in Batches
  PROVE  /\ batch[b] \in Batch /\ Shaped(batch[b])
         /\ batch[b].rec \in [Handles -> Record]
         /\ IdleBatch \in Batch /\ Shaped(IdleBatch) /\ \A h \in Handles : ~ IdleBatch.rec[h].armed
  <1>1. batch[b] \in Batch
    BY DEF IInv, TypeOK
  <1>2. Shaped(batch[b])
    BY DEF IInv, BatchShape, Shaped, Armed, Loaded
  <1>3. NoRecord \in Record
    BY DEF NoRecord, Record
  <1>4. NoRecords \in [Handles -> Record] /\ \A h \in Handles : ~ NoRecords[h].armed
    BY <1>3 DEF NoRecords, NoRecord
  <1>5. IdleBatch \in Batch /\ Shaped(IdleBatch) /\ \A h \in Handles : ~ IdleBatch.rec[h].armed
    BY <1>4 DEF IdleBatch, Batch, Phase, Shaped
  <1> QED BY <1>1, <1>2, <1>5 DEF Batch

\* The batch moves on, its detached nodes and the presence of entries do not.
LEMMA QuietStep ==
  ASSUME IInv, NEW b \in Batches, NEW x \in Batch, Shaped(x), batch' = [batch EXCEPT ![b] = x],
         \A h \in Handles : x.rec[h].armed <=> batch[b].rec[h].armed,
         Armed(b) # {} => x.from = batch[b].from,
         UNCHANGED <<next, count, life, restricts, lost>>,
         table' \in [Tables -> [Handles -> Entry]], ActiveHasObject',
         \A t \in Tables : Present(t)' = Present(t)
  PROVE  IInv'
  <1>1. /\ BatchShape' /\ batch' \in [Batches -> Batch] /\ batch'[b] = x
        /\ \A c \in Batches \ {b} : batch'[c] = batch[c]
    BY Zenon, NewBatch
  <1>2. \A c \in Batches : Armed(c)' = Armed(c)
    BY <1>1 DEF Armed
  <1>3. SameTransfers
    BY <1>1, <1>2 DEF SameTransfers
  <1>4. TransfersApart' /\ HomeExists' /\ \A t \in Tables : Detached(t)' = Detached(t)
    BY <1>3, NoTransfer DEF IInv
  <1>5. \A t \in Tables : Held(t)' = Held(t)
    BY <1>4 DEF Held
  <1>6. HeldIssued' /\ DetachedApart' /\ UnbornEmpty' /\ CountExact'
    BY <1>4, <1>5 DEF IInv, Slots, HeldIssued, DetachedApart, UnbornEmpty, CountExact, Issued
  <1> QED BY <1>1, <1>4, <1>6 DEF IInv, TypeOK, Slots

LEMMA SameTable ==
  ASSUME IInv, table' = table
  PROVE  /\ table' \in [Tables -> [Handles -> Entry]] /\ ActiveHasObject'
         /\ \A t \in Tables : Present(t)' = Present(t)
  BY DEF IInv, TypeOK, ActiveHasObject, Present

LEMMA PhaseStep ==
  ASSUME IInv, NEW b \in Batches, Enqueue(b) \/ Dispatch(b)
  PROVE  IInv'
  <1>1. PICK ph \in {"queued", "kernel"} : batch' = [batch EXCEPT ![b] = [batch[b] EXCEPT !.phase = ph]]
    BY DEF Enqueue, Dispatch
  <1> DEFINE x == [batch[b] EXCEPT !.phase = ph]
  <1>2. batch[b].phase = "taken" /\ UNCHANGED <<table, next, count, life, restricts, lost>>
    BY DEF Enqueue, Dispatch
  <1>3. batch[b] \in Batch /\ Shaped(batch[b])
    BY ShapeOf
  <1>4. /\ x \in Batch /\ x.rec = batch[b].rec /\ x.from = batch[b].from /\ x.phase = ph
    BY <1>3 DEF Batch, Phase
  <1>5. Shaped(x)
    BY <1>2, <1>3, <1>4 DEF Shaped
  <1> HIDE DEF x
  <1> QED BY Zenon, <1>1, <1>2, <1>4, <1>5, QuietStep, SameTable DEF x

LEMMA KeptByHandlerStep ==
  ASSUME IInv, NEW b \in Batches, NEW h \in Handles, take_object_to_table(b, h)
  PROVE  IInv'
  <1> DEFINE rec == [batch[b].rec EXCEPT ![h] = [@ EXCEPT !.obj = NoObject]]
             x == [batch[b] EXCEPT !.rec = rec]
  <1>1. batch[b] \in Batch /\ Shaped(batch[b]) /\ batch[b].rec \in [Handles -> Record]
    BY ShapeOf
  <1>2. rec \in [Handles -> Record] /\ \A g \in Handles : rec[g].armed <=> batch[b].rec[g].armed
    BY <1>1 DEF Record
  <1>3. batch' = [batch EXCEPT ![b] = x]
    BY DEF take_object_to_table
  <1> HIDE DEF rec
  <1>4. x \in Batch /\ x.rec = rec /\ x.from = batch[b].from /\ x.phase = "kernel"
    BY <1>1, <1>2 DEF Batch, take_object_to_table
  <1>5. Shaped(x)
    BY <1>1, <1>4 DEF Shaped, take_object_to_table
  <1>6. UNCHANGED <<table, next, count, life, restricts, lost>>
    BY DEF take_object_to_table
  <1> HIDE DEF x
  <1> QED BY Zenon, <1>2, <1>3, <1>4, <1>5, <1>6, QuietStep, SameTable

\* A drained batch keeps its detached nodes until the sender commits.
LEMMA DrainedShape ==
  ASSUME IInv, NEW b \in Batches, NEW rec \in [Handles -> Record], batch[b].phase # "idle",
         \A h \in Handles : rec[h].armed <=> batch[b].rec[h].armed
  PROVE  /\ Drained(b, rec) \in Batch /\ Shaped(Drained(b, rec))
         /\ \A h \in Handles : Drained(b, rec).rec[h].armed <=> batch[b].rec[h].armed
         /\ Armed(b) # {} => Drained(b, rec).from = batch[b].from
  <1>1. batch[b] \in Batch /\ Shaped(batch[b])
    BY ShapeOf
  <1>2. CASE Armed(b) = {}
    <2>1. Drained(b, rec) = IdleBatch
      BY <1>2 DEF Drained
    <2>2. IdleBatch \in Batch /\ Shaped(IdleBatch) /\ \A h \in Handles : ~ IdleBatch.rec[h].armed
      BY ShapeOf
    <2>3. \A h \in Handles : ~ batch[b].rec[h].armed
      BY <1>2 DEF Armed
    <2> QED BY <1>2, <2>1, <2>2, <2>3
  <1>3. CASE Armed(b) # {}
    <2> DEFINE x == [batch[b] EXCEPT !.phase = "drained", !.to = NoTable, !.rec = rec, !.slots = {}]
    <2>1. Drained(b, rec) = x
      BY <1>3 DEF Drained
    <2>2. x \in Batch /\ x.phase = "drained" /\ x.from = batch[b].from /\ x.rec = rec
      BY Zenon, <1>1 DEF Batch, Phase
    <2>3. Shaped(x)
      BY <1>1, <2>2 DEF Shaped
    <2> QED BY <2>1, <2>2, <2>3
  <1> QED BY <1>2, <1>3

LEMMA DiscardStep ==
  ASSUME IInv, NEW b \in Batches, Discard(b)
  PROVE  IInv'
  <1> DEFINE rec == [h \in Handles |-> [batch[b].rec[h] EXCEPT !.obj = NoObject]]
  <1>1. batch[b].rec \in [Handles -> Record]
    BY ShapeOf
  <1>2. rec \in [Handles -> Record] /\ \A g \in Handles : rec[g].armed <=> batch[b].rec[g].armed
    BY <1>1 DEF Record
  <1>3. batch' = [batch EXCEPT ![b] = Drained(b, rec)] /\ batch[b].phase # "idle"
        /\ UNCHANGED <<table, next, count, life, restricts, lost>>
    BY DEF Discard
  <1> HIDE DEF rec
  <1> DEFINE x == Drained(b, rec)
  <1>4. /\ x \in Batch /\ Shaped(x) /\ (Armed(b) # {} => x.from = batch[b].from)
        /\ \A h \in Handles : x.rec[h].armed <=> batch[b].rec[h].armed
    BY Zenon, <1>2, <1>3, DrainedShape
  <1> HIDE DEF x
  <1> QED BY Zenon, <1>3, <1>4, QuietStep, SameTable DEF x

LEMMA ActivateStep ==
  ASSUME IInv, NEW b \in Batches, NEW h \in Handles, NEW s \in Handles, activate_native(b, h, s)
  PROVE  IInv'
  <1> DEFINE t == batch[b].to
             rec == [batch[b].rec EXCEPT ![h].obj = NoObject]
             e == [st |-> "active", obj |-> batch[b].rec[h].obj, rights |-> batch[b].rec[h].rights]
             x == IF Loaded(b) = {h} THEN Drained(b, rec)
                  ELSE [batch[b] EXCEPT !.phase = "activating", !.rec = rec, !.slots = batch[b].slots \ {s}]
  <1>1. batch[b] \in Batch /\ Shaped(batch[b]) /\ batch[b].rec \in [Handles -> Record]
    BY ShapeOf
  <1>2. t \in Tables /\ batch[b].phase # "idle" /\ table[t][s].st = "reserved"
    BY <1>1 DEF Shaped, activate_native
  <1>3. rec \in [Handles -> Record] /\ \A g \in Handles : rec[g].armed <=> batch[b].rec[g].armed
    BY <1>1 DEF Record
  <1>4. e \in Entry /\ e.st = "active" /\ e.obj # NoObject
    BY <1>1 DEF Entry, EntryState, Record, activate_native, Loaded
  <1>5. /\ batch' = [batch EXCEPT ![b] = x] /\ table' = [table EXCEPT ![t][s] = e]
        /\ UNCHANGED <<next, count, life, restricts, lost>>
    BY DEF activate_native
  <1> HIDE DEF rec, e
  <1>6. /\ x \in Batch /\ Shaped(x) /\ (Armed(b) # {} => x.from = batch[b].from)
        /\ \A g \in Handles : x.rec[g].armed <=> batch[b].rec[g].armed
    <2>1. CASE Loaded(b) = {h}
      BY <1>2, <1>3, <2>1, DrainedShape
    <2>2. CASE Loaded(b) # {h}
      <3>1. /\ x \in Batch /\ x.phase = "activating" /\ x.rec = rec
            /\ x.from = batch[b].from /\ x.to = batch[b].to
        BY Zenon, <1>1, <1>3, <2>2 DEF Batch, Phase
      <3>2. Shaped(x)
        BY <1>1, <1>2, <3>1 DEF Shaped
      <3> QED BY <1>3, <3>1, <3>2
    <2> QED BY <2>1, <2>2
  <1> HIDE DEF x, t
  <1>7. /\ table' \in [Tables -> [Handles -> Entry]] /\ ActiveHasObject'
        /\ \A u \in Tables : Present(u)' = Present(u)
    BY <1>2, <1>4, <1>5 DEF IInv, TypeOK, ActiveHasObject, Present
  <1> QED BY Zenon, <1>5, <1>6, <1>7, QuietStep

LEMMA RollbackStep ==
  ASSUME IInv, NEW b \in Batches, rollback_native(b)
  PROVE  IInv'
  <1>0. PICK t : t = batch[b].to
    OBVIOUS
  <1> DEFINE gone == {h \in batch[b].slots : table[t][h].st = "reserved"}
             x == [batch[b] EXCEPT !.phase = "queued", !.to = NoTable, !.slots = {}]
  <1>1. batch[b] \in Batch /\ Shaped(batch[b])
    BY ShapeOf
  <1>2. t \in Tables /\ life[t] = "live"
    BY <1>0, <1>1 DEF Shaped, rollback_native
  <1>3. /\ batch' = [batch EXCEPT ![b] = x] /\ count' = [count EXCEPT ![t] = @ - Cardinality(gone)]
        /\ table' = [table EXCEPT ![t] = [h \in Handles |-> IF h \in gone THEN Absent ELSE table[t][h]]]
        /\ UNCHANGED <<next, life, restricts, lost>>
    BY Zenon, <1>0 DEF rollback_native
  <1>4. x \in Batch /\ x.phase = "queued" /\ x.rec = batch[b].rec /\ x.from = batch[b].from
    BY Zenon, <1>1 DEF Batch, Phase
  <1>5. Shaped(x)
    BY <1>1, <1>4 DEF Shaped, rollback_native
  <1>6. gone \subseteq Present(t)
    BY <1>1 DEF Batch, Present
  <1> HIDE DEF x, gone
  <1>7. /\ BatchShape' /\ batch' \in [Batches -> Batch] /\ batch'[b] = x
        /\ \A c \in Batches \ {b} : batch'[c] = batch[c]
    BY Zenon, <1>3, <1>4, <1>5, NewBatch
  <1>8. SameTransfers
    BY <1>4, <1>7 DEF SameTransfers, Armed
  <1>9. Absent \in Entry
    BY DEF Absent, Entry, EntryState
  <1>10. table' \in [Tables -> [Handles -> Entry]] /\ ActiveHasObject'
    BY Zenon, <1>2, <1>3, <1>9 DEF IInv, TypeOK, ActiveHasObject, Absent
  <1>11. Present(t)' = Present(t) \ gone /\ \A u \in Tables \ {t} : Present(u)' = Present(u)
    BY <1>2, <1>3 DEF IInv, TypeOK, Present, Absent
  <1>12. Slots' /\ count' \in [Tables -> 0 .. MaxEntries]
    BY Zenon, <1>2, <1>3, <1>6, <1>8, <1>11, SomeSlotsFewer
  <1> QED BY <1>3, <1>7, <1>10, <1>12 DEF IInv, TypeOK

LEMMA RecordTyped ==
  ASSUME NEW a \in BOOLEAN, NEW o \in Objects \cup {NoObject},
         NEW w \in SUBSET Rights, NEW r \in SUBSET Rights
  PROVE  [armed |-> a, obj |-> o, rights |-> Requested(w, r), orig |-> w] \in Record
  <1>1. Requested(w, r) \in SUBSET Rights
    BY DEF Requested
  <1> QED BY <1>1 DEF Record

LEMMA TakeStep ==
  ASSUME IInv, NEW b \in Batches, NEW t \in Tables, NEW r \in Requests,
         NEW moves \in SUBSET Handles, NEW dups \in SUBSET Handles, take_native_batch(b, t, moves, dups, r)
  PROVE  IInv'
  <1> DEFINE rec == [h \in Handles |->
                       IF h \in moves \cup dups
                       THEN [armed |-> h \in moves, obj |-> table[t][h].obj,
                             rights |-> Requested(table[t][h].rights, r),
                             orig |-> table[t][h].rights]
                       ELSE NoRecord]
             x == [phase |-> "taken", from |-> t, to |-> NoTable, slots |-> {}, rec |-> rec]
  <1>1. /\ batch' = [batch EXCEPT ![b] = x] /\ life[t] = "live" /\ batch[b].phase = "idle"
        /\ table' = [table EXCEPT ![t] = [h \in Handles |-> IF h \in moves THEN Absent ELSE table[t][h]]]
        /\ UNCHANGED <<next, count, life, restricts, lost>>
        /\ \A h \in moves \cup dups : table[t][h].st = "active"
    BY Zenon DEF take_native_batch, Transferable
  <1>2. rec \in [Handles -> Record]
    <2>1. r \in SUBSET Rights /\ NoRecord \in Record
      BY Zenon, TableConstants DEF NoRecord, Record
    <2>2. \A h \in Handles : table[t][h] \in Entry
      BY EntryTyped
    <2>3. ASSUME NEW h \in Handles
          PROVE  [armed |-> h \in moves, obj |-> table[t][h].obj,
                  rights |-> Requested(table[t][h].rights, r), orig |-> table[t][h].rights] \in Record
      <3>1. table[t][h].obj \in Objects \cup {NoObject} /\ table[t][h].rights \in SUBSET Rights
        BY <2>2 DEF Entry
      <3>2. (h \in moves) \in BOOLEAN
        OBVIOUS
      <3> QED BY <2>1, <3>1, <3>2, RecordTyped, Zenon
    <2> QED BY ZenonT(30), <2>1, <2>3
  <1>3. \A h \in Handles : rec[h].armed <=> h \in moves
    BY Zenon DEF NoRecord
  <1>4. \A h \in Handles : rec[h].armed => rec[h].obj # NoObject
    BY Zenon, <1>1, <1>3 DEF IInv, ActiveHasObject
  <1> HIDE DEF rec
  <1>5. x \in Batch /\ x.phase = "taken" /\ x.from = t /\ x.rec = rec
    BY Zenon, <1>2 DEF Batch, Phase
  <1>6. Shaped(x)
    BY Zenon, <1>1, <1>4, <1>5 DEF Shaped
  <1> HIDE DEF x
  <1>7. /\ BatchShape' /\ batch' \in [Batches -> Batch] /\ batch'[b] = x
        /\ Armed(b)' = {h \in Handles : x.rec[h].armed}
        /\ \A c \in Batches \ {b} : batch'[c] = batch[c]
    BY Zenon, <1>1, <1>5, <1>6, NewBatch
  <1>8. Armed(b)' = moves /\ Armed(b) = {} /\ batch'[b].from = t
    BY Zenon, <1>1, <1>3, <1>5, <1>7 DEF IInv, BatchShape
  <1>9. moves \subseteq Present(t) /\ moves \cap Detached(t) = {}
    BY <1>1 DEF Present, IInv, Slots, DetachedApart
  <1>10. /\ TransfersApart' /\ HomeExists'
         /\ \A u \in Tables : Detached(u)' = IF u = t THEN Detached(u) \cup moves ELSE Detached(u)
    <2>1. Slots /\ Detaches(b, t, moves)
      BY Zenon, <1>1, <1>7, <1>8, <1>9 DEF IInv, Detaches
    <2> QED BY <2>1, TransferStarts
  <1>11. Absent \in Entry
    BY Zenon DEF Absent, Entry, EntryState
  <1>12. table' \in [Tables -> [Handles -> Entry]] /\ ActiveHasObject'
    BY Zenon, <1>1, <1>11 DEF IInv, TypeOK, ActiveHasObject, Absent
  <1>13. Present(t)' = Present(t) \ moves /\ \A u \in Tables \ {t} : Present(u)' = Present(u)
    BY <1>1 DEF IInv, TypeOK, Present, Absent
  <1>14. OtherTables(t) /\ Held(t)' = Held(t)
    BY <1>1, <1>9, <1>10, <1>13 DEF IInv, TypeOK, OtherTables, Held
  <1>15. HeldIssued' /\ DetachedApart' /\ UnbornEmpty' /\ CountExact'
    <2>1. Present(t)' \cap Detached(t)' = {} /\ life'[t] # "unborn"
      BY <1>1, <1>10, <1>13 DEF IInv, Slots, DetachedApart
    <2>2. \A h \in Held(t)' : Issued(t, h)'
      BY <1>1, <1>14 DEF IInv, Slots, HeldIssued, Issued
    <2>3. count'[t] = Cardinality(Held(t)') + lost'[t]
      BY <1>1, <1>14 DEF IInv, Slots, CountExact
    <2> QED BY <1>14, <2>1, <2>2, <2>3, OneTable DEF IInv
  <1> QED BY <1>1, <1>7, <1>10, <1>12, <1>15 DEF IInv, TypeOK, Slots

\* Batch b becomes x without nodes: u, its source, loses them from Detached.
LEMMA EndOfTransfer ==
  ASSUME IInv, NEW b \in Batches, NEW u \in Tables, u = batch[b].from, life[u] # "unborn",
         NEW x \in Batch, Shaped(x), \A h \in Handles : ~ x.rec[h].armed,
         batch' = [batch EXCEPT ![b] = x], UNCHANGED <<next, life, restricts>>,
         \A t \in Tables \ {u} : Present(t)' = Present(t) /\ count'[t] = count[t] /\ lost'[t] = lost[t]
  PROVE  /\ BatchShape' /\ batch' \in [Batches -> Batch]
         /\ TransfersApart' /\ HomeExists' /\ OtherTables(u)
         /\ Armed(b) \subseteq Detached(u) /\ Detached(u)' = Detached(u) \ Armed(b)
  <1>1. /\ BatchShape' /\ batch' \in [Batches -> Batch]
        /\ \A c \in Batches \ {b} : batch'[c] = batch[c]
        /\ Armed(b)' = {h \in Handles : x.rec[h].armed}
    BY Zenon, NewBatch
  <1>2. Armed(b)' = {}
    BY <1>1
  <1>3. /\ TransfersApart' /\ HomeExists' /\ Armed(b) \subseteq Detached(u)
        /\ \A t \in Tables : Detached(t)' = IF t = u THEN Detached(t) \ Armed(b) ELSE Detached(t)
    BY Zenon, <1>1, <1>2, TransferEnds DEF IInv
  <1> QED BY Zenon, <1>1, <1>3 DEF OtherTables

LEMMA RestoreAllStep ==
  ASSUME IInv, NEW b \in Batches, batch[b].phase # "idle", RestoreAll(b)
  PROVE  IInv'
  <1>1. /\ batch[b] \in Batch /\ Shaped(batch[b]) /\ batch[b].rec \in [Handles -> Record]
        /\ IdleBatch \in Batch /\ Shaped(IdleBatch) /\ \A h \in Handles : ~ IdleBatch.rec[h].armed
    BY ShapeOf
  <1>2. PICK u \in Tables : u = batch[b].from /\ life[u] # "unborn"
    BY <1>1 DEF Shaped
  <1> DEFINE A == Armed(b)
             e(h) == [st |-> "active", obj |-> batch[b].rec[h].obj, rights |-> batch[b].rec[h].orig]
  <1>3. /\ table' = [table EXCEPT ![u] = [h \in Handles |-> IF h \in A THEN e(h) ELSE table[u][h]]]
        /\ batch' = [batch EXCEPT ![b] = IdleBatch]
        /\ UNCHANGED <<next, count, life, restricts, lost>>
        /\ \A h \in A : batch[b].rec[h].obj # NoObject /\ h \notin Present(u)
    BY Zenon, <1>2 DEF RestoreAll, Restorable
  <1>4. \A h \in A : e(h) \in Entry /\ e(h).st = "active" /\ e(h).obj # NoObject
    BY Zenon, <1>1, <1>3 DEF Record, Entry, EntryState, Armed
  <1>5. A \subseteq Handles
    BY DEF Armed
  <1>6. PICK B : B = A
    OBVIOUS
  <1>7. table' \in [Tables -> [Handles -> Entry]] /\ ActiveHasObject'
    <2>1. table' \in [Tables -> [Handles -> Entry]]
      BY Zenon, <1>3, <1>4 DEF IInv, TypeOK
    <2>2. ActiveHasObject'
      BY <1>3, <1>4 DEF IInv, TypeOK, ActiveHasObject
    <2> QED BY <2>1, <2>2
  <1>8. Present(u)' = Present(u) \cup B /\ \A t \in Tables \ {u} : Present(t)' = Present(t)
    BY <1>3, <1>4, <1>5, <1>6 DEF IInv, TypeOK, Present
  <1>9. /\ BatchShape' /\ batch' \in [Batches -> Batch]
        /\ TransfersApart' /\ HomeExists' /\ OtherTables(u)
        /\ B \subseteq Detached(u) /\ Detached(u)' = Detached(u) \ B
    BY ZenonT(30), <1>1, <1>2, <1>3, <1>6, <1>8, EndOfTransfer
  <1>10. Held(u)' = Held(u)
    BY <1>8, <1>9 DEF Held
  <1>11. HeldIssued' /\ DetachedApart' /\ UnbornEmpty' /\ CountExact'
    <2>1. Present(u)' \cap Detached(u)' = {} /\ life'[u] # "unborn"
      BY Zenon, <1>2, <1>3, <1>8, <1>9 DEF IInv, Slots, DetachedApart
    <2>2. \A h \in Held(u)' : Issued(u, h)'
      BY Zenon, <1>3, <1>10 DEF IInv, Slots, HeldIssued, Issued
    <2>3. life'[u] = "live" => count'[u] = Cardinality(Held(u)') + lost'[u]
      BY Zenon, <1>3, <1>10 DEF IInv, Slots, CountExact
    <2> QED BY Zenon, <1>9, <2>1, <2>2, <2>3, OneTable DEF IInv
  <1> QED BY Zenon, <1>3, <1>7, <1>9, <1>11 DEF IInv, TypeOK, Slots

LEMMA RestoreNoneStep ==
  ASSUME IInv, NEW b \in Batches, batch[b].phase # "idle", RestoreNone(b)
  PROVE  IInv'
  <1>1. /\ batch[b] \in Batch /\ Shaped(batch[b])
        /\ IdleBatch \in Batch /\ Shaped(IdleBatch) /\ \A h \in Handles : ~ IdleBatch.rec[h].armed
    BY ShapeOf
  <1>2. PICK u \in Tables : u = batch[b].from /\ life[u] # "unborn"
    BY <1>1 DEF Shaped
  <1>3. PICK A : A = Armed(b)
    OBVIOUS
  <1>4. /\ lost' = [lost EXCEPT ![u] = @ + Cardinality(A)]
        /\ batch' = [batch EXCEPT ![b] = IdleBatch]
        /\ UNCHANGED <<table, next, count, life, restricts>>
    BY <1>2, <1>3 DEF RestoreNone
  <1>5. /\ table' \in [Tables -> [Handles -> Entry]] /\ ActiveHasObject'
        /\ \A t \in Tables : Present(t)' = Present(t)
    BY <1>4, SameTable
  <1>6. lost'[u] = lost[u] + Cardinality(A) /\ \A t \in Tables \ {u} : lost'[t] = lost[t]
    BY <1>4 DEF IInv, TypeOK
  <1>7. /\ BatchShape' /\ batch' \in [Batches -> Batch]
        /\ TransfersApart' /\ HomeExists' /\ OtherTables(u)
        /\ A \subseteq Detached(u) /\ Detached(u)' = Detached(u) \ A
    BY Zenon, <1>1, <1>2, <1>3, <1>4, <1>5, <1>6, EndOfTransfer
  <1>8. Held(u)' = Held(u) \ A /\ A \subseteq Held(u)
    BY Zenon, <1>5, <1>7 DEF Held, IInv, Slots, DetachedApart
  <1>9. /\ Cardinality(Held(u)') = Cardinality(Held(u)) - Cardinality(A)
        /\ Cardinality(Held(u)) \in Nat /\ Cardinality(A) \in Nat /\ lost[u] \in Nat
    BY <1>8, SlotSets, SubsetRemoved, HandlesFinite DEF IInv, TypeOK
  <1>10. HeldIssued' /\ DetachedApart' /\ UnbornEmpty' /\ CountExact'
    <2>1. Present(u)' \cap Detached(u)' = {} /\ life'[u] # "unborn"
      BY <1>2, <1>4, <1>5, <1>7 DEF IInv, Slots, DetachedApart
    <2>2. \A h \in Held(u)' : Issued(u, h)'
      BY <1>4, <1>8 DEF IInv, Slots, HeldIssued, Issued
    <2>3. life'[u] = "live" => count'[u] = Cardinality(Held(u)') + lost'[u]
      <3>1. life'[u] = "live" => count'[u] = Cardinality(Held(u)) + lost[u]
        BY <1>4 DEF IInv, Slots, CountExact
      <3> QED BY <1>6, <1>9, <3>1, SMTT(40)
    <2> QED BY <1>7, <2>1, <2>2, <2>3, OneTable DEF IInv
  <1>11. lost' \in [Tables -> Nat]
    BY <1>4, <1>9 DEF IInv, TypeOK
  <1> QED BY <1>4, <1>5, <1>7, <1>10, <1>11 DEF IInv, TypeOK, Slots

LEMMA CommitStep ==
  ASSUME IInv, NEW b \in Batches, commit_native_batch(b)
  PROVE  IInv'
  <1> DEFINE rec == [h \in Handles |-> [batch[b].rec[h] EXCEPT !.armed = FALSE]]
             x == IF batch[b].phase = "drained" THEN IdleBatch ELSE [batch[b] EXCEPT !.rec = rec]
  <1>1. /\ batch[b] \in Batch /\ Shaped(batch[b]) /\ batch[b].rec \in [Handles -> Record]
        /\ IdleBatch \in Batch /\ Shaped(IdleBatch) /\ \A h \in Handles : ~ IdleBatch.rec[h].armed
    BY ShapeOf
  <1>2. PICK u \in Tables : u = batch[b].from /\ life[u] = "live"
    BY <1>1 DEF Shaped, commit_native_batch
  <1>3. PICK A : A = Armed(b)
    OBVIOUS
  <1>4. /\ count' = [count EXCEPT ![u] = @ - Cardinality(A)]
        /\ batch' = [batch EXCEPT ![b] = x]
        /\ UNCHANGED <<table, next, life, restricts, lost>>
    BY <1>2, <1>3 DEF commit_native_batch
  <1>5. x \in Batch /\ Shaped(x) /\ \A h \in Handles : ~ x.rec[h].armed
    <2>1. rec \in [Handles -> Record] /\ \A h \in Handles : ~ rec[h].armed
      BY Zenon, <1>1 DEF Record
    <2> HIDE DEF rec
    <2>2. CASE batch[b].phase = "drained"
      BY <1>1, <2>2
    <2>3. CASE batch[b].phase # "drained"
      <3>1. /\ x \in Batch /\ x.phase = batch[b].phase /\ x.from = batch[b].from
            /\ x.to = batch[b].to /\ x.rec = rec
        BY <1>1, <2>1, <2>3 DEF Batch
      <3>2. Shaped(x)
        BY <1>1, <2>1, <3>1 DEF Shaped
      <3> QED BY <2>1, <3>1, <3>2
    <2> QED BY <2>2, <2>3
  <1> HIDE DEF x, rec
  <1>6. /\ table' \in [Tables -> [Handles -> Entry]] /\ ActiveHasObject'
        /\ \A t \in Tables : Present(t)' = Present(t)
    BY <1>4, SameTable
  <1>7. count'[u] = count[u] - Cardinality(A) /\ \A t \in Tables \ {u} : count'[t] = count[t]
    BY <1>4 DEF IInv, TypeOK
  <1>8. /\ BatchShape' /\ batch' \in [Batches -> Batch]
        /\ TransfersApart' /\ HomeExists' /\ OtherTables(u)
        /\ A \subseteq Detached(u) /\ Detached(u)' = Detached(u) \ A
    BY Zenon, <1>2, <1>3, <1>4, <1>5, <1>6, <1>7, EndOfTransfer
  <1>9. Held(u)' = Held(u) \ A /\ A \subseteq Held(u)
    BY <1>6, <1>8 DEF Held, IInv, Slots, DetachedApart
  <1>10. /\ Cardinality(Held(u)') = Cardinality(Held(u)) - Cardinality(A)
         /\ Cardinality(A) <= Cardinality(Held(u))
         /\ Cardinality(Held(u)) \in Nat /\ Cardinality(A) \in Nat /\ lost[u] \in Nat
    BY Zenon, <1>9, SlotSets, SubsetRemoved, HandlesFinite DEF IInv, TypeOK
  <1>11. count[u] = Cardinality(Held(u)) + lost[u] /\ count[u] \in 0 .. MaxEntries
    BY <1>2 DEF IInv, Slots, CountExact, TypeOK
  <1>12. HeldIssued' /\ DetachedApart' /\ UnbornEmpty' /\ CountExact'
    <2>1. Present(u)' \cap Detached(u)' = {} /\ life'[u] # "unborn"
      BY Zenon, <1>2, <1>4, <1>6, <1>8 DEF IInv, Slots, DetachedApart
    <2>2. \A h \in Held(u)' : Issued(u, h)'
      BY <1>4, <1>9 DEF IInv, Slots, HeldIssued, Issued
    <2>3. count'[u] = Cardinality(Held(u)') + lost'[u]
      <3>1. lost'[u] = lost[u]
        BY <1>4
      <3> QED BY <1>7, <1>10, <1>11, <3>1, SMTT(40)
    <2> QED BY <1>8, <2>1, <2>2, <2>3, OneTable DEF IInv
  <1>13. count' \in [Tables -> 0 .. MaxEntries]
    <2>1. count[u] - Cardinality(A) \in 0 .. MaxEntries
      BY <1>10, <1>11, TableConstants, SMTT(40)
    <2>2. count \in [Tables -> 0 .. MaxEntries]
      BY DEF IInv, TypeOK
    <2> QED BY <1>4, <2>1, <2>2
  <1> QED BY <1>4, <1>6, <1>8, <1>12, <1>13 DEF IInv, TypeOK, Slots

\* The handles a reservation of n slots issues, and the counter after it.
LEMMA NewHandles ==
  ASSUME IInv, NEW t \in Tables, NEW n \in Nat, n <= Room(t),
         NEW new, new = {h \in Handles : next[t] <= h /\ h < next[t] + n}
  PROVE  /\ new \cap Held(t) = {} /\ Cardinality(new) = n
         /\ (next[t] + n) % HandleSpace \in 0 .. (HandleSpace - 1)
         /\ \A h \in Held(t) \cup new :
              (next[t] + n) % HandleSpace = 0 \/ h < (next[t] + n) % HandleSpace
  <1>1. next[t] \in 0 .. (HandleSpace - 1)
    BY DEF IInv, TypeOK
  <1>2. next[t] + n \in 0 .. HandleSpace
    BY <1>1, TableConstants DEF Room
  <1>3. (next[t] + n) % HandleSpace = IF next[t] + n = HandleSpace THEN 0 ELSE next[t] + n
    BY <1>2, ModuloSpace
  <1>4. CASE next[t] = 0
    <2>1. n = 0
      BY <1>4 DEF Room
    <2>2. new = {}
      BY <1>4, <2>1, TableConstants DEF Handles
    <2>3. next[t] + n = 0 /\ 0 # HandleSpace
      BY <1>4, <2>1, TableConstants
    <2>4. (next[t] + n) % HandleSpace = 0
      BY <1>3, <2>3
    <2>5. Cardinality(new) = 0
      BY <2>2, FS_EmptySet
    <2> QED BY <2>1, <2>2, <2>4, <2>5, TableConstants
  <1>5. CASE next[t] # 0
    <2>1. new = next[t] .. (next[t] + n - 1)
      BY <1>1, <1>2, <1>5, TableConstants DEF Handles
    <2>2. Cardinality(new) = n
      <3>1. PICK lo \in Int, hi \in Int : lo = next[t] /\ hi = next[t] + n - 1
        BY <1>1, TableConstants
      <3>2. Cardinality(lo .. hi) = IF lo > hi THEN 0 ELSE hi - lo + 1
        BY FS_Interval, Zenon
      <3>3. new = lo .. hi
        BY <2>1, <3>1
      <3>4. (lo > hi => n = 0) /\ (~ (lo > hi) => hi - lo + 1 = n)
        <4>1. hi = lo + n - 1
          BY <3>1
        <4> QED BY <4>1
      <3> QED BY Zenon, <3>2, <3>3, <3>4
    <2>3. \A h \in Held(t) : h \in Handles /\ h < next[t]
      BY <1>5, SlotSets DEF IInv, Slots, HeldIssued, Issued
    <2>4. new \cap Held(t) = {}
      BY <1>1, <2>3, TableConstants DEF Handles
    <2>5. \A h \in Held(t) \cup new : h < next[t] + n
      BY <1>1, <2>3, TableConstants DEF Handles
    <2>6. (next[t] + n) % HandleSpace \in 0 .. (HandleSpace - 1)
      BY <1>2, <1>3, TableConstants
    <2> QED BY <1>3, <2>2, <2>4, <2>5, <2>6
  <1> QED BY <1>4, <1>5

LEMMA ReserveStep ==
  ASSUME IInv, NEW b \in Batches, NEW t \in Tables, reserve_native(b, t)
  PROVE  IInv'
  <1>1. PICK n : n = Cardinality(Loaded(b))
    OBVIOUS
  <1>2. PICK new : new = {h \in Handles : next[t] <= h /\ h < next[t] + n}
    BY Zenon
  <1> DEFINE x == [batch[b] EXCEPT !.phase = "receiving", !.to = t, !.slots = new]
  <1>3. /\ batch[b].phase = "queued" /\ life[t] = "live" /\ n <= Room(t) /\ count[t] + n <= MaxEntries
        /\ table' = [table EXCEPT ![t] = [h \in Handles |-> IF h \in new THEN Reserved ELSE table[t][h]]]
        /\ next' = [next EXCEPT ![t] = (next[t] + n) % HandleSpace]
        /\ count' = [count EXCEPT ![t] = @ + n]
        /\ batch' = [batch EXCEPT ![b] = x]
        /\ UNCHANGED <<life, restricts, lost>>
    BY Zenon, <1>1, <1>2 DEF reserve_native
  <1>4. n \in Nat
    <2>1. Loaded(b) \subseteq Handles
      BY DEF Loaded
    <2> QED BY <1>1, <2>1, HandlesFinite
  <1>5. /\ new \cap Held(t) = {} /\ Cardinality(new) = n /\ new \subseteq Handles
        /\ (next[t] + n) % HandleSpace \in 0 .. (HandleSpace - 1)
        /\ \A h \in Held(t) \cup new : (next[t] + n) % HandleSpace = 0 \/ h < (next[t] + n) % HandleSpace
    BY Zenon, <1>2, <1>3, <1>4, NewHandles
  <1>6. batch[b] \in Batch /\ Shaped(batch[b])
    BY ShapeOf
  <1>7. x \in Batch /\ x.phase = "receiving" /\ x.from = batch[b].from /\ x.to = t /\ x.rec = batch[b].rec
    BY Zenon, <1>5, <1>6 DEF Batch, Phase
  <1>8. Shaped(x)
    BY <1>3, <1>6, <1>7 DEF Shaped
  <1> HIDE DEF x
  <1>9. /\ BatchShape' /\ batch' \in [Batches -> Batch] /\ batch'[b] = x
        /\ \A c \in Batches \ {b} : batch'[c] = batch[c]
    BY Zenon, <1>3, <1>7, <1>8, NewBatch
  <1>10. SameTransfers
    BY <1>7, <1>9 DEF SameTransfers, Armed
  <1>11. TransfersApart' /\ HomeExists' /\ \A u \in Tables : Detached(u)' = Detached(u)
    BY <1>3, <1>10, NoTransfer DEF IInv
  <1>12. Reserved \in Entry /\ Reserved.st = "reserved"
    BY DEF Reserved, Entry, EntryState
  <1>13. table' \in [Tables -> [Handles -> Entry]] /\ ActiveHasObject'
    BY <1>3, <1>12 DEF IInv, TypeOK, ActiveHasObject
  <1>14. Present(t)' = Present(t) \cup new /\ \A u \in Tables \ {t} : Present(u)' = Present(u)
    BY Zenon, <1>3, <1>5, <1>12 DEF IInv, TypeOK, Present
  <1>15. /\ OtherTables(t) /\ Held(t)' = Held(t) \cup new
         /\ next'[t] = (next[t] + n) % HandleSpace /\ count'[t] = count[t] + n
    BY <1>3, <1>11, <1>14 DEF IInv, TypeOK, OtherTables, Held
  <1>16. HeldIssued' /\ DetachedApart' /\ UnbornEmpty' /\ CountExact'
    <2>1. Present(t)' \cap Detached(t)' = {} /\ life'[t] # "unborn"
      BY Zenon, <1>3, <1>5, <1>11, <1>14 DEF IInv, Slots, DetachedApart, Held
    <2>2. \A h \in Held(t)' : Issued(t, h)'
      BY Zenon, <1>5, <1>15 DEF Issued
    <2>3. Cardinality(Held(t)') = Cardinality(Held(t)) + n /\ Cardinality(Held(t)) \in Nat
      BY <1>5, <1>15, SlotSets, DisjointUnion, HandlesFinite
    <2>4. count'[t] = Cardinality(Held(t)') + lost'[t]
      <3>1. count[t] = Cardinality(Held(t)) + lost[t] /\ lost[t] \in Nat /\ lost'[t] = lost[t]
        BY <1>3 DEF IInv, Slots, CountExact, TypeOK
      <3>2. PICK k \in Nat, l \in Nat : k = Cardinality(Held(t)) /\ l = lost[t]
        BY <2>3, <3>1
      <3>3. count'[t] = (k + l) + n /\ Cardinality(Held(t)') + lost'[t] = (k + n) + l
        BY <1>15, <2>3, <3>1, <3>2
      <3>4. (k + l) + n = (k + n) + l
        BY <1>4, <3>2
      <3> QED BY <3>3, <3>4
    <2> QED BY Zenon, <1>15, <2>1, <2>2, <2>4, OneTable DEF IInv
  <1>17. next' \in [Tables -> 0 .. (HandleSpace - 1)] /\ count' \in [Tables -> 0 .. MaxEntries]
    <2>1. next \in [Tables -> 0 .. (HandleSpace - 1)] /\ count \in [Tables -> 0 .. MaxEntries]
      BY DEF IInv, TypeOK
    <2>2. count[t] + n \in 0 .. MaxEntries
      BY <1>3, <1>4, <2>1, TableConstants, SMTT(40)
    <2>3. count' \in [Tables -> 0 .. MaxEntries]
      BY <1>3, <2>1, <2>2
    <2>4. next' \in [Tables -> 0 .. (HandleSpace - 1)]
      BY <1>3, <1>5, <2>1
    <2> QED BY <2>3, <2>4
  <1> QED BY <1>3, <1>9, <1>11, <1>13, <1>16, <1>17 DEF IInv, TypeOK, Slots

LEMMA ReserveFailsStep ==
  ASSUME IInv, NEW b \in Batches, NEW t \in Tables, reserve_native_fails(b, t)
  PROVE  IInv'
  <1>1. PICK free : free = MaxEntries - count[t]
    OBVIOUS
  <1>2. /\ next' = [next EXCEPT ![t] = IF free <= Room(t) THEN (next[t] + free) % HandleSpace ELSE 0]
        /\ life[t] = "live" /\ UNCHANGED <<table, count, life, restricts, batch, lost>>
    BY Zenon, <1>1 DEF reserve_native_fails
  <1>3. free \in Nat
    BY <1>1, TableConstants DEF IInv, TypeOK
  <1>4. /\ next'[t] \in 0 .. (HandleSpace - 1) /\ next' \in [Tables -> 0 .. (HandleSpace - 1)]
        /\ \A h \in Held(t) : next'[t] = 0 \/ h < next'[t]
    <2>1. CASE free <= Room(t)
      <3>1. next \in [Tables -> 0 .. (HandleSpace - 1)] /\ next'[t] = (next[t] + free) % HandleSpace
        BY <1>2, <2>1 DEF IInv, TypeOK
      <3>2. /\ (next[t] + free) % HandleSpace \in 0 .. (HandleSpace - 1)
            /\ \A h \in Held(t) :
                 (next[t] + free) % HandleSpace = 0 \/ h < (next[t] + free) % HandleSpace
        BY Zenon, <1>3, <2>1, NewHandles
      <3>3. next' \in [Tables -> 0 .. (HandleSpace - 1)]
        BY <1>2, <2>1, <3>1, <3>2
      <3> QED BY <3>1, <3>2, <3>3
    <2>2. CASE ~ (free <= Room(t))
      BY <1>2, <2>2, TableConstants, SMTT(40) DEF IInv, TypeOK
    <2> QED BY <2>1, <2>2
  <1>5. SameTransfers /\ BatchShape' /\ batch' \in [Batches -> Batch]
    BY <1>2, SameBatches
  <1>6. TransfersApart' /\ HomeExists' /\ \A u \in Tables : Detached(u)' = Detached(u)
    BY <1>2, <1>5, NoTransfer DEF IInv
  <1>7. /\ table' \in [Tables -> [Handles -> Entry]] /\ ActiveHasObject'
        /\ \A u \in Tables : Present(u)' = Present(u)
    BY <1>2, SameTable
  <1>8. OtherTables(t) /\ Held(t)' = Held(t)
    BY <1>2, <1>6, <1>7 DEF IInv, TypeOK, OtherTables, Held
  <1>9. HeldIssued' /\ DetachedApart' /\ UnbornEmpty' /\ CountExact'
    <2>1. Present(t)' \cap Detached(t)' = {} /\ life'[t] # "unborn"
      BY <1>2, <1>6, <1>7 DEF IInv, Slots, DetachedApart
    <2>2. \A h \in Held(t)' : Issued(t, h)'
      BY <1>4, <1>8 DEF Issued
    <2>3. count'[t] = Cardinality(Held(t)') + lost'[t]
      BY <1>2, <1>8 DEF IInv, Slots, CountExact
    <2> QED BY Zenon, <1>8, <2>1, <2>2, <2>3, OneTable DEF IInv
  <1> QED BY <1>2, <1>4, <1>5, <1>6, <1>7, <1>9 DEF IInv, TypeOK, Slots

----------------------------------------------------------------------------
(* The invariant is inductive *)

LEMMA InitIInv == Init => IInv
  <1> SUFFICES ASSUME Init PROVE IInv
    OBVIOUS
  <1> USE DEF Init
  <1>1. Absent \in Entry /\ NoRecord \in Record
    BY Zenon DEF Absent, Entry, EntryState, NoRecord, Record
  <1>2. IdleBatch \in Batch /\ \A h \in Handles : ~ IdleBatch.rec[h].armed
    BY Zenon, <1>1 DEF IdleBatch, Batch, Phase, NoRecords, NoRecord
  <1>3. \A b \in Batches : Armed(b) = {} /\ batch[b].phase = "idle"
    BY <1>2 DEF Armed, IdleBatch
  <1>4. \A t \in Tables : Present(t) = {} /\ Detached(t) = {} /\ Held(t) = {}
    BY <1>3, DetachedIsArmed DEF Present, Absent, Held
  <1>5. TypeOK
    <2>1. table \in [Tables -> [Handles -> Entry]] /\ batch \in [Batches -> Batch]
      BY <1>1, <1>2
    <2>2. /\ next \in [Tables -> 0 .. (HandleSpace - 1)] /\ count \in [Tables -> 0 .. MaxEntries]
          /\ lost \in [Tables -> Nat]
      BY TableConstants
    <2>3. life \in [Tables -> {"unborn", "live", "cleared"}] /\ restricts \in [Tables -> SUBSET (Handles \X Handles)]
      OBVIOUS
    <2> QED BY <2>1, <2>2, <2>3 DEF TypeOK
  <1>6. BatchShape /\ ActiveHasObject
    BY Zenon, <1>3 DEF BatchShape, ActiveHasObject, Absent
  <1>7. Slots
    BY <1>3, <1>4 DEF Slots, HeldIssued, DetachedApart, TransfersApart, HomeExists, UnbornEmpty, CountExact
  <1> QED BY <1>5, <1>6, <1>7 DEF IInv

LEMMA NextIInv == IInv /\ [Next]_vars => IInv'
  <1> SUFFICES ASSUME IInv, [Next]_vars PROVE IInv'
    OBVIOUS
  <1>1. ASSUME NEW t \in Tables, TableStep(t) PROVE IInv'
    <2>1. CASE Spawn(t)  BY <2>1, SpawnStep
    <2>2. CASE clear(t)  BY <2>2, ClearStep
    <2>3. ASSUME NEW o \in Objects, install_native(t, o) PROVE IInv'
      BY <2>3, InstallStep
    <2>4. ASSUME NEW h \in Handles, close_native(t, h) PROVE IInv'
      BY <2>4, CloseStep
    <2>5. ASSUME NEW h \in Handles, NEW r \in Requests, duplicate_native(t, h, r) PROVE IInv'
      BY <2>5, DuplicateStep
    <2>6. ASSUME NEW h \in Handles, NEW r, restrict_native(t, h, r) PROVE IInv'
      BY <2>6, RestrictStep
    <2>7. ASSUME NEW q \in restricts[t], commit_restrict(t, q[1], q[2]) \/ rollback_restrict(t, q[1], q[2]) PROVE IInv'
      <3>1. q[1] \in Handles /\ q[2] \in Handles
        BY DEF IInv, TypeOK
      <3> QED BY <2>7, <3>1, CommitRestrictStep, RollbackRestrictStep
    <2>8. ASSUME NEW u \in Tables, clone_fork_bindings(t, u) PROVE IInv'
      BY <2>8, CloneStep
    <2> QED BY Zenon, <1>1, <2>1, <2>2, <2>3, <2>4, <2>5, <2>6, <2>7, <2>8 DEF TableStep
  <1>2. ASSUME NEW b \in Batches, BatchStep(b) PROVE IInv'
    <2>1. ASSUME NEW t \in Tables, NEW r \in Requests, NEW moves \in SUBSET Handles, NEW dups \in SUBSET Handles,
                 take_native_batch(b, t, moves, dups, r)
          PROVE  IInv'
      BY <2>1, TakeStep
    <2>2. CASE restore_native_batch(b)  BY Zenon, <2>2, RestoreAllStep DEF restore_native_batch
    <2>3. CASE Enqueue(b) \/ Dispatch(b)  BY <2>3, PhaseStep
    <2>4. CASE commit_native_batch(b)  BY <2>4, CommitStep
    <2>5. CASE Discard(b)  BY <2>5, DiscardStep
    <2>6. ASSUME NEW t \in Tables, reserve_native(b, t) \/ reserve_native_fails(b, t) PROVE IInv'
      BY <2>6, ReserveStep, ReserveFailsStep
    <2>7. CASE rollback_native(b)  BY <2>7, RollbackStep
    <2>8. ASSUME NEW h \in Handles, NEW s \in Handles, activate_native(b, h, s) PROVE IInv'
      BY <2>8, ActivateStep
    <2>9. CASE execute_kernel_dispatch(b)
      BY <2>9, RestoreAllStep, RestoreNoneStep DEF execute_kernel_dispatch
    <2>10. ASSUME NEW h \in Handles, take_object_to_table(b, h) PROVE IInv'
      BY <2>10, KeptByHandlerStep
    <2> QED BY <1>2, <2>1, <2>2, <2>3, <2>4, <2>5, <2>6, <2>7, <2>8, <2>9, <2>10 DEF BatchStep
  <1>3. CASE UNCHANGED vars
    <2>1. /\ TypeOK' /\ BatchShape' /\ ActiveHasObject'
      BY Zenon, <1>3 DEF vars, IInv, TypeOK, BatchShape, ActiveHasObject, Armed, Loaded
    <2>2. /\ \A t \in Tables : Present(t)' = Present(t) /\ Detached(t)' = Detached(t) /\ Held(t)' = Held(t)
          /\ \A b \in Batches : Armed(b)' = Armed(b)
      BY <1>3 DEF vars, Present, Detached, Held, Armed
    <2>3. HeldIssued' /\ DetachedApart' /\ UnbornEmpty' /\ CountExact'
      BY Zenon, <1>3, <2>2 DEF vars, IInv, Slots, HeldIssued, DetachedApart, UnbornEmpty, CountExact, Issued
    <2>4. TransfersApart' /\ HomeExists'
      BY Zenon, <1>3, <2>2 DEF vars, IInv, Slots, TransfersApart, HomeExists
    <2> QED BY <2>1, <2>3, <2>4 DEF IInv, Slots
  <1> QED BY <1>1, <1>2, <1>3 DEF Next

LEMMA AlwaysIInv == Spec => []IInv
  BY InitIInv, NextIInv, PTL DEF Spec

----------------------------------------------------------------------------
(* What it gives *)

\* Every operation of resource_table_t leaves well-formed entries, a counter
\* between 0 and NA_CAPABILITY_MAX_PER_PROCESS and a handle counter in range.
THEOREM TypeCorrect == Spec => []TypeOK
  BY AlwaysIInv, PTL DEF IInv

\* native_entry_count of a running process is exactly the number of its
\* entries, detached nodes and discarded nodes, for any number of processes,
\* transfers and handles and any limit.
THEOREM SlotsAccounted == Spec => []CountExact
  <1>1. IInv => CountExact
    BY DEF IInv, Slots
  <1> QED BY <1>1, AlwaysIInv, PTL

\* A submitting call that must undo take_native_batch finds every slot free
\* and every resource in place, and two transfers never own the same slot.
THEOREM RestoreSucceeds == Spec => []RestoreNeverRefused
  <1>1. ASSUME IInv, NEW b \in Batches, batch[b].phase = "taken"
        PROVE  Restorable(b)
    <2>1. batch[b].from \in Tables /\ Armed(b) \subseteq Loaded(b)
      BY <1>1 DEF IInv, BatchShape
    <2>2. Armed(b) \subseteq Detached(batch[b].from)
      BY DEF Armed, Detached
    <2>3. Present(batch[b].from) \cap Detached(batch[b].from) = {}
      BY <1>1, <2>1 DEF IInv, Slots, DetachedApart
    <2> QED BY <2>1, <2>2, <2>3 DEF Restorable, Loaded
  <1>2. IInv => RestoreNeverRefused
    BY Zenon, <1>1 DEF RestoreNeverRefused, IInv, Slots, TransfersApart
  <1> QED BY <1>2, AlwaysIInv, PTL

=============================================================================
