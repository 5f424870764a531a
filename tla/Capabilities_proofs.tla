------------------------ MODULE Capabilities_proofs ------------------------
(***************************************************************************)
(* What the holders of a capability rely on: the slots that a receive or a *)
(* restriction has reserved stay its own, no operation amplifies rights,   *)
(* and a unique capability is in one place.                                *)
(*                                                                         *)
(* Reservations adds to ReservedSlotsIntact that the slots of different    *)
(* receives are apart, that the pairs of different restrictions are apart, *)
(* and that a table without a running process has neither: without the     *)
(* first two, one call would activate or drop the slot of another.         *)
(* Grants adds to HeldAsGranted the rights that wait in a detached node,   *)
(* which a restore puts back, and those of a reserved replacement, which   *)
(* a commit gives the object of its source.                                *)
(***************************************************************************)
EXTENDS ResourceTable_proofs

Receiving(b) == batch[b].phase \in {"receiving", "activating"} /\ life[batch[b].to] = "live"

SlotsReserved ==
  \A b \in Batches : Receiving(b) =>
    /\ Cardinality(batch[b].slots) = Cardinality(Loaded(b))
    /\ \A s \in batch[b].slots : table[batch[b].to][s] = Reserved
    /\ \A p \in restricts[batch[b].to] : p[2] \notin batch[b].slots

SlotsApart ==
  \A b, c \in Batches : b # c /\ Receiving(b) /\ Receiving(c) /\ batch[b].to = batch[c].to =>
    batch[b].slots \cap batch[c].slots = {}

ReceiverBorn ==
  \A b \in Batches : batch[b].phase \in {"receiving", "activating"} => life[batch[b].to] # "unborn"

PairsPrepared ==
  \A t \in Tables : \A p \in restricts[t] : Prepared(t, p[1], p[2])

PairsApart ==
  \A t \in Tables : \A p, q \in restricts[t] : p # q => p[1] # q[1] /\ p[2] # q[2]

PairsOfLive ==
  \A t \in Tables : life[t] # "live" => restricts[t] = {}

Reservations == SlotsReserved /\ SlotsApart /\ ReceiverBorn /\ PairsPrepared /\ PairsApart /\ PairsOfLive

\* Rights over an object within what was granted.
Within(o, rights) == o # NoObject => rights \subseteq Granted[o]

EntriesWithin == \A t \in Tables, h \in Handles : Within(table[t][h].obj, table[t][h].rights)

RecordsWithin ==
  \A b \in Batches, h \in Handles : /\ Within(batch[b].rec[h].obj, batch[b].rec[h].rights)
                                    /\ Within(batch[b].rec[h].obj, batch[b].rec[h].orig)

PairsWithin ==
  \A t \in Tables : \A p \in restricts[t] : Within(table[t][p[1]].obj, table[t][p[2]].rights)

\* The entries and the records that hold o.
Entries(o) == {p \in Tables \X Handles : table[p[1]][p[2]].obj = o}
Records(o) == {p \in Batches \X Handles : batch[p[1]].rec[p[2]].obj = o}

OnePlace ==
  \A o \in Unique \ Inheritable :
    /\ \A p, q \in Entries(o) : p = q
    /\ \A p, q \in Records(o) : p = q
    /\ Entries(o) = {} \/ Records(o) = {}

Grants == EntriesWithin /\ RecordsWithin /\ PairsWithin /\ OnePlace

----------------------------------------------------------------------------
(* Reservations *)

LEMMA BatchTyped ==
  ASSUME IInv, NEW b \in Batches
  PROVE  /\ batch[b] \in Batch /\ batch[b].slots \subseteq Handles /\ Loaded(b) \subseteq Handles
         /\ batch[b].phase \in {"receiving", "activating"} => batch[b].to \in Tables
  BY DEF IInv, TypeOK, BatchShape, Batch, Loaded

\* A step that leaves the reserved and the hidden entries, the pairs and what
\* a receive expects alone.
LEMMA ReservationsKept ==
  ASSUME IInv, Reservations, UNCHANGED <<life, restricts>>,
         \A t \in Tables, h \in Handles :
           table[t][h].st \in {"reserved", "restricting"} => table'[t][h] = table[t][h],
         \A b \in Batches : batch'[b].phase \in {"receiving", "activating"} =>
           /\ batch[b].phase \in {"receiving", "activating"}
           /\ batch'[b].to = batch[b].to /\ batch'[b].slots = batch[b].slots /\ Loaded(b)' = Loaded(b)
  PROVE  Reservations'
  <1>1. \A b \in Batches : Receiving(b)' => Receiving(b) /\ batch[b].to \in Tables /\ batch[b].slots \subseteq Handles
    BY BatchTyped DEF Receiving
  <1>2. \A t \in Tables : restricts[t] \subseteq Handles \X Handles
    BY DEF IInv, TypeOK
  <1>3. SlotsReserved'
    <2> SUFFICES ASSUME NEW b \in Batches, Receiving(b)'
                 PROVE  /\ Cardinality(batch'[b].slots) = Cardinality(Loaded(b)')
                        /\ \A s \in batch'[b].slots : table'[batch'[b].to][s] = Reserved
                        /\ \A p \in restricts'[batch'[b].to] : p[2] \notin batch'[b].slots
      BY Zenon DEF SlotsReserved, Reserved
    <2>1. /\ Receiving(b) /\ batch[b].to \in Tables /\ batch[b].slots \subseteq Handles
          /\ batch'[b].to = batch[b].to /\ batch'[b].slots = batch[b].slots /\ Loaded(b)' = Loaded(b)
      BY <1>1 DEF Receiving
    <2>2. /\ Cardinality(batch[b].slots) = Cardinality(Loaded(b))
          /\ \A s \in batch[b].slots : table[batch[b].to][s] = Reserved
          /\ \A p \in restricts[batch[b].to] : p[2] \notin batch[b].slots
      BY <2>1 DEF Reservations, SlotsReserved
    <2>3. \A s \in batch[b].slots : table'[batch[b].to][s] = Reserved
      <3> SUFFICES ASSUME NEW s \in batch[b].slots PROVE table'[batch[b].to][s] = Reserved
        OBVIOUS
      <3>0. Reserved.st = "reserved"
        BY DEF Reserved
      <3>1. table[batch[b].to][s] = Reserved /\ table[batch[b].to][s].st = "reserved"
        BY <2>2, <3>0, Zenon
      <3>2. s \in Handles /\ batch[b].to \in Tables
        BY <2>1
      <3> HIDE <2>1, <2>2
      <3>3. table'[batch[b].to][s] = table[batch[b].to][s]
        BY <3>1, <3>2
      <3> QED BY <3>1, <3>3
    <2> QED BY <2>1, <2>2, <2>3
  <1>4. SlotsApart' /\ ReceiverBorn'
    BY <1>1 DEF Reservations, SlotsApart, ReceiverBorn, Receiving
  <1>5. PairsPrepared'
    BY <1>2 DEF Reservations, PairsPrepared, Prepared
  <1>6. PairsApart' /\ PairsOfLive'
    BY DEF Reservations, PairsApart, PairsOfLive
  <1> QED BY <1>3, <1>4, <1>5, <1>6 DEF Reservations

\* A free slot is filled, an active entry changes: the operations that reserve
\* nothing.
LEMMA ReservationsOfTable ==
  ASSUME IInv, Reservations, NEW t \in Tables,
         \/ \E o \in Objects : install_native(t, o)
         \/ \E h \in Handles : close_native(t, h)
         \/ \E h \in Handles, r \in Requests : duplicate_native(t, h, r)
  PROVE  Reservations'
  <1>1. table \in [Tables -> [Handles -> Entry]]
    BY DEF IInv, TypeOK
  <1>2. ASSUME NEW e, CanAllocate(t), Insert(t, e), UNCHANGED <<life, restricts, batch>> PROVE Reservations'
    <2>1. next[t] \in Handles /\ table[t][next[t]].st = "absent"
      BY <1>2, NewHandle DEF Held, Present
    <2>2. \A u \in Tables, g \in Handles :
            table[u][g].st \in {"reserved", "restricting"} => table'[u][g] = table[u][g]
      BY <1>1, <1>2, <2>1 DEF Insert
    <2> QED BY <1>2, <2>2, ReservationsKept DEF Loaded
  <1>3. ASSUME NEW h \in Handles, close_native(t, h) PROVE Reservations'
    <2>1. \A u \in Tables, g \in Handles :
            table[u][g].st \in {"reserved", "restricting"} => table'[u][g] = table[u][g]
      BY <1>1, <1>3 DEF close_native
    <2> QED BY <1>3, <2>1, ReservationsKept DEF close_native, Loaded
  <1> QED BY Zenon, <1>2, <1>3 DEF install_native, duplicate_native

LEMMA ReservationsOfSpawn ==
  ASSUME IInv, Reservations, NEW t \in Tables, Spawn(t)
  PROVE  Reservations'
  <1>1. life' = [life EXCEPT ![t] = "live"] /\ life[t] = "unborn" /\ UNCHANGED <<table, restricts, batch>>
    BY DEF Spawn
  <1>2. life \in [Tables -> {"unborn", "live", "cleared"}]
    BY DEF IInv, TypeOK
  <1>3. \A b \in Batches : Receiving(b)' <=> Receiving(b)
    BY <1>1, <1>2, BatchTyped DEF Receiving, Reservations, ReceiverBorn
  <1>4. SlotsReserved' /\ SlotsApart'
    BY <1>1, <1>3 DEF Reservations, SlotsReserved, SlotsApart, Loaded
  <1>5. ReceiverBorn'
    BY <1>1, <1>2, BatchTyped DEF Reservations, ReceiverBorn
  <1>6. PairsPrepared' /\ PairsApart' /\ PairsOfLive'
    BY <1>1, <1>2 DEF Reservations, PairsPrepared, Prepared, PairsApart, PairsOfLive
  <1> QED BY <1>4, <1>5, <1>6 DEF Reservations

LEMMA ReservationsOfClone ==
  ASSUME IInv, Reservations, NEW t \in Tables, NEW u \in Tables, clone_fork_bindings(t, u)
  PROVE  Reservations'
  <1>1. /\ life' = [life EXCEPT ![u] = "live"] /\ life[u] = "unborn" /\ UNCHANGED <<restricts, batch>>
        /\ \A v \in Tables \ {u} : table'[v] = table[v]
    BY DEF clone_fork_bindings, IInv, TypeOK
  <1>2. life \in [Tables -> {"unborn", "live", "cleared"}]
    BY DEF IInv, TypeOK
  <1>3. \A b \in Batches : Receiving(b)' => Receiving(b) /\ batch[b].to # u /\ batch[b].to \in Tables
    BY <1>1, <1>2, BatchTyped DEF Receiving, Reservations, ReceiverBorn
  <1>4. SlotsReserved' /\ SlotsApart'
    BY <1>1, <1>3 DEF Reservations, SlotsReserved, SlotsApart, Loaded
  <1>5. ReceiverBorn'
    BY <1>1, <1>2, BatchTyped DEF Reservations, ReceiverBorn
  <1>6. restricts[u] = {}
    BY <1>1 DEF Reservations, PairsOfLive
  <1>7. PairsPrepared' /\ PairsApart' /\ PairsOfLive'
    BY <1>1, <1>2, <1>6 DEF Reservations, PairsPrepared, Prepared, PairsApart, PairsOfLive
  <1> QED BY <1>4, <1>5, <1>7 DEF Reservations

LEMMA ReservationsOfClear ==
  ASSUME IInv, Reservations, NEW t \in Tables, clear(t)
  PROVE  Reservations'
  <1>1. /\ life' = [life EXCEPT ![t] = "cleared"] /\ batch' = batch
        /\ restricts' = [restricts EXCEPT ![t] = {}]
        /\ \A v \in Tables \ {t} : table'[v] = table[v]
    BY DEF clear, IInv, TypeOK
  <1>2. /\ life \in [Tables -> {"unborn", "live", "cleared"}]
        /\ restricts \in [Tables -> SUBSET (Handles \X Handles)]
    BY DEF IInv, TypeOK
  <1>3. \A b \in Batches : Receiving(b)' => Receiving(b) /\ batch[b].to # t /\ batch[b].to \in Tables
    BY <1>1, <1>2, BatchTyped DEF Receiving
  <1>4. SlotsReserved' /\ SlotsApart'
    BY <1>1, <1>2, <1>3 DEF Reservations, SlotsReserved, SlotsApart, Loaded
  <1>5. ReceiverBorn'
    BY <1>1, <1>2, BatchTyped DEF Reservations, ReceiverBorn
  <1>6. PairsPrepared' /\ PairsApart' /\ PairsOfLive'
    BY <1>1, <1>2 DEF Reservations, PairsPrepared, Prepared, PairsApart, PairsOfLive
  <1> QED BY <1>4, <1>5, <1>6 DEF Reservations

\* The new slot of a restriction is no slot of a receive and of no other
\* pair, since those are present, and its source was active.
LEMMA ReservationsOfRestrict ==
  ASSUME IInv, Reservations, NEW t \in Tables, NEW h \in Handles, NEW r, restrict_native(t, h, r)
  PROVE  Reservations'
  <1> DEFINE n == next[t]
  <1>1. n \in Handles /\ table[t][n].st = "absent" /\ table[t][h].st = "active" /\ life[t] = "live"
        /\ table[t][h].obj # NoObject /\ n # h
    BY NewHandle DEF restrict_native, Held, Present, IInv, ActiveHasObject
  <1>2. /\ table \in [Tables -> [Handles -> Entry]]
        /\ restricts \in [Tables -> SUBSET (Handles \X Handles)]
    BY DEF IInv, TypeOK
  <1>3. /\ UNCHANGED <<life, batch>>
        /\ restricts' = [restricts EXCEPT ![t] = @ \cup {<<h, n>>}]
        /\ table'[t][n].st = "reserved" /\ table'[t][h].st = "restricting" /\ table'[t][h].obj = table[t][h].obj
        /\ \A u \in Tables, g \in Handles : u # t \/ g \notin {h, n} => table'[u][g] = table[u][g]
    BY <1>1, <1>2 DEF restrict_native, Entry
  <1> HIDE DEF n
  <1>4. \A b \in Batches : Receiving(b) => batch[b].to \in Tables /\ batch[b].slots \subseteq Handles
    BY BatchTyped DEF Receiving
  <1>5. \A b \in Batches : Receiving(b) /\ batch[b].to = t => h \notin batch[b].slots /\ n \notin batch[b].slots
    BY <1>1 DEF Reservations, SlotsReserved, Reserved
  <1>6. \A p \in restricts[t] : /\ p[1] \in Handles /\ p[2] \in Handles
                                /\ p[1] \notin {h, n} /\ p[2] \notin {h, n}
    BY <1>1, <1>2 DEF Reservations, PairsPrepared, Prepared
  <1>7. SlotsReserved'
    <2> SUFFICES ASSUME NEW b \in Batches, Receiving(b)'
                 PROVE  /\ Cardinality(batch[b].slots) = Cardinality(Loaded(b))
                        /\ \A s \in batch[b].slots : table'[batch[b].to][s] = Reserved
                        /\ \A p \in restricts'[batch[b].to] : p[2] \notin batch[b].slots
      BY Zenon, <1>3 DEF SlotsReserved, Reserved, Loaded
    <2>1. Receiving(b)
      BY <1>3 DEF Receiving
    <2>2. /\ Cardinality(batch[b].slots) = Cardinality(Loaded(b))
          /\ \A s \in batch[b].slots : table[batch[b].to][s] = Reserved
          /\ \A p \in restricts[batch[b].to] : p[2] \notin batch[b].slots
      BY <2>1 DEF Reservations, SlotsReserved
    <2>3. \A s \in batch[b].slots : table'[batch[b].to][s] = Reserved
      BY <1>3, <1>4, <1>5, <2>1, <2>2
    <2>4. \A p \in restricts'[batch[b].to] : p[2] \notin batch[b].slots
      BY <1>2, <1>3, <1>4, <1>5, <2>1, <2>2
    <2> QED BY <2>2, <2>3, <2>4
  <1>8. SlotsApart' /\ ReceiverBorn'
    BY <1>3 DEF Reservations, SlotsApart, ReceiverBorn, Receiving
  <1>9. PairsPrepared'
    <2> SUFFICES ASSUME NEW u \in Tables, NEW p \in restricts'[u] PROVE Prepared(u, p[1], p[2])'
      BY DEF PairsPrepared
    <2>1. CASE u = t /\ p = <<h, n>>
      BY <1>1, <1>3, <2>1 DEF Prepared
    <2>2. CASE p \in restricts[u]
      <3>1. Prepared(u, p[1], p[2]) /\ p[1] \in Handles /\ p[2] \in Handles
        BY <1>2, <2>2 DEF Reservations, PairsPrepared
      <3> QED BY <1>3, <1>6, <2>2, <3>1 DEF Prepared
    <2> QED BY <1>2, <1>3, <2>1, <2>2
  <1>10. PairsApart'
    BY <1>2, <1>3, <1>6 DEF Reservations, PairsApart
  <1>11. PairsOfLive'
    BY <1>1, <1>2, <1>3 DEF Reservations, PairsOfLive
  <1> QED BY <1>7, <1>8, <1>9, <1>10, <1>11 DEF Reservations

\* The two slots of the pair that ends are in no other pair and no receive.
LEMMA ReservationsOfPair ==
  ASSUME IInv, Reservations, NEW t \in Tables, NEW p \in restricts[t],
         commit_restrict(t, p[1], p[2]) \/ rollback_restrict(t, p[1], p[2])
  PROVE  Reservations'
  <1>1. /\ table \in [Tables -> [Handles -> Entry]]
        /\ restricts \in [Tables -> SUBSET (Handles \X Handles)]
        /\ p[1] \in Handles /\ p[2] \in Handles /\ p = <<p[1], p[2]>>
    BY DEF IInv, TypeOK
  <1>2. /\ UNCHANGED <<life, batch>> /\ life[t] = "live"
        /\ restricts' = [restricts EXCEPT ![t] = @ \ {p}]
        /\ \A u \in Tables, g \in Handles : u # t \/ g \notin {p[1], p[2]} => table'[u][g] = table[u][g]
    <2>1. CASE commit_restrict(t, p[1], p[2])
      BY Zenon, <1>1, <2>1 DEF commit_restrict
    <2>2. CASE rollback_restrict(t, p[1], p[2])
      BY Zenon, <1>1, <2>2 DEF rollback_restrict
    <2> QED BY <2>1, <2>2
  <1>3. \A b \in Batches : Receiving(b) => batch[b].to \in Tables /\ batch[b].slots \subseteq Handles
    BY BatchTyped DEF Receiving
  <1>4. \A b \in Batches : Receiving(b) /\ batch[b].to = t => p[1] \notin batch[b].slots /\ p[2] \notin batch[b].slots
    BY DEF Reservations, SlotsReserved, PairsPrepared, Prepared, Reserved
  <1>5. \A q \in restricts[t] \ {p} : /\ q[1] \in Handles /\ q[2] \in Handles
                                      /\ q[1] \notin {p[1], p[2]} /\ q[2] \notin {p[1], p[2]}
    BY <1>1 DEF Reservations, PairsApart, PairsPrepared, Prepared
  <1>6. SlotsReserved'
    <2> SUFFICES ASSUME NEW b \in Batches, Receiving(b)'
                 PROVE  /\ Cardinality(batch[b].slots) = Cardinality(Loaded(b))
                        /\ \A s \in batch[b].slots : table'[batch[b].to][s] = Reserved
                        /\ \A q \in restricts'[batch[b].to] : q[2] \notin batch[b].slots
      BY Zenon, <1>2 DEF SlotsReserved, Reserved, Loaded
    <2>1. Receiving(b)
      BY <1>2 DEF Receiving
    <2>2. /\ Cardinality(batch[b].slots) = Cardinality(Loaded(b))
          /\ \A s \in batch[b].slots : table[batch[b].to][s] = Reserved
          /\ \A q \in restricts[batch[b].to] : q[2] \notin batch[b].slots
      BY <2>1 DEF Reservations, SlotsReserved
    <2>3. \A s \in batch[b].slots : table'[batch[b].to][s] = Reserved
      BY <1>2, <1>3, <1>4, <2>1, <2>2
    <2>4. \A q \in restricts'[batch[b].to] : q[2] \notin batch[b].slots
      BY <1>1, <1>2, <1>3, <2>1, <2>2
    <2> QED BY <2>2, <2>3, <2>4
  <1>7. SlotsApart' /\ ReceiverBorn'
    BY <1>2 DEF Reservations, SlotsApart, ReceiverBorn, Receiving
  <1>8. PairsPrepared'
    <2> SUFFICES ASSUME NEW u \in Tables, NEW q \in restricts'[u] PROVE Prepared(u, q[1], q[2])'
      BY DEF PairsPrepared
    <2>1. q \in restricts[u] /\ (u = t => q # p)
      BY <1>1, <1>2
    <2>2. Prepared(u, q[1], q[2]) /\ q[1] \in Handles /\ q[2] \in Handles
      BY <1>1, <2>1 DEF Reservations, PairsPrepared
    <2> QED BY <1>2, <1>5, <2>1, <2>2 DEF Prepared
  <1>9. PairsApart' /\ PairsOfLive'
    BY <1>1, <1>2 DEF Reservations, PairsApart, PairsOfLive
  <1> QED BY <1>6, <1>7, <1>8, <1>9 DEF Reservations

\* The new slots of a receive were free, so they are apart from all others.
LEMMA ReservationsOfReserve ==
  ASSUME IInv, Reservations, NEW b \in Batches, NEW t \in Tables, reserve_native(b, t)
  PROVE  Reservations'
  <1> DEFINE n == Cardinality(Loaded(b))
             new == {h \in Handles : next[t] <= h /\ h < next[t] + n}
  <1>1. n \in Nat /\ n <= Room(t) /\ count[t] + n <= MaxEntries
    BY HandlesFinite, BatchTyped DEF reserve_native
  <1>2. /\ new \subseteq Handles /\ Cardinality(new) = n /\ new \cap Held(t) = {}
    BY <1>1, NewHandles
  <1>3. /\ table \in [Tables -> [Handles -> Entry]] /\ batch \in [Batches -> Batch]
        /\ restricts \in [Tables -> SUBSET (Handles \X Handles)]
    BY DEF IInv, TypeOK
  <1>4. /\ UNCHANGED <<life, restricts>> /\ life[t] = "live" /\ batch[b].phase = "queued"
        /\ \A g \in new : table'[t][g] = Reserved
        /\ \A u \in Tables, g \in Handles : u # t \/ g \notin new => table'[u][g] = table[u][g]
    BY <1>3 DEF reserve_native
  <1>5. /\ batch' = [batch EXCEPT ![b].phase = "receiving", ![b].to = t, ![b].slots = new]
        /\ batch'[b].to = t /\ batch'[b].slots = new /\ batch'[b].rec = batch[b].rec
        /\ batch'[b].phase = "receiving" /\ \A c \in Batches \ {b} : batch'[c] = batch[c]
    <2>1. batch' = [batch EXCEPT ![b].phase = "receiving", ![b].to = t, ![b].slots = new]
      BY DEF reserve_native
    <2> HIDE DEF new
    <2> QED BY <1>3, <2>1 DEF Batch
  <1> HIDE DEF new
  <1>6. Loaded(b)' = Loaded(b) /\ \A c \in Batches \ {b} : Loaded(c)' = Loaded(c) /\ (Receiving(c)' <=> Receiving(c))
    BY Zenon, <1>4, <1>5 DEF Loaded, Receiving
  <1> HIDE DEF n
  <1>7. \A g \in new : table[t][g].st = "absent"
    BY <1>2 DEF Held, Present
  <1>8. \A c \in Batches \ {b} : Receiving(c) =>
          /\ batch[c].to \in Tables /\ batch[c].slots \subseteq Handles
          /\ batch[c].to = t => batch[c].slots \cap new = {}
    BY <1>7, BatchTyped DEF Receiving, Reservations, SlotsReserved, Reserved
  <1>9. SlotsReserved'
    <2> SUFFICES ASSUME NEW c \in Batches, Receiving(c)'
                 PROVE  /\ Cardinality(batch'[c].slots) = Cardinality(Loaded(c)')
                        /\ \A s \in batch'[c].slots : table'[batch'[c].to][s] = Reserved
                        /\ \A p \in restricts'[batch'[c].to] : p[2] \notin batch'[c].slots
      BY Zenon DEF SlotsReserved, Reserved
    <2>1. CASE c = b
      <3>1. \A p \in restricts[t] : p[2] \notin new
        BY <1>7 DEF Reservations, PairsPrepared, Prepared
      <3> QED BY ZenonT(30), <1>2, <1>4, <1>5, <1>6, <2>1, <3>1 DEF n
    <2>2. CASE c # b
      <3>1. Receiving(c) /\ batch'[c] = batch[c] /\ Loaded(c)' = Loaded(c)
        BY Zenon, <1>5, <1>6, <2>2
      <3>2. /\ Cardinality(batch[c].slots) = Cardinality(Loaded(c))
            /\ \A s \in batch[c].slots : table[batch[c].to][s] = Reserved
            /\ \A p \in restricts[batch[c].to] : p[2] \notin batch[c].slots
        BY <3>1 DEF Reservations, SlotsReserved
      <3>3. \A s \in batch[c].slots : table'[batch[c].to][s] = Reserved
        BY <1>4, <1>8, <2>2, <3>1, <3>2
      <3> QED BY <1>4, <3>1, <3>2, <3>3
    <2> QED BY <2>1, <2>2
  <1>10. SlotsApart'
    <2> SUFFICES ASSUME NEW c \in Batches, NEW d \in Batches, c # d, Receiving(c)', Receiving(d)', batch'[c].to = batch'[d].to
                 PROVE  batch'[c].slots \cap batch'[d].slots = {}
      BY DEF SlotsApart
    <2>1. CASE c # b /\ d # b
      <3>1. Receiving(c) /\ Receiving(d) /\ batch'[c] = batch[c] /\ batch'[d] = batch[d]
        BY Zenon, <1>5, <1>6, <2>1
      <3> QED BY <3>1 DEF Reservations, SlotsApart
    <2>2. CASE c = b
      BY Zenon, <1>5, <1>6, <1>8, <2>2
    <2>3. CASE d = b
      BY Zenon, <1>5, <1>6, <1>8, <2>3
    <2> QED BY <2>1, <2>2, <2>3
  <1>11. ReceiverBorn'
    <2> SUFFICES ASSUME NEW c \in Batches, batch'[c].phase \in {"receiving", "activating"}
                 PROVE  life'[batch'[c].to] # "unborn"
      BY DEF ReceiverBorn
    <2>1. CASE c = b
      BY <1>4, <1>5, <2>1
    <2>2. CASE c # b
      <3>1. batch'[c] = batch[c]
        BY Zenon, <1>5, <2>2
      <3> QED BY <1>4, <3>1 DEF Reservations, ReceiverBorn
    <2> QED BY <2>1, <2>2
  <1>12. PairsPrepared'
    <2>1. \A u \in Tables : \A p \in restricts[u] :
            p[1] \in Handles /\ p[2] \in Handles /\ (u = t => p[1] \notin new /\ p[2] \notin new)
      BY <1>3, <1>7 DEF Reservations, PairsPrepared, Prepared
    <2> QED BY <1>4, <2>1 DEF Reservations, PairsPrepared, Prepared
  <1>13. PairsApart' /\ PairsOfLive'
    BY <1>4 DEF Reservations, PairsApart, PairsOfLive
  <1> QED BY <1>9, <1>10, <1>11, <1>12, <1>13 DEF Reservations

\* A receive gives up or fills slots of its own.
LEMMA ReservationsOfReceiver ==
  ASSUME IInv, Reservations, NEW b \in Batches, NEW gone, Receiving(b), gone \subseteq batch[b].slots,
         UNCHANGED <<life, restricts>>,
         \A u \in Tables, g \in Handles : u # batch[b].to \/ g \notin gone => table'[u][g] = table[u][g],
         \A c \in Batches \ {b} : batch'[c] = batch[c],
         batch'[b].phase \in {"receiving", "activating"} =>
           /\ batch'[b].to = batch[b].to /\ batch'[b].slots = batch[b].slots \ gone
           /\ Cardinality(batch'[b].slots) = Cardinality(Loaded(b)')
  PROVE  Reservations'
  <1> DEFINE t == batch[b].to
  <1>1. t \in Tables /\ batch[b].slots \subseteq Handles /\ gone \subseteq Handles
    BY BatchTyped DEF Receiving
  <1>2. restricts \in [Tables -> SUBSET (Handles \X Handles)]
    BY DEF IInv, TypeOK
  <1>3. \A c \in Batches : Receiving(c)' =>
          /\ Receiving(c) /\ batch[c].to \in Tables /\ batch[c].slots \subseteq Handles
          /\ batch'[c].to = batch[c].to /\ batch'[c].slots \subseteq batch[c].slots
          /\ batch[c].to = t => batch'[c].slots \cap gone = {}
          /\ Cardinality(batch'[c].slots) = Cardinality(Loaded(c)')
    <2> SUFFICES ASSUME NEW c \in Batches, Receiving(c)'
                 PROVE  /\ Receiving(c) /\ batch[c].to \in Tables /\ batch[c].slots \subseteq Handles
                        /\ batch'[c].to = batch[c].to /\ batch'[c].slots \subseteq batch[c].slots
                        /\ batch[c].to = t => batch'[c].slots \cap gone = {}
                        /\ Cardinality(batch'[c].slots) = Cardinality(Loaded(c)')
      OBVIOUS
    <2>1. CASE c = b
      BY <1>1, <2>1 DEF Receiving
    <2>2. CASE c # b
      <3>1. Receiving(c) /\ batch'[c] = batch[c] /\ Loaded(c)' = Loaded(c)
        BY <2>2 DEF Receiving, Loaded
      <3>2. batch[c].to = t => batch[c].slots \cap gone = {}
        BY <2>2, <3>1 DEF Reservations, SlotsApart
      <3>3. Cardinality(batch[c].slots) = Cardinality(Loaded(c))
        BY <3>1 DEF Reservations, SlotsReserved
      <3>4. batch[c].to \in Tables /\ batch[c].slots \subseteq Handles
        BY <3>1, BatchTyped DEF Receiving
      <3> QED BY <3>1, <3>2, <3>3, <3>4
    <2> QED BY <2>1, <2>2
  <1>4. SlotsReserved'
    <2> SUFFICES ASSUME NEW c \in Batches, Receiving(c)'
                 PROVE  /\ Cardinality(batch'[c].slots) = Cardinality(Loaded(c)')
                        /\ \A s \in batch'[c].slots : table'[batch'[c].to][s] = Reserved
                        /\ \A p \in restricts'[batch'[c].to] : p[2] \notin batch'[c].slots
      BY Zenon DEF SlotsReserved, Reserved
    <2>1. /\ Receiving(c) /\ batch[c].to \in Tables /\ batch[c].slots \subseteq Handles
          /\ batch'[c].to = batch[c].to /\ batch'[c].slots \subseteq batch[c].slots
          /\ batch[c].to = t => batch'[c].slots \cap gone = {}
          /\ Cardinality(batch'[c].slots) = Cardinality(Loaded(c)')
      BY <1>3
    <2>2. /\ \A s \in batch[c].slots : table[batch[c].to][s] = Reserved
          /\ \A p \in restricts[batch[c].to] : p[2] \notin batch[c].slots
      BY <2>1 DEF Reservations, SlotsReserved
    <2>3. \A s \in batch'[c].slots : table'[batch[c].to][s] = table[batch[c].to][s]
      BY <2>1
    <2> QED BY <2>1, <2>2, <2>3
  <1>5. SlotsApart'
    <2> SUFFICES ASSUME NEW c \in Batches, NEW d \in Batches, c # d, Receiving(c)', Receiving(d)', batch'[c].to = batch'[d].to
                 PROVE  batch'[c].slots \cap batch'[d].slots = {}
      BY DEF SlotsApart
    <2>1. /\ Receiving(c) /\ Receiving(d) /\ batch[c].to = batch[d].to
          /\ batch'[c].slots \subseteq batch[c].slots /\ batch'[d].slots \subseteq batch[d].slots
      BY <1>3
    <2>2. batch[c].slots \cap batch[d].slots = {}
      BY <2>1 DEF Reservations, SlotsApart
    <2> QED BY <2>1, <2>2
  <1>6. ReceiverBorn'
    <2> SUFFICES ASSUME NEW c \in Batches, batch'[c].phase \in {"receiving", "activating"}
                 PROVE  life'[batch'[c].to] # "unborn"
      BY DEF ReceiverBorn
    <2>1. CASE c = b
      BY <2>1 DEF Receiving
    <2>2. CASE c # b
      BY <2>2 DEF Reservations, ReceiverBorn
    <2> QED BY <2>1, <2>2
  <1>7. PairsPrepared'
    <2>1. \A u \in Tables : \A p \in restricts[u] :
            p[1] \in Handles /\ p[2] \in Handles /\ (u = t => p[1] \notin gone /\ p[2] \notin gone)
      BY <1>2 DEF Reservations, PairsPrepared, Prepared, SlotsReserved, Reserved
    <2>2. \A u \in Tables : \A p \in restricts[u] : table'[u][p[1]] = table[u][p[1]] /\ table'[u][p[2]] = table[u][p[2]]
      BY <2>1
    <2> QED BY <2>2 DEF Reservations, PairsPrepared, Prepared
  <1>8. PairsApart' /\ PairsOfLive'
    BY DEF Reservations, PairsApart, PairsOfLive
  <1> QED BY <1>4, <1>5, <1>6, <1>7, <1>8 DEF Reservations

LEMMA ReservationsOfRollback ==
  ASSUME IInv, Reservations, NEW b \in Batches, rollback_native(b)
  PROVE  Reservations'
  <1> DEFINE t == batch[b].to
             gone == {h \in batch[b].slots : table[t][h].st = "reserved"}
  <1>1. Receiving(b) /\ gone \subseteq batch[b].slots /\ UNCHANGED <<life, restricts>> /\ t \in Tables
    BY BatchTyped DEF rollback_native, Receiving
  <1>2. table \in [Tables -> [Handles -> Entry]] /\ batch \in [Batches -> Batch]
    BY DEF IInv, TypeOK
  <1>3. /\ table' = [table EXCEPT ![t] = [h \in Handles |-> IF h \in gone THEN Absent ELSE @[h]]]
        /\ batch' = [batch EXCEPT ![b].phase = "queued", ![b].to = NoTable, ![b].slots = {}]
    BY DEF rollback_native
  <1> HIDE DEF gone, t
  <1>4. /\ \A u \in Tables, g \in Handles : u # t \/ g \notin gone => table'[u][g] = table[u][g]
        /\ batch'[b].phase = "queued" /\ \A c \in Batches \ {b} : batch'[c] = batch[c]
    BY <1>1, <1>2, <1>3 DEF Batch
  <1> QED BY <1>1, <1>4, ReservationsOfReceiver DEF t

LEMMA ReservationsOfActivate ==
  ASSUME IInv, Reservations, NEW b \in Batches, NEW h \in Handles, NEW s \in Handles, activate_native(b, h, s)
  PROVE  Reservations'
  <1> DEFINE t == batch[b].to
             rec == [batch[b].rec EXCEPT ![h].obj = NoObject]
  <1>1. /\ Receiving(b) /\ UNCHANGED <<life, restricts>> /\ t \in Tables
        /\ s \in batch[b].slots /\ h \in Loaded(b) /\ Loaded(b) \subseteq Handles /\ batch[b].slots \subseteq Handles
    BY BatchTyped DEF activate_native, Receiving
  <1>2. table \in [Tables -> [Handles -> Entry]] /\ batch \in [Batches -> Batch]
        /\ batch[b].rec \in [Handles -> Record]
    BY DEF IInv, TypeOK, Batch
  <1>3. \A u \in Tables, g \in Handles : u # t \/ g \notin {s} => table'[u][g] = table[u][g]
    BY <1>1, <1>2 DEF activate_native
  <1>4. batch' = [batch EXCEPT ![b] =
           IF Loaded(b) = {h} THEN Drained(b, rec)
           ELSE [batch[b] EXCEPT !.phase = "activating", !.rec = rec, !.slots = batch[b].slots \ {s}]]
    BY DEF activate_native
  <1>5. rec \in [Handles -> Record] /\ rec[h].obj = NoObject /\ \A g \in Handles \ {h} : rec[g] = batch[b].rec[g]
    <2>1. NoObject \in Objects \cup {NoObject}
      OBVIOUS
    <2> QED BY <1>2, <2>1 DEF Record
  <1> HIDE DEF rec
  <1>6. \A c \in Batches \ {b} : batch'[c] = batch[c]
    BY <1>2, <1>4
  <1>7. ASSUME batch'[b].phase \in {"receiving", "activating"}
        PROVE  /\ batch'[b].to = t /\ batch'[b].slots = batch[b].slots \ {s}
               /\ Cardinality(batch'[b].slots) = Cardinality(Loaded(b)')
    <2>1. /\ batch'[b].to = t /\ batch'[b].slots = batch[b].slots \ {s} /\ batch'[b].rec = rec
      <3>1. Loaded(b) # {h}
        BY <1>2, <1>4, <1>7 DEF Drained, IdleBatch, Batch
      <3> QED BY <1>2, <1>4, <3>1 DEF Batch
    <2>2. Loaded(b)' = Loaded(b) \ {h}
      BY <1>5, <2>1 DEF Loaded
    <2>3. Cardinality(batch[b].slots) = Cardinality(Loaded(b))
      BY <1>1 DEF Reservations, SlotsReserved
    <2>4. IsFiniteSet(Loaded(b)) /\ IsFiniteSet(batch[b].slots)
      BY <1>1, HandlesFinite
    <2>5. /\ Cardinality(batch[b].slots \ {s}) = Cardinality(batch[b].slots) - 1
          /\ Cardinality(Loaded(b) \ {h}) = Cardinality(Loaded(b)) - 1
      BY Zenon, <1>1, <2>4, FS_RemoveElement
    <2> QED BY <2>1, <2>2, <2>3, <2>5
  <1>8. {s} \subseteq batch[b].slots
    BY <1>1
  <1> QED BY Zenon, <1>1, <1>3, <1>6, <1>7, <1>8, ReservationsOfReceiver

\* The other steps of a transfer move active entries and free slots only.
LEMMA ReservationsOfTransfer ==
  ASSUME IInv, Reservations, NEW b \in Batches,
         \/ \E t \in Tables, r \in Requests :
              \E moves, dups \in SUBSET {h \in Handles : Transferable(t, h)} : take_native_batch(b, t, moves, dups, r)
         \/ restore_native_batch(b) \/ Enqueue(b) \/ commit_native_batch(b) \/ Discard(b)
         \/ \E t \in Tables : reserve_native_fails(b, t)
         \/ Dispatch(b) \/ execute_kernel_dispatch(b)
         \/ \E h \in Handles : take_object_to_table(b, h)
  PROVE  Reservations'
  <1> DEFINE TableKept == \A u \in Tables, g \in Handles :
                            table[u][g].st \in {"reserved", "restricting"} => table'[u][g] = table[u][g]
             BatchKept == /\ \A c \in Batches \ {b} : batch'[c] = batch[c]
                          /\ batch'[b].phase \in {"receiving", "activating"} =>
                               /\ batch[b].phase \in {"receiving", "activating"}
                               /\ batch'[b].to = batch[b].to /\ batch'[b].slots = batch[b].slots
                               /\ Loaded(b)' = Loaded(b)
  <1>1. table \in [Tables -> [Handles -> Entry]] /\ batch \in [Batches -> Batch] /\ batch[b] \in Batch
    BY DEF IInv, TypeOK
  <1>2. ASSUME TableKept, BatchKept, UNCHANGED <<life, restricts>> PROVE Reservations'
    <2>1. \A c \in Batches \ {b} : Loaded(c)' = Loaded(c)
      BY Zenon, <1>2 DEF Loaded
    <2> QED BY Zenon, <1>2, <2>1, ReservationsKept
  <1>3. ASSUME NEW t \in Tables, NEW r, NEW moves, NEW dups, take_native_batch(b, t, moves, dups, r),
               moves \subseteq {h \in Handles : Transferable(t, h)}
        PROVE  Reservations'
    <2>1. TableKept
      BY Zenon, <1>1, <1>3 DEF take_native_batch, Transferable
    <2>2. BatchKept
      BY Zenon, <1>1, <1>3 DEF take_native_batch
    <2> HIDE DEF TableKept, BatchKept
    <2> QED BY Zenon, <1>2, <1>3, <2>1, <2>2 DEF take_native_batch
  <1>4. ASSUME RestoreAll(b) \/ RestoreNone(b) PROVE Reservations'
    <2>1. TableKept
      BY <1>1, <1>4 DEF RestoreAll, RestoreNone, Restorable, Present
    <2>2. BatchKept
      <3>1. batch' = [batch EXCEPT ![b] = IdleBatch] /\ IdleBatch.phase = "idle"
        BY Zenon, <1>4 DEF RestoreAll, RestoreNone, IdleBatch
      <3> QED BY <1>1, <3>1
    <2> HIDE DEF TableKept, BatchKept
    <2> QED BY ZenonT(30), <1>2, <1>4, <2>1, <2>2 DEF RestoreAll, RestoreNone
  <1>5. CASE Enqueue(b) \/ Dispatch(b)
    <2>1. BatchKept
      BY <1>1, <1>5 DEF Enqueue, Dispatch, Batch
    <2> HIDE DEF BatchKept
    <2> QED BY <1>2, <1>5, <2>1 DEF Enqueue, Dispatch
  <1>6. CASE commit_native_batch(b)
    <2>1. BatchKept
      <3>1. CASE batch[b].phase = "drained"
        BY ZenonT(20), <1>1, <1>6, <3>1 DEF commit_native_batch, IdleBatch
      <3>2. CASE batch[b].phase # "drained"
        <4> DEFINE rec == [h \in Handles |-> [batch[b].rec[h] EXCEPT !.armed = FALSE]]
        <4>1. batch' = [batch EXCEPT ![b] = [batch[b] EXCEPT !.rec = rec]]
          BY <1>6, <3>2 DEF commit_native_batch
        <4>2. \A h \in Handles : rec[h].obj = batch[b].rec[h].obj
          BY ZenonT(30), <1>1 DEF Batch, Record
        <4> HIDE DEF rec
        <4>3. /\ batch'[b].phase = batch[b].phase /\ batch'[b].to = batch[b].to
              /\ batch'[b].slots = batch[b].slots /\ batch'[b].rec = rec
              /\ \A c \in Batches \ {b} : batch'[c] = batch[c]
          BY <1>1, <4>1 DEF Batch
        <4> QED BY Zenon, <4>2, <4>3 DEF Loaded
      <3> QED BY Zenon, <3>1, <3>2
    <2> HIDE DEF BatchKept
    <2> QED BY <1>2, <1>6, <2>1 DEF commit_native_batch
  <1>7. CASE Discard(b)
    <2>1. BatchKept
      BY <1>1, <1>7 DEF Discard, Drained, IdleBatch, Batch
    <2> HIDE DEF BatchKept
    <2> QED BY <1>2, <1>7, <2>1 DEF Discard
  <1>8. ASSUME NEW t \in Tables, reserve_native_fails(b, t) PROVE Reservations'
    <2>1. UNCHANGED <<table, batch, life, restricts>>
      BY Zenon, <1>8 DEF reserve_native_fails
    <2> QED BY ZenonT(20), <1>2, <2>1 DEF Loaded
  <1>9. ASSUME NEW h \in Handles, take_object_to_table(b, h) PROVE Reservations'
    <2>1. BatchKept
      BY <1>1, <1>9 DEF take_object_to_table, Batch
    <2> HIDE DEF BatchKept
    <2> QED BY <1>2, <1>9, <2>1 DEF take_object_to_table
  <1> QED BY <1>3, <1>4, <1>5, <1>6, <1>7, <1>8, <1>9 DEF restore_native_batch, execute_kernel_dispatch

LEMMA NextReservations == IInv /\ Reservations /\ [Next]_vars => Reservations'
  <1> SUFFICES ASSUME IInv, Reservations, [Next]_vars PROVE Reservations'
    BY Zenon
  <1>1. ASSUME NEW t \in Tables, TableStep(t) PROVE Reservations'
    BY Zenon, <1>1, ReservationsOfTable, ReservationsOfSpawn, ReservationsOfClone, ReservationsOfClear,
       ReservationsOfRestrict, ReservationsOfPair DEF TableStep
  <1>2. ASSUME NEW b \in Batches, BatchStep(b) PROVE Reservations'
    BY <1>2, ReservationsOfTransfer, ReservationsOfReserve, ReservationsOfRollback, ReservationsOfActivate DEF BatchStep
  <1>3. CASE UNCHANGED vars
    BY <1>3, ReservationsKept DEF vars, Loaded
  <1> QED BY <1>1, <1>2, <1>3 DEF Next

----------------------------------------------------------------------------
(* Grants *)

LEMMA RecordKept ==
  ASSUME IInv, NEW b \in Batches, NEW h \in Handles
  PROVE  batch[b].rec[h] \in Record
  BY DEF IInv, TypeOK, Batch

\* A step after which every entry and every record that is new holds nothing,
\* or holds less than what was granted, and no unique object.
LEMMA GrantsKept ==
  ASSUME IInv, Grants,
         \A t \in Tables, h \in Handles :
           \/ table'[t][h].obj = table[t][h].obj /\ table'[t][h].rights = table[t][h].rights
           \/ table'[t][h].obj = NoObject
           \/ table'[t][h].obj \notin Unique \ Inheritable /\ Within(table'[t][h].obj, table'[t][h].rights),
         \A b \in Batches, h \in Handles :
           \/ /\ batch'[b].rec[h].obj = batch[b].rec[h].obj /\ batch'[b].rec[h].rights = batch[b].rec[h].rights
              /\ batch'[b].rec[h].orig = batch[b].rec[h].orig
           \/ batch'[b].rec[h].obj = NoObject
  PROVE  EntriesWithin' /\ RecordsWithin' /\ OnePlace'
  <1>1. EntriesWithin' /\ RecordsWithin'
    BY Zenon DEF Grants, EntriesWithin, RecordsWithin, Within
  <1>2. NoObject \notin Unique
    BY TableConstants
  <1>3. \A o \in Unique \ Inheritable : Entries(o)' \subseteq Entries(o) /\ Records(o)' \subseteq Records(o)
    BY <1>2 DEF Entries, Records
  <1>4. OnePlace'
    BY <1>3 DEF Grants, OnePlace
  <1> QED BY <1>1, <1>4

\* The pairs, when their entries stay.
LEMMA PairsWithinKept ==
  ASSUME IInv, Grants, \A t \in Tables : restricts'[t] \subseteq restricts[t],
         \A t \in Tables : \A p \in restricts'[t] :
           table'[t][p[1]].obj = table[t][p[1]].obj /\ table'[t][p[2]].rights = table[t][p[2]].rights
  PROVE  PairsWithin'
  BY Zenon DEF Grants, PairsWithin, Within

\* Reserved and hidden entries are those of the pairs.
LEMMA PairEntries ==
  ASSUME IInv, Reservations, NEW t \in Tables, NEW p \in restricts[t]
  PROVE  /\ p[1] \in Handles /\ p[2] \in Handles /\ life[t] = "live"
         /\ table[t][p[1]].st = "restricting" /\ table[t][p[2]].st = "reserved"
  BY DEF IInv, TypeOK, Reservations, PairsPrepared, Prepared, PairsOfLive

OneAt(o) ==
  /\ \A p, q \in Entries(o) : p = q
  /\ \A p, q \in Records(o) : p = q
  /\ Entries(o) = {} \/ Records(o) = {}

LEMMA HolderMoves ==
  ASSUME NEW o, OneAt(o), NEW p, NEW q,
         \/ Entries(o)' \subseteq Entries(o) /\ Records(o)' \subseteq Records(o)
         \/ p \in Entries(o) /\ Entries(o)' \subseteq (Entries(o) \ {p}) \cup {q} /\ Records(o)' \subseteq Records(o)
         \/ p \in Entries(o) /\ Entries(o)' \subseteq Entries(o) \ {p} /\ Records(o)' \subseteq Records(o) \cup {q}
         \/ p \in Records(o) /\ Records(o)' \subseteq Records(o) \ {p} /\ Entries(o)' \subseteq Entries(o) \cup {q}
         \/ Entries(o) = {} /\ Records(o) = {} /\ Entries(o)' \subseteq {q} /\ Records(o)' = {}
  PROVE  OneAt(o)'
  BY DEF OneAt

\* The members of these sets, and what their next value is made of.
LEMMA Members ==
  ASSUME NEW o
  PROVE  /\ \A u \in Tables, g \in Handles : table[u][g].obj = o <=> <<u, g>> \in Entries(o)
         /\ \A c \in Batches, g \in Handles : batch[c].rec[g].obj = o <=> <<c, g>> \in Records(o)
  BY DEF Entries, Records

LEMMA NextEntries ==
  ASSUME NEW o, NEW S, \A u \in Tables, g \in Handles : table'[u][g].obj = o => <<u, g>> \in S
  PROVE  Entries(o)' \subseteq S
  BY DEF Entries

LEMMA NextRecords ==
  ASSUME NEW o, NEW S, \A c \in Batches, g \in Handles : batch'[c].rec[g].obj = o => <<c, g>> \in S
  PROVE  Records(o)' \subseteq S
  BY DEF Records

LEMMA GrantsSame ==
  ASSUME Grants, UNCHANGED <<table, batch, restricts>>
  PROVE  Grants'
  <1>1. EntriesWithin' /\ RecordsWithin' /\ PairsWithin'
    BY Zenon DEF Grants, EntriesWithin, RecordsWithin, PairsWithin, Within
  <1>2. OnePlace'
    <2>1. \A o : Entries(o)' = Entries(o) /\ Records(o)' = Records(o)
      BY DEF Entries, Records
    <2> QED BY Zenon, <2>1 DEF Grants, OnePlace
  <1> QED BY Zenon, <1>1, <1>2 DEF Grants

LEMMA PairsKept ==
  ASSUME IInv, Grants, restricts' = restricts,
         \A u \in Tables : \A p \in restricts[u] : table'[u][p[1]] = table[u][p[1]] /\ table'[u][p[2]] = table[u][p[2]]
  PROVE  PairsWithin'
  BY Zenon, PairsWithinKept

LEMMA GrantsOfQuiet ==
  ASSUME IInv, Reservations, Grants, NEW t \in Tables,
         Spawn(t) \/ clear(t) \/ (\E h \in Handles : close_native(t, h))
  PROVE  Grants'
  <1>1. table \in [Tables -> [Handles -> Entry]] /\ restricts \in [Tables -> SUBSET (Handles \X Handles)]
    BY DEF IInv, TypeOK
  <1>2. CASE Spawn(t)
    <2>1. UNCHANGED <<table, batch, restricts>>
      BY <1>2 DEF Spawn
    <2> QED BY Zenon, <2>1, GrantsSame
  <1>3. CASE clear(t)
    <2>1. EntriesWithin' /\ RecordsWithin' /\ OnePlace'
      BY Zenon, <1>1, <1>3, GrantsKept DEF clear, Absent
    <2>2. PairsWithin'
      BY <1>1, <1>3, PairsWithinKept DEF clear
    <2> QED BY <2>1, <2>2 DEF Grants
  <1>4. ASSUME NEW h \in Handles, close_native(t, h) PROVE Grants'
    <2>1. EntriesWithin' /\ RecordsWithin' /\ OnePlace'
      BY ZenonT(30), <1>1, <1>4, GrantsKept DEF close_native, Absent
    <2>2. PairsWithin'
      BY <1>1, <1>4, PairsWithinKept, PairEntries DEF close_native
    <2> QED BY <2>1, <2>2 DEF Grants
  <1> QED BY <1>2, <1>3, <1>4

\* The first capability of an object, whom nobody held.
LEMMA GrantsOfInstall ==
  ASSUME IInv, Reservations, Grants, NEW t \in Tables, NEW o \in Objects, install_native(t, o)
  PROVE  Grants'
  <1> DEFINE n == next[t]
  <1>1. table \in [Tables -> [Handles -> Entry]]
    BY DEF IInv, TypeOK
  <1>2. n \in Handles /\ table[t][n].st = "absent"
    BY NewHandle DEF install_native, Held, Present
  <1>3. /\ UNCHANGED <<batch, restricts>> /\ Fresh(o)
        /\ table'[t][n].obj = o /\ table'[t][n].rights = Granted[o]
        /\ \A u \in Tables, g \in Handles : u # t \/ g # n => table'[u][g] = table[u][g]
    BY ZenonT(20), <1>1, <1>2 DEF install_native, Insert
  <1> HIDE DEF n
  <1>4. EntriesWithin' /\ RecordsWithin'
    BY <1>3 DEF Grants, EntriesWithin, RecordsWithin, Within
  <1>5. PairsWithin'
    BY <1>2, <1>3, PairsWithinKept, PairEntries
  <1>6. OnePlace'
    <2> SUFFICES ASSUME NEW x \in Unique \ Inheritable PROVE OneAt(x)'
      BY DEF OnePlace, OneAt
    <2>1. OneAt(x) /\ Records(x)' = Records(x)
      BY Zenon, <1>3 DEF Grants, OnePlace, OneAt, Records
    <2>2. CASE x = o
      <3>1. Entries(o) = {} /\ Records(o) = {}
        BY <1>3 DEF Fresh, Entries, Records
      <3>2. Entries(o)' \subseteq {<<t, n>>}
        BY <1>3, <3>1 DEF Entries
      <3> QED BY <2>1, <2>2, <3>1, <3>2, HolderMoves
    <2>3. CASE x # o
      <3>1. Entries(x)' \subseteq Entries(x)
        BY <1>3, <2>3 DEF Entries
      <3> QED BY <2>1, <3>1, HolderMoves
    <2> QED BY <2>2, <2>3
  <1> QED BY <1>4, <1>5, <1>6 DEF Grants

LEMMA GrantsOfDuplicate ==
  ASSUME IInv, Reservations, Grants, NEW t \in Tables, NEW h \in Handles, NEW r \in Requests, duplicate_native(t, h, r)
  PROVE  Grants'
  <1> DEFINE n == next[t]
  <1>1. table \in [Tables -> [Handles -> Entry]]
    BY DEF IInv, TypeOK
  <1>2. n \in Handles /\ table[t][n].st = "absent"
    BY NewHandle DEF duplicate_native, Held, Present
  <1>3. /\ UNCHANGED <<batch, restricts>> /\ table[t][h].obj \notin Unique
        /\ table'[t][n].obj = table[t][h].obj /\ table'[t][n].rights \subseteq table[t][h].rights
        /\ \A u \in Tables, g \in Handles : u # t \/ g # n => table'[u][g] = table[u][g]
    BY <1>1, <1>2 DEF duplicate_native, Insert, Duplicable, Requested, Entry
  <1> HIDE DEF n
  <1>4. Within(table'[t][n].obj, table'[t][n].rights)
    BY ZenonT(30), <1>3 DEF Grants, EntriesWithin, Within
  <1>5. EntriesWithin' /\ RecordsWithin' /\ OnePlace'
    <2>1. \A u \in Tables, g \in Handles :
           \/ table'[u][g].obj = table[u][g].obj /\ table'[u][g].rights = table[u][g].rights
           \/ table'[u][g].obj \notin Unique \ Inheritable /\ Within(table'[u][g].obj, table'[u][g].rights)
      BY <1>3, <1>4
    <2> QED BY <1>3, <2>1, GrantsKept
  <1>6. PairsWithin'
    BY ZenonT(30), <1>2, <1>3, PairsWithinKept, PairEntries
  <1> QED BY <1>5, <1>6 DEF Grants

\* The replacement waits with rights within those of its source.
LEMMA GrantsOfRestrict ==
  ASSUME IInv, Reservations, Grants, NEW t \in Tables, NEW h \in Handles, NEW r, restrict_native(t, h, r)
  PROVE  Grants'
  <1> DEFINE n == next[t]
  <1>1. table \in [Tables -> [Handles -> Entry]] /\ restricts \in [Tables -> SUBSET (Handles \X Handles)]
    BY DEF IInv, TypeOK
  <1>2. n \in Handles /\ table[t][n].st = "absent" /\ table[t][h].st = "active" /\ n # h
    BY NewHandle DEF restrict_native, Held, Present
  <1>3. /\ batch' = batch /\ restricts' = [restricts EXCEPT ![t] = @ \cup {<<h, n>>}]
        /\ table'[t][n].obj = NoObject /\ table'[t][n].rights \subseteq table[t][h].rights
        /\ table'[t][h].obj = table[t][h].obj /\ table'[t][h].rights = table[t][h].rights
        /\ \A u \in Tables, g \in Handles : u # t \/ g \notin {h, n} => table'[u][g] = table[u][g]
    BY <1>1, <1>2 DEF restrict_native, Entry
  <1> HIDE DEF n
  <1>4. EntriesWithin' /\ RecordsWithin' /\ OnePlace'
    BY Zenon, <1>3, GrantsKept
  <1>5. PairsWithin'
    <2> SUFFICES ASSUME NEW u \in Tables, NEW p \in restricts'[u]
                 PROVE  Within(table'[u][p[1]].obj, table'[u][p[2]].rights)
      BY DEF PairsWithin, Within
    <2>1. CASE u = t /\ p = <<h, n>>
      BY Zenon, <1>3, <2>1 DEF Grants, EntriesWithin, Within
    <2>2. CASE p \in restricts[u]
      <3>1. table'[u][p[1]] = table[u][p[1]] /\ table'[u][p[2]] = table[u][p[2]]
        BY <1>2, <1>3, <2>2, PairEntries
      <3> QED BY <2>2, <3>1 DEF Grants, PairsWithin
    <2> QED BY ZenonT(20), <1>1, <1>3, <2>1, <2>2
  <1> QED BY <1>4, <1>5 DEF Grants

LEMMA GrantsOfPair ==
  ASSUME IInv, Reservations, Grants, NEW t \in Tables, NEW p \in restricts[t],
         commit_restrict(t, p[1], p[2]) \/ rollback_restrict(t, p[1], p[2])
  PROVE  Grants'
  <1> DEFINE h == p[1]
             n == p[2]
  <1>1. table \in [Tables -> [Handles -> Entry]] /\ restricts \in [Tables -> SUBSET (Handles \X Handles)]
    BY DEF IInv, TypeOK
  <1>2. /\ h \in Handles /\ n \in Handles /\ h # n /\ p = <<h, n>>
        /\ \A q \in restricts[t] \ {p} : /\ q[1] \in Handles /\ q[2] \in Handles
                                         /\ q[1] \notin {h, n} /\ q[2] \notin {h, n}
    BY <1>1 DEF Reservations, PairsApart, PairsPrepared, Prepared
  <1>3. /\ batch' = batch /\ restricts' = [restricts EXCEPT ![t] = @ \ {p}]
        /\ \A u \in Tables, g \in Handles : u # t \/ g \notin {h, n} => table'[u][g] = table[u][g]
        /\ \/ /\ table'[t][n].obj = table[t][h].obj /\ table'[t][n].rights = table[t][n].rights
              /\ table'[t][h].obj = NoObject
           \/ /\ table'[t][h].obj = table[t][h].obj /\ table'[t][h].rights = table[t][h].rights
              /\ table'[t][n].obj = NoObject
    <2>1. batch' = batch /\ restricts' = [restricts EXCEPT ![t] = @ \ {p}]
      BY <1>2 DEF commit_restrict, rollback_restrict
    <2>2. table[t][n] \in Entry /\ table[t][h] \in Entry
      BY <1>1, <1>2
    <2>3. CASE commit_restrict(t, h, n)
      <3> DEFINE e == [table[t][n] EXCEPT !.st = "active", !.obj = table[t][h].obj]
                 f == [table[t] EXCEPT ![n] = e, ![h] = Absent]
      <3>1. table' = [table EXCEPT ![t] = f]
        BY Zenon, <1>1, <1>2, <2>3 DEF commit_restrict
      <3>2. e.obj = table[t][h].obj /\ e.rights = table[t][n].rights /\ Absent.obj = NoObject
        BY <2>2 DEF Entry, Absent
      <3> HIDE DEF e
      <3>3. f[n] = e /\ f[h] = Absent /\ \A g \in Handles \ {h, n} : f[g] = table[t][g]
        BY <1>1, <1>2
      <3> HIDE DEF f
      <3> QED BY <1>1, <1>2, <2>1, <3>1, <3>2, <3>3
    <2>4. CASE rollback_restrict(t, h, n)
      <3> DEFINE e == [table[t][h] EXCEPT !.st = "active"]
                 f == [table[t] EXCEPT ![n] = Absent, ![h] = e]
      <3>1. table' = [table EXCEPT ![t] = f]
        BY ZenonT(30), <1>1, <1>2, <2>4 DEF rollback_restrict
      <3>2. e.obj = table[t][h].obj /\ e.rights = table[t][h].rights /\ Absent.obj = NoObject
        BY <2>2 DEF Entry, Absent
      <3> HIDE DEF e
      <3>3. f[n] = Absent /\ f[h] = e /\ \A g \in Handles \ {h, n} : f[g] = table[t][g]
        BY <1>1, <1>2
      <3> HIDE DEF f
      <3> QED BY <1>1, <1>2, <2>1, <3>1, <3>2, <3>3
    <2> QED BY Zenon, <2>3, <2>4
  <1> HIDE DEF h, n
  <1>4. PairsWithin'
    <2>1. \A u \in Tables : restricts'[u] \subseteq restricts[u] /\ (u = t => p \notin restricts'[u])
      BY <1>1, <1>3
    <2>2. \A u \in Tables : \A q \in restricts'[u] : table'[u][q[1]] = table[u][q[1]] /\ table'[u][q[2]] = table[u][q[2]]
      BY <1>2, <1>3, <2>1, PairEntries
    <2> QED BY <2>1, <2>2, PairsWithinKept
  <1>5. Within(table[t][h].obj, table[t][n].rights)
    BY DEF Grants, PairsWithin, h, n
  <1>6. EntriesWithin' /\ RecordsWithin'
    <2>1. EntriesWithin'
      <3> SUFFICES ASSUME NEW u \in Tables, NEW g \in Handles
                   PROVE  Within(table'[u][g].obj, table'[u][g].rights)
        BY Zenon DEF EntriesWithin, Within
      <3>1. Within(table[u][g].obj, table[u][g].rights)
        BY Zenon DEF Grants, EntriesWithin
      <3>2. CASE u = t /\ g \in {h, n}
        BY Zenon, <1>3, <1>5, <3>1, <3>2 DEF Within
      <3>3. CASE ~ (u = t /\ g \in {h, n})
        BY Zenon, <1>3, <3>1, <3>3
      <3> QED BY Zenon, <3>2, <3>3
    <2> QED BY Zenon, <1>3, <2>1 DEF Grants, RecordsWithin
  <1>7. OnePlace'
    <2> SUFFICES ASSUME NEW x \in Unique \ Inheritable PROVE OneAt(x)'
      BY DEF OnePlace, OneAt
    <2>0. OneAt(x) /\ x # NoObject
      BY ZenonT(30), TableConstants DEF Grants, OnePlace, OneAt
    <2>1. OneAt(x) /\ Records(x)' = Records(x) /\ x # NoObject
      BY Zenon, <1>3, <2>0 DEF Records
    <2>2. CASE <<t, h>> \in Entries(x) /\ table'[t][n].obj = table[t][h].obj /\ table'[t][h].obj = NoObject
      <3>1. Entries(x)' \subseteq (Entries(x) \ {<<t, h>>}) \cup {<<t, n>>}
        <4> SUFFICES ASSUME NEW u \in Tables, NEW g \in Handles, table'[u][g].obj = x
                     PROVE  <<u, g>> \in (Entries(x) \ {<<t, h>>}) \cup {<<t, n>>}
          BY ZenonT(30), NextEntries
        <4>1. ~ (u = t /\ g = h)
          BY Zenon, <2>0, <2>2
        <4>2. table[u][g].obj = x \/ (u = t /\ g = n)
          BY ZenonT(30), <1>3, <4>1
        <4> QED BY Zenon, <4>1, <4>2, Members
      <3> QED BY Zenon, <2>1, <2>2, <3>1, HolderMoves
    <2>3. CASE ~ (<<t, h>> \in Entries(x) /\ table'[t][n].obj = table[t][h].obj /\ table'[t][h].obj = NoObject)
      <3>1. Entries(x)' \subseteq Entries(x)
        <4> SUFFICES ASSUME NEW u \in Tables, NEW g \in Handles, table'[u][g].obj = x
                     PROVE  <<u, g>> \in Entries(x)
          BY Zenon, NextEntries
        <4>1. ASSUME u # t \/ g \notin {h, n} PROVE table[u][g].obj = x
          BY ZenonT(20), <1>3, <4>1
        <4>2. ASSUME u = t /\ g = h PROVE table[u][g].obj = x
          BY Zenon, <1>3, <2>1, <4>2
        <4>3. ASSUME u = t /\ g = n PROVE table[u][g].obj = x
          BY Zenon, <1>2, <1>3, <2>1, <2>3, <4>3 DEF Entries
        <4> QED BY Zenon, <4>1, <4>2, <4>3, Members
      <3> QED BY Zenon, <2>1, <3>1, HolderMoves
    <2> QED BY ZenonT(30), <2>2, <2>3
  <1> QED BY <1>4, <1>6, <1>7 DEF Grants

\* Fork hands on inheritable objects only.
LEMMA GrantsOfClone ==
  ASSUME IInv, Reservations, Grants, NEW t \in Tables, NEW u \in Tables, clone_fork_bindings(t, u)
  PROVE  Grants'
  <1>1. table \in [Tables -> [Handles -> Entry]]
    BY DEF IInv, TypeOK
  <1>2. /\ UNCHANGED <<batch, restricts>> /\ life[u] = "unborn"
        /\ \A v \in Tables, g \in Handles :
             \/ table'[v][g] = table[v][g]
             \/ v = u /\ table'[v][g] = table[t][g] /\ table[t][g].obj \in Inheritable
    BY <1>1 DEF clone_fork_bindings, fork_inheritable
  <1>3. \A v \in Tables, g \in Handles :
           \/ table'[v][g].obj = table[v][g].obj /\ table'[v][g].rights = table[v][g].rights
           \/ table'[v][g].obj \notin Unique \ Inheritable /\ Within(table'[v][g].obj, table'[v][g].rights)
    BY <1>2 DEF Grants, EntriesWithin
  <1>4. EntriesWithin' /\ RecordsWithin' /\ OnePlace'
    BY <1>2, <1>3, GrantsKept
  <1>5. ASSUME NEW v \in Tables, NEW p \in restricts[v]
        PROVE  table'[v][p[1]] = table[v][p[1]] /\ table'[v][p[2]] = table[v][p[2]]
    <2>1. p[1] \in Handles /\ p[2] \in Handles /\ v # u
      BY <1>2, PairEntries
    <2> QED BY ZenonT(30), <1>2, <2>1
  <1>6. PairsWithin'
    BY Zenon, <1>2, <1>5, PairsKept
  <1> QED BY <1>4, <1>6 DEF Grants

\* The transfer steps that only let objects go.
LEMMA GrantsOfTransfer ==
  ASSUME IInv, Reservations, Grants, NEW b \in Batches,
         \/ Enqueue(b) \/ commit_native_batch(b) \/ Discard(b) \/ Dispatch(b) \/ RestoreNone(b)
         \/ \E t \in Tables : reserve_native_fails(b, t)
         \/ \E h \in Handles : take_object_to_table(b, h)
  PROVE  Grants'
  <1> DEFINE Lets == \A c \in Batches, g \in Handles :
               \/ /\ batch'[c].rec[g].obj = batch[c].rec[g].obj /\ batch'[c].rec[g].rights = batch[c].rec[g].rights
                  /\ batch'[c].rec[g].orig = batch[c].rec[g].orig
               \/ batch'[c].rec[g].obj = NoObject
  <1>1. batch \in [Batches -> Batch] /\ batch[b] \in Batch /\ batch[b].rec \in [Handles -> Record]
    BY DEF IInv, TypeOK, Batch
  <1>2. ASSUME Lets, UNCHANGED <<table, restricts>> PROVE Grants'
    BY Zenon, <1>2, GrantsKept, PairsWithinKept DEF Grants
  <1>3. \A g \in Handles : IdleBatch.rec[g].obj = NoObject
    BY DEF IdleBatch, NoRecords, NoRecord
  <1>4. ASSUME NEW e, batch' = [batch EXCEPT ![b] = e],
               \A g \in Handles : \/ /\ e.rec[g].obj = batch[b].rec[g].obj /\ e.rec[g].rights = batch[b].rec[g].rights
                                     /\ e.rec[g].orig = batch[b].rec[g].orig
                                  \/ e.rec[g].obj = NoObject
        PROVE  Lets
    BY Zenon, <1>1, <1>4
  <1>5. CASE Enqueue(b) \/ Dispatch(b)
    <2>1. \A c \in Batches : batch'[c].rec = batch[c].rec
      <3>1. PICK ph : batch' = [batch EXCEPT ![b].phase = ph]
        BY ZenonT(20), <1>5 DEF Enqueue, Dispatch
      <3> QED BY <1>1, <3>1 DEF Batch
    <2>2. Lets
      BY Zenon, <2>1
    <2> HIDE DEF Lets
    <2> QED BY <1>2, <1>5, <2>2 DEF Enqueue, Dispatch
  <1>6. CASE RestoreNone(b)
    <2>1. Lets
      BY Zenon, <1>3, <1>4, <1>6 DEF RestoreNone
    <2> HIDE DEF Lets
    <2> QED BY <1>2, <1>6, <2>1 DEF RestoreNone
  <1>7. CASE commit_native_batch(b)
    <2> DEFINE rec == [g \in Handles |-> [batch[b].rec[g] EXCEPT !.armed = FALSE]]
               e == IF batch[b].phase = "drained" THEN IdleBatch ELSE [batch[b] EXCEPT !.rec = rec]
    <2>1. batch' = [batch EXCEPT ![b] = e]
      BY <1>7 DEF commit_native_batch
    <2>2. \A g \in Handles : /\ rec[g].obj = batch[b].rec[g].obj /\ rec[g].rights = batch[b].rec[g].rights
                             /\ rec[g].orig = batch[b].rec[g].orig
      BY <1>1 DEF Record
    <2> HIDE DEF rec
    <2>3. e.rec = rec \/ e = IdleBatch
      BY <1>1 DEF Batch
    <2> HIDE DEF e
    <2>4. Lets
      <3>1. \A g \in Handles : \/ /\ e.rec[g].obj = batch[b].rec[g].obj /\ e.rec[g].rights = batch[b].rec[g].rights
                                   /\ e.rec[g].orig = batch[b].rec[g].orig
                                \/ e.rec[g].obj = NoObject
        BY Zenon, <1>3, <2>2, <2>3
      <3> QED BY Zenon, <1>4, <2>1, <3>1
    <2> HIDE DEF Lets
    <2> QED BY <1>2, <1>7, <2>4 DEF commit_native_batch
  <1>8. CASE Discard(b)
    <2> DEFINE rec == [g \in Handles |-> [batch[b].rec[g] EXCEPT !.obj = NoObject]]
               e == Drained(b, rec)
    <2>1. batch' = [batch EXCEPT ![b] = e]
      BY <1>8 DEF Discard
    <2>2. \A g \in Handles : rec[g].obj = NoObject
      BY <1>1 DEF Record
    <2> HIDE DEF rec
    <2>3. e.rec = rec \/ e = IdleBatch
      BY <1>1 DEF Batch, Drained
    <2> HIDE DEF e
    <2>4. Lets
      <3>1. \A g \in Handles : \/ /\ e.rec[g].obj = batch[b].rec[g].obj /\ e.rec[g].rights = batch[b].rec[g].rights
                                   /\ e.rec[g].orig = batch[b].rec[g].orig
                                \/ e.rec[g].obj = NoObject
        BY ZenonT(30), <1>3, <2>2, <2>3
      <3> QED BY Zenon, <1>4, <2>1, <3>1
    <2> HIDE DEF Lets
    <2> QED BY <1>2, <1>8, <2>4 DEF Discard
  <1>9. ASSUME NEW t \in Tables, reserve_native_fails(b, t) PROVE Grants'
    BY ZenonT(20), <1>2, <1>9 DEF reserve_native_fails
  <1>10. ASSUME NEW h \in Handles, take_object_to_table(b, h) PROVE Grants'
    <2> DEFINE rec == [batch[b].rec EXCEPT ![h].obj = NoObject]
               e == [batch[b] EXCEPT !.rec = rec]
    <2>1. batch' = [batch EXCEPT ![b] = e]
      BY <1>1, <1>10 DEF take_object_to_table
    <2>2. rec[h].obj = NoObject /\ \A g \in Handles \ {h} : rec[g] = batch[b].rec[g]
      BY <1>1 DEF Record
    <2> HIDE DEF rec
    <2>3. e.rec = rec
      BY ZenonT(20), <1>1 DEF Batch
    <2> HIDE DEF e
    <2>4. Lets
      <3>1. \A g \in Handles : \/ /\ e.rec[g].obj = batch[b].rec[g].obj /\ e.rec[g].rights = batch[b].rec[g].rights
                                   /\ e.rec[g].orig = batch[b].rec[g].orig
                                \/ e.rec[g].obj = NoObject
        BY Zenon, <2>2, <2>3
      <3> QED BY Zenon, <1>4, <2>1, <3>1
    <2> HIDE DEF Lets
    <2> QED BY <1>2, <1>10, <2>4 DEF take_object_to_table
  <1> QED BY <1>5, <1>6, <1>7, <1>8, <1>9, <1>10

LEMMA GrantsOfSlots ==
  ASSUME IInv, Reservations, Grants, NEW b \in Batches,
         (\E t \in Tables : reserve_native(b, t)) \/ rollback_native(b)
  PROVE  Grants'
  <1>1. table \in [Tables -> [Handles -> Entry]] /\ batch \in [Batches -> Batch]
    BY DEF IInv, TypeOK
  <1>2. ASSUME NEW t \in Tables, NEW new, NEW e, e.obj = NoObject, restricts' = restricts,
               table' = [table EXCEPT ![t] = [h \in Handles |-> IF h \in new THEN e ELSE @[h]]],
               \A c \in Batches : batch'[c].rec = batch[c].rec,
               \A p \in restricts[t] : p[1] \notin new /\ p[2] \notin new
        PROVE  Grants'
    <2>1. \A u \in Tables, g \in Handles : table'[u][g] = IF u = t /\ g \in new THEN e ELSE table[u][g]
      BY ZenonT(20), <1>1, <1>2
    <2>2. EntriesWithin' /\ RecordsWithin' /\ OnePlace'
      <3>1. \A u \in Tables, g \in Handles :
              \/ table'[u][g].obj = table[u][g].obj /\ table'[u][g].rights = table[u][g].rights
              \/ table'[u][g].obj = NoObject
        <4>1. e.obj = NoObject
          BY <1>2
        <4> QED BY ZenonT(20), <2>1, <4>1
      <3>2. \A c \in Batches, g \in Handles :
              /\ batch'[c].rec[g].obj = batch[c].rec[g].obj /\ batch'[c].rec[g].rights = batch[c].rec[g].rights
              /\ batch'[c].rec[g].orig = batch[c].rec[g].orig
        BY Zenon, <1>2
      <3> QED BY Zenon, <3>1, <3>2, GrantsKept
    <2>3. PairsWithin'
      <3> SUFFICES ASSUME NEW u \in Tables, NEW p \in restricts[u]
                   PROVE  table'[u][p[1]] = table[u][p[1]] /\ table'[u][p[2]] = table[u][p[2]]
        BY Zenon, <1>2, PairsKept
      <3>1. p[1] \in Handles /\ p[2] \in Handles /\ (u = t => p[1] \notin new /\ p[2] \notin new)
        BY Zenon, <1>2, PairEntries
      <3> QED BY <2>1, <3>1
    <2> QED BY <2>2, <2>3 DEF Grants
  <1>3. ASSUME NEW t \in Tables, reserve_native(b, t) PROVE Grants'
    <2> DEFINE n == Cardinality(Loaded(b))
               new == {h \in Handles : next[t] <= h /\ h < next[t] + n}
    <2>1. n \in Nat /\ n <= Room(t)
      BY Zenon, <1>3, HandlesFinite, BatchTyped DEF reserve_native
    <2>2. new \cap Held(t) = {}
      BY Zenon, <2>1, NewHandles
    <2>3. /\ table' = [table EXCEPT ![t] = [h \in Handles |-> IF h \in new THEN Reserved ELSE @[h]]]
          /\ restricts' = restricts
          /\ batch' = [batch EXCEPT ![b].phase = "receiving", ![b].to = t, ![b].slots = new]
      BY Zenon, <1>3 DEF reserve_native
    <2> HIDE DEF new
    <2>4. \A c \in Batches : batch'[c].rec = batch[c].rec
      BY ZenonT(20), <1>1, <2>3 DEF Batch
    <2>5. \A p \in restricts[t] : p[1] \notin new /\ p[2] \notin new
      BY ZenonT(30), <2>2, PairEntries DEF Held, Present
    <2>6. Reserved.obj = NoObject
      BY DEF Reserved
    <2> QED BY Zenon, <1>2, <2>3, <2>4, <2>5, <2>6
  <1>4. CASE rollback_native(b)
    <2> DEFINE t == batch[b].to
               gone == {h \in batch[b].slots : table[t][h].st = "reserved"}
    <2>1. Receiving(b) /\ t \in Tables
      BY <1>4, BatchTyped DEF rollback_native, Receiving
    <2>2. /\ table' = [table EXCEPT ![t] = [h \in Handles |-> IF h \in gone THEN Absent ELSE @[h]]]
          /\ restricts' = restricts
          /\ batch' = [batch EXCEPT ![b].phase = "queued", ![b].to = NoTable, ![b].slots = {}]
      BY <1>4 DEF rollback_native
    <2>3. \A p \in restricts[t] : p[1] \notin gone /\ p[2] \notin gone
      BY Zenon, <2>1, PairEntries DEF Reservations, SlotsReserved
    <2>4. \A c \in Batches : batch'[c].rec = batch[c].rec
      BY <1>1, <2>2 DEF Batch
    <2>5. Absent.obj = NoObject
      BY DEF Absent
    <2> HIDE DEF gone, t
    <2> QED BY Zenon, <1>2, <2>1, <2>2, <2>3, <2>4, <2>5
  <1> QED BY <1>3, <1>4

\* What is moved leaves the table for the record; what is copied is not unique.
LEMMA GrantsOfTake ==
  ASSUME IInv, Reservations, Grants, NEW b \in Batches, NEW t \in Tables, NEW r \in Requests,
         NEW moves \in SUBSET {h \in Handles : Transferable(t, h)},
         NEW dups \in SUBSET {h \in Handles : Transferable(t, h)},
         take_native_batch(b, t, moves, dups, r)
  PROVE  Grants'
  <1>1. table \in [Tables -> [Handles -> Entry]] /\ batch \in [Batches -> Batch]
    BY DEF IInv, TypeOK
  <1>2. /\ \A u \in Tables, g \in Handles :
             table'[u][g] = IF u = t /\ g \in moves THEN Absent ELSE table[u][g]
        /\ restricts' = restricts /\ \A h \in dups : table[t][h].obj \notin Unique
        /\ \A h \in moves : table[t][h].st = "active"
    BY Zenon, <1>1 DEF take_native_batch, Duplicable, Transferable
  <1>3. /\ \A c \in Batches \ {b} : batch'[c] = batch[c]
        /\ \A g \in Handles : g \notin moves \cup dups => batch'[b].rec[g] = NoRecord
        /\ \A g \in moves \cup dups :
             /\ batch'[b].rec[g].obj = table[t][g].obj /\ batch'[b].rec[g].orig = table[t][g].rights
             /\ batch'[b].rec[g].rights \subseteq table[t][g].rights
    <2> DEFINE rec == [h \in Handles |->
                   IF h \in moves \cup dups
                   THEN [armed |-> h \in moves, obj |-> table[t][h].obj,
                         rights |-> Requested(table[t][h].rights, r),
                         orig |-> table[t][h].rights]
                   ELSE NoRecord]
    <2>1. /\ batch' = [batch EXCEPT ![b] = [phase |-> "taken", from |-> t, to |-> NoTable, slots |-> {}, rec |-> rec]]
          /\ \A h \in moves \cup dups : r \subseteq table[t][h].rights
      BY Zenon DEF take_native_batch
    <2>2. /\ \A g \in Handles : g \notin moves \cup dups => rec[g] = NoRecord
          /\ \A g \in moves \cup dups :
               /\ rec[g].obj = table[t][g].obj /\ rec[g].orig = table[t][g].rights
               /\ rec[g].rights \subseteq table[t][g].rights
      BY Zenon, <2>1 DEF Requested
    <2> HIDE DEF rec
    <2> QED BY Zenon, <1>1, <2>1, <2>2
  <1>4. Absent.obj = NoObject /\ NoRecord.obj = NoObject
    BY DEF Absent, NoRecord
  <1>5. EntriesWithin'
    BY <1>2, <1>4 DEF Grants, EntriesWithin, Within
  <1>6. RecordsWithin'
    <2> SUFFICES ASSUME NEW c \in Batches, NEW g \in Handles
                 PROVE  /\ Within(batch'[c].rec[g].obj, batch'[c].rec[g].rights)
                        /\ Within(batch'[c].rec[g].obj, batch'[c].rec[g].orig)
      BY DEF RecordsWithin, Within
    <2>1. CASE c = b /\ g \in moves \cup dups
      BY Zenon, <1>3, <2>1 DEF Grants, EntriesWithin, Within
    <2>2. CASE c = b /\ g \notin moves \cup dups
      BY Zenon, <1>3, <1>4, <2>2 DEF Within
    <2>3. CASE c # b
      BY ZenonT(30), <1>3, <2>3 DEF Grants, RecordsWithin
    <2> QED BY ZenonT(30), <2>1, <2>2, <2>3
  <1>7. PairsWithin'
    <2> SUFFICES ASSUME NEW u \in Tables, NEW p \in restricts[u]
                 PROVE  table'[u][p[1]] = table[u][p[1]] /\ table'[u][p[2]] = table[u][p[2]]
      BY Zenon, <1>2, PairsKept
    <2>1. /\ p[1] \in Handles /\ p[2] \in Handles
          /\ table[u][p[1]].st = "restricting" /\ table[u][p[2]].st = "reserved"
      BY Zenon, PairEntries
    <2> QED BY <1>2, <2>1
  <1>8. OnePlace'
    <2> SUFFICES ASSUME NEW x \in Unique \ Inheritable PROVE OneAt(x)'
      BY DEF OnePlace, OneAt
    <2>1. OneAt(x) /\ x # NoObject
      BY TableConstants DEF Grants, OnePlace, OneAt
    <2>2. ASSUME NEW h \in moves, table[t][h].obj = x PROVE OneAt(x)'
      <3>0. \A g \in Handles : table[t][g].obj = x => <<t, g>> \in Entries(x)
        BY DEF Entries
      <3>1. <<t, h>> \in Entries(x) /\ \A g \in Handles : table[t][g].obj = x => g = h
        <4>1. <<t, h>> \in Entries(x)
          BY <2>2, <3>0
        <4>2. \A g \in Handles : table[t][g].obj = x => <<t, g>> = <<t, h>>
          BY ZenonT(30), <2>1, <3>0, <4>1 DEF OneAt
        <4> QED BY <4>1, <4>2
      <3>2. Entries(x)' \subseteq Entries(x) \ {<<t, h>>}
        <4> SUFFICES ASSUME NEW u \in Tables, NEW g \in Handles, table'[u][g].obj = x
                     PROVE  <<u, g>> \in Entries(x) \ {<<t, h>>}
          BY Zenon, NextEntries
        <4>1. table[u][g].obj = x /\ ~ (u = t /\ g = h)
          BY ZenonT(30), <1>2, <1>4, <2>1, <2>2
        <4> QED BY <4>1, Members
      <3>3. Records(x)' \subseteq Records(x) \cup {<<b, h>>}
        <4> SUFFICES ASSUME NEW c \in Batches, NEW g \in Handles, batch'[c].rec[g].obj = x
                     PROVE  <<c, g>> \in Records(x) \cup {<<b, h>>}
          BY Zenon, NextRecords
        <4>1. batch[c].rec[g].obj = x \/ (c = b /\ g = h)
          BY ZenonT(30), <1>3, <1>4, <2>1, <3>1
        <4> QED BY <4>1, Members
      <3> QED BY ZenonT(20), <2>1, <3>1, <3>2, <3>3, HolderMoves
    <2>3. CASE \A h \in moves : table[t][h].obj # x
      <3>1. Entries(x)' \subseteq Entries(x)
        <4> SUFFICES ASSUME NEW u \in Tables, NEW g \in Handles, table'[u][g].obj = x
                     PROVE  <<u, g>> \in Entries(x)
          BY Zenon, NextEntries
        <4>1. table[u][g].obj = x
          BY Zenon, <1>2, <1>4, <2>1
        <4> QED BY Zenon, <4>1, Members
      <3>2. Records(x)' \subseteq Records(x)
        <4> SUFFICES ASSUME NEW c \in Batches, NEW g \in Handles, batch'[c].rec[g].obj = x
                     PROVE  <<c, g>> \in Records(x)
          BY Zenon, NextRecords
        <4>1. c # b => batch[c].rec[g].obj = x
          BY Zenon, <1>3
        <4>2. c = b => g \in moves \cup dups /\ table[t][g].obj = x
          BY Zenon, <1>3, <1>4, <2>1
        <4>3. c # b
          BY Zenon, <1>2, <2>3, <4>2
        <4> QED BY Zenon, <4>1, <4>3, Members
      <3> QED BY <2>1, <3>1, <3>2, HolderMoves
    <2> QED BY <2>2, <2>3
  <1> QED BY <1>5, <1>6, <1>7, <1>8 DEF Grants

\* A restore puts back what its own records hold.
LEMMA GrantsOfRestore ==
  ASSUME IInv, Reservations, Grants, NEW b \in Batches, batch[b].from \in Tables, RestoreAll(b)
  PROVE  Grants'
  <1> DEFINE t == batch[b].from
  <1>1. table \in [Tables -> [Handles -> Entry]] /\ batch \in [Batches -> Batch] /\ Armed(b) \subseteq Handles
    BY DEF IInv, TypeOK, Armed
  <1>2. /\ restricts' = restricts
        /\ \A h \in Armed(b) : /\ table'[t][h].obj = batch[b].rec[h].obj /\ table'[t][h].rights = batch[b].rec[h].orig
                               /\ h \notin Present(t)
        /\ \A u \in Tables, g \in Handles : u # t \/ g \notin Armed(b) => table'[u][g] = table[u][g]
        /\ \A c \in Batches \ {b} : batch'[c] = batch[c]
        /\ \A g \in Handles : batch'[b].rec[g].obj = NoObject
    <2>1. /\ restricts' = restricts /\ \A h \in Armed(b) : h \notin Present(t)
          /\ table' = [table EXCEPT ![t] =
              [h \in Handles |-> IF h \in Armed(b)
                                 THEN [st |-> "active", obj |-> batch[b].rec[h].obj, rights |-> batch[b].rec[h].orig]
                                 ELSE @[h]]]
          /\ batch' = [batch EXCEPT ![b] = IdleBatch]
      BY Zenon DEF RestoreAll, Restorable
    <2>2. \A g \in Handles : IdleBatch.rec[g].obj = NoObject
      BY DEF IdleBatch, NoRecords, NoRecord
    <2> QED BY Zenon, <1>1, <2>1, <2>2
  <1> HIDE DEF t
  <1>3. EntriesWithin' /\ RecordsWithin'
    <2>1. EntriesWithin'
      <3> SUFFICES ASSUME NEW u \in Tables, NEW g \in Handles
                   PROVE  Within(table'[u][g].obj, table'[u][g].rights)
        BY Zenon DEF EntriesWithin, Within
      <3>1. Within(table[u][g].obj, table[u][g].rights) /\ Within(batch[b].rec[g].obj, batch[b].rec[g].orig)
        BY Zenon DEF Grants, EntriesWithin, RecordsWithin
      <3> QED BY Zenon, <1>2, <3>1
    <2>2. ASSUME NEW c \in Batches, NEW g \in Handles
          PROVE  Within(batch'[c].rec[g].obj, batch'[c].rec[g].rights) /\ Within(batch'[c].rec[g].obj, batch'[c].rec[g].orig)
      <3>1. CASE c = b
        BY Zenon, <1>2, <3>1 DEF Within
      <3>2. CASE c # b
        BY Zenon, <1>2, <3>2 DEF Grants, RecordsWithin
      <3> QED BY Zenon, <3>1, <3>2
    <2>3. RecordsWithin'
      BY Zenon, <2>2 DEF RecordsWithin, Within
    <2> QED BY <2>1, <2>3
  <1>4. PairsWithin'
    <2> SUFFICES ASSUME NEW u \in Tables, NEW p \in restricts[u]
                 PROVE  table'[u][p[1]] = table[u][p[1]] /\ table'[u][p[2]] = table[u][p[2]]
      BY Zenon, <1>2, PairsKept
    <2>1. p[1] \in Handles /\ p[2] \in Handles /\ p[1] \in Present(u) /\ p[2] \in Present(u)
      BY Zenon, PairEntries DEF Present
    <2> QED BY Zenon, <1>2, <2>1
  <1>5. OnePlace'
    <2> SUFFICES ASSUME NEW x \in Unique \ Inheritable PROVE OneAt(x)'
      BY DEF OnePlace, OneAt
    <2>1. OneAt(x) /\ x # NoObject
      BY ZenonT(20), TableConstants DEF Grants, OnePlace, OneAt
    <2>2. Records(x)' \subseteq {q \in Records(x) : q[1] # b}
      BY <1>2, <2>1 DEF Records
    <2>3. ASSUME NEW h \in Armed(b), batch[b].rec[h].obj = x PROVE OneAt(x)'
      <3>0. \A g \in Handles : batch[b].rec[g].obj = x => <<b, g>> \in Records(x)
        BY DEF Records
      <3>1. <<b, h>> \in Records(x) /\ \A g \in Handles : batch[b].rec[g].obj = x => g = h
        <4>1. <<b, h>> \in Records(x)
          BY <1>1, <2>3, <3>0
        <4>2. \A g \in Handles : batch[b].rec[g].obj = x => <<b, g>> = <<b, h>>
          BY Zenon, <2>1, <3>0, <4>1 DEF OneAt
        <4> QED BY <4>1, <4>2
      <3>2. Records(x)' \subseteq Records(x) \ {<<b, h>>}
        BY <2>2
      <3>3. Entries(x)' \subseteq Entries(x) \cup {<<t, h>>}
        <4> SUFFICES ASSUME NEW u \in Tables, NEW g \in Handles, table'[u][g].obj = x
                     PROVE  <<u, g>> \in Entries(x) \cup {<<t, h>>}
          BY Zenon, NextEntries
        <4>1. table[u][g].obj = x \/ (u = t /\ g = h)
          BY Zenon, <1>2, <3>1
        <4> QED BY <4>1, Members
      <3> QED BY ZenonT(20), <2>1, <3>1, <3>2, <3>3, HolderMoves
    <2>4. CASE \A h \in Armed(b) : batch[b].rec[h].obj # x
      <3>1. Entries(x)' \subseteq Entries(x)
        <4> SUFFICES ASSUME NEW u \in Tables, NEW g \in Handles, table'[u][g].obj = x
                     PROVE  <<u, g>> \in Entries(x)
          BY Zenon, NextEntries
        <4>1. table[u][g].obj = x
          BY Zenon, <1>2, <2>4
        <4> QED BY Zenon, <4>1, Members
      <3>2. Records(x)' \subseteq Records(x)
        BY <2>2
      <3> QED BY <2>1, <3>1, <3>2, HolderMoves
    <2> QED BY <2>3, <2>4
  <1> QED BY <1>3, <1>4, <1>5 DEF Grants

\* The object of one record goes to a reserved slot of the receiver.
LEMMA GrantsOfActivate ==
  ASSUME IInv, Reservations, Grants, NEW b \in Batches, NEW h \in Handles, NEW s \in Handles, activate_native(b, h, s)
  PROVE  Grants'
  <1> DEFINE t == batch[b].to
             rec == [batch[b].rec EXCEPT ![h].obj = NoObject]
             e == IF Loaded(b) = {h} THEN Drained(b, rec)
                  ELSE [batch[b] EXCEPT !.phase = "activating", !.rec = rec, !.slots = batch[b].slots \ {s}]
  <1>1. table \in [Tables -> [Handles -> Entry]] /\ batch \in [Batches -> Batch] /\ batch[b].rec \in [Handles -> Record]
    BY DEF IInv, TypeOK, Batch
  <1>2. Receiving(b) /\ t \in Tables /\ s \in batch[b].slots
    BY BatchTyped DEF activate_native, Receiving
  <1>3. /\ restricts' = restricts /\ batch' = [batch EXCEPT ![b] = e]
        /\ table'[t][s].obj = batch[b].rec[h].obj /\ table'[t][s].rights = batch[b].rec[h].rights
        /\ \A u \in Tables, g \in Handles : u # t \/ g # s => table'[u][g] = table[u][g]
    BY <1>1, <1>2 DEF activate_native
  <1>4. rec[h].obj = NoObject /\ \A g \in Handles \ {h} : rec[g] = batch[b].rec[g]
    BY <1>1 DEF Record
  <1> HIDE DEF rec
  <1>5. e.rec = rec \/ e = IdleBatch
    BY <1>1 DEF Batch, Drained, IInv, TypeOK
  <1> HIDE DEF e, t
  <1>6. /\ \A c \in Batches \ {b} : batch'[c] = batch[c]
        /\ batch'[b].rec[h].obj = NoObject
        /\ \A g \in Handles \ {h} : batch'[b].rec[g] = batch[b].rec[g] \/ batch'[b].rec[g].obj = NoObject
    <2>1. \A g \in Handles : IdleBatch.rec[g].obj = NoObject
      BY DEF IdleBatch, NoRecords, NoRecord
    <2> QED BY ZenonT(30), <1>1, <1>3, <1>4, <1>5, <2>1
  <1>7. EntriesWithin' /\ RecordsWithin'
    <2>1. EntriesWithin'
      <3> SUFFICES ASSUME NEW u \in Tables, NEW g \in Handles
                   PROVE  Within(table'[u][g].obj, table'[u][g].rights)
        BY Zenon DEF EntriesWithin, Within
      <3>1. Within(table[u][g].obj, table[u][g].rights) /\ Within(batch[b].rec[h].obj, batch[b].rec[h].rights)
        BY Zenon DEF Grants, EntriesWithin, RecordsWithin
      <3> QED BY Zenon, <1>3, <3>1
    <2>2. RecordsWithin'
      <3> SUFFICES ASSUME NEW c \in Batches, NEW g \in Handles
                   PROVE  /\ Within(batch'[c].rec[g].obj, batch'[c].rec[g].rights)
                          /\ Within(batch'[c].rec[g].obj, batch'[c].rec[g].orig)
        BY Zenon DEF RecordsWithin, Within
      <3>1. batch'[c].rec[g] = batch[c].rec[g] \/ batch'[c].rec[g].obj = NoObject
        BY Zenon, <1>6
      <3> QED BY Zenon, <3>1 DEF Grants, RecordsWithin, Within
    <2> QED BY <2>1, <2>2
  <1>8. PairsWithin'
    <2>1. \A p \in restricts[t] : p[1] # s /\ p[2] # s
      <3>1. table[t][s] = Reserved /\ Reserved.st = "reserved" /\ \A p \in restricts[t] : p[2] # s
        BY Zenon, <1>2 DEF Reservations, SlotsReserved, Reserved, t
      <3> QED BY Zenon, <1>2, <3>1, PairEntries
    <2> SUFFICES ASSUME NEW u \in Tables, NEW p \in restricts[u]
                 PROVE  table'[u][p[1]] = table[u][p[1]] /\ table'[u][p[2]] = table[u][p[2]]
      BY Zenon, <1>3, PairsKept
    <2>2. p[1] \in Handles /\ p[2] \in Handles
      BY Zenon, PairEntries
    <2> QED BY Zenon, <1>3, <2>1, <2>2
  <1>9. OnePlace'
    <2> SUFFICES ASSUME NEW x \in Unique \ Inheritable PROVE OneAt(x)'
      BY DEF OnePlace, OneAt
    <2>1. OneAt(x) /\ x # NoObject
      BY TableConstants DEF Grants, OnePlace, OneAt
    <2>2. Records(x)' \subseteq Records(x) \ {<<b, h>>}
      BY <1>6, <2>1 DEF Records
    <2>3. CASE batch[b].rec[h].obj = x
      <3>1. <<b, h>> \in Records(x) /\ Entries(x)' \subseteq Entries(x) \cup {<<t, s>>}
        <4>1. <<b, h>> \in Records(x)
          BY <2>3 DEF Records
        <4>2. ASSUME NEW u \in Tables, NEW g \in Handles, table'[u][g].obj = x
              PROVE  <<u, g>> \in Entries(x) \cup {<<t, s>>}
          <5>1. table[u][g].obj = x \/ (u = t /\ g = s)
            BY Zenon, <1>3, <4>2
          <5> QED BY <5>1, Members
        <4> QED BY ZenonT(30), <4>1, <4>2, NextEntries
      <3> QED BY <2>1, <2>2, <3>1, HolderMoves
    <2>4. CASE batch[b].rec[h].obj # x
      <3>1. Entries(x)' \subseteq Entries(x)
        <4> SUFFICES ASSUME NEW u \in Tables, NEW g \in Handles, table'[u][g].obj = x
                     PROVE  <<u, g>> \in Entries(x)
          BY Zenon, NextEntries
        <4>1. table[u][g].obj = x
          BY Zenon, <1>3, <2>4
        <4> QED BY Zenon, <4>1, Members
      <3> QED BY Zenon, <2>1, <2>2, <3>1, HolderMoves
    <2> QED BY <2>3, <2>4
  <1> QED BY <1>7, <1>8, <1>9 DEF Grants

LEMMA NextGrants == IInv /\ Reservations /\ Grants /\ [Next]_vars => Grants'
  <1> SUFFICES ASSUME IInv, Reservations, Grants, [Next]_vars PROVE Grants'
    OBVIOUS
  <1>1. ASSUME NEW t \in Tables, TableStep(t) PROVE Grants'
    BY Zenon, <1>1, GrantsOfQuiet, GrantsOfInstall, GrantsOfDuplicate, GrantsOfRestrict, GrantsOfPair, GrantsOfClone DEF TableStep
  <1>2. ASSUME NEW b \in Batches, BatchStep(b) PROVE Grants'
    <2>1. batch[b].phase \in {"taken", "kernel"} => batch[b].from \in Tables
      BY DEF IInv, BatchShape
    <2> QED BY ZenonT(30), <1>2, <2>1, GrantsOfTake, GrantsOfRestore, GrantsOfTransfer, GrantsOfSlots, GrantsOfActivate
            DEF BatchStep, restore_native_batch, execute_kernel_dispatch
  <1>3. CASE UNCHANGED vars
    BY Zenon, <1>3, GrantsSame DEF vars
  <1> QED BY <1>1, <1>2, <1>3 DEF Next

----------------------------------------------------------------------------
(* Theorems *)

LEMMA InitCapabilities == Init => Reservations /\ Grants
  <1> SUFFICES ASSUME Init PROVE Reservations /\ Grants
    OBVIOUS
  <1>1. /\ \A t \in Tables : restricts[t] = {}
        /\ \A t \in Tables, h \in Handles : table[t][h].obj = NoObject
        /\ \A b \in Batches : batch[b].phase = "idle"
        /\ \A b \in Batches, h \in Handles : batch[b].rec[h].obj = NoObject
    BY DEF Init, Absent, IdleBatch, NoRecords, NoRecord
  <1>2. Reservations
    BY Zenon, <1>1 DEF Reservations, SlotsReserved, SlotsApart, ReceiverBorn, PairsPrepared, PairsApart, PairsOfLive, Receiving
  <1>3. EntriesWithin /\ RecordsWithin /\ PairsWithin
    BY Zenon, <1>1 DEF EntriesWithin, RecordsWithin, PairsWithin, Within
  <1>4. OnePlace
    <2>1. \A o \in Unique \ Inheritable : Entries(o) = {} /\ Records(o) = {}
      BY <1>1, TableConstants DEF Entries, Records
    <2> QED BY Zenon, <2>1 DEF OnePlace
  <1> QED BY <1>2, <1>3, <1>4 DEF Grants

\* The slots of a receive and of a restriction stay reserved until the call
\* that reserved them activates or drops them (reserve_native,
\* activate_native, restrict_native of resource.cc).
THEOREM ReservationsHold == Spec => []ReservedSlotsIntact
  <1>1. Reservations => ReservedSlotsIntact
    BY DEF Reservations, SlotsReserved, PairsPrepared, Receiving, ReservedSlotsIntact
  <1> QED BY <1>1, InitCapabilities, AlwaysIInv, NextReservations, PTL DEF Spec

\* No operation on capabilities amplifies rights, and a unique capability
\* that fork does not hand on is held in one place (resource.cc).
THEOREM RightsNeverGrow == Spec => []HeldAsGranted
  <1>1. Grants => HeldAsGranted
    <2> SUFFICES ASSUME Grants PROVE HeldAsGranted
      OBVIOUS
    <2>1. WithinGrant
      BY Zenon DEF Grants, EntriesWithin, RecordsWithin, Within, WithinGrant
    <2>2. ASSUME NEW o \in Unique \ Inheritable PROVE Cardinality(Holders(o)) <= 1
      <3>1. Holders(o) = Entries(o) \cup Records(o)
        BY DEF Holders, Entries, Records
      <3>2. \A p, q \in Holders(o) : p = q
        BY <3>1 DEF Grants, OnePlace
      <3>3. Holders(o) = {} \/ \E p : Holders(o) = {p}
        BY <3>2
      <3>4. CASE Holders(o) = {}
        BY <3>4, FS_EmptySet
      <3>5. ASSUME NEW p, Holders(o) = {p} PROVE Cardinality(Holders(o)) <= 1
        BY <3>5, FS_Singleton
      <3> QED BY <3>3, <3>4, <3>5
    <2> QED BY <2>1, <2>2 DEF HeldAsGranted
  <1> QED BY <1>1, InitCapabilities, AlwaysIInv, NextReservations, NextGrants, PTL DEF Spec
=============================================================================
