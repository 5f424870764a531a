-------------------------- MODULE DataPlane_proofs --------------------------
(***************************************************************************)
(* EachRecordOnce, for any number of workers and slots.                    *)
(*                                                                         *)
(* The property is not inductive: a commit appends the copy its worker     *)
(* took at the claim, which is the record at the head only because no      *)
(* other worker moves the head while the claim is held, and because a push *)
(* never writes the slot at the head of a ring that is not empty.  RingInv *)
(* says both, and ties the tail, where a push writes, to head and count.   *)
(***************************************************************************)
EXTENDS DataPlane, TLAPS

Record == [size : Nat, id : Nat]

RingType ==
  ring \in [slots : [0..(Slots - 1) -> Record], head : 0..(Slots - 1), tail : 0..(Slots - 1),
            count : 0..Slots, pop_claimed : BOOLEAN, pushed : Seq(Record), popped : Seq(Record)]

Idle(w) == dpWork[w] = DpIdle

\* What a worker between claim and commit relies on.
Claims(w) ==
  /\ dpWork[w] = [at |-> "claimed", snapshot |-> ring.slots[ring.head], capacity |-> dpWork[w].capacity]
  /\ ring.pop_claimed /\ ring.count > 0

ClaimHeld ==
  /\ dpWork = [w \in DpWorkers |-> dpWork[w]]
  /\ \A w \in DpWorkers : Idle(w) \/ Claims(w)
  /\ \A v, w \in DpWorkers : Idle(v) \/ Idle(w) \/ v = w

\* A position of the ring, without the modulo.
Wrap(x) == IF x < Slots THEN x ELSE x - Slots

\* EachRecordOnce, record by record.
Ordered(slots, head, count, pushed, popped) ==
  /\ Len(pushed) = Len(popped) + count
  /\ \A k \in 1..Len(popped) : pushed[k] = popped[k]
  /\ \A k \in 1..count : pushed[Len(popped) + k] = slots[Wrap(head + k - 1)]
InOrder == Ordered(ring.slots, ring.head, ring.count, ring.pushed, ring.popped)

RingInv == RingType /\ ring.tail = Wrap(ring.head + ring.count) /\ ClaimHeld /\ InOrder

-----------------------------------------------------------------------------
(* Positions of the ring: h is the head, c the count.                      *)
LEMMA Modulo ==
  ASSUME NEW x \in 0..(2 * Slots - 1)
  PROVE  x % Slots = Wrap(x)
  BY DataPlaneConstants, SMT DEF Wrap

LEMMA WrapType ==
  ASSUME NEW x \in 0..(2 * Slots - 1)
  PROVE  Wrap(x) \in 0..(Slots - 1)
  BY DataPlaneConstants DEF Wrap

LEMMA WrapTail ==
  ASSUME NEW h \in 0..(Slots - 1), NEW c \in 0..(Slots - 1)
  PROVE  /\ h + c \in 0..(2 * Slots - 1) /\ Wrap(h + c) + 1 \in 0..(2 * Slots - 1)
         /\ Wrap(Wrap(h + c) + 1) = Wrap(h + (c + 1))
         /\ c > 0 => Wrap(h + c) # h
  BY DataPlaneConstants DEF Wrap

LEMMA WrapApart ==
  ASSUME NEW h \in 0..(Slots - 1), NEW c \in 0..(Slots - 1), NEW k \in 1..c
  PROVE  Wrap(h + k - 1) # Wrap(h + c)
  BY DataPlaneConstants DEF Wrap

LEMMA WrapHead ==
  ASSUME NEW h \in 0..(Slots - 1), NEW c \in 1..Slots
  PROVE  /\ h + 1 \in 0..(2 * Slots - 1) /\ Wrap(h) = h
         /\ Wrap(Wrap(h + 1) + (c - 1)) = Wrap(h + c)
         /\ \A k \in 1..(c - 1) : /\ Wrap(Wrap(h + 1) + k - 1) = Wrap(h + (k + 1) - 1)
                                  /\ Wrap(h + (k + 1) - 1) # h
  BY DataPlaneConstants DEF Wrap

LEMMA WrapInside ==
  ASSUME NEW h \in 0..(Slots - 1), NEW c \in 0..Slots, NEW k \in 1..c
  PROVE  /\ h + k - 1 \in 0..(2 * Slots - 1) /\ (h + k - 1) % Slots = Wrap(h + k - 1)
         /\ Wrap(h + k - 1) \in 0..(Slots - 1)
  <1>1. h + k - 1 \in 0..(2 * Slots - 1)
    BY DataPlaneConstants
  <1> QED BY <1>1, Modulo, WrapType

(* Sequences                                                               *)
LEMMA SeqEqual ==
  ASSUME NEW s \in Seq(Record), NEW t \in Seq(Record), Len(s) = Len(t), \A k \in 1..Len(s) : s[k] = t[k]
  PROVE  s = t
  OBVIOUS

LEMMA FunSeq ==
  ASSUME NEW n \in Nat, NEW f \in [1..n -> Record]
  PROVE  f \in Seq(Record) /\ Len(f) = n
  OBVIOUS

LEMMA ConcatAt ==
  ASSUME NEW s \in Seq(Record), NEW t \in Seq(Record)
  PROVE  /\ s \o t \in Seq(Record) /\ Len(s \o t) = Len(s) + Len(t)
         /\ \A k \in 1..Len(s) : (s \o t)[k] = s[k]
         /\ \A k \in 1..Len(t) : (s \o t)[Len(s) + k] = t[k]
  OBVIOUS

LEMMA AppendAt ==
  ASSUME NEW s \in Seq(Record), NEW e \in Record
  PROVE  /\ Append(s, e) \in Seq(Record) /\ Len(Append(s, e)) = Len(s) + 1
         /\ \A k \in 1..Len(s) : Append(s, e)[k] = s[k]
         /\ Append(s, e)[Len(s) + 1] = e
  OBVIOUS

(* What a push and a commit do to the records, in order.                   *)
LEMMA PushOrdered ==
  ASSUME NEW slots \in [0..(Slots - 1) -> Record], NEW h \in 0..(Slots - 1), NEW c \in 0..(Slots - 1),
         NEW pushed \in Seq(Record), NEW popped \in Seq(Record), NEW record \in Record,
         Ordered(slots, h, c, pushed, popped)
  PROVE  Ordered([slots EXCEPT ![Wrap(h + c)] = record], h, c + 1, Append(pushed, record), popped)
  <1> DEFINE after == [slots EXCEPT ![Wrap(h + c)] = record]
             n == Len(popped)
  <1>1. n \in Nat /\ Len(pushed) = n + c /\ Wrap(h + c) \in 0..(Slots - 1)
    BY WrapTail, WrapType DEF Ordered
  <1>2. /\ Len(Append(pushed, record)) = n + (c + 1)
        /\ \A k \in 1..(n + c) : Append(pushed, record)[k] = pushed[k]
        /\ Append(pushed, record)[n + (c + 1)] = record
    BY <1>1, AppendAt
  <1>3. \A k \in 1..n : Append(pushed, record)[k] = popped[k]
    BY <1>1, <1>2 DEF Ordered
  <1>4. ASSUME NEW k \in 1..(c + 1)
        PROVE  Append(pushed, record)[n + k] = after[Wrap(h + k - 1)]
    <2>1. CASE k = c + 1
      <3>1. h + k - 1 = h + c
        BY <2>1
      <3> QED BY <3>1, <2>1, <1>1, <1>2
    <2>2. CASE k \in 1..c
      <3>1. Wrap(h + k - 1) # Wrap(h + c) /\ Wrap(h + k - 1) \in 0..(Slots - 1)
        <4>1. c \in 0..Slots
          BY DataPlaneConstants
        <4>2. Wrap(h + k - 1) \in 0..(Slots - 1)
          BY Zenon, <4>1, <2>2, WrapInside
        <4>3. Wrap(h + k - 1) # Wrap(h + c)
          BY Zenon, <2>2, WrapApart
        <4> QED BY <4>2, <4>3
      <3>2. Append(pushed, record)[n + k] = pushed[n + k] /\ pushed[n + k] = slots[Wrap(h + k - 1)]
        <4>1. n + k \in 1..(n + c)
          BY <2>2, <1>1
        <4> HIDE DEF n
        <4>2. Append(pushed, record)[n + k] = pushed[n + k]
          BY Zenon, <4>1, <1>2
        <4>3. pushed[n + k] = slots[Wrap(h + k - 1)]
          BY <2>2 DEF Ordered, n
        <4> QED BY <4>2, <4>3 DEF n
      <3>3. after[Wrap(h + k - 1)] = slots[Wrap(h + k - 1)]
        BY <3>1
      <3> HIDE DEF after, n
      <3> QED BY <3>2, <3>3
    <2>3. k = c + 1 \/ k \in 1..c
      OBVIOUS
    <2> HIDE DEF after, n
    <2> QED BY Zenon, <2>1, <2>2, <2>3
  <1> HIDE DEF after
  <1>5. Ordered(after, h, c + 1, Append(pushed, record), popped)
    BY Zenon, <1>2, <1>3, <1>4 DEF Ordered
  <1> QED BY <1>5 DEF after

LEMMA PopOrdered ==
  ASSUME NEW slots \in [0..(Slots - 1) -> Record], NEW h \in 0..(Slots - 1), NEW c \in 1..Slots,
         NEW pushed \in Seq(Record), NEW popped \in Seq(Record), NEW none \in Record,
         Ordered(slots, h, c, pushed, popped)
  PROVE  Ordered([slots EXCEPT ![h] = none], Wrap(h + 1), c - 1, pushed, Append(popped, slots[h]))
  <1> DEFINE after == [slots EXCEPT ![h] = none]
             gone == Append(popped, slots[h])
             n == Len(popped)
  <1>1. n \in Nat /\ Len(pushed) = n + c /\ slots[h] \in Record
    BY DEF Ordered
  <1>2. /\ Len(gone) = n + 1
        /\ \A k \in 1..n : gone[k] = popped[k]
        /\ gone[n + 1] = slots[h]
    BY <1>1, AppendAt
  <1>3. pushed[n + 1] = slots[h]
    <2>1. h + 1 - 1 = h /\ Wrap(h) = h /\ 1 \in 1..c
      BY WrapHead
    <2> QED BY <2>1 DEF Ordered
  <1>4. \A k \in 1..(n + 1) : pushed[k] = gone[k]
    BY <1>1, <1>2, <1>3 DEF Ordered
  <1>5. ASSUME NEW k \in 1..(c - 1)
        PROVE  pushed[(n + 1) + k] = after[Wrap(Wrap(h + 1) + k - 1)]
    <2>1. k + 1 \in 1..c /\ (n + 1) + k = n + (k + 1)
      BY <1>1
    <2>2. pushed[n + (k + 1)] = slots[Wrap(h + (k + 1) - 1)]
      BY Zenon, <2>1 DEF Ordered
    <2>3. Wrap(Wrap(h + 1) + k - 1) = Wrap(h + (k + 1) - 1) /\ Wrap(h + (k + 1) - 1) # h
      BY WrapHead
    <2>4. Wrap(h + (k + 1) - 1) \in 0..(Slots - 1)
      <3>1. c \in 0..Slots
        BY DataPlaneConstants
      <3> QED BY Zenon, <2>1, <3>1, WrapInside
    <2> QED BY <2>1, <2>2, <2>3, <2>4
  <1> HIDE DEF after, gone
  <1>6. Ordered(after, Wrap(h + 1), c - 1, pushed, gone)
    BY <1>1, <1>2, <1>4, <1>5 DEF Ordered
  <1> QED BY <1>6 DEF after, gone

(* The fields of a ring that has its type.                                 *)
LEMMA RingFields ==
  ASSUME RingType
  PROVE  /\ Slots \in Nat \ {0}
         /\ ring.slots \in [0..(Slots - 1) -> Record]
         /\ ring.head \in 0..(Slots - 1) /\ ring.tail \in 0..(Slots - 1)
         /\ ring.count \in 0..Slots /\ ring.pop_claimed \in BOOLEAN
         /\ ring.pushed \in Seq(Record) /\ ring.popped \in Seq(Record)
         /\ Len(ring.pushed) \in Nat /\ Len(ring.popped) \in Nat
  BY DataPlaneConstants DEF RingType

(* The sequence the property builds is the one InOrder describes.          *)
LEMMA InOrderSuffices ==
  ASSUME RingType, InOrder
  PROVE  EachRecordOnce
  <1> DEFINE rest == [k \in 1..ring.count |-> ring.slots[(ring.head + k - 1) % Slots]]
             whole == ring.popped \o rest
  <1>1. \A k \in 1..ring.count : /\ Wrap(ring.head + k - 1) \in 0..(Slots - 1)
                                 /\ (ring.head + k - 1) % Slots = Wrap(ring.head + k - 1)
    BY Zenon, RingFields, WrapInside
  <1>2. rest \in [1..ring.count -> Record]
    BY Zenon, <1>1, RingFields
  <1>3. rest \in Seq(Record) /\ Len(rest) = ring.count
    <2> HIDE DEF rest
    <2>1. ring.count \in Nat
      BY RingFields
    <2> QED BY <1>2, <2>1, FunSeq
  <1>4. /\ whole \in Seq(Record) /\ Len(whole) = Len(ring.popped) + ring.count
        /\ \A k \in 1..Len(ring.popped) : whole[k] = ring.popped[k]
        /\ \A k \in 1..ring.count : whole[Len(ring.popped) + k] = rest[k]
    <2> HIDE DEF rest
    <2>1. /\ ring.popped \o rest \in Seq(Record) /\ Len(ring.popped \o rest) = Len(ring.popped) + Len(rest)
          /\ \A k \in 1..Len(ring.popped) : (ring.popped \o rest)[k] = ring.popped[k]
          /\ \A k \in 1..Len(rest) : (ring.popped \o rest)[Len(ring.popped) + k] = rest[k]
      BY Zenon, <1>3, RingFields, ConcatAt
    <2> QED BY <2>1, <1>3
  <1>5. \A k \in 1..ring.count : rest[k] = ring.pushed[Len(ring.popped) + k]
    BY <1>1 DEF InOrder, Ordered
  <1>6. ASSUME NEW k \in 1..Len(ring.pushed)
        PROVE  whole[k] = ring.pushed[k]
    <2> HIDE DEF rest, whole
    <2>1. CASE k \in 1..Len(ring.popped)
      BY <2>1, <1>4 DEF InOrder, Ordered
    <2>2. CASE k \notin 1..Len(ring.popped)
      <3>1. PICK j \in 1..ring.count : k = Len(ring.popped) + j
        <4>1. k - Len(ring.popped) \in 1..ring.count /\ k = Len(ring.popped) + (k - Len(ring.popped))
          BY <2>2, RingFields DEF InOrder, Ordered
        <4> QED BY <4>1
      <3> QED BY <3>1, <1>4, <1>5
    <2> QED BY <2>1, <2>2
  <1>7. whole = ring.pushed
    <2> HIDE DEF whole
    <2>1. Len(whole) = Len(ring.pushed)
      BY <1>4 DEF InOrder, Ordered
    <2> QED BY ZenonT(30), <2>1, <1>4, <1>6, RingFields, SeqEqual
  <1> QED BY Zenon, <1>7 DEF EachRecordOnce

-----------------------------------------------------------------------------
LEMMA RingInit == DpInit => RingInv
  <1> SUFFICES ASSUME DpInit PROVE RingInv
    OBVIOUS
  <1>1. ring = [slots |-> [k \in 0..(Slots - 1) |-> NoRecord], head |-> 0, tail |-> 0, count |-> 0,
                pop_claimed |-> FALSE, pushed |-> << >>, popped |-> << >>]
    BY DEF DpInit, shared_ring
  <1>2. RingType
    BY <1>1, DataPlaneConstants DEF RingType, Record, NoRecord
  <1>3. ring.tail = Wrap(ring.head + ring.count) /\ InOrder
    BY <1>1, DataPlaneConstants DEF Wrap, InOrder, Ordered
  <1>4. ClaimHeld
    BY DEF DpInit, ClaimHeld, Idle
  <1> QED BY <1>2, <1>3, <1>4 DEF RingInv

(* A record goes into the slot at the tail, which no record in the ring    *)
(* occupies; the head, and what a claim has copied, stay.                  *)
LEMMA PushKeeps ==
  ASSUME RingInv, NEW size \in Sizes, ring_push(size)
  PROVE  RingInv'
  <1> DEFINE record == [size |-> size, id |-> Len(ring.pushed) + 1]
             n == Len(ring.popped)
  <1>1. RingType /\ ClaimHeld /\ InOrder /\ ring.tail = Wrap(ring.head + ring.count)
    BY DEF RingInv
  <1>2. record \in Record /\ dpWork' = dpWork
    BY <1>1, RingFields, DataPlaneConstants DEF Record, ring_push
  <1>3. CASE ring' = ring
    BY <1>1, <1>2, <1>3 DEF RingInv, RingType, ClaimHeld, Claims, Idle, InOrder
  <1>4. CASE ring' # ring
    <2>1. /\ ring.count \in 0..(Slots - 1)
          /\ ring' = [ring EXCEPT !.slots[ring.tail] = record, !.tail = (@ + 1) % Slots,
                                  !.count = @ + 1, !.pushed = Append(@, record)]
      BY <1>1, <1>4, RingFields DEF ring_push, push, WouldBlock
    <2>2. /\ ring.tail + 1 \in 0..(2 * Slots - 1) /\ ring.tail \in 0..(Slots - 1)
          /\ Wrap(ring.tail + 1) = Wrap(ring.head + (ring.count + 1))
          /\ ring.count > 0 => ring.tail # ring.head
          /\ \A k \in 1..ring.count : Wrap(ring.head + k - 1) # ring.tail
      <3>1. PICK h \in 0..(Slots - 1), c \in 0..(Slots - 1) : h = ring.head /\ c = ring.count
        BY <1>1, <2>1, RingFields
      <3>2. ring.tail = Wrap(h + c)
        BY <1>1, <3>1
      <3>3. /\ h + c \in 0..(2 * Slots - 1) /\ Wrap(h + c) + 1 \in 0..(2 * Slots - 1)
            /\ Wrap(Wrap(h + c) + 1) = Wrap(h + (c + 1))
            /\ c > 0 => Wrap(h + c) # h
            /\ \A k \in 1..c : Wrap(h + k - 1) # Wrap(h + c)
        BY Zenon, WrapTail, WrapApart
      <3>4. Wrap(h + c) \in 0..(Slots - 1)
        BY <3>3, WrapType
      <3> QED BY <3>1, <3>2, <3>3, <3>4
    <2>3. (ring.tail + 1) % Slots = Wrap(ring.tail + 1) /\ Wrap(ring.tail + 1) \in 0..(Slots - 1)
      BY <2>2, Modulo, WrapType
    <2>4. ring' = [slots |-> [ring.slots EXCEPT ![ring.tail] = record], head |-> ring.head,
                   tail |-> Wrap(ring.tail + 1), count |-> ring.count + 1,
                   pop_claimed |-> ring.pop_claimed, pushed |-> Append(ring.pushed, record),
                   popped |-> ring.popped]
      BY Zenon, <2>1, <2>3, <1>1 DEF RingType
    <2>5. RingType'
      <3> HIDE DEF record
      <3>1. [ring.slots EXCEPT ![ring.tail] = record] \in [0..(Slots - 1) -> Record]
        BY <1>1, <1>2, RingFields
      <3>2. ring.count + 1 \in 0..Slots /\ Append(ring.pushed, record) \in Seq(Record)
        BY <1>1, <1>2, <2>1, RingFields, AppendAt
      <3> QED BY <3>1, <3>2, <2>3, <2>4, <1>1, RingFields DEF RingType
    <2>6. ring'.tail = Wrap(ring'.head + ring'.count)
      BY <2>4, <2>2
    <2>7. ClaimHeld'
      <3>1. \A w \in DpWorkers : Claims(w) => Claims(w)'
        <4> HIDE DEF record
        <4> SUFFICES ASSUME NEW w \in DpWorkers, Claims(w) PROVE Claims(w)'
          OBVIOUS
        <4>1. ring.head # ring.tail /\ ring.count > 0
          BY <2>2 DEF Claims
        <4>2. ring'.slots[ring'.head] = ring.slots[ring.head] /\ ring'.pop_claimed = ring.pop_claimed
          BY Zenon, <4>1, <2>2, <2>4, <1>1, RingFields
        <4>3. ring'.count > 0
          BY <4>1, <2>1, <2>4
        <4> QED BY <4>2, <4>3, <1>2 DEF Claims
      <3>2. \A w \in DpWorkers : Idle(w)' <=> Idle(w)
        BY <1>2 DEF Idle
      <3> QED BY <3>1, <3>2, <1>1, <1>2 DEF ClaimHeld
    <2>8. InOrder'
      <3> HIDE DEF record
      <3>1. Ordered([ring.slots EXCEPT ![Wrap(ring.head + ring.count)] = record], ring.head, ring.count + 1,
                    Append(ring.pushed, record), ring.popped)
        BY Zenon, <1>1, <1>2, <2>1, RingFields, PushOrdered DEF InOrder
      <3>2. Ordered(ring'.slots, ring'.head, ring'.count, ring'.pushed, ring'.popped)
        BY <3>1, <2>4, <1>1
      <3> QED BY <3>2 DEF InOrder
    <2> QED BY <2>5, <2>6, <2>7, <2>8 DEF RingInv
  <1> QED BY <1>3, <1>4

(* A claim copies the record at the head, and no other worker has one.     *)
LEMMA ClaimKeeps ==
  ASSUME RingInv, NEW w \in DpWorkers, NEW capacity \in Sizes, ring_pop_claim(w, capacity)
  PROVE  RingInv'
  <1>1. RingType /\ ClaimHeld /\ InOrder /\ ring.tail = Wrap(ring.head + ring.count)
    BY DEF RingInv
  <1>2. ring.count > 0 /\ ring.pop_claimed = FALSE
    BY <1>1, RingFields DEF ring_pop_claim, claim_pop
  <1>3. ring' = [slots |-> ring.slots, head |-> ring.head, tail |-> ring.tail, count |-> ring.count,
                 pop_claimed |-> TRUE, pushed |-> ring.pushed, popped |-> ring.popped]
    BY Zenon, <1>1 DEF ring_pop_claim, RingType
  <1>4. RingType' /\ InOrder' /\ ring'.tail = Wrap(ring'.head + ring'.count)
    BY <1>1, <1>3, RingFields DEF RingType, InOrder
  <1>5. \A v \in DpWorkers : Idle(v)
    BY <1>1, <1>2 DEF ClaimHeld, Claims
  <1>6. dpWork' = [dpWork EXCEPT ![w] = [at |-> "claimed", snapshot |-> ring.slots[ring.head], capacity |-> capacity]]
    BY DEF ring_pop_claim
  <1>7. ClaimHeld'
    BY <1>1, <1>2, <1>3, <1>5, <1>6 DEF ClaimHeld, Claims, Idle
  <1> QED BY <1>4, <1>7 DEF RingInv

(* A cancel gives the claim back; a commit takes the record at the head,   *)
(* which is the copy.                                                      *)
LEMMA FinishKeeps ==
  ASSUME RingInv, NEW w \in DpWorkers, ring_pop_finish(w)
  PROVE  RingInv'
  <1>1. RingType /\ ClaimHeld /\ InOrder /\ ring.tail = Wrap(ring.head + ring.count)
    BY DEF RingInv
  <1>2. Claims(w) /\ \A v \in DpWorkers : v # w => Idle(v)
    BY <1>1 DEF ClaimHeld, Idle, DpIdle, ring_pop_finish
  <1>3. dpWork[w].snapshot = ring.slots[ring.head] /\ ring.pop_claimed /\ ring.count \in 1..Slots
    <2>1. dpWork[w].snapshot = ring.slots[ring.head] /\ ring.pop_claimed /\ ring.count > 0
      BY SMTT(20), <1>2 DEF Claims
    <2> QED BY <1>1, <2>1, RingFields
  <1>4. ClaimHeld'
    <2>1. dpWork' = [dpWork EXCEPT ![w] = DpIdle]
      BY DEF ring_pop_finish
    <2> QED BY <2>1, <1>1, <1>2 DEF ClaimHeld, Idle
  <1>5. CASE ring' = cancel_pop(ring)
    <2>1. ring' = [slots |-> ring.slots, head |-> ring.head, tail |-> ring.tail, count |-> ring.count,
                   pop_claimed |-> FALSE, pushed |-> ring.pushed, popped |-> ring.popped]
      BY Zenon, <1>1, <1>5 DEF cancel_pop, RingType
    <2>2. RingType' /\ InOrder' /\ ring'.tail = Wrap(ring'.head + ring'.count)
      BY <1>1, <2>1, RingFields DEF RingType, InOrder
    <2> QED BY <1>4, <2>2 DEF RingInv
  <1>6. CASE ring' = commit_pop(ring, dpWork[w].snapshot)
    <2>1. PICK h \in 0..(Slots - 1), c \in 1..Slots : h = ring.head /\ c = ring.count
      BY <1>1, <1>3, RingFields
    <2>2. /\ h + 1 \in 0..(2 * Slots - 1)
          /\ Wrap(Wrap(h + 1) + (c - 1)) = Wrap(h + c)
      BY WrapHead
    <2>3. (h + 1) % Slots = Wrap(h + 1) /\ Wrap(h + 1) \in 0..(Slots - 1)
      BY <2>2, Modulo, WrapType
    <2>4. ring' = [slots |-> [ring.slots EXCEPT ![h] = NoRecord], head |-> Wrap(h + 1),
                   tail |-> ring.tail, count |-> c - 1, pop_claimed |-> FALSE,
                   pushed |-> ring.pushed, popped |-> Append(ring.popped, ring.slots[h])]
      <3>1. ring' = [ring EXCEPT !.slots[ring.head] = NoRecord, !.head = (ring.head + 1) % Slots,
                                 !.count = ring.count - 1, !.pop_claimed = FALSE,
                                 !.popped = Append(ring.popped, ring.slots[ring.head])]
        BY <1>1, <1>3, <1>6, RingFields DEF commit_pop
      <3>2. (ring.head + 1) % Slots = Wrap(h + 1)
        BY <2>1, <2>3
      <3> QED BY Zenon, <3>1, <3>2, <2>1, <1>1 DEF RingType
    <2>5. NoRecord \in Record /\ ring.slots[h] \in Record
      BY Zenon, <1>1, RingFields DEF NoRecord, Record
    <2>6. RingType'
      <3>1. [ring.slots EXCEPT ![h] = NoRecord] \in [0..(Slots - 1) -> Record]
        BY SMTT(20), <2>5, <1>1, RingFields
      <3>2. c - 1 \in 0..Slots /\ Append(ring.popped, ring.slots[h]) \in Seq(Record)
        BY <2>5, <1>1, RingFields, AppendAt
      <3> QED BY <3>1, <3>2, <2>3, <2>4, <1>1, RingFields DEF RingType
    <2>7. ring'.tail = Wrap(ring'.head + ring'.count)
      BY <1>1, <2>1, <2>2, <2>4
    <2>8. InOrder'
      BY Zenon, <1>1, <2>1, <2>4, <2>5, RingFields, PopOrdered DEF InOrder
    <2> QED BY <2>6, <2>7, <2>8, <1>4 DEF RingInv
  <1> QED BY <1>5, <1>6 DEF ring_pop_finish

(* Each record pushed into a ring is popped once and in order, whatever    *)
(* workers meet between claim_pop and commit_pop (shared_ring).            *)
THEOREM RecordsOnce == DpSpec => []EachRecordOnce
  <1>1. RingInv /\ [DpNext]_dpVars => RingInv'
    <2> SUFFICES ASSUME RingInv, [DpNext]_dpVars PROVE RingInv'
      OBVIOUS
    <2>1. ASSUME NEW size \in Sizes, ring_push(size) PROVE RingInv'
      BY <2>1, PushKeeps
    <2>2. ASSUME NEW w \in DpWorkers, NEW capacity \in Sizes, ring_pop_claim(w, capacity) PROVE RingInv'
      BY <2>2, ClaimKeeps
    <2>3. ASSUME NEW w \in DpWorkers, ring_pop_finish(w) PROVE RingInv'
      BY <2>3, FinishKeeps
    <2>4. CASE UNCHANGED <<ring, dpWork>>
      BY <2>4 DEF RingInv, RingType, InOrder, ClaimHeld, Claims, Idle
    <2> QED BY Zenon, <2>1, <2>2, <2>3, <2>4 DEF DpNext, dpVars, memory_write
  <1>2. RingInv => EachRecordOnce
    BY InOrderSuffices DEF RingInv
  <1> QED BY <1>1, <1>2, RingInit, PTL DEF DpSpec
=============================================================================
