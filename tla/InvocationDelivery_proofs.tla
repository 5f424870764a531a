--------------------- MODULE InvocationDelivery_proofs ----------------------
(***************************************************************************)
(* The delivery of object calls, for any number of calls and threads: a    *)
(* request is delivered once, the kernel reports NOT_DELIVERED only for a  *)
(* request that nobody has seen, and the machinery implements ObjectCall.  *)
(*                                                                         *)
(* DInv is the invariant: what a thread carries is neither shown twice nor *)
(* reported as undelivered while it is on its way.                         *)
(***************************************************************************)
EXTENDS InvocationSteps_proofs

\* Steps of the other parties leave the threads that carry calls alone.
LEMMA OthersDeliver ==
  ASSUME QInv, DInv, Next, ~ Receiving, ~ Dispatching
  PROVE  DInv'
  <1>1. /\ \A r \in Receivers : pc'[r] = pc[r] /\ on'[r] = on[r]
        /\ \A k \in KernelWorkers : pc'[k] = pc[k] /\ on'[k] = on[k]
    BY HeadStays, KernelApart
  <1>2. /\ \A r \in Receivers : ~ Turning(r) /\ ~ activate(r)
        /\ \A k \in KernelWorkers : ~ KernelTurning(k) /\ ~ mark_dispatched(k)
    BY DEF Receiving, ReceiveStep, Dispatching, KernelStep, Turning, KernelTurning
  <1>3. executed' = executed /\ Tabled
    BY <1>2, ShowsStep, TableStep
  <1>4. Servers'
    <2>1. \A w \in Workers : pc'[w] # "idle" => executed'[on'[w]]
      BY <1>3, WorkersCarry
    <2>2. Servers
      BY DEF DInv
    <2> QED BY <1>1, <1>3, <2>1, <2>2 DEF Servers
  <1>5. ASSUME NEW c \in Calls
        PROVE  Delivery(c)'
    <2>1. inv'[c].phase = inv[c].phase \/ Complete(inv'[c]) \/ submit(c)
      BY <1>2, PhaseStays
    <2>2. Active(c)' => Active(c)
      BY <1>1 DEF Active
    <2>3. inv[c].phase = "receiving" => (Arriving(c) \/ \E r \in Receivers : on[r] = c /\ pc[r] = "activated")'
      <3>1. inv[c].phase = "receiving" => Arriving(c) \/ \E r \in Receivers : on[r] = c /\ pc[r] = "activated"
        BY DEF DInv, Delivery
      <3> QED BY <1>1, <3>1 DEF Arriving
    <2>4. (\E r \in Receivers : on[r] = c /\ pc[r] \in Delivered) => \E r \in Receivers : on'[r] = c /\ pc'[r] \in Delivered
      BY <1>1
    <2>5. Calm(c)
      BY <1>3, <2>1, <2>2, <2>3, <2>4 DEF Calm
    <2> QED BY <1>3, <2>5, DeliveryStays DEF Tabled
  <1> QED BY <1>4, <1>5 DEF DInv

Carrying == {"receiving"} \cup Delivered

\* What a step of a receive does to the request that it carries.
LEMMA Carries ==
  ASSUME QInv, NEW r \in Receivers, receive(r) \/ ReceiveStep(r)
  PROVE  \/ pc[r] \notin Carrying /\ ~ Turning(r) /\ \E s \in (Empty \cup Holding) \ Carrying : \E c : Moved(r, s, c)
         \/ begin_receive(r) /\ Turning(r) /\ Moved(r, "receiving", on[r])
         \/ rollback_receive(r) /\ pc[r] = "receiving" /\ \E s \in {"cancelled", "unclaim"} : Moved(r, s, on[r])
         \/ activate(r) /\ pc[r] = "receiving" /\ Moved(r, "activated", on[r])
         \/ finish_dispatch(r) /\ pc[r] = "activated" /\ \E s \in {"dispatched", "closing"} : Moved(r, s, on[r])
         \/ close_delivered(r) /\ pc[r] = "closing" /\ Moved(r, "aborting", on[r])
         \/ commit_claim(r) /\ pc[r] \in {"dispatched", "aborting"} /\ Moved(r, "leaving", NoCall)
  <1>0. ThreadsOK /\ r \in Threads /\ fifo \in Seq(Calls)
    BY DEF QInv, Threads, TypeOK
  <1>1. CASE receive(r) \/ cancel_claim(r) \/ leave(r) \/ discard_claimed(r) \/ claim(r) \/ claim_fails(r) \/ check_claimed(r) \/ rollback_cancelled(r)
    <2>1. pc[r] \notin Carrying
      BY <1>1 DEF receive, cancel_claim, leave, discard_claimed, claim, claim_fails, check_claimed, rollback_cancelled, At, Carrying,
         Delivered
    <2>2. \/ \E s \in {"entering", "leaving", "idle"} : Pick(r, s, NoCall)
          \/ Pick(r, "claimed", Head(fifo)) /\ fifo # <<>>
          \/ \E s \in {"leaving", "discard", "checked", "unclaim"} : Goto(r, s)
      BY <1>1 DEF receive, cancel_claim, leave, discard_claimed, claim, claim_fails, check_claimed, rollback_cancelled, Return
    <2>3. \E s \in {"entering", "leaving", "idle", "claimed", "discard", "checked", "unclaim"} : \E c : Moved(r, s, c)
      <3>1. CASE Pick(r, "claimed", Head(fifo)) /\ fifo # <<>>
        BY <1>0, <3>1, Moving
      <3> QED BY <1>0, <2>2, <3>1, Moving
    <2>4. ~ Turning(r)
      <3>1. Turning(r) => Goto(r, "receiving")
        BY <2>1 DEF Turning, begin_receive, rollback_receive, finish_dispatch, At, Carrying, Delivered
      <3>2. Goto(r, "receiving") => pc'[r] = "receiving"
        BY <1>0, Moving DEF Moved
      <3> QED BY <2>3, <3>1, <3>2 DEF Moved
    <2> QED BY <2>1, <2>3, <2>4 DEF Empty, Holding, Carrying, Delivered
  <1>2. CASE begin_receive(r)
    <2>1. CASE Receivable(inv[on[r]])
      BY <1>0, <1>2, <2>1, Moving DEF begin_receive, Turning
    <2>2. CASE ~ Receivable(inv[on[r]])
      <3>1. pc[r] = "checked" /\ Goto(r, "discard")
        BY <1>2, <2>2 DEF begin_receive, At
      <3>2. Moved(r, "discard", on[r])
        BY <1>0, <3>1, Moving
      <3>3. ~ Turning(r)
        BY <2>2, <3>1 DEF Turning, rollback_receive, finish_dispatch, At
      <3> QED BY <3>1, <3>2, <3>3 DEF Empty, Holding, Carrying, Delivered
    <2> QED BY <2>1, <2>2
  <1>3. CASE rollback_receive(r)
    BY <1>0, <1>3, Moving DEF rollback_receive, At
  <1>4. CASE activate(r)
    BY <1>0, <1>4, Moving DEF activate, At
  <1>5. CASE finish_dispatch(r)
    BY <1>0, <1>5, Moving DEF finish_dispatch, At
  <1>6. CASE close_delivered(r)
    BY <1>0, <1>6, Moving DEF close_delivered, At
  <1>7. CASE commit_claim(r)
    BY ZenonT(20), <1>0, <1>7, Moving DEF commit_claim, At
  <1> QED BY Zenon, <1>1, <1>2, <1>3, <1>4, <1>5, <1>6, <1>7 DEF ReceiveStep

LEMMA KernelCarries ==
  ASSUME QInv, NEW k \in KernelWorkers, KernelStep(k)
  PROVE  \/ pc[k] \in {"idle", "popped"} /\ ~ KernelTurning(k) /\ \E s \in {"idle", "popped"} : \E c : Moved(k, s, c)
         \/ pc[k] \in Executing /\ ~ KernelTurning(k) /\ \E s \in Executing : Moved(k, s, on[k])
         \/ pc[k] \in Executing /\ ~ KernelTurning(k) /\ Moved(k, "idle", NoCall)
         \/ kernel_begin(k) /\ KernelTurning(k) /\ pc[k] = "popped" /\ Moved(k, "begun", on[k])
         \/ mark_dispatched(k) /\ pc[k] = "begun" /\ Moved(k, "executing", on[k])
  <1>0. ThreadsOK /\ k \in Threads /\ kqueue \in Seq(KernelCalls)
    BY DEF QInv, Threads, TypeOK
  <1>1. CASE pop(k)
    <2>1. Head(kqueue) \in Calls /\ Pick(k, "popped", Head(kqueue)) /\ pc[k] = "idle"
      BY <1>0, <1>1, InvocationConstants DEF pop, At
    <2> QED BY <1>0, <2>1, Moving DEF KernelTurning, kernel_begin, mark_dispatched, At
  <1>2. CASE kernel_begin(k)
    <2>1. CASE Receivable(inv[on[k]])
      BY <1>0, <1>2, <2>1, Moving DEF kernel_begin, KernelTurning, At
    <2>2. CASE ~ Receivable(inv[on[k]])
      <3>1. pc[k] = "popped" /\ Return(k)
        BY <1>2, <2>2 DEF kernel_begin, At
      <3> QED BY <1>0, <2>2, <3>1, Moving DEF KernelTurning, mark_dispatched, At
    <2> QED BY <2>1, <2>2
  <1>3. CASE mark_dispatched(k)
    BY <1>0, <1>3, Moving DEF mark_dispatched, At
  <1>4. CASE kernel_handler(k) \/ execute_kernel_dispatch(k) \/ restore_fails(k)
    <2>1. pc[k] \in Executing /\ (Goto(k, "replied") \/ Goto(k, "error") \/ Return(k))
      BY <1>4 DEF kernel_handler, execute_kernel_dispatch, restore_fails, At, Executing
    <2> QED BY <1>0, <2>1, Moving DEF KernelTurning, kernel_begin, mark_dispatched, At, Executing
  <1> QED BY <1>1, <1>2, <1>3, <1>4 DEF KernelStep

\* A thread that turns or shows a call moves.
LEMMA Changes ==
  ASSUME QInv
  PROVE  /\ \A r \in Receivers : Turning(r) \/ activate(r) => pc'[r] # pc[r]
         /\ \A k \in KernelWorkers : KernelTurning(k) => pc'[k] # pc[k]
  <1>1. ASSUME NEW r \in Receivers, Turning(r) \/ activate(r)
        PROVE  pc'[r] # pc[r]
    <2>1. \E s \in {"receiving", "cancelled", "unclaim", "activated", "dispatched", "closing"} : Goto(r, s) /\ pc[r] # s
      BY <1>1 DEF Turning, activate, begin_receive, rollback_receive, finish_dispatch, At
    <2> QED BY <2>1, Moving DEF QInv, Moved, Threads
  <1>2. ASSUME NEW k \in KernelWorkers, KernelTurning(k)
        PROVE  pc'[k] # pc[k]
    <2>1. \E s \in {"begun", "executing"} : Goto(k, s) /\ pc[k] # s
      BY <1>2 DEF KernelTurning, kernel_begin, mark_dispatched, At
    <2> QED BY <2>1, Moving DEF QInv, Moved, Threads
  <1> QED BY <1>1, <1>2

\* Where a thread carries a call.
CarryPlaces == Carrying \cup {"begun"} \cup Executing

\* The other threads stay where they are, and turn and show nothing.
LEMMA OthersStay ==
  ASSUME QInv, NEW t \in Receivers \cup KernelWorkers, NEW s, NEW d, Moved(t, s, d)
  PROVE  /\ \A r \in Receivers \ {t} : pc'[r] = pc[r] /\ on'[r] = on[r] /\ ~ Turning(r) /\ ~ activate(r)
         /\ \A k \in KernelWorkers \ {t} : pc'[k] = pc[k] /\ on'[k] = on[k] /\ ~ KernelTurning(k) /\ ~ mark_dispatched(k)
  <1>1. \A u \in Threads \ {t} : pc'[u] = pc[u] /\ on'[u] = on[u]
    BY DEF Moved
  <1>2. Receivers \subseteq Threads /\ KernelWorkers \subseteq Threads
    BY DEF Threads
  <1> QED BY <1>1, <1>2, Changes DEF KernelTurning

\* A call that the moving thread does not carry is left alone.
LEMMA CalmElsewhere ==
  ASSUME QInv, DInv, Next, NEW t \in Receivers \cup KernelWorkers, NEW s, NEW d, Moved(t, s, d),
         NEW c \in Calls, executed'[c] = executed[c],
         pc[t] \in CarryPlaces => on[t] # c, s \in CarryPlaces => d # c,
         t \in Receivers => ~ (Turning(t) /\ on[t] = c), t \in KernelWorkers => ~ (KernelTurning(t) /\ on[t] = c)
  PROVE  Calm(c)
  <1>1. pc'[t] = s /\ on'[t] = d
    BY DEF Moved
  <1>2. /\ \A r \in Receivers \ {t} : pc'[r] = pc[r] /\ on'[r] = on[r] /\ ~ Turning(r)
        /\ \A k \in KernelWorkers \ {t} : pc'[k] = pc[k] /\ on'[k] = on[k] /\ ~ KernelTurning(k)
    BY OthersStay
  <1>3. inv'[c].phase = inv[c].phase \/ Complete(inv'[c]) \/ submit(c)
    BY <1>2, PhaseStays
  <1>4. Active(c)' => Active(c)
    BY <1>1, <1>2 DEF Active, CarryPlaces, Carrying
  <1>5. inv[c].phase = "receiving" => (Arriving(c) \/ \E r \in Receivers : on[r] = c /\ pc[r] = "activated")'
    <2>1. inv[c].phase = "receiving" => Arriving(c) \/ \E r \in Receivers : on[r] = c /\ pc[r] = "activated"
      BY DEF DInv, Delivery
    <2>2. \A r \in Receivers : on[r] = c /\ pc[r] \in {"receiving", "activated"} => on'[r] = c /\ pc'[r] = pc[r]
      BY <1>2 DEF CarryPlaces, Carrying, Delivered
    <2>3. \A k \in KernelWorkers : on[k] = c /\ pc[k] = "begun" => on'[k] = c /\ pc'[k] = pc[k]
      BY <1>2 DEF CarryPlaces
    <2> QED BY <2>1, <2>2, <2>3 DEF Arriving
  <1>6. (\E r \in Receivers : on[r] = c /\ pc[r] \in Delivered) => \E r \in Receivers : on'[r] = c /\ pc'[r] \in Delivered
    BY <1>2 DEF CarryPlaces, Carrying
  <1> QED BY <1>3, <1>4, <1>5, <1>6 DEF Calm

\* A call that was not shown.
LEMMA UnshownDelivery ==
  ASSUME QInv, DInv, Next, Tabled, NEW c \in Calls, ~ executed[c], ~ executed'[c], inv'[c].phase # "dispatched",
         inv'[c].phase = "queued" => ~ Active(c)',
         inv'[c].phase = "receiving" => (Arriving(c) \/ \E r \in Receivers : on[r] = c /\ pc[r] = "activated")'
  PROVE  Delivery(c)'
  <1>1. responder'[c] # "table" /\ (expired'[c] => c \in Deadlined)
    BY ZenonT(20), ExpiresStep DEF Tabled, DInv, Delivery
  <1> QED BY <1>1 DEF Delivery

LEMMA ServersStay ==
  ASSUME QInv, DInv, Next, executed' = executed, NEW t \in Receivers \cup KernelWorkers, NEW s, NEW d, Moved(t, s, d),
         s \in Delivered \cup Executing => executed[d],
         s \in {"receiving", "begun"} => ~ executed[d],
         s = "begun" => \A k \in KernelWorkers : ~ (pc[k] = "begun" /\ on[k] = d)
  PROVE  Servers'
  <1>1. pc'[t] = s /\ on'[t] = d
    BY DEF Moved
  <1>2. /\ \A r \in Receivers \ {t} : pc'[r] = pc[r] /\ on'[r] = on[r]
        /\ \A k \in KernelWorkers \ {t} : pc'[k] = pc[k] /\ on'[k] = on[k]
    BY OthersStay
  <1>3. \A w \in Workers : pc'[w] # "idle" => executed'[on'[w]]
    BY WorkersCarry
  <1>4. \A r \in Receivers : (pc'[r] \in Delivered => executed'[on'[r]]) /\ (pc'[r] = "receiving" => ~ executed'[on'[r]])
    BY <1>1, <1>2 DEF DInv, Servers
  <1>5. \A k \in KernelWorkers : (pc'[k] \in Executing => executed'[on'[k]]) /\ (pc'[k] = "begun" => ~ executed'[on'[k]])
    BY <1>1, <1>2 DEF DInv, Servers
  <1>6. \A k, l \in KernelWorkers : pc'[k] = "begun" /\ pc'[l] = "begun" /\ on'[k] = on'[l] => k = l
    BY <1>1, <1>2 DEF DInv, Servers
  <1> QED BY <1>3, <1>4, <1>5, <1>6 DEF Servers

\* A receive past its dispatch has no call in transit.
LEMMA NotInTransit ==
  ASSUME QInv, DInv, NEW r \in Receivers, pc[r] \in Holding \ {"receiving", "activated"}
  PROVE  inv[on[r]].phase # "receiving"
  <1>1. on[r] \in Calls /\ (\A s \in Receivers \ {r} : pc[s] \notin Holding) /\ \A k \in KernelWorkers : pc[k] # "idle" => on[k] # on[r]
    BY OnlyCarrier
  <1>2. ~ Arriving(on[r]) /\ ~ \E s \in Receivers : on[s] = on[r] /\ pc[s] = "activated"
    BY <1>1 DEF Arriving, Holding, Delivered
  <1> QED BY <1>1, <1>2 DEF DInv, Delivery

\* A receive that commits takes the request that it carries out of the queue.
LEMMA CommitPops ==
  ASSUME QInv, NEW r \in Receivers, commit_claim(r), NEW c, c = on[r]
  PROVE  ~ InQueue(c)'
  <1>1. pc[r] \in Holding /\ fifo' = Tail(fifo)
    BY DEF commit_claim, PopClaimed, At, Holding, Delivered
  <1>2. fifo \in Seq(Calls) /\ fifo # <<>> /\ on[r] = fifo[1] /\ \A m, n \in 1 .. Len(fifo) : fifo[m] = fifo[n] => m = n
    BY Zenon, <1>1 DEF QInv, TypeOK, Claim, Queue
  <1>3. Len(fifo') = Len(fifo) - 1 /\ Len(fifo) \in Nat /\ \A n \in 1 .. Len(fifo') : fifo'[n] = fifo[n + 1]
    BY <1>1, <1>2
  <1> QED BY <1>2, <1>3 DEF InQueue

LEMMA ReceiverDelivers ==
  ASSUME QInv, DInv, Next, NEW r \in Receivers, receive(r) \/ ReceiveStep(r), ~ activate(r)
  PROVE  DInv'
  <1> PICK e : e = on[r]
    OBVIOUS
  <1>0. PICK s, d : Moved(r, s, d)
    BY ReceiverMoves
  <1>1. /\ \A q \in Receivers \ {r} : pc'[q] = pc[q] /\ on'[q] = on[q] /\ ~ Turning(q) /\ ~ activate(q)
        /\ \A k \in KernelWorkers : pc'[k] = pc[k] /\ on'[k] = on[k] /\ ~ KernelTurning(k) /\ ~ mark_dispatched(k)
    BY ZenonT(20), <1>0, OthersStay, InvocationConstants
  <1>2. executed' = executed /\ Tabled
    BY <1>1, ShowsStep, TableStep
  \* It is enough to look at the call that the receive carries.
  <1>3. ASSUME NEW u, NEW f, Moved(r, u, f), u \in Delivered \cup Executing => executed[f], u \in {"receiving", "begun"} => ~ executed[f],
               u # "begun", u \in CarryPlaces => f = e, Turning(r) \/ pc[r] \in CarryPlaces \/ u \in CarryPlaces => Delivery(e)'
        PROVE  DInv'
    <2>1. Servers'
      BY ZenonT(20), <1>2, <1>3, ServersStay
    <2>2. ASSUME NEW c \in Calls, c = e => ~ Turning(r) /\ pc[r] \notin CarryPlaces /\ u \notin CarryPlaces
          PROVE  Delivery(c)'
      <3>1. r \notin KernelWorkers /\ executed'[c] = executed[c] /\ (pc[r] \in CarryPlaces => on[r] # c) /\ (u \in CarryPlaces => f # c)
            /\ ~ (Turning(r) /\ on[r] = c)
        BY ZenonT(20), <1>2, <1>3, <2>2, InvocationConstants
      <3>2. Calm(c)
        BY <1>3, <3>1, CalmElsewhere
      <3> QED BY <1>2, <3>2, DeliveryStays DEF Tabled
    <2>3. \A c \in Calls : Delivery(c)'
      BY Zenon, <1>3, <2>2
    <2> QED BY <2>1, <2>3 DEF DInv
  \* And at what the receive does to it.
  <1>4. ASSUME pc[r] \in Carrying, ~ Turning(r), inv[e].phase # "receiving",
               InQueue(e)' /\ pc[r] \in Delivered => on'[r] = e /\ pc'[r] \in Delivered
        PROVE  Delivery(e)'
    <2>1. pc[r] \in Holding
      BY <1>4 DEF Carrying, Holding
    <2>2. e \in Calls /\ \A q \in Receivers \ {r} : pc[q] \notin Holding
      BY <2>1, OnlyCarrier
    <2>3. inv'[e].phase = inv[e].phase \/ Complete(inv'[e]) \/ submit(e)
      BY ZenonT(20), <1>1, <1>4, <2>2, PhaseStays
    <2>4. Active(e)
      BY <1>4 DEF Active, Carrying
    <2>5. InQueue(e)' /\ (\E q \in Receivers : on[q] = e /\ pc[q] \in Delivered) => \E q \in Receivers : on'[q] = e /\ pc'[q] \in Delivered
      BY ZenonT(20), <1>4, <2>2 DEF Holding
    <2>6. Calm(e)
      BY <1>2, <1>4, <2>3, <2>4, <2>5 DEF Calm
    <2> QED BY <1>2, <2>2, <2>6, DeliveryStays DEF Tabled
  <1>5. CASE pc[r] \notin Carrying /\ ~ Turning(r) /\ \E u \in (Empty \cup Holding) \ Carrying : \E f : Moved(r, u, f)
    <2>1. PICK u \in (Empty \cup Holding) \ Carrying : \E f : Moved(r, u, f)
      BY <1>5
    <2>2. PICK f : Moved(r, u, f)
      BY <2>1
    <2>3. u \notin CarryPlaces /\ u \notin Delivered \cup Executing /\ u \notin {"receiving", "begun"}
      BY DEF CarryPlaces, Carrying, Executing, Empty, Holding, Delivered
    <2>4. pc[r] \notin CarryPlaces
      BY <1>5 DEF QInv, ThreadsOK, CarryPlaces, Carrying, Executing, Empty, Holding, Delivered
    <2> QED BY Zenon, <1>3, <1>5, <2>2, <2>3, <2>4
  <1>6. CASE begin_receive(r) /\ Turning(r) /\ Moved(r, "receiving", on[r])
    <2>1. e \in Calls /\ inv[e].phase = "queued" /\ inv'[e].phase = "receiving"
      <3>1. ~ rollback_receive(r) /\ ~ finish_dispatch(r)
        BY <1>6 DEF begin_receive, rollback_receive, finish_dispatch, At
      <3> QED BY Zenon, <1>6, <3>1, TurningCall DEF PhaseTo
    <2>2. ~ executed[e]
      BY <2>1 DEF DInv, Delivery
    <2>3. Arriving(e)'
      BY <1>6 DEF Arriving, Moved
    <2>4. Delivery(e)'
      BY <1>2, <2>1, <2>2, <2>3, UnshownDelivery
    <2> QED BY <1>3, <1>6, <2>2, <2>4 DEF Delivered, Executing
  <1>7. CASE rollback_receive(r) /\ pc[r] = "receiving" /\ \E u \in {"cancelled", "unclaim"} : Moved(r, u, on[r])
    <2>1. PICK u \in {"cancelled", "unclaim"} : Moved(r, u, on[r])
      BY ZenonT(20), <1>7
    <2>2. e \in Calls /\ ~ executed[e] /\ (\A q \in Receivers \ {r} : pc[q] \notin Holding)
          /\ \A k \in KernelWorkers : pc[k] # "idle" => on[k] # e
      BY ZenonT(30), <1>7, OnlyCarrier DEF Holding, DInv, Servers
    <2>3. Delivery(e)'
      <3>1. CASE inv[e].phase = "receiving"
        <4>1. inv'[e].phase = "queued"
          <5>1. Turning(r) /\ ~ begin_receive(r) /\ ~ finish_dispatch(r)
            BY <1>7, <3>1 DEF Turning, begin_receive, finish_dispatch, At
          <5> QED BY Zenon, <5>1, TurningCall DEF PhaseTo
        <4>2. ~ Active(e)'
          BY ZenonT(20), <1>1, <2>1, <2>2 DEF Active, Moved, Holding, Delivered, Executing
        <4> QED BY <1>2, <2>2, <4>1, <4>2, UnshownDelivery
      <3>2. CASE inv[e].phase # "receiving"
        <4>1. ~ Turning(r)
          BY Zenon, <1>7, <3>2 DEF Turning, begin_receive, At
        <4> QED BY ZenonT(20), <1>4, <1>7, <3>2, <4>1 DEF Carrying, Delivered
      <3> QED BY ZenonT(20), <3>1, <3>2
    <2>4. u \notin CarryPlaces /\ u \notin Delivered \cup Executing /\ u \notin {"receiving", "begun"}
      BY DEF CarryPlaces, Carrying, Executing, Delivered
    <2> QED BY Zenon, <1>3, <2>1, <2>3, <2>4
  <1>8. CASE finish_dispatch(r) /\ pc[r] = "activated" /\ \E u \in {"dispatched", "closing"} : Moved(r, u, on[r])
    <2>1. PICK u \in {"dispatched", "closing"} : Moved(r, u, on[r])
      BY <1>8
    <2>2. e \in Calls /\ executed[e] /\ sub[e] \notin Unqueued
      <3>1. e \in Calls /\ executed[e]
        BY ZenonT(30), <1>8, OnlyCarrier DEF Holding, Delivered, DInv, Servers
      <3> QED BY ZenonT(20), <3>1 DEF DInv, Delivery
    <2>3. on'[r] = e /\ pc'[r] \in Delivered
      BY <2>1 DEF Moved, Delivered
    <2>4. Delivery(e)'
      <3>1. CASE inv[e].phase = "receiving"
        <4>1. inv'[e].phase = "dispatched"
          <5>1. Turning(r) /\ ~ begin_receive(r) /\ ~ rollback_receive(r)
            BY ZenonT(20), <1>8, <3>1 DEF Turning, begin_receive, rollback_receive, At
          <5> QED BY Zenon, <5>1, TurningCall DEF PhaseTo
        <4>2. sub'[e] \notin Unqueued /\ (expired'[e] => e \in Deadlined) /\ ~ (e \in discarded' \/ timer'[e] \in Removed)
          BY ZenonT(20), <2>2, Advances, ExpiresStep, ShownStays DEF QInv, DInv, Delivery
        <4> QED BY Zenon, <1>2, <2>2, <2>3, <4>1, <4>2 DEF Delivery
      <3>2. CASE inv[e].phase # "receiving"
        <4>1. ~ Turning(r)
          BY Zenon, <1>8, <3>2 DEF Turning, begin_receive, At
        <4> QED BY ZenonT(30), <1>4, <1>8, <2>3, <3>2, <4>1 DEF Carrying, Delivered
      <3> QED BY ZenonT(20), <3>1, <3>2
    <2>5. u \in CarryPlaces /\ u \notin {"receiving", "begun"}
      BY ZenonT(20) DEF CarryPlaces, Carrying, Delivered
    <2> QED BY Zenon, <1>3, <2>1, <2>2, <2>4, <2>5
  <1>9. CASE \/ close_delivered(r) /\ pc[r] = "closing" /\ Moved(r, "aborting", on[r])
             \/ commit_claim(r) /\ pc[r] \in {"dispatched", "aborting"} /\ Moved(r, "leaving", NoCall)
    <2>1. pc[r] \in Delivered /\ pc[r] \in Carrying /\ pc[r] \in Holding \ {"receiving", "activated"}
      BY <1>9 DEF Delivered, Carrying, Holding
    <2>2. inv[e].phase # "receiving" /\ executed[e] /\ ~ Turning(r)
      BY <1>9, <2>1, NotInTransit DEF DInv, Servers, Turning, begin_receive, rollback_receive, finish_dispatch, At
    <2>3. InQueue(e)' => on'[r] = e /\ pc'[r] \in Delivered
      BY <1>9, CommitPops DEF Moved, Delivered
    <2>4. Delivery(e)'
      BY <1>4, <2>1, <2>2, <2>3
    <2>5. "leaving" \notin CarryPlaces /\ "leaving" \notin Delivered \cup Executing /\ "aborting" \notin {"receiving", "begun"}
      BY DEF CarryPlaces, Carrying, Delivered, Executing
    <2> QED BY Zenon, <1>3, <1>9, <2>2, <2>4, <2>5
  <1> QED BY Zenon, <1>5, <1>6, <1>7, <1>8, <1>9, Carries

\* The step shows a call.
Shows(d) == executed'[d] /\ \A c \in Calls \ {d} : executed'[c] = executed[c]

LEMMA ServersShow ==
  ASSUME QInv, DInv, Next, NEW t \in Receivers \cup KernelWorkers, NEW s, NEW d \in Calls, Moved(t, s, d), s \notin {"receiving", "begun"},
         Shows(d),
         \A r \in Receivers \ {t} : pc[r] = "receiving" => on[r] # d,
         \A k \in KernelWorkers \ {t} : pc[k] = "begun" => on[k] # d
  PROVE  Servers'
  <1>1. pc'[t] = s /\ on'[t] = d
    BY ZenonT(20) DEF Moved
  <1>2. /\ \A r \in Receivers \ {t} : pc'[r] = pc[r] /\ on'[r] = on[r]
        /\ \A k \in KernelWorkers \ {t} : pc'[k] = pc[k] /\ on'[k] = on[k]
    BY OthersStay
  <1>3. executed'[d] /\ \A c \in Calls : (executed[c] => executed'[c]) /\ (c # d /\ ~ executed[c] => ~ executed'[c])
    BY ZenonT(20) DEF Shows
  <1>4. \A w \in Workers : pc'[w] # "idle" => executed'[on'[w]]
    <2>1. \A w \in Workers : pc'[w] = pc[w] /\ on'[w] = on[w]
      BY ZenonT(20), InvocationConstants DEF Moved, Threads
    <2> QED BY <1>3, <2>1, CallFacts DEF DInv, Servers
  <1>5. \A r \in Receivers : (pc'[r] \in Delivered => executed'[on'[r]]) /\ (pc'[r] = "receiving" => ~ executed'[on'[r]])
    <2>1. \A r \in Receivers : pc[r] \in Delivered \cup {"receiving"} => on[r] \in Calls
      BY CallFacts DEF Holding
    <2> QED BY ZenonT(30), <1>1, <1>2, <1>3, <2>1 DEF DInv, Servers
  <1>6. \A k \in KernelWorkers : (pc'[k] \in Executing => executed'[on'[k]]) /\ (pc'[k] = "begun" => ~ executed'[on'[k]])
    <2>1. \A k \in KernelWorkers : pc[k] \in Executing \cup {"begun"} => on[k] \in Calls
      BY ZenonT(30), CallFacts DEF Executing
    <2> QED BY ZenonT(30), <1>1, <1>2, <1>3, <2>1 DEF DInv, Servers
  <1>7. \A k, l \in KernelWorkers : pc'[k] = "begun" /\ pc'[l] = "begun" /\ on'[k] = on'[l] => k = l
    BY <1>1, <1>2 DEF DInv, Servers
  <1> QED BY <1>4, <1>5, <1>6, <1>7 DEF Servers

\* A receive shows the request that it carries, which no other thread does.
LEMMA ActivateDelivers ==
  ASSUME QInv, DInv, Next, NEW r \in Receivers, activate(r)
  PROVE  DInv'
  <1> PICK e : e = on[r]
    OBVIOUS
  <1>1. /\ pc[r] = "receiving" /\ Goto(r, "activated") /\ Responder(e, "table") /\ executed' = [executed EXCEPT ![e] = TRUE]
        /\ inv' = inv /\ sub' = sub /\ expired' = expired /\ discarded' = discarded /\ timer' = timer
    BY DEF activate, At, queueVars, receiveRest
  <1>2. Moved(r, "activated", e) /\ pc[r] \in Holding
    BY <1>1, Moving DEF QInv, Threads, Holding
  <1>3. /\ e \in Calls /\ e \notin discarded /\ timer[e] \notin Removed
        /\ (\A q \in Receivers \ {r} : pc[q] \notin Holding) /\ \A k \in KernelWorkers : pc[k] # "idle" => on[k] # e
    BY <1>2, OnlyCarrier
  <1>4. Shows(e) /\ \A c \in Calls \ {e} : responder'[c] = responder[c]
    BY Zenon, <1>1, <1>3 DEF Responder, Shows, QInv, TypeOK
  <1>5. Servers'
    <2>1. \A q \in Receivers \ {r} : pc[q] # "receiving"
      BY <1>3 DEF Holding
    <2>2. \A k \in KernelWorkers : pc[k] = "begun" => on[k] # e
      BY ZenonT(20), <1>3
    <2> QED BY <1>2, <1>3, <1>4, <2>1, <2>2, ServersShow
  <1>6. Delivery(e)'
    <2>1. Active(e) /\ pc'[r] = "activated" /\ on'[r] = e
      BY <1>1, <1>2 DEF Active, Moved
    <2>2. inv[e].phase \notin {"none", "queued", "dispatched"} /\ sub[e] \notin Unqueued /\ (expired[e] => e \in Deadlined)
      <3>1. ~ executed[e]
        BY <1>1 DEF DInv, Servers
      <3>2. sub[e] \notin Unqueued
        BY <1>3, <2>1, ActiveQueued
      <3>3. inv[e].phase # "none"
        BY <1>3, <3>2 DEF QInv, Submitted, Unqueued
      <3> QED BY ZenonT(20), <1>3, <2>1, <3>1, <3>2, <3>3 DEF DInv, Delivery
    <2> QED BY ZenonT(20), <1>1, <1>3, <1>4, <2>1, <2>2 DEF Delivery, Delivered, Shows
  <1>7. ASSUME NEW c \in Calls \ {e}
        PROVE  Delivery(c)'
    <2>1. Calm(c)
      BY <1>2, <1>4, <1>7, InvocationConstants, CalmElsewhere DEF Shows
    <2> QED BY ZenonT(20), <1>4, <1>7, <2>1, DeliveryStays
  <1>8. \A c \in Calls : Delivery(c)'
    BY <1>6, <1>7
  <1> QED BY <1>5, <1>8 DEF DInv

\* A kernel worker shows the call that it carries, which is in no queue.
LEMMA MarkDelivers ==
  ASSUME QInv, DInv, Next, NEW k \in KernelWorkers, mark_dispatched(k)
  PROVE  DInv'
  <1> PICK e : e = on[k]
    OBVIOUS
  <1>1. /\ pc[k] = "begun" /\ executed' = [executed EXCEPT ![e] = TRUE] /\ fifo' = fifo /\ sub' = sub /\ expired' = expired
        /\ responder' = responder /\ discarded' = discarded /\ timer' = timer /\ KernelTurning(k)
    BY DEF mark_dispatched, At, kernelRest, KernelTurning
  <1>2. Moved(k, "executing", e)
    <2>1. Goto(k, "executing")
      BY DEF mark_dispatched
    <2> QED BY <2>1, Moving DEF QInv, Threads
  <1>3. e \in Calls /\ e \in KernelCalls /\ sub[e] \notin Unqueued
        /\ (inv'[e].phase = "dispatched" \/ (inv' = inv /\ inv[e].phase \notin {"queued", "receiving"}))
    <2>1. ~ kernel_begin(k)
      BY ZenonT(20), <1>1 DEF kernel_begin, At
    <2> QED BY Zenon, <1>1, <2>1, KernelTurningCall DEF PhaseTo
  <1>4. ~ InQueue(e) /\ e \notin discarded /\ timer[e] \notin Removed /\ inv[e].phase # "none"
    BY <1>3 DEF QInv, Queue, Submitted, Unqueued
  <1>5. Shows(e)
    BY ZenonT(30), <1>1, <1>3 DEF Shows, QInv, TypeOK
  <1>6. Servers'
    <2>1. \A r \in Receivers \ {k} : pc[r] = "receiving" => on[r] # e
      BY <1>3, OnlyCarrier DEF Holding
    <2>2. \A l \in KernelWorkers \ {k} : pc[l] = "begun" => on[l] # e
      BY ZenonT(20), <1>1 DEF DInv, Servers
    <2>3. "executing" \notin {"receiving", "begun"}
      OBVIOUS
    <2> QED BY Zenon, <1>2, <1>3, <1>5, <2>1, <2>2, <2>3, ServersShow
  <1>7. Delivery(e)'
    <2>1. inv'[e].phase \notin {"none", "queued", "receiving"} /\ ~ InQueue(e)' /\ (expired[e] => e \in Deadlined)
      BY Zenon, <1>1, <1>3, <1>4 DEF InQueue, DInv, Delivery
    <2> QED BY ZenonT(30), <1>1, <1>3, <1>4, <1>5, <2>1 DEF Delivery, Shows
  <1>8. ASSUME NEW c \in Calls \ {e}
        PROVE  Delivery(c)'
    <2>1. Calm(c)
      BY <1>2, <1>5, <1>8, InvocationConstants, CalmElsewhere DEF Shows
    <2> QED BY ZenonT(20), <1>1, <1>8, <2>1, DeliveryStays
  <1>9. \A c \in Calls : Delivery(c)'
    BY <1>7, <1>8
  <1> QED BY <1>6, <1>9 DEF DInv

LEMMA KernelDelivers ==
  ASSUME QInv, DInv, Next, NEW k \in KernelWorkers, KernelStep(k), ~ mark_dispatched(k)
  PROVE  DInv'
  <1> PICK e : e = on[k]
    OBVIOUS
  <1>0. PICK s, d : Moved(k, s, d)
    BY ZenonT(20), KernelMoves
  <1>1. /\ \A r \in Receivers : ~ activate(r)
        /\ \A l \in KernelWorkers : ~ mark_dispatched(l)
    BY <1>0, OthersStay, InvocationConstants
  <1>2. executed' = executed /\ Tabled
    BY <1>1, ShowsStep, TableStep
  <1>3. pc[k] # "idle" => e \in Calls
    BY CallFacts
  <1>4. ASSUME NEW c \in Calls, Calm(c)
        PROVE  Delivery(c)'
    BY <1>2, <1>4, DeliveryStays DEF Tabled
  <1>5. CASE pc[k] \in {"idle", "popped"} /\ ~ KernelTurning(k) /\ \E u \in {"idle", "popped"} : \E f : Moved(k, u, f)
    <2>1. PICK u \in {"idle", "popped"} : \E f : Moved(k, u, f)
      BY <1>5
    <2>2. PICK f : Moved(k, u, f)
      BY <2>1
    <2>3. u \notin CarryPlaces /\ pc[k] \notin CarryPlaces
      BY <1>5 DEF CarryPlaces, Carrying, Delivered, Executing
    <2>4. Servers'
      BY ZenonT(20), <1>2, <2>2, <2>3, ServersStay DEF CarryPlaces, Carrying
    <2>5. \A c \in Calls : Calm(c)
      BY ZenonT(30), <1>2, <1>5, <2>2, <2>3, CalmElsewhere, InvocationConstants
    <2> QED BY <1>4, <2>4, <2>5 DEF DInv
  <1>6. CASE pc[k] \in Executing /\ ~ KernelTurning(k) /\ ((\E u \in Executing : Moved(k, u, e)) \/ Moved(k, "idle", NoCall))
    <2>1. PICK u \in Executing \cup {"idle"}, f \in {e, NoCall} : Moved(k, u, f) /\ (u \in Executing => f = e)
      <3>1. "idle" \notin Executing
        BY DEF Executing
      <3> QED BY Zenon, <1>6, <3>1
    <2>2. executed[e] /\ e \in Calls
      BY ZenonT(30), <1>3, <1>6 DEF DInv, Servers, Executing
    <2>3. Servers'
      <3>1. (u \in Delivered \cup Executing => u \in Executing) /\ u \notin {"receiving", "begun"}
        BY ZenonT(20), <2>1 DEF Delivered, Executing
      <3> QED BY <1>2, <2>1, <2>2, <3>1, ServersStay
    <2>4. ASSUME NEW c \in Calls \ {e}
          PROVE  Calm(c)
      <3>1. u \in CarryPlaces => f # c
        BY ZenonT(20), <2>1, <2>4 DEF CarryPlaces, Carrying, Delivered, Executing
      <3> QED BY <1>2, <1>6, <2>1, <2>4, <3>1, CalmElsewhere, InvocationConstants
    <2>5. Calm(e)
      <3>1. /\ \A r \in Receivers : pc'[r] = pc[r] /\ on'[r] = on[r] /\ ~ Turning(r)
            /\ \A l \in KernelWorkers \ {k} : pc'[l] = pc[l] /\ on'[l] = on[l] /\ ~ KernelTurning(l)
        BY ZenonT(30), <2>1, OthersStay, InvocationConstants
      <3>2. inv'[e].phase = inv[e].phase \/ Complete(inv'[e]) \/ submit(e)
        BY ZenonT(20), <1>6, <2>2, <3>1, PhaseStays
      <3>3. Active(e)
        BY ZenonT(20), <1>6 DEF Active
      <3>4. inv[e].phase = "receiving" => (Arriving(e) \/ \E r \in Receivers : on[r] = e /\ pc[r] = "activated")'
        <4>1. \A l \in KernelWorkers : on[l] = e /\ pc[l] = "begun" => on'[l] = e /\ pc'[l] = "begun"
          BY ZenonT(20), <1>6, <3>1 DEF Executing
        <4>2. inv[e].phase = "receiving" => Arriving(e) \/ \E r \in Receivers : on[r] = e /\ pc[r] = "activated"
          BY ZenonT(20), <2>2 DEF DInv, Delivery
        <4> QED BY ZenonT(30), <3>1, <4>1, <4>2 DEF Arriving
      <3>5. (\E r \in Receivers : on[r] = e /\ pc[r] \in Delivered) => \E r \in Receivers : on'[r] = e /\ pc'[r] \in Delivered
        BY <3>1
      <3> QED BY ZenonT(30), <1>2, <3>2, <3>3, <3>4, <3>5 DEF Calm
    <2>6. \A c \in Calls : Delivery(c)'
      BY <1>4, <2>4, <2>5
    <2> QED BY <2>3, <2>6 DEF DInv
  <1>7. CASE kernel_begin(k) /\ KernelTurning(k) /\ pc[k] = "popped" /\ Moved(k, "begun", e)
    <2>1. e \in Calls /\ inv[e].phase = "queued" /\ inv'[e].phase = "receiving"
      BY ZenonT(30), <1>1, <1>7, KernelTurningCall DEF PhaseTo
    <2>2. ~ executed[e] /\ ~ Active(e)
      BY ZenonT(20), <2>1 DEF DInv, Delivery
    <2>3. Servers'
      BY ZenonT(20), <1>2, <1>7, <2>2, ServersStay DEF Active, Delivered, Executing
    <2>4. Arriving(e)'
      BY ZenonT(20), <1>7 DEF Arriving, Moved
    <2>5. Delivery(e)'
      BY ZenonT(30), <1>2, <2>1, <2>2, <2>4, UnshownDelivery
    <2>6. ASSUME NEW c \in Calls \ {e}
          PROVE  Calm(c)
      BY <1>2, <1>7, <2>6, CalmElsewhere, InvocationConstants
    <2>7. \A c \in Calls : Delivery(c)'
      BY <1>4, <2>5, <2>6
    <2> QED BY <2>3, <2>7 DEF DInv
  <1> QED BY <1>5, <1>6, <1>7, KernelCarries
----------------------------------------------------------------------------
(* Delivery, as a theorem *)

LEMMA InitDelivery ==
  ASSUME Init
  PROVE  DInv
  <1>1. \A t \in Threads : pc[t] = "idle"
    BY DEF Init
  <1>2. Receivers \cup KernelWorkers \cup Workers \subseteq Threads
    BY DEF Threads
  <1>3. \A c \in Calls : /\ ~ executed[c] /\ inv[c].phase = "none" /\ responder[c] = "none" /\ ~ expired[c]
                         /\ c \notin discarded /\ timer[c] = "off"
    BY DEF Init, Unsubmitted
  <1>4. Servers
    BY <1>1, <1>2 DEF Servers, Delivered, Executing
  <1>5. ASSUME NEW c \in Calls
        PROVE  Delivery(c)
    BY <1>3 DEF Delivery, Removed
  <1> QED BY <1>4, <1>5 DEF DInv

LEMMA NextDelivery ==
  ASSUME QInv, DInv, Next
  PROVE  DInv'
  <1>1. CASE Receiving
    BY <1>1, ReceiverDelivers, ActivateDelivers DEF Receiving
  <1>2. CASE Dispatching
    BY <1>2, KernelDelivers, MarkDelivers DEF Dispatching
  <1> QED BY <1>1, <1>2, OthersDeliver

LEMMA StutterDelivery ==
  ASSUME DInv, UNCHANGED vars
  PROVE  DInv'
  <1>1. Servers'
    BY ZenonT(30) DEF vars, DInv, Servers
  <1>2. ASSUME NEW c \in Calls
        PROVE  Delivery(c)'
    <2>1. Delivery(c)
      BY DEF DInv
    <2> QED BY <2>1 DEF vars, Delivery, Arriving, Active, InQueue
  <1> QED BY ZenonT(20), <1>1, <1>2 DEF DInv

LEMMA AlwaysDelivery == Spec => []DInv
  <1>1. QInv /\ DInv /\ [Next]_vars => DInv'
    BY NextDelivery, StutterDelivery
  <1>2. Init => DInv
    BY InitDelivery
  <1> QED BY <1>1, <1>2, QueueCoherent, PTL DEF Spec

\* A request reaches user code through one receive at a time and is never
\* received again: what channel_receive delivered leaves the queue with the
\* claim of that receive, and no request outlives the ServerEnd and the last
\* receive on it (claim, activate, commit_claim, close_server_queue, leave).
THEOREM RequestsDeliveredOnce == Spec => []DeliveredOnce
  <1>1. QInv /\ DInv => DeliveredOnce
    <2>1. ASSUME QInv, DInv, NEW c \in Calls, executed[c], InQueue(c)
          PROVE  claimed /\ Head(fifo) = c /\ \E r \in Receivers : on[r] = c /\ pc[r] \in Delivered
      <3>1. PICK r \in Receivers : on[r] = c /\ pc[r] \in Delivered
        BY ZenonT(30), <2>1 DEF DInv, Delivery
      <3>2. claimed /\ fifo # <<>> /\ fifo[1] = c /\ fifo \in Seq(Calls)
        BY ZenonT(30), <2>1, <3>1 DEF QInv, TypeOK, Claim, Holding
      <3>3. Head(fifo) = c
        BY <3>2
      <3> QED BY Zenon, <3>1, <3>2, <3>3
    <2>2. ASSUME QInv, server = "closed", Inside = {}
          PROVE  fifo = <<>>
      BY Zenon, <2>2 DEF QInv, Claim
    <2> QED BY <2>1, <2>2 DEF DeliveredOnce, Delivered
  <1> QED BY <1>1, QueueCoherent, AlwaysDelivery, PTL
----------------------------------------------------------------------------
(* What the verdict of the kernel is worth *)

\* A call that the kernel reports as not delivered was not shown, and one
\* that is about to be shown although it is over has an unknown outcome.
Verdict(c) ==
  /\ inv[c].outcome = "NOT_DELIVERED" /\ inv[c].reason # "UNSUPPORTED" => ~ executed[c]
  /\ Complete(inv[c]) /\ Arriving(c) => inv[c].outcome = "OUTCOME_UNKNOWN"

\* No thread that polls with take_result ends the call by itself.
Unpolled(c) == c \notin Deadlined \/ Takers = {}

VInv == \A c \in Calls : Unpolled(c) => Verdict(c)

\* Only a call that is on its way is shown.
LEMMA ShownArrives ==
  ASSUME QInv, Next, NEW c \in Calls, executed'[c]
  PROVE  executed[c] \/ Arriving(c)
  <1>1. ASSUME NEW r \in Receivers, activate(r)
        PROVE  executed[c] \/ Arriving(c)
    <2>1. executed' = [executed EXCEPT ![on[r]] = TRUE] /\ pc[r] = "receiving"
      BY ZenonT(20), <1>1 DEF activate, At
    <2> QED BY <2>1 DEF Arriving, QInv, TypeOK
  <1>2. ASSUME NEW k \in KernelWorkers, mark_dispatched(k)
        PROVE  executed[c] \/ Arriving(c)
    <2>1. executed' = [executed EXCEPT ![on[k]] = TRUE] /\ pc[k] = "begun"
      BY <1>2 DEF mark_dispatched, At
    <2> QED BY <2>1 DEF Arriving, QInv, TypeOK
  <1> QED BY ZenonT(20), <1>1, <1>2, ShowsStep

\* A call that is over does not start on its way.
LEMMA ArrivesPending ==
  ASSUME QInv, Next, NEW c \in Calls, Arriving(c)'
  PROVE  Arriving(c) \/ inv'[c].phase = "receiving"
  <1>1. CASE Receiving
    <2>1. PICK r \in Receivers : receive(r) \/ ReceiveStep(r)
      BY <1>1 DEF Receiving
    <2>2. PICK s, d : Moved(r, s, d)
      BY ZenonT(20), <2>1, ReceiverMoves
    <2>3. /\ \A q \in Receivers \ {r} : pc'[q] = pc[q] /\ on'[q] = on[q]
          /\ \A k \in KernelWorkers : pc'[k] = pc[k] /\ on'[k] = on[k]
      <3>1. \A k \in KernelWorkers : k # r
        BY InvocationConstants
      <3> QED BY Zenon, <2>2, <3>1, OthersStay
    <2>4. ASSUME pc'[r] = "receiving", on'[r] = c
          PROVE  inv'[c].phase = "receiving"
      <3>1. begin_receive(r) /\ Turning(r) /\ Moved(r, "receiving", on[r])
        BY Zenon, <2>1, <2>4, Carries DEF Moved, Carrying, Empty, Holding, Delivered
      <3>2. ~ rollback_receive(r) /\ ~ finish_dispatch(r) /\ on[r] = c
        BY <2>4, <3>1 DEF begin_receive, rollback_receive, finish_dispatch, At, Moved
      <3> QED BY ZenonT(30), <3>1, <3>2, TurningCall DEF PhaseTo
    <2> QED BY <2>3, <2>4 DEF Arriving
  <1>2. CASE Dispatching
    <2>1. PICK k \in KernelWorkers : KernelStep(k)
      BY <1>2 DEF Dispatching
    <2>2. PICK s, d : Moved(k, s, d)
      BY ZenonT(20), <2>1, KernelMoves
    <2>3. /\ \A q \in Receivers : pc'[q] = pc[q] /\ on'[q] = on[q]
          /\ \A l \in KernelWorkers \ {k} : pc'[l] = pc[l] /\ on'[l] = on[l]
      <3>1. \A q \in Receivers : q # k
        BY InvocationConstants
      <3> QED BY Zenon, <2>2, <3>1, OthersStay
    <2>4. ASSUME pc'[k] = "begun", on'[k] = c
          PROVE  inv'[c].phase = "receiving"
      <3>1. kernel_begin(k) /\ KernelTurning(k) /\ Moved(k, "begun", on[k])
        BY Zenon, <2>1, <2>4, KernelCarries DEF Moved, Executing
      <3>2. ~ mark_dispatched(k) /\ on[k] = c
        BY <2>4, <3>1 DEF kernel_begin, mark_dispatched, At, Moved
      <3> QED BY Zenon, <3>1, <3>2, KernelTurningCall DEF PhaseTo
    <2> QED BY <2>3, <2>4 DEF Arriving
  <1>3. CASE ~ Receiving /\ ~ Dispatching
    BY ZenonT(20), <1>3, HeadStays, KernelApart DEF Arriving
  <1> QED BY <1>1, <1>2, <1>3

\* What is over stays as it is, and what ends was justified.
LEMMA Ends ==
  ASSUME QInv, DInv, Next, NEW c \in Calls, Complete(inv'[c])
  PROVE  \/ Complete(inv[c]) /\ inv'[c].outcome = inv[c].outcome /\ inv'[c].reason = inv[c].reason
         \/ ~ Complete(inv[c]) /\ Justified(c, inv'[c].outcome, inv'[c].reason)
  <1>1. CASE Evolving
    BY <1>1 DEF Evolving, Evolves
  <1>2. ASSUME NEW d \in Calls, submit(d)
        PROVE  inv'[c] = inv[c]
    <2> DEFINE j == [Unsubmitted EXCEPT !.phase = "queued", !.budget = (d \notin Oneway)]
    <2>1. inv' = [inv EXCEPT ![d] = j]
      BY <1>2 DEF submit, Update
    <2>2. j.phase = "queued"
      BY Zenon DEF Unsubmitted
    <2> HIDE DEF j
    <2> QED BY <2>1, <2>2 DEF QInv, TypeOK, Complete
  <1>3. ASSUME NEW r \in Receivers, Turning(r)
        PROVE  inv'[c] = inv[c]
    <2>1. \E p \in {"queued", "receiving", "dispatched"} : PhaseTo(on[r], p)
      BY Zenon, <1>3, TurningCall
    <2> QED BY ZenonT(30), <2>1 DEF PhaseTo, Touches, Complete
  <1>4. ASSUME NEW k \in KernelWorkers, KernelTurning(k)
        PROVE  inv'[c] = inv[c]
    <2>1. inv' = inv \/ \E p \in {"queued", "receiving", "dispatched"} : PhaseTo(on[k], p)
      BY ZenonT(20), <1>4, KernelTurningCall
    <2> QED BY ZenonT(20), <2>1 DEF PhaseTo, Touches, Complete
  <1> QED BY ZenonT(20), <1>1, <1>2, <1>3, <1>4, NextEvolves

LEMMA NextVerdict ==
  ASSUME QInv, OInv', DInv, VInv, Next, NEW c \in Calls, Unpolled(c)
  PROVE  Verdict(c)'
  <1>1. Verdict(c) /\ (Arriving(c) => ~ executed[c])
    BY Zenon DEF VInv, DInv, Servers, Arriving
  <1>2. inv'[c].outcome = "NOT_DELIVERED" => Complete(inv'[c])
    BY DEF OInv
  <1>3. executed'[c] => executed[c] \/ Arriving(c)
    BY ShownArrives
  <1>4. Complete(inv'[c]) /\ Arriving(c)' => Arriving(c)
    BY ArrivesPending DEF Complete
  <1>5. CASE Complete(inv'[c]) /\ Complete(inv[c])
    <2>1. inv'[c].outcome = inv[c].outcome /\ inv'[c].reason = inv[c].reason
      BY ZenonT(20), <1>5, Ends
    <2> QED BY <1>1, <1>3, <1>4, <1>5, <2>1 DEF Verdict
  <1>6. CASE Complete(inv'[c]) /\ ~ Complete(inv[c])
    <2>1. Justified(c, inv'[c].outcome, inv'[c].reason)
      BY <1>6, Ends
    <2>2. \/ executed[c] /\ (inv'[c].outcome = "REPLY" \/ inv'[c].reason = "UNSUPPORTED")
          \/ inv'[c].outcome = "OUTCOME_UNKNOWN"
          \/ ~ executed[c] /\ ~ Arriving(c)
      BY <2>1 DEF Justified, Unpolled
    <2> QED BY ZenonT(20), <1>1, <1>3, <1>4, <2>2 DEF Verdict
  <1> QED BY ZenonT(20), <1>2, <1>5, <1>6 DEF Verdict

LEMMA NextOutcomes ==
  ASSUME QInv, DInv, OInv, Next
  PROVE  OInv'
  <1> SUFFICES ASSUME NEW c \in Calls
               PROVE  Complete(inv'[c]) <=> inv'[c].outcome # "none"
    BY DEF OInv
  <1>0. Complete(inv[c]) <=> inv[c].outcome # "none"
    BY DEF OInv
  <1>1. CASE Evolving
    <2>1. Evolves(c, inv'[c])
      BY <1>1 DEF Evolving
    <2> QED BY <1>0, <2>1 DEF Evolves
  <1>2. ASSUME NEW d \in Calls, submit(d)
        PROVE  inv'[c] = inv[c] \/ (~ Complete(inv'[c]) /\ inv'[c].outcome = "none")
    <2> DEFINE j == [Unsubmitted EXCEPT !.phase = "queued", !.budget = (d \notin Oneway)]
    <2>1. inv' = [inv EXCEPT ![d] = j]
      BY <1>2 DEF submit, Update
    <2>2. j.phase = "queued" /\ j.outcome = "none"
      BY ZenonT(30) DEF Unsubmitted
    <2> HIDE DEF j
    <2> QED BY <2>1, <2>2 DEF QInv, TypeOK, Complete
  <1>3. ASSUME NEW d, NEW p \in {"queued", "receiving", "dispatched"}, PhaseTo(d, p)
        PROVE  inv'[c] = inv[c] \/ (~ Complete(inv[c]) /\ ~ Complete(inv'[c]) /\ inv'[c].outcome = inv[c].outcome)
    BY Zenon, <1>3 DEF PhaseTo, Touches, Complete
  <1>4. ASSUME NEW r \in Receivers, Turning(r)
        PROVE  \E p \in {"queued", "receiving", "dispatched"} : PhaseTo(on[r], p)
    BY Zenon, <1>4, TurningCall
  <1>5. ASSUME NEW k \in KernelWorkers, KernelTurning(k)
        PROVE  inv' = inv \/ \E p \in {"queued", "receiving", "dispatched"} : PhaseTo(on[k], p)
    BY ZenonT(30), <1>5, KernelTurningCall
  <1>6. \/ inv'[c] = inv[c] \/ (~ Complete(inv'[c]) /\ inv'[c].outcome = "none")
        \/ ~ Complete(inv[c]) /\ ~ Complete(inv'[c]) /\ inv'[c].outcome = inv[c].outcome
        \/ Evolving
    BY <1>2, <1>3, <1>4, <1>5, NextEvolves
  <1> QED BY <1>0, <1>1, <1>6

LEMMA AlwaysOutcomes == Spec => []OInv
  <1>1. QInv /\ DInv /\ OInv /\ [Next]_vars => OInv'
    <2>1. ASSUME OInv, UNCHANGED vars
          PROVE  OInv'
      BY <2>1 DEF OInv, vars
    <2> QED BY <2>1, NextOutcomes
  <1>2. Init => OInv
    BY DEF Init, OInv, Unsubmitted, Complete
  <1> QED BY <1>1, <1>2, QueueCoherent, AlwaysDelivery, PTL DEF Spec

\* The kernel reports NOT_DELIVERED only for a request that neither user code
\* nor a kernel handler has seen or will see, whatever cancel, deadline,
\* rollback_receive and close_server_queue do at the same time: for any call
\* without an operation budget, and for every call that no thread polls with
\* take_result.  claim_result is left out because it ends an expired call as
\* NOT_DELIVERED while a receive may be about to show it.
THEOREM VerdictsHold == Spec => []VInv
  <1>1. QInv /\ DInv /\ OInv' /\ VInv /\ [Next]_vars => VInv'
    <2>1. ASSUME VInv, UNCHANGED vars
          PROVE  VInv'
      <3>1. ASSUME NEW c \in Calls, Verdict(c)
            PROVE  Verdict(c)'
        BY <2>1, <3>1 DEF Verdict, Arriving, Complete, vars
      <3> QED BY <2>1, <3>1 DEF VInv, Unpolled
    <2>2. ASSUME QInv, DInv, OInv', VInv, Next
          PROVE  VInv'
      BY <2>2, NextVerdict DEF VInv, Unpolled
    <2> QED BY <2>1, <2>2
  <1>2. Init => VInv
    BY DEF Init, VInv, Verdict, Unsubmitted, Complete
  <1> QED BY <1>1, <1>2, QueueCoherent, AlwaysDelivery, AlwaysOutcomes, PTL DEF Spec

\* Where no call has an operation budget, or nobody polls, NOT_DELIVERED from
\* the kernel always means that the caller may retry.
THEOREM RetryIsSafe ==
  ASSUME Deadlined = {} \/ Takers = {}
  PROVE  Spec => []NotDeliveredMeansNotExecuted
  <1>1. VInv => NotDeliveredMeansNotExecuted
    BY DEF VInv, Unpolled, Verdict, NotDeliveredMeansNotExecuted
  <1> QED BY <1>1, VerdictsHold, PTL
----------------------------------------------------------------------------
(* The contract of a call *)

\* What the caller sees of a call follows its state.
LEMMA Views ==
  ASSUME TypeOK, NEW c \in Calls, Touches(c)
  PROVE  /\ CallStatus' = [CallStatus EXCEPT ![c] = StatusOf(inv'[c])]
         /\ CallOutcome' = [CallOutcome EXCEPT ![c] = inv'[c].outcome]
         /\ Decided' = [Decided EXCEPT ![c] = DecidedBy(inv'[c])]
         /\ CallStatus[c] = StatusOf(inv[c]) /\ CallOutcome[c] = inv[c].outcome /\ Decided[c] = DecidedBy(inv[c])
  BY Zenon DEF Touches, CallStatus, CallOutcome, Decided

LEMMA SameViews ==
  ASSUME TypeOK, NEW c \in Calls, Touches(c), StatusOf(inv'[c]) = StatusOf(inv[c]), inv'[c].outcome = inv[c].outcome,
         DecidedBy(inv'[c]) = DecidedBy(inv[c])
  PROVE  UNCHANGED <<CallStatus, CallOutcome, Decided>>
  BY ZenonT(30) DEF Touches, CallStatus, CallOutcome, Decided

\* A call whose phase turns looks the same to its caller.
LEMMA TurnSeen ==
  ASSUME TypeOK, NEW c \in Calls, NEW p \in {"queued", "receiving", "dispatched"}, PhaseTo(c, p), inv[c].phase # "none"
  PROVE  UNCHANGED <<CallStatus, CallOutcome, Decided>>
  <1>1. StatusOf(inv'[c]) = StatusOf(inv[c])
    <2>1. \A i, j : ~ Complete(i) /\ ~ Complete(j) /\ i.phase # "none" /\ j.phase # "none" /\ i.client_closed = j.client_closed
                  => StatusOf(i) = StatusOf(j)
      BY DEF StatusOf
    <2>2. ~ Complete(inv'[c]) /\ inv'[c].phase # "none"
      BY DEF PhaseTo, Complete
    <2> QED BY Zenon, <2>1, <2>2 DEF PhaseTo
  <1>2. DecidedBy(inv'[c]) = DecidedBy(inv[c])
    BY DEF PhaseTo, DecidedBy
  <1> QED BY Zenon, <1>1, <1>2, SameViews DEF PhaseTo

\* A call that is shown was not shown before, and is pending or was given up,
\* or its outcome is unknown.
LEMMA ShowsCall ==
  ASSUME QInv, DInv, VInv, NEW c \in Calls, Unpolled(c), Arriving(c), executed' = [executed EXCEPT ![c] = TRUE],
         UNCHANGED <<CallStatus, CallOutcome, Decided>>
  PROVE  Call!Deliver(c)
  <1>1. ~ executed[c]
    BY ZenonT(20) DEF DInv, Servers, Arriving
  <1>2. inv[c].phase # "none"
    <2>1. Active(c)
      BY DEF Arriving, Active
    <2>2. sub[c] \notin Unqueued
      BY <2>1, ActiveQueued
    <2> QED BY Zenon, <2>2 DEF QInv, Submitted, Unqueued
  <1>3. CallStatus[c] \in {"pending", "abandoned"} \/ CallOutcome[c] = "OUTCOME_UNKNOWN"
    <2>1. Complete(inv[c]) => inv[c].outcome = "OUTCOME_UNKNOWN"
      BY DEF VInv, Verdict
    <2>2. ~ Complete(inv[c]) => StatusOf(inv[c]) \in {"pending", "abandoned"}
      BY ZenonT(20), <1>2 DEF StatusOf
    <2> QED BY <2>1, <2>2 DEF CallStatus, CallOutcome
  <1> QED BY ZenonT(20), <1>1, <1>3 DEF Call!Deliver

\* A call that evolves is answered, failed, taken or given up.
LEMMA EvolvesCall ==
  ASSUME QInv, QInv', OInv, OInv', Next, executed' = executed, NEW c \in Calls, Unpolled(c), Touches(c), Evolves(c, inv'[c])
  PROVE  Call!Answer(c) \/ Call!Fail(c) \/ Call!Take(c) \/ Call!GiveUp(c) \/ UNCHANGED <<CallStatus, CallOutcome, Decided>>
  <1> DEFINE S == CallStatus' = [CallStatus EXCEPT ![c] = StatusOf(inv'[c])]
             O == CallOutcome' = [CallOutcome EXCEPT ![c] = inv'[c].outcome]
             D == Decided' = [Decided EXCEPT ![c] = DecidedBy(inv'[c])]
  <1>0. TypeOK /\ inv[c] \in State /\ inv'[c] \in State
    BY ZenonT(30), CallFacts DEF Touches
  <1>1. /\ S /\ O /\ D
        /\ CallStatus[c] = StatusOf(inv[c]) /\ CallOutcome[c] = inv[c].outcome /\ Decided[c] = DecidedBy(inv[c])
    BY ZenonT(30), <1>0, Views
  <1> HIDE DEF S, O, D
  <1>2. CASE Complete(inv[c])
    <2>1. Complete(inv'[c]) /\ inv'[c].outcome = inv[c].outcome /\ DecidedBy(inv'[c]) = DecidedBy(inv[c])
      BY ZenonT(30), <1>2 DEF Evolves, DecidedBy
    <2>2. CASE inv'[c].phase = inv[c].phase
      <3>1. StatusOf(inv'[c]) = StatusOf(inv[c])
        BY ZenonT(20), <1>2, <2>1, <2>2 DEF StatusOf, Complete
      <3> QED BY Zenon, <1>0, <2>1, <3>1, SameViews
    <2>3. CASE inv'[c].phase # inv[c].phase
      <3>1. StatusOf(inv[c]) = "ready" /\ StatusOf(inv'[c]) = "consumed"
        BY <1>2, <2>1, <2>3 DEF Evolves, StatusOf, Complete
      <3>2. UNCHANGED <<CallOutcome, Decided>>
        BY ZenonT(20), <2>1 DEF CallOutcome, Decided, Touches
      <3> QED BY <1>1, <3>1, <3>2 DEF Call!Take, S
    <2> QED BY ZenonT(20), <2>2, <2>3
  <1>3. CASE ~ Complete(inv[c]) /\ ~ Complete(inv'[c])
    <2>1. inv'[c].phase = inv[c].phase /\ inv'[c].outcome = inv[c].outcome /\ inv[c].outcome = "none"
      BY ZenonT(30), <1>3 DEF Evolves, OInv
    <2>2. DecidedBy(inv'[c]) = DecidedBy(inv[c])
      BY ZenonT(30), <2>1 DEF DecidedBy
    <2>3. CASE StatusOf(inv'[c]) = StatusOf(inv[c])
      BY ZenonT(30), <1>0, <2>1, <2>2, <2>3, SameViews
    <2>4. CASE StatusOf(inv'[c]) # StatusOf(inv[c])
      <3>1. StatusOf(inv[c]) = "pending" /\ StatusOf(inv'[c]) = "abandoned"
        BY ZenonT(20), <1>3, <2>1, <2>4 DEF Evolves, StatusOf, Complete
      <3>2. UNCHANGED <<CallOutcome, Decided>>
        BY ZenonT(20), <2>1, <2>2 DEF CallOutcome, Decided, Touches
      <3> QED BY <1>1, <3>1, <3>2 DEF Call!GiveUp, S
    <2> QED BY ZenonT(30), <2>3, <2>4
  <1>4. CASE ~ Complete(inv[c]) /\ Complete(inv'[c])
    <2>1. /\ Justified(c, inv'[c].outcome, inv'[c].reason)
          /\ inv'[c].outcome # "none" /\ inv'[c].phase = "ready" /\ ~ inv[c].client_closed
      BY ZenonT(30), <1>4 DEF Evolves
    <2>2. inv[c].phase # "none"
      <3>1. sub'[c] # "idle"
        <4>1. \A d \in Calls : sub'[d] = "idle" => inv'[d] = Unsubmitted
          BY ZenonT(30) DEF QInv, Submitted, Unsent
        <4>2. ~ Complete(Unsubmitted)
          BY DEF Complete, Unsubmitted
        <4> QED BY Zenon, <1>4, <4>1, <4>2
      <3>2. ~ submit(c)
        <4> DEFINE j == [Unsubmitted EXCEPT !.phase = "queued", !.budget = (c \notin Oneway)]
        <4>1. submit(c) => inv' = [inv EXCEPT ![c] = j]
          BY DEF submit, Update
        <4>2. j.phase = "queued"
          BY Zenon DEF Unsubmitted
        <4> HIDE DEF j
        <4> QED BY <2>1, <4>1, <4>2 DEF QInv, TypeOK
      <3>3. sub[c] # "idle"
        BY <3>1, <3>2, Starts
      <3> QED BY ZenonT(30), <3>3 DEF QInv, Submitted
    <2>3. StatusOf(inv[c]) = "pending" /\ StatusOf(inv'[c]) = "ready"
      BY ZenonT(20), <1>4, <2>1, <2>2 DEF StatusOf, Complete
    <2>4. \A o, who : inv'[c].outcome = o /\ DecidedBy(inv'[c]) = who => Call!Resolve(c, o, who)
      BY ZenonT(30), <1>1, <2>3 DEF Call!Resolve, S, O, D
    <2>5. CASE executed[c] /\ (inv'[c].outcome = "REPLY" \/ inv'[c].reason = "UNSUPPORTED")
      <3>1. DecidedBy(inv'[c]) = "server" /\ inv'[c].outcome \in {"REPLY", "NOT_DELIVERED", "OUTCOME_UNKNOWN"}
        BY ZenonT(20), <1>0, <2>1, <2>5 DEF DecidedBy, State, Outcomes
      <3> QED BY ZenonT(30), <2>4, <2>5, <3>1 DEF Call!Answer
    <2>6. CASE inv'[c].outcome = "OUTCOME_UNKNOWN" /\ inv'[c].reason # "UNSUPPORTED"
      <3>1. DecidedBy(inv'[c]) = "kernel"
        BY ZenonT(20), <2>6 DEF DecidedBy
      <3> QED BY <2>4, <2>6, <3>1 DEF Call!Fail
    <2>7. CASE inv'[c].outcome = "NOT_DELIVERED" /\ inv'[c].reason # "UNSUPPORTED" /\ ~ executed[c]
      <3>1. DecidedBy(inv'[c]) = "kernel"
        BY <2>7 DEF DecidedBy
      <3> QED BY ZenonT(30), <2>4, <2>7, <3>1 DEF Call!Fail
    <2> QED BY ZenonT(30), <2>1, <2>5, <2>6, <2>7 DEF Justified, Unpolled
  <1> QED BY ZenonT(30), <1>2, <1>3, <1>4 DEF Evolves

\* A submission is the contract's.
LEMMA SubmitsCall ==
  ASSUME QInv, Next, NEW c \in Calls, submit(c)
  PROVE  Call!Submit(c)
  <1> DEFINE j == [Unsubmitted EXCEPT !.phase = "queued", !.budget = (c \notin Oneway)]
  <1>1. inv' = [inv EXCEPT ![c] = j] /\ sub[c] = "idle" /\ inv \in [Calls -> State]
    BY DEF submit, Update, Step, QInv, TypeOK
  <1>2. executed' = executed
    BY DEF submit, submitRest
  <1>3. j.phase = "queued" /\ j.outcome = "none" /\ j.client_closed = FALSE
    BY ZenonT(30) DEF Unsubmitted
  <1>4. inv[c].phase = "none" /\ inv[c].outcome = "none"
    <2>1. inv[c] = Unsubmitted
      BY <1>1 DEF QInv, Submitted, Unsent
    <2> QED BY <2>1 DEF Unsubmitted
  <1> HIDE DEF j
  <1>5. StatusOf(inv[c]) = "none" /\ StatusOf(j) = "pending" /\ DecidedBy(j) = DecidedBy(inv[c])
    BY <1>3, <1>4 DEF StatusOf, Complete, DecidedBy
  <1>6. CallStatus[c] = "none" /\ CallStatus' = [CallStatus EXCEPT ![c] = "pending"]
    BY ZenonT(30), <1>1, <1>5 DEF CallStatus
  <1>7. CallOutcome' = CallOutcome /\ Decided' = Decided
    BY <1>1, <1>3, <1>4, <1>5 DEF CallOutcome, Decided
  <1> QED BY <1>2, <1>6, <1>7 DEF Call!Submit

\* Every step of the machinery is one of the contract's, or is not seen.
LEMMA NextCall ==
  ASSUME QInv, QInv', OInv, OInv', DInv, VInv, \A c \in Calls : Unpolled(c), Next
  PROVE  (\E c \in Calls : Call!Submit(c) \/ Call!Deliver(c) \/ Call!Answer(c) \/ Call!Fail(c) \/ Call!Take(c) \/ Call!GiveUp(c))
         \/ UNCHANGED <<CallStatus, CallOutcome, Decided, executed>>
  <1>0. TypeOK
    BY DEF QInv
  <1>1. ASSUME inv' = inv
        PROVE  UNCHANGED <<CallStatus, CallOutcome, Decided>>
    BY <1>1 DEF CallStatus, CallOutcome, Decided
  <1>2. ASSUME NEW r \in Receivers, activate(r)
        PROVE  on[r] \in Calls /\ Call!Deliver(on[r])
    <2>1. on[r] \in Calls
      BY <1>2, CallFacts DEF activate, At, Holding, Delivered
    <2>2. Arriving(on[r]) /\ executed' = [executed EXCEPT ![on[r]] = TRUE] /\ inv' = inv
      BY <1>2 DEF activate, At, Arriving
    <2> QED BY ZenonT(30), <1>1, <2>1, <2>2, ShowsCall
  <1>3. ASSUME NEW k \in KernelWorkers, KernelTurning(k)
        PROVE  on[k] \in Calls /\ UNCHANGED <<CallStatus, CallOutcome, Decided>>
    <2>1. on[k] \in Calls /\ inv[on[k]].phase # "none"
      BY Zenon, <1>3, KernelTurningCall DEF QInv, Submitted, Unqueued
    <2>2. inv' = inv \/ \E p \in {"queued", "receiving", "dispatched"} : PhaseTo(on[k], p)
      BY Zenon, <1>3, KernelTurningCall
    <2> QED BY ZenonT(30), <1>0, <1>1, <2>1, <2>2, TurnSeen
  <1>4. ASSUME NEW k \in KernelWorkers, mark_dispatched(k)
        PROVE  on[k] \in Calls /\ Call!Deliver(on[k])
    <2>1. on[k] \in Calls /\ UNCHANGED <<CallStatus, CallOutcome, Decided>>
      BY Zenon, <1>3, <1>4 DEF KernelTurning
    <2>2. Arriving(on[k]) /\ executed' = [executed EXCEPT ![on[k]] = TRUE]
      BY <1>4 DEF mark_dispatched, At, Arriving
    <2> QED BY ZenonT(30), <2>1, <2>2, ShowsCall
  <1>5. ASSUME NEW r \in Receivers, Turning(r)
        PROVE  UNCHANGED <<CallStatus, CallOutcome, Decided>>
    <2>1. on[r] \in Calls /\ inv[on[r]].phase # "none"
      BY Zenon, <1>5, TurningCall, CallFacts DEF QInv, Submitted
    <2>2. \E p \in {"queued", "receiving", "dispatched"} : PhaseTo(on[r], p)
      BY Zenon, <1>5, TurningCall
    <2> QED BY ZenonT(30), <1>0, <2>1, <2>2, TurnSeen
  <1>6. ASSUME Evolving, executed' = executed
        PROVE  (\E c \in Calls : Call!Answer(c) \/ Call!Fail(c) \/ Call!Take(c) \/ Call!GiveUp(c))
               \/ UNCHANGED <<CallStatus, CallOutcome, Decided>>
    <2>1. ASSUME NEW c \in Calls, Touches(c)
          PROVE  Call!Answer(c) \/ Call!Fail(c) \/ Call!Take(c) \/ Call!GiveUp(c) \/ UNCHANGED <<CallStatus, CallOutcome, Decided>>
      BY Zenon, <1>6, <2>1, EvolvesCall DEF Evolving
    <2>2. inv' = inv \/ \E c \in Calls : Touches(c)
      BY <1>6 DEF Evolving, OneCall
    <2> QED BY Zenon, <1>1, <2>1, <2>2
  <1>7. CASE executed' = executed
    BY Zenon, <1>3, <1>5, <1>6, <1>7, SubmitsCall, NextEvolves
  <1> QED BY Zenon, <1>2, <1>4, <1>7, ShowsStep

\* Whatever the submitting thread, the receivers, the Responder's threads, the
\* kernel's workers and the timers do, a call keeps the contract its caller
\* relies on: one outcome, published once and handed over at most once, and a
\* kernel verdict of NOT_DELIVERED only for a request nobody has seen or will
\* see. The deadline that a taker of the result enforces itself is excluded:
\* there the code's verdict and a delivery on its way can cross.
THEOREM CallsKeepTheContract ==
  ASSUME Deadlined = {} \/ Takers = {}
  PROVE  Spec => ImplementsObjectCall
  <1>1. Init => Call!CallInit
    <2>1. StatusOf(Unsubmitted) = "none" /\ Unsubmitted.outcome = "none" /\ DecidedBy(Unsubmitted) = "nobody"
      BY DEF Unsubmitted, StatusOf, DecidedBy
    <2> QED BY <2>1 DEF Init, Call!CallInit, CallStatus, CallOutcome, Decided
  <1>2. QInv /\ QInv' /\ OInv /\ OInv' /\ DInv /\ VInv /\ [Next]_vars => [Call!CallNext]_(Call!callVars)
    <2>1. ASSUME QInv, QInv', OInv, OInv', DInv, VInv, Next
          PROVE  Call!CallNext \/ UNCHANGED Call!callVars
      BY Zenon, <2>1, NextCall DEF Unpolled, Call!CallNext, Call!callVars
    <2>2. ASSUME UNCHANGED vars
          PROVE  UNCHANGED Call!callVars
      BY <2>2 DEF vars, Call!callVars, CallStatus, CallOutcome, Decided
    <2> QED BY <2>1, <2>2
  <1> QED BY <1>1, <1>2, QueueCoherent, AlwaysDelivery, AlwaysOutcomes, VerdictsHold, PTL DEF Spec, ImplementsObjectCall, Call!CallSpec
=============================================================================
