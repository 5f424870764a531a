-------------------------- MODULE Invocation_proofs --------------------------
(***************************************************************************)
(* The request queue of a protocol endpoint, for any number of calls and   *)
(* threads and any limits: QInv, the invariant that the proofs about the   *)
(* accounting, the results and the delivery of calls start from.           *)
(*                                                                         *)
(* A request is in the queue once, or drained, or removed by the deadline  *)
(* (Queue); a receive that commits pops the head, which must still be the  *)
(* request it claimed, and there must be one (Claim); what exists of a     *)
(* call was submitted, and a thread works on a submitted call (Submitted). *)
(***************************************************************************)
EXTENDS Invocation, TLAPS

Phases == {"none", "queued", "receiving", "dispatched", "ready", "consumed"}
Outcomes == {"none", "REPLY", "NOT_DELIVERED", "OUTCOME_UNKNOWN"}
Reasons == {"none", "OPERATION_DEADLINE", "RESPONDER_ABANDONED", "CANCEL_REQUESTED", "PEER_CLOSED", "UNSUPPORTED"}
State ==
  [phase : Phases, outcome : Outcomes, reason : Reasons, response : BOOLEAN, result_claimed : BOOLEAN,
   alive : BOOLEAN, client_closed : BOOLEAN, cancel : BOOLEAN, budget : BOOLEAN, owner : BOOLEAN]

\* Where a receive has made the message visible, where it holds the head of
\* the queue, and where it holds nothing.
Delivered == {"activated", "closing", "dispatched", "aborting"}
Holding == {"claimed", "discard", "checked", "unclaim", "receiving", "cancelled"} \cup Delivered
Empty == {"idle", "entering", "leaving"}
\* Where a kernel worker has called the handler.
Executing == {"executing", "replied", "error"}
\* Where invoke_submit has not queued the request yet.
Unqueued == {"idle", "made", "installed"}
\* Where the deadline has taken the request out of the queue.
Removed == {"removed", "cleared"}

SubmitPlaces == Unqueued \cup {"queued", "rechecked", "copyout", "done", "failing", "failed"}
TimerPlaces == Removed \cup {"off", "armed", "removing", "finishing", "done"}
ResponderPlaces == {"none", "request", "table", "gone"}
HandlePlaces == {"none", "open", "closed"}

ThreadsOK ==
  /\ DOMAIN pc = Threads /\ on \in [Threads -> Calls \cup {NoCall}]
  /\ \A r \in Receivers : pc[r] \in Empty \cup Holding
  /\ \A w \in Workers : pc[w] \in {"idle", "reply", "fail", "consume", "close"}
  /\ \A t \in Takers : pc[t] \in {"idle", "taking", "claimed"}
  /\ \A k \in KernelWorkers : pc[k] \in {"idle", "popped", "begun"} \cup Executing

\* The state of every call and every thread is well formed.
TypeOK ==
  /\ inv \in [Calls -> State]
  /\ fifo \in Seq(Calls) /\ claimed \in BOOLEAN /\ server \in {"open", "released", "closed"}
  /\ discarded \in SUBSET Calls /\ kqueue \in Seq(KernelCalls)
  /\ sub \in [Calls -> SubmitPlaces]
  /\ handle \in [Calls -> HandlePlaces]
  /\ responder \in [Calls -> ResponderPlaces]
  /\ timer \in [Calls -> TimerPlaces]
  /\ expired \in [Calls -> BOOLEAN]
  /\ got \in [Takers -> BOOLEAN] /\ executed \in [Calls -> BOOLEAN]
  /\ acked \in [Calls -> SUBSET (Workers \X Outcomes)] /\ taken \in [Calls -> Seq(Outcomes \X BOOLEAN)]

\* Nothing exists of a call before invoke_submit.
Unsent(c) ==
  sub[c] = "idle" => /\ inv[c] = Unsubmitted /\ timer[c] = "off" /\ handle[c] = "none"
                     /\ responder[c] = "none" /\ ~ expired[c]

\* What exists of a call keeps it submitted, and a thread works on a call
\* that was submitted.
Submitted ==
  /\ \A c \in Calls : Unsent(c) /\ (sub[c] # "idle" => inv[c].phase # "none")
  /\ \A t \in Workers \cup Takers : pc[t] # "idle" => on[t] \in Calls /\ sub[on[t]] # "idle"
  /\ \A k \in KernelWorkers : pc[k] # "idle" => on[k] \in KernelCalls /\ sub[on[k]] \notin Unqueued
  /\ \A n \in 1 .. Len(kqueue) : sub[kqueue[n]] \notin Unqueued

\* A request is in one place: once in the queue, or drained, or removed by
\* the deadline.
Queue ==
  /\ \A m, n \in 1 .. Len(fifo) : fifo[m] = fifo[n] => m = n
  /\ \A n \in 1 .. Len(fifo) : fifo[n] \notin discarded /\ timer[fifo[n]] \notin Removed
  /\ \A c \in discarded : timer[c] \notin Removed
  /\ \A c \in Calls : InQueue(c) \/ c \in discarded \/ timer[c] \in Removed => sub[c] \notin Unqueued /\ c \notin KernelCalls

\* A receive that holds a request holds the head, alone; a closed endpoint
\* keeps a request only while a receive is inside it.
Claim ==
  /\ \A r \in Receivers : IF pc[r] \in Holding THEN claimed /\ fifo # <<>> /\ on[r] = fifo[1] ELSE on[r] = NoCall
  /\ \A r, s \in Receivers : pc[r] \in Holding /\ pc[s] \in Holding => r = s
  /\ claimed => \E r \in Receivers : pc[r] \in Holding
  /\ server = "closed" /\ fifo # <<>> => Inside # {}

QInv == TypeOK /\ ThreadsOK /\ Submitted /\ Queue /\ Claim
----------------------------------------------------------------------------
(* What the operators on an invocation_state may do to it *)

\* A call is resolved once: a complete one keeps its result, and one that
\* completes was not given up and gets an outcome.
Resolves(i, j) ==
  /\ j \in State /\ j.budget = i.budget /\ j.client_closed = i.client_closed /\ j.result_claimed = i.result_claimed
  /\ i.phase # "none" => j.phase # "none"
  /\ Complete(i) => j.phase = i.phase /\ j.outcome = i.outcome /\ j.reason = i.reason /\ j.response = i.response
  /\ ~ Complete(i) /\ Complete(j) =>
       j.phase = "ready" /\ j.outcome # "none" /\ ~ i.client_closed /\ j.response = (j.outcome = "REPLY")
  /\ ~ Complete(j) => j.outcome = i.outcome

LEMMA ResolvesItself ==
  ASSUME NEW i \in State
  PROVE  Resolves(i, i)
  BY DEF Resolves

LEMMA ResolvesTransitive ==
  ASSUME NEW i, NEW j, NEW k, Resolves(i, j), Resolves(j, k)
  PROVE  Resolves(i, k)
  BY DEF Resolves, Complete

LEMMA PublishResolves ==
  ASSUME NEW i \in State, NEW o \in Outcomes \ {"none"}, NEW r \in Reasons
  PROVE  Resolves(i, Publish(i, o, r)) /\ Publish(i, o, r).alive = i.alive
  <1> DEFINE p == [i EXCEPT !.phase = "ready", !.outcome = o, !.reason = r, !.response = (o = "REPLY")]
  <1>1. p \in State
    BY Zenon DEF State, Phases
  <1>2. /\ p.phase = "ready" /\ p.outcome = o /\ p.response = (o = "REPLY") /\ p.budget = i.budget
        /\ p.client_closed = i.client_closed /\ p.result_claimed = i.result_claimed /\ p.alive = i.alive
    BY Zenon DEF State
  <1> HIDE DEF p
  <1>3. ~ Complete(i) /\ ~ i.client_closed => Resolves(i, p)
    BY <1>1, <1>2 DEF Resolves, Complete
  <1> QED BY <1>2, <1>3, ResolvesItself DEF Publish, p

\* Flags that are set or cleared without completing the call.
LEMMA FlagResolves ==
  ASSUME NEW i \in State, NEW b \in BOOLEAN
  PROVE  /\ [i EXCEPT !.alive = b] \in State /\ Resolves(i, [i EXCEPT !.alive = b])
         /\ [i EXCEPT !.owner = b] \in State /\ Resolves(i, [i EXCEPT !.owner = b])
         /\ [i EXCEPT !.cancel = b] \in State /\ Resolves(i, [i EXCEPT !.cancel = b])
  BY DEF Resolves, Complete, State

LEMMA PhaseResolves ==
  ASSUME NEW i \in State, ~ Complete(i), NEW p \in {"queued", "receiving", "dispatched"}
  PROVE  [i EXCEPT !.phase = p] \in State /\ Resolves(i, [i EXCEPT !.phase = p])
  BY DEF Resolves, Complete, State, Phases

\* Dying and completing in one step.
LEMMA DeadResolves ==
  ASSUME NEW i \in State, NEW o \in {"NOT_DELIVERED", "OUTCOME_UNKNOWN"},
         NEW r \in {"OPERATION_DEADLINE", "RESPONDER_ABANDONED"}
  PROVE  /\ Resolves(i, [i EXCEPT !.alive = FALSE]) /\ ~ [i EXCEPT !.alive = FALSE].alive
         /\ Resolves(i, Publish([i EXCEPT !.alive = FALSE], o, r)) /\ ~ Publish([i EXCEPT !.alive = FALSE], o, r).alive
  <1> DEFINE d == [i EXCEPT !.alive = FALSE]
  <1>1. d \in State /\ Resolves(i, d)
    BY Zenon, FlagResolves
  <1>2. ~ d.alive
    BY DEF State
  <1> HIDE DEF d
  <1>3. Resolves(d, Publish(d, o, r)) /\ ~ Publish(d, o, r).alive
    BY <1>1, <1>2, PublishResolves DEF Outcomes, Reasons
  <1>4. Resolves(i, Publish(d, o, r))
    BY <1>1, <1>3, ResolvesTransitive
  <1> QED BY <1>1, <1>2, <1>3, <1>4 DEF d

LEMMA ExpireResolves ==
  ASSUME NEW i \in State
  PROVE  Resolves(i, Expire(i))
  <1>1. Resolves(i, Publish(i, "NOT_DELIVERED", "OPERATION_DEADLINE"))
    BY PublishResolves DEF Outcomes, Reasons
  <1> QED BY Zenon, <1>1, DeadResolves, ResolvesItself DEF Expire

LEMMA AbandonResolves ==
  ASSUME NEW i \in State
  PROVE  Resolves(i, Abandon(i)) /\ ~ Abandon(i).alive
  BY Zenon, DeadResolves, ResolvesItself DEF Abandon

LEMMA BegunResolves ==
  ASSUME NEW i \in State
  PROVE  Resolves(i, Begun(i))
  <1>1. /\ Resolves(i, Publish(i, "NOT_DELIVERED", "CANCEL_REQUESTED"))
        /\ Resolves(i, Publish(i, "NOT_DELIVERED", "RESPONDER_ABANDONED"))
    BY PublishResolves DEF Outcomes, Reasons
  <1>2. i.phase = "queued" => Resolves(i, [i EXCEPT !.phase = "receiving"])
    BY Zenon, PhaseResolves DEF Complete
  <1> QED BY Zenon, <1>1, <1>2, ResolvesItself DEF Begun, Receivable

LEMMA DroppedResolves ==
  ASSUME NEW c, NEW i \in State
  PROVE  Resolves(i, Dropped(c, i)) /\ (c \notin Oneway => ~ Dropped(c, i).alive)
  <1> DEFINE u == [i EXCEPT !.owner = FALSE]
  <1>1. u \in State /\ Resolves(i, u)
    BY Zenon, FlagResolves
  <1> HIDE DEF u
  <1>2. Resolves(u, Abandon(u)) /\ ~ Abandon(u).alive
    BY <1>1, AbandonResolves
  <1>3. Resolves(i, Abandon(u))
    BY <1>1, <1>2, ResolvesTransitive
  <1> QED BY <1>1, <1>2, <1>3 DEF Dropped, u
----------------------------------------------------------------------------
(* The request queue *)

\* Removing a request takes one node out and moves the ones behind it up; a
\* claimed head stays where it is.
LEMMA WithoutRequest ==
  ASSUME fifo \in Seq(Calls), NEW c \in Calls, Removable(c), Queue
  PROVE  /\ Without(c) \in Seq(Calls) /\ Len(Without(c)) = Len(fifo) - 1 /\ Len(fifo) > 0
         /\ \A n \in 1 .. Len(Without(c)) : Without(c)[n] # c /\ \E m \in 1 .. Len(fifo) : Without(c)[n] = fifo[m]
         /\ \A m, n \in 1 .. Len(Without(c)) : Without(c)[m] = Without(c)[n] => m = n
         /\ claimed => Len(fifo) > 1 /\ Without(c)[1] = fifo[1]
  <1> DEFINE at == CHOOSE k \in 1 .. Len(fifo) : fifo[k] = c
             w == [k \in 1 .. Len(fifo) - 1 |-> IF k < at THEN fifo[k] ELSE fifo[k + 1]]
  <1>1. Without(c) = w
    BY DEF Without
  <1>2. at \in 1 .. Len(fifo) /\ fifo[at] = c
    BY DEF Removable, InQueue
  <1> HIDE DEF at
  <1>3. Len(fifo) \in Nat /\ Len(fifo) > 0 /\ Len(fifo) - 1 \in Nat /\ \A k \in 1 .. Len(fifo) : fifo[k] \in Calls
    BY <1>2
  <1>4. w \in Seq(Calls) /\ Len(w) = Len(fifo) - 1
    BY <1>2, <1>3
  <1>5. ASSUME NEW n \in 1 .. Len(w)
        PROVE  w[n] # c /\ \E m \in 1 .. Len(fifo) : w[n] = fifo[m]
    BY <1>2, <1>3, <1>4 DEF Queue
  <1>6. ASSUME NEW m \in 1 .. Len(w), NEW n \in 1 .. Len(w), w[m] = w[n]
        PROVE  m = n
    BY <1>2, <1>3, <1>4, <1>6 DEF Queue
  <1>7. ASSUME claimed
        PROVE  Len(fifo) > 1 /\ w[1] = fifo[1]
    <2>1. at # 1
      BY <1>2, <1>3, <1>7 DEF Removable
    <2> QED BY <1>2, <1>3, <2>1
  <1> HIDE DEF w
  <1> QED BY <1>1, <1>3, <1>4, <1>5, <1>6, <1>7
----------------------------------------------------------------------------
(* Steps that resolve at most one call *)

Touches(c) == inv' \in [Calls -> State] /\ \A d \in Calls \ {c} : inv'[d] = inv[d]

\* The one call whose state changes was submitted and keeps its budget, its
\* client and its claim.
Quiet == inv' = inv \/ \E c \in Calls : sub[c] # "idle" /\ Touches(c) /\ Resolves(inv[c], inv'[c])

LEMMA UpdateTouches ==
  ASSUME TypeOK, NEW c \in Calls, NEW j \in State, Update(c, j)
  PROVE  Touches(c) /\ inv'[c] = j
  BY DEF TypeOK, Update, Touches

LEMMA UpdateQuiet ==
  ASSUME TypeOK, NEW c \in Calls, sub[c] # "idle", NEW j, Update(c, j), Resolves(inv[c], j)
  PROVE  Quiet
  <1>1. j \in State
    BY DEF Resolves
  <1> QED BY <1>1, UpdateTouches DEF Quiet

LEMMA CancelQuiet ==
  ASSUME TypeOK, NEW c \in Calls, sub[c] # "idle", Cancel(c)
  PROVE  Quiet
  <1> DEFINE i == inv[c]
             f == [i EXCEPT !.cancel = TRUE]
             p == Publish(f, "NOT_DELIVERED", "CANCEL_REQUESTED")
  <1>1. i \in State
    BY DEF TypeOK
  <1> HIDE DEF i
  <1>2. f \in State /\ Resolves(i, f)
    BY Zenon, <1>1, FlagResolves
  <1> HIDE DEF f
  <1>3. Resolves(f, p)
    BY <1>2, PublishResolves DEF Outcomes, Reasons
  <1> HIDE DEF p
  <1>4. Resolves(i, p) /\ p \in State
    BY <1>2, <1>3, ResolvesTransitive DEF Resolves
  <1>5. Resolves(i, Dropped(c, p))
    BY <1>4, DroppedResolves, ResolvesTransitive
  <1>6. Update(c, Dropped(c, p)) \/ Update(c, p) \/ Update(c, f) \/ inv' = inv
    BY DEF Cancel, Update, i, f, p
  <1>7. CASE inv' = inv
    BY <1>7 DEF Quiet
  <1>8. CASE \E j \in {f, p, Dropped(c, p)} : Update(c, j)
    BY <1>2, <1>4, <1>5, <1>8, UpdateQuiet DEF i
  <1> QED BY <1>6, <1>7, <1>8

----------------------------------------------------------------------------
(* The steps by the party that takes them, and what each party leaves alone *)

Submitting ==
  \/ \E c \in Calls : submit(c) \/ SubmitStep(c)
  \/ \E c \in KernelCalls : enqueue_kernel(c)

Timing == \E c \in Calls : deadline_passes(c) \/ ExpireStep(c)

Taking == \E t \in Takers : TakeStep(t) \/ \E c \in Calls : take_result(t, c)

Calling == \E c \in Calls : ClientStep(c)

Receiving == \E r \in Receivers : receive(r) \/ ReceiveStep(r)

Serving == release_server \/ close_server_queue \/ \E c \in Calls : complete_discarded(c)

Responding ==
  \/ \E w \in Workers : RespondStep(w) \/ \E c \in Calls, how \in {"reply", "fail"} : respond(w, c, how)
  \/ \E c \in Calls : close_responder(c) \/ restrict_responder(c)

Dispatching == \E k \in KernelWorkers : KernelStep(k)

LEMMA NextParties ==
  Next => Submitting \/ Timing \/ Calling \/ Taking \/ Receiving \/ Serving \/ Responding \/ Dispatching
  BY DEF Next, Submitting, Timing, Calling, Taking, Receiving, Serving, Responding, Dispatching

LEMMA Frames ==
  /\ Submitting => UNCHANGED submitRest
  /\ Timing => UNCHANGED timerRest
  /\ Calling => UNCHANGED clientRest /\ UNCHANGED <<pc, on, got, taken>>
  /\ Taking => UNCHANGED clientRest /\ UNCHANGED <<handle, fifo, responder>>
  /\ Receiving => UNCHANGED receiveRest
  /\ Serving => UNCHANGED receiveRest /\ UNCHANGED <<claimed, pc, on, executed>>
  /\ Responding => UNCHANGED responderRest
  /\ Dispatching => UNCHANGED kernelRest
  <1>1. Submitting => UNCHANGED submitRest
    BY Zenon DEF Submitting, SubmitStep, submit, install, install_fails, destroy_state, enqueue, enqueue_fails, recheck_cancel,
       recheck_completed, enqueue_kernel, copyout, copyout_fails, submit_closes
  <1>2. Timing => UNCHANGED timerRest
    BY DEF Timing, ExpireStep, deadline_passes, expire_deadline, expire_remove, expire_clear_owner, expire_removed, expire_finish
  <1>3. Calling => UNCHANGED clientRest /\ UNCHANGED <<pc, on, got, taken>>
    BY DEF Calling, ClientStep, invocation_cancel, close_invocation, restrict_invocation
  <1>4. Taking => UNCHANGED clientRest /\ UNCHANGED <<handle, fifo, responder>>
    BY DEF Taking, TakeStep, take_result, claim_result, claim_result_fails, restore_result, commit_result
  <1>5. Receiving => UNCHANGED receiveRest
    BY DEF Receiving, ReceiveStep, receive, claim, claim_fails, check_claimed, discard_claimed, cancel_claim, begin_receive,
       rollback_receive, rollback_cancelled, activate, finish_dispatch, close_delivered, commit_claim, leave
  <1>6. Serving => UNCHANGED receiveRest /\ UNCHANGED <<claimed, pc, on, executed>>
    BY DEF Serving, release_server, close_server_queue, complete_discarded
  <1>7. Responding => UNCHANGED responderRest
    BY Zenon DEF Responding, RespondStep, respond, complete_reply, complete_failure, consume_responder, close_replied,
       close_responder, restrict_responder
  <1>8. Dispatching => UNCHANGED kernelRest
    BY DEF Dispatching, KernelStep, pop, kernel_begin, mark_dispatched, kernel_handler, execute_kernel_dispatch, restore_fails
  <1> QED BY Zenon, <1>1, <1>2, <1>3, <1>4, <1>5, <1>6, <1>7, <1>8
----------------------------------------------------------------------------
(* Every party resolves a call the same way *)

\* The state of a call that somebody acts on was submitted.
LEMMA CallFacts ==
  ASSUME QInv
  PROVE  /\ TypeOK
         /\ \A c \in Calls : inv[c] \in State
         /\ \A c \in Calls : \/ timer[c] # "off" \/ handle[c] # "none" \/ responder[c] # "none" \/ inv[c].phase # "none"
                             \/ c \in discarded
                             => sub[c] # "idle"
         /\ \A r \in Receivers : pc[r] \in Holding => on[r] \in Calls /\ InQueue(on[r]) /\ sub[on[r]] # "idle"
         /\ \A t \in Workers \cup Takers : pc[t] # "idle" => on[t] \in Calls /\ sub[on[t]] # "idle"
         /\ \A k \in KernelWorkers : pc[k] # "idle" => on[k] \in Calls /\ sub[on[k]] # "idle"
  <1>0. TypeOK /\ Submitted /\ Queue /\ Claim
    BY DEF QInv
  <1>1. \A c \in Calls : inv[c] \in State
    BY <1>0 DEF TypeOK
  <1>2. \A c \in Calls : \/ timer[c] # "off" \/ handle[c] # "none" \/ responder[c] # "none" \/ inv[c].phase # "none"
                         \/ c \in discarded
                         => sub[c] # "idle"
    BY <1>0 DEF Submitted, Unsent, Unsubmitted, Queue, Unqueued, TypeOK
  <1>3. ASSUME NEW r \in Receivers, pc[r] \in Holding
        PROVE  on[r] \in Calls /\ InQueue(on[r]) /\ sub[on[r]] # "idle"
    <2>1. fifo \in Seq(Calls) /\ fifo # <<>> /\ on[r] = fifo[1]
      BY <1>0, <1>3 DEF Claim, TypeOK
    <2>2. on[r] \in Calls /\ InQueue(on[r])
      BY <2>1 DEF InQueue
    <2> QED BY <1>0, <2>2 DEF Queue, Unqueued
  <1>4. \A t \in Workers \cup Takers : pc[t] # "idle" => on[t] \in Calls /\ sub[on[t]] # "idle"
    BY <1>0 DEF Submitted
  <1>5. \A k \in KernelWorkers : pc[k] # "idle" => on[k] \in Calls /\ sub[on[k]] # "idle"
    BY <1>0, InvocationConstants DEF Submitted, Unqueued
  <1> QED BY <1>0, <1>1, <1>2, <1>3, <1>4, <1>5

LEMMA Publishing ==
  ASSUME NEW i \in State
  PROVE  /\ Resolves(i, Publish(i, "REPLY", "none"))
         /\ \A o \in {"NOT_DELIVERED", "OUTCOME_UNKNOWN"}, r \in Reasons : Resolves(i, Publish(i, o, r))
  BY PublishResolves DEF Outcomes, Reasons

LEMMA PolledResolves ==
  ASSUME NEW c, inv[c] \in State
  PROVE  Resolves(inv[c], Polled(c)) /\ Polled(c) \in State
  <1>1. Resolves(inv[c], Polled(c))
    BY Publishing, ResolvesItself DEF Polled, Reasons
  <1> QED BY <1>1 DEF Resolves

LEMMA SubmitQuiet ==
  ASSUME QInv, NEW c \in Calls,
         \/ install(c) \/ install_fails(c) \/ enqueue(c) \/ enqueue_fails(c) \/ recheck_cancel(c) \/ recheck_completed(c)
         \/ copyout(c) \/ copyout_fails(c) \/ enqueue_kernel(c)
  PROVE  Quiet
  <1>0. TypeOK /\ inv[c] \in State
    BY CallFacts
  <1>1. CASE install(c)
    <2> DEFINE j == [inv[c] EXCEPT !.owner = (c \notin KernelCalls /\ inv[c].phase = "queued")]
    <2>1. sub[c] # "idle" /\ Update(c, j)
      BY <1>1 DEF install, Step, Update
    <2>2. Resolves(inv[c], j)
      BY Zenon, <1>0, FlagResolves
    <2> HIDE DEF j
    <2> QED BY <1>0, <2>1, <2>2, UpdateQuiet
  <1>2. CASE enqueue_fails(c)
    BY <1>0, <1>2, AbandonResolves, UpdateQuiet DEF enqueue_fails, Step, Quiet
  <1>3. CASE recheck_cancel(c) \/ copyout_fails(c)
    BY <1>0, <1>3, CancelQuiet DEF recheck_cancel, copyout_fails, Step, Quiet
  <1>4. CASE recheck_completed(c)
    BY <1>0, <1>4, DroppedResolves, UpdateQuiet DEF recheck_completed, Step, Quiet
  <1>5. CASE install_fails(c) \/ enqueue(c) \/ copyout(c) \/ enqueue_kernel(c)
    BY <1>5 DEF install_fails, enqueue, copyout, enqueue_kernel, Quiet
  <1> QED BY <1>1, <1>2, <1>3, <1>4, <1>5

LEMMA CancelsQuiet ==
  ASSUME QInv, NEW c \in Calls, invocation_cancel(c)
  PROVE  Quiet
  BY CallFacts, CancelQuiet DEF invocation_cancel

LEMMA TimerQuiet ==
  ASSUME QInv, Timing
  PROVE  Quiet
  <1>1. PICK c \in Calls : deadline_passes(c) \/ ExpireStep(c)
    BY DEF Timing
  <1>2. TypeOK /\ inv[c] \in State
    BY CallFacts
  <1>3. CASE deadline_passes(c) \/ expire_deadline(c) \/ expire_remove(c)
    BY <1>3 DEF deadline_passes, expire_deadline, expire_remove, Quiet
  <1>4. CASE expire_clear_owner(c)
    <2> DEFINE j == [inv[c] EXCEPT !.owner = FALSE]
    <2>1. sub[c] # "idle" /\ Update(c, j)
      BY <1>4, CallFacts DEF expire_clear_owner, TimerStep, Update
    <2>2. Resolves(inv[c], j)
      BY Zenon, <1>2, FlagResolves
    <2> HIDE DEF j
    <2> QED BY <1>2, <2>1, <2>2, UpdateQuiet
  <1>5. CASE expire_removed(c)
    <2>1. sub[c] # "idle"
      BY <1>5, CallFacts DEF expire_removed, TimerStep
    <2>2. PICK p : Resolves(inv[c], p) /\ Update(c, Dropped(c, p))
      BY <1>2, <1>5, Publishing, ResolvesItself DEF expire_removed, Reasons
    <2>3. Resolves(inv[c], Dropped(c, p))
      BY <2>2, DroppedResolves, ResolvesTransitive DEF Resolves
    <2> QED BY <1>2, <2>1, <2>2, <2>3, UpdateQuiet
  <1>6. CASE expire_finish(c)
    BY <1>2, <1>6, CallFacts, ExpireResolves, UpdateQuiet DEF expire_finish, TimerStep
  <1> QED BY <1>1, <1>3, <1>4, <1>5, <1>6 DEF ExpireStep

LEMMA TakerQuiet ==
  ASSUME QInv, NEW t \in Takers, claim_result_fails(t) \/ \E c \in Calls : take_result(t, c)
  PROVE  Quiet
  <1>1. CASE claim_result_fails(t)
    <2>1. TypeOK /\ on[t] \in Calls /\ sub[on[t]] # "idle" /\ inv[on[t]] \in State /\ Update(on[t], Polled(on[t]))
      BY Zenon, <1>1, CallFacts DEF claim_result_fails, At
    <2>2. Resolves(inv[on[t]], Polled(on[t]))
      BY <2>1, Publishing, ResolvesItself DEF Polled, Reasons
    <2> QED BY <2>1, <2>2, UpdateQuiet
  <1> QED BY <1>1 DEF take_result, Quiet

LEMMA ServerQuiet ==
  ASSUME QInv, Serving
  PROVE  Quiet
  <1>1. CASE \E c \in Calls : complete_discarded(c)
    <2>1. PICK c \in Calls : complete_discarded(c)
      BY <1>1
    <2> DEFINE p == Publish(inv[c], "NOT_DELIVERED", "PEER_CLOSED")
    <2>2. TypeOK /\ sub[c] # "idle" /\ inv[c] \in State /\ Update(c, Dropped(c, p))
      BY <2>1, CallFacts DEF complete_discarded
    <2>3. Resolves(inv[c], p)
      BY <2>2, Publishing DEF Reasons
    <2> HIDE DEF p
    <2>4. Resolves(inv[c], Dropped(c, p))
      BY <2>3, DroppedResolves, ResolvesTransitive DEF Resolves
    <2> QED BY <2>2, <2>4, UpdateQuiet
  <1> QED BY <1>1 DEF Serving, release_server, close_server_queue, Quiet

LEMMA ReceiverQuiet ==
  ASSUME QInv, Receiving
  PROVE  Quiet
  <1>1. PICK r \in Receivers : receive(r) \/ ReceiveStep(r)
    BY DEF Receiving
  <1> DEFINE c == on[r]
  <1>2. CASE receive(r) \/ claim(r) \/ claim_fails(r) \/ cancel_claim(r) \/ activate(r) \/ commit_claim(r) \/ leave(r)
    BY Zenon, <1>2 DEF receive, claim, claim_fails, cancel_claim, activate, commit_claim, leave, Quiet
  <1>3. ASSUME pc[r] \in Holding, inv' = inv \/ \E j : Resolves(inv[c], j) /\ Update(c, j)
        PROVE  Quiet
    BY <1>3, CallFacts, UpdateQuiet DEF Quiet
  <1>4. pc[r] \in Holding => inv[c] \in State
    BY CallFacts
  <1> HIDE DEF c
  <1>5. CASE check_claimed(r)
    BY <1>3, <1>4, <1>5, ExpireResolves, ResolvesItself DEF check_claimed, At, Holding, c
  <1>6. CASE discard_claimed(r)
    BY <1>3, <1>4, <1>6, DroppedResolves DEF discard_claimed, At, Holding, c
  <1>7. CASE begin_receive(r)
    BY <1>3, <1>4, <1>7, BegunResolves DEF begin_receive, At, Holding, c
  <1>8. CASE rollback_receive(r) \/ finish_dispatch(r)
    <2>1. pc[r] \in Holding
      BY <1>8 DEF rollback_receive, finish_dispatch, At, Holding, Delivered
    <2>2. inv' = inv \/ \E p \in {"queued", "dispatched"} : ~ Complete(inv[c]) /\ Update(c, [inv[c] EXCEPT !.phase = p])
      BY <1>8 DEF rollback_receive, finish_dispatch, Complete, c
    <2> QED BY Zenon, <1>3, <1>4, <2>1, <2>2, PhaseResolves
  <1>9. CASE rollback_cancelled(r)
    BY <1>3, <1>4, <1>9, Publishing DEF rollback_cancelled, At, Holding, Reasons, c
  <1>10. CASE close_delivered(r)
    BY <1>3, <1>4, <1>10, AbandonResolves DEF close_delivered, At, Holding, Delivered, c
  <1> QED BY <1>1, <1>2, <1>5, <1>6, <1>7, <1>8, <1>9, <1>10 DEF ReceiveStep

LEMMA WorkerQuiet ==
  ASSUME QInv, Responding
  PROVE  Quiet
  <1>1. ASSUME NEW c \in Calls, close_responder(c) \/ restrict_responder(c)
        PROVE  Quiet
    BY <1>1, CallFacts, AbandonResolves, UpdateQuiet DEF close_responder, restrict_responder
  <1>2. ASSUME NEW w \in Workers, RespondStep(w)
        PROVE  Quiet
    <2> DEFINE c == on[w]
    <2>1. pc[w] # "idle"
      BY <1>2 DEF RespondStep, complete_reply, complete_failure, consume_responder, close_replied, At
    <2>2. TypeOK /\ c \in Calls /\ sub[c] # "idle" /\ inv[c] \in State
      BY <2>1, CallFacts
    <2> HIDE DEF c
    <2>3. CASE complete_reply(w) \/ \E o \in {"NOT_DELIVERED", "OUTCOME_UNKNOWN"} : complete_failure(w, o)
      BY Zenon, <2>2, <2>3, Publishing, UpdateQuiet DEF complete_reply, complete_failure, Quiet, Reasons, c
    <2>4. CASE consume_responder(w)
      <3> DEFINE j == [inv[c] EXCEPT !.alive = FALSE]
      <3>1. Update(c, j)
        BY <2>4 DEF consume_responder, Update, c
      <3>2. Resolves(inv[c], j)
        BY Zenon, <2>2, FlagResolves
      <3> HIDE DEF j
      <3> QED BY <2>2, <3>1, <3>2, UpdateQuiet
    <2>5. CASE close_replied(w)
      BY <2>2, <2>5, AbandonResolves, UpdateQuiet DEF close_replied, Quiet, c
    <2> QED BY <1>2, <2>3, <2>4, <2>5 DEF RespondStep
  <1> QED BY <1>1, <1>2 DEF Responding, respond, Quiet

LEMMA KernelQuiet ==
  ASSUME QInv, Dispatching
  PROVE  Quiet
  <1>1. PICK k \in KernelWorkers : KernelStep(k)
    BY DEF Dispatching
  <1> DEFINE c == on[k]
  <1>2. CASE pop(k)
    BY <1>2 DEF pop, Quiet
  <1>3. pc[k] # "idle" => TypeOK /\ c \in Calls /\ sub[c] # "idle" /\ inv[c] \in State
    BY CallFacts
  <1> HIDE DEF c
  <1>4. CASE kernel_begin(k)
    BY <1>3, <1>4, BegunResolves, UpdateQuiet DEF kernel_begin, At, c
  <1>5. CASE mark_dispatched(k)
    <2>1. TypeOK /\ c \in Calls /\ sub[c] # "idle" /\ inv[c] \in State
      BY <1>3, <1>5 DEF mark_dispatched, At
    <2>2. CASE inv[c].phase \in {"queued", "receiving"}
      <3>1. ~ Complete(inv[c]) /\ Update(c, [inv[c] EXCEPT !.phase = "dispatched"])
        BY <1>5, <2>2 DEF mark_dispatched, Complete, c
      <3> QED BY Zenon, <2>1, <3>1, PhaseResolves, UpdateQuiet
    <2>3. CASE inv[c].phase \notin {"queued", "receiving"}
      BY <1>5, <2>1, <2>3, ResolvesItself, UpdateQuiet DEF mark_dispatched, c
    <2> QED BY <2>2, <2>3
  <1>6. CASE kernel_handler(k)
    BY <1>3, <1>6, Publishing, UpdateQuiet DEF kernel_handler, At, Quiet, c
  <1>7. CASE execute_kernel_dispatch(k)
    <2>1. \E j \in {inv[c], Publish(inv[c], "REPLY", "none"), Publish(inv[c], "OUTCOME_UNKNOWN", "CANCEL_REQUESTED")} : Update(c, j)
      BY <1>7 DEF execute_kernel_dispatch, c
    <2> QED BY <1>3, <1>7, <2>1, Publishing, ResolvesItself, UpdateQuiet DEF execute_kernel_dispatch, At, Reasons
  <1>8. CASE restore_fails(k)
    BY <1>3, <1>8, Publishing, UpdateQuiet DEF restore_fails, At, c
  <1> QED BY <1>1, <1>2, <1>4, <1>5, <1>6, <1>7, <1>8 DEF KernelStep
----------------------------------------------------------------------------
(* The state of a call stays well formed *)

\* What a call keeps once it was submitted.
Lives ==
  /\ inv' \in [Calls -> State]
  /\ \A c \in Calls : /\ sub[c] # "idle" => inv'[c].phase # "none"
                      /\ sub[c] = "idle" => inv'[c] = inv[c] \/ submit(c)

LEMMA QuietLives ==
  ASSUME QInv, Quiet
  PROVE  Lives
  <1>0. inv \in [Calls -> State] /\ \A c \in Calls : sub[c] # "idle" => inv[c].phase # "none"
    BY Zenon DEF QInv, TypeOK, Submitted
  <1> QED BY <1>0 DEF Quiet, Touches, Resolves, Lives

\* A change of one call that keeps it alive.
LEMMA ChangeLives ==
  ASSUME QInv, NEW c \in Calls, sub[c] # "idle", NEW j \in State, j.phase # "none", Update(c, j)
  PROVE  Lives
  <1>0. inv \in [Calls -> State] /\ \A d \in Calls : sub[d] # "idle" => inv[d].phase # "none"
    BY DEF QInv, TypeOK, Submitted
  <1> QED BY <1>0 DEF Update, Lives

LEMMA CloseLives ==
  ASSUME QInv, NEW c \in Calls, sub[c] # "idle", close_client(c)
  PROVE  Lives
  <1> DEFINE j == [inv[c] EXCEPT !.client_closed = TRUE, !.response = FALSE, !.budget = FALSE]
  <1>1. inv[c] \in State /\ inv[c].phase # "none"
    BY CallFacts DEF QInv, Submitted
  <1>2. Update(c, j)
    BY Zenon DEF close_client, Update
  <1>3. j \in State /\ j.phase # "none"
    BY Zenon, <1>1 DEF State
  <1> HIDE DEF j
  <1> QED BY <1>2, <1>3, ChangeLives

LEMMA TakerLives ==
  ASSUME QInv, Taking
  PROVE  Lives
  <1>1. PICK t \in Takers : TakeStep(t) \/ \E c \in Calls : take_result(t, c)
    BY DEF Taking
  <1>2. CASE claim_result_fails(t) \/ \E c \in Calls : take_result(t, c)
    BY <1>2, TakerQuiet, QuietLives
  <1>3. CASE claim_result(t) \/ restore_result(t) \/ commit_result(t)
    <2> DEFINE c == on[t]
    <2>1. c \in Calls /\ sub[c] # "idle" /\ inv[c] \in State /\ inv[c].phase # "none" /\ got \in [Takers -> BOOLEAN]
      <3>1. pc[t] # "idle"
        BY <1>3 DEF claim_result, restore_result, commit_result, At
      <3>2. c \in Calls /\ sub[c] # "idle" /\ inv[c] \in State
        BY <3>1, CallFacts
      <3>3. got \in [Takers -> BOOLEAN]
        BY DEF QInv, TypeOK
      <3> QED BY <3>2, <3>3 DEF QInv, Submitted
    <2> HIDE DEF c
    <2>2. Resolves(inv[c], Polled(c))
      BY <2>1, Publishing, ResolvesItself DEF Polled, Reasons
    <2>3. CASE claim_result(t)
      <3> DEFINE p == Polled(c)
                 j == [p EXCEPT !.result_claimed = TRUE, !.response = FALSE]
      <3>1. p \in State /\ p.phase = "ready" /\ Update(c, j)
        BY <2>2, <2>3 DEF claim_result, Resolves, c
      <3> HIDE DEF p
      <3>2. j \in State /\ j.phase # "none"
        BY Zenon, <3>1 DEF State
      <3> HIDE DEF j
      <3> QED BY <2>1, <3>1, <3>2, ChangeLives
    <2>4. CASE restore_result(t)
      <3> DEFINE i == inv[c]
                 j == [i EXCEPT !.response = got[t], !.result_claimed = FALSE]
      <3>1. i \in State /\ i.phase # "none" /\ got[t] \in BOOLEAN
        BY <2>1
      <3>2. Update(c, j) \/ inv' = inv
        BY Zenon, <2>4 DEF restore_result, Update, c
      <3> HIDE DEF i
      <3>3. j \in State /\ j.phase # "none"
        BY Zenon, <3>1 DEF State
      <3> HIDE DEF j
      <3> QED BY <2>1, <3>2, <3>3, ChangeLives, QuietLives DEF Quiet
    <2>5. CASE commit_result(t)
      <3> DEFINE i == inv[c]
                 j == [i EXCEPT !.phase = "consumed", !.result_claimed = FALSE, !.response = FALSE, !.budget = FALSE]
      <3>1. i \in State
        BY <2>1
      <3>2. Update(c, j) \/ inv' = inv
        BY Zenon, <2>5 DEF commit_result, Update, c
      <3> HIDE DEF i
      <3>3. j \in State /\ j.phase # "none"
        BY Zenon, <3>1 DEF State, Phases
      <3> HIDE DEF j
      <3> QED BY <2>1, <3>2, <3>3, ChangeLives, QuietLives DEF Quiet
    <2> QED BY Zenon, <1>3, <2>3, <2>4, <2>5
  <1> QED BY <1>1, <1>2, <1>3 DEF TakeStep

LEMMA ClientLives ==
  ASSUME QInv, Calling
  PROVE  Lives
  <1>1. PICK c \in Calls : ClientStep(c)
    BY DEF Calling
  <1>2. CASE invocation_cancel(c)
    BY <1>2, CancelsQuiet, QuietLives
  <1>3. CASE close_invocation(c) \/ restrict_invocation(c)
    BY <1>3, CallFacts, CloseLives DEF close_invocation, restrict_invocation
  <1> QED BY <1>1, <1>2, <1>3 DEF ClientStep

LEMMA SubmitLives ==
  ASSUME QInv, Submitting
  PROVE  Lives
  <1>0. TypeOK
    BY DEF QInv
  <1>1. PICK c \in Calls : submit(c) \/ SubmitStep(c) \/ enqueue_kernel(c)
    BY InvocationConstants DEF Submitting
  <1>2. CASE submit(c)
    <2> DEFINE j == [Unsubmitted EXCEPT !.phase = "queued", !.budget = (c \notin Oneway)]
    <2>1. j \in State /\ j.phase # "none"
      BY Zenon DEF State, Phases, Outcomes, Reasons, Unsubmitted
    <2>2. sub[c] = "idle" /\ Update(c, j)
      BY <1>2 DEF submit, Step
    <2> HIDE DEF j
    <2>3. inv' \in [Calls -> State] /\ inv'[c] = j /\ \A d \in Calls \ {c} : inv'[d] = inv[d]
      BY <1>0, <2>1, <2>2 DEF TypeOK, Update
    <2> QED BY <1>2, <2>1, <2>2, <2>3 DEF Lives, QInv, Submitted
  <1>3. CASE destroy_state(c)
    <2> DEFINE j == [inv[c] EXCEPT !.budget = FALSE]
    <2>1. inv[c] \in State /\ inv[c].phase # "none" /\ sub[c] # "idle" /\ Update(c, j)
      BY <1>3, CallFacts DEF destroy_state, Update, QInv, Submitted
    <2>2. j \in State /\ j.phase # "none"
      BY Zenon, <2>1 DEF State
    <2> HIDE DEF j
    <2> QED BY <2>1, <2>2, ChangeLives
  <1>4. CASE submit_closes(c)
    <2>1. sub[c] # "idle" /\ (close_client(c) \/ inv' = inv)
      BY <1>4 DEF submit_closes, Step
    <2> QED BY <2>1, CloseLives, QuietLives DEF Quiet
  <1> QED BY <1>1, <1>2, <1>3, <1>4, SubmitQuiet, QuietLives DEF SubmitStep

LEMMA NextLives ==
  ASSUME QInv, Next
  PROVE  Lives
  BY NextParties, SubmitLives, ClientLives, TakerLives, TimerQuiet, ReceiverQuiet, ServerQuiet, WorkerQuiet, KernelQuiet,
     QuietLives
----------------------------------------------------------------------------
(* The queue *)

\* A cancellation either leaves the queue alone or takes the request out.
LEMMA CancelQueue ==
  ASSUME NEW c \in Calls, Cancel(c)
  PROVE  /\ (fifo' = fifo /\ used' = used) \/ (Removable(c) /\ RemoveQueued(c))
         /\ responder' = responder \/ Responder(c, "gone")
  BY DEF Cancel

\* The shapes of a step on the queue.
Keeps == fifo' = fifo /\ discarded' \in SUBSET discarded
Removes == \E c \in Calls : Removable(c) /\ RemoveQueued(c) /\ discarded' = discarded
Pops == fifo' = Tail(fifo) /\ fifo # <<>> /\ discarded' = discarded
Drains == fifo' = <<>> /\ discarded' = discarded \cup {c \in Calls : InQueue(c)}
Adds == \E c \in Calls : enqueue(c)

LEMMA QueueShapes ==
  ASSUME QInv, Next
  PROVE  Keeps \/ Removes \/ Pops \/ Drains \/ Adds
  <1>1. CASE Submitting
    <2>1. PICK c \in Calls : submit(c) \/ SubmitStep(c) \/ enqueue_kernel(c)
      BY <1>1, InvocationConstants DEF Submitting
    <2>2. discarded' = discarded
      BY <1>1, Frames DEF submitRest
    <2>3. CASE recheck_cancel(c) \/ copyout_fails(c)
      BY <2>2, <2>3, CancelQueue DEF recheck_cancel, copyout_fails, Keeps, Removes
    <2>4. CASE recheck_completed(c)
      BY <2>2, <2>4 DEF recheck_completed, Keeps, Removes
    <2>5. CASE \/ submit(c) \/ install(c) \/ install_fails(c) \/ destroy_state(c) \/ enqueue_fails(c) \/ copyout(c)
               \/ submit_closes(c) \/ enqueue_kernel(c)
      BY <2>2, <2>5 DEF submit, install, install_fails, destroy_state, enqueue_fails, copyout, submit_closes,
         enqueue_kernel, Keeps
    <2> QED BY <2>1, <2>3, <2>4, <2>5 DEF SubmitStep, Adds
  <1>2. CASE Timing
    <2>1. PICK c \in Calls : deadline_passes(c) \/ ExpireStep(c)
      BY <1>2 DEF Timing
    <2>2. discarded' = discarded
      BY <1>2, Frames DEF timerRest
    <2> QED BY <2>1, <2>2 DEF ExpireStep, deadline_passes, expire_deadline, expire_remove, expire_clear_owner, expire_removed,
         expire_finish, Keeps, Removes
  <1>3. CASE Calling
    <2>1. PICK c \in Calls : ClientStep(c)
      BY <1>3 DEF Calling
    <2>2. discarded' = discarded
      BY <1>3, Frames DEF clientRest
    <2>3. CASE invocation_cancel(c)
      BY <2>2, <2>3, CancelQueue DEF invocation_cancel, Keeps, Removes
    <2> QED BY <2>1, <2>2, <2>3 DEF ClientStep, close_invocation, restrict_invocation, Keeps
  <1>4. CASE Taking
    BY <1>4, Frames DEF clientRest, Keeps
  <1>5. CASE Receiving
    <2>1. PICK r \in Receivers : receive(r) \/ ReceiveStep(r)
      BY <1>5 DEF Receiving
    <2>2. CASE discard_claimed(r) \/ commit_claim(r)
      <3>1. pc[r] \in Holding
        BY <2>2 DEF discard_claimed, commit_claim, At, Holding, Delivered
      <3>2. fifo # <<>>
        BY <3>1 DEF QInv, Claim
      <3> QED BY Zenon, <2>2, <3>2 DEF discard_claimed, commit_claim, PopClaimed, Pops
    <2>3. CASE leave(r)
      BY <2>3 DEF leave, Drain, Keeps, Drains
    <2>4. CASE \/ receive(r) \/ claim(r) \/ claim_fails(r) \/ check_claimed(r) \/ cancel_claim(r) \/ begin_receive(r)
               \/ rollback_receive(r) \/ rollback_cancelled(r) \/ activate(r) \/ finish_dispatch(r) \/ close_delivered(r)
      BY <2>4 DEF receive, claim, claim_fails, check_claimed, cancel_claim, begin_receive, rollback_receive,
         rollback_cancelled, activate, finish_dispatch, close_delivered, queueVars, Keeps
    <2> QED BY <2>1, <2>2, <2>3, <2>4 DEF ReceiveStep
  <1>6. CASE Serving
    BY <1>6 DEF Serving, release_server, close_server_queue, complete_discarded, Drain, Keeps, Drains
  <1>7. CASE Responding
    BY <1>7, Frames DEF responderRest, Keeps
  <1>8. CASE Dispatching
    BY <1>8, Frames DEF kernelRest, Keeps
  <1> QED BY <1>1, <1>2, <1>3, <1>4, <1>5, <1>6, <1>7, <1>8, NextParties

\* A submission moves on, and never back before the queue.
LEMMA Advances ==
  ASSUME TypeOK, Next, NEW c \in Calls
  PROVE  (sub[c] # "idle" => sub'[c] # "idle") /\ (sub[c] \notin Unqueued => sub'[c] \notin Unqueued)
  <1>0. sub \in [Calls -> SubmitPlaces]
    BY DEF TypeOK
  <1>1. CASE Submitting
    <2>1. PICK d \in Calls : submit(d) \/ SubmitStep(d) \/ enqueue_kernel(d)
      BY <1>1, InvocationConstants DEF Submitting
    <2>2. \/ sub' = sub
          \/ \E from \in Unqueued : \E to \in {"made", "installed", "failed", "queued", "failing", "copyout"} : Step(d, from, to)
          \/ \E from, to \in {"queued", "rechecked", "copyout", "done", "failing", "failed"} : Step(d, from, to)
      BY <2>1 DEF SubmitStep, submit, install, install_fails, destroy_state, enqueue, enqueue_fails, recheck_cancel,
         recheck_completed, enqueue_kernel, copyout, copyout_fails, submit_closes, Unqueued
    <2> QED BY <1>0, <2>2 DEF Step, SubmitPlaces, Unqueued
  <1> QED BY <1>1, Frames, NextParties DEF timerRest, clientRest, receiveRest, responderRest, kernelRest

LEMMA QueueTyped ==
  ASSUME QInv, Next
  PROVE  fifo' \in Seq(Calls) /\ discarded' \in SUBSET Calls
  <1>0. fifo \in Seq(Calls) /\ discarded \in SUBSET Calls /\ Queue
    BY DEF QInv, TypeOK
  <1>1. CASE Removes
    BY Zenon, <1>0, <1>1, WithoutRequest DEF Removes, RemoveQueued
  <1>2. CASE Adds
    BY <1>0, <1>2 DEF Adds, enqueue, submitRest
  <1>3. CASE Pops
    BY <1>0, <1>3 DEF Pops
  <1>4. CASE Drains
    BY <1>0, <1>4 DEF Drains
  <1> QED BY <1>0, <1>1, <1>2, <1>3, <1>4, QueueShapes DEF Keeps

\* The Responder of a call stays somewhere.
LEMMA ResponderTyped ==
  ASSUME QInv, Next
  PROVE  responder' \in [Calls -> ResponderPlaces]
  <1>0. responder \in [Calls -> ResponderPlaces]
    BY DEF QInv, TypeOK
  <1>1. ASSUME NEW c \in Calls, NEW p \in {"request", "table", "gone"}, Responder(c, p) \/ responder' = [responder EXCEPT ![c] = p]
        PROVE  responder' \in [Calls -> ResponderPlaces]
    BY <1>0, <1>1 DEF Responder, ResponderPlaces
  <1>2. CASE Submitting
    <2>1. PICK c \in Calls : submit(c) \/ SubmitStep(c) \/ enqueue_kernel(c)
      BY <1>2, InvocationConstants DEF Submitting
    <2>2. CASE recheck_cancel(c) \/ copyout_fails(c)
      BY <1>0, <1>1, <2>2, CancelQueue DEF recheck_cancel, copyout_fails
    <2> QED BY <1>0, <1>1, <2>1, <2>2 DEF SubmitStep, submit, install, install_fails, destroy_state, enqueue, enqueue_fails,
         recheck_completed, enqueue_kernel, copyout, submit_closes
  <1>3. CASE Timing
    BY <1>0, <1>1, <1>3 DEF Timing, ExpireStep, deadline_passes, expire_deadline, expire_remove, expire_clear_owner,
       expire_removed, expire_finish
  <1>4. CASE Calling
    BY <1>0, <1>1, <1>4, CancelQueue DEF Calling, ClientStep, invocation_cancel, close_invocation, restrict_invocation
  <1>5. CASE Receiving
    <2>1. PICK r \in Receivers : receive(r) \/ ReceiveStep(r)
      BY <1>5 DEF Receiving
    <2>2. CASE discard_claimed(r) \/ activate(r) \/ close_delivered(r)
      <3>1. on[r] \in Calls
        BY Zenon, <2>2, CallFacts DEF discard_claimed, activate, close_delivered, At, Holding, Delivered
      <3> QED BY Zenon, <1>0, <1>1, <2>2, <3>1 DEF discard_claimed, activate, close_delivered
    <2> QED BY <1>0, <2>1, <2>2 DEF ReceiveStep, receive, claim, claim_fails, check_claimed, cancel_claim, begin_receive,
         rollback_receive, rollback_cancelled, finish_dispatch, commit_claim, leave
  <1>6. CASE Serving
    BY <1>0, <1>1, <1>6 DEF Serving, release_server, close_server_queue, complete_discarded
  <1>7. CASE Responding
    <2>1. ASSUME NEW w \in Workers, RespondStep(w)
          PROVE  responder' \in [Calls -> ResponderPlaces]
      <3>1. on[w] \in Calls
        BY <2>1, CallFacts DEF RespondStep, complete_reply, complete_failure, consume_responder, close_replied, At
      <3> QED BY <1>0, <1>1, <2>1, <3>1 DEF RespondStep, complete_reply, complete_failure, consume_responder, close_replied
    <2> QED BY <1>0, <1>1, <1>7, <2>1 DEF Responding, respond, close_responder, restrict_responder
  <1>8. CASE Taking \/ Dispatching
    BY <1>0, <1>8, Frames DEF kernelRest
  <1> QED BY <1>2, <1>3, <1>4, <1>5, <1>6, <1>7, <1>8, NextParties

LEMMA TypeStep ==
  ASSUME QInv, Next
  PROVE  TypeOK'
  <1>0. TypeOK
    BY DEF QInv
  <1>1. /\ inv' \in [Calls -> State] /\ fifo' \in Seq(Calls) /\ discarded' \in SUBSET Calls
        /\ responder' \in [Calls -> ResponderPlaces]
    BY NextLives, QueueTyped, ResponderTyped DEF Lives
  <1>2. CASE Submitting
    <2>1. PICK c \in Calls : submit(c) \/ SubmitStep(c) \/ (c \in KernelCalls /\ enqueue_kernel(c))
      BY <1>2, InvocationConstants DEF Submitting
    <2>2. UNCHANGED submitRest
      BY <1>2, Frames
    <2>3. kqueue' \in Seq(KernelCalls)
      <3>1. kqueue' = kqueue \/ (c \in KernelCalls /\ kqueue' = Append(kqueue, c))
        BY <2>1 DEF SubmitStep, submit, install, install_fails, destroy_state, enqueue, enqueue_fails, recheck_cancel,
           recheck_completed, enqueue_kernel, copyout, copyout_fails, submit_closes
      <3>2. kqueue \in Seq(KernelCalls)
        BY <1>0 DEF TypeOK
      <3> QED BY <3>1, <3>2
    <2>4. sub' \in [Calls -> SubmitPlaces]
      <3>1. sub' = sub \/ \E to \in SubmitPlaces : sub' = [sub EXCEPT ![c] = to]
        BY <2>1 DEF SubmitStep, submit, install, install_fails, destroy_state, enqueue, enqueue_fails, recheck_cancel,
           recheck_completed, enqueue_kernel, copyout, copyout_fails, submit_closes, Step, SubmitPlaces, Unqueued
      <3> QED BY Zenon, <1>0, <3>1 DEF TypeOK
    <2>5. handle' \in [Calls -> HandlePlaces]
      BY Zenon, <1>0, <2>1 DEF TypeOK, SubmitStep, submit, install, install_fails, destroy_state, enqueue, enqueue_fails, recheck_cancel,
         recheck_completed, enqueue_kernel, copyout, copyout_fails, submit_closes, HandlePlaces
    <2>6. timer' \in [Calls -> TimerPlaces]
      BY Zenon, <1>0, <2>1 DEF TypeOK, SubmitStep, submit, install, install_fails, destroy_state, enqueue, enqueue_fails, recheck_cancel,
         recheck_completed, enqueue_kernel, copyout, copyout_fails, submit_closes, TimerPlaces
    <2> QED BY <1>0, <1>1, <2>2, <2>3, <2>4, <2>5, <2>6 DEF TypeOK, submitRest
  <1>3. CASE Timing
    <2>1. PICK c \in Calls : deadline_passes(c) \/ ExpireStep(c)
      BY <1>3 DEF Timing
    <2>2. UNCHANGED timerRest
      BY <1>3, Frames
    <2>3. /\ timer' \in [Calls -> TimerPlaces]
          /\ expired' \in [Calls -> BOOLEAN]
      BY Zenon, <1>0, <2>1 DEF TypeOK, ExpireStep, deadline_passes, expire_deadline, expire_remove, expire_clear_owner, expire_removed,
         expire_finish, TimerStep, TimerPlaces, Removed
    <2> QED BY <1>0, <1>1, <2>2, <2>3 DEF TypeOK, timerRest
  <1>4. CASE Calling
    <2>1. UNCHANGED clientRest /\ UNCHANGED <<pc, on, got, taken>>
      BY <1>4, Frames
    <2>2. handle' \in [Calls -> HandlePlaces]
      BY <1>0, <1>4 DEF TypeOK, Calling, ClientStep, invocation_cancel, close_invocation, restrict_invocation,
         HandlePlaces
    <2> QED BY <1>0, <1>1, <2>1, <2>2 DEF TypeOK, clientRest
  <1>5. CASE Taking
    <2>1. PICK t \in Takers : TakeStep(t) \/ \E c \in Calls : take_result(t, c)
      BY <1>5 DEF Taking
    <2>2. UNCHANGED clientRest /\ UNCHANGED <<handle, fifo, responder>>
      BY <1>5, Frames
    <2>3. got \in [Takers -> BOOLEAN] /\ got[t] \in BOOLEAN /\ taken \in [Calls -> Seq(Outcomes \X BOOLEAN)]
      BY <1>0 DEF TypeOK
    <2>4. pc[t] # "idle" => on[t] \in Calls /\ inv[on[t]] \in State /\ Polled(on[t]) \in State
      BY Zenon, CallFacts, Publishing DEF Polled, Resolves, Reasons
    <2>5. got' \in [Takers -> BOOLEAN]
      <3>1. CASE claim_result(t)
        <4>1. pc[t] # "idle" /\ got' = [got EXCEPT ![t] = Polled(on[t]).response]
          BY <3>1 DEF claim_result, At
        <4>2. Polled(on[t]).response \in BOOLEAN
          BY Zenon, <2>4, <4>1 DEF State
        <4> QED BY <2>3, <4>1, <4>2
      <3> QED BY Zenon, <2>1, <2>3, <3>1 DEF TakeStep, take_result, claim_result_fails, restore_result, commit_result
    <2>6. taken' \in [Calls -> Seq(Outcomes \X BOOLEAN)]
      <3>1. CASE commit_result(t)
        <4>1. on[t] \in Calls /\ <<inv[on[t]].outcome, got[t]>> \in Outcomes \X BOOLEAN
          BY <2>3, <2>4, <3>1 DEF commit_result, At, State
        <4>2. taken' = taken \/ taken' = [taken EXCEPT ![on[t]] = Append(taken[on[t]], <<inv[on[t]].outcome, got[t]>>)]
          BY <3>1 DEF commit_result
        <4>3. Append(taken[on[t]], <<inv[on[t]].outcome, got[t]>>) \in Seq(Outcomes \X BOOLEAN)
          BY <2>3, <4>1
        <4> QED BY Zenon, <2>3, <4>1, <4>2, <4>3
      <3> QED BY <2>1, <2>3, <3>1 DEF TakeStep, take_result, claim_result, claim_result_fails, restore_result
    <2> QED BY <1>0, <1>1, <2>2, <2>5, <2>6 DEF TypeOK, clientRest
  <1>6. CASE Receiving
    <2>1. PICK r \in Receivers : receive(r) \/ ReceiveStep(r)
      BY <1>6 DEF Receiving
    <2>2. UNCHANGED receiveRest
      BY <1>6, Frames
    <2>3. server' = server /\ claimed' \in BOOLEAN /\ executed' \in [Calls -> BOOLEAN]
      BY Zenon, <1>0, <2>1 DEF TypeOK, ReceiveStep, receive, claim, claim_fails, check_claimed, discard_claimed, cancel_claim, begin_receive,
       rollback_receive, rollback_cancelled, activate, finish_dispatch, close_delivered, commit_claim, leave, PopClaimed, queueVars
    <2> QED BY <1>0, <1>1, <2>2, <2>3 DEF TypeOK, receiveRest
  <1>7. CASE Serving
    <2>1. UNCHANGED receiveRest /\ UNCHANGED <<claimed, pc, on, executed>>
      BY <1>7, Frames
    <2>2. server' \in {"open", "released", "closed"}
      BY <1>0, <1>7 DEF TypeOK, Serving, release_server, close_server_queue, complete_discarded
    <2> QED BY <1>0, <1>1, <2>1, <2>2 DEF TypeOK, receiveRest
  <1>8. CASE Responding
    <2>1. UNCHANGED responderRest
      BY <1>8, Frames
    <2>2. acked' \in [Calls -> SUBSET (Workers \X Outcomes)]
      <3>1. ASSUME NEW c \in Calls, NEW w \in Workers, NEW o \in {"REPLY", "NOT_DELIVERED", "OUTCOME_UNKNOWN"},
                   acked' = [acked EXCEPT ![c] = @ \cup {<<w, o>>}]
            PROVE  acked' \in [Calls -> SUBSET (Workers \X Outcomes)]
        <4>1. acked \in [Calls -> SUBSET (Workers \X Outcomes)]
          BY <1>0 DEF TypeOK
        <4>2. acked[c] \cup {<<w, o>>} \in SUBSET (Workers \X Outcomes)
          BY <4>1 DEF Outcomes
        <4> QED BY <3>1, <4>1, <4>2
      <3>2. ASSUME NEW w \in Workers, RespondStep(w), acked' # acked
            PROVE  on[w] \in Calls /\ \E o \in {"REPLY", "NOT_DELIVERED", "OUTCOME_UNKNOWN"} :
                                        acked' = [acked EXCEPT ![on[w]] = @ \cup {<<w, o>>}]
        <4>1. pc[w] # "idle"
          BY <3>2 DEF RespondStep, complete_reply, complete_failure, consume_responder, close_replied, At
        <4>2. on[w] \in Calls
          BY <4>1, CallFacts
        <4> QED BY <3>2, <4>2 DEF RespondStep, complete_reply, complete_failure, consume_responder, close_replied
      <3>3. acked' = acked \/ \E w \in Workers : RespondStep(w)
        BY Zenon, <1>8 DEF Responding, respond, close_responder, restrict_responder
      <3>4. ASSUME NEW w \in Workers, RespondStep(w), acked' # acked
            PROVE  acked' \in [Calls -> SUBSET (Workers \X Outcomes)]
        BY <3>1, <3>2, <3>4
      <3>5. acked \in [Calls -> SUBSET (Workers \X Outcomes)]
        BY <1>0 DEF TypeOK
      <3> QED BY <3>3, <3>4, <3>5
    <2> QED BY <1>0, <1>1, <2>1, <2>2 DEF TypeOK, responderRest
  <1>9. CASE Dispatching
    <2>1. PICK k \in KernelWorkers : KernelStep(k)
      BY <1>9 DEF Dispatching
    <2>2. UNCHANGED kernelRest
      BY <1>9, Frames
    <2>3. kqueue' \in Seq(KernelCalls)
      <3>1. kqueue' = kqueue \/ (kqueue # <<>> /\ kqueue' = Tail(kqueue))
        BY <2>1 DEF KernelStep, pop, kernel_begin, mark_dispatched, kernel_handler, execute_kernel_dispatch, restore_fails
      <3>2. kqueue \in Seq(KernelCalls)
        BY <1>0 DEF TypeOK
      <3> QED BY <3>1, <3>2
    <2>4. executed' = executed \/ executed' = [executed EXCEPT ![on[k]] = TRUE]
      BY <2>1 DEF KernelStep, pop, kernel_begin, mark_dispatched, kernel_handler, execute_kernel_dispatch, restore_fails
    <2>5. executed' \in [Calls -> BOOLEAN]
      BY Zenon, <1>0, <2>4 DEF TypeOK
    <2> QED BY <1>0, <1>1, <2>2, <2>3, <2>5 DEF TypeOK, kernelRest
  <1> QED BY <1>2, <1>3, <1>4, <1>5, <1>6, <1>7, <1>8, <1>9, NextParties
----------------------------------------------------------------------------
(* Threads move one at a time *)

Moved(t, s, c) ==
  /\ DOMAIN pc' = Threads /\ on' \in [Threads -> Calls \cup {NoCall}]
  /\ pc'[t] = s /\ on'[t] = c
  /\ \A u \in Threads \ {t} : pc'[u] = pc[u] /\ on'[u] = on[u]

LEMMA Moving ==
  ASSUME ThreadsOK, NEW t \in Threads
  PROVE  /\ \A s : \A c \in Calls \cup {NoCall} : Pick(t, s, c) => Moved(t, s, c)
         /\ \A s : Goto(t, s) => Moved(t, s, on[t])
         /\ Return(t) => Moved(t, "idle", NoCall)
  <1>1. ASSUME NEW s, NEW c \in Calls \cup {NoCall}, Pick(t, s, c)
        PROVE  Moved(t, s, c)
    BY <1>1 DEF ThreadsOK, Pick, Moved
  <1>2. ASSUME NEW s, Goto(t, s)
        PROVE  Moved(t, s, on[t])
    BY <1>2 DEF ThreadsOK, Goto, Moved
  <1> QED BY <1>1, <1>2 DEF Return

LEMMA ReceiverMoves ==
  ASSUME QInv, NEW r \in Receivers, receive(r) \/ ReceiveStep(r)
  PROVE  \E s \in Empty \cup Holding, c \in Calls \cup {NoCall} : Moved(r, s, c)
  <1>0. ThreadsOK /\ r \in Threads /\ on[r] \in Calls \cup {NoCall}
    BY DEF QInv, ThreadsOK, Threads
  <1>1. CASE claim(r)
    <2>1. fifo \in Seq(Calls) /\ fifo # <<>> /\ Pick(r, "claimed", Head(fifo))
      BY <1>1 DEF claim, QInv, TypeOK
    <2>2. Head(fifo) \in Calls
      BY <2>1
    <2> QED BY Zenon, <1>0, <2>1, <2>2, Moving DEF Holding
  <1>2. CASE receive(r) \/ discard_claimed(r) \/ cancel_claim(r) \/ commit_claim(r) \/ leave(r)
    <2>1. Return(r) \/ \E s \in {"entering", "leaving"} : Pick(r, s, NoCall)
      BY Zenon, <1>2 DEF receive, discard_claimed, cancel_claim, commit_claim, leave
    <2> QED BY <1>0, <2>1, Moving DEF Empty
  <1>3. CASE \/ claim_fails(r) \/ check_claimed(r) \/ begin_receive(r) \/ rollback_receive(r) \/ rollback_cancelled(r)
             \/ activate(r) \/ finish_dispatch(r) \/ close_delivered(r)
    <2>1. \E s \in {"leaving"} \cup Holding : Goto(r, s)
      BY <1>3 DEF claim_fails, check_claimed, begin_receive, rollback_receive, rollback_cancelled, activate, finish_dispatch,
         close_delivered, Holding, Delivered
    <2> QED BY <1>0, <2>1, Moving DEF Empty
  <1> QED BY <1>1, <1>2, <1>3 DEF ReceiveStep

LEMMA WorkerMoves ==
  ASSUME QInv, NEW w \in Workers, RespondStep(w) \/ \E c \in Calls, how \in {"reply", "fail"} : respond(w, c, how)
  PROVE  \/ Moved(w, "idle", NoCall)
         \/ \E s \in {"reply", "fail", "consume", "close"}, c \in Calls : sub[c] # "idle" /\ Moved(w, s, c)
  <1>0. ThreadsOK /\ w \in Threads
    BY DEF QInv, Threads
  <1>1. ASSUME NEW c \in Calls, NEW how \in {"reply", "fail"}, respond(w, c, how)
        PROVE  sub[c] # "idle" /\ Moved(w, how, c)
    BY Zenon, <1>0, <1>1, Moving, CallFacts DEF respond
  <1>2. CASE RespondStep(w)
    <2>1. pc[w] # "idle"
      BY <1>2 DEF RespondStep, complete_reply, complete_failure, consume_responder, close_replied, At
    <2>2. on[w] \in Calls /\ sub[on[w]] # "idle"
      BY <2>1, CallFacts
    <2>3. Return(w) \/ \E s \in {"consume", "close"} : Goto(w, s)
      BY <1>2 DEF RespondStep, complete_reply, complete_failure, consume_responder, close_replied
    <2> QED BY ZenonT(30), <1>0, <2>2, <2>3, Moving
  <1> QED BY <1>1, <1>2

LEMMA TakerMoves ==
  ASSUME QInv, NEW t \in Takers, TakeStep(t) \/ \E c \in Calls : take_result(t, c)
  PROVE  \/ Moved(t, "idle", NoCall)
         \/ \E s \in {"taking", "claimed"}, c \in Calls : sub[c] # "idle" /\ Moved(t, s, c)
  <1>0. ThreadsOK /\ t \in Threads
    BY DEF QInv, Threads
  <1>1. ASSUME NEW c \in Calls, take_result(t, c)
        PROVE  sub[c] # "idle" /\ Moved(t, "taking", c)
    BY Zenon, <1>0, <1>1, Moving, CallFacts DEF take_result
  <1>2. CASE TakeStep(t)
    <2>1. pc[t] # "idle"
      BY Zenon, <1>2 DEF TakeStep, claim_result, claim_result_fails, restore_result, commit_result, At
    <2>2. on[t] \in Calls /\ sub[on[t]] # "idle"
      BY <2>1, CallFacts
    <2>3. Return(t) \/ Goto(t, "claimed")
      BY Zenon, <1>2 DEF TakeStep, claim_result, claim_result_fails, restore_result, commit_result
    <2> QED BY Zenon, <1>0, <2>2, <2>3, Moving
  <1> QED BY <1>1, <1>2

LEMMA KernelMoves ==
  ASSUME QInv, NEW k \in KernelWorkers, KernelStep(k)
  PROVE  \/ Moved(k, "idle", NoCall)
         \/ \E s \in {"popped", "begun"} \cup Executing, c \in KernelCalls : sub[c] \notin Unqueued /\ Moved(k, s, c)
  <1>0. ThreadsOK /\ k \in Threads /\ Submitted /\ KernelCalls \subseteq Calls
    BY InvocationConstants DEF QInv, Threads
  <1>1. CASE pop(k)
    <2>1. kqueue \in Seq(KernelCalls) /\ kqueue # <<>> /\ Pick(k, "popped", Head(kqueue))
      BY <1>1 DEF pop, QInv, TypeOK
    <2>2. Head(kqueue) \in KernelCalls /\ Head(kqueue) = kqueue[1] /\ 1 \in 1 .. Len(kqueue)
      BY <2>1
    <2>3. sub[Head(kqueue)] \notin Unqueued
      BY Zenon, <1>0, <2>2 DEF Submitted
    <2> QED BY <1>0, <2>1, <2>2, <2>3, Moving
  <1>2. CASE kernel_begin(k) \/ mark_dispatched(k) \/ kernel_handler(k) \/ execute_kernel_dispatch(k) \/ restore_fails(k)
    <2>1. pc[k] # "idle"
      BY <1>2 DEF kernel_begin, mark_dispatched, kernel_handler, execute_kernel_dispatch, restore_fails, At
    <2>2. on[k] \in KernelCalls /\ sub[on[k]] \notin Unqueued
      BY <1>0, <2>1 DEF Submitted
    <2>3. Return(k) \/ \E s \in {"begun"} \cup Executing : Goto(k, s)
      BY <1>2 DEF kernel_begin, mark_dispatched, kernel_handler, execute_kernel_dispatch, restore_fails, Executing
    <2> QED BY <1>0, <2>2, <2>3, Moving
  <1> QED BY <1>1, <1>2 DEF KernelStep

\* A step moves one thread, of one kind, or none.
ReceiverMoved == \E r \in Receivers : \E s \in Empty \cup Holding, c \in Calls \cup {NoCall} : Moved(r, s, c)
ClientMoved ==
  \/ \E w \in Workers : \/ Moved(w, "idle", NoCall)
                        \/ \E s \in {"reply", "fail", "consume", "close"}, c \in Calls : sub[c] # "idle" /\ Moved(w, s, c)
  \/ \E t \in Takers : \/ Moved(t, "idle", NoCall)
                       \/ \E s \in {"taking", "claimed"}, c \in Calls : sub[c] # "idle" /\ Moved(t, s, c)
KernelMoved ==
  \E k \in KernelWorkers :
    \/ Moved(k, "idle", NoCall)
    \/ \E s \in {"popped", "begun"} \cup Executing, c \in KernelCalls : sub[c] \notin Unqueued /\ Moved(k, s, c)

LEMMA ThreadMoves ==
  ASSUME QInv, Next
  PROVE  UNCHANGED <<pc, on>> \/ (Receiving /\ ReceiverMoved) \/ ClientMoved \/ KernelMoved
  <1>1. Submitting \/ Timing \/ Calling \/ Serving => UNCHANGED <<pc, on>>
    BY Frames DEF submitRest, timerRest
  <1>2. Receiving => ReceiverMoved
    BY ReceiverMoves DEF Receiving, ReceiverMoved
  <1>3. Taking => ClientMoved
    BY TakerMoves DEF Taking, ClientMoved
  <1>4. Responding => UNCHANGED <<pc, on>> \/ ClientMoved
    <2>1. Responding => \/ \E c \in Calls : close_responder(c) \/ restrict_responder(c)
                        \/ \E w \in Workers : RespondStep(w) \/ \E c \in Calls, how \in {"reply", "fail"} : respond(w, c, how)
      BY DEF Responding
    <2>2. (\E c \in Calls : close_responder(c) \/ restrict_responder(c)) => UNCHANGED <<pc, on>>
      BY DEF close_responder, restrict_responder
    <2> QED BY <2>1, <2>2, WorkerMoves DEF ClientMoved
  <1>5. Dispatching => KernelMoved
    BY KernelMoves DEF Dispatching, KernelMoved
  <1> QED BY <1>1, <1>2, <1>3, <1>4, <1>5, NextParties

LEMMA ThreadsStep ==
  ASSUME QInv, Next
  PROVE  ThreadsOK'
  <1>0. ThreadsOK
    BY DEF QInv
  <1>1. CASE UNCHANGED <<pc, on>>
    BY <1>0, <1>1 DEF ThreadsOK
  <1>2. CASE ReceiverMoved
    BY <1>0, <1>2, InvocationConstants DEF ThreadsOK, ReceiverMoved, Moved, Threads
  <1>3. CASE ClientMoved
    <2>1. ASSUME NEW w \in Workers, NEW s \in {"idle", "reply", "fail", "consume", "close"}, NEW c, Moved(w, s, c)
          PROVE  ThreadsOK'
      BY <1>0, <2>1, InvocationConstants DEF ThreadsOK, Moved, Threads
    <2>2. ASSUME NEW t \in Takers, NEW s \in {"idle", "taking", "claimed"}, NEW c, Moved(t, s, c)
          PROVE  ThreadsOK'
      BY Zenon, <1>0, <2>2, InvocationConstants DEF ThreadsOK, Moved, Threads
    <2> QED BY Zenon, <1>3, <2>1, <2>2 DEF ClientMoved
  <1>4. CASE KernelMoved
    <2>1. ASSUME NEW k \in KernelWorkers, NEW s \in {"idle", "popped", "begun"} \cup Executing, NEW c, Moved(k, s, c)
          PROVE  ThreadsOK'
      BY ZenonT(30), <1>0, <2>1, InvocationConstants DEF ThreadsOK, Moved, Threads
    <2> QED BY Zenon, <1>4, <2>1 DEF KernelMoved
  <1> QED BY <1>1, <1>2, <1>3, <1>4, ThreadMoves
----------------------------------------------------------------------------
(* What exists of a call was submitted *)

\* Only invoke_submit starts a call.
LEMMA Starts ==
  ASSUME QInv, Next, NEW c \in Calls, sub[c] = "idle"
  PROVE  sub'[c] = "idle" \/ submit(c)
  <1>0. sub \in [Calls -> SubmitPlaces]
    BY DEF QInv, TypeOK
  <1>1. CASE Submitting
    <2>1. PICK d \in Calls : submit(d) \/ SubmitStep(d) \/ enqueue_kernel(d)
      BY <1>1, InvocationConstants DEF Submitting
    <2>2. CASE submit(d)
      BY Zenon, <1>0, <2>2 DEF submit, Step
    <2>3. CASE SubmitStep(d) \/ enqueue_kernel(d)
      <3>1. d # c /\ (sub' = sub \/ \E to : sub' = [sub EXCEPT ![d] = to])
        BY <2>3 DEF SubmitStep, install, install_fails, destroy_state, enqueue, enqueue_fails, recheck_cancel, recheck_completed,
           enqueue_kernel, copyout, copyout_fails, submit_closes, Step
      <3> QED BY <1>0, <3>1
    <2> QED BY Zenon, <2>1, <2>2, <2>3
  <1> QED BY <1>1, Frames, NextParties DEF timerRest, clientRest, receiveRest, responderRest, kernelRest

\* Its handle, its Responder and its deadline are those of the call acted on.
Marks(d) ==
  \A e \in Calls \ {d} : /\ timer'[e] = timer[e] /\ handle'[e] = handle[e]
                         /\ responder'[e] = responder[e] /\ expired'[e] = expired[e]

LEMMA ResponderMarks ==
  ASSUME TypeOK, NEW c \in Calls, NEW p, Responder(c, p) \/ responder' = [responder EXCEPT ![c] = p] \/ responder' = responder
  PROVE  \A e \in Calls \ {c} : responder'[e] = responder[e]
  BY DEF TypeOK, Responder

LEMMA SubmitMarks ==
  ASSUME QInv, NEW c \in Calls, submit(c) \/ SubmitStep(c) \/ enqueue_kernel(c)
  PROVE  Marks(c) /\ (sub[c] # "idle" \/ sub'[c] # "idle")
  <1>0. TypeOK /\ sub \in [Calls -> SubmitPlaces] /\ handle \in [Calls -> HandlePlaces] /\ timer \in [Calls -> TimerPlaces]
    BY DEF QInv, TypeOK
  <1>1. \/ responder' = responder \/ Responder(c, "gone") \/ Responder(c, "request")
        \/ responder' = [responder EXCEPT ![c] = "gone"]
    BY CancelQueue DEF SubmitStep, submit, install, install_fails, destroy_state, enqueue, enqueue_fails, recheck_cancel,
       recheck_completed, enqueue_kernel, copyout, copyout_fails, submit_closes
  <1>2. \A e \in Calls \ {c} : responder'[e] = responder[e]
    BY <1>0, <1>1, ResponderMarks
  <1>3. /\ handle' = handle \/ \E h : handle' = [handle EXCEPT ![c] = h]
        /\ timer' = timer \/ \E t : timer' = [timer EXCEPT ![c] = t]
        /\ expired' = expired
    BY DEF SubmitStep, submit, install, install_fails, destroy_state, enqueue, enqueue_fails, recheck_cancel,
       recheck_completed, enqueue_kernel, copyout, copyout_fails, submit_closes, submitRest
  <1>4. sub[c] # "idle" \/ sub'[c] # "idle"
    BY <1>0 DEF SubmitStep, submit, install, install_fails, destroy_state, enqueue, enqueue_fails, recheck_cancel,
       recheck_completed, enqueue_kernel, copyout, copyout_fails, submit_closes, Step
  <1> QED BY Zenon, <1>0, <1>2, <1>3, <1>4 DEF Marks

LEMMA NextMarks ==
  ASSUME QInv, Next
  PROVE  \/ UNCHANGED <<timer, handle, responder, expired>>
         \/ \E c \in Calls : Marks(c) /\ (sub[c] # "idle" \/ sub'[c] # "idle")
  <1>0. TypeOK /\ handle \in [Calls -> HandlePlaces] /\ timer \in [Calls -> TimerPlaces] /\ expired \in [Calls -> BOOLEAN]
    BY DEF QInv, TypeOK
  <1>1. CASE Submitting
    BY <1>1, SubmitMarks, InvocationConstants DEF Submitting
  <1>2. CASE Timing
    <2>1. PICK c \in Calls : deadline_passes(c) \/ ExpireStep(c)
      BY <1>2 DEF Timing
    <2>2. timer[c] # "off" \/ inv[c].phase # "none"
      BY <2>1 DEF ExpireStep, deadline_passes, expire_deadline, expire_remove, expire_clear_owner, expire_removed, expire_finish,
         TimerStep
    <2>3. /\ responder' = responder \/ Responder(c, "gone")
          /\ timer' = timer \/ \E t : timer' = [timer EXCEPT ![c] = t]
          /\ expired' = expired \/ expired' = [expired EXCEPT ![c] = TRUE]
          /\ handle' = handle
      BY <2>1 DEF ExpireStep, deadline_passes, expire_deadline, expire_remove, expire_clear_owner, expire_removed, expire_finish,
         TimerStep, timerRest
    <2>4. \A e \in Calls \ {c} : responder'[e] = responder[e]
      BY <1>0, <2>3, ResponderMarks
    <2> QED BY <1>0, <2>2, <2>3, <2>4, CallFacts DEF Marks
  <1>3. CASE Calling
    <2>1. PICK c \in Calls : ClientStep(c)
      BY <1>3 DEF Calling
    <2>2. handle[c] = "open" /\ (handle' = handle \/ handle' = [handle EXCEPT ![c] = "closed"])
          /\ (responder' = responder \/ Responder(c, "gone"))
      BY <2>1, CancelQueue DEF ClientStep, invocation_cancel, close_invocation, restrict_invocation
    <2>3. \A e \in Calls \ {c} : responder'[e] = responder[e]
      BY <1>0, <2>2, ResponderMarks
    <2> QED BY Zenon, <1>0, <1>3, <2>2, <2>3, Frames, CallFacts DEF clientRest, Marks
  <1>4. CASE Taking
    BY <1>4, Frames DEF clientRest
  <1>5. CASE Receiving
    <2>1. PICK r \in Receivers : receive(r) \/ ReceiveStep(r)
      BY <1>5 DEF Receiving
    <2>2. CASE discard_claimed(r) \/ activate(r) \/ close_delivered(r)
      <3>1. on[r] \in Calls /\ sub[on[r]] # "idle"
        BY Zenon, <2>2, CallFacts DEF discard_claimed, activate, close_delivered, At, Holding, Delivered
      <3>2. Responder(on[r], "gone") \/ Responder(on[r], "table") \/ responder' = [responder EXCEPT ![on[r]] = "gone"]
            \/ responder' = responder
        BY Zenon, <2>2 DEF discard_claimed, activate, close_delivered
      <3>3. \A e \in Calls \ {on[r]} : responder'[e] = responder[e]
        BY <1>0, <3>1, <3>2, ResponderMarks
      <3> QED BY <1>5, <3>1, <3>3, Frames DEF receiveRest, Marks
    <2>3. CASE ~ (discard_claimed(r) \/ activate(r) \/ close_delivered(r))
      <3>1. responder' = responder
        BY <2>1, <2>3 DEF ReceiveStep, receive, claim, claim_fails, check_claimed, cancel_claim, begin_receive,
           rollback_receive, rollback_cancelled, finish_dispatch, commit_claim, leave
      <3> QED BY <1>5, <3>1, Frames DEF receiveRest
    <2> QED BY Zenon, <2>2, <2>3
  <1>6. CASE Serving
    <2>1. UNCHANGED <<timer, handle, expired>>
      BY <1>6, Frames DEF receiveRest
    <2>2. responder' = responder \/ \E c \in Calls : c \in discarded /\ Responder(c, "gone")
      BY <1>6 DEF Serving, release_server, close_server_queue, complete_discarded
    <2> QED BY ZenonT(30), <1>0, <2>1, <2>2, CallFacts, ResponderMarks DEF Marks
  <1>7. CASE Responding
    <2>1. UNCHANGED <<timer, handle, expired>>
      BY <1>7, Frames DEF responderRest
    <2>2. responder' = responder \/ \E c \in Calls : responder[c] = "table" /\ responder' = [responder EXCEPT ![c] = "gone"]
      <3>1. ASSUME NEW w \in Workers, RespondStep(w), responder' # responder
            PROVE  on[w] \in Calls /\ responder[on[w]] = "table" /\ responder' = [responder EXCEPT ![on[w]] = "gone"]
        BY <3>1, CallFacts DEF RespondStep, complete_reply, complete_failure, consume_responder, close_replied, At
      <3> QED BY Zenon, <1>7, <3>1 DEF Responding, respond, close_responder, restrict_responder
    <2> QED BY ZenonT(30), <1>0, <2>1, <2>2, CallFacts, ResponderMarks DEF Marks
  <1>8. CASE Dispatching
    BY <1>8, Frames DEF kernelRest
  <1> QED BY <1>1, <1>2, <1>3, <1>4, <1>5, <1>6, <1>7, <1>8, NextParties

LEMMA SubmittedStep ==
  ASSUME QInv, Next
  PROVE  Submitted'
  <1>0. Submitted /\ TypeOK /\ ThreadsOK
    BY DEF QInv
  <1>1. ASSUME NEW c \in Calls
        PROVE  Unsent(c)' /\ (sub'[c] # "idle" => inv'[c].phase # "none")
    <2>1. CASE sub'[c] = "idle"
      <3>1. sub[c] = "idle" /\ ~ submit(c)
        BY <1>0, <2>1, Advances DEF submit, Step, TypeOK
      <3>2. inv'[c] = inv[c]
        BY <3>1, NextLives DEF Lives
      <3>3. timer'[c] = timer[c] /\ handle'[c] = handle[c] /\ responder'[c] = responder[c] /\ expired'[c] = expired[c]
        BY <2>1, <3>1, NextMarks DEF Marks
      <3> QED BY Zenon, <1>0, <2>1, <3>1, <3>2, <3>3 DEF Submitted, Unsent
    <2>2. CASE sub'[c] # "idle"
      <3>1. CASE sub[c] = "idle"
        <4>1. submit(c)
          BY <2>2, <3>1, Starts
        <4>2. inv'[c].phase = "queued"
          BY <1>0, <4>1 DEF submit, Update, TypeOK, Unsubmitted
        <4> QED BY <2>2, <4>2 DEF Unsent
      <3> QED BY <2>2, <3>1, NextLives DEF Lives, Unsent
    <2> QED BY <2>1, <2>2
  <1>2. \A t \in Workers \cup Takers : pc'[t] # "idle" => on'[t] \in Calls /\ sub'[on'[t]] # "idle"
    <2>1. \A c \in Calls : sub[c] # "idle" => sub'[c] # "idle"
      BY <1>0, Advances
    <2>2. \A t \in Workers \cup Takers : \/ pc'[t] = pc[t] /\ on'[t] = on[t]
                                         \/ pc'[t] = "idle"
                                         \/ on'[t] \in Calls /\ sub[on'[t]] # "idle"
      <3>1. ReceiverMoved \/ KernelMoved => \A t \in Workers \cup Takers : pc'[t] = pc[t] /\ on'[t] = on[t]
        BY Zenon, InvocationConstants DEF ReceiverMoved, KernelMoved, Moved, Threads
      <3>2. ASSUME NEW t \in Workers \cup Takers, NEW s, NEW c, Moved(t, s, c), s = "idle" \/ (c \in Calls /\ sub[c] # "idle")
            PROVE  \A u \in Workers \cup Takers : \/ pc'[u] = pc[u] /\ on'[u] = on[u]
                                                  \/ pc'[u] = "idle"
                                                  \/ on'[u] \in Calls /\ sub[on'[u]] # "idle"
        <4>1. pc'[t] = s /\ on'[t] = c /\ \A u \in (Workers \cup Takers) \ {t} : pc'[u] = pc[u] /\ on'[u] = on[u]
          BY <3>2 DEF Moved, Threads
        <4> QED BY Zenon, <3>2, <4>1
      <3>3. CASE ClientMoved
        BY Zenon, <3>2, <3>3 DEF ClientMoved
      <3> QED BY Zenon, <3>1, <3>3, ThreadMoves
    <2> QED BY <1>0, <2>1, <2>2 DEF Submitted
  <1>3. \A k \in KernelWorkers : pc'[k] # "idle" => on'[k] \in KernelCalls /\ sub'[on'[k]] \notin Unqueued
    <2>1. \A c \in Calls : sub[c] \notin Unqueued => sub'[c] \notin Unqueued
      BY <1>0, Advances
    <2>2. \A k \in KernelWorkers : \/ pc'[k] = pc[k] /\ on'[k] = on[k]
                                   \/ pc'[k] = "idle"
                                   \/ on'[k] \in KernelCalls /\ sub[on'[k]] \notin Unqueued
      <3>1. ReceiverMoved \/ ClientMoved => \A k \in KernelWorkers : pc'[k] = pc[k] /\ on'[k] = on[k]
        BY ZenonT(30), InvocationConstants DEF ReceiverMoved, ClientMoved, Moved, Threads
      <3>2. ASSUME NEW k \in KernelWorkers, NEW s, NEW c, Moved(k, s, c), s = "idle" \/ (c \in KernelCalls /\ sub[c] \notin Unqueued)
            PROVE  \A l \in KernelWorkers : \/ pc'[l] = pc[l] /\ on'[l] = on[l]
                                            \/ pc'[l] = "idle"
                                            \/ on'[l] \in KernelCalls /\ sub[on'[l]] \notin Unqueued
        <4>1. pc'[k] = s /\ on'[k] = c /\ \A l \in KernelWorkers \ {k} : pc'[l] = pc[l] /\ on'[l] = on[l]
          BY <3>2 DEF Moved, Threads
        <4> QED BY Zenon, <3>2, <4>1
      <3>3. CASE KernelMoved
        BY Zenon, <3>2, <3>3 DEF KernelMoved
      <3> QED BY Zenon, <3>1, <3>3, ThreadMoves
    <2> QED BY Zenon, <1>0, <2>1, <2>2, InvocationConstants DEF Submitted
  <1>4. \A n \in 1 .. Len(kqueue') : sub'[kqueue'[n]] \notin Unqueued
    <2>0. kqueue \in Seq(KernelCalls) /\ \A n \in 1 .. Len(kqueue) : sub[kqueue[n]] \notin Unqueued
      BY Zenon, <1>0 DEF TypeOK, Submitted
    <2>1. \A n \in 1 .. Len(kqueue) : sub'[kqueue[n]] \notin Unqueued
      BY <1>0, <2>0, Advances, InvocationConstants
    <2>2. CASE \E c \in KernelCalls : enqueue_kernel(c)
      <3>1. PICK c \in KernelCalls : enqueue_kernel(c)
        BY <2>2
      <3>2. kqueue' = Append(kqueue, c) /\ sub'[c] = "copyout"
        BY <1>0, <3>1, InvocationConstants DEF enqueue_kernel, Step, TypeOK
      <3>3. Len(kqueue') = Len(kqueue) + 1 /\ Len(kqueue) \in Nat /\ kqueue'[Len(kqueue) + 1] = c
            /\ \A n \in 1 .. Len(kqueue) : kqueue'[n] = kqueue[n]
        BY <2>0, <3>2
      <3>4. "copyout" \notin Unqueued
        BY DEF Unqueued
      <3> QED BY <2>1, <3>2, <3>3, <3>4
    <2>3. CASE \E k \in KernelWorkers : pop(k)
      <3>1. kqueue # <<>> /\ kqueue' = Tail(kqueue)
        BY <2>3 DEF pop
      <3> QED BY <2>0, <2>1, <3>1
    <2>4. kqueue' = kqueue \/ (\E c \in KernelCalls : enqueue_kernel(c)) \/ \E k \in KernelWorkers : pop(k)
      <3>1. Submitting => kqueue' = kqueue \/ \E c \in KernelCalls : enqueue_kernel(c)
        BY Zenon DEF Submitting, SubmitStep, submit, install, install_fails, destroy_state, enqueue, enqueue_fails, recheck_cancel,
           recheck_completed, copyout, copyout_fails, submit_closes
      <3>2. Dispatching => kqueue' = kqueue \/ \E k \in KernelWorkers : pop(k)
        BY DEF Dispatching, KernelStep, kernel_begin, mark_dispatched, kernel_handler, execute_kernel_dispatch, restore_fails
      <3> QED BY <3>1, <3>2, Frames, NextParties DEF timerRest, clientRest, receiveRest, responderRest
    <2> QED BY Zenon, <2>1, <2>2, <2>3, <2>4
  <1> QED BY Zenon, <1>1, <1>2, <1>3, <1>4 DEF Submitted
----------------------------------------------------------------------------
(* A request is in one place *)

LEMMA QueueMembers ==
  ASSUME QInv, Next
  PROVE  /\ \A m, n \in 1 .. Len(fifo') : fifo'[m] = fifo'[n] => m = n
         /\ \A c \in Calls : InQueue(c)' => InQueue(c) \/ enqueue(c)
         /\ \A c \in Calls : c \in discarded' => c \in discarded \/ (InQueue(c) /\ ~ InQueue(c)')
  <1>0. fifo \in Seq(Calls) /\ Queue /\ \A m, n \in 1 .. Len(fifo) : fifo[m] = fifo[n] => m = n
    BY DEF QInv, TypeOK, Queue
  <1>1. CASE Keeps
    BY <1>0, <1>1 DEF Keeps, InQueue
  <1>2. CASE Removes
    <2>1. PICK c \in Calls : Removable(c) /\ fifo' = Without(c) /\ discarded' = discarded
      BY <1>2 DEF Removes, RemoveQueued
    <2>2. /\ \A n \in 1 .. Len(fifo') : \E m \in 1 .. Len(fifo) : fifo'[n] = fifo[m]
          /\ \A m, n \in 1 .. Len(fifo') : fifo'[m] = fifo'[n] => m = n
      <3> DEFINE w == Without(c)
      <3>1. /\ \A n \in 1 .. Len(w) : \E m \in 1 .. Len(fifo) : w[n] = fifo[m]
            /\ \A m, n \in 1 .. Len(w) : w[m] = w[n] => m = n
        BY Zenon, <1>0, <2>1, WithoutRequest
      <3>2. fifo' = w
        BY <2>1
      <3> HIDE DEF w
      <3> QED BY <3>1, <3>2
    <2>3. \A d \in Calls : InQueue(d)' => InQueue(d)
      BY <2>2 DEF InQueue
    <2> QED BY Zenon, <2>1, <2>2, <2>3
  <1>3. CASE Pops
    <2>1. fifo' = Tail(fifo) /\ fifo # <<>> /\ discarded' = discarded
      BY <1>3 DEF Pops
    <2>2. Len(fifo') = Len(fifo) - 1 /\ Len(fifo) \in Nat /\ \A n \in 1 .. Len(fifo') : fifo'[n] = fifo[n + 1]
      BY <1>0, <2>1
    <2> QED BY <1>0, <2>1, <2>2 DEF InQueue
  <1>4. CASE Drains
    BY <1>4 DEF Drains, InQueue
  <1>5. CASE Adds
    <2>1. PICK c \in Calls : enqueue(c)
      BY <1>5 DEF Adds
    <2>2. fifo' = Append(fifo, c) /\ discarded' = discarded /\ sub[c] = "installed"
      BY <2>1 DEF enqueue, Step, submitRest
    <2>3. ~ InQueue(c)
      BY <1>0, <2>2 DEF Queue, Unqueued
    <2>4. Len(fifo') = Len(fifo) + 1 /\ Len(fifo) \in Nat /\ fifo'[Len(fifo) + 1] = c /\ \A n \in 1 .. Len(fifo) : fifo'[n] = fifo[n]
      BY <1>0, <2>2
    <2> QED BY <1>0, <2>1, <2>2, <2>3, <2>4 DEF InQueue
  <1> QED BY <1>1, <1>2, <1>3, <1>4, <1>5, QueueShapes

\* The deadline takes out a request that was in the queue.
LEMMA TimerRemoves ==
  ASSUME QInv, Next, NEW c \in Calls, timer'[c] \in Removed
  PROVE  timer[c] \in Removed \/ (Removable(c) /\ fifo' = Without(c) /\ discarded' = discarded)
  <1>0. timer \in [Calls -> TimerPlaces]
    BY DEF QInv, TypeOK
  <1>1. CASE Submitting
    BY Zenon, <1>0, <1>1 DEF Submitting, SubmitStep, submit, install, install_fails, destroy_state, enqueue, enqueue_fails,
       recheck_cancel, recheck_completed, enqueue_kernel, copyout, copyout_fails, submit_closes, Removed
  <1>2. CASE Timing
    <2>1. PICK d \in Calls : deadline_passes(d) \/ ExpireStep(d)
      BY <1>2 DEF Timing
    <2>2. discarded' = discarded
      BY <1>2, Frames DEF timerRest
    <2>3. CASE d # c
      <3>1. timer' = timer \/ \E t : timer' = [timer EXCEPT ![d] = t]
        BY <2>1 DEF ExpireStep, deadline_passes, expire_deadline, expire_remove, expire_clear_owner, expire_removed, expire_finish,
           TimerStep
      <3> QED BY <1>0, <2>3, <3>1
    <2>4. CASE d = c
      BY <1>0, <2>1, <2>2, <2>4 DEF ExpireStep, deadline_passes, expire_deadline, expire_remove, expire_clear_owner, expire_removed,
         expire_finish, TimerStep, RemoveQueued, Removed
    <2> QED BY <2>3, <2>4
  <1> QED BY <1>1, <1>2, Frames, NextParties DEF clientRest, receiveRest, responderRest, kernelRest

LEMMA QueueStep ==
  ASSUME QInv, Next
  PROVE  Queue'
  <1>0. TypeOK /\ Queue /\ fifo \in Seq(Calls) /\ fifo' \in Seq(Calls) /\ discarded' \in SUBSET Calls
    BY QueueTyped DEF QInv, TypeOK
  <1>1. \A n \in 1 .. Len(fifo) : fifo[n] \in Calls /\ InQueue(fifo[n])
    BY <1>0 DEF InQueue
  <1>2. \A c \in Calls : /\ InQueue(c) => c \notin discarded /\ timer[c] \notin Removed
                         /\ c \in discarded => timer[c] \notin Removed
                         /\ InQueue(c) \/ c \in discarded \/ timer[c] \in Removed => sub[c] \notin Unqueued /\ c \notin KernelCalls
    BY Zenon, <1>0 DEF Queue, InQueue
  <1>3. \A c \in Calls : enqueue(c) => /\ sub[c] \in Unqueued /\ c \notin KernelCalls /\ sub'[c] \notin Unqueued
                                       /\ discarded' = discarded
    BY <1>0 DEF enqueue, Step, TypeOK, Unqueued, submitRest
  <1>4. ASSUME NEW c \in Calls
        PROVE  /\ timer'[c] \in Removed => timer[c] \in Removed \/ (InQueue(c) /\ ~ InQueue(c)' /\ discarded' = discarded)
    <2>1. Removable(c) /\ fifo' = Without(c) => InQueue(c) /\ ~ InQueue(c)'
      <3>1. Removable(c) => \A n \in 1 .. Len(Without(c)) : Without(c)[n] # c
        BY Zenon, <1>0, WithoutRequest
      <3> QED BY ZenonT(30), <3>1 DEF Removable, InQueue
    <2> QED BY ZenonT(30), <2>1, TimerRemoves
  <1>5. ASSUME NEW c \in Calls
        PROVE  /\ InQueue(c)' => c \notin discarded' /\ timer'[c] \notin Removed
               /\ c \in discarded' => timer'[c] \notin Removed
               /\ InQueue(c)' \/ c \in discarded' \/ timer'[c] \in Removed => sub'[c] \notin Unqueued /\ c \notin KernelCalls
    <2>1. InQueue(c)' => InQueue(c) \/ enqueue(c)
      BY QueueMembers
    <2>2. c \in discarded' => c \in discarded \/ (InQueue(c) /\ ~ InQueue(c)')
      BY QueueMembers
    <2>3. sub[c] \notin Unqueued => sub'[c] \notin Unqueued
      BY <1>0, Advances
    <2> QED BY Zenon, <1>2, <1>3, <1>4, <2>1, <2>2, <2>3
  <1>6. ASSUME NEW n \in 1 .. Len(fifo')
        PROVE  fifo'[n] \notin discarded' /\ timer'[fifo'[n]] \notin Removed
    <2>1. PICK c \in Calls : c = fifo'[n]
      BY <1>0
    <2>2. InQueue(c)'
      BY <2>1 DEF InQueue
    <2> QED BY <1>5, <2>1, <2>2
  <1>7. /\ \A c \in discarded' : timer'[c] \notin Removed
        /\ \A c \in Calls : InQueue(c)' \/ c \in discarded' \/ timer'[c] \in Removed => sub'[c] \notin Unqueued /\ c \notin KernelCalls
    BY <1>0, <1>5
  <1> QED BY Zenon, <1>6, <1>7, QueueMembers DEF Queue
----------------------------------------------------------------------------
(* A claimed request is the head of the queue *)

\* Nobody but a receive takes the head that a receive holds, or moves it.
LEMMA HeadStays ==
  ASSUME QInv, Next, ~ Receiving
  PROVE  /\ claimed' = claimed
         /\ \A r \in Receivers : pc'[r] = pc[r] /\ on'[r] = on[r]
         /\ claimed /\ fifo # <<>> => fifo' # <<>> /\ fifo'[1] = fifo[1]
  <1>0. fifo \in Seq(Calls) /\ Queue
    BY DEF QInv, TypeOK
  <1>1. claimed' = claimed
    BY Frames, NextParties DEF submitRest, timerRest, clientRest, responderRest, kernelRest
  <1>2. \A r \in Receivers : pc'[r] = pc[r] /\ on'[r] = on[r]
    <2>1. ClientMoved => \A r \in Receivers : pc'[r] = pc[r] /\ on'[r] = on[r]
      BY ZenonT(30), InvocationConstants DEF ClientMoved, Moved, Threads
    <2>2. KernelMoved => \A r \in Receivers : pc'[r] = pc[r] /\ on'[r] = on[r]
      BY Zenon, InvocationConstants DEF KernelMoved, Moved, Threads
    <2> QED BY Zenon, <2>1, <2>2, ThreadMoves
  <1>3. ASSUME claimed, fifo # <<>>
        PROVE  fifo' # <<>> /\ fifo'[1] = fifo[1]
    <2>1. CASE Removes
      <3>1. PICK c \in Calls : Removable(c) /\ fifo' = Without(c)
        BY <2>1 DEF Removes, RemoveQueued
      <3>2. Len(fifo') = Len(fifo) - 1 /\ Len(fifo) > 1 /\ fifo'[1] = fifo[1] /\ Len(fifo) \in Nat
        BY <1>0, <1>3, <3>1, WithoutRequest
      <3>3. fifo' # <<>>
        BY <3>2
      <3> QED BY <3>2, <3>3
    <2>2. CASE Adds
      <3>1. PICK c \in Calls : fifo' = Append(fifo, c)
        BY <2>2 DEF Adds, enqueue
      <3> QED BY <1>0, <1>3, <3>1
    <2>3. CASE ~ (Removes \/ Adds)
      <3>1. fifo' = fifo
        <4>1. Submitting => Keeps \/ Removes \/ Adds
          <5>1. Submitting => discarded' = discarded
            BY Frames DEF submitRest
          <5>2. ASSUME NEW c \in Calls, submit(c) \/ SubmitStep(c) \/ enqueue_kernel(c)
                PROVE  fifo' = fifo \/ (Removable(c) /\ RemoveQueued(c)) \/ enqueue(c)
            BY <5>2, CancelQueue DEF SubmitStep, submit, install, install_fails, destroy_state, enqueue_fails, recheck_cancel,
               recheck_completed, enqueue_kernel, copyout, copyout_fails, submit_closes
          <5> QED BY <5>1, <5>2, InvocationConstants DEF Submitting, Keeps, Removes, Adds
        <4>2. Serving => fifo' = fifo
          BY Zenon, <1>3 DEF Serving, release_server, close_server_queue, complete_discarded, Drain
        <4>3. Timing \/ Calling => Keeps \/ Removes
          <5>1. Timing \/ Calling => discarded' = discarded
            BY Frames DEF timerRest, clientRest
          <5>2. ASSUME NEW c \in Calls, deadline_passes(c) \/ ExpireStep(c) \/ ClientStep(c)
                PROVE  fifo' = fifo \/ (Removable(c) /\ RemoveQueued(c))
            BY <5>2, CancelQueue DEF ClientStep, invocation_cancel, close_invocation, restrict_invocation, ExpireStep,
               deadline_passes, expire_deadline, expire_remove, expire_clear_owner, expire_removed, expire_finish
          <5> QED BY <5>1, <5>2 DEF Timing, Calling, Keeps, Removes
        <4>4. Taking \/ Responding \/ Dispatching => fifo' = fifo
          BY Frames DEF responderRest, kernelRest
        <4> QED BY <2>3, <4>1, <4>2, <4>3, <4>4, NextParties DEF Keeps
      <3> QED BY <1>3, <3>1
    <2> QED BY <2>1, <2>2, <2>3
  <1> QED BY <1>1, <1>2, <1>3

\* A request in a closed endpoint was there before.
LEMMA NoneAdded ==
  ASSUME QInv, Next, fifo' # <<>>, server' = "closed"
  PROVE  fifo # <<>>
  <1>0. fifo \in Seq(Calls) /\ fifo' \in Seq(Calls) /\ Queue
    BY QueueTyped DEF QInv, TypeOK
  <1>1. PICK c \in Calls : InQueue(c)'
    BY <1>0 DEF InQueue
  <1>2. ~ enqueue(c)
    BY InvocationConstants DEF enqueue, Refused, submitRest
  <1>3. InQueue(c)
    BY <1>1, <1>2, QueueMembers
  <1> QED BY <1>3 DEF InQueue

LEMMA OthersClaim ==
  ASSUME QInv, Next, ~ Receiving
  PROVE  Claim'
  <1>0. Claim
    BY DEF QInv
  <1>1. /\ claimed' = claimed
        /\ \A r \in Receivers : pc'[r] = pc[r] /\ on'[r] = on[r]
        /\ claimed /\ fifo # <<>> => fifo' # <<>> /\ fifo'[1] = fifo[1]
    BY HeadStays
  <1>2. ASSUME server' = "closed", fifo' # <<>>
        PROVE  \E r \in Receivers : pc[r] # "idle"
    <2>1. CASE server = "closed"
      BY <1>0, <1>2, <2>1, NoneAdded DEF Claim, Inside
    <2>2. CASE server # "closed"
      <3>1. Drain
        <4>1. server' # server => Serving
          BY Frames, NextParties DEF submitRest, timerRest, clientRest, responderRest, kernelRest
        <4> QED BY <1>2, <2>2, <4>1 DEF Serving, release_server, close_server_queue, complete_discarded
      <3>2. claimed
        BY <1>2, <3>1 DEF Drain
      <3> QED BY <1>0, <3>2 DEF Claim, Holding, Delivered
    <2> QED BY <2>1, <2>2
  <1>3. server' = "closed" /\ fifo' # <<>> => Inside' # {}
    BY <1>1, <1>2 DEF Inside
  <1> QED BY Zenon, <1>0, <1>1, <1>3 DEF Claim

\* What a step of a receive does to the claim.
LEMMA ReceiverClaim ==
  ASSUME QInv, NEW r \in Receivers, receive(r) \/ ReceiveStep(r)
  PROVE  Claim'
  <1>0. Claim /\ ThreadsOK /\ r \in Threads /\ Receivers \subseteq Threads /\ fifo \in Seq(Calls)
    BY DEF QInv, TypeOK, Threads
  <1>1. Next /\ Receiving
    BY DEF Next, Receiving
  <1>2. \A s \in Receivers \ {r} : pc'[s] = pc[s] /\ on'[s] = on[s]
    BY <1>0, ReceiverMoves DEF Moved
  <1>3. server' = server
    BY DEF ReceiveStep, receive, claim, claim_fails, check_claimed, discard_claimed, cancel_claim, begin_receive,
       rollback_receive, rollback_cancelled, activate, finish_dispatch, close_delivered, commit_claim, leave, PopClaimed, queueVars
  <1>4. ASSUME pc'[r] # "idle"
        PROVE  Inside' # {}
    BY <1>4 DEF Inside
  <1>5. CASE claim(r)
    <2>1. fifo' = fifo /\ claimed' = TRUE /\ ~ claimed /\ fifo # <<>> /\ Head(fifo) \in Calls /\ Head(fifo) = fifo[1]
          /\ Pick(r, "claimed", Head(fifo))
      BY <1>0, <1>5 DEF claim
    <2>2. pc'[r] = "claimed" /\ on'[r] = fifo[1]
      <3>1. Moved(r, "claimed", Head(fifo))
        BY Zenon, <1>0, <2>1, Moving
      <3> QED BY Zenon, <2>1, <3>1 DEF Moved
    <2>3. \A s \in Receivers : pc[s] \notin Holding
      BY <1>0, <2>1 DEF Claim
    <2>4. "claimed" \in Holding
      BY DEF Holding
    <2> QED BY Zenon, <1>0, <1>2, <1>4, <2>1, <2>2, <2>3, <2>4 DEF Claim
  <1>6. CASE \/ check_claimed(r) \/ begin_receive(r) \/ rollback_receive(r) \/ rollback_cancelled(r) \/ activate(r)
             \/ finish_dispatch(r) \/ close_delivered(r)
    <2>1. pc[r] \in Holding /\ UNCHANGED <<fifo, claimed>> /\ \E s \in Holding : Goto(r, s)
      BY <1>6 DEF check_claimed, begin_receive, rollback_receive, rollback_cancelled, activate, finish_dispatch,
         close_delivered, At, queueVars, Holding, Delivered
    <2>2. pc'[r] \in Holding /\ on'[r] = on[r]
      BY Zenon, <1>0, <2>1, Moving DEF Moved
    <2>3. pc'[r] # "idle"
      BY <2>2 DEF Holding, Delivered
    <2> QED BY Zenon, <1>0, <1>2, <1>3, <1>4, <2>1, <2>2, <2>3 DEF Claim
  <1>7. CASE discard_claimed(r) \/ cancel_claim(r) \/ commit_claim(r)
    <2>1. pc[r] \in Holding /\ claimed' = FALSE /\ \E s \in {"entering", "leaving"} : Pick(r, s, NoCall)
      BY Zenon, <1>7 DEF discard_claimed, cancel_claim, commit_claim, PopClaimed, At, Holding, Delivered
    <2>2. pc'[r] \in {"entering", "leaving"} /\ on'[r] = NoCall
      BY Zenon, <1>0, <2>1, Moving DEF Moved
    <2>3. pc'[r] \notin Holding /\ pc'[r] # "idle"
      BY <2>2 DEF Holding, Delivered
    <2>4. \A s \in Receivers \ {r} : pc[s] \notin Holding
      BY Zenon, <1>0, <2>1 DEF Claim
    <2> QED BY Zenon, <1>0, <1>2, <1>4, <2>1, <2>2, <2>3, <2>4 DEF Claim
  <1>8. CASE receive(r) \/ claim_fails(r)
    <2>1. pc[r] \in {"idle", "entering"} /\ UNCHANGED <<fifo, claimed>> /\ (Pick(r, "entering", NoCall) \/ Goto(r, "leaving"))
      BY <1>8 DEF receive, claim_fails, At, queueVars
    <2>2. pc[r] \notin Holding
      BY <2>1 DEF Holding, Delivered
    <2>3. pc'[r] \in {"entering", "leaving"} /\ on'[r] = NoCall
      BY Zenon, <1>0, <2>1, <2>2, Moving DEF Moved, Claim
    <2>4. pc'[r] \notin Holding /\ pc'[r] # "idle"
      BY <2>3 DEF Holding, Delivered
    <2> QED BY Zenon, <1>0, <1>2, <1>4, <2>1, <2>2, <2>3, <2>4 DEF Claim
  <1>9. CASE leave(r)
    <2>1. pc[r] = "leaving" /\ Return(r) /\ claimed' = claimed
      BY <1>9 DEF leave, At
    <2>2. pc'[r] = "idle" /\ on'[r] = NoCall
      BY Zenon, <1>0, <2>1, Moving DEF Moved
    <2>3. pc[r] \notin Holding /\ pc'[r] \notin Holding
      BY <2>1, <2>2 DEF Holding, Delivered
    <2>4. CASE server = "closed" /\ Inside = {r}
      <3>1. ~ claimed
        BY Zenon, <1>0, <2>3, <2>4 DEF Claim, Inside, Holding, Delivered
      <3>2. fifo' = <<>>
        BY <1>9, <2>4, <3>1 DEF leave, Drain
      <3>3. \A s \in Receivers : pc[s] \notin Holding /\ on[s] = NoCall
        BY <1>0, <3>1 DEF Claim
      <3>4. \A s \in Receivers : pc'[s] \notin Holding /\ on'[s] = NoCall
        BY <1>2, <2>2, <2>3, <3>3
      <3> QED BY Zenon, <2>1, <3>1, <3>2, <3>4 DEF Claim
    <2>5. CASE ~ (server = "closed" /\ Inside = {r})
      <3>1. fifo' = fifo
        BY <1>9, <2>5 DEF leave
      <3>2. server = "closed" /\ fifo # <<>> => Inside' # {}
        BY <1>0, <1>2, <2>1, <2>5 DEF Claim, Inside
      <3> QED BY Zenon, <1>0, <1>2, <1>3, <2>1, <2>2, <2>3, <3>1, <3>2 DEF Claim
    <2> QED BY <2>4, <2>5
  <1> QED BY <1>5, <1>6, <1>7, <1>8, <1>9 DEF ReceiveStep

LEMMA InitQueue == Init => QInv
  <1> SUFFICES ASSUME Init
               PROVE  QInv
    OBVIOUS
  <1>1. Unsubmitted \in State
    BY Zenon DEF Unsubmitted, State, Phases, Outcomes, Reasons
  <1>2. TypeOK
    <2>1. inv \in [Calls -> State]
      BY <1>1 DEF Init
    <2>2. fifo \in Seq(Calls) /\ kqueue \in Seq(KernelCalls) /\ taken \in [Calls -> Seq(Outcomes \X BOOLEAN)]
      BY DEF Init
    <2>3. /\ sub \in [Calls -> SubmitPlaces] /\ handle \in [Calls -> HandlePlaces]
          /\ responder \in [Calls -> ResponderPlaces] /\ timer \in [Calls -> TimerPlaces]
      BY DEF Init, SubmitPlaces, Unqueued, HandlePlaces, ResponderPlaces, TimerPlaces
    <2> QED BY Zenon, <2>1, <2>2, <2>3 DEF Init, TypeOK
  <1>3. ThreadsOK
    BY DEF Init, ThreadsOK, Empty, Threads
  <1>4. Submitted
    BY DEF Init, Submitted, Unsent, Threads
  <1>5. Queue
    BY DEF Init, Queue, InQueue, Removed
  <1>6. Claim
    BY DEF Init, Claim, Holding, Delivered, Threads
  <1> QED BY <1>2, <1>3, <1>4, <1>5, <1>6 DEF QInv

LEMMA NextQueue == QInv /\ [Next]_vars => QInv'
  <1>1. ASSUME QInv, Next
        PROVE  QInv'
    <2>1. Claim'
      BY <1>1, OthersClaim, ReceiverClaim DEF Receiving
    <2> QED BY <1>1, <2>1, TypeStep, ThreadsStep, SubmittedStep, QueueStep DEF QInv
  <1>2. ASSUME QInv, UNCHANGED vars
        PROVE  QInv'
    <2>1. TypeOK'
      BY <1>2 DEF vars, QInv, TypeOK
    <2>2. ThreadsOK'
      BY <1>2 DEF vars, QInv, ThreadsOK
    <2>3. Submitted'
      BY Zenon, <1>2 DEF vars, QInv, Submitted, Unsent
    <2>4. Queue'
      BY Zenon, <1>2 DEF vars, QInv, Queue, InQueue
    <2>5. Claim'
      BY Zenon, <1>2 DEF vars, QInv, Claim, Inside
    <2> QED BY <2>1, <2>2, <2>3, <2>4, <2>5 DEF QInv
  <1> QED BY <1>1, <1>2

\* A request is in the queue once or nowhere, a receive that holds a request
\* holds the head, and what exists of a call was submitted: the queue of the
\* endpoint is coherent under every interleaving of submissions, receives,
\* cancellations, deadlines and closes.
THEOREM QueueCoherent == Spec => []QInv
  BY InitQueue, NextQueue, PTL DEF Spec
=============================================================================
