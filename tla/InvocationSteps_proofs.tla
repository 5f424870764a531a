----------------------- MODULE InvocationSteps_proofs -----------------------
(***************************************************************************)
(* What a step can do to a call, for any number of calls and threads.      *)
(*                                                                         *)
(* DInv says where a call is that a thread carries towards its             *)
(* implementation: between begin_receive and finish_dispatch it is decided by*)
(* its phase, by the thread and by whether the message is visible yet.  A  *)
(* step ends a call in one of the ways of Justified, turns the phase of the*)
(* call it carries, or leaves both alone.                                  *)
(***************************************************************************)
EXTENDS Invocation_proofs

\* A thread has taken the call out of the hands of its caller, and has not
\* shown it to the implementation yet.
Arriving(c) ==
  \/ \E r \in Receivers : on[r] = c /\ pc[r] = "receiving"
  \/ \E k \in KernelWorkers : on[k] = c /\ pc[k] = "begun"

\* A thread has taken it, and may have shown it.
Active(c) ==
  \/ \E r \in Receivers : on[r] = c /\ pc[r] \in {"receiving"} \cup Delivered
  \/ \E k \in KernelWorkers : on[k] = c /\ pc[k] \in {"begun"} \cup Executing

Delivery(c) ==
  /\ executed[c] => inv[c].phase \notin {"none", "queued"} /\ sub[c] \notin Unqueued
  /\ inv[c].phase = "dispatched" => executed[c]
  /\ inv[c].phase = "queued" => ~ Active(c)
  /\ inv[c].phase = "receiving" => Arriving(c) \/ \E r \in Receivers : on[r] = c /\ pc[r] = "activated"
  /\ responder[c] = "table" => executed[c]
  /\ expired[c] => c \in Deadlined
  /\ c \in discarded \/ timer[c] \in Removed => ~ executed[c]
  /\ executed[c] /\ InQueue(c) => \E r \in Receivers : on[r] = c /\ pc[r] \in Delivered

Servers ==
  /\ \A r \in Receivers : (pc[r] \in Delivered => executed[on[r]]) /\ (pc[r] = "receiving" => ~ executed[on[r]])
  /\ \A k \in KernelWorkers : (pc[k] \in Executing => executed[on[k]]) /\ (pc[k] = "begun" => ~ executed[on[k]])
  /\ \A k, l \in KernelWorkers : pc[k] = "begun" /\ pc[l] = "begun" /\ on[k] = on[l] => k = l
  /\ \A w \in Workers : pc[w] # "idle" => executed[on[w]]

DInv == Servers /\ \A c \in Calls : Delivery(c)

\* A call has an outcome when it is over, and only then.
OInv == \A c \in Calls : Complete(inv[c]) <=> inv[c].outcome # "none"
----------------------------------------------------------------------------
(* How the kernel ends a call *)

\* The phase stays or the call ends, and then with an unknown outcome or,
\* while it was still queued, as not delivered.
Fades(i, j) ==
  /\ Resolves(i, j) /\ (j.phase = i.phase \/ Complete(j))
  /\ ~ Complete(i) /\ Complete(j) =>
       j.reason # "UNSUPPORTED" /\ (j.outcome = "OUTCOME_UNKNOWN" \/ (j.outcome = "NOT_DELIVERED" /\ i.phase = "queued"))

LEMMA FadesItself ==
  ASSUME NEW i \in State
  PROVE  Fades(i, i)
  BY ResolvesItself DEF Fades

LEMMA FadesTransitive ==
  ASSUME NEW i, NEW j, NEW k, Fades(i, j), Fades(j, k)
  PROVE  Fades(i, k)
  <1>1. Resolves(i, k)
    BY ResolvesTransitive DEF Fades
  <1> QED BY <1>1 DEF Fades, Resolves, Complete

LEMMA FlagFades ==
  ASSUME NEW i \in State, NEW b \in BOOLEAN
  PROVE  /\ Fades(i, [i EXCEPT !.alive = b]) /\ [i EXCEPT !.alive = b].phase = i.phase
         /\ Fades(i, [i EXCEPT !.owner = b]) /\ [i EXCEPT !.owner = b].phase = i.phase
         /\ Fades(i, [i EXCEPT !.cancel = b]) /\ [i EXCEPT !.cancel = b].phase = i.phase
  <1>1. /\ [i EXCEPT !.alive = b].phase = i.phase /\ [i EXCEPT !.owner = b].phase = i.phase
        /\ [i EXCEPT !.cancel = b].phase = i.phase
    BY Zenon DEF State
  <1> QED BY Zenon, <1>1, FlagResolves DEF Fades, Complete

\* The kernel may report NOT_DELIVERED of a queued call only.
Reports(i, o) == o = "OUTCOME_UNKNOWN" \/ (o = "NOT_DELIVERED" /\ i.phase = "queued")

LEMMA PublishFades ==
  ASSUME NEW i \in State, NEW o, Reports(i, o), NEW r \in Reasons \ {"UNSUPPORTED"}
  PROVE  Fades(i, Publish(i, o, r))
  <1> DEFINE p == [i EXCEPT !.phase = "ready", !.outcome = o, !.reason = r, !.response = (o = "REPLY")]
  <1>1. p.phase = "ready" /\ p.outcome = o /\ p.reason = r
    BY Zenon DEF State
  <1>2. Resolves(i, Publish(i, o, r))
    BY PublishResolves DEF Reports, Outcomes
  <1>3. Publish(i, o, r) = i \/ Publish(i, o, r) = p
    BY DEF Publish
  <1> HIDE DEF p
  <1>4. CASE Publish(i, o, r) = i
    BY <1>4, FadesItself
  <1>5. CASE Publish(i, o, r) = p
    BY <1>1, <1>2, <1>5 DEF Fades, Complete, Reports
  <1> QED BY <1>3, <1>4, <1>5

LEMMA DeadFades ==
  ASSUME NEW i \in State, NEW o, Reports(i, o), NEW r \in {"OPERATION_DEADLINE", "RESPONDER_ABANDONED"}
  PROVE  Fades(i, Publish([i EXCEPT !.alive = FALSE], o, r))
  <1> DEFINE d == [i EXCEPT !.alive = FALSE]
  <1>1. d \in State /\ Fades(i, d) /\ d.phase = i.phase
    BY Zenon, FlagResolves, FlagFades
  <1> HIDE DEF d
  <1>2. Fades(d, Publish(d, o, r))
    BY <1>1, PublishFades DEF Reports, Reasons
  <1>3. Fades(i, Publish(d, o, r))
    BY <1>1, <1>2, FadesTransitive
  <1> QED BY <1>3 DEF d

LEMMA ExpireFades ==
  ASSUME NEW i \in State
  PROVE  Fades(i, Expire(i))
  <1>1. i.phase = "queued" => Fades(i, Publish(i, "NOT_DELIVERED", "OPERATION_DEADLINE"))
    BY PublishFades DEF Reports, Reasons
  <1>2. Fades(i, Publish([i EXCEPT !.alive = FALSE], "OUTCOME_UNKNOWN", "OPERATION_DEADLINE"))
    BY Zenon, DeadFades DEF Reports
  <1> QED BY Zenon, <1>1, <1>2, FadesItself DEF Expire

LEMMA AbandonFades ==
  ASSUME NEW i \in State
  PROVE  Fades(i, Abandon(i))
  <1>1. i.phase = "queued" => Fades(i, Publish([i EXCEPT !.alive = FALSE], "NOT_DELIVERED", "RESPONDER_ABANDONED"))
    BY Zenon, DeadFades DEF Reports
  <1>2. Fades(i, Publish([i EXCEPT !.alive = FALSE], "OUTCOME_UNKNOWN", "RESPONDER_ABANDONED"))
    BY Zenon, DeadFades DEF Reports
  <1> QED BY Zenon, <1>1, <1>2, FlagFades, FadesItself DEF Abandon

LEMMA DroppedFades ==
  ASSUME NEW c, NEW i \in State
  PROVE  Fades(i, Dropped(c, i))
  <1> DEFINE u == [i EXCEPT !.owner = FALSE]
  <1>1. u \in State /\ Fades(i, u)
    BY Zenon, FlagResolves, FlagFades
  <1> HIDE DEF u
  <1>2. Fades(i, Abandon(u))
    BY <1>1, AbandonFades, FadesTransitive
  <1> QED BY <1>1, <1>2 DEF Dropped, u

LEMMA BegunFades ==
  ASSUME NEW i \in State, ~ Receivable(i)
  PROVE  Fades(i, Begun(i))
  <1>1. i.phase = "queued" => /\ Fades(i, Publish(i, "NOT_DELIVERED", "CANCEL_REQUESTED"))
                              /\ Fades(i, Publish(i, "NOT_DELIVERED", "RESPONDER_ABANDONED"))
    BY PublishFades DEF Reports, Reasons
  <1> QED BY Zenon, <1>1, FadesItself DEF Begun
----------------------------------------------------------------------------
(* The steps that end a call this way *)

\* No step touches the states of two calls.
OneCall == inv' = inv \/ \E c \in Calls : Touches(c)

Fading == OneCall /\ \A c \in Calls : Fades(inv[c], inv'[c])

LEMMA SameFading ==
  ASSUME TypeOK, inv' = inv
  PROVE  Fading
  BY FadesItself DEF Fading, OneCall, TypeOK

LEMMA UpdateFading ==
  ASSUME TypeOK, NEW c \in Calls, NEW j, Update(c, j), Fades(inv[c], j)
  PROVE  Fading
  <1>1. j \in State /\ \A d \in Calls : inv[d] \in State
    BY DEF Fades, Resolves, TypeOK
  <1>2. Touches(c) /\ inv'[c] = j
    BY <1>1, UpdateTouches
  <1> QED BY <1>1, <1>2, FadesItself DEF Fading, OneCall, Touches

LEMMA CancelFading ==
  ASSUME TypeOK, NEW c \in Calls, Cancel(c)
  PROVE  Fading
  <1> DEFINE i == inv[c]
             flagged == [i EXCEPT !.cancel = TRUE]
             p == Publish(flagged, "NOT_DELIVERED", "CANCEL_REQUESTED")
  <1>1. i \in State
    BY DEF TypeOK
  <1>2. inv' = inv \/ Update(c, flagged) \/ (i.phase = "queued" /\ (Update(c, p) \/ Update(c, Dropped(c, p))))
    BY DEF Cancel, Update
  <1> HIDE DEF i
  <1>3. flagged \in State /\ Fades(i, flagged) /\ flagged.phase = i.phase
    BY Zenon, <1>1, FlagResolves, FlagFades
  <1> HIDE DEF flagged
  <1>4. i.phase = "queued" => Fades(flagged, p)
    BY <1>3, PublishFades DEF Reports, Reasons
  <1> HIDE DEF p
  <1>5. i.phase = "queued" => Fades(i, p) /\ p \in State
    BY <1>3, <1>4, FadesTransitive DEF Fades, Resolves
  <1>6. i.phase = "queued" => Fades(i, Dropped(c, p))
    BY <1>5, DroppedFades, FadesTransitive
  <1> QED BY <1>2, <1>3, <1>5, <1>6, SameFading, UpdateFading DEF i

LEMMA SubmitFading ==
  ASSUME QInv, NEW c \in Calls,
         \/ install(c) \/ install_fails(c) \/ enqueue(c) \/ enqueue_fails(c) \/ recheck_cancel(c) \/ recheck_completed(c)
         \/ copyout(c) \/ copyout_fails(c) \/ enqueue_kernel(c)
  PROVE  Fading
  <1>1. TypeOK /\ inv[c] \in State
    BY CallFacts
  <1>2. CASE install(c)
    <2> DEFINE b == c \notin KernelCalls /\ inv[c].phase = "queued"
               j == [inv[c] EXCEPT !.owner = b]
    <2>1. Update(c, j)
      BY Zenon, <1>2 DEF install, Update
    <2>2. Fades(inv[c], j)
      BY Zenon, <1>1, FlagFades
    <2> HIDE DEF j
    <2> QED BY <1>1, <2>1, <2>2, UpdateFading
  <1>3. CASE install_fails(c) \/ enqueue(c) \/ copyout(c) \/ enqueue_kernel(c)
    BY <1>1, <1>3, SameFading DEF install_fails, enqueue, copyout, enqueue_kernel
  <1>4. CASE enqueue_fails(c)
    BY <1>1, <1>4, AbandonFades, UpdateFading, SameFading DEF enqueue_fails
  <1>5. CASE recheck_cancel(c) \/ copyout_fails(c)
    BY <1>1, <1>5, CancelFading, SameFading DEF recheck_cancel, copyout_fails
  <1>6. CASE recheck_completed(c)
    BY <1>1, <1>6, DroppedFades, UpdateFading, SameFading DEF recheck_completed
  <1> QED BY <1>2, <1>3, <1>4, <1>5, <1>6

LEMMA TimerFading ==
  ASSUME QInv, Timing
  PROVE  Fading
  <1>1. PICK c \in Calls : deadline_passes(c) \/ ExpireStep(c)
    BY DEF Timing
  <1>2. TypeOK /\ inv[c] \in State
    BY CallFacts
  <1>3. CASE deadline_passes(c) \/ expire_deadline(c) \/ expire_remove(c)
    BY <1>2, <1>3, SameFading DEF deadline_passes, expire_deadline, expire_remove
  <1>4. CASE expire_clear_owner(c)
    <2> DEFINE j == [inv[c] EXCEPT !.owner = FALSE]
    <2>1. Update(c, j)
      BY Zenon, <1>4 DEF expire_clear_owner, Update
    <2>2. Fades(inv[c], j)
      BY Zenon, <1>2, FlagFades
    <2> HIDE DEF j
    <2> QED BY <1>2, <2>1, <2>2, UpdateFading
  <1>5. CASE expire_removed(c)
    <2> DEFINE p == IF inv[c].phase = "queued" THEN Publish(inv[c], "NOT_DELIVERED", "OPERATION_DEADLINE") ELSE inv[c]
    <2>1. Fades(inv[c], p)
      BY <1>2, PublishFades, FadesItself DEF Reports, Reasons
    <2>2. Update(c, Dropped(c, p))
      BY <1>5 DEF expire_removed
    <2> HIDE DEF p
    <2>3. p \in State
      BY <2>1 DEF Fades, Resolves
    <2> QED BY <1>2, <2>1, <2>2, <2>3, DroppedFades, FadesTransitive, UpdateFading
  <1>6. CASE expire_finish(c)
    BY <1>2, <1>6, ExpireFades, UpdateFading DEF expire_finish
  <1> QED BY <1>1, <1>3, <1>4, <1>5, <1>6 DEF ExpireStep

LEMMA ReceiverFading ==
  ASSUME QInv, NEW r \in Receivers,
         \/ receive(r) \/ claim(r) \/ claim_fails(r) \/ cancel_claim(r) \/ activate(r) \/ commit_claim(r) \/ leave(r)
         \/ check_claimed(r) \/ discard_claimed(r) \/ close_delivered(r)
         \/ begin_receive(r) /\ ~ Receivable(inv[on[r]])
         \/ (rollback_receive(r) \/ finish_dispatch(r)) /\ inv[on[r]].phase # "receiving"
  PROVE  Fading
  <1> DEFINE c == on[r]
  <1>1. TypeOK /\ (pc[r] \in Holding => c \in Calls /\ inv[c] \in State)
    BY CallFacts
  <1> HIDE DEF c
  <1>2. CASE \/ receive(r) \/ claim(r) \/ claim_fails(r) \/ cancel_claim(r) \/ activate(r) \/ commit_claim(r) \/ leave(r)
             \/ (rollback_receive(r) \/ finish_dispatch(r)) /\ inv[c].phase # "receiving"
    BY ZenonT(20), <1>1, <1>2, SameFading
       DEF receive, claim, claim_fails, cancel_claim, activate, commit_claim, leave, rollback_receive, finish_dispatch, c
  <1>3. CASE check_claimed(r)
    BY ZenonT(20), <1>1, <1>3, ExpireFades, FadesItself, UpdateFading DEF check_claimed, At, Holding, c
  <1>4. CASE discard_claimed(r)
    BY ZenonT(30), <1>1, <1>4, DroppedFades, UpdateFading DEF discard_claimed, At, Holding, c
  <1>5. CASE close_delivered(r)
    BY ZenonT(20), <1>1, <1>5, AbandonFades, UpdateFading, SameFading DEF close_delivered, At, Holding, Delivered, c
  <1>6. CASE begin_receive(r) /\ ~ Receivable(inv[c])
    BY Zenon, <1>1, <1>6, BegunFades, UpdateFading DEF begin_receive, At, Holding, c
  <1> QED BY <1>2, <1>3, <1>4, <1>5, <1>6 DEF c

LEMMA ResponderFading ==
  ASSUME QInv, \/ \E w \in Workers : \/ consume_responder(w) \/ close_replied(w)
                                     \/ \E c \in Calls, how \in {"reply", "fail"} : respond(w, c, how)
               \/ \E c \in Calls : close_responder(c) \/ restrict_responder(c)
  PROVE  Fading
  <1>1. ASSUME NEW c \in Calls, close_responder(c) \/ restrict_responder(c)
        PROVE  Fading
    BY <1>1, CallFacts, AbandonFades, UpdateFading DEF close_responder, restrict_responder
  <1>2. ASSUME NEW w \in Workers, consume_responder(w) \/ close_replied(w)
        PROVE  Fading
    <2> DEFINE c == on[w]
    <2>1. TypeOK /\ c \in Calls /\ inv[c] \in State
      BY <1>2, CallFacts DEF consume_responder, close_replied, At
    <2> HIDE DEF c
    <2>2. CASE consume_responder(w)
      <3> DEFINE j == [inv[c] EXCEPT !.alive = FALSE]
      <3>1. Update(c, j)
        BY Zenon, <2>2 DEF consume_responder, Update, c
      <3>2. Fades(inv[c], j)
        BY Zenon, <2>1, FlagFades
      <3> HIDE DEF j
      <3> QED BY <2>1, <3>1, <3>2, UpdateFading
    <2>3. CASE close_replied(w)
      BY <2>1, <2>3, AbandonFades, UpdateFading, SameFading DEF close_replied, c
    <2> QED BY <1>2, <2>2, <2>3
  <1>3. ASSUME NEW w \in Workers, NEW c \in Calls, NEW how, respond(w, c, how)
        PROVE  Fading
    BY <1>3, SameFading DEF respond, QInv
  <1> QED BY <1>1, <1>2, <1>3
----------------------------------------------------------------------------
(* Every way a call ends *)

\* The implementation decides only what it has seen; the kernel reports
\* NOT_DELIVERED only for a request that nobody has seen or is about to see.
\* The exception is a taker that finds the deadline of a call expired.
Justified(c, o, r) ==
  \/ executed[c] /\ (o = "REPLY" \/ r = "UNSUPPORTED")
  \/ o = "OUTCOME_UNKNOWN" /\ r # "UNSUPPORTED"
  \/ o = "NOT_DELIVERED" /\ r # "UNSUPPORTED" /\ ~ executed[c] /\ ~ Arriving(c)
  \/ c \in Deadlined /\ Takers # {}

Evolves(c, j) ==
  /\ j.phase = inv[c].phase \/ Complete(j)
  /\ Complete(inv[c]) => Complete(j) /\ j.outcome = inv[c].outcome /\ j.reason = inv[c].reason
  /\ ~ Complete(inv[c]) /\ Complete(j) => Justified(c, j.outcome, j.reason) /\ j.outcome # "none" /\ j.phase = "ready" /\ ~ inv[c].client_closed
  /\ ~ Complete(j) => j.outcome = inv[c].outcome
  /\ inv[c].client_closed => j.client_closed
  /\ inv[c].phase = "consumed" => j.phase = "consumed"

Evolving == OneCall /\ \A c \in Calls : Evolves(c, inv'[c])

LEMMA EvolvesFades ==
  ASSUME DInv, NEW c \in Calls, NEW p, Evolves(c, p), NEW d, Fades(p, d)
  PROVE  Evolves(c, d)
  <1>1. inv[c].phase = "queued" => ~ executed[c] /\ ~ Arriving(c)
    BY DEF DInv, Delivery, Active, Arriving
  <1>2. CASE Complete(p)
    BY <1>2 DEF Evolves, Fades, Resolves, Complete
  <1>3. CASE ~ Complete(p)
    BY ZenonT(20), <1>1, <1>3 DEF Evolves, Fades, Resolves, Complete, Justified
  <1> QED BY <1>2, <1>3

LEMMA FadingEvolves ==
  ASSUME DInv, Fading
  PROVE  Evolving
  BY EvolvesFades DEF Fading, Evolving, Evolves

LEMMA UpdateEvolves ==
  ASSUME TypeOK, NEW c \in Calls, NEW j \in State, Update(c, j), Evolves(c, j)
  PROVE  Evolving
  <1>1. Touches(c) /\ inv'[c] = j
    BY UpdateTouches
  <1> QED BY <1>1 DEF Evolving, OneCall, Evolves, Touches

LEMMA PublishEvolves ==
  ASSUME NEW c \in Calls, inv[c] \in State, NEW o, NEW r, Justified(c, o, r), o # "none"
  PROVE  Evolves(c, Publish(inv[c], o, r))
  <1> DEFINE i == inv[c]
             p == [i EXCEPT !.phase = "ready", !.outcome = o, !.reason = r, !.response = (o = "REPLY")]
  <1>1. p.phase = "ready" /\ p.outcome = o /\ p.reason = r /\ p.client_closed = i.client_closed
    BY Zenon DEF State
  <1>2. Publish(i, o, r) = i \/ (~ Complete(i) /\ ~ i.client_closed /\ Publish(i, o, r) = p)
    BY DEF Publish
  <1> HIDE DEF p
  <1> QED BY <1>1, <1>2 DEF Evolves, Complete

\* A request in the queue is shown by the receive that holds it, and a
\* request that left the queue by nobody.
LEMMA NobodySees ==
  ASSUME QInv, DInv, NEW c \in Calls,
         \/ c \in discarded
         \/ \E r \in Receivers : on[r] = c /\ pc[r] = "cancelled"
  PROVE  ~ executed[c] /\ ~ Arriving(c)
  <1>1. c \notin KernelCalls /\ ~ \E k \in KernelWorkers : on[k] = c /\ pc[k] = "begun"
    <2>1. c \notin KernelCalls
      BY CallFacts DEF QInv, Queue, Holding
    <2> QED BY <2>1 DEF QInv, Submitted
  <1>2. \A r \in Receivers : pc[r] \in Holding => InQueue(on[r]) /\ on[r] \notin discarded
    <2>1. \A r \in Receivers : pc[r] \in Holding => InQueue(on[r])
      BY CallFacts
    <2> QED BY <2>1 DEF QInv, Queue, InQueue
  <1>3. CASE c \in discarded
    <2>1. ~ \E r \in Receivers : on[r] = c /\ pc[r] = "receiving"
      BY <1>2, <1>3 DEF Holding
    <2> QED BY <1>1, <1>3, <2>1 DEF Arriving, DInv, Delivery
  <1>4. CASE \E r \in Receivers : on[r] = c /\ pc[r] = "cancelled"
    <2>1. PICK r \in Receivers : on[r] = c /\ pc[r] = "cancelled"
      BY <1>4
    <2>2. \A s \in Receivers : pc[s] \in Holding => s = r
      BY <2>1 DEF QInv, Claim, Holding
    <2>3. ~ \E s \in Receivers : pc[s] = "receiving" \/ pc[s] \in Delivered
      BY <2>1, <2>2 DEF Holding, Delivered
    <2>4. InQueue(c)
      BY <1>2, <2>1 DEF Holding
    <2> QED BY <1>1, <2>3, <2>4 DEF Arriving, DInv, Delivery
  <1> QED BY <1>3, <1>4

LEMMA DecidedEvolves ==
  ASSUME QInv, DInv,
         \/ \E r \in Receivers : rollback_cancelled(r)
         \/ \E c \in Calls : complete_discarded(c)
         \/ \E w \in Workers : complete_reply(w) \/ \E o \in {"NOT_DELIVERED", "OUTCOME_UNKNOWN"} : complete_failure(w, o)
         \/ \E k \in KernelWorkers : kernel_handler(k) \/ execute_kernel_dispatch(k) \/ restore_fails(k)
  PROVE  Evolving
  <1>0. TypeOK /\ \A c \in Calls : inv[c] \in State
    BY CallFacts
  <1>1. ASSUME NEW c \in Calls, NEW o \in Outcomes \ {"none"}, NEW r \in Reasons, Justified(c, o, r), Update(c, Publish(inv[c], o, r))
        PROVE  Evolving
    <2>1. Publish(inv[c], o, r) \in State
      BY <1>0, PublishResolves DEF Resolves
    <2> QED BY <1>0, <1>1, <2>1, PublishEvolves, UpdateEvolves
  <1>2. ASSUME NEW r \in Receivers, rollback_cancelled(r)
        PROVE  Evolving
    <2>1. on[r] \in Calls /\ pc[r] = "cancelled" /\ Update(on[r], Publish(inv[on[r]], "NOT_DELIVERED", "CANCEL_REQUESTED"))
      BY ZenonT(20), <1>2, CallFacts DEF rollback_cancelled, At, Holding
    <2>2. Justified(on[r], "NOT_DELIVERED", "CANCEL_REQUESTED")
      BY <2>1, NobodySees DEF Justified
    <2> QED BY <1>1, <2>1, <2>2 DEF Outcomes, Reasons
  <1>3. ASSUME NEW c \in Calls, complete_discarded(c)
        PROVE  Evolving
    <2> DEFINE p == Publish(inv[c], "NOT_DELIVERED", "PEER_CLOSED")
    <2>1. c \in discarded /\ Update(c, Dropped(c, p))
      BY ZenonT(20), <1>3 DEF complete_discarded
    <2>2. Justified(c, "NOT_DELIVERED", "PEER_CLOSED")
      BY ZenonT(30), <2>1, NobodySees DEF Justified
    <2>3. Evolves(c, p) /\ p \in State
      BY Zenon, <1>0, <2>2, PublishEvolves, PublishResolves DEF Resolves, Outcomes, Reasons
    <2> HIDE DEF p
    <2>4. Fades(p, Dropped(c, p))
      BY <2>3, DroppedFades
    <2>5. Evolves(c, Dropped(c, p)) /\ Dropped(c, p) \in State
      BY ZenonT(20), <2>3, <2>4, EvolvesFades DEF Fades, Resolves
    <2> QED BY <1>0, <2>1, <2>5, UpdateEvolves
  <1>4. ASSUME NEW w \in Workers, complete_reply(w) \/ \E o \in {"NOT_DELIVERED", "OUTCOME_UNKNOWN"} : complete_failure(w, o)
        PROVE  Evolving
    <2>1. pc[w] # "idle"
      BY Zenon, <1>4 DEF complete_reply, complete_failure, At
    <2>2. on[w] \in Calls /\ executed[on[w]]
      BY ZenonT(20), <2>1, CallFacts DEF DInv, Servers
    <2>3. inv' = inv \/ \E o \in Outcomes \ {"none"} : \E r \in Reasons :
            (o = "REPLY" \/ r = "UNSUPPORTED") /\ Update(on[w], Publish(inv[on[w]], o, r))
      BY Zenon, <1>4 DEF complete_reply, complete_failure, Outcomes, Reasons
    <2>4. CASE inv' = inv
      BY <1>0, <2>4, SameFading, FadingEvolves
    <2> QED BY Zenon, <1>1, <2>2, <2>3, <2>4 DEF Justified
  <1>5. ASSUME NEW k \in KernelWorkers, kernel_handler(k) \/ execute_kernel_dispatch(k) \/ restore_fails(k)
        PROVE  Evolving
    <2>1. pc[k] \in Executing /\ pc[k] # "idle"
      BY ZenonT(20), <1>5 DEF kernel_handler, execute_kernel_dispatch, restore_fails, At, Executing
    <2>2. on[k] \in Calls /\ executed[on[k]]
      BY Zenon, <2>1, CallFacts DEF DInv, Servers
    <2>3. \/ inv' = inv \/ Update(on[k], inv[on[k]]) \/ Update(on[k], Publish(inv[on[k]], "REPLY", "none"))
          \/ Update(on[k], Publish(inv[on[k]], "OUTCOME_UNKNOWN", "CANCEL_REQUESTED"))
      BY <1>5 DEF kernel_handler, execute_kernel_dispatch, restore_fails
    <2>4. CASE inv' = inv
      BY <1>0, <2>4, SameFading, FadingEvolves
    <2>5. CASE Update(on[k], inv[on[k]])
      BY <1>0, <2>2, <2>5, FadesItself, UpdateFading, FadingEvolves
    <2>6. Justified(on[k], "REPLY", "none") /\ Justified(on[k], "OUTCOME_UNKNOWN", "CANCEL_REQUESTED")
      BY <2>2 DEF Justified
    <2> QED BY <1>1, <2>2, <2>3, <2>4, <2>5, <2>6 DEF Outcomes, Reasons
  <1> QED BY <1>2, <1>3, <1>4, <1>5

\* Closing a client, giving its budget back and handing a result over or back
\* leave the result as it is.
LEMMA ClosesEvolves ==
  ASSUME QInv, NEW c \in Calls, close_client(c) \/ destroy_state(c)
  PROVE  Evolving
  <1> DEFINE i == inv[c]
             j == [i EXCEPT !.client_closed = TRUE, !.response = FALSE, !.budget = FALSE]
             k == [i EXCEPT !.budget = FALSE]
  <1>1. i \in State /\ TypeOK
    BY CallFacts
  <1>2. Update(c, j) \/ Update(c, k)
    BY Zenon DEF close_client, destroy_state, Update
  <1> HIDE DEF i
  <1>3. /\ j \in State /\ j.phase = i.phase /\ j.outcome = i.outcome /\ j.reason = i.reason /\ j.client_closed
        /\ k \in State /\ k.phase = i.phase /\ k.outcome = i.outcome /\ k.reason = i.reason /\ k.client_closed = i.client_closed
    BY Zenon, <1>1 DEF State
  <1> HIDE DEF j, k
  <1>4. Evolves(c, j) /\ Evolves(c, k)
    BY <1>3 DEF Evolves, Complete, i
  <1> QED BY <1>1, <1>2, <1>3, <1>4, UpdateEvolves

\* A taker may end a call by itself.
LEMMA PolledEvolves ==
  ASSUME QInv, DInv, NEW c \in Calls, Takers # {}
  PROVE  Evolves(c, Polled(c))
  <1>1. inv[c] \in State
    BY CallFacts
  <1>2. expired[c] => Justified(c, "NOT_DELIVERED", "OPERATION_DEADLINE") /\ Justified(c, "OUTCOME_UNKNOWN", "OPERATION_DEADLINE")
    BY DEF Justified, DInv, Delivery
  <1>3. Evolves(c, inv[c])
    BY DEF Evolves
  <1> QED BY <1>1, <1>2, <1>3, PublishEvolves DEF Polled

LEMMA TakerEvolves ==
  ASSUME QInv, DInv, Taking
  PROVE  Evolving
  <1>1. PICK t \in Takers : TakeStep(t) \/ \E c \in Calls : take_result(t, c)
    BY DEF Taking
  <1> DEFINE c == on[t]
             i == inv[c]
             p == Polled(c)
             j == [p EXCEPT !.result_claimed = TRUE, !.response = FALSE]
             back == [i EXCEPT !.response = got[t], !.result_claimed = FALSE]
             out == [i EXCEPT !.phase = "consumed", !.result_claimed = FALSE, !.response = FALSE, !.budget = FALSE]
  <1>2. CASE inv' = inv
    BY <1>2, SameFading, FadingEvolves DEF QInv
  <1>3. CASE inv' # inv
    <2>1. pc[t] # "idle"
      BY ZenonT(30), <1>1, <1>3 DEF TakeStep, take_result, claim_result, claim_result_fails, restore_result, commit_result, At
    <2>2. c \in Calls /\ i \in State /\ got[t] \in BOOLEAN /\ TypeOK
      BY <2>1, CallFacts DEF TypeOK
    <2>3. Evolves(c, p) /\ p \in State
      BY <2>2, PolledEvolves, PolledResolves DEF Resolves
    <2>4. Update(c, j) \/ Update(c, p) \/ (i.phase = "ready" /\ (Update(c, back) \/ Update(c, out)))
      BY Zenon, <1>1, <1>3 DEF TakeStep, take_result, claim_result, claim_result_fails, restore_result, commit_result, Update
    <2> HIDE DEF p, i
    <2>5. /\ j \in State /\ j.phase = p.phase /\ j.outcome = p.outcome /\ j.reason = p.reason /\ j.client_closed = p.client_closed
          /\ back \in State /\ back.phase = i.phase /\ back.outcome = i.outcome /\ back.reason = i.reason
          /\ out \in State /\ out.phase = "consumed" /\ out.outcome = i.outcome /\ out.reason = i.reason
          /\ back.client_closed = i.client_closed /\ out.client_closed = i.client_closed
      BY ZenonT(30), <2>2, <2>3 DEF State, Phases
    <2> HIDE DEF j, back, out
    <2>6. Evolves(c, j)
      BY <2>3, <2>5 DEF Evolves, Complete
    <2>7. i.phase = "ready" => Evolves(c, back) /\ Evolves(c, out)
      BY <2>5 DEF Evolves, Complete, i
    <2> HIDE DEF c
    <2> QED BY ZenonT(20), <2>2, <2>3, <2>4, <2>5, <2>6, <2>7, UpdateEvolves
  <1> QED BY <1>2, <1>3

\* The steps that take a call from its caller, give it back, or show it.
Turning(r) ==
  \/ begin_receive(r) /\ Receivable(inv[on[r]])
  \/ (rollback_receive(r) \/ finish_dispatch(r)) /\ inv[on[r]].phase = "receiving"

KernelTurning(k) ==
  \/ kernel_begin(k) /\ Receivable(inv[on[k]])
  \/ mark_dispatched(k)

LEMMA NextEvolves ==
  ASSUME QInv, DInv, Next
  PROVE  \/ Evolving
         \/ \E c \in Calls : submit(c)
         \/ \E r \in Receivers : Turning(r)
         \/ \E k \in KernelWorkers : KernelTurning(k)
  <1>0. TypeOK
    BY DEF QInv
  <1>1. ASSUME Submitting
        PROVE  Evolving \/ \E c \in Calls : submit(c)
    <2>1. PICK c \in Calls : submit(c) \/ SubmitStep(c) \/ enqueue_kernel(c)
      BY <1>1, InvocationConstants DEF Submitting
    <2>2. CASE destroy_state(c)
      BY <2>2, ClosesEvolves
    <2>3. CASE submit_closes(c)
      <3>1. close_client(c) \/ inv' = inv
        BY <2>3 DEF submit_closes
      <3> QED BY <1>0, <3>1, ClosesEvolves, SameFading, FadingEvolves
    <2> QED BY <2>1, <2>2, <2>3, SubmitFading, FadingEvolves DEF SubmitStep
  <1>2. ASSUME Calling
        PROVE  Evolving
    <2>1. PICK c \in Calls : ClientStep(c)
      BY <1>2 DEF Calling
    <2>2. Cancel(c) \/ close_client(c)
      BY <2>1 DEF ClientStep, invocation_cancel, close_invocation, restrict_invocation
    <2> QED BY <1>0, <2>2, CancelFading, FadingEvolves, ClosesEvolves
  <1>3. ASSUME Receiving
        PROVE  Evolving \/ \E r \in Receivers : Turning(r)
    <2>1. PICK r \in Receivers : receive(r) \/ ReceiveStep(r)
      BY <1>3 DEF Receiving
    <2>2. CASE rollback_cancelled(r)
      BY <2>2, DecidedEvolves
    <2>3. CASE ~ rollback_cancelled(r) /\ ~ Turning(r)
      <3>1. Fading
        BY Zenon, <2>1, <2>3, ReceiverFading DEF ReceiveStep, Turning
      <3> QED BY ZenonT(20), <3>1, FadingEvolves
    <2> QED BY <2>2, <2>3
  <1>4. ASSUME Serving
        PROVE  Evolving
    BY <1>0, <1>4, DecidedEvolves, SameFading, FadingEvolves DEF Serving, release_server, close_server_queue
  <1>5. ASSUME Responding
        PROVE  Evolving
    <2>1. CASE \E w \in Workers : complete_reply(w) \/ \E o \in {"NOT_DELIVERED", "OUTCOME_UNKNOWN"} : complete_failure(w, o)
      BY <2>1, DecidedEvolves
    <2>2. CASE ~ \E w \in Workers : complete_reply(w) \/ \E o \in {"NOT_DELIVERED", "OUTCOME_UNKNOWN"} : complete_failure(w, o)
      <3>1. Fading
        BY <1>5, <2>2, ResponderFading DEF Responding, RespondStep
      <3> QED BY <3>1, FadingEvolves
    <2> QED BY <2>1, <2>2
  <1>6. ASSUME Dispatching
        PROVE  Evolving \/ \E k \in KernelWorkers : KernelTurning(k)
    <2>1. PICK k \in KernelWorkers : KernelStep(k)
      BY <1>6 DEF Dispatching
    <2>2. CASE pop(k)
      BY <1>0, <2>2, SameFading, FadingEvolves DEF pop
    <2>3. CASE kernel_begin(k) /\ ~ Receivable(inv[on[k]])
      <3>1. on[k] \in Calls /\ inv[on[k]] \in State /\ Update(on[k], Begun(inv[on[k]]))
        BY <2>3, CallFacts DEF kernel_begin, At
      <3> QED BY ZenonT(20), <1>0, <2>3, <3>1, BegunFades, UpdateFading, FadingEvolves
    <2>4. CASE kernel_handler(k) \/ execute_kernel_dispatch(k) \/ restore_fails(k)
      BY <2>4, DecidedEvolves
    <2> QED BY <2>1, <2>2, <2>3, <2>4 DEF KernelStep, KernelTurning
  <1> QED BY <1>1, <1>2, <1>3, <1>4, <1>5, <1>6, TimerFading, FadingEvolves, TakerEvolves, NextParties
----------------------------------------------------------------------------
(* What the threads carry *)

\* Only a kernel worker moves a kernel worker.
LEMMA KernelApart ==
  ASSUME QInv, Next, ~ Dispatching, NEW k \in KernelWorkers
  PROVE  pc'[k] = pc[k] /\ on'[k] = on[k]
  <1>0. k \in Threads /\ k \notin Receivers /\ k \notin Workers /\ k \notin Takers
    BY InvocationConstants DEF Threads
  <1>1. CASE Submitting \/ Timing \/ Calling \/ Serving
    BY <1>1, Frames DEF submitRest, timerRest
  <1>2. CASE Receiving
    BY ZenonT(20), <1>0, <1>2, ReceiverMoves DEF Receiving, Moved
  <1>3. CASE Responding
    <2>1. CASE \E c \in Calls : close_responder(c) \/ restrict_responder(c)
      BY <2>1 DEF close_responder, restrict_responder
    <2>2. CASE \E w \in Workers : RespondStep(w) \/ \E c \in Calls, how \in {"reply", "fail"} : respond(w, c, how)
      <3>1. PICK w \in Workers : \E s, c : Moved(w, s, c)
        BY Zenon, <2>2, WorkerMoves
      <3> QED BY <1>0, <3>1 DEF Moved
    <2> QED BY <1>3, <2>1, <2>2 DEF Responding
  <1>4. CASE Taking
    <2>1. PICK t \in Takers : \E s, c : Moved(t, s, c)
      BY Zenon, <1>4, TakerMoves DEF Taking
    <2> QED BY <1>0, <2>1 DEF Moved
  <1> QED BY <1>1, <1>2, <1>3, <1>4, NextParties

\* A call that a thread carries was queued.
LEMMA ActiveQueued ==
  ASSUME QInv, NEW c \in Calls, Active(c)
  PROVE  sub[c] \notin Unqueued
  <1>1. CASE \E r \in Receivers : on[r] = c /\ pc[r] \in {"receiving"} \cup Delivered
    <2>1. InQueue(c)
      BY <1>1, CallFacts DEF Holding
    <2> QED BY <2>1 DEF QInv, Queue
  <1>2. CASE \E k \in KernelWorkers : on[k] = c /\ pc[k] \in {"begun"} \cup Executing
    BY <1>2 DEF QInv, Submitted, Executing
  <1> QED BY <1>1, <1>2 DEF Active

\* A receive that carries a request is the only thread that does.
LEMMA OnlyCarrier ==
  ASSUME QInv, NEW r \in Receivers, pc[r] \in Holding
  PROVE  /\ on[r] \in Calls /\ InQueue(on[r]) /\ on[r] \notin KernelCalls
         /\ on[r] \notin discarded /\ timer[on[r]] \notin Removed
         /\ \A s \in Receivers \ {r} : pc[s] \notin Holding
         /\ \A k \in KernelWorkers : pc[k] # "idle" => on[k] # on[r]
  <1>1. on[r] \in Calls /\ InQueue(on[r])
    BY CallFacts
  <1>2. on[r] \notin KernelCalls /\ on[r] \notin discarded /\ timer[on[r]] \notin Removed
    BY <1>1 DEF QInv, Queue, InQueue
  <1>3. \A s \in Receivers \ {r} : pc[s] \notin Holding
    BY DEF QInv, Claim
  <1>4. \A k \in KernelWorkers : pc[k] # "idle" => on[k] # on[r]
    BY <1>2 DEF QInv, Submitted
  <1> QED BY <1>1, <1>2, <1>3, <1>4

\* A request that was shown does not leave the queue under its receive.
LEMMA ShownStays ==
  ASSUME QInv, DInv, Next, NEW c \in Calls, c \in discarded' \/ timer'[c] \in Removed
  PROVE  ~ executed[c]
  <1> SUFFICES ASSUME executed[c]
               PROVE  FALSE
    OBVIOUS
  <1>1. c \notin discarded /\ timer[c] \notin Removed
    BY DEF DInv, Delivery
  <1>2. CASE c \in discarded'
    <2>1. InQueue(c) /\ ~ InQueue(c)'
      BY <1>1, <1>2, QueueMembers
    <2>2. PICK r \in Receivers : on[r] = c /\ pc[r] \in Delivered
      BY <2>1 DEF DInv, Delivery
    <2>3. pc[r] \in Holding /\ claimed
      BY <2>2 DEF Holding, QInv, Claim
    <2>4. CASE Receiving
      <3>1. PICK t \in Receivers : receive(t) \/ ReceiveStep(t)
        BY <2>4 DEF Receiving
      <3>2. CASE leave(t)
        BY ZenonT(20), <1>1, <1>2, <2>3, <3>2 DEF leave, Drain
      <3>3. discarded' = discarded \/ leave(t)
        BY <3>1 DEF receive, ReceiveStep, claim, claim_fails, check_claimed, discard_claimed, cancel_claim, begin_receive,
           rollback_receive, rollback_cancelled, activate, finish_dispatch, close_delivered, commit_claim, PopClaimed, queueVars
      <3> QED BY <1>1, <1>2, <3>2, <3>3
    <2>5. CASE ~ Receiving
      <3>1. fifo # <<>> /\ fifo[1] = c
        BY <2>2, <2>3 DEF QInv, Claim
      <3>2. fifo' # <<>> /\ fifo'[1] = c /\ fifo' \in Seq(Calls)
        BY <2>3, <2>5, <3>1, HeadStays, QueueTyped
      <3>3. 1 \in 1 .. Len(fifo')
        BY <3>2
      <3> QED BY <2>1, <3>2, <3>3 DEF InQueue
    <2> QED BY <2>4, <2>5
  <1>3. CASE timer'[c] \in Removed
    <2>1. Removable(c)
      BY ZenonT(20), <1>1, <1>3, TimerRemoves
    <2>2. PICK r \in Receivers : on[r] = c /\ pc[r] \in Delivered
      BY ZenonT(20), <2>1 DEF DInv, Delivery, Removable
    <2>3. claimed /\ fifo # <<>> /\ c = fifo[1]
      BY <2>2 DEF Holding, QInv, Claim
    <2> QED BY <2>1, <2>3 DEF Removable
  <1> QED BY <1>2, <1>3

\* Only a receive puts a Responder into a table.
Tabled == \A c \in Calls : responder'[c] = "table" => responder[c] = "table"

LEMMA TableStep ==
  ASSUME QInv, Next
  PROVE  Tabled \/ \E r \in Receivers : activate(r)
  <1>0. responder \in [Calls -> ResponderPlaces]
    BY DEF QInv, TypeOK
  <1>1. ASSUME NEW c \in Calls, NEW p \in {"request", "gone"}, Responder(c, p) \/ responder' = [responder EXCEPT ![c] = p]
        PROVE  Tabled
    BY <1>0, <1>1 DEF Responder, Tabled
  <1>2. responder' = responder => Tabled
    BY DEF Tabled
  <1>3. CASE Submitting
    <2>1. PICK c \in Calls : submit(c) \/ SubmitStep(c) \/ enqueue_kernel(c)
      BY <1>3, InvocationConstants DEF Submitting
    <2>2. CASE recheck_cancel(c) \/ copyout_fails(c)
      BY <1>1, <1>2, <2>2, CancelQueue DEF recheck_cancel, copyout_fails
    <2> QED BY <1>1, <1>2, <2>1, <2>2 DEF SubmitStep, submit, install, install_fails, destroy_state, enqueue, enqueue_fails,
         recheck_completed, enqueue_kernel, copyout, submit_closes
  <1>4. CASE Timing
    BY <1>1, <1>2, <1>4 DEF Timing, ExpireStep, deadline_passes, expire_deadline, expire_remove, expire_clear_owner,
       expire_removed, expire_finish
  <1>5. CASE Calling
    BY <1>1, <1>2, <1>5, CancelQueue DEF Calling, ClientStep, invocation_cancel, close_invocation, restrict_invocation
  <1>6. CASE Receiving
    <2>1. PICK r \in Receivers : receive(r) \/ ReceiveStep(r)
      BY <1>6 DEF Receiving
    <2>2. CASE discard_claimed(r) \/ close_delivered(r)
      <3>1. on[r] \in Calls
        BY Zenon, <2>2, CallFacts DEF discard_claimed, close_delivered, At, Holding, Delivered
      <3> QED BY Zenon, <1>1, <1>2, <2>2, <3>1 DEF discard_claimed, close_delivered
    <2> QED BY <1>2, <2>1, <2>2 DEF ReceiveStep, receive, claim, claim_fails, check_claimed, cancel_claim, begin_receive,
         rollback_receive, rollback_cancelled, finish_dispatch, commit_claim, leave
  <1>7. CASE Serving
    BY <1>1, <1>2, <1>7 DEF Serving, release_server, close_server_queue, complete_discarded
  <1>8. CASE Responding
    <2>1. ASSUME NEW w \in Workers, RespondStep(w)
          PROVE  Tabled
      <3>1. on[w] \in Calls
        BY <2>1, CallFacts DEF RespondStep, complete_reply, complete_failure, consume_responder, close_replied, At
      <3>2. responder' = responder \/ responder' = [responder EXCEPT ![on[w]] = "gone"]
        BY <2>1 DEF RespondStep, complete_reply, complete_failure, consume_responder, close_replied
      <3> QED BY Zenon, <1>1, <1>2, <3>1, <3>2
    <2> QED BY <1>1, <1>2, <1>8, <2>1 DEF Responding, respond, close_responder, restrict_responder
  <1>9. CASE Taking \/ Dispatching
    BY <1>2, <1>9, Frames DEF kernelRest
  <1> QED BY <1>3, <1>4, <1>5, <1>6, <1>7, <1>8, <1>9, NextParties

\* Only a call with an operation budget expires.
LEMMA ExpiresStep ==
  ASSUME QInv, Next, NEW c \in Calls, expired'[c]
  PROVE  expired[c] \/ c \in Deadlined
  <1>1. CASE Timing
    <2>1. expired' = expired \/ \E d \in Deadlined : expired' = [expired EXCEPT ![d] = TRUE]
      BY <1>1 DEF Timing, ExpireStep, deadline_passes, expire_deadline, expire_remove, expire_clear_owner, expire_removed,
         expire_finish, TimerStep
    <2> QED BY Zenon, <2>1 DEF QInv, TypeOK
  <1>2. CASE ~ Timing
    BY <1>2, NextParties, Frames DEF submitRest, clientRest, receiveRest, responderRest, kernelRest
  <1> QED BY <1>1, <1>2

\* A call that the step neither shows nor takes from its caller, with the
\* threads that carry it.
Calm(c) ==
  /\ executed'[c] = executed[c]
  /\ inv'[c].phase = inv[c].phase \/ Complete(inv'[c]) \/ submit(c)
  /\ Active(c)' => Active(c)
  /\ inv'[c].phase = "receiving" /\ inv[c].phase = "receiving" =>
       (Arriving(c) \/ \E r \in Receivers : on[r] = c /\ pc[r] = "activated")'
  /\ InQueue(c)' /\ (\E r \in Receivers : on[r] = c /\ pc[r] \in Delivered)
       => \E r \in Receivers : on'[r] = c /\ pc'[r] \in Delivered

LEMMA DeliveryStays ==
  ASSUME QInv, DInv, Next, NEW c \in Calls, Calm(c), responder'[c] = "table" => responder[c] = "table"
  PROVE  Delivery(c)'
  <1>0. Delivery(c) /\ inv[c] \in State
    BY Zenon, CallFacts DEF DInv
  <1>1. executed'[c] = executed[c] /\ (inv'[c].phase = inv[c].phase \/ Complete(inv'[c]) \/ submit(c))
    BY Zenon DEF Calm
  <1>2. submit(c) => sub[c] = "idle" /\ ~ executed[c] /\ inv'[c].phase = "queued" /\ ~ Active(c)
    <2>1. ASSUME submit(c)
          PROVE  sub[c] = "idle" /\ inv'[c].phase = "queued"
      <3> DEFINE j == [Unsubmitted EXCEPT !.phase = "queued", !.budget = (c \notin Oneway)]
      <3>1. inv' = [inv EXCEPT ![c] = j] /\ sub[c] = "idle"
        BY <2>1 DEF submit, Step, Update
      <3>2. j.phase = "queued"
        BY ZenonT(30) DEF Unsubmitted
      <3> HIDE DEF j
      <3> QED BY <3>1, <3>2 DEF QInv, TypeOK
    <2>2. sub[c] = "idle" => ~ executed[c] /\ ~ Active(c)
      BY ZenonT(30), <1>0, ActiveQueued DEF Delivery, Unqueued
    <2> QED BY Zenon, <2>1, <2>2
  <1>3. executed'[c] => inv'[c].phase \notin {"none", "queued"} /\ sub'[c] \notin Unqueued
    <2>1. TypeOK
      BY DEF QInv
    <2>2. executed[c] => inv[c].phase \notin {"none", "queued"} /\ sub'[c] \notin Unqueued
      BY ZenonT(30), <1>0, <2>1, Advances DEF Delivery
    <2> QED BY <1>1, <1>2, <2>2 DEF Complete
  <1>4. inv'[c].phase = "dispatched" => executed'[c]
    BY Zenon, <1>0, <1>1, <1>2 DEF Delivery, Complete
  <1>5. inv'[c].phase = "queued" => ~ Active(c)'
    BY Zenon, <1>0, <1>1, <1>2 DEF Delivery, Complete, Calm
  <1>6. inv'[c].phase = "receiving" => (Arriving(c) \/ \E r \in Receivers : on[r] = c /\ pc[r] = "activated")'
    <2>1. inv'[c].phase = "receiving" => inv[c].phase = "receiving"
      BY ZenonT(30), <1>1, <1>2 DEF Complete
    <2> QED BY Zenon, <2>1 DEF Calm
  <1>7. (responder'[c] = "table" => executed'[c]) /\ (expired'[c] => c \in Deadlined)
    BY Zenon, <1>0, <1>1, ExpiresStep DEF Delivery
  <1>8. c \in discarded' \/ timer'[c] \in Removed => ~ executed'[c]
    BY <1>1, ShownStays
  <1>9. executed'[c] /\ InQueue(c)' => \E r \in Receivers : on'[r] = c /\ pc'[r] \in Delivered
    <2>1. executed[c] /\ InQueue(c)' => InQueue(c)
      <3>1. enqueue(c) => ~ executed[c]
        BY Zenon, <1>0 DEF enqueue, Step, Delivery, Unqueued
      <3> QED BY ZenonT(30), <3>1, QueueMembers
    <2> QED BY Zenon, <1>0, <1>1, <2>1 DEF Delivery, Calm
  <1> QED BY Zenon, <1>3, <1>4, <1>5, <1>6, <1>7, <1>8, <1>9 DEF Delivery
----------------------------------------------------------------------------
(* A call is shown once *)

LEMMA ShowsStep ==
  ASSUME QInv, Next
  PROVE  \/ executed' = executed
         \/ \E r \in Receivers : activate(r)
         \/ \E k \in KernelWorkers : mark_dispatched(k)
  <1>1. CASE Receiving
    BY <1>1 DEF Receiving, receive, ReceiveStep, claim, claim_fails, check_claimed, discard_claimed, cancel_claim, begin_receive,
       rollback_receive, rollback_cancelled, finish_dispatch, close_delivered, commit_claim, leave
  <1>2. CASE Dispatching
    BY <1>2 DEF Dispatching, KernelStep, pop, kernel_begin, kernel_handler, execute_kernel_dispatch, restore_fails
  <1>3. CASE ~ Receiving /\ ~ Dispatching
    BY <1>3, NextParties, Frames DEF submitRest, timerRest, clientRest, responderRest
  <1> QED BY <1>1, <1>2, <1>3

\* A worker answers a call that its Responder was delivered with.
LEMMA WorkersCarry ==
  ASSUME QInv, DInv, Next, NEW w \in Workers, pc'[w] # "idle"
  PROVE  executed[on'[w]]
  <1>0. w \in Threads /\ w \notin Receivers /\ w \notin KernelWorkers /\ w \notin Takers /\ ThreadsOK
    BY InvocationConstants DEF Threads, QInv
  <1>1. pc[w] # "idle" => executed[on[w]]
    BY DEF DInv, Servers
  <1>2. CASE pc'[w] = pc[w] /\ on'[w] = on[w]
    BY <1>1, <1>2
  <1>3. CASE Submitting \/ Timing \/ Calling \/ Serving
    BY <1>2, <1>3, Frames DEF submitRest, timerRest
  <1>4. CASE Receiving
    BY ZenonT(20), <1>0, <1>2, <1>4, ReceiverMoves DEF Receiving, Moved
  <1>5. CASE Dispatching
    <2>1. PICK k \in KernelWorkers : \E s, c : Moved(k, s, c)
      BY Zenon, <1>5, KernelMoves DEF Dispatching
    <2> QED BY <1>0, <1>2, <2>1 DEF Moved
  <1>6. CASE Taking
    <2>1. PICK t \in Takers : \E s, c : Moved(t, s, c)
      BY ZenonT(30), <1>6, TakerMoves DEF Taking
    <2> QED BY <1>0, <1>2, <2>1 DEF Moved
  <1>7. CASE \E c \in Calls : close_responder(c) \/ restrict_responder(c)
    BY Zenon, <1>2, <1>7 DEF close_responder, restrict_responder
  <1>8. ASSUME NEW v \in Workers, RespondStep(v)
        PROVE  executed[on'[w]]
    <2>1. pc[v] # "idle" /\ (Return(v) \/ \E s : Goto(v, s))
      BY <1>8 DEF RespondStep, complete_reply, complete_failure, consume_responder, close_replied, At
    <2>2. Moved(v, "idle", NoCall) \/ \E s : Moved(v, s, on[v])
      <3>1. v \in Threads
        BY DEF Threads
      <3> QED BY <1>0, <2>1, <3>1, Moving
    <2>3. CASE w = v
      BY ZenonT(20), <1>1, <2>1, <2>2, <2>3 DEF Moved
    <2>4. CASE w # v
      BY Zenon, <1>0, <1>2, <2>2, <2>4 DEF Moved
    <2> QED BY <2>3, <2>4
  <1>9. ASSUME NEW v \in Workers, NEW c \in Calls, NEW how, respond(v, c, how)
        PROVE  executed[on'[w]]
    <2>1. executed[c] /\ Pick(v, how, c)
      BY ZenonT(20), <1>9 DEF respond, DInv, Delivery
    <2>2. Moved(v, how, c)
      BY ZenonT(30), <1>0, <2>1, Moving DEF Threads
    <2>3. CASE w = v
      BY <2>1, <2>2, <2>3 DEF Moved
    <2>4. CASE w # v
      BY <1>0, <1>2, <2>2, <2>4 DEF Moved
    <2> QED BY ZenonT(20), <2>3, <2>4
  <1> QED BY Zenon, <1>3, <1>4, <1>5, <1>6, <1>7, <1>8, <1>9, NextParties DEF Responding

PhaseTo(c, p) ==
  /\ Touches(c) /\ ~ Complete(inv[c]) /\ inv'[c].phase = p
  /\ inv'[c].outcome = inv[c].outcome /\ inv'[c].reason = inv[c].reason /\ inv'[c].client_closed = inv[c].client_closed

LEMMA PhaseChange ==
  ASSUME QInv, NEW c \in Calls, ~ Complete(inv[c]), NEW p \in {"queued", "receiving", "dispatched"},
         Update(c, [inv[c] EXCEPT !.phase = p])
  PROVE  PhaseTo(c, p)
  <1> DEFINE j == [inv[c] EXCEPT !.phase = p]
  <1>1. inv[c] \in State /\ TypeOK
    BY CallFacts
  <1>2. j \in State /\ j.phase = p /\ j.outcome = inv[c].outcome /\ j.reason = inv[c].reason /\ j.client_closed = inv[c].client_closed
    BY Zenon, <1>1, PhaseResolves DEF State
  <1> HIDE DEF j
  <1>3. Touches(c) /\ inv'[c] = j
    BY <1>1, <1>2, UpdateTouches DEF j
  <1> QED BY <1>2, <1>3 DEF PhaseTo

LEMMA TurningCall ==
  ASSUME QInv, NEW r \in Receivers, Turning(r)
  PROVE  /\ on[r] \in Calls /\ pc[r] \in Holding
         /\ \/ begin_receive(r) /\ inv[on[r]].phase = "queued" /\ PhaseTo(on[r], "receiving")
            \/ rollback_receive(r) /\ PhaseTo(on[r], "queued")
            \/ finish_dispatch(r) /\ PhaseTo(on[r], "dispatched")
  <1>1. pc[r] \in Holding
    BY DEF Turning, begin_receive, rollback_receive, finish_dispatch, At, Holding, Delivered
  <1>2. on[r] \in Calls
    BY Zenon, <1>1, CallFacts
  <1>3. CASE begin_receive(r) /\ Receivable(inv[on[r]])
    <2>1. inv[on[r]].phase = "queued" /\ ~ Complete(inv[on[r]]) /\ Update(on[r], [inv[on[r]] EXCEPT !.phase = "receiving"])
      BY <1>3 DEF begin_receive, Begun, Receivable, Complete
    <2> QED BY Zenon, <1>1, <1>2, <1>3, <2>1, PhaseChange
  <1>4. CASE rollback_receive(r) /\ inv[on[r]].phase = "receiving"
    <2>1. ~ Complete(inv[on[r]]) /\ Update(on[r], [inv[on[r]] EXCEPT !.phase = "queued"])
      BY <1>4 DEF rollback_receive, Complete
    <2> QED BY Zenon, <1>1, <1>2, <1>4, <2>1, PhaseChange
  <1>5. CASE finish_dispatch(r) /\ inv[on[r]].phase = "receiving"
    <2>1. ~ Complete(inv[on[r]]) /\ Update(on[r], [inv[on[r]] EXCEPT !.phase = "dispatched"])
      BY ZenonT(20), <1>5 DEF finish_dispatch, Complete
    <2> QED BY Zenon, <1>1, <1>2, <1>5, <2>1, PhaseChange
  <1> QED BY Zenon, <1>3, <1>4, <1>5 DEF Turning

LEMMA KernelTurningCall ==
  ASSUME QInv, NEW k \in KernelWorkers, KernelTurning(k)
  PROVE  /\ on[k] \in KernelCalls /\ on[k] \in Calls /\ sub[on[k]] \notin Unqueued
         /\ \/ kernel_begin(k) /\ inv[on[k]].phase = "queued" /\ PhaseTo(on[k], "receiving") /\ Goto(k, "begun")
            \/ mark_dispatched(k) /\ PhaseTo(on[k], "dispatched")
            \/ mark_dispatched(k) /\ inv' = inv /\ inv[on[k]].phase \notin {"queued", "receiving"}
  <1>1. pc[k] # "idle"
    BY ZenonT(20) DEF KernelTurning, kernel_begin, mark_dispatched, At
  <1>2. on[k] \in KernelCalls /\ on[k] \in Calls /\ sub[on[k]] \notin Unqueued
    BY <1>1, CallFacts DEF QInv, Submitted
  <1>3. CASE kernel_begin(k) /\ Receivable(inv[on[k]])
    <2>1. /\ inv[on[k]].phase = "queued" /\ ~ Complete(inv[on[k]]) /\ Goto(k, "begun")
          /\ Update(on[k], [inv[on[k]] EXCEPT !.phase = "receiving"])
      BY <1>3 DEF kernel_begin, Begun, Receivable, Complete
    <2> QED BY Zenon, <1>2, <1>3, <2>1, PhaseChange
  <1>4. CASE mark_dispatched(k) /\ inv[on[k]].phase \in {"queued", "receiving"}
    <2>1. ~ Complete(inv[on[k]]) /\ Update(on[k], [inv[on[k]] EXCEPT !.phase = "dispatched"])
      BY ZenonT(20), <1>4 DEF mark_dispatched, Complete
    <2> QED BY Zenon, <1>2, <1>4, <2>1, PhaseChange
  <1>5. CASE mark_dispatched(k) /\ inv[on[k]].phase \notin {"queued", "receiving"}
    <2>1. Update(on[k], inv[on[k]]) /\ inv \in [Calls -> State]
      BY <1>5 DEF mark_dispatched, QInv, TypeOK
    <2>2. inv' = inv
      BY <1>2, <2>1 DEF Update
    <2> QED BY Zenon, <1>2, <1>5, <2>2
  <1> QED BY Zenon, <1>3, <1>4, <1>5 DEF KernelTurning

\* A step turns the call that its thread carries.
LEMMA PhaseStays ==
  ASSUME QInv, DInv, Next, NEW c \in Calls,
         \A r \in Receivers : Turning(r) => on[r] # c,
         \A k \in KernelWorkers : KernelTurning(k) => on[k] # c
  PROVE  inv'[c].phase = inv[c].phase \/ Complete(inv'[c]) \/ submit(c)
  <1>1. CASE Evolving
    BY ZenonT(30), <1>1 DEF Evolving, Evolves
  <1>2. ASSUME NEW d \in Calls, submit(d)
        PROVE  inv'[c].phase = inv[c].phase \/ Complete(inv'[c]) \/ submit(c)
    <2>1. c # d => inv'[c] = inv[c]
      BY <1>2 DEF submit, Update, QInv, TypeOK
    <2> QED BY <1>2, <2>1
  <1>3. ASSUME NEW r \in Receivers, Turning(r)
        PROVE  inv'[c] = inv[c]
    BY Zenon, <1>3, TurningCall DEF PhaseTo, Touches
  <1>4. ASSUME NEW k \in KernelWorkers, KernelTurning(k)
        PROVE  inv'[c] = inv[c]
    BY Zenon, <1>4, KernelTurningCall DEF PhaseTo, Touches
  <1> QED BY ZenonT(20), <1>1, <1>2, <1>3, <1>4, NextEvolves
=============================================================================
