----------------------------- MODULE Invocation -----------------------------
(***************************************************************************)
(* Two-way object calls (kernel/ipc/invocation.cc): invocation_state and   *)
(* its Invocation and Responder capabilities, the request queue of one     *)
(* protocol endpoint (protocol_state over bounded_queue), and the kernel   *)
(* dispatcher that executes calls on kernel views.                         *)
(*                                                                         *)
(* An action is one critical section of the invocation lock or of the      *)
(* protocol lock (or of the two nested, invocation before protocol).       *)
(* Bytes and resources of a message are abstracted to their presence; the  *)
(* transfer of the resources is the subject of module ResourceTable.       *)
(***************************************************************************)
EXTENDS Naturals, Sequences, FiniteSets

CONSTANTS
  Calls,          \* invocations, each submitted at most once
  KernelCalls,    \* those whose target is a kernel view
  Oneway,         \* those sent with invoke_send_oneway: no Invocation, no Responder
  Deadlined,      \* those submitted with an operation budget
  Shared,         \* those whose handles other threads cancel, close or restrict
  Faulty,         \* those whose submission may run out of memory or slots, or fault
  Receivers,      \* threads of the server process that call channel_receive
  Workers,        \* threads that reply or fail through a Responder
  Takers,         \* threads of the client process that call take_result
  KernelWorkers,  \* kernel_dispatch_worker threads
  NoCall,
  MaxMessages,    \* max_messages_ of the protocol queue
  MaxGlobal       \* limit of the global protocol accounting

ASSUME InvocationConstants ==
  /\ KernelCalls \subseteq Calls /\ Oneway \subseteq Calls \ KernelCalls /\ Deadlined \subseteq Calls
  /\ Shared \subseteq Calls /\ Faulty \subseteq Calls /\ NoCall \notin Calls
  /\ MaxMessages \in Nat \ {0} /\ MaxGlobal \in Nat \ {0}
  /\ IsFiniteSet(Calls)
  /\ Receivers \cap (Workers \cup Takers \cup KernelWorkers) = {}
  /\ Workers \cap (Takers \cup KernelWorkers) = {} /\ Takers \cap KernelWorkers = {}

Threads == Receivers \cup Workers \cup Takers \cup KernelWorkers

VARIABLES
  inv,        \* invocation_state of every call
  fifo,       \* requests in the protocol queue
  claimed,    \* whether the queue head is claimed by a receive
  server,     \* the ServerEnd: "open", "released" (owners_[1] = 0), "closed"
  discarded,  \* requests drained by close_server_queue, still to complete
  kqueue,     \* kernel_dispatch_queue
  used,       \* units of the global protocol accounting in use
  sub,        \* progress of invoke_submit, per call
  handle,     \* the Invocation capability: "none", "open", "closed"
  responder,  \* the Responder: "none", in the "request", in a "table", "gone"
  timer,      \* the deadline watch, per call
  expired,    \* whether the operation deadline has passed
  pc, on,     \* progress of every thread and the call it works on
  got,        \* whether a claimed result still had its response
  executed,   \* history: the request reached user code or a kernel handler
  acked,      \* history: replies or failures that reported success
  taken       \* history: <<outcome, response present>> of successful takes

vars == <<inv, fifo, claimed, server, discarded, kqueue, used, sub, handle, responder, timer,
          expired, pc, on, got, executed, acked, taken>>

queueVars == <<fifo, claimed, server, discarded, used>>
history == <<executed, acked, taken>>

----------------------------------------------------------------------------
(* invocation_state *)

\* A call that was not submitted yet.
Unsubmitted ==
  [phase |-> "none", outcome |-> "none", reason |-> "none", response |-> FALSE,
   result_claimed |-> FALSE, alive |-> TRUE, client_closed |-> FALSE, cancel |-> FALSE,
   budget |-> FALSE, owner |-> FALSE]

Complete(i) == i.phase \in {"ready", "consumed"}

\* publish_locked_no_wake
Publish(i, outcome, reason) ==
  IF Complete(i) \/ i.client_closed THEN i
  ELSE [i EXCEPT !.phase = "ready", !.outcome = outcome, !.reason = reason, !.response = (outcome = "REPLY")]

Publishes(i) == ~ Complete(i) /\ ~ i.client_closed

\* Mutated form: a call being received counts as not delivered.
Expire_receiving_lost(i) ==
  CASE i.phase \in {"queued", "receiving"} -> Publish(i, "NOT_DELIVERED", "OPERATION_DEADLINE")
    [] i.phase = "dispatched" -> Publish([i EXCEPT !.alive = FALSE], "OUTCOME_UNKNOWN", "OPERATION_DEADLINE")
    [] OTHER -> i

\* The last critical section of expire_deadline.
Expire(i) ==
  CASE i.phase = "queued" -> Publish(i, "NOT_DELIVERED", "OPERATION_DEADLINE")
    [] i.phase \in {"receiving", "dispatched"} ->
         Publish([i EXCEPT !.alive = FALSE], "OUTCOME_UNKNOWN", "OPERATION_DEADLINE")
    [] OTHER -> i

\* Mutated form: a dispatched call counts as not delivered.
Abandon_undelivered(i) ==
  CASE i.alive /\ i.phase \in {"queued", "dispatched"} ->
         Publish([i EXCEPT !.alive = FALSE], "NOT_DELIVERED", "RESPONDER_ABANDONED")
    [] OTHER -> [i EXCEPT !.alive = FALSE]

\* abandon_responder
Abandon(i) ==
  CASE ~ i.alive -> i
    [] i.alive /\ i.phase = "queued" -> Publish([i EXCEPT !.alive = FALSE], "NOT_DELIVERED", "RESPONDER_ABANDONED")
    [] i.alive /\ i.phase = "dispatched" -> Publish([i EXCEPT !.alive = FALSE], "OUTCOME_UNKNOWN", "RESPONDER_ABANDONED")
    [] OTHER -> [i EXCEPT !.alive = FALSE]

\* begin_receive: the transition that decides between delivery and
\* cancellation.
Receivable(i) == i.phase = "queued" /\ ~ i.cancel /\ ~ i.client_closed /\ i.alive
Begun(i) ==
  CASE Receivable(i) -> [i EXCEPT !.phase = "receiving"]
    [] i.phase = "queued" /\ ~ Receivable(i) ->
         Publish(i, "NOT_DELIVERED", IF i.cancel THEN "CANCEL_REQUESTED" ELSE "RESPONDER_ABANDONED")
    [] OTHER -> i

\* Deleting a request that left the queue: its owner link is cleared and the
\* Responder it still carries is abandoned.
Dropped(c, i) ==
  LET unlinked == [i EXCEPT !.owner = FALSE]
  IN IF c \in Oneway THEN unlinked ELSE Abandon(unlinked)

\* Where the Responder of a call goes; a oneway call has none.
Responder(c, place) == responder' = [responder EXCEPT ![c] = IF c \in Oneway THEN @ ELSE place]

Bit(b) == IF b THEN 1 ELSE 0

\* close_client: clears the response and gives the result budget back.
close_client(c) ==
  /\ inv' = [inv EXCEPT ![c].client_closed = TRUE, ![c].response = FALSE, ![c].budget = FALSE]
  /\ used' = used - Bit(inv[c].budget)

----------------------------------------------------------------------------
(* The request queue *)

InQueue(c) == \E k \in 1 .. Len(fifo) : fifo[k] = c

\* bounded_queue::remove refuses the head while a receive has claimed it.
Removable(c) == InQueue(c) /\ ~ (claimed /\ Head(fifo) = c)

\* The queue without the node of a request.
Without(c) ==
  LET at == CHOOSE k \in 1 .. Len(fifo) : fifo[k] = c
  IN [k \in 1 .. Len(fifo) - 1 |-> IF k < at THEN fifo[k] ELSE fifo[k + 1]]

\* remove_queued takes the request out and releases its accounting.
RemoveQueued(c) ==
  /\ fifo' = Without(c)
  /\ used' = used - 1

\* invocation_state::cancel, the removed request deleted.
Cancel(c) ==
  LET i == inv[c]
      flagged == [i EXCEPT !.cancel = TRUE]
  IN \/ /\ i.phase = "queued" /\ i.owner /\ Removable(c)
        /\ inv' = [inv EXCEPT ![c] = Dropped(c, Publish(flagged, "NOT_DELIVERED", "CANCEL_REQUESTED"))]
        /\ RemoveQueued(c)
        /\ Responder(c, "gone")
     \/ /\ i.phase = "queued" /\ ~ i.owner
        /\ inv' = [inv EXCEPT ![c] = Publish(flagged, "NOT_DELIVERED", "CANCEL_REQUESTED")]
        /\ UNCHANGED <<fifo, used, responder>>
     \/ /\ i.phase \in {"receiving", "dispatched"} \/ (i.phase = "queued" /\ i.owner /\ ~ Removable(c))
        /\ inv' = [inv EXCEPT ![c] = flagged]
        /\ UNCHANGED <<fifo, used, responder>>
     \/ /\ Complete(i)
        /\ UNCHANGED <<inv, fifo, used, responder>>

\* close_server_queue under the protocol lock; it stops at a claimed head.
Drain ==
  IF claimed THEN UNCHANGED <<fifo, discarded, used>>
  ELSE /\ discarded' = discarded \cup {c \in Calls : InQueue(c)}
       /\ used' = used - Len(fifo)
       /\ fifo' = <<>>

----------------------------------------------------------------------------
Init ==
  /\ inv = [c \in Calls |-> Unsubmitted]
  /\ fifo = <<>> /\ claimed = FALSE /\ server = "open" /\ discarded = {}
  /\ kqueue = <<>> /\ used = 0
  /\ sub = [c \in Calls |-> "idle"]
  /\ handle = [c \in Calls |-> "none"]
  /\ responder = [c \in Calls |-> "none"]
  /\ timer = [c \in Calls |-> "off"]
  /\ expired = [c \in Calls |-> FALSE]
  /\ pc = [t \in Threads |-> "idle"]
  /\ on = [t \in Threads |-> NoCall]
  /\ got = [t \in Takers |-> FALSE]
  /\ executed = [c \in Calls |-> FALSE]
  /\ acked = [c \in Calls |-> {}]
  /\ taken = [c \in Calls |-> <<>>]

At(t, s) == pc[t] = s
Goto(t, s) == pc' = [pc EXCEPT ![t] = s] /\ UNCHANGED on
Pick(t, s, c) == pc' = [pc EXCEPT ![t] = s] /\ on' = [on EXCEPT ![t] = c]
Return(t) == Pick(t, "idle", NoCall)
Update(c, i) == inv' = [inv EXCEPT ![c] = i]
Step(c, from, to) == sub[c] = from /\ sub' = [sub EXCEPT ![c] = to]

----------------------------------------------------------------------------
(* invoke_submit *)

submitRest == <<claimed, server, discarded, expired, pc, on, got, executed, acked, taken>>

\* The state is made, its result budget reserved and its deadline armed.
submit(c) ==
  /\ Step(c, "idle", "made")
  /\ IF c \in Oneway THEN UNCHANGED used ELSE used < MaxGlobal /\ used' = used + 1
  /\ Update(c, [Unsubmitted EXCEPT !.phase = "queued", !.budget = (c \notin Oneway)])
  /\ timer' = [timer EXCEPT ![c] = IF c \in Deadlined THEN "armed" ELSE "off"]
  /\ UNCHANGED <<fifo, kqueue, handle, responder>> /\ UNCHANGED submitRest

\* set_queue_owner, then the Invocation entry is installed in the table.
install(c) ==
  /\ Step(c, "made", "installed")
  /\ inv' = [inv EXCEPT ![c].owner = (c \notin KernelCalls /\ inv[c].phase = "queued")]
  /\ handle' = [handle EXCEPT ![c] = IF c \in Oneway THEN @ ELSE "open"]
  /\ UNCHANGED <<fifo, kqueue, used, responder, timer>> /\ UNCHANGED submitRest

\* The table is full: nothing but the deadline watch keeps the state.
install_fails(c) ==
  /\ c \in Faulty \ Oneway /\ Step(c, "made", "failed")
  /\ UNCHANGED <<inv, fifo, kqueue, used, handle, responder, timer>> /\ UNCHANGED submitRest

\* ~invocation_state of such a call.
destroy_state(c) ==
  /\ sub[c] = "failed" /\ handle[c] = "none" /\ inv[c].budget
  /\ timer[c] \in {"off", "done"}
  /\ inv' = [inv EXCEPT ![c].budget = FALSE]
  /\ used' = used - 1
  /\ UNCHANGED <<fifo, kqueue, sub, handle, responder, timer>> /\ UNCHANGED submitRest

\* PEER_CLOSED, WOULD_BLOCK or RESOURCE_EXHAUSTED.
Refused(c) == c \notin KernelCalls /\ (server # "open" \/ Len(fifo) >= MaxMessages \/ used >= MaxGlobal)

\* protocol_state::enqueue accepts the request.
enqueue(c) ==
  /\ c \notin KernelCalls /\ Step(c, "installed", "queued")
  /\ ~ Refused(c)
  /\ fifo' = Append(fifo, c) /\ used' = used + 1
  /\ Responder(c, "request")
  /\ UNCHANGED <<inv, kqueue, handle, timer>> /\ UNCHANGED submitRest

\* The resources could not be taken, or enqueue refused the request, which
\* is deleted with its Responder.
enqueue_fails(c) ==
  /\ Step(c, "installed", "failing")
  /\ Refused(c) \/ c \in Faulty
  /\ IF c \in KernelCalls \cup Oneway THEN UNCHANGED <<inv, responder>>
     ELSE /\ Update(c, Abandon(inv[c]))
          /\ responder' = [responder EXCEPT ![c] = "gone"]
  /\ UNCHANGED <<fifo, kqueue, used, handle, timer>> /\ UNCHANGED submitRest

\* A cancellation requested before the request was in the queue.
recheck_cancel(c) ==
  /\ Step(c, "queued", "rechecked")
  /\ IF inv[c].cancel THEN Cancel(c) ELSE UNCHANGED <<inv, fifo, used, responder>>
  /\ UNCHANGED <<kqueue, handle, timer>> /\ UNCHANGED submitRest

\* A deadline that completed the call before the request was in the queue.
recheck_completed(c) ==
  /\ Step(c, "rechecked", "copyout")
  /\ IF Complete(inv[c]) /\ Removable(c)
     THEN /\ RemoveQueued(c)
          /\ Update(c, Dropped(c, inv[c]))
          /\ Responder(c, "gone")
     ELSE UNCHANGED <<inv, fifo, used, responder>>
  /\ UNCHANGED <<kqueue, handle, timer>> /\ UNCHANGED submitRest

\* kernel_dispatch_queue::enqueue
enqueue_kernel(c) ==
  /\ Step(c, "installed", "copyout")
  /\ kqueue' = Append(kqueue, c)
  /\ UNCHANGED <<inv, fifo, used, handle, responder, timer>> /\ UNCHANGED submitRest

copyout(c) ==
  /\ Step(c, "copyout", "done")
  /\ UNCHANGED <<inv, fifo, kqueue, used, handle, responder, timer>> /\ UNCHANGED submitRest

\* The Invocation handle could not be copied out: cancel, then close.
copyout_fails(c) ==
  /\ c \in Faulty \ Oneway /\ Step(c, "copyout", "failing")
  /\ Cancel(c)
  /\ UNCHANGED <<kqueue, handle, timer>> /\ UNCHANGED submitRest

submit_closes(c) ==
  /\ Step(c, "failing", "failed")
  /\ IF handle[c] = "open" THEN close_client(c) ELSE UNCHANGED <<inv, used>>
  /\ handle' = [handle EXCEPT ![c] = IF c \in Oneway THEN @ ELSE "closed"]
  /\ UNCHANGED <<fifo, kqueue, responder, timer>> /\ UNCHANGED submitRest

----------------------------------------------------------------------------
(* The operation deadline *)

timerRest == <<claimed, server, discarded, kqueue, sub, handle, pc, on, got, executed, acked, taken>>

deadline_passes(c) ==
  /\ c \in Deadlined /\ inv[c].phase # "none" /\ ~ expired[c]
  /\ expired' = [expired EXCEPT ![c] = TRUE]
  /\ UNCHANGED <<inv, fifo, used, responder, timer>> /\ UNCHANGED timerRest

TimerStep(c, from, to) == timer[c] = from /\ timer' = [timer EXCEPT ![c] = to] /\ UNCHANGED expired

\* expire_deadline reads what to do, drops the lock, and acts on it later.
expire_deadline(c) ==
  /\ expired[c]
  /\ TimerStep(c, "armed", IF inv[c].phase = "queued" /\ inv[c].owner THEN "removing" ELSE "finishing")
  /\ UNCHANGED <<inv, fifo, used, responder>> /\ UNCHANGED timerRest

expire_remove(c) ==
  /\ \/ Removable(c) /\ RemoveQueued(c) /\ TimerStep(c, "removing", "removed")
     \/ ~ Removable(c) /\ TimerStep(c, "removing", "finishing") /\ UNCHANGED <<fifo, used>>
  /\ UNCHANGED <<inv, responder>> /\ UNCHANGED timerRest

expire_clear_owner(c) ==
  /\ TimerStep(c, "removed", "cleared")
  /\ inv' = [inv EXCEPT ![c].owner = FALSE]
  /\ UNCHANGED <<fifo, used, responder>> /\ UNCHANGED timerRest

\* Mutated form: the removed request is dropped, its call not completed.
expire_removed_silently(c) ==
  /\ TimerStep(c, "cleared", "done")
  /\ inv' = [inv EXCEPT ![c].alive = FALSE]
  /\ Responder(c, "gone")
  /\ UNCHANGED <<fifo, used>> /\ UNCHANGED timerRest

\* Publish if the call is still queued, then delete the request.
expire_removed(c) ==
  /\ TimerStep(c, "cleared", "done")
  /\ Update(c, Dropped(c, IF inv[c].phase = "queued"
                       THEN Publish(inv[c], "NOT_DELIVERED", "OPERATION_DEADLINE") ELSE inv[c]))
  /\ Responder(c, "gone")
  /\ UNCHANGED <<fifo, used>> /\ UNCHANGED timerRest

expire_finish(c) ==
  /\ TimerStep(c, "finishing", "done")
  /\ Update(c, Expire(inv[c]))
  /\ UNCHANGED <<fifo, used, responder>> /\ UNCHANGED timerRest

----------------------------------------------------------------------------
(* The client: cancel, close, restrict, take_result *)

clientRest == <<claimed, server, discarded, kqueue, sub, timer, expired, executed, acked>>

invocation_cancel(c) ==
  /\ c \in Shared /\ handle[c] = "open"
  /\ Cancel(c)
  /\ UNCHANGED <<handle, pc, on, got, taken>> /\ UNCHANGED clientRest

close_invocation(c) ==
  /\ c \in Shared /\ handle[c] = "open"
  /\ handle' = [handle EXCEPT ![c] = "closed"]
  /\ close_client(c)
  /\ UNCHANGED <<fifo, responder, pc, on, got, taken>> /\ UNCHANGED clientRest

\* handle_restrict on the Invocation: commit_restrict emits an acquire and a
\* release of the table root, and the release hook closes the client side.
restrict_invocation(c) ==
  /\ c \in Shared /\ handle[c] = "open" /\ ~ inv[c].client_closed
  /\ close_client(c)
  /\ UNCHANGED <<handle, fifo, responder, pc, on, got, taken>> /\ UNCHANGED clientRest

take_result(t, c) ==
  /\ At(t, "idle") /\ handle[c] = "open"
  /\ Pick(t, "taking", c)
  /\ UNCHANGED <<inv, handle, fifo, used, responder, got, taken>> /\ UNCHANGED clientRest

\* claim_result completes a call whose deadline has passed by itself.
Polled(c) ==
  IF ~ Complete(inv[c]) /\ expired[c]
  THEN Publish(inv[c], IF inv[c].phase = "dispatched" THEN "OUTCOME_UNKNOWN" ELSE "NOT_DELIVERED", "OPERATION_DEADLINE")
  ELSE inv[c]

\* Mutated form: the claim of another taker is not looked at.
claim_result_twice(t) ==
  LET c == on[t] IN
  /\ At(t, "taking")
  /\ Polled(c).phase = "ready"
  /\ Update(c, [Polled(c) EXCEPT !.result_claimed = TRUE, !.response = FALSE])
  /\ got' = [got EXCEPT ![t] = Polled(c).response]
  /\ Goto(t, "claimed")
  /\ UNCHANGED <<handle, fifo, used, responder, taken>> /\ UNCHANGED clientRest

claim_result(t) ==
  LET c == on[t] IN
  /\ At(t, "taking")
  /\ Polled(c).phase = "ready" /\ ~ Polled(c).result_claimed
  /\ Update(c, [Polled(c) EXCEPT !.result_claimed = TRUE, !.response = FALSE])
  /\ got' = [got EXCEPT ![t] = Polled(c).response]
  /\ Goto(t, "claimed")
  /\ UNCHANGED <<handle, fifo, used, responder, taken>> /\ UNCHANGED clientRest

\* ALREADY_CONSUMED, WOULD_BLOCK or BUFFER_TOO_SMALL.
claim_result_fails(t) ==
  /\ At(t, "taking")
  /\ Update(on[t], Polled(on[t]))
  /\ Return(t)
  /\ UNCHANGED <<handle, fifo, used, responder, got, taken>> /\ UNCHANGED clientRest

\* No handle slots, or the copy to the caller failed.
restore_result(t) ==
  LET c == on[t] IN
  /\ At(t, "claimed")
  /\ IF inv[c].result_claimed /\ inv[c].phase = "ready"
     THEN inv' = [inv EXCEPT ![c].response = got[t], ![c].result_claimed = FALSE]
     ELSE UNCHANGED inv
  /\ got' = [got EXCEPT ![t] = FALSE]
  /\ Return(t)
  /\ UNCHANGED <<handle, fifo, used, responder, taken>> /\ UNCHANGED clientRest

commit_result(t) ==
  LET c == on[t] IN
  /\ At(t, "claimed")
  /\ IF inv[c].result_claimed /\ inv[c].phase = "ready"
     THEN /\ inv' = [inv EXCEPT ![c].phase = "consumed", ![c].result_claimed = FALSE,
                                ![c].response = FALSE, ![c].budget = FALSE]
          /\ used' = used - Bit(inv[c].budget)
          /\ taken' = [taken EXCEPT ![c] = Append(@, <<inv[c].outcome, got[t]>>)]
     ELSE UNCHANGED <<inv, used, taken>>
  /\ got' = [got EXCEPT ![t] = FALSE]
  /\ Return(t)
  /\ UNCHANGED <<handle, fifo, responder>> /\ UNCHANGED clientRest

----------------------------------------------------------------------------
(* channel_receive on the ServerEnd (receive_protocol) *)

receiveRest == <<kqueue, sub, handle, timer, expired, got, acked, taken>>

\* The lookup keeps the endpoint object alive until the call returns.
receive(r) ==
  /\ At(r, "idle") /\ server = "open"
  /\ Pick(r, "entering", NoCall)
  /\ UNCHANGED <<inv, responder, executed>> /\ UNCHANGED queueVars /\ UNCHANGED receiveRest

claim(r) ==
  /\ At(r, "entering") /\ fifo # <<>> /\ ~ claimed
  /\ claimed' = TRUE
  /\ Pick(r, "claimed", Head(fifo))
  /\ UNCHANGED <<inv, fifo, server, discarded, used, responder, executed>> /\ UNCHANGED receiveRest

claim_fails(r) ==
  /\ At(r, "entering") /\ (fifo = <<>> \/ claimed)
  /\ Goto(r, "leaving")
  /\ UNCHANGED <<inv, responder, executed>> /\ UNCHANGED queueVars /\ UNCHANGED receiveRest

\* deadline_expired, then the COMPLETED signal: a finished call is skipped.
check_claimed(r) ==
  LET i == IF expired[on[r]] THEN Expire(inv[on[r]]) ELSE inv[on[r]] IN
  /\ At(r, "claimed")
  /\ Update(on[r], i)
  /\ Goto(r, IF Complete(i) THEN "discard" ELSE "checked")
  /\ UNCHANGED <<responder, executed>> /\ UNCHANGED queueVars /\ UNCHANGED receiveRest

\* Mutated form: the accounting of the request is not released.
PopClaimed_charged ==
  /\ fifo' = Tail(fifo) /\ claimed' = FALSE
  /\ UNCHANGED <<server, discarded, used>>

PopClaimed ==
  /\ fifo' = Tail(fifo) /\ claimed' = FALSE /\ used' = used - 1
  /\ UNCHANGED <<server, discarded>>

\* commit_claim, delete the request, and look for another one.
discard_claimed(r) ==
  LET c == on[r] IN
  /\ At(r, "discard")
  /\ PopClaimed
  /\ Update(c, Dropped(c, inv[c]))
  /\ Responder(c, "gone")
  /\ Pick(r, "entering", NoCall)
  /\ UNCHANGED executed /\ UNCHANGED receiveRest

\* Capacity too small or a bad buffer ("checked"), or after a rollback.
cancel_claim(r) ==
  /\ At(r, "checked") \/ At(r, "unclaim")
  /\ claimed' = FALSE
  /\ Pick(r, "leaving", NoCall)
  /\ UNCHANGED <<inv, fifo, server, discarded, used, responder, executed>> /\ UNCHANGED receiveRest

begin_receive(r) ==
  /\ At(r, "checked")
  /\ Update(on[r], Begun(inv[on[r]]))
  /\ Goto(r, IF Receivable(inv[on[r]]) THEN "receiving" ELSE "discard")
  /\ UNCHANGED <<responder, executed>> /\ UNCHANGED queueVars /\ UNCHANGED receiveRest

\* No handle slots, or the copy to the receiver failed.
rollback_receive(r) ==
  LET i == inv[on[r]] IN
  /\ At(r, "receiving")
  /\ IF i.phase = "receiving"
     THEN Update(on[r], [i EXCEPT !.phase = "queued"]) /\ Goto(r, IF i.cancel THEN "cancelled" ELSE "unclaim")
     ELSE UNCHANGED inv /\ Goto(r, "unclaim")
  /\ UNCHANGED <<responder, executed>> /\ UNCHANGED queueVars /\ UNCHANGED receiveRest

rollback_cancelled(r) ==
  /\ At(r, "cancelled")
  /\ Update(on[r], Publish(inv[on[r]], "NOT_DELIVERED", "CANCEL_REQUESTED"))
  /\ Goto(r, "unclaim")
  /\ UNCHANGED <<responder, executed>> /\ UNCHANGED queueVars /\ UNCHANGED receiveRest

\* The message is in user memory and the Responder is an active handle.
activate(r) ==
  /\ At(r, "receiving")
  /\ Responder(on[r], "table")
  /\ executed' = [executed EXCEPT ![on[r]] = TRUE]
  /\ Goto(r, "activated")
  /\ UNCHANGED inv /\ UNCHANGED queueVars /\ UNCHANGED receiveRest

finish_dispatch(r) ==
  LET i == inv[on[r]] IN
  /\ At(r, "activated")
  /\ IF i.phase = "receiving"
     THEN Update(on[r], [i EXCEPT !.phase = "dispatched"]) /\ Goto(r, "dispatched")
     ELSE UNCHANGED inv /\ Goto(r, "closing")
  /\ UNCHANGED <<responder, executed>> /\ UNCHANGED queueVars /\ UNCHANGED receiveRest

\* The call completed meanwhile: the delivered handles are closed again.
close_delivered(r) ==
  LET c == on[r] IN
  /\ At(r, "closing")
  /\ IF responder[c] = "table"
     THEN Update(c, Abandon(inv[c])) /\ responder' = [responder EXCEPT ![c] = "gone"]
     ELSE UNCHANGED <<inv, responder>>
  /\ Goto(r, "aborting")
  /\ UNCHANGED executed /\ UNCHANGED queueVars /\ UNCHANGED receiveRest

\* Mutated form: the claim is released, the request stays in the queue.
commit_claim_keeps(r) ==
  /\ At(r, "dispatched") \/ At(r, "aborting")
  /\ claimed' = FALSE
  /\ Pick(r, "leaving", NoCall)
  /\ UNCHANGED <<inv, fifo, server, discarded, used, responder, executed>> /\ UNCHANGED receiveRest

\* commit_claim after a dispatch, abort_claim after closing.
commit_claim(r) ==
  /\ At(r, "dispatched") \/ At(r, "aborting")
  /\ PopClaimed
  /\ Pick(r, "leaving", NoCall)
  /\ UNCHANGED <<inv, responder, executed>> /\ UNCHANGED receiveRest

Inside == {r \in Receivers : pc[r] # "idle"}

\* The last reference to a closed endpoint runs ~protocol_endpoint, which
\* drains the queue once more.
leave(r) ==
  /\ At(r, "leaving")
  /\ Return(r)
  /\ IF server = "closed" /\ Inside = {r} THEN Drain ELSE UNCHANGED <<fifo, discarded, used>>
  /\ UNCHANGED <<inv, claimed, server, responder, executed>> /\ UNCHANGED receiveRest

----------------------------------------------------------------------------
(* Closing the ServerEnd *)

\* endpoint_released: the last owner of the server role is gone.
release_server ==
  /\ server = "open"
  /\ server' = "released"
  /\ UNCHANGED <<inv, fifo, claimed, discarded, used, responder, pc, on, executed>> /\ UNCHANGED receiveRest

close_server_queue ==
  /\ server = "released"
  /\ server' = "closed"
  /\ Drain
  /\ UNCHANGED <<inv, claimed, responder, pc, on, executed>> /\ UNCHANGED receiveRest

\* A drained request: its call completes, then the request is deleted.
complete_discarded(c) ==
  /\ c \in discarded
  /\ discarded' = discarded \ {c}
  /\ Update(c, Dropped(c, Publish(inv[c], "NOT_DELIVERED", "PEER_CLOSED")))
  /\ Responder(c, "gone")
  /\ UNCHANGED <<fifo, claimed, server, used, pc, on, executed>> /\ UNCHANGED receiveRest

----------------------------------------------------------------------------
(* The Responder *)

responderRest == <<fifo, claimed, server, discarded, used, kqueue, sub, handle, timer, expired, got, executed, taken>>

\* responder_reply and responder_fail start with the lookup of the handle.
respond(w, c, how) ==
  /\ At(w, "idle") /\ responder[c] = "table"
  /\ Pick(w, how, c)
  /\ UNCHANGED <<inv, responder, acked>> /\ UNCHANGED responderRest

\* Mutated form: success is reported whether or not the reply was published.
complete_reply_always(w) ==
  LET c == on[w] IN
  /\ At(w, "reply")
  /\ Update(c, Publish(inv[c], "REPLY", "none"))
  /\ acked' = [acked EXCEPT ![c] = @ \cup {<<w, "REPLY">>}]
  /\ Goto(w, "consume")
  /\ UNCHANGED responder /\ UNCHANGED responderRest

complete_reply(w) ==
  LET c == on[w] IN
  /\ At(w, "reply")
  /\ IF Publishes(inv[c])
     THEN /\ Update(c, Publish(inv[c], "REPLY", "none"))
          /\ acked' = [acked EXCEPT ![c] = @ \cup {<<w, "REPLY">>}]
          /\ Goto(w, "consume")
     ELSE Goto(w, "close") /\ UNCHANGED <<inv, acked>>
  /\ UNCHANGED responder /\ UNCHANGED responderRest

complete_failure(w, outcome) ==
  LET c == on[w] IN
  /\ At(w, "fail")
  /\ IF Publishes(inv[c])
     THEN /\ Update(c, Publish(inv[c], outcome, "UNSUPPORTED"))
          /\ acked' = [acked EXCEPT ![c] = @ \cup {<<w, outcome>>}]
          /\ Goto(w, "consume")
     ELSE Goto(w, "close") /\ UNCHANGED <<inv, acked>>
  /\ UNCHANGED responder /\ UNCHANGED responderRest

consume_responder(w) ==
  /\ At(w, "consume")
  /\ inv' = [inv EXCEPT ![on[w]].alive = FALSE]
  /\ Goto(w, "close")
  /\ UNCHANGED <<responder, acked>> /\ UNCHANGED responderRest

\* close_native of the Responder handle, if it is still there.
close_replied(w) ==
  LET c == on[w] IN
  /\ At(w, "close")
  /\ IF responder[c] = "table"
     THEN Update(c, Abandon(inv[c])) /\ responder' = [responder EXCEPT ![c] = "gone"]
     ELSE UNCHANGED <<inv, responder>>
  /\ Return(w)
  /\ UNCHANGED acked /\ UNCHANGED responderRest

\* handle_close by any thread of the process.
close_responder(c) ==
  /\ c \in Shared /\ responder[c] = "table"
  /\ responder' = [responder EXCEPT ![c] = "gone"]
  /\ Update(c, Abandon(inv[c]))
  /\ UNCHANGED <<pc, on, acked>> /\ UNCHANGED responderRest

\* handle_restrict: the release hook of commit_restrict abandons the
\* Responder although the restricted handle still names it.
restrict_responder(c) ==
  /\ c \in Shared /\ responder[c] = "table" /\ inv[c].alive
  /\ Update(c, Abandon(inv[c]))
  /\ UNCHANGED <<responder, pc, on, acked>> /\ UNCHANGED responderRest

----------------------------------------------------------------------------
(* Kernel dispatch *)

kernelRest == <<fifo, claimed, server, discarded, used, sub, handle, responder, timer, expired, got, acked, taken>>

pop(k) ==
  /\ At(k, "idle") /\ kqueue # <<>>
  /\ kqueue' = Tail(kqueue)
  /\ Pick(k, "popped", Head(kqueue))
  /\ UNCHANGED <<inv, executed>> /\ UNCHANGED kernelRest

\* begin_receive; a call that is already over is dropped.
kernel_begin(k) ==
  /\ At(k, "popped")
  /\ Update(on[k], Begun(inv[on[k]]))
  /\ IF Receivable(inv[on[k]]) THEN Goto(k, "begun") ELSE Return(k)
  /\ UNCHANGED <<kqueue, executed>> /\ UNCHANGED kernelRest

\* dispatch_kernel_view: mark_dispatched, then the handler runs.
mark_dispatched(k) ==
  LET i == inv[on[k]] IN
  /\ At(k, "begun")
  /\ Update(on[k], IF i.phase \in {"queued", "receiving"} THEN [i EXCEPT !.phase = "dispatched"] ELSE i)
  /\ executed' = [executed EXCEPT ![on[k]] = TRUE]
  /\ Goto(k, "executing")
  /\ UNCHANGED kqueue /\ UNCHANGED kernelRest

\* The handler replies, or returns an error status.
kernel_handler(k) ==
  /\ At(k, "executing")
  /\ \/ Update(on[k], Publish(inv[on[k]], "REPLY", "none")) /\ Goto(k, "replied")
     \/ UNCHANGED inv /\ Goto(k, "error")
  /\ UNCHANGED <<kqueue, executed>> /\ UNCHANGED kernelRest

Interrupted(i) == i.cancel \/ i.client_closed \/ ~ i.alive \/ Complete(i)

\* Mutated form: an error status is not turned into a reply.
execute_kernel_dispatch_silent(k) ==
  LET i == inv[on[k]] IN
  /\ At(k, "replied") \/ At(k, "error")
  /\ Update(on[k], IF i.cancel THEN Publish(i, "OUTCOME_UNKNOWN", "CANCEL_REQUESTED") ELSE i)
  /\ Return(k)
  /\ UNCHANGED <<kqueue, executed>> /\ UNCHANGED kernelRest

\* What execute_kernel_dispatch does after the handler.
execute_kernel_dispatch(k) ==
  LET i == inv[on[k]] IN
  /\ At(k, "replied") \/ At(k, "error")
  /\ Update(on[k], CASE i.cancel -> Publish(i, "OUTCOME_UNKNOWN", "CANCEL_REQUESTED")
                     [] Interrupted(i) /\ ~ i.cancel -> i
                     [] OTHER -> IF At(k, "error") THEN Publish(i, "REPLY", "none") ELSE i)
  /\ Return(k)
  /\ UNCHANGED <<kqueue, executed>> /\ UNCHANGED kernelRest

\* The resources could not be put back: the call is answered with EIO.
restore_fails(k) ==
  /\ At(k, "replied") \/ At(k, "error")
  /\ Update(on[k], Publish(inv[on[k]], "REPLY", "none"))
  /\ Return(k)
  /\ UNCHANGED <<kqueue, executed>> /\ UNCHANGED kernelRest

----------------------------------------------------------------------------

SubmitStep(c) ==
  \/ install(c) \/ install_fails(c) \/ destroy_state(c)
  \/ enqueue(c) \/ enqueue_fails(c) \/ recheck_cancel(c) \/ recheck_completed(c)
  \/ copyout(c) \/ copyout_fails(c) \/ submit_closes(c)

ExpireStep(c) ==
  \/ expire_deadline(c) \/ expire_remove(c) \/ expire_clear_owner(c)
  \/ expire_removed(c) \/ expire_finish(c)

ClientStep(c) == invocation_cancel(c) \/ close_invocation(c) \/ restrict_invocation(c)

TakeStep(t) == claim_result(t) \/ claim_result_fails(t) \/ restore_result(t) \/ commit_result(t)

ReceiveStep(r) ==
  \/ claim(r) \/ claim_fails(r) \/ check_claimed(r) \/ discard_claimed(r) \/ cancel_claim(r)
  \/ begin_receive(r) \/ rollback_receive(r) \/ rollback_cancelled(r) \/ activate(r)
  \/ finish_dispatch(r) \/ close_delivered(r) \/ commit_claim(r) \/ leave(r)

RespondStep(w) ==
  \/ complete_reply(w) \/ consume_responder(w) \/ close_replied(w)
  \/ \E outcome \in {"NOT_DELIVERED", "OUTCOME_UNKNOWN"} : complete_failure(w, outcome)

KernelStep(k) ==
  \/ pop(k) \/ kernel_begin(k) \/ mark_dispatched(k) \/ kernel_handler(k)
  \/ execute_kernel_dispatch(k) \/ restore_fails(k)

Next ==
  \/ \E c \in Calls :
       \/ submit(c) \/ SubmitStep(c) \/ ExpireStep(c) \/ deadline_passes(c) \/ ClientStep(c)
       \/ complete_discarded(c) \/ close_responder(c) \/ restrict_responder(c)
  \/ \E c \in KernelCalls : enqueue_kernel(c)
  \/ \E t \in Takers : TakeStep(t) \/ \E c \in Calls : take_result(t, c)
  \/ \E r \in Receivers : receive(r) \/ ReceiveStep(r)
  \/ \E w \in Workers : RespondStep(w) \/ \E c \in Calls, how \in {"reply", "fail"} : respond(w, c, how)
  \/ \E k \in KernelWorkers : KernelStep(k)
  \/ release_server \/ close_server_queue

Spec == Init /\ [][Next]_vars

\* A system call that has started, a due timer and a kernel worker keep
\* running; nobody is obliged to start a call, to receive or to reply.
Fairness ==
  /\ \A c \in Calls : WF_vars(SubmitStep(c)) /\ WF_vars(ExpireStep(c)) /\ WF_vars(complete_discarded(c))
  /\ \A c \in KernelCalls : WF_vars(enqueue_kernel(c))
  /\ \A r \in Receivers : WF_vars(ReceiveStep(r))
  /\ \A k \in KernelWorkers : WF_vars(KernelStep(k))
  /\ WF_vars(close_server_queue)

----------------------------------------------------------------------------
(* Properties *)

\* A reply or failure that reported success is the result of the call: of all
\* racing replies, failures, closes and deadlines one wins, and every loser is
\* told PEER_CLOSED (responder_reply, responder_fail).
AckedReplyIsTheResult ==
  \A c \in Calls : /\ Cardinality(acked[c]) <= 1
                   /\ \A a \in acked[c] : inv[c].outcome = a[2]

\* NOT_DELIVERED, unless the server itself reported it, means that neither
\* user code nor a kernel handler saw the request, before or after: the caller
\* may retry (begin_receive is the point that decides).
NotDeliveredMeansNotExecuted ==
  \A c \in Calls : inv[c].outcome = "NOT_DELIVERED" /\ inv[c].reason # "UNSUPPORTED" => ~ executed[c]

\* Concurrent take_result calls: one succeeds, with the published outcome and
\* with the whole reply unless the caller closed the Invocation meanwhile.
TakenOnce ==
  \A c \in Calls : /\ Len(taken[c]) <= 1
                   /\ taken[c] # <<>> => inv[c].phase = "consumed" /\ taken[c][1][1] = inv[c].outcome
                   /\ taken[c] = <<<<"REPLY", FALSE>>>> => inv[c].client_closed

\* A request that was delivered is not delivered again: it stays in the queue
\* only as the head claimed by the receive that delivered it.  After the
\* ServerEnd and the last receive on it are gone no request is left behind,
\* although close_server_queue stops at a claimed head.
DeliveredOnce ==
  /\ \A c \in Calls : executed[c] /\ InQueue(c) =>
       /\ claimed /\ Head(fifo) = c
       /\ \E r \in Receivers : on[r] = c /\ pc[r] \in {"activated", "closing", "dispatched", "aborting"}
  /\ server = "closed" /\ Inside = {} => fifo = <<>>

\* A submitted call that waits is in a queue, or in the hands of a thread that
\* will complete it: removal by cancel, deadline and close loses no call.  A
\* dispatched call whose Responder is alive can be answered; a Responder closed
\* while the receive still runs is not alive and leaves such a call pending.
\* An operation budget bounds the call: once the timer has run, the call is
\* complete whatever removal, receive or dispatch it interleaved with, unless
\* the caller gave the result up.
NoCallLost ==
  \A c \in Calls : ~ inv[c].client_closed =>
    /\ sub[c] = "done" /\ inv[c].phase = "queued" =>
         \/ InQueue(c) \/ c \in discarded \/ timer[c] \in {"removed", "cleared"}
         \/ \E i \in 1 .. Len(kqueue) : kqueue[i] = c
         \/ \E k \in KernelWorkers : on[k] = c
    /\ sub[c] = "done" /\ inv[c].phase = "dispatched" /\ inv[c].alive =>
         \/ c \in Oneway \/ responder[c] = "table"
         \/ \E t \in Workers \cup KernelWorkers : on[t] = c
    /\ timer[c] = "done" => Complete(inv[c])

\* The global accounting is the sum of the reserved results and the queued
\* requests: every path out of a call gives back what it took, once, and
\* neither limit is passed however the charges interleave.
AccountingExact ==
  /\ used = Cardinality({c \in Calls : inv[c].budget}) + Len(fifo)
  /\ used <= MaxGlobal /\ Len(fifo) <= MaxMessages

\* A call on a kernel view completes without a deadline, and closing the
\* ServerEnd completes every call that was not delivered.
CallsComplete ==
  \A c \in Calls :
    (IF c \in KernelCalls THEN inv[c].phase = "queued" ELSE server = "released" /\ inv[c].phase = "queued")
      ~> \/ IF c \in KernelCalls THEN Complete(inv[c]) ELSE inv[c].phase # "queued"
         \/ inv[c].client_closed \/ handle[c] = "none"

\* The refinement mapping to the caller's view of a call.
StatusOf(i) ==
  CASE i.phase = "none" -> "none"
    [] Complete(i) -> i.phase
    [] OTHER -> IF i.client_closed THEN "abandoned" ELSE "pending"
DecidedBy(i) ==
  IF i.outcome = "none" THEN "nobody"
  ELSE IF i.outcome = "REPLY" \/ i.reason = "UNSUPPORTED" THEN "server" ELSE "kernel"

CallStatus == [c \in Calls |-> StatusOf(inv[c])]
CallOutcome == [c \in Calls |-> inv[c].outcome]
Decided == [c \in Calls |-> DecidedBy(inv[c])]

Call == INSTANCE ObjectCall WITH status <- CallStatus, outcome <- CallOutcome, decided <- Decided, seen <- executed

\* Every step of the invocation machinery is a step of the call contract or
\* invisible to the caller.
ImplementsObjectCall == Call!CallSpec

=============================================================================
