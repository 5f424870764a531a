--------------------------------- MODULE Ttyd ---------------------------------
(***************************************************************************)
(* The terminal server ttyd (usr/ttyd/main.cc): one thread that owns every *)
(* PTY pair and the console pair, serves the manager, master and slave     *)
(* endpoints of its clients, keeps the responder of each call it cannot    *)
(* finish and retries it from its flush_ functions, and asks the kernel    *)
(* (TerminalDriverFactory, TerminalDriverControl) through invocations that *)
(* complete later.                                                         *)
(*                                                                         *)
(* The whole service_state is the record s, and each function of the code  *)
(* is an operator from s to s.  A handle is a number and is never reused:  *)
(* endpoint h is s.ends[h], a responder is the number of its request, and  *)
(* an open description is named by the endpoint it was opened with.  Pairs *)
(* are indexed by id (0 is the console), for the slot of the array a pair  *)
(* sits in decides nothing.                                                *)
(***************************************************************************)
EXTENDS TerminalCore, FiniteSets, FiniteSetsExt, SequencesExt

CONSTANTS
  MaxPairs,        \* max_pairs, 256
  MaxEndpoints,    \* max_endpoints, 4096
  MaxPending,      \* max_pending_per_binding, 8
  MaxActions,      \* 16 driver actions per pair
  ManagerCalls, MasterCalls, SlaveCalls,   \* start -> the calls its clients make
  MaxRequests,     \* bound: calls sent
  TtydStarts       \* bound: where a behaviour starts and how many calls, cancelled
                   \* calls, closed endpoints, faults and handshakes it has

ASSUME TtydAssumption ==
  /\ {MaxPairs, MaxEndpoints, MaxPending, MaxActions} \subseteq Nat \ {0}
  /\ TtydStarts \subseteq [start : {"empty", "granted", "open", "paused"}, calls : 0..MaxRequests,
                           cancels : Nat, closes : Nat, faults : Nat, connects : Nat]

VARIABLES
  s,        \* service_state
  pc,       \* "top", "wait" or "events": where the loop of main stands
  batch,    \* endpoints observed ready and not yet served
  gone,     \* requests whose client cancelled or dropped them
  hung,     \* endpoints whose client end is closed
  budget    \* what the start still allows

ttyd_vars == <<s, pc, batch, gone, hung, budget>>

Requests == 1..MaxRequests
PairIds == 0..MaxPairs
NoOne == 0     \* NA_HANDLE_INVALID in place of a responder
Manager == MaxPairs + 1   \* the pair field of a TerminalManager endpoint
Listener == 1             \* the handle handshakes arrive on

NoChange == [active |-> FALSE, endpoint |-> 0, responder |-> NoOne,
             termios |-> default_termios, flush_input |-> FALSE]
NoInvocation == [kind |-> "none", responder |-> NoOne, result |-> "running"]

no_pair ==
  [allocated |-> FALSE, generation |-> 1, core |-> new_core, locked |-> TRUE,
   granted |-> FALSE, revoked |-> FALSE, retiring |-> FALSE, open_bindings |-> 0,
   master_bindings |-> 0, slave_bindings |-> 0, attribute |-> NoChange,
   active |-> NoInvocation, actions |-> <<>>]

new_pair(generation, locked, granted) ==
  [no_pair EXCEPT !.allocated = TRUE, !.generation = generation, !.locked = locked,
                  !.granted = granted]

---------------------------------------------------------------------------
\* Responders: each is answered, failed or closed once.
Settle(S, r, how) ==
  IF r = NoOne THEN S
  ELSE [S EXCEPT !.resp[r] = IF @ = "held" THEN how ELSE "twice"]
close_responder(S, r) == Settle(S, r, "closed")
reject_responder(S, r) == Settle(S, r, "failed")
responder_cancelled_or_closed(r) == r \in gone
ReplyFails(S, r) == r \in gone \cup S.late
reply(S, r) == Settle(S, r, IF ReplyFails(S, r) THEN "closed" ELSE "replied")

\* The arrays of pending calls drop an entry by moving the last one over it.
SwapRemove(q, i) == SubSeq([q EXCEPT ![i] = q[Len(q)]], 1, Len(q) - 1)

Live(S) == {h \in DOMAIN S.ends : S.ends[h].live}
BoundTo(S, k) == {h \in Live(S) : S.ends[h].pair = k}
find_pair(S, k) == k \in PairIds /\ S.pairs[k].allocated
HasPair(S, h) == S.ends[h].live /\ find_pair(S, S.ends[h].pair)
Core(S, k) == S.pairs[k].core
Nonblock(S, h) == S.descs[S.ends[h].desc].nonblock
Full(S) == Cardinality(Live(S)) >= MaxEndpoints
PerBinding(q, h) == Cardinality({i \in DOMAIN q : q[i].endpoint = h})
endpoint_has_pending_write(S, h) == PerBinding(S.writes, h) # 0

---------------------------------------------------------------------------
\* Driver actions.
queue_driver_action(S, k, kind, r) ==
  [S EXCEPT !.pairs[k].actions =
     IF Len(@) >= MaxActions THEN @ ELSE Append(@, [kind |-> kind, responder |-> r])]

\* Stores the core back; ttyd_control_event queues what the core raised.
RECURSIVE SetCore(_, _, _)
SetCore(S, k, c) ==
  IF c.raised = 0 THEN [S EXCEPT !.pairs[k].core = c]
  ELSE SetCore(queue_driver_action(S, k, "raise_foreground", NoOne), k,
               [c EXCEPT !.raised = @ - 1])

release_reserved_pair_id(S, id) ==
  IF id # 0 /\ Len(S.free) < MaxPairs THEN [S EXCEPT !.free = Append(@, id)] ELSE S

finalize_pair(S, k) ==
  LET closed == IF S.pairs[k].attribute.active
                THEN close_responder(S, S.pairs[k].attribute.responder) ELSE S
  IN  [release_reserved_pair_id(closed, k) EXCEPT !.pairs[k] = no_pair]

finish_driver_action(S, k) ==
  LET a == S.pairs[k].active
      done == [S EXCEPT !.pairs[k].active = NoInvocation]
  IN  IF a.kind = "none" \/ a.result = "running" THEN S
      ELSE IF a.result = "ok" THEN
             (IF a.responder = NoOne THEN done ELSE reply(done, a.responder))
      ELSE reject_responder(done, a.responder)

\* The invocation is cancelled and its responder closed; it still has to end.
CancelActive(S, k) ==
  LET r == S.pairs[k].active.responder
  IN  IF r = NoOne \/ ~responder_cancelled_or_closed(r) THEN S
      ELSE [close_responder(S, r) EXCEPT !.pairs[k].active.responder = NoOne]

RECURSIVE DropCancelledActions(_, _)
DropCancelledActions(S, k) ==
  LET dead == {i \in DOMAIN S.pairs[k].actions :
                 S.pairs[k].actions[i].responder \in gone}
      i == Min(dead)
  IN  IF dead = {} THEN S
      ELSE DropCancelledActions(
             [close_responder(S, S.pairs[k].actions[i].responder)
                EXCEPT !.pairs[k].actions = RemoveAt(@, i)], k)

flush_driver_pair(S0, k) ==
  LET S == CancelActive(finish_driver_action(DropCancelledActions(S0, k), k), k)
      p == S.pairs[k]
      a == Head(p.actions)
      taken == [S EXCEPT !.pairs[k].actions = Tail(@)]
  IN  IF ~p.allocated THEN S0
      ELSE IF p.retiring /\ p.active.kind = "none" /\ p.actions = <<>> THEN finalize_pair(S, k)
      ELSE IF p.active.kind # "none" \/ p.actions = <<>> THEN S
      ELSE IF S.submit
      THEN [taken EXCEPT !.pairs[k].active =
              [kind |-> a.kind, responder |-> a.responder, result |-> "running"]]
      ELSE reject_responder(taken, a.responder)

RECURSIVE FlushDriver(_, _)
FlushDriver(S, k) == IF k > MaxPairs THEN S ELSE FlushDriver(flush_driver_pair(S, k), k + 1)
flush_driver_actions(S) == FlushDriver(S, 0)

---------------------------------------------------------------------------
\* Pending reads: want of a master reads output, of a slave reads input.
TimerOn(c) == ~is_canonical(c) /\ c.termios.vtime # 0

add_pending_read(S, h, r, size, master, nonblock) ==
  LET c == Core(S, S.ends[h].pair)
      armed == ~master /\ TimerOn(c) /\ (c.termios.vmin = 0 \/ c.input # 0)
  IN  [S EXCEPT !.reads = Append(@,
         [endpoint |-> h, responder |-> r, size |-> size, master |-> master,
          deadline |-> IF armed THEN "armed" ELSE "none",
          timer_started |-> armed /\ c.termios.vmin = 0, nonblock |-> nonblock])]

ReadAttempt(S, p) ==
  LET c == Core(S, S.ends[p.endpoint].pair)
  IN  IF p.master THEN read_output(c, p.size)
      ELSE read_input(c, p.size, p.deadline = "expired")

RECURSIVE FlushReads(_, _)
FlushReads(S, i) ==
  IF i > Len(S.reads) THEN S
  ELSE LET p == S.reads[i]
           k == S.ends[p.endpoint].pair
           out == [S EXCEPT !.reads = SwapRemove(@, i)]
           a == ReadAttempt(S, p)
           start == /\ ~p.master /\ TimerOn(Core(S, k)) /\ Core(S, k).termios.vmin # 0
                    /\ ~p.timer_started /\ Core(S, k).input # 0
       IN  IF responder_cancelled_or_closed(p.responder) \/ ~HasPair(S, p.endpoint)
           THEN FlushReads(close_responder(out, p.responder), i)
           ELSE IF a.error = "EAGAIN" /\ ~p.nonblock
           THEN FlushReads(IF start THEN [S EXCEPT !.reads[i].timer_started = TRUE,
                                                   !.reads[i].deadline = "armed"]
                           ELSE S, i + 1)
           ELSE IF a.error # "" THEN FlushReads(reject_responder(out, p.responder), i)
           ELSE FlushReads(reply(SetCore(out, k, a.core), p.responder), i)
flush_pending_reads(S) == FlushReads(S, 1)

---------------------------------------------------------------------------
\* Pending writes.  ends[h].last and overtaken record in which order the
\* requests of an endpoint have their bytes taken by the line discipline.
Commit(S, h, r, count) ==
  IF count = 0 THEN S
  ELSE [S EXCEPT !.ends[h].last = IF @ < r THEN r ELSE @,
                 !.overtaken = IF r < S.ends[h].last THEN @ \cup {h} ELSE @]

add_pending_write(S, h, r, data, offset, master, nonblock) ==
  [S EXCEPT !.writes = Append(@, [endpoint |-> h, responder |-> r, data |-> data,
                                  offset |-> offset, master |-> master,
                                  nonblock |-> nonblock])]

WriteAttempt(S, p) ==
  LET c == Core(S, S.ends[p.endpoint].pair)
      rest == SubSeq(p.data, p.offset + 1, Len(p.data))
  IN  IF p.master THEN receive_input(c, rest) ELSE write_output(c, rest)

\* The sequence number of a write is the number of its request.
is_oldest(S, p) ==
  \A i \in DOMAIN S.writes :
    S.writes[i].endpoint = p.endpoint => S.writes[i].responder >= p.responder

RECURSIVE FlushWrites(_, _)
FlushWrites(S, i) ==
  IF i > Len(S.writes) THEN S
  ELSE LET p == S.writes[i]
           k == S.ends[p.endpoint].pair
           out == [S EXCEPT !.writes = SwapRemove(@, i)]
           a == WriteAttempt(S, p)
           offset == p.offset + a.count
           moved(T) == Commit(SetCore(T, k, a.core), p.endpoint, p.responder, a.count)
           failed == a.error \notin {"", "EAGAIN"}
       IN  IF responder_cancelled_or_closed(p.responder)
           THEN FlushWrites(close_responder(out, p.responder), i)
           ELSE IF ~HasPair(S, p.endpoint)
           THEN FlushWrites(reject_responder(out, p.responder), i)
           ELSE IF ~is_oldest(S, p) THEN FlushWrites(S, i + 1)
           ELSE IF p.nonblock
           THEN FlushWrites(IF a.error # "" THEN reject_responder(moved(out), p.responder)
                            ELSE reply(moved(out), p.responder), i)
           ELSE IF offset = Len(p.data) \/ (failed /\ offset # 0)
           THEN FlushWrites(reply(moved(out), p.responder), i)
           ELSE IF failed THEN FlushWrites(reject_responder(out, p.responder), i)
           ELSE FlushWrites([moved(S) EXCEPT !.writes[i].offset = offset], i + 1)
flush_pending_writes(S) == FlushWrites(S, 1)

RECURSIVE drop_pending_writes(_, _)
drop_pending_writes(S, h) ==
  LET mine == {i \in DOMAIN S.writes : S.writes[i].endpoint = h}
      i == Min(mine)
  IN  IF mine = {} THEN S
      ELSE drop_pending_writes([close_responder(S, S.writes[i].responder)
                                  EXCEPT !.writes = SwapRemove(@, i)], h)

\* A termios change that waits for the output to drain.
flush_attribute(S, k) ==
  LET p == S.pairs[k].attribute
      none == [S EXCEPT !.pairs[k].attribute = NoChange]
      c == IF p.flush_input THEN core_flush(Core(S, k), "input") ELSE Core(S, k)
  IN  IF ~S.pairs[k].allocated \/ ~p.active THEN S
      ELSE IF responder_cancelled_or_closed(p.responder) THEN close_responder(none, p.responder)
      ELSE IF Core(S, k).output # 0 THEN S
      ELSE reply([none EXCEPT !.pairs[k].core = set_termios(c, p.termios)], p.responder)

RECURSIVE FlushAttributes(_, _)
FlushAttributes(S, k) ==
  IF k > MaxPairs THEN S ELSE FlushAttributes(flush_attribute(S, k), k + 1)
flush_pending_attributes(S) == FlushAttributes(S, 0)

\* Pending watches.
watch_satisfied(S, h, master, mask, observed) ==
  LET c == Core(S, S.ends[h].pair)
  IN  \/ c.generation # observed
      \/ mask \cap (IF master THEN master_poll_events(c) ELSE slave_poll_events(c)) # {}
      \/ IF master THEN c.slave_hung_up ELSE c.master_hung_up

RECURSIVE FlushWatches(_, _)
FlushWatches(S, i) ==
  IF i > Len(S.watches) THEN S
  ELSE LET p == S.watches[i]
           out == [S EXCEPT !.watches = SwapRemove(@, i)]
       IN  IF responder_cancelled_or_closed(p.responder) \/ ~HasPair(S, p.endpoint)
           THEN FlushWatches(close_responder(out, p.responder), i)
           ELSE IF watch_satisfied(S, p.endpoint, p.master, p.mask, p.observed)
           THEN FlushWatches(reply(out, p.responder), i)
           ELSE FlushWatches(S, i + 1)
flush_pending_watches(S) == FlushWatches(S, 1)

---------------------------------------------------------------------------
\* Endpoints and open descriptions.
Description(k, master, mode) ==
  [pair |-> k, master |-> master, nonblock |-> "nonblock" \in mode, references |-> 1]

\* desc = 0 allocates an open description, any other shares that one.
add_server_endpoint(S, k, master, mode, desc) ==
  LET h == Len(S.ends) + 1
      c == Core(S, k)
      opened == IF master THEN (IF S.pairs[k].master_bindings = 0 THEN open_master(c) ELSE c)
                ELSE (IF S.pairs[k].slave_bindings = 0 THEN open_slave(c) ELSE c)
      d == IF desc = 0 THEN h ELSE desc
  IN  [S EXCEPT
         !.ends = Append(@, [live |-> TRUE, pair |-> k, master |-> master,
                             generation |-> S.pairs[k].generation,
                             mode |-> mode, desc |-> d, last |-> 0]),
         !.descs = LET more == Append(@, IF desc = 0 THEN Description(k, master, mode)
                                         ELSE [Description(k, master, mode)
                                                 EXCEPT !.references = 0])
                   IN  IF desc = 0 THEN more ELSE [more EXCEPT ![d].references = @ + 1],
         !.inbox = Append(@, <<>>),
         !.pairs[k].core = opened,
         !.pairs[k].open_bindings = @ + 1,
         !.pairs[k].master_bindings = IF master THEN @ + 1 ELSE @,
         !.pairs[k].slave_bindings = IF master THEN @ ELSE @ + 1]

manager_end == [live |-> TRUE, pair |-> Manager, master |-> FALSE, generation |-> 0,
                mode |-> {}, desc |-> 0, last |-> 0]

\* A handshake on the listener hands over the server end of a manager.
accept(S) ==
  LET taken == [S EXCEPT !.inbox[Listener] = Tail(@)]
  IN  IF Full(S) THEN taken
      ELSE [taken EXCEPT !.ends = Append(@, manager_end),
                         !.inbox = Append(@, <<>>),
                         !.descs = Append(@, [Description(0, FALSE, {}) EXCEPT !.references = 0])]

\* What the loss of one binding does to its pair.
unbind(S0, h) ==
  LET e == S0.ends[h]
      k == e.pair
      S == IF S0.pairs[k].attribute.active /\ S0.pairs[k].attribute.endpoint = h
           THEN [close_responder(S0, S0.pairs[k].attribute.responder)
                   EXCEPT !.pairs[k].attribute = NoChange]
           ELSE S0
      less == [S EXCEPT !.pairs[k].open_bindings = @ - 1,
                        !.pairs[k].master_bindings = IF e.master THEN @ - 1 ELSE @,
                        !.pairs[k].slave_bindings = IF e.master THEN @ ELSE @ - 1]
      p == less.pairs[k]
      told == IF e.master /\ p.master_bindings = 0
              THEN queue_driver_action(
                     [less EXCEPT !.pairs[k].core = hangup_master(@),
                                  !.pairs[k].revoked = TRUE], k, "hangup", NoOne)
              ELSE IF ~e.master /\ p.slave_bindings = 0 /\ k # 0
              THEN [less EXCEPT !.pairs[k].core = hangup_slave(@)] ELSE less
      q == told.pairs[k]
  IN  IF q.open_bindings # 0 THEN told
      ELSE IF q.active.kind # "none" \/ q.actions # <<>>
      THEN [told EXCEPT !.pairs[k].retiring = TRUE]
      ELSE finalize_pair(told, k)

\* Mutation: the handle goes, the writes it has pending are forgotten.
remove_without_drop(S, h) ==
  LET dead == [S EXCEPT !.ends[h].live = FALSE, !.inbox[h] = <<>>]
      released == [dead EXCEPT !.descs[S.ends[h].desc].references = @ - 1,
                               !.writes = SelectSeq(@, LAMBDA w : w.endpoint # h)]
  IN  IF S.ends[h].pair = Manager THEN dead
      ELSE flush_pending_watches(flush_pending_reads(
             IF find_pair(released, S.ends[h].pair) THEN unbind(released, h) ELSE released))

\* The handle is closed and forgotten; a manager endpoint holds nothing more.
remove_endpoint(S, h) ==
  LET dead == [S EXCEPT !.ends[h].live = FALSE, !.inbox[h] = <<>>]
      released == [dead EXCEPT !.descs[S.ends[h].desc].references = @ - 1]
      freed == IF find_pair(released, S.ends[h].pair) THEN unbind(released, h) ELSE released
  IN  IF S.ends[h].pair = Manager THEN dead
      ELSE flush_pending_watches(drop_pending_writes(flush_pending_reads(freed), h))

---------------------------------------------------------------------------
(***************************************************************************)
(* Pair creation.  The id is reserved and the kernel factory asked when    *)
(* the call arrives; the pair exists once the factory's answer is taken.   *)
(***************************************************************************)
console_busy(S) == find_pair(S, 0) \/ \E p \in S.creates : p.console
Allocated(S) == {k \in PairIds : S.pairs[k].allocated}
\* A failed submission has already advanced the generation of the id.
queue_pending_create(S, r, call, console) ==
  LET reuse == S.free # <<>>
      id == IF console THEN 0 ELSE IF reuse THEN Last(S.free) ELSE S.next
      fits == console \/ reuse \/ S.next <= MaxPairs
      reserved == IF console THEN S
                  ELSE IF reuse THEN [S EXCEPT !.free = Front(@), !.gens[id] = @ + 1]
                  ELSE IF fits THEN [S EXCEPT !.next = @ + 1, !.gens[id] = @ + 1]
                  ELSE [S EXCEPT !.next = @ + 1]
  IN  IF Cardinality(S.creates) >= MaxPairs \/ (console /\ console_busy(S)) \/ ~fits
      THEN reject_responder(IF fits THEN S ELSE reserved, r)
      ELSE IF ~S.submit THEN reject_responder(release_reserved_pair_id(reserved, id), r)
      ELSE [reserved EXCEPT !.creates = @ \cup
              {[responder |-> r, console |-> console, id |-> id,
                master |-> ~console \/ call.op = "open_console_master",
                generation |-> IF console THEN 1 ELSE reserved.gens[id],
                locked |-> ~console /\ call.locked, mode |-> call.mode,
                result |-> "running"]}]

rollback_server_endpoint(S, h) == remove_endpoint(S, h)

\* The new pair, its first binding and the answer; the two kinds differ in
\* what they publish.
publish_pair(S, p, pair) ==
  LET published == [S EXCEPT !.pairs[p.id] = pair]
      h == Len(S.ends) + 1
      added == add_server_endpoint(published, p.id, p.master, p.mode, 0)
  IN  IF Full(S) THEN reject_responder(finalize_pair(published, p.id), p.responder)
      ELSE IF ReplyFails(S, p.responder)
      THEN reply(rollback_server_endpoint(added, h), p.responder)
      ELSE reply(added, p.responder)

discard_create(S, p) == reject_responder(release_reserved_pair_id(S, p.id), p.responder)

publish_console(S, p) ==
  IF find_pair(S, 0) \/ Cardinality(Allocated(S)) >= MaxPairs \/ ~S.create
  THEN discard_create(S, p) ELSE publish_pair(S, p, new_pair(1, FALSE, TRUE))

publish_pty(S, p) ==
  IF Cardinality(Allocated(S)) >= MaxPairs \/ ~S.create
  THEN discard_create(S, p) ELSE publish_pair(S, p, new_pair(p.generation, p.locked, FALSE))

finish_pending_create(S, p) ==
  LET done == [S EXCEPT !.creates = @ \ {p}]
  IN  IF responder_cancelled_or_closed(p.responder)
      THEN close_responder(release_reserved_pair_id(done, p.id), p.responder)
      ELSE IF p.result = "running" THEN S
      ELSE IF p.result = "failed" THEN discard_create(done, p)
      ELSE IF p.console THEN publish_console(done, p) ELSE publish_pty(done, p)

RECURSIVE FlushCreates(_, _)
FlushCreates(S, todo) ==
  IF todo = {} THEN S
  ELSE LET p == CHOOSE q \in todo : \A o \in todo : q.responder <= o.responder
       IN  FlushCreates(finish_pending_create(S, p), todo \ {p})
flush_pending_creates(S) == FlushCreates(S, S.creates)

---------------------------------------------------------------------------
\* Opening a slave: the factory validates the locator, then the pair is
\* looked up again.  The generation of the pair stands for the token too.
Openable(S, k, generation) ==
  /\ find_pair(S, k) /\ S.pairs[k].generation = generation
  /\ ~S.pairs[k].locked /\ S.pairs[k].granted
  /\ ~S.pairs[k].revoked /\ ~S.pairs[k].retiring

queue_locator_validation(S, r, k, mode) ==
  IF k = 0 \/ Cardinality(S.opens) >= MaxPairs \/ ~S.submit THEN reject_responder(S, r)
  ELSE [S EXCEPT !.opens = @ \cup
          {[responder |-> r, id |-> k, generation |-> S.pairs[k].generation,
            mode |-> mode, result |-> "running"]}]

\* Mutation: the pair is not looked at again after the validation.
open_unchecked(S, p) ==
  LET done == [S EXCEPT !.opens = @ \ {p}]
      added == [add_server_endpoint(done, p.id, FALSE, p.mode, 0)
                  EXCEPT !.ends[Len(done.ends) + 1].generation = p.generation]
  IN  IF responder_cancelled_or_closed(p.responder) THEN close_responder(done, p.responder)
      ELSE IF p.result = "running" THEN S
      ELSE IF p.result = "failed" \/ ~find_pair(S, p.id) THEN reject_responder(done, p.responder)
      ELSE reply(added, p.responder)

finish_pending_locator_open(S, p) ==
  LET done == [S EXCEPT !.opens = @ \ {p}]
      added == add_server_endpoint(done, p.id, FALSE, p.mode, 0)
  IN  IF responder_cancelled_or_closed(p.responder) THEN close_responder(done, p.responder)
      ELSE IF p.result = "running" THEN S
      ELSE IF \/ p.result = "failed" \/ ~Openable(S, p.id, p.generation)
              \/ Full(S) \/ ~S.create
      THEN reject_responder(done, p.responder)
      ELSE IF ReplyFails(S, p.responder)
      THEN reply(rollback_server_endpoint(added, Len(added.ends)), p.responder)
      ELSE reply([added EXCEPT !.ends[Len(added.ends)].generation = p.generation],
                 p.responder)

RECURSIVE FlushOpens(_, _)
FlushOpens(S, todo) ==
  IF todo = {} THEN S
  ELSE LET p == CHOOSE q \in todo : \A o \in todo : q.responder <= o.responder
       IN  FlushOpens(finish_pending_locator_open(S, p), todo \ {p})
flush_pending_locator_opens(S) == FlushOpens(S, S.opens)

---------------------------------------------------------------------------
(***************************************************************************)
(* The handlers.  A call that its handler answers goes through Respond:    *)
(* the generated dispatcher sends the response after the handler returned, *)
(* and a reply that fails undoes the endpoint the handler made.            *)
(***************************************************************************)
Respond(S, r) == reply(S, r)
RespondWithEndpoint(S, r) ==
  IF ReplyFails(S, r) THEN reply(rollback_server_endpoint(S, Len(S.ends)), r)
  ELSE reply(S, r)

open_console(S, r, call, master) ==
  IF Full(S) THEN reject_responder(S, r)
  ELSE IF ~find_pair(S, 0) \/ S.pairs[0].revoked \/ S.pairs[0].retiring
  THEN queue_pending_create(S, r, call, TRUE)
  ELSE IF ~S.create THEN reject_responder(S, r)
  ELSE RespondWithEndpoint(add_server_endpoint(S, 0, master, call.mode, 0), r)

manager_dispatch(S, r, call) ==
  CASE call.op = "create_pty" ->
         IF Full(S) \/ Cardinality(Allocated(S)) + Cardinality(S.creates) >= MaxPairs
         THEN reject_responder(S, r) ELSE queue_pending_create(S, r, call, FALSE)
    [] call.op \in {"open_pty_slave", "open_controlling"} ->
         IF Full(S) \/ ~Openable(S, call.id, call.generation) THEN reject_responder(S, r)
         ELSE queue_locator_validation(S, r, call.id, call.mode)
    [] call.op = "open_pty_slave_by_number" ->
         IF Full(S) \/ ~Openable(S, call.id, S.pairs[call.id].generation)
         THEN reject_responder(S, r) ELSE queue_locator_validation(S, r, call.id, call.mode)
    [] call.op = "open_console" -> open_console(S, r, call, FALSE)
    [] call.op = "open_console_master" -> open_console(S, r, call, TRUE)

master_read(S, h, r, call) ==
  LET k == S.ends[h].pair
      a == read_output(Core(S, k), call.size)
  IN  IF "read" \notin S.ends[h].mode THEN reject_responder(S, r)
      ELSE IF a.error = "EAGAIN" /\ ~Nonblock(S, h) /\ PerBinding(S.reads, h) < MaxPending
      THEN add_pending_read(S, h, r, call.size, TRUE, FALSE)
      ELSE IF a.error # "" THEN reject_responder(S, r)
      ELSE Respond(flush_pending_attributes(flush_pending_writes(SetCore(S, k, a.core))), r)

master_write(S, h, r, call) ==
  LET k == S.ends[h].pair
      a == receive_input(Core(S, k), call.data)
      T == Commit(SetCore(S, k, a.core), h, r, a.count)
      short == a.count < Len(call.data)
      room == PerBinding(S.writes, h) < MaxPending
  IN  IF "write" \notin S.ends[h].mode THEN reject_responder(S, r)
      ELSE IF Nonblock(S, h)
      THEN (IF a.error # "" THEN reject_responder(T, r)
            ELSE Respond(flush_pending_writes(flush_pending_reads(T)), r))
      ELSE IF ~short THEN Respond(flush_pending_writes(flush_pending_reads(T)), r)
      ELSE IF a.error \notin {"", "EAGAIN"} THEN reject_responder(T, r)
      ELSE IF room
      THEN flush_pending_reads(add_pending_write(T, h, r, call.data, a.count, TRUE, FALSE))
      ELSE IF a.count # 0 THEN Respond(flush_pending_reads(T), r)
      ELSE reject_responder(T, r)

slave_read(S, h, r, call) ==
  IF "read" \notin S.ends[h].mode \/ PerBinding(S.reads, h) >= MaxPending
  THEN reject_responder(S, r)
  ELSE flush_pending_reads(add_pending_read(S, h, r, call.size, FALSE, Nonblock(S, h)))

slave_write(S, h, r, call) ==
  IF "write" \notin S.ends[h].mode \/ PerBinding(S.writes, h) >= MaxPending
  THEN reject_responder(S, r)
  ELSE flush_pending_writes(add_pending_write(S, h, r, call.data, 0, FALSE, Nonblock(S, h)))

set_attributes(S, h, r, call) ==
  LET k == S.ends[h].pair
      c == IF call.action = 2 THEN core_flush(Core(S, k), "input") ELSE Core(S, k)
  IN  IF S.pairs[k].attribute.active THEN reject_responder(S, r)
      ELSE IF call.action # 0 /\ Core(S, k).output # 0
      THEN [S EXCEPT !.pairs[k].attribute =
              [active |-> TRUE, endpoint |-> h, responder |-> r,
               termios |-> call.termios, flush_input |-> call.action = 2]]
      ELSE Respond(flush_pending_watches(flush_pending_attributes(flush_pending_reads(
             [S EXCEPT !.pairs[k].core = set_termios(c, call.termios)]))), r)

\* The answer to the call waits for the driver action it queues.
set_winsize(S, h, r) ==
  LET k == S.ends[h].pair
  IN  IF Len(S.pairs[k].actions) >= MaxActions THEN reject_responder(S, r)
      ELSE [queue_driver_action(S, k, "notify_winsize", r)
              EXCEPT !.pairs[k].core = bump_generation(@)]

watch(S, h, r, call) ==
  IF watch_satisfied(S, h, S.ends[h].master, call.mask, call.observed) THEN Respond(S, r)
  ELSE IF PerBinding(S.watches, h) >= MaxPending THEN reject_responder(S, r)
  ELSE [S EXCEPT !.watches = Append(@,
          [endpoint |-> h, responder |-> r, mask |-> call.mask,
           observed |-> call.observed, master |-> S.ends[h].master])]

clone_binding(S, h, r, call) ==
  LET e == S.ends[h]
      kept == IF call.rights = {} THEN e.mode
              ELSE call.rights \cup (e.mode \cap {"nonblock"})
      mode == IF call.share THEN kept ELSE kept \ {"nonblock"}
      initial == IF call.nonblock THEN {"nonblock"} ELSE {}
  IN  IF Full(S) \/ mode = {} \/ ~(mode \subseteq e.mode) \/ ~S.create
      THEN reject_responder(S, r)
      ELSE RespondWithEndpoint(
             add_server_endpoint(S, e.pair, e.master, mode \cup initial,
                                 IF call.share THEN e.desc ELSE 0), r)

\* A change of the core, then a flush of what it may let go on.
On(S, h, c) == SetCore(S, S.ends[h].pair, c)
CoreOf(S, h) == Core(S, S.ends[h].pair)
notify_external_change(S, h) == On(S, h, bump_generation(CoreOf(S, h)))

flush(S, h, r, call) ==
  Respond(flush_pending_reads(On(S, h, core_flush(CoreOf(S, h), call.queue))), r)
shutdown_input_call(S, h, r) ==
  Respond(flush_pending_reads(On(S, h, shutdown_input(CoreOf(S, h)))), r)
set_flow(S, h, r, call) ==
  Respond(flush_pending_watches(On(S, h, set_paused(CoreOf(S, h), call.pause))), r)
set_status_flags(S, h, r, call) ==
  Respond(flush_pending_watches(
    [notify_external_change(S, h) EXCEPT !.descs[S.ends[h].desc].nonblock = call.nonblock]), r)
grant_slave(S, h, r) ==
  LET k == S.ends[h].pair
  IN  IF S.pairs[k].revoked \/ S.pairs[k].retiring THEN reject_responder(S, r)
      ELSE Respond(flush_pending_watches(
             [notify_external_change(S, h) EXCEPT !.pairs[k].granted = TRUE]), r)
unlock(S, h, r, call) ==
  Respond(flush_pending_watches(
    [notify_external_change(S, h) EXCEPT !.pairs[S.ends[h].pair].locked = call.locked]), r)

\* The operations both sides have; "query" stands for every get_ operation.
slave_dispatch(S, h, r, call) ==
  CASE call.op = "read" -> slave_read(S, h, r, call)
    [] call.op = "write" -> slave_write(S, h, r, call)
    [] call.op = "set_attributes" -> set_attributes(S, h, r, call)
    [] call.op = "set_winsize" -> set_winsize(S, h, r)
    [] call.op = "flush" -> flush(S, h, r, call)
    [] call.op = "shutdown_input" -> shutdown_input_call(S, h, r)
    [] call.op = "set_flow" -> set_flow(S, h, r, call)
    [] call.op = "send_break" -> reject_responder(S, r)
    [] call.op = "watch" -> watch(S, h, r, call)
    [] call.op = "clone_binding" -> clone_binding(S, h, r, call)
    [] call.op = "set_status_flags" -> set_status_flags(S, h, r, call)
    [] call.op = "query" -> Respond(S, r)

master_dispatch(S, h, r, call) ==
  CASE call.op = "read" -> master_read(S, h, r, call)
    [] call.op = "write" -> master_write(S, h, r, call)
    [] call.op = "grant_slave" -> grant_slave(S, h, r)
    [] call.op = "unlock" -> unlock(S, h, r, call)
    [] OTHER -> slave_dispatch(S, h, r, call)

\* broken: the dispatcher reports a reply that failed, and the endpoint goes.
dispatch_one(S, h, r, call, broken) ==
  LET T == IF S.ends[h].pair = Manager THEN manager_dispatch(S, r, call)
           ELSE IF S.ends[h].master THEN master_dispatch(S, h, r, call)
           ELSE slave_dispatch(S, h, r, call)
  IN  IF broken /\ T.resp[r] = "closed" THEN remove_endpoint(T, h) ELSE T

---------------------------------------------------------------------------
(***************************************************************************)
(* The generation of a core only matters by whether it still is the one a  *)
(* watch observed: Rest renames it to 1 and every other observation to 0.  *)
(***************************************************************************)
Rest(S) ==
  LET seen(h, g) == IF HasPair(S, h) /\ g = Core(S, S.ends[h].pair).generation THEN 1 ELSE 0
      fresh(h, m) == IF m.call.op # "watch" THEN m
                     ELSE [m EXCEPT !.call.observed = seen(h, m.call.observed)]
  IN  [S EXCEPT
         !.watches = [i \in DOMAIN S.watches |->
                        LET w == S.watches[i]
                        IN  [w EXCEPT !.observed = seen(w.endpoint, w.observed)]],
         !.inbox = [h \in DOMAIN S.inbox |-> [i \in DOMAIN S.inbox[h] |-> fresh(h, S.inbox[h][i])]],
         !.pairs = [k \in PairIds |-> [S.pairs[k] EXCEPT !.core.generation = 1]],
         !.late = {}, !.submit = TRUE, !.create = TRUE]

Held(S) == {r \in Requests : S.resp[r] = "held"}

\* What may go wrong during one step: a reply finds its client gone, a
\* submission or the creation of an endpoint pair fails.
Lucks(S, replied) ==
  {[late |-> {}, submit |-> TRUE, create |-> TRUE]} \cup
  (IF budget.faults = 0 THEN {}
   ELSE {[late |-> {r}, submit |-> TRUE, create |-> TRUE] : r \in replied \ gone}
        \cup {[late |-> {}, submit |-> FALSE, create |-> TRUE],
              [late |-> {}, submit |-> TRUE, create |-> FALSE]})

Under(S, luck) ==
  [S EXCEPT !.late = luck.late, !.submit = luck.submit, !.create = luck.create]

Spend(luck) ==
  /\ budget' = IF luck.late = {} /\ luck.submit /\ luck.create THEN budget
               ELSE [budget EXCEPT !.faults = @ - 1]
  /\ gone' = gone \cup luck.late

\* The head of the loop: harvest, then build the wait set.
top ==
  /\ pc = "top"
  /\ \E luck \in Lucks(s, {p.responder : p \in s.creates \cup s.opens}) :
       /\ s' = Rest(flush_driver_actions(flush_pending_locator_opens(
                 flush_pending_creates(Under(s, luck)))))
       /\ Spend(luck)
  /\ pc' = "wait"
  /\ UNCHANGED <<batch, hung>>

\* Mutation: an endpoint with a pending write is still served.
signalled_always(h) == h \in hung \/ s.inbox[h] # <<>>

Signalled(h) ==
  \/ h \in hung
  \/ s.inbox[h] # <<>> /\ ~endpoint_has_pending_write(s, h)

Woken ==
  \/ \E h \in Live(s) : Signalled(h)
  \/ \E p \in s.creates \cup s.opens : p.result # "running"
  \/ \E k \in PairIds : s.pairs[k].active.kind # "none" /\ s.pairs[k].active.result # "running"
  \/ Held(s) \cap gone # {}
  \/ \E i \in DOMAIN s.reads : s.reads[i].deadline = "expired"

wait ==
  /\ pc = "wait" /\ Woken
  /\ batch' = {h \in Live(s) : Signalled(h)}
  /\ pc' = "events"
  /\ UNCHANGED <<s, gone, hung, budget>>

\* One observed endpoint: a request if there is one, else its client is gone.
event ==
  /\ pc = "events" /\ batch # {}
  /\ LET h == Min(batch)
         m == Head(s.inbox[h])
         got == [s EXCEPT !.inbox[h] = Tail(@), !.resp[m.request] = "held"]
     IN  /\ batch' = batch \ {h}
         /\ IF h \notin Live(s) \/ (s.inbox[h] = <<>> /\ h \notin hung)
            THEN UNCHANGED <<s, gone, budget>>
            ELSE IF h = Listener THEN s' = accept(s) /\ UNCHANGED <<gone, budget>>
            ELSE IF s.inbox[h] = <<>>
            THEN s' = Rest(remove_endpoint(s, h)) /\ UNCHANGED <<gone, budget>>
            ELSE \E luck \in Lucks(s, {m.request}), broken \in BOOLEAN :
                   /\ broken => m.request \in gone \cup luck.late
                   /\ s' = Rest(dispatch_one(Under(got, luck), h, m.request, m.call, broken))
                   /\ Spend(luck)
  /\ UNCHANGED <<pc, hung>>

\* Mutation: the watches are not retried.
finish_without_watches ==
  /\ pc = "events" /\ batch = {}
  /\ \E luck \in Lucks(s, {p.responder : p \in s.creates \cup s.opens}) :
       /\ s' = Rest(flush_pending_attributes(flush_pending_writes(
                 flush_pending_reads(flush_pending_locator_opens(flush_pending_creates(
                   flush_driver_actions(Under(s, luck))))))))
       /\ Spend(luck)
  /\ pc' = "top"
  /\ UNCHANGED <<batch, hung>>

\* The tail of the loop: every pending call is tried again.
finish ==
  /\ pc = "events" /\ batch = {}
  /\ \E luck \in Lucks(s, {p.responder : p \in s.creates \cup s.opens}) :
       /\ s' = Rest(flush_pending_watches(flush_pending_attributes(flush_pending_writes(
                 flush_pending_reads(flush_pending_locator_opens(flush_pending_creates(
                   flush_driver_actions(Under(s, luck)))))))))
       /\ Spend(luck)
  /\ pc' = "top"
  /\ UNCHANGED <<batch, hung>>

---------------------------------------------------------------------------
(***************************************************************************)
(* The clients and the kernel.  The loop looks at a message, or at the     *)
(* close of a client end, only when it waits and when it serves an         *)
(* endpoint it has seen ready; arriving while the loop runs is the same as *)
(* arriving while it waits, so that is when they do.  Completions are also *)
(* looked at from top, and cancellations everywhere.                       *)
(***************************************************************************)
CallsOn(h) ==
  IF s.ends[h].pair = Manager THEN ManagerCalls[budget.start]
  ELSE IF s.ends[h].master THEN MasterCalls[budget.start] ELSE SlaveCalls[budget.start]

\* A call on an endpoint whose client end is open, sent in the order r.
call(h, c) ==
  LET r == Cardinality({q \in Requests : s.resp[q] # "unsent"}) + 1
  IN  /\ pc = "wait" /\ h \in Live(s) \ (hung \cup {Listener}) /\ r <= budget.calls
      /\ c \in CallsOn(h)
      /\ s' = [s EXCEPT !.resp[r] = "queued",
                        !.inbox[h] = Append(@, [request |-> r, call |-> c])]
      /\ UNCHANGED <<pc, batch, gone, hung, budget>>

connect ==
  /\ pc = "wait" /\ budget.connects > 0
  /\ budget' = [budget EXCEPT !.connects = @ - 1]
  /\ s' = [s EXCEPT !.inbox[Listener] = Append(@, [request |-> NoOne, call |-> [op |-> "handshake"]])]
  /\ UNCHANGED <<pc, batch, gone, hung>>

cancel(r) ==
  /\ budget.cancels > 0 /\ s.resp[r] \in {"queued", "held"} /\ r \notin gone
  /\ gone' = gone \cup {r}
  /\ budget' = [budget EXCEPT !.cancels = @ - 1]
  /\ UNCHANGED <<s, pc, batch, hung>>

close(h) ==
  /\ pc = "wait" /\ budget.closes > 0 /\ h \in Live(s) \ (hung \cup {Listener})
  /\ hung' = hung \cup {h}
  /\ budget' = [budget EXCEPT !.closes = @ - 1]
  /\ UNCHANGED <<s, pc, batch, gone>>

\* The kernel completes what ttyd submitted, or the invocation breaks.
complete ==
  /\ pc \in {"top", "wait"}
  /\ \E result \in {"ok", "failed"} :
       \/ \E p \in s.creates : /\ p.result = "running"
                               /\ s' = [s EXCEPT !.creates = (@ \ {p}) \cup
                                                   {[p EXCEPT !.result = result]}]
       \/ \E p \in s.opens : /\ p.result = "running"
                             /\ s' = [s EXCEPT !.opens = (@ \ {p}) \cup
                                                 {[p EXCEPT !.result = result]}]
       \/ \E k \in PairIds : /\ s.pairs[k].active.kind # "none"
                             /\ s.pairs[k].active.result = "running"
                             /\ s' = [s EXCEPT !.pairs[k].active.result = result]
  /\ UNCHANGED <<pc, batch, gone, hung, budget>>

\* The deadline of a VTIME read passes.
expire(i) ==
  /\ pc = "wait" /\ i \in DOMAIN s.reads /\ s.reads[i].deadline = "armed"
  /\ s' = [s EXCEPT !.reads[i].deadline = "expired"]
  /\ UNCHANGED <<pc, batch, gone, hung, budget>>

---------------------------------------------------------------------------
InitState ==
  [pairs |-> [k \in PairIds |-> no_pair], ends |-> <<manager_end, manager_end>>,
   descs |-> [h \in 1..2 |-> [Description(0, FALSE, {}) EXCEPT !.references = 0]],
   inbox |-> <<<<>>, <<>>>>, reads |-> <<>>, writes |-> <<>>, watches |-> <<>>,
   creates |-> {}, opens |-> {}, free |-> <<>>, next |-> 1,
   gens |-> [k \in PairIds |-> 0], resp |-> [r \in Requests |-> "unsent"],
   overtaken |-> {}, late |-> {}, submit |-> TRUE, create |-> TRUE]

\* A pair created, granted and unlocked, its slave not opened yet.
GrantedState ==
  add_server_endpoint([InitState EXCEPT !.pairs[1] = new_pair(1, FALSE, TRUE),
                                        !.next = 2, !.gens[1] = 1],
                      1, TRUE, {"read", "write"}, 0)

\* The slave opened, and the manager connection it was opened with closed.
OpenState ==
  add_server_endpoint([GrantedState EXCEPT !.ends[2].live = FALSE],
                      1, FALSE, {"read", "write"}, 0)

ttyd_init ==
  /\ \E start \in TtydStarts :
       /\ s = CASE start.start = "empty" -> InitState
                [] start.start = "granted" -> GrantedState
                [] start.start = "open" -> OpenState
                [] start.start = "paused" ->
                     [OpenState EXCEPT !.pairs[1].core = [@ EXCEPT !.output_paused = TRUE]]
       /\ budget = start
  /\ pc = "top" /\ batch = {} /\ gone = {} /\ hung = {}

ttyd_next ==
  \/ top \/ wait \/ event \/ finish
  \/ \E h \in DOMAIN s.ends : close(h) \/ \E c \in CallsOn(h) : call(h, c)
  \/ \E r \in Requests : cancel(r)
  \/ \E i \in DOMAIN s.reads : expire(i)
  \/ connect \/ complete

TtydSpec == ttyd_init /\ [][ttyd_next]_ttyd_vars

---------------------------------------------------------------------------
(***************************************************************************)
(* Properties.                                                             *)
(***************************************************************************)

\* The counts that decide when a pair is hung up and given back are exact:
\* every live binding names an allocated pair of the generation its client
\* was given (add_server_endpoint, finish_pending_locator_open), the three
\* counters of a pair and the references of a description count them, a pair
\* without bindings is retiring, and a pair id is either free, reserved by a
\* pending create, or in use, never two of these.
BindingsExact ==
  /\ \A h \in Live(s) : s.ends[h].pair # Manager =>
       /\ s.pairs[s.ends[h].pair].allocated
       /\ s.pairs[s.ends[h].pair].generation = s.ends[h].generation
  /\ \A k \in PairIds : LET p == s.pairs[k] IN
       /\ p.open_bindings = Cardinality(BoundTo(s, k))
       /\ p.master_bindings = Cardinality({h \in BoundTo(s, k) : s.ends[h].master})
       /\ p.slave_bindings = p.open_bindings - p.master_bindings
       /\ p.allocated => (p.retiring <=> p.open_bindings = 0)
  /\ \A d \in DOMAIN s.descs :
       s.descs[d].references = Cardinality({h \in Live(s) : s.ends[h].desc = d})
  /\ IsInjective(s.free)
  /\ \A id \in 1..MaxPairs :
       LET uses == <<id \in Range(s.free), s.pairs[id].allocated,
                     \E p \in s.creates : p.id = id>>
       IN  /\ Cardinality({p \in s.creates : p.id = id}) <= 1
           /\ Cardinality({i \in 1..3 : uses[i]}) = IF id < s.next THEN 1 ELSE 0

\* The places a responder can wait in.
Places(r) ==
    Cardinality({i \in DOMAIN s.reads : s.reads[i].responder = r})
  + Cardinality({i \in DOMAIN s.writes : s.writes[i].responder = r})
  + Cardinality({i \in DOMAIN s.watches : s.watches[i].responder = r})
  + Cardinality({p \in s.creates \cup s.opens : p.responder = r})
  + Cardinality({k \in PairIds : s.pairs[k].attribute.responder = r})
  + Cardinality({k \in PairIds : s.pairs[k].active.responder = r})
  + Cardinality(UNION {{<<k, i>> : i \in {j \in DOMAIN s.pairs[k].actions :
                          s.pairs[k].actions[j].responder = r}} : k \in PairIds})

\* A responder ttyd keeps is kept in exactly one table, and a call is settled
\* once: none is forgotten with its client waiting, whatever endpoint closes,
\* call is cancelled or kernel request fails in between (remove_endpoint, the
\* discard paths, the drop_ and flush_ functions).
RespondersHeldOnce ==
  \A r \in Requests : /\ s.resp[r] # "twice"
                      /\ Places(r) = IF s.resp[r] = "held" THEN 1 ELSE 0

\* When ttyd sleeps no pending watch is satisfied: each change of readiness,
\* of either side, is reported before the loop waits again.
WatchesServed ==
  pc = "wait" => \A i \in DOMAIN s.watches : LET w == s.watches[i] IN
    w.responder \in gone \/ ~watch_satisfied(s, w.endpoint, w.master, w.mask, w.observed)

\* The bytes of one endpoint's writes enter the line discipline in the order
\* the calls were made, although a write may stay pending in the middle of
\* its data; only after the client closed its end can a call queued behind a
\* pending write be received ahead of it (main, the wait set).
WritesInOrder == s.overtaken \subseteq hung

\* When ttyd goes to sleep with nothing signalled, every call it retains has
\* nothing to go on with: no pending read has data, no pending write has
\* room, no termios change waits for an output queue that is empty.
NothingStalled ==
  pc = "wait" /\ ~Woken =>
    /\ \A i \in DOMAIN s.reads : ReadAttempt(s, s.reads[i]).error = "EAGAIN"
    /\ \A i \in DOMAIN s.writes : is_oldest(s, s.writes[i]) =>
         LET a == WriteAttempt(s, s.writes[i]) IN a.count = 0 /\ a.error = "EAGAIN"
    /\ \A k \in PairIds : s.pairs[k].attribute.active => Core(s, k).output # 0
=============================================================================
