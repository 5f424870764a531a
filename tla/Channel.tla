------------------------------ MODULE Channel ------------------------------
(***************************************************************************)
(* Raw channels (kernel/ipc/channel.cc): two bounded queues per channel,   *)
(* receives that claim the head of a queue, endpoints that travel inside   *)
(* messages, the signals of an endpoint with the threads that wait for     *)
(* them, and the collection of channels that nobody can reach any more.    *)
(*                                                                         *)
(* An end <<c, s>> is the endpoint object of side s of channel c.  Its     *)
(* capability is in a table, in a message, or in the hands of a running    *)
(* call.  Which process owns the table does not matter here, so there is   *)
(* one table with several threads; the handles and slots of a table are in *)
(* ResourceTable.  A message is told apart by the end it carries; bytes    *)
(* are accounted by the same statements as resources and are left out.     *)
(*                                                                         *)
(* A step is one critical section (native_map_lock, lock_ of a channel) or *)
(* one access to an atomic counter: the hooks that count roots and owners  *)
(* run after the table lock is dropped and are steps of their own, and the *)
(* collector, which holds registry_lock, looks at one channel in a step.   *)
(***************************************************************************)
EXTENDS Integers, FiniteSets, SequencesExt

CONSTANTS
  Channels,     \* the channel states
  Threads,      \* threads of the processes that share the table
  NoEnd,        \* an empty khandle
  NoThread,     \* registry_lock is free
  Starts,       \* the channels that exist at the start, with the number of
                \* system calls that each thread makes at most
  Waits,        \* the signal sets that wait_many is called with
  MaxMessages,  \* max_messages_ of a channel
  MaxResources, \* max_resources_ of a channel
  GlobalMax     \* NA_CHANNEL_GLOBAL_MAX_MESSAGES

Ends == Channels \X {0, 1}
Peer(e) == <<e[1], 1 - e[2]>>
Sides(c) == {<<c, 0>>, <<c, 1>>}

READABLE == "READABLE"
WRITABLE == "WRITABLE"
PEER_CLOSED == "PEER_CLOSED"

ASSUME ChannelConstants ==
  /\ NoEnd \notin Ends /\ NoThread \notin Threads
  /\ Starts \subseteq (SUBSET Channels) \X [Threads -> Nat]
  /\ Waits \subseteq SUBSET {READABLE, WRITABLE, PEER_CLOSED}
  /\ MaxMessages \in Nat \ {0} /\ MaxResources \in Nat \ {0} /\ GlobalMax \in Nat

VARIABLES
  chan,      \* whether the channel_state does not exist yet, exists or is deleted
  fifo,      \* queues_: the messages waiting at each end
  claimed,   \* bounded_queue::claimed_
  table,     \* the ends with an active table entry
  kernel,    \* the ends a kernel producer holds
  owners,    \* owners_
  roots,     \* roots_
  ops,       \* active_operations_
  used,      \* global_messages
  registry,  \* the registered channels in the order of their creation
  thread,    \* where each thread is
  fresh,     \* threads whose loaded wait_generation is still the current one
  gc,        \* the running collection
  silent,    \* history: waiters whose signals have changed without a notification
  calls,     \* how many calls each thread may still make
  moving,    \* history: an end was under way at some time of this collection
  quiet      \* history: nobody else has moved since this collection began

queues == <<fifo, claimed, used>>
capabilities == <<table, kernel, owners, roots>>
waiting == <<fresh, silent>>
vars == <<chan, fifo, claimed, table, kernel, owners, roots, ops, used, registry, thread,
          fresh, gc, silent, calls, moving, quiet>>

----------------------------------------------------------------------------
(* Messages, threads, reachability *)

\* A message carries an end, nothing, or the empty shell of an end that a
\* receive has moved out.
Plain == <<"plain", 0>>
Spent == <<"spent", 0>>
Carries(m) == m \notin {Plain, Spent}
CarriedIn(s) == {s[i] : i \in {j \in DOMAIN s : Carries(s[j])}}

Idle == [pc |-> "idle", op |-> "none", on |-> NoEnd, rec |-> NoEnd, then |-> "idle",
         item |-> NoEnd, want |-> {}, due |-> FALSE]
Goto(t, l) == thread' = [thread EXCEPT ![t].pc = l]
At(t, l) == thread[t].pc = l

Gc == [by |-> NoThread, phase |-> "none", states |-> <<>>, i |-> 1, marked |-> {}, work |-> <<>>]

\* An end travels between a table and a queue in the hands of a call.
\* While one does, neither the table's roots nor the queues show it.
InTransit(t) == thread[t].rec # NoEnd /\ thread[t].pc \in {"handoff", "enqueue", "restore", "restored", "activated", "created"}

\* Endpoint objects that exist: somebody has a khandle of them.
Alive(e) == \/ e \in table \cup kernel
            \/ \E t \in Threads : thread[t].on = e \/ thread[t].rec = e
            \/ \E f \in Ends : e \in CarriedIn(fifo[f])

\* endpoint_object_count
endpoint_objects(c) == Cardinality({e \in Sides(c) : Alive(e)})

has_root(c) == \E e \in Sides(c) : roots[e] # 0
active_claims(c) == Cardinality({e \in Sides(c) : claimed[e]})

can_reap(c) == ~ has_root(c) /\ ops[c] = 0 /\ active_claims(c) = 0

\* collect_reachable_states: the channels of the ends queued in c.
collect_reachable_states(c) == {e[1] : e \in UNION {CarriedIn(fifo[f]) : f \in Sides(c)}}

\* What a process can still get at: from the ends in its table, through the
\* messages queued in them.
QueuedIn(c) == {e[1] : e \in CarriedIn(fifo[<<c, 0>>]) \cup CarriedIn(fifo[<<c, 1>>])}
Step(C) == C \cup UNION {QueuedIn(c) : c \in C}
Closure[n \in 0 .. Cardinality(Channels)] ==
  IF n = 0 THEN {e[1] : e \in table}
           ELSE Step(Closure[n - 1])
Reachable == Closure[Cardinality(Channels)]

\* The resource count of a queue includes shells.
resources(e) == Len(SelectSeq(fifo[e], LAMBDA m : m # Plain))

\* capability_signals of an end; a handle that is not in the table has none.
signals(e) ==
  IF e \notin table THEN {}
  ELSE (IF fifo[e] # <<>> THEN {READABLE} ELSE {})
       \cup (IF owners[Peer(e)] = 0 THEN {PEER_CLOSED}
             ELSE IF /\ Len(fifo[Peer(e)]) < MaxMessages
                     /\ resources(Peer(e)) < MaxResources
                  THEN {WRITABLE} ELSE {})

\* Some channels exist already, both ends in the table, when the threads start.
Init == \E st \in Starts :
  LET C == st[1]
      here(e) == IF e[1] \in C THEN 1 ELSE 0
  IN /\ chan = [c \in Channels |-> IF c \in C THEN "live" ELSE "none"]
     /\ fifo = [e \in Ends |-> <<>>]
     /\ claimed = [e \in Ends |-> FALSE]
     /\ table = UNION {Sides(c) : c \in C} /\ kernel = {}
     /\ owners = [e \in Ends |-> here(e)] /\ roots = [e \in Ends |-> here(e)]
     /\ ops = [c \in Channels |-> 0]
     /\ used = 0 /\ registry \in SetToSeqs(C)
     /\ thread = [t \in Threads |-> Idle]
     /\ fresh = {} /\ silent = {}
     /\ gc = Gc
     /\ calls = st[2] /\ moving = FALSE /\ quiet = FALSE

\* Threads between their test and their sleep, or asleep, for an end in S.
Waiters(S) == {t \in fresh : thread[t].item \in S}

\* notify_channel_waiters
notify(t) ==
  /\ At(t, "notify")
  /\ fresh' = {} /\ silent' = {}
  /\ thread' = [thread EXCEPT ![t].pc = thread[t].then, ![t].then = "idle"]
  /\ UNCHANGED <<chan, queues, capabilities, ops, registry, gc>>

----------------------------------------------------------------------------
(* Calls on an end: channel_send, channel_receive, channel_discard *)

\* Handles that a process knows: channel_create has returned.
Known == {e \in table : \A t \in Threads : At(t, "created") => thread[t].on[1] # e[1]}

\* lookup_native gives the call its own reference to the endpoint object.
lookup_native(t, e, op) ==
  /\ At(t, "idle") /\ op \in {"send", "receive", "discard"}
  /\ e \in Known
  /\ thread' = [thread EXCEPT ![t].pc = "begin", ![t].op = op, ![t].on = e]
  /\ UNCHANGED <<chan, queues, capabilities, ops, registry, waiting, gc>>

\* A kernel producer sends through its own khandle (send_raw_channel_kernel).
kernel_send(t, e) ==
  /\ At(t, "idle") /\ e \in kernel
  /\ thread' = [thread EXCEPT ![t].pc = "begin", ![t].op = "ksend", ![t].on = e]
  /\ UNCHANGED <<chan, queues, capabilities, ops, registry, waiting, gc>>

begin_operation(t) ==
  /\ At(t, "begin")
  /\ ops' = [ops EXCEPT ![thread[t].on[1]] = @ + 1]
  /\ Goto(t, CASE thread[t].op = "send" -> "take"
               [] thread[t].op = "ksend" -> "enqueue"
               [] thread[t].op = "receive" -> "claim"
               [] thread[t].op = "discard" -> "discard")
  /\ UNCHANGED <<chan, queues, capabilities, registry, waiting, gc>>

end_operation(t) ==
  /\ At(t, "end")
  /\ ops' = [ops EXCEPT ![thread[t].on[1]] = @ - 1]
  /\ Goto(t, "drop")
  /\ UNCHANGED <<chan, queues, capabilities, registry, waiting, gc>>

\* The call returns and drops its reference to the endpoint object.
return(t) ==
  /\ At(t, "drop")
  /\ thread' = [thread EXCEPT ![t] = Idle]
  /\ UNCHANGED <<chan, queues, capabilities, ops, registry, waiting, gc>>

\* send_raw_channel: the frame is refused (the call ends without a
\* collection), or the message is built and its resource taken out of the
\* table.  The endpoint of the call itself cannot be sent.
send_raw_channel(t) ==
  /\ At(t, "take")
  /\ \/ /\ Goto(t, "end")
        /\ UNCHANGED table
     \/ /\ Goto(t, "enqueue")
        /\ UNCHANGED table
     \/ \E r \in Known \ {thread[t].on} :
          /\ table' = table \ {r}
          /\ thread' = [thread EXCEPT ![t].pc = "handoff", ![t].rec = r]
  /\ UNCHANGED <<chan, queues, kernel, owners, roots, ops, registry, waiting, gc>>

\* The hooks of take_native_batch: the transit owner replaces the root.
on_capability_handoff(t) ==
  /\ At(t, "handoff")
  /\ roots' = [roots EXCEPT ![thread[t].rec] = @ - 1]
  /\ Goto(t, "enqueue")
  /\ UNCHANGED <<chan, queues, table, kernel, owners, ops, registry, waiting, gc>>

\* The three counters of a queue and of the system that can refuse a message.
Admitted(e, r) ==
  /\ Len(fifo[e]) < MaxMessages
  /\ resources(e) + (IF r = NoEnd THEN 0 ELSE 1) <= MaxResources
  /\ used < GlobalMax

\* Mutated form: the waiters are not told.
enqueue_silently(t) ==
  LET e == Peer(thread[t].on)
      r == thread[t].rec
  IN /\ At(t, "enqueue")
     /\ owners[e] # 0 /\ Admitted(e, r)
     /\ fifo' = [fifo EXCEPT ![e] = Append(@, IF r = NoEnd THEN Plain ELSE r)]
     /\ used' = used + 1
     /\ thread' = [thread EXCEPT ![t].pc = "collect", ![t].rec = NoEnd]
     /\ UNCHANGED <<chan, claimed, capabilities, ops, registry, waiting, gc>>

\* enqueue and enqueue_kernel: refused when the peer is gone or a limit is
\* reached, and then the resource goes back to the table.
enqueue(t) ==
  LET e == Peer(thread[t].on)
      r == thread[t].rec
  IN /\ At(t, "enqueue")
     /\ \/ /\ owners[e] # 0 /\ Admitted(e, r)
           /\ fifo' = [fifo EXCEPT ![e] = Append(@, IF r = NoEnd THEN Plain ELSE r)]
           /\ used' = used + 1
           /\ thread' = [thread EXCEPT ![t].pc = "notify", ![t].then = "collect", ![t].rec = NoEnd]
        \/ /\ owners[e] = 0 \/ ~ Admitted(e, r)
           /\ Goto(t, IF r = NoEnd THEN "collect" ELSE "restore")
           /\ UNCHANGED <<fifo, used>>
     /\ UNCHANGED <<chan, claimed, capabilities, ops, registry, waiting, gc>>

restore_native_batch(t) ==
  /\ At(t, "restore")
  /\ table' = table \cup {thread[t].rec}
  /\ silent' = silent \cup Waiters({thread[t].rec})
  /\ Goto(t, "restored")
  /\ UNCHANGED <<chan, queues, kernel, owners, roots, ops, registry, fresh, gc>>

\* The hooks of restore_native_batch and of activate_native: a root replaces
\* the transit owner.
on_capability_acquire(t) ==
  /\ \E l \in {<<"restored", "collect">>, <<"activated", "commit">>} :
       /\ At(t, l[1])
       /\ thread' = [thread EXCEPT ![t].pc = l[2], ![t].rec = NoEnd]
  /\ roots' = [roots EXCEPT ![thread[t].rec] = @ + 1]
  /\ UNCHANGED <<chan, queues, table, kernel, owners, ops, registry, waiting, gc>>

claim_receive(t) ==
  /\ At(t, "claim")
  /\ IF fifo[thread[t].on] = <<>> \/ claimed[thread[t].on]
     THEN Goto(t, "end") /\ UNCHANGED claimed
     ELSE /\ claimed' = [claimed EXCEPT ![thread[t].on] = TRUE]
          /\ Goto(t, "copy")
  /\ UNCHANGED <<chan, fifo, used, capabilities, ops, registry, waiting, gc>>

\* receive_raw_channel: the buffers are too small, the copy faults or the
\* table is full, or the message is copied out and its resource activated in
\* the slot that was reserved for it.  The handle is a new one: who waits with
\* an earlier handle of the end waits with a handle that is not valid.
receive_raw_channel(t) ==
  LET m == Head(fifo[thread[t].on])
  IN /\ At(t, "copy")
     /\ \/ Goto(t, "cancel") /\ UNCHANGED <<fifo, table>>
        \/ ~ Carries(m) /\ Goto(t, "commit") /\ UNCHANGED <<fifo, table>>
        \/ /\ Carries(m)
           /\ table' = table \cup {m}
           /\ fifo' = [fifo EXCEPT ![thread[t].on][1] = Spent]
           /\ thread' = [u \in Threads |-> IF u = t THEN [thread[t] EXCEPT !.pc = "activated", !.rec = m]
                                        ELSE IF thread[u].item = m THEN [thread[u] EXCEPT !.item = NoEnd]
                                        ELSE thread[u]]
     /\ UNCHANGED <<chan, claimed, used, kernel, owners, roots, ops, registry, waiting, gc>>

cancel_receive(t) ==
  /\ At(t, "cancel")
  /\ claimed' = [claimed EXCEPT ![thread[t].on] = FALSE]
  /\ thread' = [thread EXCEPT ![t].pc = "notify", ![t].then = "end"]
  /\ UNCHANGED <<chan, fifo, used, capabilities, ops, registry, waiting, gc>>

commit_receive(t) ==
  /\ At(t, "commit")
  /\ fifo' = [fifo EXCEPT ![thread[t].on] = Tail(@)]
  /\ claimed' = [claimed EXCEPT ![thread[t].on] = FALSE]
  /\ used' = used - 1
  /\ thread' = [thread EXCEPT ![t].pc = "notify", ![t].then = "collect"]
  /\ UNCHANGED <<chan, capabilities, ops, registry, waiting, gc>>

\* discard: the head, unless a receive has claimed it.
discard(t) ==
  /\ At(t, "discard")
  /\ IF fifo[thread[t].on] = <<>> \/ claimed[thread[t].on]
     THEN Goto(t, "discarded") /\ UNCHANGED <<fifo, used>>
     ELSE LET m == Head(fifo[thread[t].on])
          IN /\ fifo' = [fifo EXCEPT ![thread[t].on] = Tail(@)]
             /\ used' = used - 1
             /\ thread' = [thread EXCEPT ![t].pc = "notify", ![t].then = "discarded",
                                         ![t].rec = IF Carries(m) THEN m ELSE NoEnd]
  /\ UNCHANGED <<chan, claimed, capabilities, ops, registry, waiting, gc>>

\* discard_raw_channel ends the operation first and deletes the message then.
discard_raw_channel(t) ==
  /\ At(t, "discarded")
  /\ ops' = [ops EXCEPT ![thread[t].on[1]] = @ - 1]
  /\ Goto(t, IF thread[t].rec = NoEnd THEN "collect" ELSE "release")
  /\ UNCHANGED <<chan, queues, capabilities, registry, waiting, gc>>

\* release_transit of the resource in a deleted message.
release_transit(t) ==
  /\ At(t, "release")
  /\ owners' = [owners EXCEPT ![thread[t].rec] = @ - 1]
  /\ silent' = silent \cup Waiters({Peer(thread[t].rec)})
  /\ thread' = [thread EXCEPT ![t].pc = "collect", ![t].rec = NoEnd]
  /\ UNCHANGED <<chan, queues, table, kernel, roots, ops, registry, fresh, gc>>

----------------------------------------------------------------------------
(* handle_close, channel_create and the producers of the kernel *)

handle_close(t, e) ==
  /\ At(t, "idle") /\ e \in Known
  /\ table' = table \ {e}
  /\ thread' = [thread EXCEPT ![t].pc = "closing", ![t].op = "close", ![t].rec = e]
  /\ UNCHANGED <<chan, queues, kernel, owners, roots, ops, registry, waiting, gc>>

on_capability_release(t) ==
  /\ At(t, "closing")
  /\ owners' = [owners EXCEPT ![thread[t].rec] = @ - 1]
  /\ roots' = [roots EXCEPT ![thread[t].rec] = @ - 1]
  /\ silent' = silent \cup Waiters({Peer(thread[t].rec)})
  /\ thread' = [thread EXCEPT ![t].pc = "collect", ![t].rec = NoEnd]
  /\ UNCHANGED <<chan, queues, table, kernel, ops, registry, fresh, gc>>

\* create_raw_channel registers the state and makes its endpoint objects.
\* The creating call holds both, which on = <<c, 0>> and rec = <<c, 1>> say.
\* The caller is channel_create or the kernel ("kcreate"), which keeps side 0
\* for a producer of its own.
create_raw_channel(t, c, op) ==
  /\ At(t, "idle") /\ op \in {"create", "kcreate"} /\ chan[c] = "none"
  /\ chan' = [chan EXCEPT ![c] = "live"]
  /\ registry' = Append(registry, c)
  /\ thread' = [thread EXCEPT ![t].pc = "create", ![t].op = op, ![t].on = <<c, 0>>, ![t].rec = <<c, 1>>]
  /\ UNCHANGED <<queues, capabilities, ops, waiting, gc>>

\* channel_create: no slots, or both ends become active table entries whose
\* transit owner is counted already; the kernel keeps an end as its owner.
channel_create(t) ==
  LET both == Sides(thread[t].on[1])
  IN /\ At(t, "create")
     /\ \/ /\ thread' = [thread EXCEPT ![t] = [Idle EXCEPT !.pc = "collect", !.op = "create"]]
           /\ UNCHANGED capabilities
        \/ /\ kernel' = IF thread[t].op = "kcreate" THEN kernel \cup {thread[t].on} ELSE kernel
           /\ table' = table \cup (both \ kernel')
           /\ owners' = [e \in Ends |-> IF e \in both THEN owners[e] + 1 ELSE owners[e]]
           /\ Goto(t, "created")
           /\ UNCHANGED roots
     /\ UNCHANGED <<chan, queues, ops, registry, waiting, gc>>

\* The roots are counted; if the handles cannot be written out they are
\* closed again, without a collection.
channel_created(t) ==
  LET both == Sides(thread[t].on[1])
  IN /\ At(t, "created")
     /\ \/ /\ roots' = [e \in Ends |-> IF e \in both \ kernel THEN roots[e] + 1 ELSE roots[e]]
           /\ UNCHANGED <<table, owners>>
        \/ /\ thread[t].op = "create"
           /\ table' = table \ both
           /\ owners' = [e \in Ends |-> IF e \in both THEN owners[e] - 1 ELSE owners[e]]
           /\ UNCHANGED roots
     /\ thread' = [thread EXCEPT ![t] = Idle]
     /\ UNCHANGED <<chan, queues, kernel, ops, registry, waiting, gc>>

\* The producer of an input event source drops its end.
kernel_owner_released(e) ==
  /\ e \in kernel /\ Peer(e) \notin table \ Known
  /\ kernel' = kernel \ {e}
  /\ owners' = [owners EXCEPT ![e] = @ - 1]
  /\ silent' = silent \cup Waiters({Peer(e)})
  /\ UNCHANGED <<chan, queues, table, roots, ops, registry, thread, fresh, gc>>

----------------------------------------------------------------------------
(* wait_many and wait_for_signal *)

\* wait_for_signal is wait_many with one item and no deadline in its only use.
wait_many(t, e, S) ==
  /\ At(t, "idle") /\ e \in Known
  /\ thread' = [thread EXCEPT ![t].pc = "load", ![t].op = "wait", ![t].item = e, ![t].want = S]
  /\ UNCHANGED <<chan, queues, capabilities, ops, registry, waiting, gc>>

load_generation(t) ==
  /\ At(t, "load")
  /\ fresh' = fresh \cup {t} /\ silent' = silent \ {t}
  /\ Goto(t, "test")
  /\ UNCHANGED <<chan, queues, capabilities, ops, registry, gc>>

\* The item's handle is looked up again at every test.
Satisfied(t) == signals(thread[t].item) \cap thread[t].want # {}

wait_condition(t) ==
  /\ At(t, "test")
  /\ IF Satisfied(t) \/ thread[t].due
     THEN thread' = [thread EXCEPT ![t] = Idle] /\ fresh' = fresh \ {t} /\ silent' = silent \ {t}
     ELSE Goto(t, "sleep") /\ UNCHANGED waiting
  /\ UNCHANGED <<chan, queues, capabilities, ops, registry, gc>>

\* do_wait returns when the generation is not the loaded one any more.
do_wait(t) ==
  /\ At(t, "sleep") /\ t \notin fresh
  /\ Goto(t, "load")
  /\ UNCHANGED <<chan, queues, capabilities, ops, registry, waiting, gc>>

\* The deadline of a waiter, which wakes everybody.
wait_deadline_wakeup(t) ==
  /\ thread[t].op = "wait" /\ ~ thread[t].due
  /\ thread' = [thread EXCEPT ![t].due = TRUE]
  /\ fresh' = {} /\ silent' = {}
  /\ UNCHANGED <<chan, queues, capabilities, ops, registry, gc>>

----------------------------------------------------------------------------
(* collect_orphaned_channels *)

\* What follows the collection of a call.
AfterCollect == [send |-> "end", ksend |-> "end", receive |-> "end", discard |-> "drop"]

Current == gc.states[gc.i]
\* Mutated form: the loop ends before the last state.
Done_early == gc.i >= Len(gc.states)
Done == gc.i > Len(gc.states)
Enter(g, p) == [g EXCEPT !.phase = p, !.i = 1]
Advance(g, p) == IF g.i < Len(g.states) THEN [g EXCEPT !.i = @ + 1] ELSE Enter(g, p)

\* registry_lock is taken and the registered states are copied.
collect_orphaned_channels(t) ==
  /\ At(t, "collect") /\ gc.by = NoThread
  /\ gc' = [Gc EXCEPT !.by = t, !.phase = IF registry = <<>> THEN "reap" ELSE "mark", !.states = registry]
  /\ UNCHANGED <<chan, queues, capabilities, ops, registry, thread, waiting>>

\* A channel with a root or in use is where the search starts.
mark ==
  /\ gc.phase = "mark"
  /\ gc' = IF has_root(Current) \/ ~ can_reap(Current)
           THEN Advance([gc EXCEPT !.marked = @ \cup {Current}, !.work = Append(@, Current)], "trace")
           ELSE Advance(gc, "trace")
  /\ UNCHANGED <<chan, queues, capabilities, ops, registry, thread, waiting>>

\* A sequence with the elements of S, a set of channels, in registry order.
InOrder(S) == SelectSeq(gc.states, LAMBDA c : c \in S)

trace ==
  /\ gc.phase = "trace"
  /\ gc' = IF gc.work = <<>> THEN Enter(gc, "discard")
           ELSE LET new == collect_reachable_states(Head(gc.work)) \ gc.marked
                IN [gc EXCEPT !.work = Tail(@) \o InOrder(new), !.marked = @ \cup new]
  /\ UNCHANGED <<chan, queues, capabilities, ops, registry, thread, waiting>>

\* Mutated form: the ends in the messages are not released.
Delete_unreleased(s) ==
  /\ fifo' = [e \in Ends |-> IF e \in s THEN <<>> ELSE fifo[e]]
  /\ used' = used - Cardinality({<<e, i>> \in s \X (1 .. MaxMessages) : i \in DOMAIN fifo[e]})
  /\ UNCHANGED <<owners, silent>>

\* Messages are deleted, and with them the ends in them.
Delete(s) ==
  LET dead == UNION {CarriedIn(fifo[e]) : e \in s}
  IN /\ fifo' = [e \in Ends |-> IF e \in s THEN <<>> ELSE fifo[e]]
     /\ used' = used - Cardinality({<<e, i>> \in s \X (1 .. MaxMessages) : i \in DOMAIN fifo[e]})
     /\ owners' = [e \in Ends |-> IF e \in dead THEN owners[e] - 1 ELSE owners[e]]
     /\ silent' = silent \cup Waiters({Peer(e) : e \in dead})

Collectable == Current \notin gc.marked /\ can_reap(Current)

\* A queue is emptied up to a head that a receive has claimed meanwhile.
discard_orphan_messages ==
  /\ gc.phase = "discard"
  /\ gc' = Advance(gc, "reap")
  /\ IF Collectable
     THEN Delete({e \in Sides(Current) : ~ claimed[e]}) /\ fresh' = {}
     ELSE UNCHANGED <<fifo, used, owners, waiting>>
  /\ UNCHANGED <<chan, claimed, table, kernel, roots, ops, registry, thread>>

\* Mutated form: the endpoint objects are not counted.
Reapable_alive == Collectable

Reapable == Collectable /\ endpoint_objects(Current) = 0

\* The state is deleted, its destructor deletes what is left in the queues.
reap ==
  /\ gc.phase = "reap"
  /\ IF Done
     THEN /\ gc' = Gc
          /\ IF thread[gc.by].op \in {"close", "create"}
             THEN thread' = [thread EXCEPT ![gc.by] = Idle]
             ELSE Goto(gc.by, AfterCollect[thread[gc.by].op])
          /\ UNCHANGED <<chan, fifo, used, owners, registry, silent>>
     ELSE /\ gc' = [gc EXCEPT !.i = @ + 1]
          /\ IF Reapable
             THEN /\ chan' = [chan EXCEPT ![Current] = "freed"]
                  /\ registry' = SelectSeq(registry, LAMBDA c : c # Current)
                  /\ Delete(Sides(Current))
             ELSE UNCHANGED <<chan, fifo, used, owners, registry, silent>>
          /\ UNCHANGED thread
  /\ UNCHANGED <<claimed, table, kernel, roots, ops, fresh>>

----------------------------------------------------------------------------

\* The steps of the collection and those of everybody else.
CollectStep == mark \/ trace \/ discard_orphan_messages \/ reap

CallStep(t) ==
  \/ notify(t) \/ begin_operation(t) \/ end_operation(t) \/ return(t)
  \/ send_raw_channel(t) \/ on_capability_handoff(t) \/ enqueue(t)
  \/ restore_native_batch(t) \/ on_capability_acquire(t)
  \/ claim_receive(t) \/ receive_raw_channel(t) \/ cancel_receive(t) \/ commit_receive(t)
  \/ discard(t) \/ discard_raw_channel(t) \/ release_transit(t)
  \/ on_capability_release(t) \/ channel_create(t) \/ channel_created(t)
  \/ load_generation(t) \/ wait_condition(t) \/ do_wait(t)

StartStep(t) ==
  \/ \E e \in Ends : \/ \E op \in {"send", "receive", "discard"} : lookup_native(t, e, op)
                     \/ kernel_send(t, e)
                     \/ handle_close(t, e)
                     \/ \E S \in Waits : wait_many(t, e, S)
  \/ \E c \in Channels, op \in {"create", "kcreate"} : create_raw_channel(t, c, op)

OtherStep ==
  \/ \E t \in Threads : StartStep(t) /\ calls[t] > 0 /\ calls' = [calls EXCEPT ![t] = @ - 1]
  \/ \E t \in Threads : (CallStep(t) \/ wait_deadline_wakeup(t)) /\ UNCHANGED calls
  \/ \E e \in Ends : kernel_owner_released(e) /\ UNCHANGED calls

\* A collection starts alone if every other thread is outside a call.
Next ==
  \/ /\ \E t \in Threads : collect_orphaned_channels(t)
     /\ UNCHANGED calls
     /\ moving' = (\E t \in Threads : InTransit(t))
     /\ quiet' = (\A t \in Threads : At(t, "idle") \/ t = gc'.by \/ thread[t].op = "wait")
  \/ /\ CollectStep
     /\ UNCHANGED calls
     /\ moving' = (gc'.by # NoThread /\ moving)
     /\ quiet' = (gc'.by # NoThread /\ quiet)
  \/ /\ OtherStep
     /\ moving' = (gc.by # NoThread /\ (moving \/ \E t \in Threads : InTransit(t)'))
     /\ quiet' = FALSE

Spec == Init /\ [][Next]_vars

----------------------------------------------------------------------------
(* Properties *)

\* How many hooks a thread still has to run for an end in the table that
\* owes it a root, or that is out of the table with a root left.
OwedRoots(e) ==
  Cardinality({t \in Threads : \/ thread[t].pc \in {"restored", "activated"} /\ thread[t].rec = e
                               \/ At(t, "created") /\ e \in Sides(thread[t].on[1]) \ kernel})
  - Cardinality({t \in Threads : thread[t].pc \in {"handoff", "closing"} /\ thread[t].rec = e})

\* Places that own the capability of an end, a deleted message that has not
\* run its release yet included.
Places(e) ==
  Cardinality({f \in Ends : e \in CarriedIn(fifo[f])})
  + (IF e \in table THEN 1 ELSE 0) + (IF e \in kernel THEN 1 ELSE 0)
  + Cardinality({t \in Threads : /\ thread[t].rec = e
                                 /\ thread[t].pc \notin {"restored", "activated", "create", "created"}})

\* roots_ and owners_ agree with where the capability of an end is, up to the
\* hooks that calls in progress still have to run, and that is never two
\* places; the global message count is the number of queued messages.  The
\* hooks of capability.hpp and resource.cc run outside the locks, in any
\* order with those of other calls on the same end.
CountersExact ==
  /\ \A e \in Ends :
       /\ roots[e] + OwedRoots(e) = (IF e \in table THEN 1 ELSE 0)
       /\ owners[e] = Places(e)
       /\ owners[e] <= 1
  /\ used = Cardinality({<<e, i>> \in Ends \X (1 .. MaxMessages) : i \in DOMAIN fifo[e]})

\* A deleted channel_state is never touched again: no endpoint object points
\* to it (raw_channel_endpoint keeps a plain pointer), no call runs on it and
\* no message waits in it.
NoDanglingState ==
  \A c \in Channels : chan[c] = "freed" =>
    /\ endpoint_objects(c) = 0 /\ ops[c] = 0 /\ active_claims(c) = 0
    /\ \A e \in Sides(c) : fifo[e] = <<>>

\* A thread that sleeps in wait_many while its condition holds is about to be
\* notified, unless what made the condition true was the end of the peer or
\* the return of the handle after a failed send: those two notify nobody.
WakeupReachesWaiter ==
  \A t \in Threads :
    (At(t, "sleep") /\ t \in fresh /\ Satisfied(t) /\ t \notin silent)
      => \E u \in Threads : At(u, "notify")

\* This step is the collection throwing away messages of c.
Discarded(c) == /\ gc.phase = "discard" /\ gc' # gc /\ Current = c
                /\ \E e \in Sides(c) : fifo'[e] # fifo[e]

CollectComplete ==
  (gc.phase = "reap" /\ Done /\ quiet /\ thread[gc.by].on = NoEnd) =>
    \A c \in Channels : chan[c] = "live" => c \in Reachable \/ Sides(c) \cap kernel # {}

\* A collection that no transfer of an end overlaps discards only messages
\* of channels that nobody can reach, and the collection after a close that
\* runs alone leaves no channel behind that nobody can reach and the kernel
\* does not hold, cycles of channels that are queued in each other included
\* (collect_orphaned_channels).
CollectionExact ==
  [][/\ \A c \in Channels : ~ moving /\ Discarded(c) => c \notin Reachable
     /\ CollectComplete]_vars
=============================================================================
