----------------------------- MODULE Scheduler -----------------------------
(***************************************************************************)
(* The processors and their run queues (kernel/scheduler.cc, schedulers/): *)
(* the state changes of a thread, the switch, the timer tick, migration    *)
(* and the calls that one processor makes on another.                      *)
(*                                                                         *)
(* The lists of a processor are touched by that processor alone, with      *)
(* interrupts disabled, so each function is one step of its processor.     *)
(* The blocked list of a processor stands for the two that the schedulers  *)
(* keep (a thread never changes its scheduler); which runnable thread the  *)
(* fair scheduler picks depends on virtual times and is left open.         *)
(***************************************************************************)
EXTENDS Naturals, Sequences, FiniteSets, SequencesExt

CONSTANTS
  Cpus,
  Threads,       \* all but the idle threads
  RealTime,      \* threads of the round-robin scheduler
  Idle, NoThread,
  Span,          \* ticks in a round-robin slice (calc_span)
  CallCapacity   \* call_cpu_queue_capacity

ASSUME SchedulerConstants ==
  /\ RealTime \subseteq Threads /\ Idle \notin Threads /\ NoThread \notin Threads
  /\ Span \in Nat \ {0} /\ CallCapacity \in Nat \ {0}

VARIABLES
  state,      \* thread_state: "ready", "running", "stop"
  need,       \* threads with the attribute need_schedule
  block,      \* ... block_to_stop
  stopped,    \* ... job_control_stopped
  migrating,  \* ... on_migrate
  cpuid,      \* the processor a thread belongs to
  rr,         \* runable_list of the round-robin scheduler, per processor
  fair,       \* runable_list of the fair scheduler
  blocked,    \* block_threads, block_list
  current,    \* the thread on a processor
  span,       \* rest_span of a real-time thread
  calls,      \* call_cpu_queue of a processor
  slot,       \* thread_to_reschedule
  slotReady,  \* reschedule_ready
  ipi,        \* processors with a pending reschedule interrupt
  clearing,   \* processors between the last two assignments of reschedule_func
  panicked    \* trace::panic, or a call through a null pointer

listVars == <<rr, fair, blocked>>
threadVars == <<state, need, block>>
migrateVars == <<migrating, cpuid, slot, slotReady, ipi, clearing>>
schedVars == <<threadVars, stopped, listVars, current, span, calls, migrateVars, panicked>>

SchedInit ==
  /\ state = [t \in Threads |-> "ready"]
  /\ need = {} /\ block = {} /\ stopped = {} /\ migrating = {}
  /\ cpuid \in [Threads -> Cpus]
  /\ rr = [c \in Cpus |-> SetToSeq({t \in RealTime : cpuid[t] = c})]
  /\ fair = [c \in Cpus |-> SetToSeq({t \in Threads \ RealTime : cpuid[t] = c})]
  /\ blocked = [c \in Cpus |-> <<>>]
  /\ current = [c \in Cpus |-> Idle]
  /\ span = [t \in RealTime |-> Span]
  /\ calls = [c \in Cpus |-> <<>>]
  /\ slot = NoThread /\ slotReady = TRUE /\ ipi = {} /\ clearing = {}
  /\ panicked = FALSE

----------------------------------------------------------------------------
(* update_state *)

In(t, list) == Contains(list, t)

Runnable(c, t) == IF t \in RealTime THEN In(t, rr[c]) ELSE In(t, fair[c])
Push(list, c, t) == [list EXCEPT ![c] = Append(@, t)]
Pull(list, c, t) == [list EXCEPT ![c] = RemoveFirst(@, t)]

Panic == panicked' = TRUE /\ UNCHANGED <<threadVars, listVars>>

InsertRunnable(c, t) ==
  IF t \in RealTime THEN rr' = Push(rr, c, t) /\ UNCHANGED fair
                    ELSE fair' = Push(fair, c, t) /\ UNCHANGED rr

RemoveRunnable(c, t) ==
  IF t \in RealTime THEN rr' = Pull(rr, c, t) /\ UNCHANGED fair
                    ELSE fair' = Pull(fair, c, t) /\ UNCHANGED rr

\* Mutated form: a wake-up is not remembered by a thread that still runs.
update_state_ready_late(c, t) ==
  \/ /\ t \notin stopped' /\ state[t] = "stop" /\ In(t, blocked[c])
     /\ state' = [state EXCEPT ![t] = "ready"]
     /\ blocked' = Pull(blocked, c, t)
     /\ block' = block \ {t}
     /\ InsertRunnable(c, t)
     /\ UNCHANGED <<need, panicked>>
  \/ /\ t \in stopped' \/ state[t] \in {"running", "ready"}
     /\ UNCHANGED <<threadVars, listVars, panicked>>

\* update_state(thread, ready) on processor c.  continue_thread clears
\* job_control_stopped before it calls, hence the primed variable.
update_state_ready(c, t) ==
  \/ /\ t \notin stopped' /\ state[t] = "stop" /\ In(t, blocked[c])
     /\ state' = [state EXCEPT ![t] = "ready"]
     /\ blocked' = Pull(blocked, c, t)
     /\ block' = block \ {t}
     /\ InsertRunnable(c, t)
     /\ UNCHANGED <<need, panicked>>
  \/ /\ t \notin stopped' /\ state[t] = "running"
     /\ block' = block \ {t}
     /\ UNCHANGED <<state, need, listVars, panicked>>
  \/ /\ t \in stopped' \/ state[t] = "ready"
     /\ UNCHANGED <<threadVars, listVars, panicked>>
  \/ /\ t \notin stopped' /\ state[t] = "stop" /\ ~ In(t, blocked[c])
     /\ Panic

\* update_state(thread, stop) on processor c.
update_state_stop(c, t) ==
  \/ /\ state[t] = "ready" /\ Runnable(c, t)
     /\ state' = [state EXCEPT ![t] = "stop"]
     /\ RemoveRunnable(c, t)
     /\ blocked' = Push(blocked, c, t)
     /\ UNCHANGED <<need, block, panicked>>
  \/ /\ state[t] = "running"
     /\ block' = block \cup {t}
     /\ need' = need \cup {t}
     /\ UNCHANGED <<state, listVars, panicked>>
  \/ /\ state[t] = "stop" /\ t \notin RealTime
     /\ UNCHANGED <<threadVars, listVars, panicked>>
  \/ /\ (state[t] = "stop" /\ t \in RealTime) \/ (state[t] = "ready" /\ ~ Runnable(c, t))
     /\ Panic

\* scheduler::update_state from processor c: here, or by a call to the
\* processor the thread belongs to.  Who is told when it is done.
Request(c, t, to, who) ==
  IF cpuid[t] = c
  THEN /\ IF to = "stop" THEN update_state_stop(c, t) ELSE update_state_ready(c, t)
       /\ UNCHANGED calls
  ELSE /\ Len(calls[cpuid[t]]) < CallCapacity
       /\ calls' = [calls EXCEPT ![cpuid[t]] = Append(@, [thread |-> t, to |-> to, who |-> who])]
       /\ UNCHANGED <<threadVars, listVars, panicked>>

----------------------------------------------------------------------------
(* schedule *)

Alive(c) == ~ panicked /\ c \notin clearing

\* sched_switch_to_ready for the current thread.
Left(t) == IF t = Idle THEN state ELSE [state EXCEPT ![t] = IF t \in block THEN "stop" ELSE "ready"]
LeftBlocked(c, t) == IF t \in block THEN Push(blocked, c, t) ELSE blocked

\* Mutated form: a thread that is to stop is queued all the same.
Requeued_always(list, t, class) == IF t \in class THEN Append(list, t) ELSE list

Requeued(list, t, class) == IF t \in class \ block THEN Append(list, t) ELSE list

Run(c, t, s) ==
  /\ current' = [current EXCEPT ![c] = t]
  /\ state' = IF t = Idle THEN s ELSE [s EXCEPT ![t] = "running"]

Renewed(t) == IF t \in RealTime /\ span[t] = 0 THEN [span EXCEPT ![t] = Span] ELSE span

\* A real-time thread is runnable.  A real-time thread whose slice is over is
\* queued once more.
schedule_round_robin(c) ==
  LET t == current[c]
      once == Requeued(rr[c], t, RealTime)
      queue == IF t \in RealTime /\ span[t] = 0 THEN Append(once, t) ELSE once
  IN /\ rr[c] # <<>>
     /\ rr' = [rr EXCEPT ![c] = Tail(queue)]
     /\ fair' = [fair EXCEPT ![c] = Requeued(@, t, Threads \ RealTime)]
     /\ blocked' = LeftBlocked(c, t)
     /\ span' = Renewed(t)
     /\ need' = need \ {t}
     /\ Run(c, Head(queue), Left(t))
     /\ UNCHANGED block

\* No other real-time thread: the current one goes on.
schedule_alone(c) ==
  LET t == current[c]
  IN /\ rr[c] = <<>> /\ t \in RealTime \ block
     /\ span' = Renewed(t)
     /\ need' = need \ {t}
     /\ UNCHANGED <<state, block, listVars, current>>

\* The fair scheduler picks a thread, or the idle thread if there is none.
schedule_fair(c) ==
  LET t == current[c]
      queue == Requeued(fair[c], t, Threads \ RealTime)
  IN /\ rr[c] = <<>> /\ t \notin RealTime \ block
     /\ blocked' = LeftBlocked(c, t)
     /\ span' = Renewed(t)
     /\ need' = need \ {t}
     /\ \/ /\ queue = <<>>
           /\ fair' = fair
           /\ Run(c, Idle, Left(t))
        \/ \E next \in ToSet(queue) :
             /\ fair' = [fair EXCEPT ![c] = RemoveFirst(queue, next)]
             /\ Run(c, next, Left(t))
     /\ UNCHANGED <<rr, block>>

schedule(c) ==
  /\ schedule_round_robin(c) \/ schedule_alone(c) \/ schedule_fair(c)
  /\ UNCHANGED <<stopped, calls, migrateVars, panicked>>

\* The return from an interrupt: yield_preempt, userland_return.
yield_preempt(c) ==
  /\ Alive(c)
  /\ current[c] = Idle \/ current[c] \in need
  /\ schedule(c)

----------------------------------------------------------------------------
(* Interrupts: the timer tick, calls from other processors, migration *)

\* schedule_tick: a slice is over, a real-time thread waits, or the virtual
\* times favour another fair thread.
Ticked(c) ==
  LET t == current[c]
  IN \/ /\ t \in RealTime
        /\ span' = [span EXCEPT ![t] = IF @ = 0 THEN 0 ELSE @ - 1]
        /\ need' = IF span[t] <= 1 THEN need \cup {t} ELSE need
     \/ /\ t \in Threads \ RealTime
        /\ rr[c] # <<>> \/ fair[c] # <<>>
        /\ need' = need \cup {t}
        /\ UNCHANGED span
     \/ /\ t \notin RealTime
        /\ t = Idle \/ rr[c] = <<>>
        /\ UNCHANGED <<need, span>>

\* get_migratable_task, reschedule_task_push, commit_migrate, reschedule_cpu.
\* The processor masks decide which runnable thread is the first that may go.
Migrated(c, d, t) ==
  /\ d # c /\ t \in ToSet(rr[c]) \cup ToSet(fair[c])
  /\ slotReady
  /\ slotReady' = FALSE /\ slot' = t
  /\ migrating' = migrating \cup {t}
  /\ RemoveRunnable(c, t)
  /\ ipi' = ipi \cup {d}
  /\ UNCHANGED <<blocked, cpuid, clearing>>

timer_tick(c) ==
  /\ Alive(c)
  /\ Ticked(c)
  /\ \/ UNCHANGED <<listVars, migrateVars>>
     \/ \E d \in Cpus, t \in Threads : Migrated(c, d, t)
  /\ UNCHANGED <<state, block, stopped, current, calls, panicked>>

\* update_state_ipi for the first call in the queue.
ipi_call(c) ==
  LET op == Head(calls[c])
  IN /\ Alive(c) /\ calls[c] # <<>>
     /\ calls' = [calls EXCEPT ![c] = Tail(@)]
     /\ UNCHANGED <<stopped, current, span, migrateVars>>
     /\ IF op.to = "stop" THEN update_state_stop(c, op.thread) ELSE update_state_ready(c, op.thread)

\* reschedule_func up to reschedule_ready = true.  The thread is ready: a stop
\* that reached it in flight has panicked.  If the slot is closed and empty the
\* handler goes through a null pointer.
reschedule_func(c) ==
  /\ Alive(c) /\ c \in ipi
  /\ ipi' = ipi \ {c}
  /\ \/ /\ ~ slotReady /\ slot # NoThread
        /\ cpuid' = [cpuid EXCEPT ![slot] = c]
        /\ InsertRunnable(c, slot)
        /\ span' = IF slot \in RealTime THEN [span EXCEPT ![slot] = Span] ELSE span
        /\ migrating' = migrating \ {slot}
        /\ slotReady' = TRUE
        /\ clearing' = clearing \cup {c}
        /\ UNCHANGED panicked
     \/ /\ slotReady
        /\ clearing' = clearing \cup {c}
        /\ UNCHANGED <<cpuid, rr, fair, span, migrating, slotReady, panicked>>
     \/ /\ ~ slotReady /\ slot = NoThread
        /\ panicked' = TRUE
        /\ UNCHANGED <<cpuid, rr, fair, span, migrating, slotReady, clearing>>
  /\ UNCHANGED <<threadVars, stopped, blocked, current, calls, slot>>

\* thread_to_reschedule = nullptr, after the slot has been opened: a thread
\* pushed in between is dropped.
reschedule_clear(c) ==
  /\ ~ panicked /\ c \in clearing
  /\ slot' = NoThread
  /\ clearing' = clearing \ {c}
  /\ UNCHANGED <<threadVars, stopped, listVars, current, span, calls, migrating, cpuid, slotReady, ipi, panicked>>

----------------------------------------------------------------------------
(* Job control, called on processor c; real-time threads are the kernel's. *)

stop_thread(c, t) ==
  /\ Alive(c) /\ t \notin RealTime
  /\ stopped' = stopped \cup {t}
  /\ IF state[t] \in {"ready", "running"}
     THEN Request(c, t, "stop", NoThread)
     ELSE UNCHANGED <<threadVars, listVars, calls, panicked>>
  /\ UNCHANGED <<current, span, migrateVars>>

continue_thread(c, t) ==
  /\ Alive(c) /\ t \notin RealTime
  /\ stopped' = stopped \ {t}
  /\ IF state[t] \in {"stop", "running"}
     THEN Request(c, t, "ready", NoThread)
     ELSE UNCHANGED <<threadVars, listVars, calls, panicked>>
  /\ UNCHANGED <<current, span, migrateVars>>

Interrupt(c) ==
  timer_tick(c) \/ ipi_call(c) \/ reschedule_func(c) \/ reschedule_clear(c)
=============================================================================
