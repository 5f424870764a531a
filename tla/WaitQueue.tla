----------------------------- MODULE WaitQueue -----------------------------
(***************************************************************************)
(* A wait queue (kernel/wait.cc) on the processors of Scheduler, with a    *)
(* mutex (mutex.hpp) as its user: threads lock, wait, unlock and wake.     *)
(*                                                                         *)
(* An action of a thread is one atomic access or one critical section of   *)
(* the queue's spinlock, taken while the thread is on a processor; between *)
(* two of them an interrupt may switch the thread out.                     *)
(***************************************************************************)
EXTENDS Scheduler

CONSTANT MaxStops   \* bound on the number of threads that job control stops, once each

VARIABLES
  held,    \* lock_m
  queue,   \* list: the waiting threads and their wake_requested
  pc,      \* where a thread is in lock, do_wait, unlock, do_wake_up
  target,  \* wake_targets of a waking thread (count is 1)
  missed,  \* history: waiters that went through window (a) or (b) below and have
           \* not tested the condition since
  jobbed   \* history: the threads that stop_thread was called for

waitVars == <<held, queue, pc, target, missed, jobbed>>
vars == <<schedVars, waitVars>>

Init ==
  /\ SchedInit
  /\ held = FALSE /\ queue = <<>>
  /\ pc = [t \in Threads |-> "out"]
  /\ target = [t \in Threads |-> NoThread]
  /\ missed = {} /\ jobbed = {}

Entry(t) == CHOOSE i \in DOMAIN queue : queue[i].thd = t
Waiting(t) == \E i \in DOMAIN queue : queue[i].thd = t
Goes(t, from, to) == pc[t] = from /\ pc' = [pc EXCEPT ![t] = to]
OnCpu(c, t) == Alive(c) /\ current[c] = t

\* Nothing of the scheduler changes.
NoSched == UNCHANGED schedVars
\* update_state may change the state, the lists and the call queues only.
StateOnly == UNCHANGED <<stopped, current, span, migrateVars>>

----------------------------------------------------------------------------
(* mutex_t::lock and do_wait *)

lock(c, t) ==
  /\ OnCpu(c, t)
  /\ pc[t] \in {"out", "lock"}
  /\ pc' = [pc EXCEPT ![t] = IF held THEN "test" ELSE "in"]
  /\ held' = TRUE
  /\ NoSched /\ UNCHANGED <<queue, target, missed, jobbed>>

\* The condition before anything is queued.
do_wait(c, t) ==
  /\ OnCpu(c, t)
  /\ IF held THEN Goes(t, "test", "register") ELSE Goes(t, "test", "lock")
  /\ NoSched /\ UNCHANGED <<held, queue, target, missed, jobbed>>

register(c, t) ==
  /\ OnCpu(c, t) /\ Goes(t, "register", "retest")
  /\ queue' = Append(queue, [thd |-> t, wake_requested |-> FALSE])
  /\ StateOnly /\ Request(c, t, "stop", NoThread)
  /\ UNCHANGED <<held, target, missed, jobbed>>

\* Mutated form: the condition is not tested again after queueing.
retest_skipped(c, t) ==
  /\ OnCpu(c, t) /\ Goes(t, "retest", "sched")
  /\ NoSched /\ UNCHANGED <<held, queue, target, missed, jobbed>>

\* The condition after queueing.
retest(c, t) ==
  /\ OnCpu(c, t)
  /\ \/ /\ held /\ Goes(t, "retest", "sched")
        /\ NoSched
     \/ /\ ~ held /\ Goes(t, "retest", "leave")
        /\ StateOnly /\ Request(c, t, "ready", NoThread)
  /\ missed' = missed \ {t}
  /\ UNCHANGED <<held, queue, target, jobbed>>

\* list.remove, and the mutex tries again.
leave(c, t) ==
  /\ OnCpu(c, t) /\ Goes(t, "leave", "lock")
  /\ queue' = RemoveAt(queue, Entry(t))
  /\ missed' = missed \ {t}
  /\ NoSched /\ UNCHANGED <<held, target, jobbed>>

\* scheduler::schedule(); nothing happens without need_schedule.
sleep(c, t) ==
  /\ OnCpu(c, t) /\ Goes(t, "sched", "loop")
  /\ IF t \in need THEN schedule(c) ELSE NoSched
  /\ UNCHANGED <<held, queue, target, missed, jobbed>>

\* The condition after the thread has run again.
loop(c, t) ==
  /\ OnCpu(c, t)
  /\ IF held THEN Goes(t, "loop", "again") ELSE Goes(t, "loop", "leave")
  /\ missed' = missed \ {t}
  /\ NoSched /\ UNCHANGED <<held, queue, target, jobbed>>

again(c, t) ==
  /\ OnCpu(c, t) /\ Goes(t, "again", "sched")
  /\ queue' = [queue EXCEPT ![Entry(t)].wake_requested = FALSE]
  /\ StateOnly /\ Request(c, t, "stop", NoThread)
  /\ UNCHANGED <<held, target, missed, jobbed>>

----------------------------------------------------------------------------
(* mutex_t::unlock and do_wake_up(1) *)

unlock(c, t) ==
  /\ OnCpu(c, t) /\ Goes(t, "in", "wake")
  /\ held' = FALSE
  /\ NoSched /\ UNCHANGED <<queue, target, missed, jobbed>>

Unmarked == {i \in DOMAIN queue : ~ queue[i].wake_requested}

\* The first waiter whose wake-up has not been requested.  The others are
\* passed over: window (b) of the history variable.
do_wake_up(c, t) ==
  /\ OnCpu(c, t)
  /\ \/ /\ Unmarked = {} /\ Goes(t, "wake", "out")
        /\ missed' = missed \cup {queue[i].thd : i \in DOMAIN queue}
        /\ UNCHANGED <<queue, target>>
     \/ \E i \in Unmarked :
          /\ \A j \in Unmarked : i <= j
          /\ Goes(t, "wake", "ready")
          /\ queue' = [queue EXCEPT ![i].wake_requested = TRUE]
          /\ target' = [target EXCEPT ![t] = queue[i].thd]
          /\ missed' = missed \cup {queue[j].thd : j \in 1 .. i - 1}
  /\ NoSched /\ UNCHANGED <<held, jobbed>>

\* update_state_sync: at once, or by a call that the thread then waits for.
wake_target(c, t) ==
  /\ OnCpu(c, t) /\ Goes(t, "ready", "spin")
  /\ StateOnly /\ Request(c, target[t], "ready", t)
  /\ UNCHANGED <<held, queue, target, missed, jobbed>>

wake_done(c, t) ==
  /\ OnCpu(c, t) /\ Goes(t, "spin", "out")
  /\ \A d \in Cpus, i \in 1 .. CallCapacity : i \in DOMAIN calls[d] => calls[d][i].who # t
  /\ target' = [target EXCEPT ![t] = NoThread]
  /\ NoSched /\ UNCHANGED <<held, queue, missed, jobbed>>

----------------------------------------------------------------------------
(* Interrupts and job control *)

\* Switched out between queueing and the second test: window (a).
Preempt(c) ==
  /\ yield_preempt(c)
  /\ missed' = missed \cup {t \in {current[c]} \ {Idle} : pc[t] = "retest"}
  /\ UNCHANGED <<held, queue, pc, target, jobbed>>

JobControl(c, t) ==
  /\ \/ Cardinality(jobbed \cup {t}) <= MaxStops /\ t \notin jobbed /\ jobbed' = jobbed \cup {t} /\ stop_thread(c, t)
     \/ t \in stopped /\ jobbed' = jobbed /\ continue_thread(c, t)
  /\ UNCHANGED <<held, queue, pc, target, missed>>

ThreadStep(c, t) ==
  \/ lock(c, t) \/ do_wait(c, t) \/ register(c, t) \/ retest(c, t) \/ leave(c, t)
  \/ sleep(c, t) \/ loop(c, t) \/ again(c, t)
  \/ unlock(c, t) \/ do_wake_up(c, t) \/ wake_target(c, t) \/ wake_done(c, t)

Next ==
  \E c \in Cpus :
    \/ Interrupt(c) /\ UNCHANGED waitVars
    \/ Preempt(c)
    \/ \E t \in Threads : ThreadStep(c, t) \/ JobControl(c, t)

Spec == Init /\ [][Next]_vars

----------------------------------------------------------------------------
(* Properties *)

Times(t, list) == Cardinality({i \in DOMAIN list : list[i] = t})

\* A thread is in exactly one place, and its state says which: on one
\* processor, on one list of its own processor once, or in flight
\* (update_state, schedule, commit_migrate, on_migrate).  This is stated for one
\* real-time thread: two on a processor meet the second push of schedule.  One
\* thread at a time is in flight, and the slot stays closed until it has
\* arrived (reschedule_task_push, reschedule_func); the calls that wait for a
\* processor fit its array (enqueue_call_cpu).
OneList ==
  /\ \A c \in Cpus : Len(calls[c]) <= CallCapacity
  /\ \A t \in migrating : migrating = {t} /\ ~ slotReady
  /\ \A t \in Threads :
       LET here == cpuid[t]
           Only(n, b) == /\ \A c \in Cpus : Times(t, rr[c] \o fair[c]) = (IF c = here THEN n ELSE 0)
                         /\ \A c \in Cpus : Times(t, blocked[c]) = (IF c = here THEN b ELSE 0)
       IN \/ state[t] = "running" /\ {c \in Cpus : current[c] = t} = {here} /\ Only(0, 0)
          \/ /\ \A c \in Cpus : current[c] # t
             /\ \/ state[t] = "ready" /\ Only(IF t \in migrating THEN 0 ELSE 1, 0)
                \/ state[t] = "stop" /\ t \notin migrating /\ Only(0, 1)

Owed(t) ==
  \/ \E w \in Threads : pc[w] = "ready" /\ target[w] = t
  \/ \E c \in Cpus : \E i \in DOMAIN calls[c] : calls[c][i].thread = t

\* A wake-up that do_wake_up has recorded is not lost on its way to the thread:
\* once update_state_sync is done the waiter is not asleep, whatever the waiter
\* was doing (about to stop, switched out, moved to another processor).  Threads under
\* job control are excepted: a stop swallows the wake-up, and a stop that waits
\* in a call queue may come after the continue.
WakeReachesWaiter ==
  \A i \in DOMAIN queue :
    LET t == queue[i].thd
    IN queue[i].wake_requested /\ ~ Owed(t) /\ ~ panicked => state[t] # "stop" \/ t \in jobbed

\* The mutex is free and nobody uses it, but a thread sleeps on it.
Stranded ==
  /\ ~ held /\ ~ panicked
  /\ \A t \in Threads : pc[t] = "out" \/ (state[t] = "stop" /\ Waiting(t))
  /\ queue # <<>>
  /\ \A c \in Cpus : calls[c] = <<>>

\* do_wait leaves a thread asleep on a free mutex only through its two windows:
\* (a) it was switched out after queueing and before the second test of the
\* condition, (b) a waker passed it over because an earlier request was still
\* marked; or job control has stopped a thread.
StrandedOnlyInWindow ==
  Stranded => missed # {} \/ jobbed # {}
=============================================================================
