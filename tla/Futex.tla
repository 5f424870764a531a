-------------------------------- MODULE Futex --------------------------------
(* futex_wait and futex_wake (syscall/task.cc) on one bucket of the futex  *)
(* table: the value test, the generation, the wait queue (wait.cc) and the *)
(* deadline, a one-shot timer of the processor (timer.cc) whose handler    *)
(* wakes the whole bucket.                                                 *)
EXTENDS Naturals, Sequences, SequencesExt, FiniteSets

CONSTANTS
  FxThreads,    \* threads that call futex, numbered from 1
  FxWaiters,    \* those of them that wait; the others store and wake
  FxWords,      \* the words of the bucket
  MaxFxCalls    \* bound: calls and stores of a behaviour

VARIABLES
  word,         \* user memory
  generation,   \* futex_bucket::generation
  waiters,      \* futex_bucket::waiters, in order: [thd, asked]
  fx,           \* a thread, or the timer interrupt: where it is in the kernel
  ready,        \* the threads whose state is ready
  watchers,     \* armed timers: the threads they are for
  fxCalls,      \* calls and stores so far
  passed        \* history: waiters a limited wake passed over, timers lost to
                \* a tick, waiters woken again before they were back asleep
fxVars == <<word, generation, waiters, fx, ready, watchers, fxCalls, passed>>

FxTick == 0
FxActors == FxThreads \cup {FxTick}
FxIdle == [pc |-> "idle", w |-> CHOOSE w \in FxWords : TRUE, val |-> 0, gen |-> 0, timed |-> FALSE,
           count |-> 0, targets |-> {}]

FxInit ==
  /\ word = [w \in FxWords |-> 0]
  /\ generation = 0 /\ waiters = <<>>
  /\ fx = [a \in FxActors |-> FxIdle]
  /\ ready = FxThreads /\ watchers = {} /\ fxCalls = 0
  /\ passed = [over |-> {}, torn |-> {}, window |-> {}]

FxAt(a, pc) == fx[a].pc = pc
FxTo(a, pc) == fx' = [fx EXCEPT ![a].pc = pc]
FxCalled == fxCalls < MaxFxCalls /\ fxCalls' = fxCalls + 1

\* The predicate that futex_wait hands to do_wait.
FxCondition(t) == generation # fx[t].gen \/ word[fx[t].w] # fx[t].val

-----------------------------------------------------------------------------
\* The program stores to a word.
store(t, w) ==
  /\ FxAt(t, "idle") /\ FxCalled
  /\ word' = [word EXCEPT ![w] = 1 - @]
  /\ UNCHANGED <<generation, waiters, fx, ready, watchers, passed>>

\* futex_wait: the word is compared first, ...
futex_wait(t, w, v, timed) ==
  /\ FxAt(t, "idle") /\ FxCalled
  /\ fx' = IF word[w] # v THEN fx
           ELSE [fx EXCEPT ![t] = [FxIdle EXCEPT !.pc = "generation", !.w = w, !.val = v, !.timed = timed]]
  /\ UNCHANGED <<word, generation, waiters, ready, watchers, passed>>

\* ... then the generation is read, and the call ends when the timeout is
\* zero or too large, ...
load_generation(t) ==
  /\ FxAt(t, "generation")
  /\ \/ fx' = [fx EXCEPT ![t].gen = generation, ![t].pc = IF fx[t].timed THEN "schedule" ELSE "test"]
     \/ fx[t].timed /\ fx' = [fx EXCEPT ![t] = FxIdle]
  /\ UNCHANGED <<word, generation, waiters, ready, watchers, fxCalls, passed>>

\* ... and schedule_at links the watcher, with interrupts on: a tick that
\* falls into it empties the list, and the watcher may be lost.  It refuses
\* a time that is already over, and so does the call.
schedule_at(t) ==
  /\ FxAt(t, "schedule")
  /\ \/ watchers' = watchers \cup {t} /\ FxTo(t, "test") /\ UNCHANGED passed
     \/ UNCHANGED watchers /\ FxTo(t, "test") /\ passed' = [passed EXCEPT !.torn = @ \cup {t}]
     \/ fx' = [fx EXCEPT ![t] = FxIdle] /\ UNCHANGED <<watchers, passed>>
  /\ UNCHANGED <<word, generation, waiters, ready, fxCalls>>

\* do_wait: the condition, ...
do_wait_test(t) ==
  /\ FxAt(t, "test")
  /\ FxTo(t, IF FxCondition(t) THEN "cancel" ELSE "register")
  /\ UNCHANGED <<word, generation, waiters, ready, watchers, fxCalls, passed>>

do_wait_register(t) ==
  /\ FxAt(t, "register")
  /\ waiters' = Append(waiters, [thd |-> t, asked |-> FALSE])
  /\ ready' = ready \ {t}
  /\ passed' = [passed EXCEPT !.over = @ \ {t}, !.window = @ \ {t}]
  /\ FxTo(t, "retest")
  /\ UNCHANGED <<word, generation, watchers, fxCalls>>

Unlisted(t) == SelectSeq(waiters, LAMBDA c : c.thd # t)
Relisted(t) == [i \in DOMAIN waiters |-> [waiters[i] EXCEPT !.asked = @ /\ waiters[i].thd # t]]

do_wait_retest_skipped(t) ==
  /\ FxAt(t, "retest")
  /\ FxTo(t, "asleep") /\ UNCHANGED <<waiters, ready>>
  /\ UNCHANGED <<word, generation, watchers, fxCalls, passed>>

\* ... and once more after the thread is in the list.
do_wait_retest(t) ==
  /\ FxAt(t, "retest")
  /\ IF FxCondition(t)
     THEN ready' = ready \cup {t} /\ waiters' = Unlisted(t) /\ FxTo(t, "cancel")
     ELSE FxTo(t, "asleep") /\ UNCHANGED <<waiters, ready>>
  /\ UNCHANGED <<word, generation, watchers, fxCalls, passed>>

\* The thread runs again: it leaves, ...
do_wait_woken(t) ==
  /\ FxAt(t, "asleep") /\ t \in ready
  /\ IF FxCondition(t) THEN waiters' = Unlisted(t) /\ FxTo(t, "cancel") ELSE FxTo(t, "relist") /\ UNCHANGED waiters
  /\ UNCHANGED <<word, generation, ready, watchers, fxCalls, passed>>

\* ... or waits for another wake-up, without testing the condition again.
do_wait_again(t) ==
  /\ FxAt(t, "relist")
  /\ waiters' = Relisted(t) /\ ready' = ready \ {t} /\ FxTo(t, "asleep")
  /\ UNCHANGED <<word, generation, watchers, fxCalls, passed>>

\* timer::cancel looks only at the processor it runs on, and the thread may
\* have moved since it armed the timer.
cancel(t) ==
  /\ FxAt(t, "cancel")
  /\ watchers' \in {watchers, watchers \ {t}}
  /\ fx' = [fx EXCEPT ![t] = FxIdle]
  /\ UNCHANGED <<word, generation, waiters, ready, fxCalls, passed>>

-----------------------------------------------------------------------------
Unasked == {waiters[i].thd : i \in {j \in DOMAIN waiters : ~waiters[j].asked}}

\* futex_wake: the generation, and then at most n of the waiters.
futex_wake(t, w, n) ==
  /\ FxAt(t, "idle") /\ FxCalled
  /\ generation' = generation + 1
  /\ IF n = 0 THEN passed' = [passed EXCEPT !.over = @ \cup {waiters[i].thd : i \in DOMAIN waiters}] /\ UNCHANGED fx
     ELSE /\ fx' = [fx EXCEPT ![t] = [FxIdle EXCEPT !.pc = "wake", !.w = w, !.count = n]]
          /\ UNCHANGED passed
  /\ UNCHANGED <<word, waiters, ready, watchers>>

\* on_tick runs the handler of a due timer: futex_bucket::wake.
on_tick(t) ==
  /\ FxAt(FxTick, "idle") /\ t \in watchers
  /\ watchers' = watchers \ {t}
  /\ generation' = generation + 1
  /\ fx' = [fx EXCEPT ![FxTick] = [FxIdle EXCEPT !.pc = "wake", !.count = Cardinality(FxThreads)]]
  /\ UNCHANGED <<word, waiters, ready, fxCalls, passed>>

\* do_wake_up: the first count contexts that are not asked yet, ...
Asked(count) ==
  LET free == SelectSeq(waiters, LAMBDA c : ~c.asked)
  IN {free[i].thd : i \in 1..(IF Len(free) < count THEN Len(free) ELSE count)}
wake_up_request(a) ==
  /\ FxAt(a, "wake")
  /\ LET targets == Asked(fx[a].count)
     IN /\ waiters' = [i \in DOMAIN waiters |-> IF waiters[i].thd \in targets
                                                THEN [waiters[i] EXCEPT !.asked = TRUE] ELSE waiters[i]]
        /\ passed' = [passed EXCEPT !.over = @ \cup (Unasked \ targets),
                                       !.window = @ \cup {t \in FxThreads : FxAt(t, "relist")}]
        /\ fx' = [fx EXCEPT ![a].pc = "deliver", ![a].targets = targets]
  /\ UNCHANGED <<word, generation, ready, watchers, fxCalls>>

\* ... made ready outside the lock, one after the other.
wake_up_deliver(a) ==
  /\ FxAt(a, "deliver")
  /\ \/ \E t \in fx[a].targets :
          /\ ready' = ready \cup {t}
          /\ fx' = [fx EXCEPT ![a].targets = @ \ {t}]
     \/ fx[a].targets = {} /\ fx' = [fx EXCEPT ![a] = FxIdle] /\ UNCHANGED ready
  /\ UNCHANGED <<word, generation, waiters, watchers, fxCalls, passed>>

-----------------------------------------------------------------------------
FxNext ==
  \/ \E t \in FxThreads, w \in FxWords :
       \/ t \notin FxWaiters /\ store(t, w)
       \/ t \in FxWaiters /\ \E v \in {0, 1}, timed \in BOOLEAN : futex_wait(t, w, v, timed)
       \/ t \notin FxWaiters /\ \E n \in 0..2 : futex_wake(t, w, n)
  \/ \E t \in FxThreads :
       \/ load_generation(t) \/ schedule_at(t) \/ do_wait_test(t) \/ do_wait_register(t)
       \/ do_wait_retest(t) \/ do_wait_woken(t) \/ do_wait_again(t) \/ cancel(t) \/ on_tick(t)
  \/ \E a \in FxActors : wake_up_request(a) \/ wake_up_deliver(a)
FxSpec == FxInit /\ [][FxNext]_fxVars

-----------------------------------------------------------------------------
Sleeping(t) == FxAt(t, "asleep") /\ t \notin ready
WakeDue(t) ==
  \/ \E a \in FxActors : FxAt(a, "wake") \/ t \in fx[a].targets

(* No wake-up is lost between the test of the word and the sleep: a thread *)
(* that sleeps though the bucket was woken since it read the generation is *)
(* about to be woken, or the calls since then were limited and spent on    *)
(* others, or fell between its test after a wake-up and its return to the  *)
(* list, which forgets them (futex, do_wait, do_wake_up).                  *)
(* A thread that sleeps with a deadline has its timer armed, unless a tick *)
(* interrupted the insertion.                                              *)
NoWakeLost ==
  \A t \in FxThreads : Sleeping(t) =>
    /\ generation # fx[t].gen => WakeDue(t) \/ t \in passed.over \cup passed.window
    /\ fx[t].timed /\ generation = fx[t].gen => t \in watchers \/ t \in passed.torn
=============================================================================
