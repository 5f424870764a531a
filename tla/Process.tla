------------------------------- MODULE Process -------------------------------
(***************************************************************************)
(* Processes and their threads: creation (fork, spawn), start, exit by     *)
(* removal of one thread after the other, the waits of a parent for its    *)
(* children, the process handles that keep a process_t alive, and the stop *)
(* and continue signals the waits report.                                  *)
(*                                                                         *)
(* A wait runs on a kernel dispatch worker, on behalf of the parent; the   *)
(* state it reads and changes is shared with the other workers, with the   *)
(* CPU that finishes the child's exit and with the senders of signals.     *)
(* Each step below is one critical section, or one access to an atomic.    *)
(*                                                                         *)
(* Sessions, process groups and terminals are the module JobControl.       *)
(***************************************************************************)
EXTENDS Integers, FiniteSets, SequencesExt

CONSTANTS
    Procs,          \* process_t objects, named by their pids (a pid is never used again)
    Root,           \* the process that exists at the start
    Workers,        \* kernel dispatch workers
    Senders,        \* threads that send stop and continue signals
    NoProc,         \* the null process_t pointer
    AnyChild,            \* the pid argument -1 of wait_children
    Waits,          \* bound: <<pid, handle, untraced, nohang>>, the waits that are made
    Starts          \* bound: the children that exist at the start, and the calls made from then on

Kinds == {"create", "thread", "handle", "exit", "kill", "signal", "wait", "interrupt"}

ASSUME RootAssumption == Root \in Procs /\ NoProc \notin Procs /\ AnyChild \notin Procs

ASSUME StartsAssumption == Starts \subseteq (SUBSET (Procs \ {Root})) \X [Kinds -> Nat]

VARIABLES
    proc,           \* the process_t objects
    threads,        \* thread_list of every process, and the removals scheduled for them
    finish,         \* exits that have set no_thread and have still to notify
    worker,         \* the wait each worker is executing
    sender,         \* the signal each sender is delivering
    calls,          \* calls of each kind left to make
    halted,         \* "no", "panic", or "freed": released memory has been used
    told            \* history: exits reported, and claims given back when there was something to report

vars == <<proc, threads, finish, worker, sender, calls, halted, told>>

NewProc(p) == [stage |-> "unstarted", parent |-> p, how |-> "spawn", started |-> FALSE, adds |-> 0,
               no_thread |-> FALSE, stopped |-> FALSE, stop_reported |-> FALSE,
               claimed |-> FALSE, counter |-> 0, generation |-> 0,
               handles |-> 0, refs |-> 0, reap_pending |-> FALSE, released |-> FALSE]

NoThreads == [list |-> <<>>, destroyed |-> {}, removals |-> <<>>]

\* thread lists: new_thread appends, delete_thread drops, scheduler::remove leaves a request
\* that the CPU of the thread serves at its next schedule
new_thread(th, t) == [th EXCEPT !.list = Append(@, t)]

delete_thread(list, t) == SelectSeq(list, LAMBDA x : x # t)

scheduler_remove(removals, t, why) == Append(removals, <<t, why>>)

IdleWorker == [pc |-> "idle", parent |-> NoProc, pid |-> AnyChild, target |-> NoProc, handle |-> FALSE,
               untraced |-> FALSE, nohang |-> FALSE, generation |-> 0, woken |-> FALSE,
               interrupted |-> FALSE]

Init == \E start \in Starts :
    /\ proc = [p \in Procs |->
                 IF p = Root THEN [NewProc(NoProc) EXCEPT !.stage = "live", !.started = TRUE, !.adds = 1]
                 ELSE IF p \in start[1]
                 THEN [NewProc(Root) EXCEPT !.stage = "live", !.how = "spawned", !.started = TRUE, !.adds = 1,
                                            !.handles = 1, !.refs = 1]
                 ELSE [NewProc(NoProc) EXCEPT !.stage = "none"]]
    /\ threads = [p \in Procs |-> IF p \in start[1] \cup {Root} THEN [NoThreads EXCEPT !.list = <<"main">>]
                                  ELSE NoThreads]
    /\ calls = start[2]
    /\ finish = [p \in Procs |-> [notify |-> 0, wake |-> 0]]
    /\ worker = [w \in Workers |-> IdleWorker]
    /\ sender = [s \in Senders |-> [pc |-> "idle", to |-> NoProc, was |-> FALSE]]
    /\ halted = "no"
    /\ told = [exits |-> [p \in Procs |-> 0], back |-> {}]

(***************************************************************************)
(* Helpers                                                                 *)
(***************************************************************************)
\* global_process_map holds a process from its creation until delete_process
InMap(p) == proc[p].stage # "none" /\ ~proc[p].reap_pending

\* a thread of p can make a call
CanCall(p, kind) ==
    /\ halted = "no" /\ calls[kind] > 0
    /\ proc[p].stage = "live" /\ ~proc[p].stopped
    /\ \E t \in ToSet(threads[p].list) : t \notin threads[p].destroyed
                                        /\ \A r \in ToSet(threads[p].removals) : r[1] # t

Spend(kind) == calls' = [calls EXCEPT ![kind] = @ - 1]

\* released memory is used, or the kernel panics: nothing is said about what follows
Halt(why) == halted' = why /\ UNCHANGED <<proc, threads, finish, worker, sender, calls, told>>

\* wait_queue.do_wake_up(): every worker asleep on that queue runs again
WakeWorkers(ws, sleeping) == [w \in Workers |-> IF w \in sleeping THEN [ws[w] EXCEPT !.woken = TRUE] ELSE ws[w]]

OnChildQueue(p) == {w \in Workers : worker[w].pc = "any_sleep" /\ worker[w].parent = p}

OnProcessQueue(p) == {w \in Workers : worker[w].pc = "pid_sleep" /\ worker[w].target = p}

\* maybe_finalize_process
maybe_finalize_process(r) ==
    IF r.reap_pending /\ r.refs = 0 THEN [r EXCEPT !.released = TRUE] ELSE r

\* delete_process: a second call on the same process does nothing
delete_process(r) ==
    IF r.reap_pending THEN r ELSE maybe_finalize_process([r EXCEPT !.reap_pending = TRUE])

\* mutated form: the parent is woken and its generation left as it is
NotifyParent_silent(f, p) == f

\* notify_parent_of_child_state_change: the parent is looked up by pid, under the lock
NotifyParent(f, p) ==
    IF proc[p].parent # NoProc /\ InMap(proc[p].parent)
    THEN [f EXCEPT ![proc[p].parent].generation = @ + 1]
    ELSE f

Notified(p) == IF proc[p].parent # NoProc /\ InMap(proc[p].parent) THEN OnChildQueue(proc[p].parent) ELSE {}

(***************************************************************************)
(* Creation, start, threads                                                *)
(***************************************************************************)
\* fork(): copy_process puts the child in the map; binding its resources can fail
copy_process(p, c) ==
    /\ CanCall(p, "create") /\ proc[c].stage = "none"
    /\ proc' = [proc EXCEPT ![c] = [NewProc(p) EXCEPT !.how = "fork"]]
    /\ Spend("create") /\ UNCHANGED <<threads, finish, worker, sender, halted, told>>

\* the rest of fork(): the thread goes to the scheduler without main_thread_started being set
fork(c) ==
    /\ halted = "no" /\ proc[c].stage = "unstarted" /\ proc[c].how = "fork" /\ ~proc[c].reap_pending
    /\ \/ /\ proc' = [proc EXCEPT ![c] = delete_process(@)]
          /\ UNCHANGED threads
       \/ /\ proc' = [proc EXCEPT ![c].stage = "live", ![c].adds = @ + 1]
          /\ threads' = [threads EXCEPT ![c].list = <<"main">>]
    /\ UNCHANGED <<finish, worker, sender, calls, halted, told>>

\* start_process: whoever sets main_thread_started adds the thread to a scheduler
start_process(r) ==
    IF r.started THEN r ELSE [r EXCEPT !.started = TRUE, !.stage = "live", !.adds = @ + 1]

\* abort_unstarted_process: the process is deleted whatever claims there are on it
abort_unstarted_process(r) == IF r.started THEN r ELSE delete_process([r EXCEPT !.no_thread = TRUE])

\* process_spawn, up to the handle that is installed for the parent and copied to it
create_process(p, c) ==
    /\ CanCall(p, "create") /\ proc[c].stage = "none"
    /\ proc' = [proc EXCEPT ![c] = [NewProc(p) EXCEPT !.handles = 1, !.refs = 1]]
    /\ threads' = [threads EXCEPT ![c].list = <<"main">>]
    /\ Spend("create") /\ UNCHANGED <<finish, worker, sender, halted, told>>

\* process_spawn, from there on: it fails, starts the child, or leaves that to the parent
process_spawn(c) ==
    /\ halted = "no" /\ proc[c].stage # "none" /\ proc[c].how = "spawn"
    /\ LET gone == ~proc[c].started IN
       \/ /\ proc[c].handles > 0
          /\ proc' = [proc EXCEPT ![c] = abort_unstarted_process(
                                          [@ EXCEPT !.handles = @ - 1, !.refs = @ - 1, !.how = "failed"])]
          /\ threads' = [threads EXCEPT ![c] = IF gone THEN NoThreads ELSE @]
          /\ worker' = IF gone THEN WakeWorkers(worker, OnProcessQueue(c)) ELSE worker
       \/ /\ \E start \in BOOLEAN :
                proc' = [proc EXCEPT ![c] = LET done == [@ EXCEPT !.how = "spawned"]
                                            IN  IF start THEN start_process(done) ELSE done]
          /\ UNCHANGED <<threads, worker>>
    /\ UNCHANGED <<finish, sender, calls, halted, told>>

\* the Process.start method of a handle: EBUSY once main_thread_started is set
Process_start(p, c) ==
    /\ CanCall(p, "create") /\ proc[c].parent = p /\ proc[c].handles > 0 /\ threads[c].list # <<>>
    /\ proc' = [proc EXCEPT ![c] = start_process(@)]
    /\ Spend("create") /\ UNCHANGED <<threads, finish, worker, sender, halted, told>>

\* clone: create_thread
create_thread(p) ==
    /\ CanCall(p, "thread") /\ "aux" \notin ToSet(threads[p].list)
    /\ threads' = [threads EXCEPT ![p] = new_thread(@, "aux")]
    /\ Spend("thread") /\ UNCHANGED <<proc, finish, worker, sender, halted, told>>

\* process_handle_open of a child; closing a handle destroys its process_object
open_process_handle(p, c) ==
    /\ CanCall(p, "handle") /\ proc[c].stage # "none" /\ proc[c].parent = p /\ ~proc[c].reap_pending
    /\ proc' = [proc EXCEPT ![c].handles = @ + 1, ![c].refs = @ + 1]
    /\ Spend("handle") /\ UNCHANGED <<threads, finish, worker, sender, halted, told>>

close_process_handle(c) ==
    /\ halted = "no" /\ calls["handle"] > 0 /\ proc[c].handles > 0 /\ proc[c].how # "spawn"
    /\ proc' = [proc EXCEPT ![c] = maybe_finalize_process([@ EXCEPT !.handles = @ - 1, !.refs = @ - 1])]
    /\ Spend("handle") /\ UNCHANGED <<threads, finish, worker, sender, halted, told>>

(***************************************************************************)
(* Exit                                                                    *)
(***************************************************************************)
\* exit_process_thread: schedule the removal of the first thread of the list, or, when the
\* list is empty, give up the resources, set no_thread and go on to notify
exit_process_thread(p, list, removals) ==
    \/ /\ list # <<>> /\ Head(list) \notin threads[p].destroyed
       /\ threads' = [threads EXCEPT ![p].list = list, ![p].removals = scheduler_remove(removals, Head(list), "process")]
       /\ UNCHANGED <<proc, finish, halted>>
    \/ /\ list # <<>> /\ Head(list) \in threads[p].destroyed
       /\ halted' = "panic"
       /\ UNCHANGED <<proc, threads, finish>>
    \/ /\ list = <<>>
       /\ threads' = [threads EXCEPT ![p].list = list, ![p].removals = removals]
       /\ proc' = [proc EXCEPT ![p].no_thread = TRUE]
       /\ finish' = [finish EXCEPT ![p].notify = @ + 1]
       /\ UNCHANGED halted

\* exit(), and exit_thread() of the main thread
do_exit(p) ==
    /\ CanCall(p, "exit")
    /\ exit_process_thread(p, threads[p].list, threads[p].removals)
    /\ Spend("exit") /\ UNCHANGED <<worker, sender, told>>

\* SIGKILL from another process: sig_kill calls exit_process at once.  A thread that was
\* never given to a scheduler has none to be removed from.
sig_kill(p) ==
    /\ halted = "no" /\ calls["kill"] > 0 /\ InMap(p)
    /\ IF proc[p].stage = "unstarted" /\ threads[p].list # <<>>
       THEN halted' = "panic" /\ UNCHANGED <<proc, threads, finish>>
       ELSE exit_process_thread(p, threads[p].list, threads[p].removals)
    /\ Spend("kill") /\ UNCHANGED <<worker, sender, told>>

\* exit_thread() of another thread
exit_thread(p) ==
    /\ CanCall(p, "thread") /\ "aux" \in ToSet(threads[p].list) \ threads[p].destroyed
    /\ \A r \in ToSet(threads[p].removals) : r[1] # "aux"
    /\ threads' = [threads EXCEPT ![p].removals = scheduler_remove(@, "aux", "thread")]
    /\ Spend("thread") /\ UNCHANGED <<proc, finish, worker, sender, halted, told>>

\* The callback of scheduler::remove, run at the next schedule of the thread's CPU.  For an
\* exiting process the thread is deleted and the next one taken; a thread that has exited by
\* itself stays in the list, destroyed, until someone joins it.
remove_callback(p) ==
    /\ halted = "no" /\ threads[p].removals # <<>>
    /\ LET t    == Head(threads[p].removals)[1]
           rest == Tail(threads[p].removals)
       IN  IF t \notin ToSet(threads[p].list) THEN halted' = "freed" /\ UNCHANGED <<proc, threads, finish>>
           ELSE IF Head(threads[p].removals)[2] = "process"
           THEN exit_process_thread(p, delete_thread(threads[p].list, t), rest)
           ELSE /\ threads' = [threads EXCEPT ![p].removals = rest, ![p].destroyed = @ \cup {t}]
                /\ UNCHANGED <<proc, finish, halted>>
    /\ UNCHANGED <<worker, sender, calls, told>>

\* the end of the exit: tell the parent, then wake who waits for this process
exit_notify(p) ==
    /\ halted = "no" /\ finish[p].notify > 0
    /\ IF proc[p].released THEN Halt("freed")
       ELSE /\ proc' = NotifyParent(proc, p)
            /\ worker' = WakeWorkers(worker, Notified(p))
            /\ finish' = [finish EXCEPT ![p].notify = @ - 1, ![p].wake = @ + 1]
            /\ UNCHANGED <<threads, sender, calls, halted, told>>

exit_wake(p) ==
    /\ halted = "no" /\ finish[p].wake > 0
    /\ IF proc[p].released THEN Halt("freed")
       ELSE /\ worker' = WakeWorkers(worker, OnProcessQueue(p))
            /\ finish' = [finish EXCEPT ![p].wake = @ - 1]
            /\ UNCHANGED <<proc, threads, sender, calls, halted, told>>

(***************************************************************************)
(* Stop and continue                                                       *)
(***************************************************************************)
\* sig_stop: stop_process does nothing to a process without threads
sig_stop(s, p) ==
    /\ halted = "no" /\ calls["signal"] > 0 /\ sender[s].pc = "idle" /\ InMap(p) /\ ~proc[p].no_thread
    /\ proc' = [proc EXCEPT ![p].stopped = TRUE]
    /\ sender' = [sender EXCEPT ![s] = [pc |-> "stop_wake", to |-> p, was |-> proc[p].stopped]]
    /\ Spend("signal") /\ UNCHANGED <<threads, finish, worker, halted, told>>

stop_wake(s) ==
    /\ halted = "no" /\ sender[s].pc = "stop_wake"
    /\ LET p == sender[s].to IN
       IF proc[p].released THEN Halt("freed")
       ELSE /\ worker' = WakeWorkers(worker, OnProcessQueue(p))
            /\ sender' = [sender EXCEPT ![s].pc = IF sender[s].was THEN "idle" ELSE "stop_notify"]
            /\ UNCHANGED <<proc, threads, finish, calls, halted, told>>

stop_notify(s) ==
    /\ halted = "no" /\ sender[s].pc = "stop_notify"
    /\ LET p == sender[s].to IN
       IF proc[p].released THEN Halt("freed")
       ELSE /\ proc' = NotifyParent(proc, p)
            /\ worker' = WakeWorkers(worker, Notified(p))
            /\ sender' = [sender EXCEPT ![s].pc = "idle"]
            /\ UNCHANGED <<threads, finish, calls, halted, told>>

\* sig_continue: wait_stop_reported is reset first, job_control_stopped after it
sig_continue(s, p) ==
    /\ halted = "no" /\ calls["signal"] > 0 /\ sender[s].pc = "idle" /\ InMap(p)
    /\ proc' = [proc EXCEPT ![p].stop_reported = FALSE]
    /\ sender' = [sender EXCEPT ![s] = [pc |-> "continue", to |-> p, was |-> FALSE]]
    /\ Spend("signal") /\ UNCHANGED <<threads, finish, worker, halted, told>>

continue_process(s) ==
    /\ halted = "no" /\ sender[s].pc = "continue"
    /\ LET p == sender[s].to IN
       IF proc[p].released THEN Halt("freed")
       ELSE /\ proc' = [proc EXCEPT ![p].stopped = FALSE]
            /\ sender' = [sender EXCEPT ![s].pc = "idle"]
            /\ UNCHANGED <<threads, finish, worker, calls, halted, told>>

(***************************************************************************)
(* Waiting for children                                                    *)
(***************************************************************************)
\* the children wait_children and reserve_child scan under process_list_lock
Children(p, pid) == {c \in Procs : InMap(c) /\ proc[c].parent = p /\ pid \in {AnyChild, c}}

StopUnreported(c) == proc[c].stopped /\ ~proc[c].stop_reported

\* mutated form: a child another wait has claimed is taken as well
reserve_child_claimed(p, pid, exited_only, stopped_only) ==
    {c \in Children(p, pid) : /\ exited_only => proc[c].no_thread
                              /\ stopped_only => StopUnreported(c)}

\* one of the children reserve_child may return; the map has no particular order
reserve_child(p, pid, exited_only, stopped_only) ==
    {c \in Children(p, pid) : /\ ~proc[c].claimed
                              /\ exited_only => proc[c].no_thread
                              /\ stopped_only => StopUnreported(c)}

At(w, pc) == halted = "no" /\ worker[w].pc = pc

GoTo(w, pc) == worker' = [worker EXCEPT ![w].pc = pc, ![w].woken = FALSE]

\* the call returns, and drops the references its request held
Return(w, f) ==
    /\ proc' = LET drop(r) == maybe_finalize_process([r EXCEPT !.refs = @ - 1])
                   g == [f EXCEPT ![worker[w].parent] = drop(@)]
               IN  IF worker[w].handle THEN [g EXCEPT ![worker[w].pid] = drop(@)] ELSE g
    /\ worker' = [worker EXCEPT ![w] = IdleWorker]

WaitUnchanged == UNCHANGED <<threads, finish, sender, calls, halted>>

\* the call arrives: Process.wait_children of the caller, or Process.wait of a handle it has
wait_process(w, p, pid, handle, untraced, nohang) ==
    /\ CanCall(p, "wait") /\ worker[w].pc = "idle" /\ Children(p, pid) # {}
    /\ handle => pid \in Procs /\ proc[pid].handles > 0
    /\ worker' = [worker EXCEPT ![w] = [IdleWorker EXCEPT
                    !.pc = IF handle THEN "check" ELSE "scan", !.parent = p, !.pid = pid,
                    !.handle = handle, !.untraced = untraced, !.nohang = nohang]]
    /\ proc' = LET f == [proc EXCEPT ![p].refs = @ + 1]
               IN  IF handle THEN [f EXCEPT ![pid].refs = @ + 1] ELSE f
    /\ Spend("wait") /\ UNCHANGED <<threads, finish, sender, halted, told>>

\* the caller cancels, or its deadline passes: execution_interrupted holds from here on
interrupt(w) ==
    /\ halted = "no" /\ calls["interrupt"] > 0 /\ worker[w].pc # "idle" /\ ~worker[w].interrupted
    /\ worker' = [worker EXCEPT ![w].interrupted = TRUE, ![w].woken = TRUE]
    /\ Spend("interrupt") /\ UNCHANGED <<proc, threads, finish, sender, halted, told>>

\* wait_process_children: the top of its loop reads the generation before it looks
scan(w) ==
    /\ At(w, "scan")
    /\ \/ worker[w].interrupted /\ Return(w, proc)
       \/ /\ ~worker[w].interrupted
          /\ worker' = [worker EXCEPT ![w].pc = "select",
                          ![w].generation = proc[worker[w].parent].generation, ![w].woken = FALSE]
          /\ UNCHANGED proc
    /\ WaitUnchanged /\ UNCHANGED told

select_child(w) ==
    /\ At(w, "select")
    /\ LET p   == worker[w].parent
           pid == worker[w].pid
           exited  == reserve_child(p, pid, TRUE, FALSE)
           stopped == reserve_child(p, pid, FALSE, TRUE)
           none    == exited = {} /\ (~worker[w].untraced \/ stopped = {})
       IN  \/ exited # {} /\ GoTo(w, "reap_reserve") /\ UNCHANGED proc
           \/ exited = {} /\ ~none /\ GoTo(w, "stop_reserve") /\ UNCHANGED proc
           \/ none /\ (Children(p, pid) = {} \/ worker[w].nohang) /\ Return(w, proc)
           \/ /\ none /\ Children(p, pid) # {} /\ ~worker[w].nohang
              /\ GoTo(w, IF pid = AnyChild THEN "any_wait" ELSE "pid_reserve")
              /\ UNCHANGED proc
    /\ WaitUnchanged /\ UNCHANGED told

Claim(c) == [proc EXCEPT ![c].claimed = TRUE, ![c].counter = @ + 1]

\* a child is claimed for the caller, or there is none to claim
Reserve(w, pc, next, exited_only, stopped_only) ==
    /\ At(w, pc)
    /\ LET found == reserve_child(worker[w].parent, worker[w].pid, exited_only, stopped_only) IN
       \/ \E c \in found :
             /\ proc' = Claim(c)
             /\ worker' = [worker EXCEPT ![w].pc = next, ![w].target = c]
       \/ found = {} /\ ~worker[w].handle /\ pc # "pid_reserve" /\ GoTo(w, "scan") /\ UNCHANGED proc
       \/ found = {} /\ (worker[w].handle \/ pc = "pid_reserve") /\ Return(w, proc)
    /\ WaitUnchanged /\ UNCHANGED told

reap_reserve(w) == Reserve(w, "reap_reserve", "reap", TRUE, FALSE)

stop_reserve(w) == Reserve(w, "stop_reserve", "report", FALSE, TRUE)

pid_reserve(w) == Reserve(w, "pid_reserve", "pid_wait", FALSE, FALSE)

\* wait_process_handle up to its reservation; a stop is reported here without a claim
wait_process_handle(w) ==
    /\ At(w, "check")
    /\ LET c == worker[w].pid IN
       \/ /\ proc[c].parent # worker[w].parent \/ proc[c].reap_pending \/ worker[w].interrupted
          /\ Return(w, proc)
       \/ /\ proc[c].parent = worker[w].parent /\ ~proc[c].reap_pending /\ ~worker[w].interrupted
          /\ \/ proc[c].no_thread /\ GoTo(w, "reap_reserve") /\ UNCHANGED proc
             \/ /\ ~proc[c].no_thread /\ worker[w].untraced /\ StopUnreported(c)
                /\ Return(w, [proc EXCEPT ![c].stop_reported = TRUE])
             \/ /\ ~proc[c].no_thread /\ ~(worker[w].untraced /\ StopUnreported(c))
                /\ \/ worker[w].nohang /\ Return(w, proc)
                   \/ ~worker[w].nohang /\ GoTo(w, "pid_reserve") /\ UNCHANGED proc
    /\ WaitUnchanged /\ UNCHANGED told

\* what the waits sleep for
AnyDone(w) == worker[w].interrupted \/ proc[worker[w].parent].generation # worker[w].generation

PidDone(w) == LET c == worker[w].target IN
    worker[w].interrupted \/ proc[c].no_thread \/ (worker[w].untraced /\ StopUnreported(c))

\* do_wait on child_wait_queue, and on the wait_queue of a claimed child
any_wait(w) ==
    /\ halted = "no"
    /\ worker[w].pc = "any_wait" \/ (worker[w].pc = "any_sleep" /\ worker[w].woken)
    /\ GoTo(w, IF AnyDone(w) THEN "scan" ELSE "any_sleep")
    /\ WaitUnchanged /\ UNCHANGED <<proc, told>>

pid_wait(w) ==
    /\ halted = "no"
    /\ worker[w].pc = "pid_wait" \/ (worker[w].pc = "pid_sleep" /\ worker[w].woken)
    /\ IF proc[worker[w].target].released THEN Halt("freed")
       ELSE /\ GoTo(w, IF PidDone(w) THEN "pid_woken" ELSE "pid_sleep")
            /\ WaitUnchanged /\ UNCHANGED <<proc, told>>

\* the tests after the sleep, each a read of its own
pid_woken(w) ==
    /\ At(w, "pid_woken")
    /\ LET c == worker[w].target IN
       IF proc[c].released THEN Halt("freed")
       ELSE /\ GoTo(w, IF worker[w].interrupted THEN "unclaim"
                       ELSE IF proc[c].no_thread THEN "reap" ELSE "report")
            /\ WaitUnchanged /\ UNCHANGED <<proc, told>>

\* report_stopped_child, and its counterpart in wait_process_handle: when the stop is gone or
\* has been reported by another wait, wait_children starts over and wait_process_handle reaps
report_stopped_child(w) ==
    /\ At(w, "report")
    /\ LET c == worker[w].target IN
       IF proc[c].released THEN Halt("freed")
       ELSE /\ \/ /\ StopUnreported(c) /\ (worker[w].untraced \/ ~worker[w].handle)
                  /\ proc' = [proc EXCEPT ![c].stop_reported = TRUE]
                  /\ GoTo(w, "unclaim")
               \/ /\ ~(StopUnreported(c) /\ (worker[w].untraced \/ ~worker[w].handle))
                  /\ GoTo(w, IF worker[w].handle THEN "reap" ELSE "retry")
                  /\ UNCHANGED proc
            /\ WaitUnchanged /\ UNCHANGED told

\* there is something to report of c, or its exit has just been reported
Due(c) == proc[c].no_thread \/ StopUnreported(c) \/ told.exits[c] > 0

\* the claim is given back: wait_claimed first, wait_counter after it
unclaim(w) ==
    /\ halted = "no" /\ worker[w].pc \in {"unclaim", "retry"}
    /\ LET c == worker[w].target IN
       IF proc[c].released THEN Halt("freed")
       ELSE /\ proc' = [proc EXCEPT ![c].claimed = FALSE]
            /\ told' = [told EXCEPT !.back = IF Due(c) THEN @ \cup {c} ELSE @]
            /\ GoTo(w, IF worker[w].pc = "unclaim" THEN "uncount" ELSE "recount")
            /\ WaitUnchanged

uncount(w) ==
    /\ halted = "no" /\ worker[w].pc \in {"uncount", "recount"}
    /\ LET c == worker[w].target
           f == [proc EXCEPT ![c].counter = @ - 1]
       IN  IF proc[c].released THEN Halt("freed")
           ELSE /\ IF worker[w].pc = "uncount" THEN Return(w, f)
                   ELSE proc' = f /\ worker' = [worker EXCEPT ![w].pc = "scan", ![w].target = NoProc]
                /\ told' = [told EXCEPT !.back = IF Due(c) THEN @ \cup {c} ELSE @]
                /\ WaitUnchanged

\* reap_waited_child: the status is returned; the last one to count down tells the parent and deletes
reap_waited_child(w) ==
    /\ At(w, "reap")
    /\ LET c == worker[w].target
           f == [proc EXCEPT ![c].counter = @ - 1]
       IN  IF proc[c].released THEN Halt("freed")
           ELSE /\ told' = [told EXCEPT !.exits[c] = @ + 1]
                /\ IF proc[c].counter = 1
                   THEN /\ proc' = NotifyParent(f, c)
                        /\ worker' = [WakeWorkers(worker, Notified(c)) EXCEPT ![w].pc = "delete"]
                   ELSE Return(w, f)
                /\ WaitUnchanged

delete_waited_child(w) ==
    /\ At(w, "delete")
    /\ IF proc[worker[w].target].released THEN Halt("freed")
       ELSE /\ Return(w, [proc EXCEPT ![worker[w].target] = delete_process(@)])
            /\ WaitUnchanged /\ UNCHANGED told

(***************************************************************************)
(* Specification                                                           *)
(***************************************************************************)
Create == \E p, c \in Procs : copy_process(p, c) \/ create_process(p, c)

Created == \E c \in Procs : fork(c) \/ process_spawn(c) \/ close_process_handle(c)

Family == \E p, c \in Procs : Process_start(p, c) \/ open_process_handle(p, c)

Exit == \E p \in Procs :
    do_exit(p) \/ sig_kill(p) \/ create_thread(p) \/ exit_thread(p)
    \/ remove_callback(p) \/ exit_notify(p) \/ exit_wake(p)

Signal == \E s \in Senders :
    \/ \E p \in Procs : sig_stop(s, p) \/ sig_continue(s, p)
    \/ stop_wake(s) \/ stop_notify(s) \/ continue_process(s)

Wait == \E w \in Workers :
    \/ \E p \in Procs, a \in Waits : wait_process(w, p, a[1], a[2], a[3], a[4])
    \/ interrupt(w) \/ scan(w) \/ select_child(w)
    \/ reap_reserve(w) \/ stop_reserve(w) \/ pid_reserve(w) \/ wait_process_handle(w)
    \/ any_wait(w) \/ pid_wait(w) \/ pid_woken(w) \/ report_stopped_child(w)
    \/ unclaim(w) \/ uncount(w) \/ reap_waited_child(w) \/ delete_waited_child(w)

Next == Create \/ Created \/ Family \/ Exit \/ Signal \/ Wait

Spec == Init /\ [][Next]_vars

(***************************************************************************)
(* Properties                                                              *)
(***************************************************************************)
\* The exit of a child is reported by at most one wait, whatever waits race for it; once it is
\* reported and that wait has returned, the child is out of the process map, unless another
\* wait was giving its own claim back after the exit (reserve_child, reap_waited_child); and a
\* spawned child is given to a scheduler once, however often Process.start is called.
ChildLifecycle ==
    \A c \in Procs :
        /\ told.exits[c] <= 1
        /\ (told.exits[c] = 1 /\ c \notin told.back /\ \A w \in Workers : worker[w].target # c)
              => proc[c].reap_pending
        /\ proc[c].how # "fork" => proc[c].adds <= 1

\* A wait sleeps on only while there is nothing for it to report.  When a child it waits for has
\* exited, or has stopped with WUNTRACED, then a notification is still to come, from the exit or
\* from the sender of the signal, or the child was hidden by the claim of another wait, which
\* gave it back without a notification (notify_parent_of_child_state_change, unclaim).
NoStrandedWaiter ==
    halted = "no" =>
    \A w \in Workers, c \in Procs :
        LET exited  == proc[c].no_thread
            stopped == worker[w].untraced /\ StopUnreported(c)
            asleep  == ~worker[w].woken /\ (exited \/ stopped)
            inSignal == \E s \in Senders : sender[s].pc # "idle" /\ sender[s].to = c
        IN  /\ (asleep /\ worker[w].pc = "pid_sleep" /\ worker[w].target = c)
                  => finish[c].notify + finish[c].wake > 0 \/ inSignal
            /\ (asleep /\ worker[w].pc = "any_sleep" /\ c \in Children(worker[w].parent, AnyChild) /\ ~proc[c].claimed)
                  => finish[c].notify > 0 \/ inSignal \/ c \in told.back

\* A wait reports an exit only of a child that has exited: wait_process_handle keeps the process
\* object of a child that is merely stopped ("No exit reap is pending; keep the process object
\* alive").
OnlyExitedReaped == \A c \in Procs : told.exits[c] > 0 => proc[c].no_thread
==============================================================================
