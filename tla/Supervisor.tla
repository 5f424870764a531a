----------------------------- MODULE Supervisor -----------------------------
(* init as the supervisor of the terminal server (ttyd), of its frontend   *)
(* (consoled) and of the user's shell (usr/init/main.cc): the start with   *)
(* its readiness probe, the supervision loop, the ordered teardown, and    *)
(* children that crash between any two system calls of init.               *)
EXTENDS Naturals, FiniteSets

CONSTANTS
  Attempts,   \* probes of a new ttyd before it is given up
  MaxFaults   \* bound: crashes and failed calls

VARIABLES
  init,     \* init: where it is and its variables
  procs,    \* the children that are not reaped
  faults,   \* crashes and failed calls so far
  born      \* children started so far
supVars == <<init, procs, faults, born>>

None == 0
Child(kind, ttyd, front, state) ==
  [id |-> born + 1, kind |-> kind, ttyd |-> ttyd, front |-> front, state |-> state, told |-> FALSE]
Proc(p) == CHOOSE q \in procs : q.id = p
Known(p) == \E q \in procs : q.id = p
Up(p) == \E q \in procs : q.id = p /\ q.state = "running"
TtydUp == \E q \in procs : q.kind = "ttyd" /\ q.state = "running"
Serving == CHOOSE q \in procs : q.kind = "ttyd" /\ q.state = "running"

Becomes(q, r) == procs' = (procs \ {q}) \cup {r}
Faulty_call == faults < MaxFaults /\ faults' = faults + 1
In_init(pc) == init.pc = pc
Goes_on(pc) == init' = [init EXCEPT !.pc = pc]
Only_init == UNCHANGED <<procs, faults, born>>
Spawn(q) == procs' = procs \cup {q} /\ born' = born + 1

-----------------------------------------------------------------------------
(* start_ttyd.  A failed start ends init at boot; later it is tried again. *)
Not_started == [init EXCEPT !.pc = IF init.booting THEN "ended" ELSE "top", !.ttyd = None]
Started == [init EXCEPT !.booting = FALSE, !.pc = IF init.booting THEN "top" ELSE "reap_ttyd"]

(* ensure_terminal_factory and the spawn, either of which may fail.        *)
spawn_ttyd_process ==
  /\ In_init("spawn_ttyd")
  /\ \/ /\ Spawn(Child("ttyd", born + 1, None, "running"))
        /\ init' = [init EXCEPT !.ttyd = born + 1, !.attempt = 0, !.pc = "probe"]
        /\ UNCHANGED faults
     \/ Faulty_call /\ init' = Not_started /\ UNCHANGED <<procs, born>>

start_ttyd ==
  /\ In_init("probe")
  /\ \/ Up(init.ttyd) /\ init' = Started /\ UNCHANGED <<procs, faults>>
     \/ /\ IF Up(init.ttyd) THEN Faulty_call ELSE UNCHANGED faults
        /\ IF init.attempt + 1 < Attempts
           THEN init' = [init EXCEPT !.attempt = @ + 1] /\ UNCHANGED procs
           ELSE /\ Goes_on("give_up")
                /\ Becomes(Proc(init.ttyd), [Proc(init.ttyd) EXCEPT !.told = TRUE])
  /\ UNCHANGED born

(* kill, and then waitpid, which blocks.                                   *)
Killed(p) == IF Known(p) THEN Becomes(Proc(p), [Proc(p) EXCEPT !.told = TRUE]) ELSE UNCHANGED procs
Waited(p) == Proc(p).state = "zombie" /\ procs' = procs \ {Proc(p)}
give_up_ttyd ==
  /\ In_init("give_up")
  /\ Waited(init.ttyd)
  /\ init' = Not_started
  /\ UNCHANGED <<faults, born>>

-----------------------------------------------------------------------------
(* run_user_shell.  The top of the loop: without a ttyd, the frontend, the *)
(* shell and init's own descriptor go, in that order, before a new one.    *)
To_shell(next) == IF init.shell # None THEN "kill_shell" ELSE next
teardown ==
  /\ In_init("top")
  /\ Goes_on(IF init.ttyd # None THEN "reap_ttyd"
             ELSE IF init.console # None THEN "kill_console" ELSE To_shell("close_slave"))
  /\ Only_init
kill_console ==
  /\ In_init("kill_console")
  /\ Killed(init.console) /\ Goes_on("wait_console")
  /\ UNCHANGED <<faults, born>>
wait_console_forgotten ==
  /\ In_init("wait_console")
  /\ Waited(init.console)
  /\ init' = [init EXCEPT !.console = None, !.pc = "close_slave"]
  /\ UNCHANGED <<faults, born>>
wait_console ==
  /\ In_init("wait_console")
  /\ Waited(init.console)
  /\ init' = [init EXCEPT !.console = None, !.pc = To_shell("close_slave")]
  /\ UNCHANGED <<faults, born>>
kill_shell ==
  /\ In_init("kill_shell")
  /\ Killed(init.shell) /\ Goes_on("wait_shell")
  /\ UNCHANGED <<faults, born>>
wait_shell ==
  /\ In_init("wait_shell")
  /\ Waited(init.shell)
  /\ init' = [init EXCEPT !.shell = None, !.pc = "close_slave"]
  /\ UNCHANGED <<faults, born>>
close_slave ==
  /\ In_init("close_slave")
  /\ init' = [init EXCEPT !.slave = None, !.pc = IF init.ttyd = None THEN "spawn_ttyd" ELSE "reap_shell"]
  /\ Only_init

(* reap_process with WNOHANG, for each of the three in turn.  A lost       *)
(* frontend takes the shell and the descriptor with it.                    *)
Gone(p) == p # None /\ Proc(p).state = "zombie"
reap_ttyd ==
  /\ In_init("reap_ttyd")
  /\ IF Gone(init.ttyd)
     THEN procs' = procs \ {Proc(init.ttyd)} /\ init' = [init EXCEPT !.ttyd = None, !.pc = "top"]
     ELSE UNCHANGED procs /\ Goes_on("reap_console")
  /\ UNCHANGED <<faults, born>>
reap_console ==
  /\ In_init("reap_console")
  /\ IF Gone(init.console)
     THEN /\ procs' = procs \ {Proc(init.console)}
          /\ init' = [init EXCEPT !.console = None, !.pc = To_shell("close_slave")]
     ELSE UNCHANGED procs /\ Goes_on("reap_shell")
  /\ UNCHANGED <<faults, born>>
reap_shell ==
  /\ In_init("reap_shell")
  /\ IF Gone(init.shell)
     THEN /\ procs' = procs \ {Proc(init.shell)}
          /\ init' = [init EXCEPT !.shell = None, !.slave = None, !.pc = "frontend"]
     ELSE UNCHANGED procs /\ Goes_on("frontend")
  /\ UNCHANGED <<faults, born>>

(* The frontend waits for its capabilities and for a free framebuffer;     *)
(* after any failure init sleeps and starts over.                          *)
spawn_consoled_process ==
  /\ In_init("frontend")
  /\ \/ init.console # None /\ Goes_on("shell") /\ Only_init
     \/ /\ init.console = None
        /\ \/ /\ Spawn(Child("consoled", None, None, "running"))
              /\ init' = [init EXCEPT !.console = born + 1, !.pc = "shell"]
              /\ UNCHANGED faults
           \/ Faulty_call /\ Goes_on("top") /\ UNCHANGED <<procs, born>>

(* spawn_user_shell: the open of the console, by way of the ttyd that      *)
(* answers; the child, not started; its group and terminal; its start.     *)
(* A child whose start fails is left behind.                               *)
open_console ==
  /\ In_init("shell")
  /\ \/ init.shell # None /\ Goes_on("top") /\ UNCHANGED faults
     \/ init.shell = None /\ TtydUp /\ init' = [init EXCEPT !.opened = Serving.id, !.pc = "fork"] /\ UNCHANGED faults
     \/ /\ init.shell = None
        /\ IF TtydUp THEN Faulty_call ELSE UNCHANGED faults
        /\ Goes_on("top")
  /\ UNCHANGED <<procs, born>>
spawn_deferred ==
  /\ In_init("fork")
  /\ \/ /\ Spawn(Child("shell", init.opened, init.console, "unstarted"))
        /\ init' = [init EXCEPT !.shell = born + 1, !.pc = "start"]
        /\ UNCHANGED faults
     \/ Faulty_call /\ init' = [init EXCEPT !.opened = None, !.pc = "top"] /\ UNCHANGED <<procs, born>>
spawn_user_shell_kept ==
  /\ In_init("start")
  /\ \/ /\ Becomes(Proc(init.shell), [Proc(init.shell) EXCEPT !.state = "running"])
        /\ init' = [init EXCEPT !.slave = init.opened, !.opened = None, !.pc = "top"]
        /\ UNCHANGED faults
     \/ Faulty_call /\ init' = [init EXCEPT !.opened = None, !.pc = "top"] /\ UNCHANGED procs
  /\ UNCHANGED born
spawn_user_shell ==
  /\ In_init("start")
  /\ \/ /\ Becomes(Proc(init.shell), [Proc(init.shell) EXCEPT !.state = "running"])
        /\ init' = [init EXCEPT !.slave = init.opened, !.opened = None, !.pc = "top"]
        /\ UNCHANGED faults
     \/ /\ Faulty_call
        /\ init' = [init EXCEPT !.shell = None, !.opened = None, !.pc = "top"]
        /\ UNCHANGED procs
  /\ UNCHANGED born

run_user_shell ==
  \/ teardown \/ kill_console \/ wait_console \/ kill_shell \/ wait_shell \/ close_slave
  \/ reap_ttyd \/ reap_console \/ reap_shell
  \/ spawn_consoled_process \/ open_console \/ spawn_deferred \/ spawn_user_shell

-----------------------------------------------------------------------------
(* The children.  A child ends of its own when it is told to or when what  *)
(* it depends on is gone; consoled connects to the ttyd that answers, and  *)
(* ends when none does.                                                    *)
Running(q) == q \in procs /\ q.state = "running"
Dies(q) == Becomes(q, [q EXCEPT !.state = "zombie"]) /\ UNCHANGED <<init, born>>
crash(q) == Running(q) /\ Faulty_call /\ Dies(q)
ends(q) ==
  /\ Running(q)
  /\ \/ q.told
     \/ q.ttyd # None /\ ~ Up(q.ttyd)
     \/ q.front # None /\ ~ Up(q.front)
     \/ q.kind = "consoled" /\ q.ttyd = None /\ ~ TtydUp
  /\ Dies(q) /\ UNCHANGED faults
connects(q) ==
  /\ Running(q) /\ q.kind = "consoled" /\ q.ttyd = None /\ TtydUp
  /\ Becomes(q, [q EXCEPT !.ttyd = Serving.id])
  /\ UNCHANGED <<init, faults, born>>

SupInit ==
  /\ init = [pc |-> "spawn_ttyd", booting |-> TRUE, ttyd |-> None, console |-> None, shell |-> None,
             slave |-> None, opened |-> None, attempt |-> 0]
  /\ procs = {} /\ faults = 0 /\ born = 0

Supervise == spawn_ttyd_process \/ start_ttyd \/ give_up_ttyd \/ run_user_shell
Settle == \E q \in procs : ends(q) \/ connects(q)
SupNext == Supervise \/ Settle \/ \E q \in procs : crash(q)

(* init is scheduled; a child that is told to end, or has lost what it     *)
(* serves, ends; crashes and failures are not owed.                        *)
SupSpec == SupInit /\ [][SupNext]_supVars
SupFair == WF_supVars(Supervise) /\ WF_supVars(Settle)

-----------------------------------------------------------------------------
(* "so no child keeps a stale endpoint": while a ttyd runs, init's own     *)
(* descriptor and every running child belong to it or to none, and while a *)
(* frontend runs every running shell was started for it; the teardown is   *)
(* complete before anything of the next generation exists, wherever the    *)
(* crashes fall (run_user_shell).  A shell whose start failed never runs.  *)
NoStaleEndpoint ==
  /\ TtydUp =>
       /\ init.slave \in {None, Serving.id}
       /\ \A q \in procs : q.state = "running" => q.ttyd \in {None, Serving.id}
  /\ \A c, q \in procs :
       c.kind = "consoled" /\ c.state = "running" /\ q.kind = "shell" /\ q.state = "running" => q.front = c.id

(* Supervision recovers: once crashes and failures have stopped, a ttyd,   *)
(* a frontend connected to it and a shell on its console run for good,     *)
(* unless the very first ttyd could not be started, which ends init.       *)
Frontend ==
  \E c, s \in procs : /\ TtydUp
                      /\ Running(c) /\ c.kind = "consoled" /\ c.ttyd = Serving.id
                      /\ Running(s) /\ s.kind = "shell" /\ s.ttyd = Serving.id /\ s.front = c.id
FrontendRestored == <>[](Frontend \/ init.pc = "ended")
=============================================================================
