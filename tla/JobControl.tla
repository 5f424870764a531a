----------------------------- MODULE JobControl ------------------------------
(***************************************************************************)
(* Sessions, process groups and controlling terminals: the indexes that    *)
(* task.cc keeps under process_list_lock, the identity of a terminal in    *)
(* the kernel, and the calls that change them: set_session,                *)
(* set_process_group, attach, detach, set_pgrp, check_io, hangup and the   *)
(* exit of a process.                                                      *)
(*                                                                         *)
(* One step is one critical section of process_list_lock.  A call is made  *)
(* by a dispatch worker on behalf of a process that may be exiting by then;*)
(* a signal to a group is delivered after the lock has been given up.      *)
(***************************************************************************)
EXTENDS Integers, FiniteSets, SequencesExt

CONSTANTS
    Pids,           \* processes, and the names of the groups and sessions they can lead
    Leader,         \* the process that exists at the start, alone in its session
    Terminals,      \* terminal identities
    Hangups,        \* threads that hang up a terminal or signal its foreground group
    Callers,        \* dispatch workers that execute an attach
    None,           \* the group, session or terminal 0
    MaxJobCalls     \* bound: calls

ASSUME LeaderAssumption == Leader \in Pids /\ None \notin Pids \cup Terminals

VARIABLES
    jc,             \* the processes, sessions, groups and terminals
    hangup,         \* what each hangup or group signal has still to do
    attaching,      \* attach calls that have found their terminal live
    jobcalls,       \* calls left to make
    strayed         \* history: sessions whose state a known race has left behind

jobVars == <<jc, hangup, attaching, jobcalls, strayed>>

\* process_t, session_t, process_group_t and terminal_identity.  Membership of a session or a
\* group is the pointer of the process (inSession, inGroup); the members map is its inverse.
NewJob == [stage |-> "none", parent |-> None, session_id |-> None, group_id |-> None,
           inSession |-> FALSE, inGroup |-> FALSE, cleaned |-> FALSE]

NewSession == [exists |-> FALSE, terminal |-> None, foreground |-> None]

JobInit ==
    /\ jc = [job |-> [p \in Pids |-> IF p = Leader
                        THEN [NewJob EXCEPT !.stage = "live", !.session_id = p, !.group_id = p,
                                            !.inSession = TRUE, !.inGroup = TRUE]
                        ELSE NewJob],
             session |-> [s \in Pids |-> [NewSession EXCEPT !.exists = s = Leader]],
             group |-> [g \in Pids |-> IF g = Leader THEN Leader ELSE None],
             terminal |-> [t \in Terminals |-> [live |-> TRUE, session |-> None, foreground |-> None]],
             panic |-> FALSE]
    /\ hangup = [h \in Hangups |-> [pc |-> "idle", terminal |-> None, group |-> None, to |-> {}]]
    /\ attaching = [c \in Callers |-> [process |-> None, terminal |-> None]]
    /\ jobcalls = MaxJobCalls
    /\ strayed = {}

(***************************************************************************)
(* The operations of task.cc under process_list_lock                       *)
(***************************************************************************)
SessionMembers(J, s) == {p \in Pids : J.job[p].inSession /\ J.job[p].session_id = s}

GroupMembers(J, g) == {p \in Pids : J.job[p].inGroup /\ J.job[p].group_id = g}

\* remove_process_group_if_empty_unlocked, remove_session_if_empty_unlocked
RemoveEmpty(J, g, s) ==
    [J EXCEPT !.group = IF g # None /\ GroupMembers(J, g) = {} THEN [@ EXCEPT ![g] = None] ELSE @,
              !.session = IF /\ s # None /\ SessionMembers(J, s) = {}
                             /\ J.session[s].terminal = None
                          THEN [@ EXCEPT ![s] = NewSession] ELSE @]

\* mutated form: a group or a session that has lost its last member stays in its map
unregister_process_keep(J, p) == [J EXCEPT !.job[p].inGroup = FALSE, !.job[p].inSession = FALSE]

unregister_process(J, p) ==
    LET j == J.job[p]
        K == [J EXCEPT !.job[p].inGroup = FALSE, !.job[p].inSession = FALSE]
    IN  RemoveEmpty(K, IF j.inGroup THEN j.group_id ELSE None, IF j.inSession THEN j.session_id ELSE None)

\* get_or_create_process_group_unlocked asserts that a group has one session
enter_group(J, p, g) ==
    [J EXCEPT !.panic = @ \/ J.group[g] \notin {None, J.job[p].session_id},
              !.group[g] = IF @ = None THEN J.job[p].session_id ELSE @,
              !.job[p].group_id = g, !.job[p].inGroup = TRUE]

register_process(J, p, s, g) ==
    enter_group([J EXCEPT !.job[p].session_id = s, !.job[p].inSession = TRUE, !.session[s].exists = TRUE], p, g)

move_process_session(J, p, s, g) == register_process(unregister_process(J, p), p, s, g)

\* terminal_identity::set_foreground_process_group: nothing changes once it is revoked
SetForeground(J, t, g) ==
    IF t # None /\ J.terminal[t].live THEN [J EXCEPT !.terminal[t].foreground = g] ELSE J

ClearForeground(J, s) == SetForeground([J EXCEPT !.session[s].foreground = None], J.session[s].terminal, None)

move_process_group(J, p, g) ==
    IF J.job[p].group_id = g /\ J.job[p].inGroup THEN J
    ELSE LET old == J.job[p].group_id
             s   == J.job[p].session_id
             K   == [J EXCEPT !.job[p].inGroup = FALSE]
             moved == enter_group(IF J.job[p].inGroup THEN RemoveEmpty(K, old, None) ELSE K, p, g)
         IN  IF /\ J.job[p].inSession /\ J.job[p].inGroup
                /\ J.session[s].foreground = old /\ GroupMembers(K, old) = {}
             THEN ClearForeground(moved, s) ELSE moved

\* detach_session_terminal_unlocked
detach_session_terminal(J, s, t) ==
    IF s = None \/ ~J.session[s].exists \/ J.session[s].terminal # t THEN J
    ELSE [SetForeground(J, t, None) EXCEPT !.session[s].terminal = None, !.session[s].foreground = None,
                                           !.terminal[t].session = None]

process_group_exists(J, s, g, except) == J.group[g] = s /\ GroupMembers(J, g) \ except # {}

\* cleanup_process_job_control, once for each process
cleanup_process_job_control(J, p) ==
    IF J.job[p].cleaned THEN J
    ELSE LET s == J.job[p].session_id
             g == J.job[p].group_id
             K == [J EXCEPT !.job[p].cleaned = TRUE]
             L == IF J.session[s].exists /\ J.session[s].terminal # None /\ p = s
                  THEN detach_session_terminal(K, s, J.session[s].terminal) ELSE K
             M == IF L.session[s].exists /\ L.session[s].foreground = g /\ ~process_group_exists(L, s, g, {p})
                  THEN ClearForeground(L, s) ELSE L
         IN  unregister_process(M, p)

Live(p) == jc.job[p].stage = "live"

(***************************************************************************)
(* Calls                                                                   *)
(***************************************************************************)
JobCall(J) ==
    /\ ~jc.panic /\ jobcalls > 0
    /\ jobcalls' = jobcalls - 1
    /\ jc' = J
    /\ UNCHANGED <<hangup, attaching>>

\* fork or spawn: the child joins the session and the group of its parent
join_parent(p, c) ==
    /\ Live(p) /\ jc.job[c].stage = "none"
    /\ JobCall(register_process([jc EXCEPT !.job[c].stage = "live", !.job[c].parent = p], c,
                                jc.job[p].session_id, jc.job[p].group_id))
    /\ strayed' = IF jc.job[p].cleaned THEN strayed \cup {jc.job[p].session_id} ELSE strayed

setpgid(p, c, g) ==
    /\ jc.job[p].stage # "none" /\ Live(c)
    /\ c = p \/ jc.job[c].parent = p
    /\ jc.job[c].session_id = jc.job[p].session_id /\ c # jc.job[c].session_id
    /\ g = c \/ process_group_exists(jc, jc.job[c].session_id, g, {})
    /\ JobCall(move_process_group(jc, c, g))
    /\ strayed' = IF jc.job[c].cleaned THEN strayed \cup {jc.job[c].session_id} ELSE strayed

\* setsid: nobody looks whether the session that is left loses its foreground group
setsid(p) ==
    /\ Live(p) /\ jc.job[p].group_id # p
    /\ JobCall(move_process_session(jc, p, p, p))
    /\ LET s == jc.job[p].session_id
           lost == jc.session[s].foreground = jc.job[p].group_id /\ GroupMembers(jc, jc.job[p].group_id) \subseteq {p}
       IN  strayed' = strayed \cup (IF jc.job[p].cleaned THEN {p, s} ELSE IF lost THEN {s} ELSE {})

\* TerminalJobControl.attach: the handler finds the identity live, then calls task.cc
attach_check(c, p, t) ==
    /\ ~jc.panic /\ jobcalls > 0 /\ attaching[c].process = None
    /\ jc.job[p].stage # "none" /\ jc.terminal[t].live
    /\ attaching' = [attaching EXCEPT ![c] = [process |-> p, terminal |-> t]]
    /\ jobcalls' = jobcalls - 1
    /\ UNCHANGED <<jc, hangup, strayed>>

attach_controlling_terminal(c, force) ==
    /\ ~jc.panic /\ attaching[c].process # None
    /\ LET p == attaching[c].process
           t == attaching[c].terminal
           foreign == LET f == jc.terminal[t].session
                      IN  IF f # None /\ jc.session[f].exists /\ jc.session[f].terminal = t /\ f # p
                          THEN f ELSE None
           allowed == /\ Live(p) /\ p = jc.job[p].session_id /\ jc.session[p].exists
                      /\ force \/ (jc.session[p].terminal \in {None, t} /\ foreign = None)
           K == detach_session_terminal(jc, foreign, t)
           L == IF K.session[p].terminal \notin {None, t}
                THEN detach_session_terminal(K, p, K.session[p].terminal) ELSE K
       IN  /\ jc' = IF ~allowed THEN jc
                    ELSE SetForeground([L EXCEPT !.session[p].terminal = t,
                                                 !.session[p].foreground = jc.job[p].group_id,
                                                 !.terminal[t].session = p],
                                       t, jc.job[p].group_id)
           /\ strayed' = IF allowed /\ (jc.job[p].cleaned \/ ~jc.terminal[t].live) THEN strayed \cup {p} ELSE strayed
    /\ attaching' = [attaching EXCEPT ![c].process = None]
    /\ UNCHANGED <<hangup, jobcalls>>

\* TerminalJobControl.detach: only the session leader changes more than its own pointer
detach_controlling_terminal(p) ==
    /\ jc.job[p].stage # "none" /\ p = jc.job[p].session_id
    /\ jc.session[p].exists /\ jc.session[p].terminal # None
    /\ JobCall(detach_session_terminal(jc, p, jc.session[p].terminal))
    /\ UNCHANGED strayed

\* TerminalJobControl.set_pgrp by a process that may do so
set_foreground_process_group(p, t, g) ==
    /\ Live(p) /\ jc.job[p].inSession
    /\ LET s == jc.job[p].session_id IN
       /\ jc.session[s].exists /\ jc.session[s].terminal = t /\ jc.terminal[t].live
       /\ jc.job[s].inSession /\ jc.job[s].session_id = s /\ Live(s)
       /\ process_group_exists(jc, s, g, {})
       /\ JobCall([jc EXCEPT !.terminal[t].foreground = g, !.session[s].foreground = g])
    /\ UNCHANGED strayed

\* exit_process: the job control of the process is cleaned up before its threads are gone
exit_job(p) ==
    /\ Live(p)
    /\ JobCall(cleanup_process_job_control(jc, p))
    /\ UNCHANGED strayed

\* the last thread is gone; then a wait of the parent deletes the process
exit_end(p) ==
    /\ ~jc.panic /\ Live(p) /\ jc.job[p].cleaned
    /\ jc' = [jc EXCEPT !.job[p].stage = "exited"]
    /\ UNCHANGED <<hangup, attaching, jobcalls, strayed>>

delete_job(p) ==
    /\ ~jc.panic /\ jc.job[p].stage = "exited"
    /\ jc' = [unregister_process(jc, p) EXCEPT !.job[p].stage = "gone"]
    /\ UNCHANGED <<hangup, attaching, jobcalls, strayed>>

(***************************************************************************)
(* Hangup, and signals to the foreground group                             *)
(***************************************************************************)
HangupAt(h, pc) == ~jc.panic /\ hangup[h].pc = pc

\* the hangup and revoke methods of the driver end by revoke_and_take_foreground
revoke_and_take_foreground(h, t) ==
    /\ HangupAt(h, "idle") /\ jobcalls > 0 /\ jc.terminal[t].live
    /\ jc' = [jc EXCEPT !.terminal[t].live = FALSE]
    /\ hangup' = [hangup EXCEPT ![h] = [pc |-> "signal", terminal |-> t,
                                        group |-> jc.terminal[t].foreground, to |-> {}]]
    /\ jobcalls' = jobcalls - 1
    /\ UNCHANGED <<attaching, strayed>>

\* release of the last capability of the driver end
release_capability(h, t) == revoke_and_take_foreground(h, t)

\* raise_foreground: SIGINT to the foreground group of a live terminal
foreground_if_live(h, t) ==
    /\ HangupAt(h, "idle") /\ jobcalls > 0 /\ jc.terminal[t].live /\ jc.terminal[t].foreground # None
    /\ hangup' = [hangup EXCEPT ![h] = [pc |-> "signal", terminal |-> None,
                                        group |-> jc.terminal[t].foreground, to |-> {}]]
    /\ jobcalls' = jobcalls - 1
    /\ UNCHANGED <<jc, attaching, strayed>>

\* check_terminal_job_control: I/O from the background stops the group of the process
check_terminal_job_control(h, p, t) ==
    /\ HangupAt(h, "idle") /\ jobcalls > 0 /\ jc.terminal[t].live /\ jc.job[p].inSession
    /\ LET s == jc.job[p].session_id IN
       jc.session[s].terminal = t /\ jc.terminal[t].session = s
    /\ jc.terminal[t].foreground \notin {None, jc.job[p].group_id}
    /\ hangup' = [hangup EXCEPT ![h] = [pc |-> "signal", terminal |-> None, group |-> jc.job[p].group_id, to |-> {}]]
    /\ jobcalls' = jobcalls - 1
    /\ UNCHANGED <<jc, attaching, strayed>>

\* send_signal_to_process_group collects the live members of the group, ...
send_signal_to_process_group(h) ==
    /\ HangupAt(h, "signal")
    /\ hangup' = [hangup EXCEPT ![h].pc = "deliver",
                                ![h].to = IF hangup[h].group = None THEN {}
                                          ELSE {p \in GroupMembers(jc, hangup[h].group) : Live(p)}]
    /\ UNCHANGED <<jc, attaching, jobcalls, strayed>>

\* ... and signals them one by one; the signal may end a process, or stop it
deliver(h) ==
    /\ HangupAt(h, "deliver") /\ hangup[h].to # {}
    /\ \E p \in hangup[h].to, ends \in BOOLEAN :
          /\ hangup' = [hangup EXCEPT ![h].to = @ \ {p}]
          /\ jc' = IF ends /\ Live(p) THEN cleanup_process_job_control(jc, p) ELSE jc
    /\ UNCHANGED <<attaching, jobcalls, strayed>>

detach_after_hangup(h) ==
    /\ HangupAt(h, "deliver") /\ hangup[h].to = {}
    /\ LET t == hangup[h].terminal IN
       jc' = IF t = None \/ jc.terminal[t].session = None THEN jc
             ELSE detach_session_terminal(jc, jc.terminal[t].session, t)
    /\ hangup' = [hangup EXCEPT ![h].pc = "idle", ![h].terminal = None, ![h].group = None]
    /\ UNCHANGED <<attaching, jobcalls, strayed>>

JobNext ==
    \/ \E p, c \in Pids : join_parent(p, c)
    \/ \E p, c, g \in Pids : setpgid(p, c, g)
    \/ \E p \in Pids : setsid(p) \/ detach_controlling_terminal(p) \/ exit_job(p) \/ exit_end(p) \/ delete_job(p)
    \/ \E c \in Callers, p \in Pids, t \in Terminals : attach_check(c, p, t)
    \/ \E c \in Callers, force \in BOOLEAN : attach_controlling_terminal(c, force)
    \/ \E p, g \in Pids, t \in Terminals : set_foreground_process_group(p, t, g)
    \/ \E h \in Hangups, t \in Terminals : 
        revoke_and_take_foreground(h, t) \/ release_capability(h, t) \/ foreground_if_live(h, t)
    \/ \E h \in Hangups, p \in Pids, t \in Terminals : check_terminal_job_control(h, p, t)
    \/ \E h \in Hangups : send_signal_to_process_group(h) \/ deliver(h) \/ detach_after_hangup(h)

JobSpec == JobInit /\ [][JobNext]_jobVars

(***************************************************************************)
(* Properties                                                              *)
(***************************************************************************)
\* The indexes of task.cc agree with the processes: a registered process is in a group of its
\* own session, a group has members and one session, a session without members survives only
\* with a terminal (register_process_job_control_unlocked and its inverse).  A call on behalf of
\* a process that has already been cleaned up, or the assertion on the session of a group, ends
\* what is claimed of the sessions involved.
\* A session and its controlling terminal name each other, agree on the foreground group while the
\* terminal is live, and that group has members; a revoked terminal keeps a session only until its
\* hangup is complete; and a session has a terminal only while its leader is registered in it, so
\* that the exit of the leader frees the terminal (attach_controlling_terminal,
\* detach_session_terminal_unlocked, cleanup_process_job_control).  Excepted are sessions that a
\* setsid, a late call of an exiting process or an attach racing a hangup has left behind.
JobIndexesAgree ==
    ~jc.panic =>
    /\ \A p \in Pids : LET j == jc.job[p] IN
          /\ j.inGroup => jc.group[j.group_id] = j.session_id
          /\ j.inSession => jc.session[j.session_id].exists
          /\ (j.cleaned /\ j.session_id \notin strayed) => ~j.inGroup /\ ~j.inSession
    /\ \A g \in Pids : jc.group[g] # None => GroupMembers(jc, g) # {}
    /\ \A s \in Pids : jc.session[s].exists => \/ SessionMembers(jc, s) # {}
                                                     \/ jc.session[s].terminal # None \/ s \in strayed
    /\ \A t \in Terminals : LET s == jc.terminal[t].session IN
          s # None => jc.session[s].exists /\ jc.session[s].terminal = t
    /\ \A s \in Pids : LET t == jc.session[s].terminal
                           f == jc.session[s].foreground IN
          (jc.session[s].exists /\ t # None) =>
             /\ jc.terminal[t].session = s
             /\ jc.terminal[t].live => jc.terminal[t].foreground = f
             /\ s \notin strayed =>
                   /\ jc.job[s].inSession /\ jc.job[s].session_id = s
                   /\ f # None => jc.group[f] = s
                   /\ jc.terminal[t].live \/ \E h \in Hangups : hangup[h].terminal = t
==============================================================================
