------------------------------ MODULE MCTerminal ------------------------------
(***************************************************************************)
(* The terminal server, and the console with the kernel's terminals, on    *)
(* small instances.  They share no state in the model: a behaviour is one  *)
(* of one of them, while the other does nothing.                           *)
(***************************************************************************)
EXTENDS Ttyd, Console

VARIABLE side

RW == {"read", "write"}
Raw == [flags |-> {}, vmin |-> 1, vtime |-> 1]

Read == [op |-> "read", size |-> 2]
Write(data) == [op |-> "write", data |-> data]
Watch == [op |-> "watch", mask |-> {"readable"}, observed |-> 1]

NewPty == [op |-> "create_pty", locked |-> FALSE, mode |-> RW]

MCManagerCalls ==
  [empty |-> {NewPty, [op |-> "open_console", mode |-> RW],
              [op |-> "open_console_master", mode |-> RW]},
   granted |-> {NewPty,
                [op |-> "open_pty_slave", id |-> 1, generation |-> 1, mode |-> RW],
                [op |-> "open_pty_slave_by_number", id |-> 1, mode |-> {"read", "nonblock"}]},
   open |-> {}, paused |-> {}]
MCMasterCalls ==
  [empty |-> {},
   granted |-> {[op |-> "grant_slave"], [op |-> "unlock", locked |-> TRUE],
                [op |-> "clone_binding", rights |-> {"read"}, share |-> TRUE, nonblock |-> FALSE]},
   open |-> {Read, Write(<<"a", "n">>), Write(<<"stop">>), Write(<<"intr">>), Watch,
             [op |-> "set_winsize"], [op |-> "shutdown_input"]},
   paused |-> {Read, Watch, [op |-> "set_flow", pause |-> FALSE]}]
MCSlaveCalls ==
  [empty |-> {},
   granted |-> {Read, [op |-> "query"], [op |-> "send_break"], [op |-> "set_status_flags", nonblock |-> FALSE]},
   open |-> {Read, Write(<<"a", "a">>), Watch, [op |-> "flush", queue |-> "both"],
             [op |-> "set_attributes", action |-> 1, termios |-> Raw]},
   paused |-> {Write(<<"a">>)}]

From(start, calls, cancels, closes, faults, connects) ==
  [start |-> start, calls |-> calls, cancels |-> cancels, closes |-> closes,
   faults |-> faults, connects |-> connects]
MCTtydStarts ==
  {From("empty", 2, 1, 1, 1, 1), From("empty", 3, 0, 1, 0, 0),
   From("granted", 3, 0, 0, 0, 0), From("granted", 2, 1, 1, 1, 0),
   From("paused", 3, 0, 1, 0, 0),
   From("open", 3, 0, 1, 0, 0), From("open", 2, 1, 1, 1, 0)}

\* A letter and a modifier.
MCKeyClass == [k \in {"a", "shift"} |-> IF k = "a" THEN {"letter", "a"} ELSE {"shift"}]
MCStrokes == {<<"press", "a">>, <<"press", "shift">>, <<"release", "shift">>}

TerminalInit ==
  /\ ConInit
  /\ \/ side = "ttyd" /\ ttyd_init
     \/ /\ side = "console" /\ s = InitState /\ budget = From("empty", 0, 0, 0, 0, 0)
        /\ pc = "top" /\ batch = {} /\ gone = {} /\ hung = {}
TerminalNext ==
  /\ UNCHANGED side
  /\ \/ side = "ttyd" /\ ttyd_next /\ UNCHANGED conVars
     \/ side = "console" /\ ConNext /\ UNCHANGED ttyd_vars
TerminalSpec == TerminalInit /\ [][TerminalNext]_<<side, ttyd_vars, conVars>>
=============================================================================
