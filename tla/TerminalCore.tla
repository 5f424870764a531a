----------------------------- MODULE TerminalCore -----------------------------
(***************************************************************************)
(* The line discipline of ttyd (terminal_core.hpp, terminal_core.cc) as    *)
(* operators on a core record.  The two rings and the canonical line are   *)
(* counts of bytes (no property looks at a stored byte), while a byte on   *)
(* its way in is its role: "a" a plain byte, "n" newline, "r" carriage     *)
(* return, "intr" a signal character, "stop" and "start" flow control,     *)
(* "erase", "kill" and "eof" line editing.  The termios is the set of the  *)
(* flags that are on, with VMIN and VTIME.                                 *)
(***************************************************************************)
EXTENDS Integers, Sequences

CONSTANT QueueCapacity   \* queue_capacity, 4096 in the code

ASSUME QueueCapacityAssumption == QueueCapacity \in Nat \ {0}

default_termios ==
  [flags |-> {"icrnl", "ixon", "opost", "onlcr", "isig", "icanon", "echo",
              "echoe", "echok", "ixten"},
   vmin |-> 1, vtime |-> 0]

\* raised collects the control events the handler of the core is called with.
new_core ==
  [input |-> 0, line |-> 0, records |-> <<>>, output |-> 0,
   termios |-> default_termios, output_paused |-> FALSE,
   input_shutdown |-> FALSE, master_hung_up |-> FALSE,
   slave_hung_up |-> FALSE, generation |-> 1, raised |-> 0]

Flag(c, f) == f \in c.termios.flags
is_canonical(c) == Flag(c, "icanon")
Free(n) == QueueCapacity - n
bump_generation(c) == [c EXCEPT !.generation = @ + 1]
Lesser(m, n) == IF m < n THEN m ELSE n

---------------------------------------------------------------------------
\* Echo: the room each kind needs, and its effect on the output ring.
echo_byte_size(c, b) ==
  IF ~Flag(c, "echo") /\ (b # "n" \/ ~Flag(c, "echonl")) THEN 0
  ELSE IF b = "n" /\ Flag(c, "onlcr") THEN 2 ELSE 1

echo_erase_size(c) == IF Flag(c, "echoe") THEN 3 ELSE 0
echo_kill_size(c) == IF Flag(c, "echok") THEN 1 ELSE 0

echo(c, size) ==
  IF size = 0 THEN c ELSE bump_generation([c EXCEPT !.output = @ + size])

clear_queues(c, input, output) ==
  bump_generation(
    [c EXCEPT !.input = IF input THEN 0 ELSE @, !.line = IF input THEN 0 ELSE @,
              !.records = IF input THEN <<>> ELSE @,
              !.output = IF output THEN 0 ELSE @])

set_paused(c, pause) ==
  IF c.output_paused = pause THEN c
  ELSE bump_generation([c EXCEPT !.output_paused = pause])

---------------------------------------------------------------------------
(***************************************************************************)
(* One byte of receive_input.  A result with full set leaves the core as   *)
(* it was and stops the loop: the byte has to wait for room.               *)
(***************************************************************************)
Took(c) == [core |-> c, full |-> FALSE]
NoRoom(c) == [core |-> c, full |-> TRUE]

canonical_byte(c, b) ==
  CASE Flag(c, "ixten") /\ b = "erase" ->
         IF c.line = 0 THEN Took(c)
         ELSE IF Free(c.output) < echo_erase_size(c) THEN NoRoom(c)
         ELSE Took(echo([c EXCEPT !.line = @ - 1], echo_erase_size(c)))
    [] Flag(c, "ixten") /\ b = "kill" ->
         IF Free(c.output) < echo_kill_size(c) THEN NoRoom(c)
         ELSE Took(echo([c EXCEPT !.line = 0], echo_kill_size(c)))
    [] b = "eof" /\ c.line = 0 ->
         IF Len(c.records) = QueueCapacity THEN NoRoom(c)
         ELSE Took(bump_generation([c EXCEPT !.records = Append(@, 0)]))
    [] OTHER ->
         IF \/ c.line >= QueueCapacity
            \/ Free(c.output) < echo_byte_size(c, b)
            \/ b = "n" /\ (c.line + 1 > Free(c.input) \/ Len(c.records) = QueueCapacity)
         THEN NoRoom(c)
         ELSE LET e == echo([c EXCEPT !.line = @ + 1], echo_byte_size(c, b))
              IN  Took(IF b # "n" THEN e
                       ELSE bump_generation(
                              [e EXCEPT !.input = @ + e.line, !.line = 0,
                                        !.records = Append(@, e.line)]))

raw_byte(c, b) ==
  IF c.input = QueueCapacity \/ Free(c.output) < echo_byte_size(c, b) THEN NoRoom(c)
  ELSE Took(bump_generation(echo([c EXCEPT !.input = @ + 1], echo_byte_size(c, b))))

\* The byte after the carriage-return and newline mappings ("" is dropped).
input_mapped(c, b) ==
  CASE b = "r" /\ Flag(c, "igncr") -> ""
    [] b = "r" /\ ~Flag(c, "igncr") /\ Flag(c, "icrnl") -> "n"
    [] b = "n" /\ Flag(c, "inlcr") -> "r"
    [] OTHER -> b

receive_byte(c0, b0) ==
  LET b == input_mapped(c0, b0)
      c == IF Flag(c0, "ixon") /\ Flag(c0, "ixany") THEN set_paused(c0, FALSE) ELSE c0
  IN  CASE b = "" -> Took(c0)
        [] Flag(c0, "ixon") /\ b = "stop" -> Took(set_paused(c0, TRUE))
        [] Flag(c0, "ixon") /\ b = "start" -> Took(set_paused(c0, FALSE))
        [] b = "intr" /\ Flag(c0, "isig") ->
             LET e == [c EXCEPT !.raised = @ + 1]
             IN  Took(IF Flag(c, "noflsh") THEN e ELSE clear_queues(e, TRUE, TRUE))
        [] OTHER -> IF is_canonical(c) THEN canonical_byte(c, b) ELSE raw_byte(c, b)

RECURSIVE receive_bytes(_, _, _)
receive_bytes(c, data, n) ==
  IF n = Len(data) THEN [core |-> c, count |-> n, error |-> ""]
  ELSE LET r == receive_byte(c, data[n + 1])
       IN  IF ~r.full THEN receive_bytes(r.core, data, n + 1)
           ELSE [core |-> r.core, count |-> n, error |-> IF n = 0 THEN "EAGAIN" ELSE ""]

Refused(c, error) == [core |-> c, count |-> 0, error |-> error]

receive_input(c, data) ==
  CASE c.slave_hung_up -> Refused(c, "EIO")
    [] ~c.slave_hung_up /\ c.input_shutdown -> Refused(c, "EPIPE")
    [] OTHER -> receive_bytes(c, data, 0)

---------------------------------------------------------------------------
\* A canonical read takes the head record, or the part of it that fits.
read_canonical_record(c, max_size) ==
  LET remaining == Head(c.records)
      count == Lesser(remaining, max_size)
  IN  [core |-> bump_generation(
                  [c EXCEPT !.input = IF @ < count THEN 0 ELSE @ - count,
                            !.records = IF remaining = count THEN Tail(@)
                                        ELSE <<remaining - count>> \o Tail(@)]),
       count |-> count, error |-> ""]

read_input(c, max_size, timeout_expired) ==
  IF is_canonical(c) /\ c.records # <<>> THEN read_canonical_record(c, max_size)
  ELSE IF c.input = 0 THEN
    Refused(c, IF \/ c.input_shutdown
                  \/ c.master_hung_up
                  \/ ~is_canonical(c) /\ c.termios.vtime # 0 /\ timeout_expired
                  \/ ~is_canonical(c) /\ c.termios.vmin = 0 /\ c.termios.vtime = 0
               THEN "" ELSE "EAGAIN")
  ELSE IF /\ ~is_canonical(c)
          /\ c.input < Lesser(c.termios.vmin, max_size)
          /\ ~timeout_expired
       THEN Refused(c, "EAGAIN")
  ELSE LET count == Lesser(c.input, max_size)
       IN  [core |-> bump_generation([c EXCEPT !.input = @ - count]),
            count |-> count, error |-> ""]

RECURSIVE write_bytes(_, _, _)
write_bytes(c, data, n) ==
  IF n = Len(data) THEN [core |-> c, count |-> n, error |-> ""]
  ELSE LET room == IF data[n + 1] = "n" /\ {"opost", "onlcr"} \subseteq c.termios.flags
                   THEN 2 ELSE 1
       IN  IF Free(c.output) < room
           THEN [core |-> c, count |-> n, error |-> IF n = 0 THEN "EAGAIN" ELSE ""]
           ELSE write_bytes(bump_generation([c EXCEPT !.output = @ + room]), data, n + 1)

write_output(c, data) ==
  CASE c.master_hung_up -> Refused(c, "EIO")
    [] ~c.master_hung_up /\ c.output_paused /\ data # <<>> -> Refused(c, "EAGAIN")
    [] OTHER -> write_bytes(c, data, 0)

read_output(c, max_size) ==
  IF c.output = 0 THEN Refused(c, IF c.slave_hung_up THEN "EIO" ELSE "EAGAIN")
  ELSE LET count == Lesser(c.output, max_size)
       IN  [core |-> bump_generation([c EXCEPT !.output = @ - count]),
            count |-> count, error |-> ""]

---------------------------------------------------------------------------
core_flush(c, queue) ==
  clear_queues(c, queue \in {"input", "both"}, queue \in {"output", "both"})
shutdown_input(c) == bump_generation([c EXCEPT !.input_shutdown = TRUE])
hangup_master(c) == bump_generation([c EXCEPT !.master_hung_up = TRUE])
hangup_slave(c) == bump_generation([c EXCEPT !.slave_hung_up = TRUE])
open_master(c) ==
  IF c.master_hung_up THEN bump_generation([c EXCEPT !.master_hung_up = FALSE]) ELSE c
open_slave(c) ==
  IF c.slave_hung_up THEN bump_generation([c EXCEPT !.slave_hung_up = FALSE]) ELSE c

set_termios(c, value) ==
  bump_generation([c EXCEPT !.termios = value,
                            !.output_paused = @ /\ "ixon" \in value.flags])

master_poll_events(c) ==
  LET echo_space == IF ~Flag(c, "echo") /\ ~Flag(c, "echonl") THEN 0
                    ELSE IF Flag(c, "onlcr") THEN 2 ELSE 1
      input_space == IF is_canonical(c)
                     THEN c.line < QueueCapacity /\ Len(c.records) < QueueCapacity
                     ELSE c.input < QueueCapacity
  IN  {e \in {"readable", "writable", "hangup"} :
         \/ e = "readable" /\ (c.output # 0 \/ c.slave_hung_up)
         \/ /\ e = "writable" /\ input_space /\ Free(c.output) >= echo_space
            /\ ~c.input_shutdown /\ ~c.slave_hung_up
         \/ e = "hangup" /\ c.slave_hung_up}

slave_poll_events(c) ==
  {e \in {"readable", "writable", "hangup"} :
     \/ e = "readable" /\ \/ c.input # 0 \/ c.records # <<>>
                          \/ c.input_shutdown \/ c.master_hung_up
     \/ e = "writable" /\ Free(c.output) > 0 /\ ~c.master_hung_up /\ ~c.output_paused
     \/ e = "hangup" /\ c.master_hung_up}
=============================================================================
