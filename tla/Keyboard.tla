------------------------------ MODULE Keyboard ------------------------------
(***************************************************************************)
(* The path of a key from the PS/2 controller to the input thread of the   *)
(* kernel: the hard interrupt stores one scan-code byte and raises a       *)
(* tasklet (arch/dev/serial/8042.cc, tasklet.cc), the soft interrupt runs  *)
(* the tasklet on the way out of an interrupt or in the soft-interrupt     *)
(* daemon (irq.cc, arch/interrupt.cc), the tasklet completes the request   *)
(* that the input thread left with the driver (io/io_manager.cc,           *)
(* task/builtin/input_task.cc).                                            *)
(*                                                                         *)
(* The interrupt of the keyboard is delivered to one processor.  There the *)
(* handlers run with interrupts off; the input thread runs on any          *)
(* processor, so its steps interleave with all of theirs.                  *)
(***************************************************************************)
EXTENDS Integers, Sequences, SequencesExt, FiniteSets

CONSTANTS
    Keystrokes,       \* strokes of the keyboard: [bytes, key, release]
    kb_cache_count,   \* bytes the ring of the driver holds
    TaskletHandlers,  \* do_tasklet is registered once by each processor
    MaxStrokes        \* bound: strokes of a behaviour

ASSUME KeyboardAssumption ==
    /\ kb_cache_count \in Nat \ {0} /\ TaskletHandlers \in Nat \ {0}
    /\ MaxStrokes \in Nat
    /\ \A s \in Keystrokes : s.bytes \in Seq(0..255) /\ s.bytes # <<>>

VARIABLES
    kbd,      \* the device: buffer, buffer_overflow, last_prefix, io_list
    tasklet,  \* its tasklet: state, and whether the processor's queue holds it
    soft,     \* soft interrupts of the processor and who executes handlers
    request,  \* the keyboard request of the input thread
    reader,   \* program counter of listen_keyboard
    wire,     \* the strokes made so far, and the bytes still to be sent
    seen      \* history: keys delivered, and the windows that were hit

kbVars == <<kbd, tasklet, soft, request, reader, wire, seen>>

NoKey == [key |-> 0, release |-> FALSE, from |-> <<>>]

\* A stack index that completion() has moved below zero.
Wrapped == -1

KbInit ==
    /\ kbd = [buffer |-> <<>>, overflow |-> FALSE, prefix |-> <<>>, io_list |-> FALSE]
    /\ tasklet = [state |-> 0, queued |-> FALSE]
    /\ soft = [hard |-> FALSE, pending |-> FALSE, inside |-> FALSE, irq |-> "idle",
               daemon |-> "asleep", by |-> "none", pc |-> "none", handlers |-> 0, key |-> NoKey]
    /\ request = [complete |-> TRUE, index |-> 0, stack |-> FALSE, result |-> NoKey]
    /\ reader = "submit"
    /\ wire = [strokes |-> <<>>, left |-> <<>>]
    /\ seen = [keys |-> <<>>, beheaded |-> {}, missed |-> FALSE, cleared |-> FALSE]

-----------------------------------------------------------------------------
(* get_key: what one call takes out of the ring.  A byte is recorded with  *)
(* the stroke it belongs to: [code, of].                                   *)

Codes(bytes) == [i \in DOMAIN bytes |-> bytes[i].code]

\* The key that a prefix and a byte stand for, or none.
Decoded(prefix, k) ==
    CASE prefix = <<>> /\ k < 89 -> [key |-> k, release |-> FALSE]
      [] prefix = <<>> /\ k > 128 /\ k < 217 -> [key |-> k - 128, release |-> TRUE]
      [] prefix = <<224>> ->
            LET code == IF k >= 144 THEN k - 128 ELSE k
            IN [key |-> IF code = 75 THEN 154 ELSE (code + 80) % 256, release |-> k >= 144]
      [] prefix \in {<<225, 29>>, <<225, 157>>} /\ k = prefix[2] + 40 ->
            [key |-> 254, release |-> FALSE]
      [] OTHER -> [key |-> 0, release |-> FALSE]

\* The prefix a byte leaves behind when it completes no key.
Prefixed(prefix, b) ==
    CASE prefix = <<>> /\ b.code \in {224, 225} -> <<b>>
      [] Codes(prefix) = <<225>> -> Append(prefix, b)
      [] OTHER -> <<>>

\* The loop over the buffered bytes, up to the first key.
get_key_loop[buffer \in Seq([code : 0..255, of : Nat]), prefix \in Seq([code : 0..255, of : Nat])] ==
    IF buffer = <<>> THEN [buffer |-> <<>>, prefix |-> prefix, key |-> NoKey]
    ELSE LET b == Head(buffer)
             d == Decoded(Codes(prefix), b.code)
         IN IF d.key # 0
            THEN [buffer |-> Tail(buffer), prefix |-> <<>>,
                  key |-> [key |-> d.key, release |-> d.release, from |-> Append(prefix, b)]]
            ELSE get_key_loop[Tail(buffer), Prefixed(prefix, b)]

\* A burst in which a byte was dropped is discarded as a whole.
get_key(k) ==
    IF k.overflow
    THEN [dev |-> [k EXCEPT !.buffer = <<>>, !.prefix = <<>>, !.overflow = FALSE], key |-> NoKey]
    ELSE LET r == get_key_loop[k.buffer, k.prefix]
         IN [dev |-> [k EXCEPT !.buffer = r.buffer, !.prefix = r.prefix], key |-> r.key]

\* Strokes that a discard has cut: their bytes still on the wire come alone.
Cut == IF kbd.overflow /\ wire.left # <<>> THEN {Len(wire.strokes)} ELSE {}

-----------------------------------------------------------------------------
(* The hard interrupt.                                                     *)

\* Interrupts are off in a handler, and while soft handlers are invoked.
InterruptsOn == ~soft.hard /\ soft.by = "none"

\* The keyboard is struck; the bytes go over the wire one interrupt each.
strike(s) ==
    /\ wire.left = <<>> /\ Len(wire.strokes) < MaxStrokes
    /\ wire' = [strokes |-> Append(wire.strokes, s), left |-> s.bytes]
    /\ UNCHANGED <<kbd, tasklet, soft, request, reader, seen>>

Stored_silent(k, b) ==
    IF Len(k.buffer) < kb_cache_count THEN [k EXCEPT !.buffer = Append(@, b)] ELSE k

Stored(k, b) ==
    IF Len(k.buffer) < kb_cache_count
    THEN [k EXCEPT !.buffer = Append(@, b)]
    ELSE [k EXCEPT !.overflow = TRUE]

\* kb_device::on_interrupt, up to raise_tasklet.
on_interrupt ==
    /\ InterruptsOn /\ wire.left # <<>>
    /\ kbd' = Stored(kbd, [code |-> Head(wire.left), of |-> Len(wire.strokes)])
    /\ wire' = [wire EXCEPT !.left = Tail(@)]
    /\ soft' = [soft EXCEPT !.hard = TRUE]
    /\ UNCHANGED <<tasklet, request, reader, seen>>

\* do_irq: on the way out of an interrupt, soft interrupts, unless they run.
do_irq(s) ==
    IF s.inside THEN [s EXCEPT !.hard = FALSE]
    ELSE [s EXCEPT !.hard = FALSE, !.inside = TRUE, !.irq = "vectors"]

\* raise_tasklet with raise_soft_irq, and the end of the interrupt.
raise_tasklet ==
    /\ soft.hard
    /\ tasklet' = IF tasklet.state = 0 THEN [state |-> 1, queued |-> TRUE]
                                       ELSE [tasklet EXCEPT !.state = 2]
    /\ soft' = do_irq([soft EXCEPT !.pending = @ \/ tasklet.state = 0])
    /\ UNCHANGED <<kbd, request, reader, wire, seen>>

\* Any other interrupt of the processor, the timer's for one.
other_interrupt ==
    /\ InterruptsOn
    /\ soft' = do_irq(soft)
    /\ UNCHANGED <<kbd, tasklet, request, reader, wire, seen>>

-----------------------------------------------------------------------------
(* Soft interrupts, executed on the way out of an interrupt ("irq") or by  *)
(* the daemon, which an interrupt's own execution preempts.                *)

Executes(who) ==
    /\ InterruptsOn
    /\ who = "daemon" => soft.irq = "idle"

\* do_soft_irq: the vector is tested, ...
do_soft_irq(who) ==
    /\ Executes(who) /\ soft[who] = "vectors"
    /\ soft' = [soft EXCEPT ![who] = IF soft.pending THEN "begin" ELSE "check"]
    /\ UNCHANGED <<kbd, tasklet, request, reader, wire, seen>>

\* ... and tested again with interrupts off, before its handlers are invoked.
do_soft_irq_begin(who) ==
    /\ Executes(who) /\ soft[who] = "begin"
    /\ soft' = IF soft.pending
               THEN [soft EXCEPT !.by = who, !.pc = "take", !.handlers = TaskletHandlers,
                                 !.pending = FALSE]
               ELSE [soft EXCEPT ![who] = "check"]
    /\ UNCHANGED <<kbd, tasklet, request, reader, wire, seen>>

\* The end of do_soft_irq: what was raised meanwhile is left to the daemon.
wakeup_condition(who) ==
    /\ Executes(who) /\ soft[who] = "check"
    /\ soft' = IF who = "daemon" THEN [soft EXCEPT !.daemon = "wait"]
               ELSE [soft EXCEPT !.irq = "leave",
                                 !.daemon = IF soft.pending /\ @ = "asleep" THEN "wait" ELSE @]
    /\ UNCHANGED <<kbd, tasklet, request, reader, wire, seen>>

\* do_irq after the soft interrupts: exit_soft_irq.
exit_soft_irq ==
    /\ InterruptsOn /\ soft.irq = "leave"
    /\ soft' = [soft EXCEPT !.irq = "idle", !.inside = FALSE]
    /\ UNCHANGED <<kbd, tasklet, request, reader, wire, seen>>

\* wakeup_soft_irq_daemon: do_wait(wakeup_condition), then do_soft_irq.
wakeup_soft_irq_daemon ==
    /\ Executes("daemon") /\ soft.daemon = "wait"
    /\ soft' = [soft EXCEPT !.daemon = IF soft.pending THEN "vectors" ELSE "asleep"]
    /\ UNCHANGED <<kbd, tasklet, request, reader, wire, seen>>

\* The next registered do_tasklet, or the end of the vector.
NextHandler ==
    IF soft.handlers > 1 THEN [soft EXCEPT !.handlers = @ - 1, !.pc = "take"]
    ELSE [soft EXCEPT !.by = "none", !.pc = "none", !.handlers = 0, ![soft.by] = "check"]

Finished_marked(t) ==
    IF t.state = 2 THEN [state |-> 1, queued |-> TRUE] ELSE t

\* exec_tasklet after a pass: one more when the tasklet was raised again.
Finished(t) ==
    IF t.state = 2 THEN [state |-> 1, queued |-> TRUE] ELSE [t EXCEPT !.state = 0]

PassEnds ==
    /\ tasklet' = Finished([tasklet EXCEPT !.queued = FALSE])
    /\ soft' = [NextHandler EXCEPT !.pending = @ \/ tasklet.state = 2]

\* exec_tasklet takes the processor's queue and begins kb_device::run_tasklet,
\* in which a pass with no request waiting reads nothing.
exec_tasklet ==
    /\ soft.pc = "take"
    /\ \/ ~tasklet.queued /\ soft' = NextHandler /\ UNCHANGED <<tasklet, seen>>
       \/ /\ tasklet.queued /\ ~kbd.io_list
          /\ seen' = [seen EXCEPT !.missed = @ \/ reader = "push"]
          /\ PassEnds
       \/ /\ tasklet.queued /\ kbd.io_list
          /\ tasklet' = [tasklet EXCEPT !.queued = FALSE]
          /\ soft' = [soft EXCEPT !.pc = "key"]
          /\ UNCHANGED seen
    /\ UNCHANGED <<kbd, request, reader, wire>>

\* The pass reads the ring.
run_tasklet ==
    /\ soft.pc = "key"
    /\ LET r == get_key(kbd)
       IN /\ kbd' = r.dev
          /\ IF r.key = NoKey THEN PassEnds
             ELSE soft' = [soft EXCEPT !.pc = "complete", !.key = r.key] /\ UNCHANGED tasklet
    /\ seen' = [seen EXCEPT !.beheaded = @ \cup Cut]
    /\ UNCHANGED <<request, reader, wire>>

\* The request leaves the list, outside whose lock it is completed.
run_tasklet_complete ==
    /\ soft.pc = "complete"
    /\ kbd' = [kbd EXCEPT !.io_list = FALSE]
    /\ request' = [request EXCEPT !.result = soft.key, !.complete = TRUE]
    /\ soft' = [soft EXCEPT !.pc = "completion", !.key = NoKey]
    /\ UNCHANGED <<tasklet, reader, wire, seen>>

\* io::completion: a chain of one driver has no callback below it, and the
\* index is left at -1; the final callback wakes the input thread.
completion ==
    /\ soft.pc = "completion"
    /\ request' = [request EXCEPT !.index = Wrapped]
    /\ PassEnds
    /\ UNCHANGED <<kbd, reader, wire, seen>>

-----------------------------------------------------------------------------
(* The input thread.                                                       *)

\* listen_keyboard and send_io_request, up to the driver.
send_io_request ==
    /\ reader = "submit"
    /\ IF request.complete
       THEN /\ request' = [request EXCEPT !.complete = FALSE, !.index = 0, !.stack = TRUE]
            /\ reader' = "request"
       ELSE reader' = "wait" /\ UNCHANGED request
    /\ UNCHANGED <<kbd, tasklet, soft, wire, seen>>

\* kb_driver::on_io_request: a key that is already there, ...  The device is
\* found through the stack index; a wrapped one reads outside the stack.
on_io_request ==
    /\ reader = "request"
    /\ IF request.index = Wrapped
       THEN reader' = "wild" /\ UNCHANGED <<kbd, request, seen>>
       ELSE LET r == get_key(kbd)
            IN /\ kbd' = r.dev
               /\ seen' = [seen EXCEPT !.beheaded = @ \cup Cut]
               /\ IF r.key = NoKey THEN reader' = "push" /\ UNCHANGED request
                  ELSE /\ reader' = "sent"
                       /\ request' = [request EXCEPT !.result = r.key, !.complete = TRUE]
    /\ UNCHANGED <<tasklet, soft, wire>>

\* ... or the request is left in io_list, ...
on_io_request_push ==
    /\ reader = "push"
    /\ kbd' = [kbd EXCEPT !.io_list = TRUE]
    /\ reader' = "clear"
    /\ UNCHANGED <<tasklet, soft, request, wire, seen>>

\* ... and marked incomplete after that.
on_io_request_clear ==
    /\ reader = "clear"
    /\ request' = [request EXCEPT !.complete = FALSE]
    /\ seen' = [seen EXCEPT !.cleared = @ \/ request.complete]
    /\ reader' = "sent"
    /\ UNCHANGED <<kbd, tasklet, soft, wire>>

\* The end of send_io_request: a completed request gives its stack back.
sent ==
    /\ reader = "sent"
    /\ request' = [request EXCEPT !.stack = @ /\ ~request.complete]
    /\ reader' = "wait"
    /\ UNCHANGED <<kbd, tasklet, soft, wire, seen>>

\* do_wait, then print_keyboard with finish_io_request.
print_key ==
    /\ reader = "wait" /\ request.complete
    /\ seen' = [seen EXCEPT !.keys = Append(@, request.result)]
    /\ request' = IF request.stack THEN [request EXCEPT !.stack = FALSE, !.index = 0] ELSE request
    /\ reader' = "submit"
    /\ UNCHANGED <<kbd, tasklet, soft, wire>>

-----------------------------------------------------------------------------
KbNext ==
    \/ \E s \in Keystrokes : strike(s)
    \/ on_interrupt \/ raise_tasklet \/ other_interrupt
    \/ \E who \in {"irq", "daemon"} :
           do_soft_irq(who) \/ do_soft_irq_begin(who) \/ wakeup_condition(who)
    \/ exit_soft_irq \/ wakeup_soft_irq_daemon
    \/ exec_tasklet \/ run_tasklet \/ run_tasklet_complete \/ completion
    \/ send_io_request \/ on_io_request \/ on_io_request_push \/ on_io_request_clear
    \/ sent \/ print_key

KbSpec == KbInit /\ [][KbNext]_kbVars

-----------------------------------------------------------------------------
\* Keys still to be read from the ring, a discard counted as one.
Readable == kbd.overflow \/ get_key_loop[kbd.buffer, kbd.prefix].key # NoKey

\* No interrupt, tasklet or soft interrupt is under way or due.
Quiet ==
    /\ InterruptsOn /\ soft.irq = "idle" /\ ~soft.pending
    /\ soft.daemon \in {"wait", "asleep"}

\* A key never waits in the ring for the next one: when all interrupt work is
\* done and the input thread waits, its request is with the driver, the ring
\* holds no key and the next interrupt will queue the tasklet (kb_device::
\* run_tasklet, on_io_request, exec_tasklet).  The two windows of on_io_request
\* are the exceptions: a tasklet pass between its get_key and its push_back
\* finds no request, and a completion between its push_back and its store of
\* io_is_completion is overwritten.
KeyNeverWaits ==
    (Quiet /\ reader = "wait" /\ ~request.complete /\ ~seen.missed /\ ~seen.cleared) =>
        kbd.io_list /\ ~Readable /\ tasklet.state = 0

\* Every key the input thread is given is one whole stroke of the keyboard,
\* decoded to that stroke's key, and the strokes come in the order they were
\* made, none twice (get_key and the ring of kb_device).  The exception is a
\* stroke whose first bytes went with a discarded burst: the bytes that follow
\* the discard are read as a stroke of their own.
KeysAreStrokes ==
    \A i \in DOMAIN seen.keys :
        LET k == seen.keys[i]
            n == k.from[1].of
        IN /\ \A j \in DOMAIN k.from : k.from[j].of = n
           /\ i > 1 => \/ Last(seen.keys[i - 1].from).of < n
                       \/ Last(seen.keys[i - 1].from).of = n /\ n \in seen.beheaded
           /\ n \notin seen.beheaded =>
                [bytes |-> Codes(k.from), key |-> k.key, release |-> k.release] = wire.strokes[n]

=============================================================================
