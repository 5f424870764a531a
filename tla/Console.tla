------------------------------- MODULE Console -------------------------------
(***************************************************************************)
(* The console: the keyboard thread (input_task.cc) publishes key events   *)
(* to the one subscriber of the input source (input_event_source.cc);      *)
(* consoled (usr/consoled/main.cc) turns them into bytes for its terminal  *)
(* and draws on the framebuffer; and the kernel terminal (terminal.cc)     *)
(* takes the framebuffer back when Ctrl+Alt+F12 asks for it, by an event,  *)
(* and by force when a timer finds the writer still there.                 *)
(*                                                                         *)
(* The keyboard thread, the timer, the worker of each subscribe call and   *)
(* consoled interleave at their locks, sends and system calls.  consoled   *)
(* may fail anywhere; init starts another.  ttyd is its answers.           *)
(***************************************************************************)
EXTENDS Integers, Sequences, FiniteSets, SequencesExt

CONSTANTS
  MaxEvents,      \* events a subscriber may leave unread, 64
  OutputBytes,    \* bytes consoled queues for its terminal, 8192
  ChunkBytes,     \* bytes it writes at a time, 2048
  MaxFailures,    \* subscriptions that may fail in a row, 8
  KeyClass,       \* the keys of the keyboard, with the class of each
  Strokes,        \* the keys struck, <<"press" or "release", key>>
  MaxInputs,      \* bound: keys struck, switches of the terminal and starts of consoled
  MaxStarts,      \* bound: times consoled is started
  MaxSubscriptions \* bound: channels made for it

VARIABLES
  keys,     \* the keyboard thread: what is down, and the publish it is in
  source,   \* input_event_source: its subscriber
  channel,  \* the channels made for subscribers
  subscribing, \* the subscribe call of each consoled
  terms,    \* terminal_manager, and the flags beside it
  lease,    \* the framebuffer device
  con       \* consoled
conVars == <<keys, source, channel, subscribing, terms, lease, con>>

Kernel == 0       \* kernel_console_index
User == 1         \* user_terminal_index
NoPending == -1
Overrun == [kind |-> "overrun"]
Key(kind, k, mods) == [kind |-> kind, key |-> k, mods |-> mods]
Modifiers == {"control", "alt", "shift"}

(* is_modifier_key: the mask of a key, if it has one.                      *)
is_modifier_key(k) == KeyClass[k] \cap Modifiers

-----------------------------------------------------------------------------
(* consoled's keyboard.                                                    *)
Released == [caps |-> FALSE, num |-> FALSE, scroll |-> FALSE, compose |-> FALSE,
             pressed |-> {}, mods |-> {}]
key_modifiers(b, e) == e.mods \cup b.mods
key_to_vterm(k) == "named" \in KeyClass[k]

(* What a pressed key does: a lock toggles; Ctrl+Alt+F12 is the kernel's;  *)
(* the number pad moves the cursor until it is locked, and is then within  *)
(* the range of the function keys; a grave accent waits for the next key.  *)
emit_key_event(b, e) ==
  LET c == KeyClass[e.key]
      emit(kind) == [board |-> b, bytes |-> <<<<kind, e.key, key_modifiers(b, e)>>>>]
      nothing(board) == [board |-> board, bytes |-> << >>]
      upper == ("letter" \in c) /\ (("shift" \in e.mods) # b.caps)
  IN IF "capslock" \in c THEN nothing([b EXCEPT !.caps = ~@])
     ELSE IF "numlock" \in c THEN nothing([b EXCEPT !.num = ~@])
     ELSE IF "scrolllock" \in c THEN nothing([b EXCEPT !.scroll = ~@])
     ELSE IF "f12" \in c /\ {"control", "alt"} \subseteq e.mods THEN nothing(b)
     ELSE IF "pad" \in c /\ ~b.num THEN emit("cursor")
     ELSE IF key_to_vterm(e.key) THEN emit("named")
     ELSE IF c \cap {"pad", "function", "f12"} # {} THEN emit("function")
     ELSE IF "back_tick" \in c /\ e.mods \cap {"control", "alt"} = {} THEN nothing([b EXCEPT !.compose = TRUE])
     ELSE IF c \cap {"letter", "back_tick"} # {} THEN
          [board |-> [b EXCEPT !.compose = FALSE],
           bytes |-> <<<<IF upper THEN "upper" ELSE IF b.compose /\ "a" \in c THEN "grave" ELSE "lower",
                         e.key, key_modifiers(b, e)>>>>]
     ELSE nothing(b)

(* The handling of a key event, with the pressed keys and the modifiers.   *)
Pressed(b, e) ==
  IF e.kind = "release"
  THEN [board |-> [b EXCEPT !.pressed = @ \ {e.key}, !.mods = @ \ is_modifier_key(e.key)], bytes |-> << >>]
  ELSE emit_key_event([b EXCEPT !.pressed = @ \cup {e.key}, !.mods = @ \cup is_modifier_key(e.key)], e)

-----------------------------------------------------------------------------
(* The channel of a subscriber: MaxEvents messages and one for a marker.   *)
NoChannel == [queue |-> << >>, owned |-> FALSE, producer |-> FALSE]
send_raw_channel_kernel(ch, sub, e) ==
  CASE ~ch[sub].owned -> [status |-> "closed", channel |-> ch]
    [] ch[sub].owned /\ Len(ch[sub].queue) >= MaxEvents + 1 -> [status |-> "full", channel |-> ch]
    [] OTHER -> [status |-> "ok", channel |-> [ch EXCEPT ![sub].queue = Append(@, e)]]
release_kernel_producer(ch, sub) == IF sub = 0 THEN ch ELSE [ch EXCEPT ![sub].producer = FALSE]
NoSubscriber == [subscriber |-> 0, overrun_pending |-> FALSE, reserved |-> FALSE, made |-> 0]

(* subscribe, up to its first unlock: the slot is reserved when it is free *)
(* or when the receiver that has it is gone.                               *)
Calling(g) == subscribing[g].at = "called"
subscribe(g) ==
  LET stale == source.subscriber # 0 /\ ~channel[source.subscriber].owned
      free == ~source.reserved /\ (source.subscriber = 0 \/ stale)
  IN /\ Calling(g)
     /\ IF free
        THEN /\ source' = [source EXCEPT !.reserved = TRUE, !.subscriber = 0, !.overrun_pending = FALSE]
             /\ channel' = release_kernel_producer(channel, source.subscriber)
             /\ subscribing' = [subscribing EXCEPT ![g].at = "reserved"]
        ELSE /\ subscribing' = [subscribing EXCEPT ![g].at = "refused"]
             /\ UNCHANGED <<source, channel>>
     /\ UNCHANGED <<keys, terms, lease, con>>

(* Then the channel is made and published.                                 *)
subscribe_commit(g) ==
  LET sub == source.made + 1 IN
  /\ subscribing[g].at = "reserved"
  /\ sub <= MaxSubscriptions
  /\ channel' = [channel EXCEPT ![sub].producer = TRUE]
  /\ source' = [source EXCEPT !.subscriber = sub, !.overrun_pending = FALSE, !.reserved = FALSE, !.made = sub]
  /\ subscribing' = [subscribing EXCEPT ![g] = [at |-> "committed", channel |-> sub]]
  /\ UNCHANGED <<keys, terms, lease, con>>

(* publish_input_event_source_call ends: the receiver has an owner from    *)
(* here on.  The caller may be gone; then the subscription is undone.      *)
rollback_subscription(sub) ==
  IF source.subscriber = sub THEN [source EXCEPT !.subscriber = 0, !.overrun_pending = FALSE] ELSE source
publish_input_event_source_call(g) ==
  /\ subscribing[g].at = "committed"
  /\ LET sub == subscribing[g].channel IN
     IF con.gen = g /\ con.pc = "subscribe"
     THEN /\ channel' = [channel EXCEPT ![sub].owned = TRUE]
          /\ subscribing' = [subscribing EXCEPT ![g].at = "answered"]
          /\ UNCHANGED source
     ELSE /\ source' = rollback_subscription(sub)
          /\ channel' = IF source.subscriber = sub THEN release_kernel_producer(channel, sub) ELSE channel
          /\ subscribing' = [subscribing EXCEPT ![g].at = "none"]
  /\ UNCHANGED <<keys, terms, lease, con>>

-----------------------------------------------------------------------------
(* publish, on the keyboard thread: the subscriber is copied under the     *)
(* lock, sent to without it, and what became of the send is noted under it *)
(* again, unless the subscriber has changed.                               *)
At(at) == keys.pc = at
Bounded == keys.struck + con.gen < MaxInputs
Keeps == UNCHANGED <<subscribing, terms, lease, con>>
Published == [keys EXCEPT !.pc = keys.then, !.to = 0, !.latched = FALSE]

publish_snapshot ==
  /\ At("publish")
  /\ keys' = IF source.subscriber = 0 THEN Published
             ELSE [keys EXCEPT !.to = source.subscriber, !.latched = source.overrun_pending,
                               !.pc = IF source.overrun_pending THEN "marker" ELSE "room"]
  /\ UNCHANGED <<source, channel>> /\ Keeps

(* A marker that is still owed goes first.                                 *)
publish_marker ==
  /\ At("marker")
  /\ LET r == send_raw_channel_kernel(channel, keys.to, Overrun) IN
     /\ channel' = r.channel
     /\ keys' = IF r.status = "closed" THEN Published
                ELSE [keys EXCEPT !.latched = r.status # "ok", !.pc = "room"]
  /\ UNCHANGED source /\ Keeps

(* The last message of a full queue is kept for the marker: an event that  *)
(* finds the others taken is lost, and the marker says so now.             *)
publish_room ==
  /\ At("room")
  /\ keys' = [keys EXCEPT !.pc = IF Len(channel[keys.to].queue) >= MaxEvents THEN "overrun" ELSE "send"]
  /\ UNCHANGED <<source, channel>> /\ Keeps
publish_overrun_latched ==
  /\ At("overrun")
  /\ keys' = [keys EXCEPT !.pc = "settle", !.status = "full"]
  /\ UNCHANGED <<source, channel>> /\ Keeps
publish_overrun ==
  /\ At("overrun")
  /\ LET r == send_raw_channel_kernel(channel, keys.to, Overrun) IN
     /\ channel' = r.channel
     /\ keys' = [keys EXCEPT !.pc = "settle", !.latched = FALSE,
                             !.status = IF r.status = "ok" THEN "ok" ELSE "full"]
  /\ UNCHANGED source /\ Keeps
publish_send ==
  /\ At("send")
  /\ LET r == send_raw_channel_kernel(channel, keys.to, keys.event) IN
     /\ channel' = r.channel
     /\ keys' = [keys EXCEPT !.pc = "settle", !.status = r.status]
  /\ UNCHANGED source /\ Keeps
publish_settle ==
  /\ At("settle")
  /\ IF source.subscriber # keys.to THEN UNCHANGED <<source, channel>>
     ELSE IF keys.status = "closed"
     THEN /\ source' = [source EXCEPT !.subscriber = 0, !.overrun_pending = FALSE]
          /\ channel' = release_kernel_producer(channel, keys.to)
     ELSE /\ source' = [source EXCEPT !.overrun_pending = keys.status = "full" \/ keys.latched]
          /\ UNCHANGED channel
  /\ keys' = Published /\ Keeps

publish == \/ publish_snapshot \/ publish_marker \/ publish_room
           \/ publish_overrun \/ publish_send \/ publish_settle

(* print_keyboard: a press is published before the key counts as down, a   *)
(* release after it no longer does; Ctrl+Alt+F12 is not published.         *)
Down(k) == UNION {is_modifier_key(j) : j \in k}
Publishing(K, e, then) == [K EXCEPT !.pc = "publish", !.event = e, !.then = then, !.status = "ok"]
print_keyboard(k, kind) ==
  LET down == IF kind = "press" THEN keys.down \cup {k} ELSE keys.down \ {k}
      held == Down(IF kind = "press" THEN keys.down ELSE down)
  IN /\ At("idle")
     /\ Bounded
     /\ kind = "release" => k \in keys.down
     /\ keys' = [Publishing(keys, Key(kind, k, held), "idle") EXCEPT !.down = down, !.struck = @ + 1]
     /\ UNCHANGED <<source, channel>> /\ Keeps

-----------------------------------------------------------------------------
(* terminal_manager.  Ctrl+Alt+F12 asks for the kernel's terminal: at once *)
(* when nobody has the framebuffer, else by an event to its writer and a   *)
(* timer.  switch_term(User) is the way back; boot uses it.                *)
reset_panic_term(T) == [T EXCEPT !.enabled = FALSE, !.writer = FALSE]
NowKernel(T) == reset_panic_term([T EXCEPT !.pending = NoPending, !.watcher = FALSE, !.cur = Kernel])
SwitchOnly == UNCHANGED <<source, channel, subscribing, lease, con>>

switch_term_user ==
  /\ At("idle") /\ Bounded
  /\ terms' = [terms EXCEPT !.enabled = TRUE, !.pending = NoPending, !.cur = User, !.watcher = FALSE]
  /\ keys' = [Publishing(keys, [kind |-> "enable"], "idle") EXCEPT !.struck = @ + 1]
  /\ SwitchOnly

(* The writer is looked at without a lock; what was seen decides.          *)
switch_term_kernel ==
  /\ At("idle") /\ Bounded
  /\ terms' = [terms EXCEPT !.enabled = FALSE]
  /\ keys' = [keys EXCEPT !.pc = IF terms.writer THEN "ask" ELSE "take", !.struck = @ + 1]
  /\ SwitchOnly
switch_take ==
  /\ At("take")
  /\ terms' = NowKernel(terms)
  /\ keys' = [keys EXCEPT !.pc = "idle"]
  /\ SwitchOnly
switch_ask ==
  /\ At("ask")
  /\ terms' = [terms EXCEPT !.pending = Kernel]
  /\ keys' = IF terms.pending = Kernel THEN [keys EXCEPT !.pc = "idle"]
             ELSE Publishing(keys, [kind |-> "disable"], "arm")
  /\ SwitchOnly
switch_arm ==
  /\ At("arm")
  /\ terms' = [terms EXCEPT !.watcher = @ \/ terms.pending = Kernel]
  /\ keys' = [keys EXCEPT !.pc = "idle"]
  /\ SwitchOnly

switch_term == switch_term_user \/ switch_term_kernel \/ switch_take \/ switch_ask \/ switch_arm

(* set_framebuffer_user_writer(false), and framebuffer_writer_released:    *)
(* a switch that waited for the writer happens now.                        *)
framebuffer_writer_released(T) ==
  IF T.pending = Kernel THEN NowKernel(T) ELSE [T EXCEPT !.writer = FALSE, !.watcher = FALSE]

(* The lease: its descriptor and its mapping.  late is for the property: a *)
(* writer that had passed the test of framebuffer_user_enabled when the    *)
(* switch came.                                                            *)
NoLease == [gen |-> 0, opens |-> 0, maps |-> 0, late |-> FALSE]
release_if_idle_opens(L) == L.opens = 0
release_if_idle(L) == L.opens = 0 /\ L.maps = 0
Given(L) ==
  IF L.gen # 0 /\ release_if_idle(L)
  THEN lease' = [L EXCEPT !.gen = 0, !.late = L.maps > 0 /\ @] /\ terms' = framebuffer_writer_released(terms)
  ELSE lease' = L /\ UNCHANGED terms
Mine == lease.gen = con.gen

(* The timer: the writer that did not answer is made to exit.              *)
ConAlive == con.pc \notin {"dead", "exit", "cleared"}
force_framebuffer_handoff ==
  /\ terms.watcher
  /\ terms' = [terms EXCEPT !.watcher = FALSE]
  /\ con' = IF terms.pending = Kernel /\ terms.writer /\ Mine /\ ConAlive
            THEN [con EXCEPT !.pc = "exit"] ELSE con
  /\ UNCHANGED <<keys, source, channel, subscribing, lease>>

-----------------------------------------------------------------------------
(* consoled.  A step is a system call or a part of the loop; "then" is     *)
(* where it goes on once the framebuffer is open or closed.                *)
Stopped == [pc |-> "dead", gen |-> 0, board |-> Released, receiver |-> 0, enabled |-> FALSE,
            read |-> "none", write |-> "none", data |-> << >>, out |-> << >>, typed |-> << >>,
            sent |-> << >>, failures |-> 0, backoff |-> FALSE, booting |-> FALSE]
ConGoes(at) == con' = [con EXCEPT !.pc = at]
InPc(at) == con.pc = at
OnlyCon == UNCHANGED <<keys, source, channel, subscribing, terms, lease>>
NotLease == UNCHANGED <<keys, source, channel, subscribing>>

main == /\ InPc("dead") /\ con.gen < MaxStarts /\ Bounded
        /\ con' = [Stopped EXCEPT !.gen = con.gen + 1, !.pc = "open", !.booting = TRUE]
        /\ OnlyCon

(* open("/dev/fb0"): the test of the flag, then the lease; then mmap.      *)
OpenFailed == ConGoes(IF con.booting THEN "exit" ELSE "drain")
open_enabled == /\ InPc("open")
                /\ IF terms.enabled THEN ConGoes("open_lease") ELSE OpenFailed
                /\ OnlyCon
open_lease ==
  /\ InPc("open_lease")
  /\ IF lease.gen # 0 THEN OpenFailed /\ UNCHANGED <<terms, lease>>
     ELSE /\ lease' = [lease EXCEPT !.gen = con.gen, !.opens = 1, !.late = ~terms.enabled]
          /\ terms' = [terms EXCEPT !.writer = TRUE]
          /\ ConGoes("map")
  /\ NotLease
enable_framebuffer ==
  /\ InPc("map")
  /\ \/ /\ lease' = [lease EXCEPT !.maps = @ + 1]
        /\ con' = [con EXCEPT !.enabled = TRUE, !.pc = IF con.booting THEN "connect" ELSE "drain"]
        /\ UNCHANGED terms
     \/ Given([lease EXCEPT !.opens = 0]) /\ OpenFailed
  /\ NotLease

(* disable_framebuffer: munmap, then close.  A shutdown does the same.     *)
disable_unmap ==
  /\ con.pc \in {"unmap", "shutdown"}
  /\ IF con.enabled THEN Given([lease EXCEPT !.maps = @ - 1]) ELSE UNCHANGED <<terms, lease>>
  /\ con' = [con EXCEPT !.enabled = FALSE, !.pc = IF con.pc = "unmap" THEN "close" ELSE "exit"]
  /\ NotLease
disable_framebuffer ==
  /\ InPc("close")
  /\ Given([lease EXCEPT !.opens = 0])
  /\ ConGoes("drain")
  /\ NotLease

(* connect_master answers or fails; then the input is subscribed to.       *)
Subscribe == /\ subscribing' = [subscribing EXCEPT ![con.gen].at = "called"]
             /\ ConGoes("subscribe")
             /\ UNCHANGED <<keys, source, channel, terms, lease>>
connect_master == InPc("connect") /\ (Subscribe \/ (ConGoes("exit") /\ OnlyCon))
subscribe_input ==
  /\ InPc("subscribe")
  /\ \/ /\ subscribing[con.gen].at = "answered"
        /\ con' = [con EXCEPT !.receiver = subscribing[con.gen].channel, !.failures = 0,
                              !.backoff = FALSE, !.booting = FALSE, !.pc = "submit"]
     \/ /\ subscribing[con.gen].at = "refused"
        /\ con' = IF con.booting THEN [con EXCEPT !.booting = FALSE, !.pc = "top"]
                  ELSE [con EXCEPT !.failures = @ + 1, !.backoff = TRUE,
                                   !.pc = IF con.failures + 1 >= MaxFailures THEN "shutdown" ELSE "submit"]
  /\ subscribing' = [subscribing EXCEPT ![con.gen].at = "none"]
  /\ UNCHANGED <<keys, source, channel, terms, lease>>

(* The top of the loop: a lost receiver is replaced when its time comes.   *)
retry_input ==
  /\ InPc("top")
  /\ \/ con.receiver = 0 /\ Subscribe
     \/ (con.receiver # 0 \/ con.backoff) /\ ConGoes("submit") /\ OnlyCon

(* The master's part of a round changes nothing but consoled, so it is one *)
(* step; each operator below gives the states its part may lead to.        *)
(* submit_master_watch and submit_master_write: a full endpoint is tried   *)
(* again, any other failure ends consoled.                                 *)
Chunk(c) == SubSeq(c.out, 1, IF Len(c.out) < ChunkBytes THEN Len(c.out) ELSE ChunkBytes)
submit_master_watch(c) == [c EXCEPT !.read = IF @ = "none" THEN "watch" ELSE @]
submit_master_read(c) == [c EXCEPT !.read = "read"]
submit_master_write(c) == [c EXCEPT !.write = "write", !.data = Chunk(c)]
Ended(c) == [c EXCEPT !.pc = "shutdown"]
submit_master(c) ==
  {submit_master_watch(c), Ended(c)}
  \cup (IF c.write = "none" /\ c.out # << >> THEN {submit_master_write(submit_master_watch(c))} ELSE {})

(* A readiness watch is followed by a read; a read is drawn; an empty one  *)
(* starts the round again.                                                 *)
complete_master_read(c) ==
  {c, Ended(c)}
  \cup (IF c.read = "watch" THEN {submit_master_read(c)}
        ELSE {[c EXCEPT !.read = "none"], [c EXCEPT !.read = "none", !.pc = "top"]})

(* The terminal takes a part of the chunk, or would block.                 *)
Taken(c, n, dropped) ==
  [c EXCEPT !.write = "none", !.data = << >>, !.sent = @ \o SubSeq(c.data, 1, n),
            !.out = SubSeq(@, dropped + 1, Len(@))]
Written_all(c, n) == Taken(c, n, Len(c.data))
Written(c, n) == Taken(c, n, n)
complete_master_write(c) ==
  CASE c.write = "none"  -> {c}
    [] c.write = "write" -> {c, Ended(c), [c EXCEPT !.write = "watch", !.data = << >>]}
                            \cup {Written(c, n) : n \in 0..Len(c.data)}
    [] c.write = "watch" -> {c, Ended(c), [c EXCEPT !.write = "none"]}

Unless(c, part(_)) == IF c.pc = "submit" THEN part(c) ELSE {c}
serve_master ==
  /\ InPc("submit")
  /\ \E submitted \in submit_master(con) :
     \E read \in Unless(submitted, complete_master_read) :
     \E written \in Unless(read, complete_master_write) :
       con' = IF written.pc = "submit" THEN [written EXCEPT !.pc = "input"] ELSE written
  /\ OnlyCon

(* The input end: closed by the kernel, readable, or neither yet seen.     *)
input_ready ==
  /\ InPc("input")
  /\ \/ ConGoes("top") /\ UNCHANGED channel
     \/ /\ con.receiver # 0 /\ ~channel[con.receiver].producer
        /\ channel' = [channel EXCEPT ![con.receiver].owned = FALSE]
        /\ con' = [con EXCEPT !.receiver = 0, !.board = Released, !.pc = "top"]
     \/ /\ con.receiver # 0 /\ channel[con.receiver].producer /\ channel[con.receiver].queue # << >>
        /\ ConGoes("drain") /\ UNCHANGED channel
  /\ UNCHANGED <<keys, source, subscribing, terms, lease>>

(* One event of the drain; a full output queue ends consoled.              *)
Handled(e) ==
  CASE e.kind = "disable" -> [con EXCEPT !.pc = IF con.enabled THEN "unmap" ELSE "drain"]
    [] e.kind = "enable"  -> [con EXCEPT !.pc = IF con.enabled THEN "drain" ELSE "open"]
    [] e.kind = "overrun" -> [con EXCEPT !.board = Released]
    [] OTHER ->
         LET r == Pressed(con.board, e) IN
         IF Len(r.bytes) > OutputBytes - Len(con.out) THEN [con EXCEPT !.board = r.board, !.pc = "shutdown"]
         ELSE [con EXCEPT !.board = r.board, !.out = @ \o r.bytes, !.typed = @ \o r.bytes]
drain ==
  /\ InPc("drain")
  /\ IF channel[con.receiver].queue = << >> THEN ConGoes("top") /\ UNCHANGED channel
     ELSE /\ con' = Handled(Head(channel[con.receiver].queue))
          /\ channel' = [channel EXCEPT ![con.receiver].queue = Tail(@)]
  /\ UNCHANGED <<keys, source, subscribing, terms, lease>>

(* The end of the process, however it came: its handles, then its memory.  *)
ConFail == ConAlive /\ ConGoes("exit") /\ OnlyCon
exit_handles ==
  /\ InPc("exit")
  /\ IF Mine THEN Given([lease EXCEPT !.opens = 0]) ELSE UNCHANGED <<terms, lease>>
  /\ channel' = [sub \in DOMAIN channel |->
                    IF sub = con.receiver \/ (subscribing[con.gen].at = "answered" /\ sub = subscribing[con.gen].channel)
                    THEN [channel[sub] EXCEPT !.owned = FALSE] ELSE channel[sub]]
  /\ ConGoes("cleared")
  /\ UNCHANGED <<keys, source, subscribing>>
exit_memory ==
  /\ InPc("cleared")
  /\ IF con.enabled THEN Given([lease EXCEPT !.maps = @ - 1]) ELSE UNCHANGED <<terms, lease>>
  /\ con' = [Stopped EXCEPT !.gen = con.gen]
  /\ NotLease

-----------------------------------------------------------------------------
ConInit ==
  /\ keys = [pc |-> "idle", then |-> "idle", event |-> Overrun, to |-> 0, latched |-> FALSE,
             status |-> "ok", down |-> {}, struck |-> 0]
  /\ source = NoSubscriber
  /\ channel = [sub \in 1..MaxSubscriptions |-> NoChannel]
  /\ subscribing = [g \in 1..MaxStarts |-> [at |-> "none", channel |-> 0]]
  /\ terms = [cur |-> User, pending |-> NoPending, watcher |-> FALSE, writer |-> FALSE, enabled |-> TRUE]
  /\ lease = NoLease
  /\ con = Stopped

ConLoop ==
  \/ main \/ open_enabled \/ open_lease \/ enable_framebuffer \/ disable_unmap \/ disable_framebuffer
  \/ connect_master \/ subscribe_input \/ retry_input \/ serve_master
  \/ input_ready \/ drain
  \/ ConFail \/ exit_handles \/ exit_memory

ConNext ==
  \/ \E stroke \in Strokes : print_keyboard(stroke[2], stroke[1])
  \/ publish
  \/ switch_term
  \/ force_framebuffer_handoff
  \/ \E g \in 1..MaxStarts : subscribe(g) \/ subscribe_commit(g) \/ publish_input_event_source_call(g)
  \/ ConLoop

ConSpec == ConInit /\ [][ConNext]_conVars

-----------------------------------------------------------------------------
(* The events of a receiver that falls behind are lost, but consoled never *)
(* goes on believing in them: once it has read all there is and nothing is *)
(* being published, every modifier it takes for held is held               *)
(* (input_event_source::publish, consoled's handling of OVERRUN).          *)
NoStuckModifier ==
  /\ At("idle") /\ ConAlive /\ con.receiver # 0
  /\ source.subscriber = con.receiver
  /\ channel[con.receiver].queue = << >>
  => con.board.mods \subseteq Down(keys.down)

(* The kernel terminal is not drawn over: when it is the current one and   *)
(* no switch is pending, no process has a descriptor or a mapping of the   *)
(* framebuffer, unless its open had passed the test of                     *)
(* framebuffer_user_enabled before the switch (switch_term,                *)
(* framebuffer_writer_released, force_framebuffer_handoff).                *)
KernelTerminalAlone ==
  terms.cur = Kernel /\ terms.pending = NoPending =>
    lease.late \/ (lease.opens = 0 /\ lease.maps = 0)

(* Whatever parts of its writes the terminal takes, the bytes of the keys  *)
(* reach it once and in order: those taken and those still queued are the  *)
(* ones that were typed (complete_master_write).                           *)
KeysInOrder == con.sent \o con.out = con.typed
=============================================================================
