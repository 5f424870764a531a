--------------------------- MODULE ServiceDirectory ---------------------------
(***************************************************************************)
(* The service directory (service_directory.cc): names under which a       *)
(* process registers a capability or listens for connections, with the     *)
(* handlers of its protocol (publish_service_directory_call).              *)
(*                                                                         *)
(* Calls run on SdWorkers.  allocation_lock_ makes the look-up and the     *)
(* change of the two tables one step (Locked); what a call gives back, it  *)
(* gives back after the unlock, and connect sends its message then.  roots *)
(* counts the table roots of each object that the directory holds, transit *)
(* the references in messages: an endpoint closes when it has neither.     *)
(***************************************************************************)
EXTENDS Integers, Sequences, FiniteSets, SequencesExt, FiniteSetsExt, Functions

CONSTANTS
  SdWorkers,      \* kernel workers that run calls
  Owners,         \* processes
  Admins,         \* those whose handle has SERVICE_DIRECTORY_RIGHT_ADMIN
  Managers,       \* and SERVICE_DIRECTORY_RIGHT_SYSTEM_MANAGER
  Objects,        \* capabilities that can be registered
  UniqueObjects,  \* those that are capability_is_unique
  Channels,       \* listening channels
  OwnerOf,        \* the process that has the receiving end of each channel
  MaxUri,         \* characters of a name, 255
  SdRequests,     \* the calls made
  MaxSdCalls      \* bound: how many of them

VARIABLES sd, sdWork, sdCalls
sdVars == <<sd, sdWork, sdCalls>>

SendEnd(c) == <<"send", c>>
Descriptor(c) == <<"descriptor", c>>
Held == Objects \cup {SendEnd(c) : c \in Channels} \cup {Descriptor(c) : c \in Channels}
SdIdle == [op |-> "none"]

(* A name is a prefix and segments of size characters, dots saying that    *)
(* all of them are dots.  A segment of two characters is always refused.   *)
valid_uri(uri) ==
  /\ uri.prefix
  /\ uri.segments # << >>
  /\ FoldLeft(LAMBDA n, s : n + s.size, Len(uri.segments), uri.segments) <= MaxUri
  /\ \A k \in DOMAIN uri.segments :
       LET s == uri.segments[k] IN s.size > 0 /\ ~(s.dots /\ s.size <= 2) /\ s.size # 2

find_locked(S, uri) == SelectInSeq(S.entries, LAMBDA e : e.uri = uri)
find_listener_locked(S, uri) == SelectInSeq(S.listeners, LAMBDA l : l.uri = uri)

(* The names under naos://system/ belong to the managers.                  *)
service_directory_mutation_allowed(r) == r.pid \in (IF r.uri.system THEN Managers ELSE Admins)

release_table_root(S, o) == [S EXCEPT !.roots[o] = @ - 1]

(* transferred_resource: made, dropped, and turned into a table root.      *)
InTransit(S, o) == [S EXCEPT !.transit[o] = @ + 1]
Dropped(S, o) == [S EXCEPT !.transit[o] = @ - 1]
take_object_to_table(S, o) == [S EXCEPT !.roots[o] = @ + 1, !.transit[o] = @ - 1]

peer_closed(S, c) == c \notin S.open
QueueOf(S, c) == SelectSeq(S.conns, LAMBDA k : k.channel = c /\ k.server = "queued")

Objects_of(r) ==
  IF r.op = "register" THEN <<r.object>>
  ELSE IF r.op = "listen" THEN <<SendEnd(r.channel), Descriptor(r.channel)>> ELSE << >>
Moves(o) == o \in UniqueObjects \cup {SendEnd(c) : c \in Channels}

(* A call's worker after the unlock: what it still has to release, and what *)
(* it answers with.                                                        *)
Unlocked(r, drop, object) == [op |-> r.op, pid |-> r.pid, at |-> "unlocked", drop |-> drop, object |-> object]
Failed(r, drop) == Unlocked(r, drop, << >>)

Outcome(S, work) == [s |-> S, work |-> work]

(* A record the call did not take is dropped with the message.             *)
Refuse(S, r) == Outcome(FoldLeft(Dropped, S, Objects_of(r)), Failed(r, << >>))

register_service(S, r) ==
  IF \/ ~service_directory_mutation_allowed(r) \/ ~valid_uri(r.uri)
     \/ ~r.moved \/ find_locked(S, r.uri) > 0
  THEN Refuse(S, r)
  ELSE Outcome([take_object_to_table(S, r.object) EXCEPT
                  !.entries = Append(@, [uri |-> r.uri, object |-> r.object, owner |-> r.pid])],
               Failed(r, << >>))

(* A unique object leaves the directory; its table root is handed on.      *)
resolve_service(S, r) ==
  LET k == find_locked(S, r.uri) IN
  IF ~valid_uri(r.uri) \/ k = 0 THEN Refuse(S, r)
  ELSE LET o == S.entries[k].object IN
       IF o \in UniqueObjects
       THEN Outcome([S EXCEPT !.entries = RemoveAt(@, k)], Unlocked(r, <<o>>, <<o>>))
       ELSE Outcome(S, Unlocked(r, << >>, <<o>>))

(* A listener whose service closed its end makes room for a new one.       *)
Listen(S, r, kept) ==
  LET k == find_listener_locked(S, r.uri)
      l == [uri |-> r.uri, channel |-> r.channel, pending |-> r.pending, owner |-> r.pid]
      taken == take_object_to_table(take_object_to_table(S, SendEnd(r.channel)), Descriptor(r.channel))
      ends(c) == <<SendEnd(c), Descriptor(c)>>
  IN IF ~service_directory_mutation_allowed(r) THEN Refuse(S, r)
     ELSE IF ~valid_uri(r.uri) \/ r.pending = 0
          THEN Outcome(taken, Failed(r, ends(r.channel)))
     ELSE IF find_locked(S, r.uri) > 0 \/ (k > 0 /\ ~peer_closed(S, S.listeners[k].channel))
          THEN Outcome(taken, Failed(r, IF kept THEN << >> ELSE ends(r.channel)))
     ELSE IF k > 0
          THEN Outcome([taken EXCEPT !.listeners = Append(RemoveAt(@, k), l)],
                       Failed(r, ends(S.listeners[k].channel)))
          ELSE Outcome([taken EXCEPT !.listeners = Append(@, l)], Failed(r, << >>))
listen_service_kept(S, r) == Listen(S, r, TRUE)
listen_service(S, r) == Listen(S, r, FALSE)

(* The listener found is used after the unlock, by Enqueue.                *)
connect_service(S, r) ==
  LET k == find_listener_locked(S, r.uri) IN
  IF ~valid_uri(r.uri) \/ k = 0 THEN Refuse(S, r)
  ELSE LET l == S.listeners[k] IN
       IF peer_closed(S, l.channel)
       THEN Outcome([S EXCEPT !.listeners = RemoveAt(@, k)],
                    Failed(r, <<SendEnd(l.channel), Descriptor(l.channel)>>))
       ELSE IF ~r.matches THEN Refuse(S, r)
       ELSE Outcome(S, [op |-> "connect", pid |-> r.pid, at |-> "found", channel |-> l.channel,
                        pending |-> l.pending, full |-> Len(QueueOf(S, l.channel)) >= l.pending])

unregister_service(S, r) ==
  LET k == find_locked(S, r.uri) IN
  IF \/ ~service_directory_mutation_allowed(r) \/ ~valid_uri(r.uri) \/ k = 0
  THEN Refuse(S, r)
  ELSE IF S.entries[k].owner # r.pid THEN Refuse(S, r)
  ELSE Outcome([S EXCEPT !.entries = RemoveAt(@, k)], Failed(r, <<S.entries[k].object>>))

(* The names from offset on that fit; next is where to go on.              *)
list_services(S, r) ==
  [next |-> IF r.offset > Len(S.entries) THEN "EINVAL"
            ELSE Min({Len(S.entries), r.offset + r.room})]

(* Everything of an exiting process leaves both tables.                    *)
cleanup_owner(S, pid) ==
  LET objects == SelectSeq(S.entries, LAMBDA e : e.owner = pid)
      endpoints == SelectSeq(S.listeners, LAMBDA l : l.owner = pid)
  IN Outcome([S EXCEPT !.entries = SelectSeq(@, LAMBDA e : e.owner # pid),
                       !.listeners = SelectSeq(@, LAMBDA l : l.owner # pid),
                       !.exited = @ \cup {pid}],
             [op |-> "exit", pid |-> pid, at |-> "unlocked", object |-> << >>,
              drop |-> FoldLeft(LAMBDA d, e : Append(d, e.object), << >>, objects)
                       \o FoldLeft(LAMBDA d, l : d \o <<SendEnd(l.channel), Descriptor(l.channel)>>,
                                   << >>, endpoints)])

-----------------------------------------------------------------------------
SdInit ==
  /\ sd = [entries |-> << >>, listeners |-> << >>, conns |-> << >>, open |-> Channels,
           roots |-> [o \in Held |-> 0], transit |-> [o \in Held |-> 0],
           away |-> {}, exited |-> {}]
  /\ sdWork = [w \in SdWorkers \cup Owners |-> SdIdle]
  /\ sdCalls = 0

(* A process submits a call; its resources are in transit from then on.    *)
(* The workers, 1..N, are alike: the first idle one takes it.              *)
SdSubmit(w, r) ==
  /\ sdWork[w] = SdIdle
  /\ \A v \in 1..(w - 1) : sdWork[v] # SdIdle
  /\ sdCalls < MaxSdCalls
  /\ r.pid \notin sd.exited
  /\ \A k \in DOMAIN Objects_of(r) : Objects_of(r)[k] \notin sd.away
  /\ sd' = [FoldLeft(InTransit, sd, Objects_of(r)) EXCEPT
              !.away = @ \cup {o \in Range(Objects_of(r)) : Moves(o)}]
  /\ sdWork' = [sdWork EXCEPT ![w] = [op |-> r.op, at |-> "submitted", call |-> r]]
  /\ sdCalls' = sdCalls + 1

(* publish_service_directory_call, up to the unlock of allocation_lock_.   *)
publish_service_directory_call(w) ==
  /\ sdWork[w] # SdIdle
  /\ sdWork[w].at = "submitted"
  /\ LET r == sdWork[w].call
         o == CASE r.op = "register"   -> register_service(sd, r)
                [] r.op = "resolve"    -> resolve_service(sd, r)
                [] r.op = "listen"     -> listen_service(sd, r)
                [] r.op = "connect"    -> connect_service(sd, r)
                [] r.op = "unregister" -> unregister_service(sd, r)
                [] r.op = "list"       -> Outcome(sd, Unlocked(r, << >>, << >>) @@ list_services(sd, r))
     IN sd' = o.s /\ sdWork' = [sdWork EXCEPT ![w] = o.work]
  /\ UNCHANGED sdCalls

(* connect_service goes on: the pair is made and the server end is sent to *)
(* the listener, at most max_pending of them waiting there.                *)
Enqueue(w, full) ==
  LET k == sdWork[w]
      sent == Append(sd.conns, [channel |-> k.channel, server |-> "queued", client |-> "none", pid |-> k.pid])
  IN IF peer_closed(sd, k.channel) \/ full
     THEN /\ sdWork' = [sdWork EXCEPT ![w] = Failed([op |-> "connect", pid |-> k.pid], << >>)]
          /\ UNCHANGED sd
     ELSE /\ sd' = [sd EXCEPT !.conns = sent]
          /\ sdWork' = [sdWork EXCEPT ![w] = [op |-> "connect", pid |-> k.pid, at |-> "enqueued",
                                              conn |-> Len(sent)]]
enqueue_kernel(w) == Enqueue(w, Len(QueueOf(sd, sdWork[w].channel)) >= sdWork[w].pending)
connect_enqueue(w) ==
  /\ sdWork[w] # SdIdle
  /\ sdWork[w].at = "found"
  /\ enqueue_kernel(w)
  /\ UNCHANGED sdCalls

(* The client end first gets an owner here, in the reply: its process's,   *)
(* or none when the process has exited and the reply is discarded.         *)
connect_reply(w) ==
  /\ sdWork[w] # SdIdle
  /\ sdWork[w].at = "enqueued"
  /\ sd' = [sd EXCEPT !.conns[sdWork[w].conn].client =
                        IF sdWork[w].pid \in sd.exited THEN "closed" ELSE "held"]
  /\ sdWork' = [sdWork EXCEPT ![w] = SdIdle]
  /\ UNCHANGED sdCalls

(* After the unlock: an answered object goes into the reply, then what the *)
(* call took from the tables is released.  (The end of an exit is the      *)
(* process's resource.clear: its channels close, with what waits in them.) *)
Delivered(S, w) ==
  LET o == sdWork[w].object IN
  IF sdWork[w].pid \in S.exited THEN S ELSE [S EXCEPT !.away = @ \ Range(o)]
SdCleared(S, p) ==
  [S EXCEPT !.open = {c \in @ : OwnerOf[c] # p},
            !.conns = [k \in DOMAIN @ |->
               [@[k] EXCEPT !.server = IF OwnerOf[S.conns[k].channel] = p THEN "gone" ELSE @,
                            !.client = IF S.conns[k].pid = p /\ @ = "held" THEN "closed" ELSE @]]]
SdFinish(w) ==
  /\ sdWork[w] # SdIdle
  /\ sdWork[w].at = "unlocked"
  /\ LET released == FoldLeft(release_table_root, sd, sdWork[w].drop) IN
     sd' = IF sdWork[w].op = "exit" THEN SdCleared(released, sdWork[w].pid) ELSE Delivered(released, w)
  /\ sdWork' = [sdWork EXCEPT ![w] = SdIdle]
  /\ UNCHANGED sdCalls

SdExit(p) ==
  /\ p \notin sd.exited
  /\ sdWork[p] = SdIdle
  /\ LET o == cleanup_owner(sd, p) IN sd' = o.s /\ sdWork' = [sdWork EXCEPT ![p] = o.work]
  /\ UNCHANGED sdCalls

(* The service receives the oldest waiting connection, or closes its end.  *)
SdAccept(c) ==
  /\ c \in sd.open
  /\ LET k == SelectInSeq(sd.conns, LAMBDA x : x.channel = c /\ x.server = "queued") IN
       /\ k > 0
       /\ sd' = [sd EXCEPT !.conns[k].server = "accepted"]
  /\ UNCHANGED <<sdWork, sdCalls>>
SdClose(c) ==
  /\ c \in sd.open
  /\ sd' = [sd EXCEPT !.open = @ \ {c},
                      !.conns = [k \in DOMAIN @ |->
                         [@[k] EXCEPT !.server = IF @ = "queued" /\ sd.conns[k].channel = c THEN "gone" ELSE @]]]
  /\ UNCHANGED <<sdWork, sdCalls>>

SdNext ==
  \/ \E w \in SdWorkers : \/ \E r \in SdRequests : SdSubmit(w, r)
                          \/ publish_service_directory_call(w)
                          \/ connect_enqueue(w)
                          \/ connect_reply(w)
  \/ \E w \in SdWorkers \cup Owners : SdFinish(w)
  \/ \E p \in Owners : SdExit(p)
  \/ \E c \in Channels : SdAccept(c) \/ SdClose(c)

SdSpec == SdInit /\ [][SdNext]_sdVars

-----------------------------------------------------------------------------
Owing(o) ==
  Cardinality({k \in DOMAIN sd.entries : sd.entries[k].object = o})
  + Cardinality({k \in DOMAIN sd.listeners : o \in {SendEnd(sd.listeners[k].channel), Descriptor(sd.listeners[k].channel)}})
  + Cardinality({<<w, k>> \in (SdWorkers \cup Owners) \X (1..8) :
                   /\ sdWork[w] # SdIdle /\ sdWork[w].at = "unlocked"
                   /\ k \in DOMAIN sdWork[w].drop /\ sdWork[w].drop[k] = o})

PendingBounded ==
  \A c \in Channels :
    Len(QueueOf(sd, c)) <= Max({r.pending : r \in {q \in SdRequests : q.op = "listen" /\ q.channel = c}} \cup {0})

(* Every table root the directory took (register_service, listen_service)  *)
(* is given back exactly once, on every path: the roots of an object are   *)
(* the entries and listeners that have it and the releases a call still    *)
(* owes after its unlock, and a request's own references do not outlive    *)
(* the call.  However many connects found a listener before any of them    *)
(* sent, no more connections wait at it than the largest max_pending it    *)
(* listened with (connect_service, enqueue_kernel).                        *)
RootsGivenBack ==
  /\ \A o \in Held :
       /\ sd.roots[o] = Owing(o)
       /\ sd.transit[o] = Cardinality({w \in SdWorkers : /\ sdWork[w] # SdIdle /\ sdWork[w].at = "submitted"
                                                         /\ o \in Range(Objects_of(sdWork[w].call))})
  /\ PendingBounded
=============================================================================
