---------------------- MODULE InvocationResults_proofs ----------------------
(***************************************************************************)
(* The results and the accounting of object calls, for any number of calls *)
(* and threads and any limits.                                             *)
(*                                                                         *)
(* The results need RInv: the replies and takes of a call are those of its *)
(* one outcome (Results), and a taker that claimed a result is the only    *)
(* one and holds the whole reply until it commits or restores it (Claims). *)
(*                                                                         *)
(* AccountingExact is inductive together with QInv: a removal gives one    *)
(* unit back and takes one request out of the queue, because a request is  *)
(* there once; a receive that commits pops a head that is there; a call is *)
(* charged when it is submitted, which it was not before.                  *)
(***************************************************************************)
EXTENDS Invocation_proofs, FiniteSetTheorems

(* The result of a call *)

\* What a call records of its result: it has an outcome once it is complete,
\* the one reply that reported success is that outcome, a take hands it over
\* and consumes it, and a reply waits with the call until it is claimed.
Sound(i, replies, takes) ==
  /\ Complete(i) <=> i.outcome # "none"
  /\ replies = {} \/ \E w \in Workers : replies = {<<w, i.outcome>>} /\ Complete(i)
  /\ takes = <<>> <=> i.phase # "consumed"
  /\ takes # <<>> => \E b \in BOOLEAN : takes = <<<<i.outcome, b>>>> /\ (i.outcome = "REPLY" /\ ~ b => i.client_closed)
  /\ i.result_claimed => i.phase = "ready"
  /\ i.phase = "ready" /\ i.outcome = "REPLY" /\ ~ i.result_claimed => i.response \/ i.client_closed

Results == \A c \in Calls : Sound(inv[c], acked[c], taken[c])

\* A taker that has claimed a result holds the reply, alone.
Claims ==
  /\ \A t \in Takers : pc[t] = "claimed" =>
       inv[on[t]].result_claimed /\ (inv[on[t]].outcome = "REPLY" => got[t] \/ inv[on[t]].client_closed)
  /\ \A t, u \in Takers : pc[t] = "claimed" /\ pc[u] = "claimed" /\ on[t] = on[u] => t = u

RInv == Results /\ Claims

LEMMA SoundResolves ==
  ASSUME NEW i \in State, NEW j, NEW a, NEW k, Resolves(i, j), Sound(i, a, k)
  PROVE  Sound(j, a, k)
  <1>1. j \in State
    BY DEF Resolves
  <1>2. CASE Complete(i)
    BY <1>2 DEF Sound, Resolves, Complete
  <1>3. CASE ~ Complete(i)
    <2>1. a = {} /\ k = <<>> /\ i.outcome = "none" /\ ~ i.result_claimed
      BY <1>3 DEF Sound, Complete
    <2> QED BY Zenon, <1>3, <2>1 DEF Sound, Resolves, Complete
  <1> QED BY <1>2, <1>3

\* Giving up a call or its budget does not change its result.
LEMMA SoundSame ==
  ASSUME NEW i \in State, NEW j \in State, NEW a, NEW k, Sound(i, a, k), j.phase = i.phase, j.outcome = i.outcome,
         j.result_claimed = i.result_claimed, i.client_closed => j.client_closed, i.response => j.response \/ j.client_closed
  PROVE  Sound(j, a, k)
  BY DEF Sound, Complete

LEMMA OneResult ==
  ASSUME Results, NEW c \in Calls, Touches(c), \A d \in Calls \ {c} : acked'[d] = acked[d] /\ taken'[d] = taken[d],
         Sound(inv'[c], acked'[c], taken'[c])
  PROVE  Results'
  <1>1. ASSUME NEW d \in Calls \ {c}
        PROVE  Sound(inv'[d], acked'[d], taken'[d])
    BY Zenon DEF Results, Touches
  <1> QED BY Zenon, <1>1 DEF Results

LEMMA ClaimsStay ==
  ASSUME QInv, Claims, NEW c \in Calls, Touches(c), got' = got,
         \A t \in Takers : pc'[t] = "claimed" => pc[t] = "claimed" /\ on'[t] = on[t],
         inv[c].result_claimed => /\ inv'[c].result_claimed /\ inv'[c].outcome = inv[c].outcome
                                  /\ inv[c].client_closed => inv'[c].client_closed
  PROVE  Claims'
  <1>1. \A t \in Takers : pc[t] = "claimed" => on[t] \in Calls
    BY CallFacts
  <1>2. ASSUME NEW t \in Takers, pc'[t] = "claimed"
        PROVE  inv'[on'[t]].result_claimed /\ (inv'[on'[t]].outcome = "REPLY" => got'[t] \/ inv'[on'[t]].client_closed)
    <2>1. pc[t] = "claimed" /\ on'[t] = on[t] /\ on[t] \in Calls
      BY <1>1, <1>2
    <2>2. inv[on[t]].result_claimed /\ (inv[on[t]].outcome = "REPLY" => got[t] \/ inv[on[t]].client_closed)
      BY <2>1 DEF Claims
    <2>3. CASE on[t] = c
      BY <2>1, <2>2, <2>3
    <2>4. CASE on[t] # c
      BY <2>1, <2>2, <2>4 DEF Touches
    <2> QED BY <2>3, <2>4
  <1>3. \A t, u \in Takers : pc'[t] = "claimed" /\ pc'[u] = "claimed" /\ on'[t] = on'[u] => t = u
    BY DEF Claims
  <1> QED BY <1>2, <1>3 DEF Claims

LEMMA SameClaims ==
  ASSUME Claims, inv' = inv, got' = got, \A t \in Takers : pc'[t] = "claimed" => pc[t] = "claimed" /\ on'[t] = on[t]
  PROVE  Claims'
  BY DEF Claims

\* A step that resolves a call leaves replies and takes as they are.
LEMMA QuietResults ==
  ASSUME QInv, RInv, Quiet, UNCHANGED <<acked, taken, got>>,
         \A t \in Takers : pc'[t] = "claimed" => pc[t] = "claimed" /\ on'[t] = on[t]
  PROVE  RInv'
  <1>1. CASE inv' = inv
    <2>1. Results'
      BY <1>1 DEF RInv, Results
    <2> QED BY <1>1, <2>1, SameClaims DEF RInv
  <1>2. CASE \E c \in Calls : sub[c] # "idle" /\ Touches(c) /\ Resolves(inv[c], inv'[c])
    <2>1. PICK c \in Calls : Touches(c) /\ Resolves(inv[c], inv'[c])
      BY <1>2
    <2>2. inv[c] \in State /\ Sound(inv[c], acked[c], taken[c])
      BY CallFacts DEF RInv, Results
    <2>3. Sound(inv'[c], acked[c], taken[c])
      BY Zenon, <2>1, <2>2, SoundResolves
    <2>4. Results'
      BY <2>1, <2>3, OneResult DEF RInv
    <2>5. inv[c].result_claimed => /\ inv'[c].result_claimed /\ inv'[c].outcome = inv[c].outcome
                                   /\ inv[c].client_closed => inv'[c].client_closed
      BY <2>1, <2>2 DEF Sound, Resolves, Complete
    <2>6. Claims'
      BY <2>1, <2>5, ClaimsStay DEF RInv
    <2> QED BY <2>4, <2>6 DEF RInv
  <1> QED BY <1>1, <1>2 DEF Quiet

\* Only a taker moves a taker.
LEMMA TakersApart ==
  ASSUME QInv, Next, ~ Taking, NEW t \in Takers
  PROVE  pc'[t] = pc[t] /\ on'[t] = on[t]
  <1>0. t \in Threads /\ t \notin Receivers /\ t \notin Workers /\ t \notin KernelWorkers
    BY InvocationConstants DEF Threads
  <1>1. CASE Submitting \/ Timing \/ Calling \/ Serving
    BY <1>1, Frames DEF submitRest, timerRest
  <1>2. CASE Receiving
    BY <1>0, <1>2, ReceiverMoves DEF Receiving, Moved
  <1>3. CASE Responding
    <2>1. CASE \E c \in Calls : close_responder(c) \/ restrict_responder(c)
      BY <2>1 DEF close_responder, restrict_responder
    <2>2. CASE \E w \in Workers : RespondStep(w) \/ \E c \in Calls, how \in {"reply", "fail"} : respond(w, c, how)
      <3>1. PICK w \in Workers : \E s, c : Moved(w, s, c)
        BY Zenon, <2>2, WorkerMoves
      <3> QED BY <1>0, <3>1 DEF Moved
    <2> QED BY <1>3, <2>1, <2>2 DEF Responding
  <1>4. CASE Dispatching
    <2>1. PICK k \in KernelWorkers : \E s, c : Moved(k, s, c)
      BY Zenon, <1>4, KernelMoves DEF Dispatching
    <2> QED BY <1>0, <2>1 DEF Moved
  <1> QED BY <1>1, <1>2, <1>3, <1>4, NextParties

\* A change of one call that keeps its result.
LEMMA SameResult ==
  ASSUME QInv, RInv, NEW c \in Calls, NEW j \in State, Update(c, j), UNCHANGED <<acked, taken, got>>,
         \A t \in Takers : pc'[t] = pc[t] /\ on'[t] = on[t],
         j.phase = inv[c].phase, j.outcome = inv[c].outcome, j.result_claimed = inv[c].result_claimed,
         inv[c].client_closed => j.client_closed, inv[c].response => j.response \/ j.client_closed
  PROVE  RInv'
  <1>1. Touches(c) /\ inv'[c] = j
    BY UpdateTouches DEF QInv
  <1>2. inv[c] \in State /\ Sound(inv[c], acked[c], taken[c])
    BY CallFacts DEF RInv, Results
  <1>3. Sound(j, acked[c], taken[c])
    BY <1>2, SoundSame
  <1>4. Results'
    BY <1>1, <1>3, OneResult DEF RInv
  <1>5. Claims'
    BY <1>1, ClaimsStay DEF RInv
  <1> QED BY <1>4, <1>5 DEF RInv

LEMMA CloseResults ==
  ASSUME QInv, RInv, NEW c \in Calls, close_client(c), UNCHANGED <<acked, taken, got>>,
         \A t \in Takers : pc'[t] = pc[t] /\ on'[t] = on[t]
  PROVE  RInv'
  <1> DEFINE j == [inv[c] EXCEPT !.client_closed = TRUE, !.response = FALSE, !.budget = FALSE]
  <1>1. inv[c] \in State
    BY CallFacts
  <1>2. Update(c, j)
    BY Zenon DEF close_client, Update
  <1>3. j \in State /\ j.phase = inv[c].phase /\ j.outcome = inv[c].outcome /\ j.result_claimed = inv[c].result_claimed
        /\ j.client_closed
    BY Zenon, <1>1 DEF State
  <1> HIDE DEF j
  <1> QED BY <1>2, <1>3, SameResult

LEMMA SubmitResults ==
  ASSUME QInv, RInv, Submitting
  PROVE  RInv'
  <1>1. PICK c \in Calls : submit(c) \/ SubmitStep(c) \/ enqueue_kernel(c)
    BY InvocationConstants DEF Submitting
  <1>2. UNCHANGED <<acked, taken, got>> /\ \A t \in Takers : pc'[t] = pc[t] /\ on'[t] = on[t]
    BY Frames DEF submitRest
  <1>3. CASE submit(c)
    <2> DEFINE j == [Unsubmitted EXCEPT !.phase = "queued", !.budget = (c \notin Oneway)]
    <2>1. j \in State /\ j.phase = "queued" /\ j.outcome = "none" /\ j.result_claimed = FALSE
      BY Zenon DEF State, Phases, Outcomes, Reasons, Unsubmitted
    <2>2. inv[c] = Unsubmitted /\ Update(c, j)
      BY <1>3 DEF submit, Step, QInv, Submitted, Unsent
    <2> HIDE DEF j
    <2>3. Touches(c) /\ inv'[c] = j
      BY <2>1, <2>2, UpdateTouches DEF QInv
    <2>4. Sound(j, acked[c], taken[c])
      <3>1. Sound(Unsubmitted, acked[c], taken[c])
        BY <2>2 DEF RInv, Results
      <3>2. acked[c] = {} /\ taken[c] = <<>>
        BY <3>1 DEF Sound, Complete, Unsubmitted
      <3> QED BY <2>1, <3>2 DEF Sound, Complete
    <2>5. Results'
      BY <1>2, <2>3, <2>4, OneResult DEF RInv
    <2>6. ~ inv[c].result_claimed
      BY <2>2 DEF Unsubmitted
    <2>7. Claims'
      BY <1>2, <2>3, <2>6, ClaimsStay DEF RInv
    <2> QED BY <2>5, <2>7 DEF RInv
  <1>4. CASE destroy_state(c)
    <2> DEFINE j == [inv[c] EXCEPT !.budget = FALSE]
    <2>1. inv[c] \in State /\ Update(c, j)
      BY <1>4, CallFacts DEF destroy_state, Update
    <2>2. j \in State /\ j.phase = inv[c].phase /\ j.outcome = inv[c].outcome /\ j.result_claimed = inv[c].result_claimed
          /\ j.client_closed = inv[c].client_closed /\ j.response = inv[c].response
      BY Zenon, <2>1 DEF State
    <2> HIDE DEF j
    <2> QED BY <1>2, <2>1, <2>2, SameResult
  <1>5. CASE submit_closes(c)
    <2>1. close_client(c) \/ inv' = inv
      BY <1>5 DEF submit_closes
    <2>2. CASE inv' = inv
      BY <1>2, <2>2, QuietResults DEF Quiet
    <2> QED BY <1>2, <2>1, <2>2, CloseResults
  <1>6. CASE ~ submit(c) /\ ~ destroy_state(c) /\ ~ submit_closes(c)
    <2>1. Quiet
      BY <1>1, <1>6, SubmitQuiet DEF SubmitStep
    <2> QED BY <1>2, <2>1, QuietResults
  <1> QED BY <1>3, <1>4, <1>5, <1>6

Acks(w, c, o) == acked' = [acked EXCEPT ![c] = @ \cup {<<w, o>>}]

\* A reply or failure that wins finds a call without a reply.
LEMMA ReplyResults ==
  ASSUME QInv, RInv, NEW w \in Workers, NEW c \in Calls, NEW o \in {"REPLY", "NOT_DELIVERED", "OUTCOME_UNKNOWN"}, NEW r \in Reasons,
         Publishes(inv[c]), Update(c, Publish(inv[c], o, r)), Acks(w, c, o),
         UNCHANGED <<taken, got>>, \A t \in Takers : pc'[t] = pc[t] /\ on'[t] = on[t]
  PROVE  RInv'
  <1> DEFINE j == Publish(inv[c], o, r)
  <1>1. inv[c] \in State /\ ~ Complete(inv[c]) /\ Sound(inv[c], acked[c], taken[c]) /\ TypeOK
    BY ZenonT(20), CallFacts DEF RInv, Results, Publishes
  <1>2. Resolves(inv[c], j) /\ j \in State
    <2>1. o \in Outcomes \ {"none"}
      BY DEF Outcomes
    <2>2. Resolves(inv[c], j)
      BY Zenon, <1>1, <2>1, PublishResolves
    <2> QED BY Zenon, <2>2 DEF Resolves
  <1>3. j.outcome = o /\ Complete(j)
    BY <1>1 DEF Publish, Publishes, State, Complete
  <1> HIDE DEF j
  <1>4. Sound(j, acked[c], taken[c])
    BY Zenon, <1>1, <1>2, SoundResolves
  <1>5. acked[c] = {} /\ ~ inv[c].result_claimed
    BY Zenon, <1>1 DEF Sound, Complete
  <1>6. acked'[c] = {<<w, o>>} /\ \A d \in Calls \ {c} : acked'[d] = acked[d]
    BY ZenonT(30), <1>1, <1>5 DEF TypeOK, Acks
  <1>7. Sound(j, acked'[c], taken'[c])
    BY Zenon, <1>3, <1>4, <1>6 DEF Sound
  <1>8. Touches(c) /\ inv'[c] = j
    BY <1>1, <1>2, UpdateTouches DEF j
  <1>9. Results'
    BY ZenonT(30), <1>6, <1>7, <1>8, OneResult DEF RInv
  <1>10. Claims'
    BY <1>5, <1>8, ClaimsStay DEF RInv
  <1> QED BY ZenonT(20), <1>9, <1>10 DEF RInv

LEMMA RespondResults ==
  ASSUME QInv, RInv, Next, Responding, ~ Taking
  PROVE  RInv'
  <1>1. Quiet
    BY WorkerQuiet
  <1>2. UNCHANGED <<taken, got>> /\ \A t \in Takers : pc'[t] = pc[t] /\ on'[t] = on[t]
    BY Frames, TakersApart DEF responderRest
  <1>3. CASE acked' = acked
    BY <1>1, <1>2, <1>3, QuietResults
  <1>4. CASE acked' # acked
    <2>1. PICK w \in Workers : RespondStep(w)
      BY ZenonT(30), <1>4 DEF Responding, respond, close_responder, restrict_responder
    <2>2. PICK o \in {"REPLY", "NOT_DELIVERED", "OUTCOME_UNKNOWN"}, r \in {"none", "UNSUPPORTED"} :
            /\ pc[w] \in {"reply", "fail"} /\ Publishes(inv[on[w]]) /\ Update(on[w], Publish(inv[on[w]], o, r))
            /\ Acks(w, on[w], o)
      BY ZenonT(20), <1>4, <2>1 DEF Acks, RespondStep, complete_reply, complete_failure, consume_responder, close_replied, At
    <2>3. on[w] \in Calls
      BY <2>2, CallFacts
    <2> QED BY Zenon, <1>2, <2>2, <2>3, ReplyResults DEF Reasons
  <1> QED BY <1>3, <1>4

LEMMA TakeResults ==
  ASSUME QInv, RInv, NEW t \in Takers, claim_result(t) \/ restore_result(t) \/ commit_result(t)
  PROVE  RInv'
  <1> DEFINE c == on[t]
  <1>0. TypeOK /\ ThreadsOK /\ t \in Threads /\ Takers \subseteq Threads /\ Results /\ Claims /\ Workers \subseteq Threads
    BY DEF QInv, Threads, RInv
  <1>1. c \in Calls /\ inv[c] \in State /\ got[t] \in BOOLEAN /\ pc[t] # "idle"
    <2>1. pc[t] # "idle"
      BY Zenon DEF claim_result, restore_result, commit_result, At
    <2> QED BY Zenon, <1>0, <2>1, CallFacts DEF TypeOK
  <1>2. Sound(inv[c], acked[c], taken[c])
    BY Zenon, <1>0, <1>1 DEF Results
  <1>3. acked' = acked
    BY Zenon DEF claim_result, restore_result, commit_result, clientRest
  <1>4. \A u \in Takers \ {t} : pc'[u] = pc[u] /\ on'[u] = on[u]
    <2>1. \E s, d : Moved(t, s, d)
      BY Zenon, TakerMoves DEF TakeStep
    <2> QED BY <1>0, <2>1 DEF Moved
  <1>5. \A u \in Takers : pc[u] = "claimed" => on[u] \in Calls
    BY CallFacts
  \* A step of a taker on its call; no other taker has claimed it.
  <1>6. ASSUME NEW j \in State, Update(c, j), Sound(j, acked'[c], taken'[c]), \A d \in Calls \ {c} : taken'[d] = taken[d],
               \A u \in Takers \ {t} : ~ (pc[u] = "claimed" /\ on[u] = c) /\ got'[u] = got[u],
               \/ pc'[t] # "claimed"
               \/ on'[t] = c /\ j.result_claimed /\ (j.outcome = "REPLY" => got'[t] \/ j.client_closed)
        PROVE  RInv'
    <2>1. Touches(c) /\ inv'[c] = j
      BY <1>0, <1>1, <1>6, UpdateTouches
    <2>2. Results'
      BY Zenon, <1>0, <1>1, <1>3, <1>6, <2>1, OneResult
    <2>3. ASSUME NEW u \in Takers \ {t}, pc'[u] = "claimed"
          PROVE  /\ inv'[on'[u]].result_claimed /\ (inv'[on'[u]].outcome = "REPLY" => got'[u] \/ inv'[on'[u]].client_closed)
                 /\ on'[u] # c
      <3>1. pc[u] = "claimed" /\ on'[u] = on[u] /\ on[u] \in Calls /\ on[u] # c /\ got'[u] = got[u]
        BY <1>4, <1>5, <1>6, <2>3
      <3>2. inv'[on[u]] = inv[on[u]]
        BY <2>1, <3>1 DEF Touches
      <3>3. inv[on[u]].result_claimed /\ (inv[on[u]].outcome = "REPLY" => got[u] \/ inv[on[u]].client_closed)
        BY <1>0, <3>1 DEF Claims
      <3> QED BY ZenonT(20), <3>1, <3>2, <3>3
    <2>4. \A u, v \in Takers : pc'[u] = "claimed" /\ pc'[v] = "claimed" /\ on'[u] = on'[v] => u = v
      <3>1. \A u, v \in Takers \ {t} : pc'[u] = "claimed" /\ pc'[v] = "claimed" /\ on'[u] = on'[v] => u = v
        BY Zenon, <1>0, <1>4 DEF Claims
      <3>2. \A u \in Takers \ {t} : pc'[u] = "claimed" /\ pc'[t] = "claimed" => on'[u] # on'[t]
        BY ZenonT(30), <1>6, <2>3
      <3> QED BY Zenon, <3>1, <3>2
    <2>5. pc'[t] = "claimed" => /\ inv'[on'[t]].result_claimed
                                /\ inv'[on'[t]].outcome = "REPLY" => got'[t] \/ inv'[on'[t]].client_closed
      BY <1>6, <2>1
    <2>6. Claims'
      BY Zenon, <2>3, <2>4, <2>5 DEF Claims
    <2> QED BY ZenonT(20), <2>2, <2>6 DEF RInv
  <1> HIDE DEF c
  <1>7. CASE claim_result(t)
    <2> DEFINE p == Polled(c)
               j == [p EXCEPT !.result_claimed = TRUE, !.response = FALSE]
    <2>1. Resolves(inv[c], p) /\ p \in State
      BY <1>1, PolledResolves
    <2>2. Update(c, j) /\ p.phase = "ready" /\ ~ p.result_claimed /\ taken' = taken /\ Goto(t, "claimed")
          /\ got' = [got EXCEPT ![t] = p.response]
      BY ZenonT(20), <1>7 DEF claim_result, c
    <2> HIDE DEF p
    <2>3. j \in State /\ j.phase = "ready" /\ j.outcome = p.outcome /\ j.result_claimed /\ j.client_closed = p.client_closed
      BY Zenon, <2>1, <2>2 DEF State
    <2> HIDE DEF j
    <2>4. Sound(p, acked[c], taken[c])
      BY <1>1, <1>2, <2>1, SoundResolves
    <2>5. Sound(j, acked'[c], taken'[c])
      BY Zenon, <1>3, <2>2, <2>3, <2>4 DEF Sound, Complete
    <2>6. ~ inv[c].result_claimed
      BY ZenonT(20), <2>1, <2>2 DEF Resolves
    <2>7. \A u \in Takers \ {t} : ~ (pc[u] = "claimed" /\ on[u] = c) /\ got'[u] = got[u]
      BY Zenon, <1>0, <2>2, <2>6 DEF Claims, TypeOK
    <2>8. on'[t] = c /\ got'[t] = p.response
      BY ZenonT(20), <1>0, <2>2 DEF Goto, TypeOK, c
    <2>9. j.outcome = "REPLY" => got'[t] \/ j.client_closed
      BY <2>2, <2>3, <2>4, <2>8 DEF Sound
    <2> QED BY Zenon, <1>6, <2>2, <2>3, <2>5, <2>7, <2>8, <2>9
  <1>8. ASSUME pc[t] = "claimed"
        PROVE  /\ inv[c].result_claimed /\ inv[c].phase = "ready" /\ (inv[c].outcome = "REPLY" => got[t] \/ inv[c].client_closed)
               /\ \A u \in Takers \ {t} : ~ (pc[u] = "claimed" /\ on[u] = c)
    <2>1. inv[c].result_claimed /\ (inv[c].outcome = "REPLY" => got[t] \/ inv[c].client_closed)
      BY ZenonT(30), <1>0, <1>8 DEF Claims, c
    <2>2. \A u \in Takers \ {t} : ~ (pc[u] = "claimed" /\ on[u] = c)
      BY <1>0, <1>8 DEF Claims, c
    <2> QED BY ZenonT(30), <1>2, <2>1, <2>2 DEF Sound
  <1>9. CASE restore_result(t)
    <2> DEFINE i == inv[c]
               j == [i EXCEPT !.response = got[t], !.result_claimed = FALSE]
    <2>0. pc[t] = "claimed"
      BY <1>9 DEF restore_result, At
    <2>1. Update(c, j) /\ taken' = taken /\ got' = [got EXCEPT ![t] = FALSE] /\ Return(t)
      BY Zenon, <1>8, <1>9, <2>0 DEF restore_result, Update, c
    <2>2. i \in State
      BY <1>1
    <2> HIDE DEF i
    <2>3. j \in State /\ j.phase = i.phase /\ j.outcome = i.outcome /\ j.response = got[t] /\ ~ j.result_claimed
          /\ j.client_closed = i.client_closed
      BY ZenonT(30), <1>1, <2>2 DEF State
    <2> HIDE DEF j
    <2>4. Sound(j, acked'[c], taken'[c])
      BY <1>2, <1>3, <1>8, <2>0, <2>1, <2>3 DEF Sound, Complete, i
    <2>5. pc'[t] # "claimed" /\ \A u \in Takers \ {t} : got'[u] = got[u]
      BY <1>0, <2>1 DEF Return, Pick, ThreadsOK, TypeOK
    <2> QED BY Zenon, <1>6, <1>8, <2>0, <2>1, <2>3, <2>4, <2>5
  <1>10. CASE commit_result(t)
    <2> DEFINE i == inv[c]
               j == [i EXCEPT !.phase = "consumed", !.result_claimed = FALSE, !.response = FALSE, !.budget = FALSE]
    <2>0. pc[t] = "claimed"
      BY Zenon, <1>10 DEF commit_result, At
    <2>1. /\ Update(c, j) /\ taken' = [taken EXCEPT ![c] = Append(@, <<i.outcome, got[t]>>)]
          /\ got' = [got EXCEPT ![t] = FALSE] /\ Return(t)
      BY Zenon, <1>8, <1>10, <2>0 DEF commit_result, Update, c
    <2>2. i \in State
      BY <1>1
    <2>3. taken[c] = <<>> /\ i.outcome # "none"
      BY Zenon, <1>2, <1>8, <2>0 DEF Sound, Complete
    <2> HIDE DEF i
    <2>4. j \in State /\ j.phase = "consumed" /\ j.outcome = i.outcome /\ ~ j.result_claimed /\ j.client_closed = i.client_closed
      BY Zenon, <2>2 DEF State, Phases
    <2> HIDE DEF j
    <2>5. taken'[c] = <<<<i.outcome, got[t]>>>> /\ \A d \in Calls \ {c} : taken'[d] = taken[d]
      BY <1>0, <1>1, <2>1, <2>3 DEF TypeOK
    <2>6. i.outcome = "REPLY" /\ ~ got[t] => i.client_closed
      BY ZenonT(30), <1>8, <2>0 DEF i
    <2>7. acked'[c] = {} \/ \E w \in Workers : acked'[c] = {<<w, i.outcome>>}
      BY <1>2, <1>3 DEF Sound, i
    <2>8. Sound(j, acked'[c], taken'[c])
      BY <1>1, <2>3, <2>4, <2>5, <2>6, <2>7 DEF Sound, Complete
    <2>9. pc'[t] # "claimed" /\ \A u \in Takers \ {t} : got'[u] = got[u]
      BY <1>0, <2>1 DEF Return, Pick, ThreadsOK, TypeOK
    <2> QED BY Zenon, <1>6, <1>8, <2>0, <2>1, <2>4, <2>5, <2>8, <2>9
  <1> QED BY <1>7, <1>9, <1>10

LEMMA NextResults ==
  ASSUME QInv, RInv, Next
  PROVE  RInv'
  <1>1. CASE Taking
    <2>1. PICK t \in Takers : TakeStep(t) \/ \E c \in Calls : take_result(t, c)
      BY <1>1 DEF Taking
    <2>2. CASE claim_result_fails(t) \/ \E c \in Calls : take_result(t, c)
      <3>1. Quiet
        BY ZenonT(20), <2>2, TakerQuiet
      <3>2. UNCHANGED <<acked, taken, got>>
        BY <2>2 DEF claim_result_fails, take_result, clientRest
      <3>3. \A u \in Takers : pc'[u] = "claimed" => pc[u] = "claimed" /\ on'[u] = on[u]
        <4>1. ThreadsOK /\ Takers \subseteq Threads
          BY DEF QInv, Threads
        <4> QED BY <2>2, <4>1 DEF claim_result_fails, take_result, Return, Pick, ThreadsOK
      <3> QED BY <3>1, <3>2, <3>3, QuietResults
    <2> QED BY <2>1, <2>2, TakeResults DEF TakeStep
  <1>2. CASE Calling
    <2>1. PICK c \in Calls : ClientStep(c)
      BY <1>2 DEF Calling
    <2>2. UNCHANGED <<acked, taken, got>> /\ \A t \in Takers : pc'[t] = pc[t] /\ on'[t] = on[t]
      BY <1>2, Frames DEF clientRest
    <2>3. CASE invocation_cancel(c)
      BY <2>2, <2>3, CancelsQuiet, QuietResults
    <2>4. CASE close_invocation(c) \/ restrict_invocation(c)
      BY <2>2, <2>4, CloseResults DEF close_invocation, restrict_invocation
    <2> QED BY <2>1, <2>3, <2>4 DEF ClientStep
  <1>3. CASE ~ Taking /\ (Timing \/ Receiving \/ Serving \/ Dispatching)
    <2>1. Quiet
      BY ZenonT(20), <1>3, TimerQuiet, ReceiverQuiet, ServerQuiet, KernelQuiet
    <2>2. UNCHANGED <<acked, taken, got>>
      BY <1>3, Frames DEF timerRest, receiveRest, kernelRest
    <2> QED BY <1>3, <2>1, <2>2, TakersApart, QuietResults
  <1> QED BY <1>1, <1>2, <1>3, SubmitResults, RespondResults, NextParties

LEMMA InitResults == Init => RInv
  <1> SUFFICES ASSUME Init
               PROVE  RInv
    OBVIOUS
  <1>1. Sound(Unsubmitted, {}, <<>>)
    BY DEF Sound, Complete, Unsubmitted
  <1>2. Results
    BY <1>1 DEF Init, Results
  <1>3. Claims
    BY DEF Init, Claims, Threads
  <1> QED BY <1>2, <1>3 DEF RInv

LEMMA AlwaysResults == Spec => []RInv
  <1>1. QInv /\ RInv /\ [Next]_vars => RInv'
    <2>1. ASSUME RInv, UNCHANGED vars
          PROVE  RInv'
      <3>1. Results'
        BY <2>1 DEF RInv, Results, vars
      <3>2. Claims'
        BY Zenon, <2>1 DEF RInv, Claims, vars
      <3> QED BY <3>1, <3>2 DEF RInv
    <2> QED BY <2>1, NextResults
  <1> QED BY <1>1, InitResults, QueueCoherent, PTL DEF Spec

\* However many threads call take_result, one gets the result, with the
\* outcome that was published and, unless the caller closed the Invocation
\* meanwhile, with the whole reply (claim_result, restore_result,
\* commit_result).
THEOREM ResultTakenOnce == Spec => []TakenOnce
  <1>1. RInv => TakenOnce
    <2>1. ASSUME RInv, NEW c \in Calls
          PROVE  /\ Len(taken[c]) <= 1
                 /\ taken[c] # <<>> => inv[c].phase = "consumed" /\ taken[c][1][1] = inv[c].outcome
                 /\ taken[c] = <<<<"REPLY", FALSE>>>> => inv[c].client_closed
      <3>1. taken[c] = <<>> <=> inv[c].phase # "consumed"
        BY Zenon, <2>1 DEF RInv, Results, Sound
      <3>2. CASE taken[c] = <<>>
        BY <3>1, <3>2
      <3>3. CASE taken[c] # <<>>
        <4>1. PICK b \in BOOLEAN : taken[c] = <<<<inv[c].outcome, b>>>> /\ (inv[c].outcome = "REPLY" /\ ~ b => inv[c].client_closed)
          BY <2>1, <3>3 DEF RInv, Results, Sound
        <4>2. Len(taken[c]) = 1 /\ taken[c][1] = <<inv[c].outcome, b>>
          BY <4>1
        <4>3. taken[c][1][1] = inv[c].outcome /\ taken[c][1][2] = b
          BY <4>2
        <4>4. ASSUME taken[c] = <<<<"REPLY", FALSE>>>>
              PROVE  inv[c].client_closed
          <5>1. taken[c][1][1] = "REPLY" /\ taken[c][1][2] = FALSE
            BY <4>4
          <5>2. inv[c].outcome = "REPLY" /\ b = FALSE
            BY Zenon, <4>3, <5>1
          <5> QED BY Zenon, <4>1, <5>2
        <4>5. Len(taken[c]) <= 1 /\ inv[c].phase = "consumed"
          BY <3>1, <3>3, <4>2
        <4> QED BY ZenonT(30), <4>3, <4>4, <4>5
      <3> QED BY ZenonT(30), <3>2, <3>3
    <2> QED BY Zenon, <2>1 DEF TakenOnce
  <1> QED BY <1>1, AlwaysResults, PTL
----------------------------------------------------------------------------
(* Counting *)

\* Of all racing replies, failures, closes and deadlines one wins: at most one
\* responder_reply or responder_fail reports success, and what it reported is
\* the outcome that the call keeps.
THEOREM ReplyWinsOnce == Spec => []AckedReplyIsTheResult
  <1>1. RInv => AckedReplyIsTheResult
    <2>1. ASSUME RInv, NEW c \in Calls
          PROVE  Cardinality(acked[c]) <= 1 /\ \A a \in acked[c] : inv[c].outcome = a[2]
      <3>1. acked[c] = {} \/ \E w \in Workers : acked[c] = {<<w, inv[c].outcome>>}
        BY <2>1 DEF RInv, Results, Sound
      <3>2. Cardinality(acked[c]) <= 1
        <4>1. Cardinality(acked[c]) = 0 \/ Cardinality(acked[c]) = 1
          BY Zenon, <3>1, FS_EmptySet, FS_Singleton
        <4> QED BY <4>1
      <3> QED BY <3>1, <3>2
    <2> QED BY <2>1 DEF AckedReplyIsTheResult
  <1> QED BY <1>1, AlwaysResults, PTL

Charged == {c \in Calls : inv[c].budget}

LEMMA ChargedFinite ==
  /\ IsFiniteSet(Charged) /\ Cardinality(Charged) \in Nat
  <1>1. Charged \subseteq Calls
    BY DEF Charged
  <1>2. IsFiniteSet(Charged)
    BY ZenonT(20), <1>1, FS_Subset, InvocationConstants
  <1> QED BY <1>2, FS_CardinalityType

\* The result budget of one call is one unit.
LEMMA OneCharge ==
  ASSUME NEW c \in Calls, Touches(c), inv[c].budget \in BOOLEAN, inv'[c].budget \in BOOLEAN
  PROVE  Cardinality(Charged') = Cardinality(Charged) + Bit(inv'[c].budget) - Bit(inv[c].budget)
  <1>1. \A d \in Calls \ {c} : d \in Charged' <=> d \in Charged
    BY DEF Charged, Touches
  <1>2. CASE inv'[c].budget = inv[c].budget
    <2>1. Charged' = Charged
      BY <1>1, <1>2 DEF Charged
    <2> QED BY <1>2, <2>1, ChargedFinite DEF Bit
  <1>3. CASE inv'[c].budget /\ ~ inv[c].budget
    <2>1. Charged' = Charged \cup {c} /\ c \notin Charged
      BY Zenon, <1>1, <1>3 DEF Charged
    <2>2. Cardinality(Charged') = Cardinality(Charged) + 1
      BY ZenonT(30), <2>1, ChargedFinite, FS_AddElement
    <2> QED BY <1>3, <2>2, ChargedFinite DEF Bit
  <1>4. CASE ~ inv'[c].budget /\ inv[c].budget
    <2>1. Charged' = Charged \ {c} /\ c \in Charged
      BY Zenon, <1>1, <1>4 DEF Charged
    <2>2. Cardinality(Charged') = Cardinality(Charged) - 1
      BY ZenonT(30), <2>1, ChargedFinite, FS_RemoveElement
    <2> QED BY <1>4, <2>2, ChargedFinite DEF Bit
  <1> QED BY ZenonT(20), <1>2, <1>3, <1>4

LEMMA QuietCharge ==
  ASSUME Quiet
  PROVE  Charged' = Charged
  BY DEF Quiet, Touches, Resolves, Charged

----------------------------------------------------------------------------
(* The shapes of a step on the accounting *)

Rests == Quiet /\ UNCHANGED <<fifo, used>>
Refunds == Quiet /\ \E c \in Calls : Removable(c) /\ RemoveQueued(c)
Commits == Quiet /\ fifo # <<>> /\ fifo' = Tail(fifo) /\ used' = used - 1
Empties == Quiet /\ fifo' = <<>> /\ used' = used - Len(fifo)
Enters == Quiet /\ \E c \in Calls : enqueue(c)

\* One call takes its result budget, gives it back or keeps it.
Recharges ==
  /\ fifo' = fifo
  /\ \E c \in Calls : /\ Touches(c) /\ inv[c].budget \in BOOLEAN /\ inv'[c].budget \in BOOLEAN
                      /\ used' = used + Bit(inv'[c].budget) - Bit(inv[c].budget)
                      /\ inv'[c].budget => inv[c].budget \/ used < MaxGlobal

Balances == Rests \/ Refunds \/ Commits \/ Empties \/ Enters \/ Recharges

LEMMA RechargeCall ==
  ASSUME QInv, NEW c \in Calls, NEW j \in State, Update(c, j), fifo' = fifo,
         used' = used + Bit(j.budget) - Bit(inv[c].budget), j.budget => inv[c].budget \/ used < MaxGlobal
  PROVE  Recharges
  <1>1. Touches(c) /\ inv'[c] = j
    BY UpdateTouches DEF QInv
  <1>2. inv[c].budget \in BOOLEAN /\ j.budget \in BOOLEAN
    BY CallFacts DEF State
  <1> QED BY <1>1, <1>2 DEF Recharges

LEMMA CloseBalances ==
  ASSUME QInv, used \in Nat, NEW c \in Calls, close_client(c), fifo' = fifo
  PROVE  Balances
  <1> DEFINE j == [inv[c] EXCEPT !.client_closed = TRUE, !.response = FALSE, !.budget = FALSE]
  <1>1. inv[c] \in State
    BY CallFacts
  <1>2. Update(c, j) /\ used' = used - Bit(inv[c].budget)
    BY Zenon DEF close_client, Update
  <1>3. j \in State /\ j.budget = FALSE
    BY Zenon, <1>1 DEF State
  <1> HIDE DEF j
  <1>4. used' = used + Bit(j.budget) - Bit(inv[c].budget)
    BY <1>2, <1>3 DEF Bit
  <1> QED BY ZenonT(20), <1>2, <1>3, <1>4, RechargeCall DEF Balances

LEMMA SubmitBalances ==
  ASSUME QInv, used \in Nat, Submitting
  PROVE  Balances
  <1>1. PICK c \in Calls : submit(c) \/ SubmitStep(c) \/ enqueue_kernel(c)
    BY InvocationConstants DEF Submitting
  <1>2. CASE submit(c)
    <2> DEFINE j == [Unsubmitted EXCEPT !.phase = "queued", !.budget = (c \notin Oneway)]
    <2>1. j \in State /\ j.budget = (c \notin Oneway)
      BY Zenon DEF State, Phases, Outcomes, Reasons, Unsubmitted
    <2>2. sub[c] = "idle" /\ Update(c, j) /\ fifo' = fifo
          /\ IF c \in Oneway THEN used' = used ELSE used < MaxGlobal /\ used' = used + 1
      BY ZenonT(20), <1>2 DEF submit, Step
    <2> HIDE DEF j
    <2>3. inv[c].budget = FALSE
      BY <2>2 DEF QInv, Submitted, Unsent, Unsubmitted
    <2>4. used' = used + Bit(j.budget) - Bit(inv[c].budget) /\ (j.budget => used < MaxGlobal)
      <3>1. CASE c \in Oneway
        <4>1. j.budget = FALSE /\ used' = used
          BY Zenon, <2>1, <2>2, <3>1
        <4> QED BY <2>3, <4>1 DEF Bit
      <3>2. CASE c \notin Oneway
        <4>1. j.budget = TRUE /\ used' = used + 1 /\ used < MaxGlobal
          BY Zenon, <2>1, <2>2, <3>2
        <4> QED BY <2>3, <4>1 DEF Bit
      <3> QED BY <3>1, <3>2
    <2> QED BY <2>1, <2>2, <2>4, RechargeCall DEF Balances
  <1>3. CASE destroy_state(c)
    <2> DEFINE j == [inv[c] EXCEPT !.budget = FALSE]
    <2>1. inv[c] \in State /\ Update(c, j) /\ fifo' = fifo /\ inv[c].budget /\ used' = used - 1
      BY <1>3, CallFacts DEF destroy_state, Update
    <2>2. j \in State /\ j.budget = FALSE
      BY Zenon, <2>1 DEF State
    <2> HIDE DEF j
    <2>3. used' = used + Bit(j.budget) - Bit(inv[c].budget)
      BY <2>1, <2>2 DEF Bit
    <2> QED BY Zenon, <2>1, <2>2, <2>3, RechargeCall DEF Balances
  <1>4. CASE submit_closes(c)
    <2>1. fifo' = fifo /\ (close_client(c) \/ (inv' = inv /\ used' = used))
      BY <1>4 DEF submit_closes
    <2> QED BY <2>1, CloseBalances DEF Balances, Rests, Quiet
  <1>5. CASE recheck_cancel(c) \/ copyout_fails(c)
    <2>1. Quiet
      BY <1>5, SubmitQuiet
    <2>2. (fifo' = fifo /\ used' = used) \/ (Removable(c) /\ RemoveQueued(c))
      BY <1>5, CancelQueue DEF recheck_cancel, copyout_fails
    <2> QED BY <2>1, <2>2 DEF Balances, Rests, Refunds
  <1>6. CASE recheck_completed(c)
    <2>1. Quiet
      BY <1>6, SubmitQuiet
    <2> QED BY <1>6, <2>1 DEF recheck_completed, Balances, Rests, Refunds
  <1>7. CASE enqueue(c)
    BY <1>7, SubmitQuiet DEF Balances, Enters
  <1>8. CASE install(c) \/ install_fails(c) \/ enqueue_fails(c) \/ copyout(c) \/ enqueue_kernel(c)
    <2>1. Quiet
      BY <1>8, SubmitQuiet
    <2> QED BY <1>8, <2>1 DEF install, install_fails, enqueue_fails, copyout, enqueue_kernel, Balances, Rests
  <1> QED BY <1>1, <1>2, <1>3, <1>4, <1>5, <1>6, <1>7, <1>8 DEF SubmitStep

LEMMA TakerBalances ==
  ASSUME QInv, used \in Nat, Taking
  PROVE  Balances
  <1>1. PICK t \in Takers : TakeStep(t) \/ \E c \in Calls : take_result(t, c)
    BY DEF Taking
  <1>2. fifo' = fifo
    BY Frames
  <1>3. CASE claim_result_fails(t) \/ \E c \in Calls : take_result(t, c)
    <2>1. Quiet
      BY <1>3, TakerQuiet
    <2> QED BY <1>3, <2>1 DEF claim_result_fails, take_result, Balances, Rests
  <1>4. CASE claim_result(t) \/ restore_result(t) \/ commit_result(t)
    <2> DEFINE c == on[t]
    <2>1. c \in Calls /\ inv[c] \in State /\ got \in [Takers -> BOOLEAN]
      <3>1. pc[t] # "idle"
        BY ZenonT(30), <1>4 DEF claim_result, restore_result, commit_result, At
      <3> QED BY ZenonT(20), <3>1, CallFacts DEF TypeOK
    <2> HIDE DEF c
    <2>2. inv[c].budget \in BOOLEAN
      BY <2>1 DEF State
    <2>3. CASE claim_result(t)
      <3> DEFINE p == Polled(c)
                 j == [p EXCEPT !.result_claimed = TRUE, !.response = FALSE]
      <3>1. p \in State /\ p.budget = inv[c].budget
        BY <2>1, PolledResolves DEF Resolves
      <3>2. Update(c, j) /\ used' = used
        BY <2>3 DEF claim_result, c
      <3> HIDE DEF p
      <3>3. j \in State /\ j.budget = p.budget
        BY Zenon, <3>1 DEF State
      <3> HIDE DEF j
      <3>4. used' = used + Bit(j.budget) - Bit(inv[c].budget)
        BY <3>1, <3>2, <3>3 DEF Bit
      <3> QED BY ZenonT(20), <1>2, <2>1, <3>1, <3>2, <3>3, <3>4, RechargeCall DEF Balances
    <2>4. CASE restore_result(t)
      <3> DEFINE i == inv[c]
                 j == [i EXCEPT !.response = got[t], !.result_claimed = FALSE]
      <3>1. i \in State /\ got[t] \in BOOLEAN
        BY <2>1
      <3>2. (Update(c, j) \/ inv' = inv) /\ used' = used
        BY Zenon, <2>4 DEF restore_result, Update, c
      <3> HIDE DEF i
      <3>3. j \in State /\ j.budget = i.budget
        BY Zenon, <3>1 DEF State
      <3> HIDE DEF j
      <3>4. used' = used + Bit(j.budget) - Bit(inv[c].budget)
        BY <3>2, <3>3 DEF Bit, i
      <3>5. CASE Update(c, j)
        BY <1>2, <2>1, <3>3, <3>4, <3>5, RechargeCall DEF Balances, i
      <3> QED BY Zenon, <1>2, <3>2, <3>5 DEF Balances, Rests, Quiet
    <2>5. CASE commit_result(t)
      <3> DEFINE i == inv[c]
                 j == [i EXCEPT !.phase = "consumed", !.result_claimed = FALSE, !.response = FALSE, !.budget = FALSE]
      <3>1. i \in State
        BY <2>1
      <3>2. (Update(c, j) /\ used' = used - Bit(i.budget)) \/ (inv' = inv /\ used' = used)
        BY Zenon, <2>5 DEF commit_result, Update, c
      <3> HIDE DEF i
      <3>3. j \in State /\ j.budget = FALSE
        BY Zenon, <3>1 DEF State, Phases
      <3> HIDE DEF j
      <3>4. CASE Update(c, j) /\ used' = used - Bit(i.budget)
        <4>1. used' = used + Bit(j.budget) - Bit(inv[c].budget)
          BY <3>3, <3>4 DEF Bit, i
        <4> QED BY <1>2, <2>1, <3>3, <3>4, <4>1, RechargeCall DEF Balances
      <3> QED BY <1>2, <3>2, <3>4 DEF Balances, Rests, Quiet
    <2> QED BY ZenonT(30), <1>4, <2>3, <2>4, <2>5
  <1> QED BY <1>1, <1>3, <1>4 DEF TakeStep

LEMMA NextBalances ==
  ASSUME QInv, used \in Nat, Next
  PROVE  Balances
  <1>1. CASE Timing
    <2>1. Quiet
      BY <1>1, TimerQuiet
    <2>2. PICK c \in Calls : deadline_passes(c) \/ ExpireStep(c)
      BY <1>1 DEF Timing
    <2>3. UNCHANGED <<fifo, used>> \/ (Removable(c) /\ RemoveQueued(c))
      BY <2>2 DEF ExpireStep, deadline_passes, expire_deadline, expire_remove, expire_clear_owner, expire_removed, expire_finish
    <2> QED BY <2>1, <2>3 DEF Balances, Rests, Refunds
  <1>2. CASE Calling
    <2>1. PICK c \in Calls : ClientStep(c)
      BY <1>2 DEF Calling
    <2>2. CASE invocation_cancel(c)
      <3>1. Quiet
        BY <2>2, CancelsQuiet
      <3>2. UNCHANGED <<fifo, used>> \/ (Removable(c) /\ RemoveQueued(c))
        BY <2>2, CancelQueue DEF invocation_cancel
      <3> QED BY <3>1, <3>2 DEF Balances, Rests, Refunds
    <2>3. CASE close_invocation(c) \/ restrict_invocation(c)
      BY <2>3, CloseBalances DEF close_invocation, restrict_invocation
    <2> QED BY <2>1, <2>2, <2>3 DEF ClientStep
  <1>3. CASE Receiving
    <2>1. Quiet
      BY <1>3, ReceiverQuiet
    <2>2. PICK r \in Receivers : receive(r) \/ ReceiveStep(r)
      BY <1>3 DEF Receiving
    <2>3. CASE discard_claimed(r) \/ commit_claim(r)
      <3>1. pc[r] \in Holding
        BY <2>3 DEF discard_claimed, commit_claim, At, Holding, Delivered
      <3>2. fifo # <<>>
        BY <3>1 DEF QInv, Claim
      <3> QED BY ZenonT(30), <2>1, <2>3, <3>2 DEF discard_claimed, commit_claim, PopClaimed, Balances, Commits
    <2>4. CASE leave(r)
      BY <2>1, <2>4 DEF leave, Drain, Balances, Rests, Empties
    <2>5. CASE \/ receive(r) \/ claim(r) \/ claim_fails(r) \/ check_claimed(r) \/ cancel_claim(r) \/ begin_receive(r)
               \/ rollback_receive(r) \/ rollback_cancelled(r) \/ activate(r) \/ finish_dispatch(r) \/ close_delivered(r)
      <3>1. UNCHANGED <<fifo, used>>
        BY <2>5 DEF receive, claim, claim_fails, check_claimed, cancel_claim, begin_receive, rollback_receive,
           rollback_cancelled, activate, finish_dispatch, close_delivered, queueVars
      <3> QED BY ZenonT(20), <2>1, <3>1 DEF Balances, Rests
    <2> QED BY <2>2, <2>3, <2>4, <2>5 DEF ReceiveStep
  <1>4. CASE Serving
    <2>1. Quiet
      BY <1>4, ServerQuiet
    <2>2. UNCHANGED <<fifo, used>> \/ (fifo' = <<>> /\ used' = used - Len(fifo))
      BY <1>4 DEF Serving, release_server, close_server_queue, complete_discarded, Drain
    <2> QED BY ZenonT(20), <2>1, <2>2 DEF Balances, Rests, Empties
  <1>5. CASE Responding \/ Dispatching
    <2>1. Quiet
      BY <1>5, WorkerQuiet, KernelQuiet
    <2>2. UNCHANGED <<fifo, used>>
      BY <1>5, Frames DEF responderRest, kernelRest
    <2> QED BY <2>1, <2>2 DEF Balances, Rests
  <1> QED BY <1>1, <1>2, <1>3, <1>4, <1>5, SubmitBalances, TakerBalances, NextParties

----------------------------------------------------------------------------
(* The accounting *)

LEMMA AccountingStep ==
  ASSUME QInv, AccountingExact, Next
  PROVE  AccountingExact'
  <1> DEFINE n == Cardinality(Charged)
  <1>0. fifo \in Seq(Calls) /\ Len(fifo) \in Nat /\ Queue
    BY DEF QInv, TypeOK
  <1>1. n \in Nat /\ used = n + Len(fifo) /\ used <= MaxGlobal /\ Len(fifo) <= MaxMessages
    BY ChargedFinite DEF AccountingExact, Charged
  <1>2. used \in Nat /\ MaxGlobal \in Nat /\ MaxMessages \in Nat
    <2>1. MaxGlobal \in Nat /\ MaxMessages \in Nat
      BY Zenon, InvocationConstants
    <2> QED BY <1>0, <1>1, <2>1
  <1> HIDE DEF n
  <1>3. SUFFICES used' = Cardinality(Charged') + Len(fifo') /\ used' <= MaxGlobal /\ Len(fifo') <= MaxMessages
    BY DEF AccountingExact, Charged
  <1>4. Quiet => Cardinality(Charged') = n
    BY QuietCharge DEF n
  <1>5. CASE Rests
    BY <1>1, <1>4, <1>5 DEF Rests
  <1>6. CASE Refunds
    <2>1. PICK c \in Calls : Removable(c) /\ fifo' = Without(c) /\ used' = used - 1
      BY <1>6 DEF Refunds, RemoveQueued
    <2>2. Len(fifo') = Len(fifo) - 1 /\ Len(fifo) > 0
      BY ZenonT(30), <1>0, <2>1, WithoutRequest
    <2> QED BY <1>0, <1>1, <1>2, <1>4, <1>6, <2>1, <2>2 DEF Refunds
  <1>7. CASE Commits
    <2>1. Len(fifo') = Len(fifo) - 1 /\ Len(fifo) > 0
      BY <1>0, <1>7 DEF Commits
    <2> QED BY <1>0, <1>1, <1>2, <1>4, <1>7, <2>1 DEF Commits
  <1>8. CASE Empties
    <2>1. Len(fifo') = 0
      BY <1>8 DEF Empties
    <2> QED BY <1>0, <1>1, <1>2, <1>4, <1>8, <2>1 DEF Empties
  <1>9. CASE Enters
    <2>1. PICK c \in Calls : enqueue(c)
      BY <1>9 DEF Enters
    <2>2. fifo' = Append(fifo, c) /\ used' = used + 1 /\ Len(fifo) < MaxMessages /\ used < MaxGlobal
      BY <1>0, <1>2, <2>1 DEF enqueue, Refused
    <2>3. Len(fifo') = Len(fifo) + 1
      BY <1>0, <2>2
    <2> QED BY <1>0, <1>1, <1>2, <1>4, <1>9, <2>2, <2>3 DEF Enters
  <1>10. CASE Recharges
    <2>1. PICK c \in Calls : /\ Touches(c) /\ inv[c].budget \in BOOLEAN /\ inv'[c].budget \in BOOLEAN
                             /\ used' = used + Bit(inv'[c].budget) - Bit(inv[c].budget)
                             /\ inv'[c].budget => inv[c].budget \/ used < MaxGlobal
      BY <1>10 DEF Recharges
    <2>2. Cardinality(Charged') = n + Bit(inv'[c].budget) - Bit(inv[c].budget)
      BY <2>1, OneCharge DEF n
    <2>3. Bit(inv[c].budget) \in {0, 1} /\ Bit(inv'[c].budget) \in {0, 1}
          /\ (Bit(inv'[c].budget) = 1 => Bit(inv[c].budget) = 1 \/ used < MaxGlobal)
      BY <2>1 DEF Bit
    <2>4. Len(fifo') = Len(fifo)
      BY <1>10 DEF Recharges
    <2> QED BY <1>0, <1>1, <1>2, <2>1, <2>2, <2>3, <2>4
  <1> QED BY <1>2, <1>5, <1>6, <1>7, <1>8, <1>9, <1>10, NextBalances DEF Balances

\* The units in use are the reserved results and the queued requests, and
\* neither limit is passed: invoke_submit, take_result, close_invocation,
\* cancel, deadline, receive and close_server_queue give back what was taken.
THEOREM AccountingHolds == Spec => []AccountingExact
  <1>1. Init => AccountingExact
    <2> SUFFICES ASSUME Init
                 PROVE  AccountingExact
      OBVIOUS
    <2>1. {c \in Calls : inv[c].budget} = {}
      BY DEF Init, Unsubmitted
    <2>2. used = 0 /\ fifo = <<>>
      BY DEF Init
    <2>3. Cardinality({c \in Calls : inv[c].budget}) = 0 /\ Len(fifo) = 0
      BY Zenon, <2>1, <2>2, FS_EmptySet
    <2>4. MaxGlobal \in Nat /\ MaxMessages \in Nat
      BY InvocationConstants
    <2> QED BY <2>2, <2>3, <2>4 DEF AccountingExact
  <1>2. QInv /\ AccountingExact /\ [Next]_vars => AccountingExact'
    <2>1. ASSUME AccountingExact, UNCHANGED vars
          PROVE  AccountingExact'
      BY <2>1 DEF vars, AccountingExact
    <2> QED BY <2>1, AccountingStep
  <1> QED BY <1>1, <1>2, QueueCoherent, PTL DEF Spec
=============================================================================
