----------------------------- MODULE ObjectCall -----------------------------
(***************************************************************************)
(* What a two-way object call promises its caller, whatever threads,       *)
(* queues and timers do underneath: one outcome, published once and never  *)
(* changed; a kernel verdict of NOT_DELIVERED only for a request nobody    *)
(* has seen or will see; a result handed over at most once.                *)
(***************************************************************************)
CONSTANT Calls

VARIABLES
  status,   \* "none", "pending", "ready", "consumed", "abandoned"
  outcome,  \* of a call that is ready or consumed
  decided,  \* who decided the outcome: the "server" or the "kernel"
  seen      \* whether the request reached its implementation

callVars == <<status, outcome, decided, seen>>

CallInit ==
  /\ status = [c \in Calls |-> "none"]
  /\ outcome = [c \in Calls |-> "none"]
  /\ decided = [c \in Calls |-> "nobody"]
  /\ seen = [c \in Calls |-> FALSE]

Submit(c) ==
  /\ status[c] = "none"
  /\ status' = [status EXCEPT ![c] = "pending"]
  /\ UNCHANGED <<outcome, decided, seen>>

\* A late delivery is possible only after an unknown outcome, or once the
\* caller has given the result up.
Deliver(c) ==
  /\ ~ seen[c]
  /\ status[c] \in {"pending", "abandoned"} \/ outcome[c] = "OUTCOME_UNKNOWN"
  /\ seen' = [seen EXCEPT ![c] = TRUE]
  /\ UNCHANGED <<status, outcome, decided>>

Resolve(c, o, who) ==
  /\ status[c] = "pending"
  /\ status' = [status EXCEPT ![c] = "ready"]
  /\ outcome' = [outcome EXCEPT ![c] = o]
  /\ decided' = [decided EXCEPT ![c] = who]
  /\ UNCHANGED seen

\* The implementation replies or fails; it must have seen the request.
Answer(c) ==
  /\ seen[c]
  /\ \E o \in {"REPLY", "NOT_DELIVERED", "OUTCOME_UNKNOWN"} : Resolve(c, o, "server")

\* The kernel ends a call: cancel, deadline, peer close, abandoned Responder.
Fail(c) ==
  \/ ~ seen[c] /\ Resolve(c, "NOT_DELIVERED", "kernel")
  \/ Resolve(c, "OUTCOME_UNKNOWN", "kernel")

Take(c) ==
  /\ status[c] = "ready"
  /\ status' = [status EXCEPT ![c] = "consumed"]
  /\ UNCHANGED <<outcome, decided, seen>>

GiveUp(c) ==
  /\ status[c] = "pending"
  /\ status' = [status EXCEPT ![c] = "abandoned"]
  /\ UNCHANGED <<outcome, decided, seen>>

CallNext == \E c \in Calls : Submit(c) \/ Deliver(c) \/ Answer(c) \/ Fail(c) \/ Take(c) \/ GiveUp(c)

CallSpec == CallInit /\ [][CallNext]_callVars
=============================================================================
