----------------------------- MODULE MCLiveness -----------------------------
(* What must eventually happen: a small instance of the calls and of the   *)
(* supervisor.  A behaviour is one of the first, in which init has ended,  *)
(* or one of the second, in which nobody calls.                            *)
EXTENDS Invocation, Supervisor

VARIABLE side
liveVars == <<side, vars, supVars>>

LiveInit ==
  /\ Init
  /\ \/ side = "supervisor" /\ SupInit
     \/ /\ side = "calls" /\ procs = {} /\ faults = 0 /\ born = 0
        /\ init = [pc |-> "ended"]

LiveNext ==
  /\ UNCHANGED side
  /\ \/ side = "calls" /\ Next /\ UNCHANGED supVars
     \/ side = "supervisor" /\ SupNext /\ UNCHANGED vars

LiveSpec == LiveInit /\ [][LiveNext]_liveVars /\ Fairness /\ SupFair
=============================================================================
