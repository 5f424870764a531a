------------------------------ MODULE MCProcess ------------------------------
EXTENDS Process, JobControl, TLC

CONSTANTS root, a, b

MCProcs == {root, a, b}

NoCalls == [k \in Kinds |-> 0]

\* wait for any child, with WUNTRACED or with WNOHANG, and for one child, by pid or by handle
MCWaits == {<<AnyChild, FALSE, TRUE, FALSE>>, <<AnyChild, FALSE, FALSE, TRUE>>,
            <<a, FALSE, FALSE, FALSE>>, <<a, TRUE, TRUE, FALSE>>}

\* creation and start, racing with a wait and a kill; two waits for a child that stops and
\* continues; two waits, one of them interrupted, for a child that exits; two children that
\* exit; the threads of an exiting process, and its handles
MCStarts == {
    <<{}, NoCalls>>,
    <<{}, [NoCalls EXCEPT !["create"] = 2, !["wait"] = 1, !["kill"] = 1]>>,
    <<{a}, [NoCalls EXCEPT !["wait"] = 2, !["signal"] = 2]>>,
    <<{a}, [NoCalls EXCEPT !["wait"] = 2, !["exit"] = 1, !["signal"] = 1, !["interrupt"] = 1]>>,
    <<{a, b}, [NoCalls EXCEPT !["wait"] = 2, !["exit"] = 2]>>,
    <<{a}, [NoCalls EXCEPT !["thread"] = 2, !["exit"] = 1, !["kill"] = 1, !["wait"] = 1, !["handle"] = 1]>>}

\* one behaviour exercises one of the two components; the other stays in its initial state
VARIABLE part

SumInit == part \in {"process", "job"} /\ Init /\ JobInit /\ (part = "job" => calls = NoCalls)

SumNext ==
    \/ part = "process" /\ Next /\ UNCHANGED <<part, jobVars>>
    \/ part = "job" /\ JobNext /\ UNCHANGED <<part, vars>>

SumSpec == SumInit /\ [][SumNext]_<<part, vars, jobVars>>

MCSymmetry == Permutations(Workers)
==============================================================================
