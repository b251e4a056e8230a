----------------------------- MODULE MCAttempt -----------------------------
(* Plans of one to three steps with every dependency relation, required or  *)
(* not, some of four steps, and some that repeat an id.                     *)
EXTENDS AttemptRunner

MCIds == 1..4

\* Every plan of n steps, their ids in plan order.
PlansOf(n) ==
    LET deps(i) == SUBSET ((1..n) \ {i})
        D == {f \in [1..n -> SUBSET (1..n)] : \A i \in 1..n : f[i] \in deps(i)}
    IN  {[i \in 1..n |-> [id |-> i, deps |-> f[i], required |-> r[i]]] :
            f \in D, r \in [1..n -> BOOLEAN]}

\* Two calls with one id, and a third that they depend on.
RepeatedIds ==
    {<<[id |-> 1, deps |-> {}, required |-> r],
       [id |-> 2, deps |-> {1}, required |-> TRUE],
       [id |-> 2, deps |-> d, required |-> TRUE]>> : r \in BOOLEAN, d \in {{}, {1}}}

\* Steps 2 and 4 wait for each other, and step 2 also for step 3, which is
\* skipped after step 2 was looked at: nothing is ready, yet there is progress.
LateSkip ==
    {<<[id |-> 1, deps |-> {}, required |-> TRUE],
       [id |-> 2, deps |-> {3, 4}, required |-> r],
       [id |-> 3, deps |-> {1}, required |-> s],
       [id |-> 4, deps |-> {2}, required |-> r]>> : r, s \in BOOLEAN}

MCPlans == PlansOf(1) \cup PlansOf(2) \cup PlansOf(3) \cup RepeatedIds \cup LateSkip
=============================================================================
