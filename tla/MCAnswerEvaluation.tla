------------------------- MODULE MCAnswerEvaluation -------------------------
(* Small instances of AnswerEvaluation for TLC.                            *)
EXTENDS AnswerEvaluation, TLC

\* Every requestId comes with a text of its own, or with every text.
OneText ==
    CHOOSE f \in [Requests -> {{d} : d \in Contents}] :
        \A r, q \in Requests : f[r] = f[q] => r = q
AllTexts == [r \in Requests |-> Contents]

\* Under AllTexts tabs, requestIds and texts are interchangeable.
Symmetric ==
    Permutations(Clients) \cup Permutations(Requests) \cup Permutations(Contents)
=============================================================================
