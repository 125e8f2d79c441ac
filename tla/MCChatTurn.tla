----------------------------- MODULE MCChatTurn -----------------------------
(***************************************************************************)
(* ChatTurn for TLC: two documents about one person and one about another, *)
(* plans of up to three entries of which two may run, and a limit on       *)
(* candidates that a question about both people exceeds.  One call of a    *)
(* turn fails without words, and only while no document is deleted.        *)
(***************************************************************************)
EXTENDS ChatTurn, TLC

CONSTANTS d1, d2, d3, n1, n2

ThreeDocs == {d1, d2, d3}
TwoNames == {n1, n2}
Persons == d1 :> n1 @@ d2 :> n1 @@ d3 :> n2
FourQuestions ==
    {[names |-> {}, back |-> b] : b \in BOOLEAN} \cup
    {[names |-> ns, back |-> FALSE] : ns \in {{n1}, TwoNames}}
NineShapes ==
    {<<"semantic">>, <<"structured">>, <<"tabular">>,
     <<"semantic", "semantic">>, <<"structured", "semantic">>,
     <<"structured", "tabular">>, <<"unknown", "structured">>,
     <<"structured", "structured", "semantic">>, <<"structured", "structured", "structured">>}
WordlessAlone ==
    LET wordless == {i \in DOMAIN results : results[i].error = "wordless"}
    IN  wordless # {} => docs = Docs /\ Cardinality(wordless) = 1
Symmetry == Permutations({d1, d2})
=============================================================================
