--------------------------- MODULE MCEntityPipeline ---------------------------
(***************************************************************************)
(* EntityPipeline for TLC: documents of four words of which the second is  *)
(* outside, so that labels bridge a hole of one or stop at one of two, and  *)
(* up to three entities are each other's neighbours; on one page, on two,   *)
(* or on unknown ones; with words that repeat, or are punctuation.          *)
(***************************************************************************)
EXTENDS EntityPipeline, TLC

CONSTANTS x, y, z, a, b

Pages(breaks) == [i \in Words |-> 1 + Cardinality({k \in breaks : k <= i})]
Paginations == {[i \in Words |-> Unknown]} \cup {Pages(breaks) : breaks \in {{}, {3}}}
Labellings == {<<l1, Outside, l3, l4>> : l1, l3, l4 \in Labels}
Wordings == {<<t1, x, t3, t4>> : t1 \in {x, Punct}, t3 \in {y, Punct}, t4 \in {x, z}}

Written(labels, texts, pages) ==
    [i \in Words |-> [label |-> labels[i], text |-> texts[i], page |-> pages[i]]]
\* Where there is a third text, on one page and without punctuation, whatever is merged
\* reads differently.
FourWords ==
    {d \in {Written(l, t, p) : l \in Labellings, t \in Wordings, p \in Paginations} :
        /\ IsDocument(d)
        /\ d[4].text = z => d[4].page = 1 /\ \A i \in Words : d[i].text # Punct}

\* Without alignment pages are not consulted.
PagesMatter == ~aligned => \A i \in Words : word[i].page = 1

ThreeTexts == {x, y, z}
ShortOnes == {z}
TwoTypes == {a, b}
Exempt == {a}
===============================================================================
