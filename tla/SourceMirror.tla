---------------------------- MODULE SourceMirror ----------------------------
(***************************************************************************)
(* What a synchronized connection promises to retrieval: of each object of *)
(* the source one document at most stands for it, and is served or, while  *)
(* the object is held to be missing, withdrawn. A document is shown once:  *)
(* replaced or withdrawn it never comes back, under its object or another, *)
(* and an object that comes back does so with a new document.              *)
(***************************************************************************)
CONSTANTS Objects, Docs, NoDoc

VARIABLES
    shown,       \* the document that stands for each object, or NoDoc
    withdrawn,   \* the objects whose document is not served
    used         \* the documents that were ever shown

vars == <<shown, withdrawn, used>>

Init ==
    /\ shown = [o \in Objects |-> NoDoc]
    /\ withdrawn = {}
    /\ used = {}

Show(o, d) ==
    /\ d \notin used
    /\ shown' = [shown EXCEPT ![o] = d]
    /\ withdrawn' = withdrawn \ {o}
    /\ used' = used \cup {d}

Withdraw(o) ==
    /\ shown[o] # NoDoc /\ o \notin withdrawn
    /\ withdrawn' = withdrawn \cup {o}
    /\ UNCHANGED <<shown, used>>

Next == \E o \in Objects : Withdraw(o) \/ \E d \in Docs : Show(o, d)

Spec == Init /\ [][Next]_vars
=============================================================================
