---------------------------- MODULE MCModelServing ----------------------------
(***************************************************************************)
(* ModelServing for TLC. Of the models, one leaves room in the session      *)
(* cache and the others fill it.                                           *)
(***************************************************************************)
EXTENDS ModelServing

Sizes == [v \in 1..MaxVersion |-> IF v = 1 THEN 1 ELSE 2]
===============================================================================
