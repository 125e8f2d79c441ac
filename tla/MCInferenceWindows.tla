-------------------------- MODULE MCInferenceWindows --------------------------
(***************************************************************************)
(* InferenceWindows for TLC: five words, of none to four pieces, in windows *)
(* of three, which is all the model has positions for, with an overlap of   *)
(* two, so that a window is one word, several, or holds words of no pieces, *)
(* and that a word is in up to three windows.                               *)
(***************************************************************************)
EXTENDS InferenceWindows
===============================================================================
