----------------------------- MODULE MCLlmLimits -----------------------------
(***************************************************************************)
(* LlmLimits for TLC.  Two slots are enough for one request to be paid     *)
(* while another is checked.  A window of two ticks with two requests a    *)
(* tick lets requests arrive within, across and outside a window, and the  *)
(* limit of two be reached in one tick or over several.  A budget of two   *)
(* units and bills of up to two overshoot it from below and from exactly.  *)
(***************************************************************************)
EXTENDS LlmLimits, TLC

\* Slots differ only by name.
Interchangeable == Permutations(Slots)
===============================================================================
