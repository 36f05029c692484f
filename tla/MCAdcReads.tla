----------------------------- MODULE MCAdcReads -----------------------------
(* Instance of AdcReads for TLC: the reader is a model value. *)
EXTENDS AdcReads

CONSTANT r
==============================================================================
