-------------------------- MODULE MCBindingRollout --------------------------
(* Small instances of BindingRollout for TLC: one worker and one or two      *)
(* operators.  No symmetry, for a liveness property is among those checked.  *)
EXTENDS BindingRollout
=============================================================================
