--------------------------- MODULE MCCabinetSync ---------------------------
(* An instance of CabinetSync: one cabinet and a pipeline of two of the      *)
(* nine phases.                                                              *)
EXTENDS CabinetSync

CONSTANTS cabinet, h1, h2, m1, m2, m3, request, none

MCCabinets == {cabinet}
MCHandlers == {h1, h2}
MCMutexes  == {m1, m2, m3}
MCRequests == {request}
MCPipeline == <<"campaigns", "stats">>

=============================================================================
