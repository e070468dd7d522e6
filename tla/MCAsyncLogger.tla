---------------------------- MODULE MCAsyncLogger ----------------------------
(* Records, Flush calls and Stop calls are model values given by the cfg.  *)
(* Liveness is checked with the invariants, so no symmetry is declared.    *)
EXTENDS AsyncLogger

=============================================================================
