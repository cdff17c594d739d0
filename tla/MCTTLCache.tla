----------------------------- MODULE MCTTLCache -----------------------------
(* TTLCache on a small instance: more keys than entries, a clock that runs   *)
(* through more than two lifetimes.                                          *)
EXTENDS TTLCache
=============================================================================
