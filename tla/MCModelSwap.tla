---------------------------- MODULE MCModelSwap -----------------------------
(* The instances of ModelSwap that TLC checks: two parsing threads, three  *)
(* models, and one thread that swaps (as ModelUpdater of thread_test.cpp)  *)
(* or two that do so at once.                                              *)
EXTENDS ModelSwap
=============================================================================
