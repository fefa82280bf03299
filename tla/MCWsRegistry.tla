---------------------------- MODULE MCWsRegistry ----------------------------
(* Small instances of WsRegistry for TLC: two application threads that both *)
(* start streams and stop them, each token more than once.                  *)
EXTENDS WsRegistry, TLC

CONSTANTS t1, t2

TwoThreads == {t1, t2}

\* The threads are alike.
Alike == Permutations(TwoThreads)
=============================================================================
