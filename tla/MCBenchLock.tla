----------------------------- MODULE MCBenchLock -----------------------------
(* Two runs that make has given the same core, and so the same lock.       *)
EXTENDS BenchLock

CONSTANTS h1, h2

OneCore == [h \in Harnesses |-> {0}]
OneLock == [h \in Harnesses |-> "cpu0"]
=============================================================================
