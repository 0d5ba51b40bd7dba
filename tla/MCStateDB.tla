----------------------------- MODULE MCStateDB -----------------------------
(* Two processes, one of them with two threads, on a two-slot database. *)
EXTENDS StateDB, TLC

CONSTANTS t1, t2, t3, labctl1, labctl2

MCThreads   == {t1, t2, t3}
MCProcesses == {labctl1, labctl2}
MCHome      == t1 :> labctl1 @@ t2 :> labctl1 @@ t3 :> labctl2
=============================================================================
