---------------------------- MODULE MCLifecycle ----------------------------
(* Instances of Lifecycle: two labctl processes, one or two slots. *)
EXTENDS Lifecycle, TLC

CONSTANTS labctl1, labctl2, snap1, port1, port2

MCProcs  == {labctl1, labctl2}
ProcSym  == Permutations(MCProcs)

VMCommands   == {"run", "restore", "destroy", "snapshot"}
PortCommands == {"run", "restore", "destroy", "snapshot", "snapshot delete",
                 "ports add", "ports rm", "ports reload"}
=============================================================================
