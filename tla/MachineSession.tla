--------------------------- MODULE MachineSession ---------------------------
(***************************************************************************)
(* What an IMachine promises its user about one machine object, without    *)
(* threads, futures or handlers: it is configured only while it is         *)
(* stopped; a running machine has at most one transfer (a load or a save)  *)
(* outstanding, never queues a second one, and stops only when none is     *)
(* left.  Machine.tla is shown to implement this specification.            *)
(***************************************************************************)
CONSTANT Configs        \* what can be configured: controllers, handlers, options

VARIABLES
  phase,                \* "stopped" or "running": is a call of Run in progress?
  config,               \* the configuration in force
  transfers             \* the outstanding transfers, a subset of Kinds

vars == <<phase, config, transfers>>

Kinds == {"load", "save"}

Init ==
  /\ phase = "stopped"
  /\ config \in Configs
  /\ transfers = {}

\* Attach, detach, register a handler, set options: refused while running.
Configure ==
  /\ phase = "stopped"
  /\ config' \in Configs
  /\ UNCHANGED <<phase, transfers>>

Start ==
  /\ phase = "stopped"
  /\ phase' = "running"
  /\ UNCHANGED <<config, transfers>>

\* A transfer begins only when no other is outstanding; requests made
\* meanwhile are ignored, so they are stuttering steps.
Begin(kind) ==
  /\ phase = "running"
  /\ transfers = {}
  /\ transfers' = {kind}
  /\ UNCHANGED <<phase, config>>

End(kind) ==
  /\ phase = "running"
  /\ kind \in transfers
  /\ transfers' = transfers \ {kind}
  /\ UNCHANGED <<phase, config>>

Stop ==
  /\ phase = "running"
  /\ transfers = {}
  /\ phase' = "stopped"
  /\ UNCHANGED <<config, transfers>>

Next ==
  \/ Configure
  \/ Start
  \/ \E kind \in Kinds : Begin(kind)
  \/ \E kind \in Kinds : End(kind)
  \/ Stop

Spec == Init /\ [][Next]_vars
=============================================================================
