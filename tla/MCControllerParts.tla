------------------------- MODULE MCControllerParts -------------------------
(***************************************************************************)
(* ControllerParts for TLC: the parameters of each part, as small as its   *)
(* interesting cases allow.                                                *)
(***************************************************************************)
EXTENDS ControllerParts

\* The executor: two commands of agent a and one of agent b, two reports of one
\* key; a message is named after its principal or class.
MCMessages == {"a1", "a2", "b1", "l1", "l2"}
MCClassOf == [w \in MCMessages |-> IF w \in {"l1", "l2"} THEN "liveness" ELSE "authority"]
MCPrincipalOf == [w \in MCMessages |-> IF w = "b1" THEN "b" ELSE "a"]
MCReports == [w \in MCMessages |-> IF w \in {"l1", "l2"} THEN "l" ELSE "none"]
MCCycle == <<"safety", "safety", "authority", "liveness", "diagnostic">>
MCMaxHeld == [c \in {"safety", "authority", "liveness", "diagnostic"} |-> IF c = "authority" THEN 2 ELSE 1]
MCMaxActive == [c \in {"safety", "authority", "liveness", "diagnostic"} |-> 1]

\* The process: messages are named after their zone; y has a cancellable command
\* and two reports of one key, z a command.
MCZoneMessages == {"y1", "yr1", "yr2", "z1"}
MCZoneOf == [w \in MCZoneMessages |-> IF w = "z1" THEN "z" ELSE "y"]
MCZoneReports == [w \in MCZoneMessages |-> IF w \in {"yr1", "yr2"} THEN "report" ELSE "none"]
=============================================================================
