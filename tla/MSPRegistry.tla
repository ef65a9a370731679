----------------------------- MODULE MSPRegistry -----------------------------
(***************************************************************************)
(* What the Fabric light client promises about the membership service      *)
(* providers (MSPs) of the chain it follows: a table from MSP identifiers  *)
(* to their configuration, policy and frozen flag.  A header changes any   *)
(* number of entries at once.  An entry is created where there is none,    *)
(* changed, one field at a time, while it is not frozen, and never removed.*)
(***************************************************************************)
CONSTANTS
  MSPIDs,      \* identifiers of MSPs
  Configs,     \* configurations of an MSP
  Policies,    \* policies of an MSP
  Absent       \* the entry of an MSP that has not been created

VARIABLE registry

Infos == [config : Configs, policy : Policies, freezed : BOOLEAN]

Registries == [MSPIDs -> Infos \cup {Absent}]

Init == registry \in Registries

\* What one header can make of the entry e.
Successors(e) ==
  IF e = Absent
  THEN {i \in Infos : ~ i.freezed}
  ELSE {i \in Infos :
          /\ ~ e.freezed
          /\ \/ i = [e EXCEPT !.config = i.config]
             \/ i = [e EXCEPT !.policy = i.policy]
             \/ i = [e EXCEPT !.freezed = TRUE]}

Next ==
  /\ registry' \in Registries
  /\ \A id \in MSPIDs :
       registry'[id] # registry[id] => registry'[id] \in Successors(registry[id])

Spec == Init /\ [][Next]_registry
==============================================================================
