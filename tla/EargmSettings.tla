--------------------------- MODULE EargmSettings ---------------------------
(***************************************************************************)
(* What an EARGM configuration wizard promises about the settings it       *)
(* collects, whatever the order of its questions: EARGMs are added one at  *)
(* a time with fresh ids; the set of EARGMs a meta-EARGM redistributes     *)
(* among is fixed once and names configured EARGMs only; the energy        *)
(* warning thresholds are fixed once, as three values from lowest to       *)
(* highest; and the configuration ends once, written or failed, after      *)
(* which nothing changes.                                                  *)
(*                                                                         *)
(* EarConf implements this specification under the mapping given there.   *)
(***************************************************************************)
EXTENDS Naturals, Sequences, SequencesExt

VARIABLES
    stage,       \* "config", then "written" or "failed"
    eargmIds,    \* the ids of the EARGMs configured so far
    managed,     \* the EARGMs the meta-EARGM controls, {} if none
    thresholds   \* the warning thresholds, <<>> until fixed

vars == <<stage, eargmIds, managed, thresholds>>

Init ==
    /\ stage = "config"
    /\ eargmIds = {}
    /\ managed = {}
    /\ thresholds = <<>>

\* The actions name their new values through the primed variables rather
\* than by enumerating candidates, so that TLC can check a step of an
\* implementation against them.
AddEargm ==
    /\ stage = "config"
    /\ \E id \in eargmIds' \ eargmIds :
          /\ id \in Nat
          /\ eargmIds' = eargmIds \cup {id}
    /\ UNCHANGED <<stage, managed, thresholds>>

SetManaged ==
    /\ stage = "config"
    /\ managed = {}
    /\ managed' # {}
    /\ managed' \subseteq eargmIds
    /\ UNCHANGED <<stage, eargmIds, thresholds>>

SetThresholds ==
    /\ stage = "config"
    /\ thresholds = <<>>
    /\ Len(thresholds') = 3
    /\ \A i \in 1..3 : thresholds'[i] \in Nat
    /\ IsSorted(thresholds', <=)
    /\ UNCHANGED <<stage, eargmIds, managed>>

Finish ==
    /\ stage = "config"
    /\ stage' \in {"written", "failed"}
    /\ UNCHANGED <<eargmIds, managed, thresholds>>

Next == AddEargm \/ SetManaged \/ SetThresholds \/ Finish

Spec == Init /\ [][Next]_vars

=============================================================================
