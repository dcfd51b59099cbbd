------------------------------ MODULE MCAlarms ------------------------------
(* Instances of Alarms for TLC. *)
EXTENDS Alarms, TLC

CONSTANTS p1, p2, p3, g1

\* Two probes of one group.
OneGroup == (p1 :> g1) @@ (p2 :> g1)
\* Two probes of a group and a probe on its own.
GroupAndSingle == (p1 :> g1) @@ (p3 :> g1) @@ (p2 :> None)
\* One probe on its own.
Single == (p1 :> None)

EventSymmetry == Permutations(Events) \cup Permutations({p1, p3})
=============================================================================
