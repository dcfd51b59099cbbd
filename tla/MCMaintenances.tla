--------------------------- MODULE MCMaintenances ---------------------------
(* Instances of Maintenances for TLC. *)
EXTENDS Maintenances

CONSTANTS p1, m1

W(start, end, kind, of) == [start |-> start, end |-> end, kind |-> kind, of |-> of]
\* A window over everything and a later one over a machine.
TwoWindows == {W(0, 3, "all", {}), W(1, 4, "machines", {m1})}
\* An event of the machine, when the first window has just ended.
MachineEvent == {[time |-> 3, probes |-> p1, probeGroups |-> None, machines |-> m1]}
=============================================================================
