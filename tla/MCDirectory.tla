---------------------------- MODULE MCDirectory ----------------------------
(* Instances of Directory for TLC. *)
EXTENDS Directory

CONSTANTS cust, op, nobody, p1, p2, p3, p4, g1, vm, gz, n1, n2

OwnerOf == [dn \in Dns |-> CASE dn \in {p2, p4} -> op [] dn = p3 -> nobody [] OTHER -> cust]
VmOwners == [a \in Agents |-> IF a = vm THEN cust ELSE None]
D(type, agent, machine, group, name) ==
  [type |-> type, agent |-> agent, machine |-> machine, group |-> group, name |-> name]
A(kind, dn, data) ==
  [kind |-> kind, user |-> OwnerOf[dn], dn |-> dn, data |-> data, skip |-> FALSE]
OfGroup == D("group", None, None, None, n1)
OnVm(group, name) == D("local", None, vm, group, name)

OnAgent(a) == D("local", a, a, None, n1)

\* A probe on a machine and one on a server are stored already.
TwoStored == [dn \in Dns |-> CASE dn = p1 -> Inferred(OnVm(None, n1))
                                [] dn = p4 -> OnAgent(gz) [] OTHER -> None]

\* Reads and writes of one probe and its group, by their owner; whoever may and
\* may not have a probe, of every type, on a machine or a server; a probe that moves.
AllAsks ==
  {A("post", g1, OfGroup), A("delete", g1, OfGroup), A("get", g1, OfGroup), A("put", g1, OfGroup),
   A("put", p1, OnVm(g1, n2)), A("delete", p1, OnVm(None, n1)),
   A("get", p1, OnVm(None, n1)), A("list", p1, OnVm(None, n1)),
   A("head", p1, OnAgent(vm)), A("agentprobes", p1, OnAgent(vm)),
   A("put", p1, D("local", vm, gz, None, n1)), A("put", p1, OnAgent(gz)),
   A("post", p2, OnAgent(gz)), A("post", p2, OnVm(None, n1)),
   A("post", p2, D("vmhost", None, vm, None, n1)),
   A("put", p4, D("vmhost", vm, vm, None, n1)), A("head", p4, OnAgent(gz)),
   A("get", p3, OnAgent(gz)),
   [A("post", p2, OnVm(None, n1)) EXCEPT !.skip = TRUE],
   [A("put", p1, OnAgent(gz)) EXCEPT !.skip = TRUE]}
============================================================================
