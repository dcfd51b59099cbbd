---------------------------- MODULE MCRelaySync ----------------------------
(* Instances of RelaySync for TLC. *)
EXTENDS RelaySync

Start == [guest |-> 0, host |-> 0]
GlobalAsks == {Global}
Both == Zones \X {[guest |-> 1, host |-> 1]}
============================================================================
