------------------------------ MODULE MCAgent ------------------------------
EXTENDS Agent

CONSTANTS p, q

\* Two lists: `q` is changed, `p` is deleted; one more in error.
Configured(dp, dq) == [x \in Probes |-> IF x = p THEN dp ELSE dq]
SomeLists == {NoProbes, Configured("up", "cmd"), Configured(None, "up"), Configured("bad", "cmd2")}
=============================================================================
