-------------------------- MODULE MCStandaloneEPPMock --------------------------
(* Instances of StandaloneEPPMock for TLC: the profiles the guide names, and
   combinations of faults that meet in one frame.                          *)
EXTENDS StandaloneEPPMock, TLC

Symmetry == Permutations(Callers) \cup Permutations(Conns)

Healthy ==
  [loginMode |-> "", loginFailCount |-> 0, disconnectAt |-> "", disconnectAfter |-> 0,
   malformedFrame |-> "", faultMismatch |-> {}, perOp |-> <<>>]

Delays(ops) == [match |-> ops, disconnect |-> FALSE, mismatch |-> FALSE]
Disconnects(ops) == [match |-> ops, disconnect |-> TRUE, mismatch |-> FALSE]
Mismatches(ops) == [match |-> ops, disconnect |-> FALSE, mismatch |-> TRUE]

Flap == [Healthy EXCEPT !.loginMode = "flap", !.loginFailCount = 1]
Overflow == [Healthy EXCEPT !.malformedFrame = "length_overflow"]

AllProfiles ==
  {Healthy, Overflow,
   [Flap EXCEPT !.disconnectAfter = 1],
   [Healthy EXCEPT !.loginMode = "always", !.faultMismatch = {"hello", "create"}],
   [Healthy EXCEPT !.loginMode = "hang", !.malformedFrame = "garbage", !.disconnectAfter = 2],
   [Healthy EXCEPT !.loginMode = "disconnect", !.perOp = <<Mismatches({"poll", "check"})>>],
   [Healthy EXCEPT !.disconnectAt = "pre-greeting"],
   [Healthy EXCEPT !.disconnectAt = "post-greeting"],
   [Flap EXCEPT !.malformedFrame = "invalid_xml",
                !.perOp = <<Delays({"create"}), Disconnects({"create", "info"})>>]}
=============================================================================
