----------------------------- MODULE MCRRISession -----------------------------
(* Instances of RRISession for TLC. *)
EXTENDS RRISession, TLC

CONSTANTS k1, k2

alone(ops) == (k1 :> ops @@ k2 :> <<>>)

SomePlans ==
  {alone(<<"CheckContact", "Login", "CheckDomain">>),
   alone(<<"PollRead", "Login", "Login", "Create">>),
   alone(<<"Login", "Logout", "Login">>),
   alone(<<"Logout", "BadName", "Create">>),
   (k1 :> <<"Login", "PollRead">> @@ k2 :> <<"Login">>)}

Plain ==
  [loginMode |-> "", loginFailCount |-> 0, disconnectAt |-> "", disconnectAfter |-> 0,
   malformedFrame |-> "", faultMismatch |-> {}, perOp |-> <<>>]

SomeProfiles ==
  {[Plain EXCEPT !.loginMode = "flap", !.loginFailCount = 1, !.disconnectAfter = 1],
   [Plain EXCEPT !.loginMode = "hang", !.malformedFrame = "garbage",
                 !.faultMismatch = {"CREATE"}],
   [Plain EXCEPT !.loginMode = "disconnect", !.disconnectAfter = 2,
                 !.perOp = <<[match |-> {"CHECK"}, disconnect |-> TRUE, mismatch |-> FALSE]>>],
   [Plain EXCEPT !.disconnectAt = "post-greeting"]}
=============================================================================
