------------------------------ MODULE FaultEngine ------------------------------
(***************************************************************************)
(* pkg/fault: what a fault profile makes a standalone mock do.  An engine  *)
(* belongs to one connection; it counts logins and operations and          *)
(* remembers whether it has corrupted a frame.  Delays only take time.     *)
(*                                                                         *)
(* A definition named Bug... is a mistake this code could contain.  The    *)
(* model does not use it; it stands beside the definition it could replace *)
(* to show that some property would notice.                                *)
(***************************************************************************)
EXTENDS Integers, Sequences

CONSTANT OpTypes    \* what the substrings of a profile tell apart in a frame

Actions == {"allow", "deny", "hang", "disconnect", "mismatch"}

(* A rule applies to the frames that contain its match string.  One without
   disconnect and mismatch only delays.                                    *)
Rule == [match : SUBSET OpTypes, disconnect : BOOLEAN, mismatch : BOOLEAN]

Profile ==
  [loginMode : {"", "always", "flap", "hang", "disconnect"},
   loginFailCount : Nat,
   disconnectAt : {"", "pre-greeting", "post-greeting"},
   disconnectAfter : Nat,
   malformedFrame : {"", "length_overflow", "invalid_xml", "garbage"},
   faultMismatch : SUBSET OpTypes,
   perOp : Seq(Rule)]

Engine == [logins : Nat, ops : Nat, fired : BOOLEAN]

NewFaultEngine == [logins |-> 0, ops |-> 0, fired |-> FALSE]

(* OnConnect and AfterGreeting: the connection is to be closed at once. *)
DisconnectsAt(p, moment) == p.disconnectAt = moment

(* OnLoginAttempt: the counter moves first, then the mode decides. *)
BugLoginUncounted(e) == e
CountLogin(e) == [e EXCEPT !.logins = @ + 1]

OnLoginAttempt(p, e) ==
  CASE p.loginMode = "always" -> "deny"
    [] p.loginMode = "flap" -> IF e.logins + 1 <= p.loginFailCount THEN "deny" ELSE "allow"
    [] p.loginMode = "hang" -> "hang"
    [] p.loginMode = "disconnect" -> "disconnect"
    [] OTHER -> "allow"

(* OnOperation: the limit first, then the first rule that matches, then the
   global mismatch.                                                        *)
CountOperation(e) == [e EXCEPT !.ops = @ + 1]

BugLimitLate(p, e) == p.disconnectAfter > 0 /\ e.ops > p.disconnectAfter
OverLimit(p, e) == p.disconnectAfter > 0 /\ e.ops + 1 > p.disconnectAfter

Matching(p, op) == {i \in DOMAIN p.perOp : op \in p.perOp[i].match}

FirstRule(p, op) ==
  p.perOp[CHOOSE i \in Matching(p, op) : \A j \in Matching(p, op) : i <= j]

OnOperation(p, e, op) ==
  CASE OverLimit(p, e) -> "disconnect"
    [] ~OverLimit(p, e) /\ Matching(p, op) # {} ->
         LET rule == FirstRule(p, op)
         IN IF rule.disconnect THEN "disconnect"
            ELSE IF rule.mismatch THEN "mismatch" ELSE "allow"
    [] OTHER -> IF op \in p.faultMismatch THEN "mismatch" ELSE "allow"

(* ApplyResponseFault corrupts the first frame it is asked about. *)
BugCorruptsAlways(p, e) == p.malformedFrame # ""
Corrupts(p, e) == ~e.fired /\ p.malformedFrame # ""

MarkFired(p, e) == IF Corrupts(p, e) THEN [e EXCEPT !.fired = TRUE] ELSE e

Overflows(p, e) == Corrupts(p, e) /\ p.malformedFrame = "length_overflow"

(* The response still to be written, when the frame itself is sound. *)
Corrupted(p, e, res) == IF Corrupts(p, e) THEN "garbage" ELSE res
=============================================================================
