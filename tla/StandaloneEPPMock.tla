--------------------------- MODULE StandaloneEPPMock ---------------------------
(***************************************************************************)
(* handleConn of cmd/mock-epp-server: one connection after another with a  *)
(* fault engine of its own.  One action is one round of the loop; nothing  *)
(* is shared between connections but the profile.                          *)
(***************************************************************************)
EXTENDS EPPServer, FaultEngine

CONSTANT Profiles    \* fault profiles the mock is started with

ASSUME MockAssumption ==
  /\ Profiles \subseteq Profile
  /\ OpTypes = {"hello", "check", "info", "poll", "create"}
  /\ {"code", "empty", "garbage"} \subseteq Faults

VARIABLES
  profile,         \* the profile of this process
  engine,          \* the fault engine of each connection
  loginAnswers,    \* how it answered the logins of each connection, in order
  opAnswers        \* how it answered the operations of each connection, in order

mockVars == <<profile, engine, loginAnswers, opAnswers>>
vars == <<serverVars, mockVars>>

MockTypeOK ==
  /\ profile \in Profiles
  /\ engine \in [Conns -> Engine]
  /\ loginAnswers \in [Conns -> Seq(Results)]
  /\ opAnswers \in [Conns -> Seq(Results)]

TypeOK == ServerTypeOK /\ MockTypeOK

Init ==
  /\ ServerInit
  /\ profile \in Profiles
  /\ engine = [c \in Conns |-> NewFaultEngine]
  /\ loginAnswers = [c \in Conns |-> <<>>]
  /\ opAnswers = [c \in Conns |-> <<>>]

(* The operations a frame of a kind may ask for. *)
OpsOf(kind) ==
  CASE kind = "hello" -> {"hello"}
    [] kind = "query" -> {"check", "info", "poll"}
    [] OTHER -> {"create"}

(* The response builders as their reader sees them: only domain:check has
   <resData>, poll is an unknown command, and the mismatch template is a bare
   success but for create.                                                 *)
Response(op, action) ==
  CASE op = "hello" -> IF action = "mismatch" THEN "ok" ELSE "greeting"
    [] op = "check" -> IF action = "mismatch" THEN "empty" ELSE "ok"
    [] op = "info" -> "empty"
    [] op = "poll" -> IF action = "mismatch" THEN "ok" ELSE "code"
    [] OTHER -> "ok"

-----------------------------------------------------------------------------
(* The greeting, unless the profile closes before it. *)
SendGreeting(c) ==
  /\ sess[c] = "accepted" /\ ~DisconnectsAt(profile, "pre-greeting")
  /\ sess' = [sess EXCEPT ![c] = "open"]
  /\ menu' = [menu EXCEPT ![c] = {}]
  /\ WriteAnswer(c, [kind |-> "connect", call |-> NoCall, cl |-> 0,
                     res |-> "greeting", ext |-> {}])
  /\ UNCHANGED <<link, c2s, execs, asked, mockVars>>

(* The next frame of the loop, if the profile lets it come to that. *)
Frame(c, kinds) ==
  /\ Pending(c, kinds) /\ sess[c] # "accepted"
  /\ ~DisconnectsAt(profile, "post-greeting")

CountsLogin(c) == engine' = [engine EXCEPT ![c] = CountLogin(@)]

LoginAction(c) == OnLoginAttempt(profile, engine[c])

(* WriteFrame of the answer to a login. *)
RespondToLogin(c, res) ==
  /\ WriteAnswer(c, Reply(Head(c2s[c]), res))
  /\ loginAnswers' = [loginAnswers EXCEPT ![c] = Append(@, res)]

AllowLogin(c) ==
  /\ Frame(c, {"login"}) /\ LoginAction(c) = "allow"
  /\ RespondToLogin(c, "ok")
  /\ sess' = [sess EXCEPT ![c] = "authed"]
  /\ TakeRequest(c) /\ CountsLogin(c)
  /\ UNCHANGED <<link, peerVars, asked, profile, opAnswers>>

BugDenyAuthenticates(c) ==
  /\ Frame(c, {"login"}) /\ LoginAction(c) = "deny"
  /\ RespondToLogin(c, "code")
  /\ sess' = [sess EXCEPT ![c] = "authed"]
  /\ TakeRequest(c) /\ CountsLogin(c)
  /\ UNCHANGED <<link, peerVars, asked, profile, opAnswers>>

DenyLogin(c) ==
  /\ Frame(c, {"login"}) /\ LoginAction(c) = "deny"
  /\ RespondToLogin(c, "code")
  /\ TakeRequest(c) /\ CountsLogin(c)
  /\ UNCHANGED <<link, sess, peerVars, asked, profile, opAnswers>>

HangLogin(c) ==
  /\ Frame(c, {"login"}) /\ LoginAction(c) = "hang"
  /\ TakeRequest(c) /\ CountsLogin(c)
  /\ UNCHANGED <<link, sess, s2c, peerVars, asked, profile, loginAnswers, opAnswers>>

DisconnectLogin(c) ==
  /\ Frame(c, {"login"}) /\ LoginAction(c) = "disconnect"
  /\ CloseSession(c) /\ CountsLogin(c)
  /\ UNCHANGED <<link, s2c, peerVars, asked, profile, loginAnswers, opAnswers>>

Logout(c) ==
  /\ Frame(c, {"logout"})
  /\ WriteAnswer(c, Reply(Head(c2s[c]), "ok"))
  /\ CloseSession(c)
  /\ UNCHANGED <<link, peerVars, asked, mockVars>>

-----------------------------------------------------------------------------
(* Hello and commands, with or without a login. *)
Operation(c) == Frame(c, {"hello", "query", "transform"})

OpAction(c, op) == OnOperation(profile, engine[c], op)

(* WriteFrame of the answer to an operation. *)
RespondToOp(c, res) ==
  /\ WriteAnswer(c, Reply(Head(c2s[c]), res))
  /\ opAnswers' = [opAnswers EXCEPT ![c] = Append(@, res)]

(* The engine closes the connection instead of answering. *)
DisconnectOp(c) ==
  /\ Operation(c)
  /\ \E op \in OpsOf(Head(c2s[c]).kind) : OpAction(c, op) = "disconnect"
  /\ engine' = [engine EXCEPT ![c] = CountOperation(@)]
  /\ CloseSession(c)
  /\ UNCHANGED <<link, s2c, peerVars, asked, profile, loginAnswers, opAnswers>>

(* length_overflow: more is announced than written, then the connection is
   closed.                                                                 *)
OverflowOp(c) ==
  /\ Operation(c) /\ Overflows(profile, engine[c])
  /\ \E op \in OpsOf(Head(c2s[c]).kind) : OpAction(c, op) # "disconnect"
  /\ engine' = [engine EXCEPT ![c] = MarkFired(profile, CountOperation(@))]
  /\ Perform(Head(c2s[c]), TRUE)
  /\ CloseSession(c)
  /\ UNCHANGED <<link, s2c, menu, asked, profile, loginAnswers, opAnswers>>

(* The response, the true one, a mismatch or a corrupted one. *)
AnswerOp(c) ==
  /\ Operation(c) /\ ~Overflows(profile, engine[c])
  /\ \E op \in OpsOf(Head(c2s[c]).kind) :
       /\ OpAction(c, op) # "disconnect"
       /\ RespondToOp(c, Corrupted(profile, engine[c], Response(op, OpAction(c, op))))
  /\ engine' = [engine EXCEPT ![c] = MarkFired(profile, CountOperation(@))]
  /\ Perform(Head(c2s[c]), TRUE)
  /\ TakeRequest(c)
  /\ UNCHANGED <<link, sess, menu, asked, profile, loginAnswers>>

(* The profile closes at once, or a read or write fails: the deadline of five
   minutes, or the client is gone.                                         *)
Leave(c) == HangUp(c) /\ UNCHANGED <<asked, mockVars>>

MockStep(c) ==
  \/ SendGreeting(c)
  \/ AllowLogin(c) \/ DenyLogin(c) \/ HangLogin(c) \/ DisconnectLogin(c)
  \/ Logout(c)
  \/ DisconnectOp(c) \/ OverflowOp(c) \/ AnswerOp(c)
  \/ Leave(c)

Next == \E c \in Conns : MockStep(c) \/ (ClientStep(c) /\ UNCHANGED mockVars)

Spec == Init /\ [][Next]_vars

-----------------------------------------------------------------------------
(* A connection never sees more answers than disconnect_after, hellos and
   unknown commands counted, whatever rules, corruption and logins come in
   between.                                                                *)
LimitHolds ==
  profile.disconnectAfter > 0 =>
    \A c \in Conns : Len(opAnswers[c]) <= profile.disconnectAfter

(* The first answer to an operation on each connection is the corrupted one,
   and the only one, logins and hangs before it notwithstanding.           *)
CorruptsFirstOnly ==
  \A c \in Conns : \A n \in DOMAIN opAnswers[c] :
    opAnswers[c][n] = "garbage" <=> n = 1 /\ profile.malformedFrame # ""

(* In flap mode the first logins of each connection are denied, as many as
   the profile says, and the later ones are not.                           *)
FlapsPerConnection ==
  profile.loginMode = "flap" =>
    \A c \in Conns : \A n \in DOMAIN loginAnswers[c] :
      loginAnswers[c][n] = "code" <=> n <= profile.loginFailCount

(* A connection that has been accepted is no longer one to dial. *)
DialledOnce == \A c \in Conns : sess[c] # "none" => link[c] # "unused"

(* Every answer has been counted, and in flap mode every login answered. *)
AnswersCounted ==
  \A c \in Conns :
    /\ Len(opAnswers[c]) <= engine[c].ops
    /\ profile.loginMode = "flap" => Len(loginAnswers[c]) = engine[c].logins

(* The corruption has fired exactly when an operation has been answered,
   unless it closed the connection instead of answering.                   *)
FiredOnAnswer ==
  \A c \in Conns :
    /\ opAnswers[c] # <<>> /\ profile.malformedFrame # "" => engine[c].fired
    /\ engine[c].fired /\ opAnswers[c] = <<>> => sess[c] = "closed"

(* The inductive invariant of the engines: what each has counted agrees with
   what its connection was answered.                                       *)
EngineInv ==
  /\ TypeOK
  /\ DialledOnce
  /\ AnswersCounted /\ LimitHolds /\ FlapsPerConnection
  /\ FiredOnAnswer /\ CorruptsFirstOnly

(* Under every fault profile the mock is one of the servers EPPPeer stands
   for, so what holds of EPPSession holds against it.                      *)
ImplementsServer == ServerSpec
=============================================================================
