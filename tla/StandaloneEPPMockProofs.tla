------------------------ MODULE StandaloneEPPMockProofs ------------------------
(***************************************************************************)
(* Theorems about EPPServer and StandaloneEPPMock, for any profiles,       *)
(* clients and connections and any number of calls.                        *)
(***************************************************************************)
EXTENDS StandaloneEPPMock, EPPPeerProofs, SequenceTheorems, TLAPS

-----------------------------------------------------------------------------
(* The abstract server. *)
LEMMA ServerInitTypeOK == ServerInit => ServerTypeOK
  BY DEF ServerInit, WireInit, PeerInit, ServerTypeOK, WireTypeOK, PeerTypeOK

LEMMA ClientStepTypeOK ==
  ASSUME ServerTypeOK, NEW c \in Conns, ClientStep(c)
  PROVE  ServerTypeOK'
  <1> USE DEF ServerTypeOK
  <1>1. CASE ClientDial(c)
    BY <1>1, ConnectTypeOK DEF ClientDial, peerVars, PeerTypeOK
  <1>2. CASE ClientSend(c)
    <2>1. PICK k \in Calls \ asked, kind \in RequestKinds :
            /\ WriteRequest(c, [kind |-> kind, call |-> k, cl |-> 0, ext |-> {}])
            /\ asked' = asked \cup {k}
      BY <1>2 DEF ClientSend
    <2>2. [kind |-> kind, call |-> k, cl |-> 0, ext |-> {}] \in Request
      BY DEF Request
    <2>3. c2s' \in [Conns -> Seq(Request)]
      BY <2>1, <2>2, WriteRequestTypeOK
    <2>4. QED
      BY <1>2, <2>1, <2>3 DEF ClientSend, WireTypeOK, PeerTypeOK, peerVars
  <1>3. CASE ClientRead(c)
    BY <1>3, ReadAnswerTypeOK DEF ClientRead, PeerTypeOK, peerVars
  <1>4. CASE ClientShut(c)
    BY <1>4, ShutLinksTypeOK DEF ClientShut, PeerTypeOK, peerVars
  <1>5. CASE Reset(c)
    BY <1>5, BreakLinkTypeOK DEF Reset, PeerTypeOK, peerVars
  <1>6. QED
    BY <1>1, <1>2, <1>3, <1>4, <1>5 DEF ClientStep

LEMMA ServerStepTypeOK ==
  ASSUME ServerTypeOK, [ServerNext]_serverVars
  PROVE  ServerTypeOK'
  <1>1. ASSUME NEW c \in Conns, ClientStep(c) PROVE ServerTypeOK'
    BY <1>1, ClientStepTypeOK
  <1>2. ASSUME NEW c \in Conns, PeerStep(c), UNCHANGED asked PROVE ServerTypeOK'
    BY <1>2, PeerStepTypeOK DEF ServerTypeOK
  <1>3. CASE UNCHANGED serverVars
    BY <1>3 DEF serverVars, wireVars, peerVars, ServerTypeOK, WireTypeOK, PeerTypeOK
  <1>4. QED
    BY <1>1, <1>2, <1>3 DEF ServerNext

-----------------------------------------------------------------------------
(* Every round of the mock's loop is a step of the abstract server. *)
LEMMA ResponseResults ==
  ASSUME NEW kind \in {"hello", "query", "transform"}, NEW op \in OpsOf(kind), NEW action
  PROVE  /\ kind = "hello" => Response(op, action) \in {"greeting", "ok"}
         /\ kind = "query" => Response(op, action) \in {"ok", "empty", "code"}
         /\ kind = "transform" => Response(op, action) = "ok"
  BY DEF OpsOf, Response

LEMMA LoginRefines ==
  ASSUME NEW c \in Conns,
         AllowLogin(c) \/ DenyLogin(c) \/ HangLogin(c) \/ DisconnectLogin(c)
  PROVE  PeerStep(c)
  <1> USE MockAssumption DEF Frame, PeerStep
  <1>1. CASE AllowLogin(c)
    BY <1>1 DEF AllowLogin, RespondToLogin, AnswerLogin, peerVars
  <1>2. CASE DenyLogin(c)
    BY <1>2 DEF DenyLogin, RespondToLogin, AnswerLogin, peerVars
  <1>3. CASE HangLogin(c)
    BY <1>3 DEF HangLogin, IgnoreLogin, peerVars
  <1>4. CASE DisconnectLogin(c)
    BY <1>4 DEF DisconnectLogin, HangUp, Pending, peerVars
  <1>5. QED
    BY <1>1, <1>2, <1>3, <1>4

LEMMA CloseRefines ==
  ASSUME NEW c \in Conns, DisconnectOp(c) \/ OverflowOp(c)
  PROVE  PeerStep(c)
  <1> DEFINE r == Head(c2s[c])
  <1>1. /\ Pending(c, {"hello"}) \/ Pending(c, {"query", "transform"})
        /\ CloseSession(c) /\ UNCHANGED <<link, s2c, menu>>
        /\ (\E done \in BOOLEAN : Perform(r, done))
    BY DEF DisconnectOp, OverflowOp, Operation, Frame, Pending, Perform, peerVars
  <1>2. CASE Pending(c, {"query", "transform"})
    BY <1>1, <1>2 DEF DropCommand, PeerStep
  <1>3. CASE Pending(c, {"hello"})
    BY <1>1, <1>3 DEF Pending, Perform, HangUp, PeerStep
  <1>4. QED
    BY <1>1, <1>2, <1>3

LEMMA AnswerRefines ==
  ASSUME NEW c \in Conns, AnswerOp(c)
  PROVE  PeerStep(c)
  <1> DEFINE r == Head(c2s[c])
  <1>1. PICK op \in OpsOf(r.kind) :
          RespondToOp(c, Corrupted(profile, engine[c], Response(op, OpAction(c, op))))
    BY DEF AnswerOp
  <1> DEFINE res == Corrupted(profile, engine[c], Response(op, OpAction(c, op)))
  <1>2. /\ WriteAnswer(c, Reply(r, res)) /\ Perform(r, TRUE) /\ TakeRequest(c)
        /\ UNCHANGED <<link, sess, menu>>
    BY <1>1 DEF RespondToOp, AnswerOp
  <1>3. r.kind \in {"hello", "query", "transform"}
    BY DEF AnswerOp, Operation, Frame, Pending
  <1>4. res = "garbage" \/ res = Response(op, OpAction(c, op))
    BY DEF Corrupted
  <1>5. CASE r.kind = "hello"
    <2>1. res \in {"greeting", "ok"} \cup Faults
      BY <1>3, <1>4, <1>5, ResponseResults, MockAssumption
    <2>2. Pending(c, {"hello"}) /\ UNCHANGED execs
      BY <1>2, <1>5 DEF AnswerOp, Operation, Frame, Pending, Perform
    <2>3. QED
      BY <1>2, <2>1, <2>2 DEF AnswerHello, PeerStep
  <1>6. CASE r.kind # "hello"
    <2>1. Pending(c, {"query", "transform"})
      BY <1>6 DEF AnswerOp, Operation, Frame, Pending
    <2>2. res \in {"ok"} \cup Faults /\ (res = "code" => r.kind = "query")
      BY <1>3, <1>4, <1>6, ResponseResults, MockAssumption
    <2>3. Perform(r, res # "code")
      BY <1>2, <2>2 DEF Perform
    <2>4. QED
      BY <1>2, <2>1, <2>2, <2>3 DEF AnswerCommand, PeerStep
  <1>7. QED
    BY <1>5, <1>6

LEMMA StepRefines == [Next]_vars => [ServerNext]_serverVars
  <1> SUFFICES ASSUME [Next]_vars PROVE [ServerNext]_serverVars
    OBVIOUS
  <1>1. ASSUME NEW c \in Conns, MockStep(c)
        PROVE  PeerStep(c) /\ UNCHANGED asked
    <2>1. CASE SendGreeting(c)
      BY <2>1 DEF SendGreeting, Greet, PeerStep
    <2>2. CASE AllowLogin(c) \/ DenyLogin(c) \/ HangLogin(c) \/ DisconnectLogin(c)
      BY <2>2, LoginRefines DEF AllowLogin, DenyLogin, HangLogin, DisconnectLogin
    <2>3. CASE Logout(c)
      BY <2>3 DEF Logout, Frame, AnswerLogout, PeerStep, peerVars
    <2>4. CASE DisconnectOp(c) \/ OverflowOp(c)
      BY <2>4, CloseRefines DEF DisconnectOp, OverflowOp
    <2>5. CASE AnswerOp(c)
      BY <2>5, AnswerRefines DEF AnswerOp
    <2>6. CASE Leave(c)
      BY <2>6 DEF Leave, PeerStep
    <2>7. QED
      BY <1>1, <2>1, <2>2, <2>3, <2>4, <2>5, <2>6 DEF MockStep
  <1>2. CASE Next
    BY <1>1, <1>2 DEF Next, ServerNext
  <1>3. CASE UNCHANGED vars
    BY <1>3 DEF vars
  <1>4. QED
    BY <1>2, <1>3

(* Under every fault profile the mock is one of the servers EPPPeer stands
   for: handleConn of cmd/mock-epp-server shows its clients nothing that
   EPPSession does not already meet.                                       *)
THEOREM MockImplementsServer == Spec => ImplementsServer
  <1>1. Init => ServerInit
    BY DEF Init
  <1>2. QED
    BY <1>1, StepRefines, PTL DEF Spec, ServerSpec, ImplementsServer

-----------------------------------------------------------------------------
(* The engines. *)
LEMMA InitEngineInv == Init => EngineInv
  <1> SUFFICES ASSUME Init PROVE EngineInv
    OBVIOUS
  <1>1. ServerTypeOK
    BY ServerInitTypeOK DEF Init
  <1>2. MockTypeOK
    BY DEF Init, MockTypeOK, NewFaultEngine, Engine
  <1>3. /\ \A c \in Conns : opAnswers[c] = <<>> /\ loginAnswers[c] = <<>>
        /\ \A c \in Conns : engine[c] = NewFaultEngine /\ sess[c] = "none"
    BY DEF Init, ServerInit, WireInit
  <1>4. profile.disconnectAfter \in Nat
    BY MockAssumption DEF Init, Profile
  <1>5. DialledOnce /\ AnswersCounted /\ LimitHolds
    BY <1>3, <1>4 DEF DialledOnce, AnswersCounted, LimitHolds, NewFaultEngine
  <1>6. FlapsPerConnection /\ CorruptsFirstOnly
    <2>1. \A c \in Conns : DOMAIN opAnswers[c] = {} /\ DOMAIN loginAnswers[c] = {}
      BY <1>3
    <2>2. QED
      BY <2>1 DEF FlapsPerConnection, CorruptsFirstOnly
  <1>7. FiredOnAnswer
    <2>1. \A c \in Conns : engine[c].fired = FALSE
      BY <1>3 DEF NewFaultEngine
    <2>2. QED
      BY <1>3, <2>1 DEF FiredOnAnswer
  <1>8. QED
    BY <1>1, <1>2, <1>5, <1>6, <1>7 DEF EngineInv, TypeOK

(* What Append adds to a log. *)
LEMMA AppendTo ==
  ASSUME NEW S, NEW q \in Seq(S), NEW x \in S
  PROVE  /\ Append(q, x) \in Seq(S)
         /\ Append(q, x) # <<>>
         /\ Len(Append(q, x)) = Len(q) + 1
         /\ DOMAIN Append(q, x) = 1 .. (Len(q) + 1)
         /\ \A n \in DOMAIN q : n \in 1 .. Len(q) /\ Append(q, x)[n] = q[n]
         /\ \A n \in 1 .. (Len(q) + 1) : n # Len(q) + 1 => n \in DOMAIN q
         /\ Append(q, x)[Len(q) + 1] = x
  OBVIOUS

(* Only Connect lets a connection leave "none", and nothing undoes a dial. *)
LEMMA StepDialledOnce ==
  ASSUME ServerTypeOK, DialledOnce, [ServerNext]_serverVars
  PROVE  DialledOnce'
  <1> USE DEF DialledOnce, ServerTypeOK, WireTypeOK
  <1>1. ASSUME NEW c \in Conns, ClientStep(c) PROVE DialledOnce'
    BY <1>1 DEF ClientStep, ClientDial, ClientSend, ClientRead, ClientShut, Reset,
                Connect, ReadAnswer, ShutLinks, BreakLink, peerVars
  <1>2. ASSUME NEW c \in Conns, PeerStep(c) PROVE DialledOnce'
    <2>1. UNCHANGED link /\ (\A d \in Conns : sess[d] = "none" => sess'[d] = "none")
      BY <1>2 DEF PeerStep, Greet, AnswerLogin, IgnoreLogin, AnswerLogout, ScriptLogout,
                  AnswerHello, AnswerCommand, DropCommand, HangUp, CloseSession, Pending, Serving
    <2>2. QED
      BY <2>1
  <1>3. CASE UNCHANGED serverVars
    BY <1>3 DEF serverVars, wireVars
  <1>4. QED
    BY <1>1, <1>2, <1>3 DEF ServerNext

LEMMA StepKeepsClosed ==
  ASSUME ServerTypeOK, DialledOnce, [ServerNext]_serverVars,
         NEW d \in Conns, sess[d] = "closed"
  PROVE  sess'[d] = "closed"
  <1> USE DEF DialledOnce, ServerTypeOK, WireTypeOK
  <1>1. ASSUME NEW c \in Conns, ClientStep(c) PROVE sess'[d] = "closed"
    BY <1>1 DEF ClientStep, ClientDial, ClientSend, ClientRead, ClientShut, Reset,
                Connect, BreakLink, peerVars
  <1>2. ASSUME NEW c \in Conns, PeerStep(c) PROVE sess'[d] = "closed"
    BY <1>2 DEF PeerStep, Greet, AnswerLogin, IgnoreLogin, AnswerLogout, ScriptLogout,
                AnswerHello, AnswerCommand, DropCommand, HangUp, CloseSession, Pending, Serving
  <1>3. CASE UNCHANGED serverVars
    BY <1>3 DEF serverVars, wireVars
  <1>4. QED
    BY <1>1, <1>2, <1>3 DEF ServerNext

(* What OnOperation and ApplyResponseFault leave in the engine. *)
LEMMA CountedEngine ==
  ASSUME NEW e \in Engine, NEW p
  PROVE  /\ MarkFired(p, CountOperation(e)) \in Engine
         /\ MarkFired(p, CountOperation(e)).logins = e.logins
         /\ MarkFired(p, CountOperation(e)).ops = e.ops + 1
         /\ MarkFired(p, CountOperation(e)).fired <=> e.fired \/ Corrupts(p, e)
         /\ CountOperation(e) \in Engine
         /\ CountOperation(e).logins = e.logins
         /\ CountOperation(e).ops = e.ops + 1
         /\ CountOperation(e).fired = e.fired
  <1>1. CountOperation(e) = [logins |-> e.logins, ops |-> e.ops + 1, fired |-> e.fired]
    BY DEF CountOperation, Engine
  <1>2. CountOperation(e) \in Engine
    BY <1>1 DEF Engine
  <1>3. Corrupts(p, CountOperation(e)) <=> Corrupts(p, e)
    BY <1>1 DEF Corrupts
  <1>4. CASE Corrupts(p, e)
    <2>1. MarkFired(p, CountOperation(e)) = [CountOperation(e) EXCEPT !.fired = TRUE]
      BY <1>3, <1>4 DEF MarkFired
    <2>2. ASSUME NEW f \in Engine
          PROVE  /\ [f EXCEPT !.fired = TRUE] \in Engine
                 /\ [f EXCEPT !.fired = TRUE].logins = f.logins
                 /\ [f EXCEPT !.fired = TRUE].ops = f.ops
                 /\ [f EXCEPT !.fired = TRUE].fired
      BY DEF Engine
    <2>3. QED
      BY <1>1, <1>2, <1>4, <2>1, <2>2
  <1>5. CASE ~Corrupts(p, e)
    <2>1. MarkFired(p, CountOperation(e)) = CountOperation(e)
      BY <1>3, <1>5 DEF MarkFired
    <2>2. QED
      BY <1>1, <1>2, <1>5, <2>1
  <1>6. QED
    BY <1>4, <1>5

(* A login that is answered. *)
LEMMA LoginAnsweredInv ==
  ASSUME EngineInv, NEW c \in Conns, AllowLogin(c) \/ DenyLogin(c)
  PROVE  /\ MockTypeOK'
         /\ AnswersCounted' /\ LimitHolds' /\ FlapsPerConnection' /\ CorruptsFirstOnly'
         /\ \A d \in Conns : engine'[d].fired = engine[d].fired
  <1>1. PICK res \in {"ok", "code"} :
          /\ loginAnswers' = [loginAnswers EXCEPT ![c] = Append(@, res)]
          /\ engine' = [engine EXCEPT ![c] = CountLogin(@)]
          /\ LoginAction(c) = IF res = "ok" THEN "allow" ELSE "deny"
          /\ UNCHANGED <<profile, opAnswers>>
    BY DEF AllowLogin, DenyLogin, RespondToLogin, CountsLogin
  <1>2. /\ engine \in [Conns -> Engine] /\ loginAnswers \in [Conns -> Seq(Results)]
        /\ profile \in Profiles /\ profile.loginFailCount \in Nat
        /\ opAnswers \in [Conns -> Seq(Results)]
    BY MockAssumption DEF EngineInv, TypeOK, MockTypeOK, Profile
  <1>3. /\ engine'[c] = [logins |-> engine[c].logins + 1, ops |-> engine[c].ops,
                         fired |-> engine[c].fired]
        /\ \A d \in Conns \ {c} : engine'[d] = engine[d]
    BY <1>1, <1>2 DEF CountLogin, Engine
  <1>4. /\ loginAnswers'[c] = Append(loginAnswers[c], res)
        /\ \A d \in Conns \ {c} : loginAnswers'[d] = loginAnswers[d]
    BY <1>1, <1>2
  <1>5. res \in Results
    BY DEF Results
  <1>6. MockTypeOK'
    <2>1. engine'[c] \in Engine
      BY <1>2, <1>3 DEF Engine
    <2>2. engine' \in [Conns -> Engine] /\ loginAnswers' \in [Conns -> Seq(Results)]
      BY <1>1, <1>2, <1>5, <2>1, AppendTo
    <2>3. QED
      BY <1>1, <1>2, <2>2 DEF MockTypeOK
  <1>7. AnswersCounted'
    BY <1>1, <1>2, <1>3, <1>4, <1>5, AppendTo DEF EngineInv, AnswersCounted, Engine
  <1>8. LimitHolds' /\ CorruptsFirstOnly'
    BY <1>1 DEF EngineInv, LimitHolds, CorruptsFirstOnly
  <1>9. FlapsPerConnection'
    <2> SUFFICES ASSUME profile.loginMode = "flap", NEW n \in DOMAIN loginAnswers'[c]
                 PROVE  loginAnswers'[c][n] = "code" <=> n <= profile.loginFailCount
      BY <1>1, <1>4 DEF EngineInv, FlapsPerConnection
    <2>1. CASE n = Len(loginAnswers[c]) + 1
      <3>1. n = engine[c].logins + 1
        BY <2>1 DEF EngineInv, AnswersCounted
      <3>2. res = "code" <=> n <= profile.loginFailCount
        BY <1>1, <3>1 DEF LoginAction, OnLoginAttempt
      <3>3. QED
        BY <1>2, <1>4, <1>5, <2>1, <3>2, AppendTo
    <2>2. CASE n # Len(loginAnswers[c]) + 1
      <3>1. n \in DOMAIN loginAnswers[c] /\ loginAnswers'[c][n] = loginAnswers[c][n]
        BY <1>2, <1>4, <1>5, <2>2, AppendTo
      <3>2. QED
        BY <3>1 DEF EngineInv, FlapsPerConnection
    <2>3. QED
      BY <2>1, <2>2
  <1>10. \A d \in Conns : engine'[d].fired = engine[d].fired
    BY <1>3
  <1>11. QED
    BY <1>6, <1>7, <1>8, <1>9, <1>10

(* What a step without an answer keeps. *)
LEMMA NothingAnswered ==
  ASSUME EngineInv, UNCHANGED <<profile, loginAnswers, opAnswers>>
  PROVE  LimitHolds' /\ CorruptsFirstOnly' /\ FlapsPerConnection'
  <1>1. LimitHolds'
    BY DEF EngineInv, LimitHolds
  <1>2. CorruptsFirstOnly'
    BY DEF EngineInv, CorruptsFirstOnly
  <1>3. FlapsPerConnection'
    BY DEF EngineInv, FlapsPerConnection
  <1>4. QED
    BY <1>1, <1>2, <1>3

(* A login that is swallowed or closes the connection. *)
LEMMA LoginUnansweredInv ==
  ASSUME EngineInv, NEW c \in Conns, HangLogin(c) \/ DisconnectLogin(c)
  PROVE  /\ MockTypeOK'
         /\ AnswersCounted' /\ LimitHolds' /\ FlapsPerConnection' /\ CorruptsFirstOnly'
         /\ \A d \in Conns : engine'[d].fired = engine[d].fired
  <1>1. /\ engine' = [engine EXCEPT ![c] = CountLogin(@)]
        /\ LoginAction(c) \in {"hang", "disconnect"}
        /\ UNCHANGED <<profile, loginAnswers, opAnswers>>
    BY DEF HangLogin, DisconnectLogin, CountsLogin
  <1>2. engine \in [Conns -> Engine]
    BY DEF EngineInv, TypeOK, MockTypeOK
  <1>3. /\ engine'[c] = [logins |-> engine[c].logins + 1, ops |-> engine[c].ops,
                         fired |-> engine[c].fired]
        /\ \A d \in Conns \ {c} : engine'[d] = engine[d]
    BY <1>1, <1>2 DEF CountLogin, Engine
  <1>4. profile.loginMode # "flap"
    BY <1>1 DEF LoginAction, OnLoginAttempt
  <1>5. MockTypeOK'
    <2>1. engine'[c] \in Engine
      BY <1>2, <1>3 DEF Engine
    <2>2. engine' \in [Conns -> Engine]
      BY <1>1, <1>2, <2>1
    <2>3. QED
      BY <1>1, <2>2 DEF EngineInv, TypeOK, MockTypeOK
  <1>6. AnswersCounted'
    <2>1. profile' = profile /\ opAnswers' = opAnswers
      BY <1>1
    <2>2. \A d \in Conns : engine'[d].ops = engine[d].ops
      BY <1>3
    <2>3. QED
      BY <1>4, <2>1, <2>2 DEF EngineInv, AnswersCounted
  <1>7. LimitHolds' /\ CorruptsFirstOnly' /\ FlapsPerConnection'
    BY <1>1, NothingAnswered
  <1>8. \A d \in Conns : engine'[d].fired = engine[d].fired
    BY <1>3
  <1>9. QED
    BY <1>5, <1>6, <1>7, <1>8

(* An operation that closes the connection. *)
LEMMA OperationClosedInv ==
  ASSUME EngineInv, NEW c \in Conns, DisconnectOp(c) \/ OverflowOp(c)
  PROVE  /\ MockTypeOK'
         /\ AnswersCounted' /\ LimitHolds' /\ FlapsPerConnection' /\ CorruptsFirstOnly'
         /\ FiredOnAnswer'
  <1>1. engine' = [engine EXCEPT ![c] = CountOperation(@)]
        \/ engine' = [engine EXCEPT ![c] = MarkFired(profile, CountOperation(@))]
    BY DEF DisconnectOp, OverflowOp
  <1>2. sess' = [sess EXCEPT ![c] = "closed"] /\ UNCHANGED <<profile, loginAnswers, opAnswers>>
    BY DEF DisconnectOp, OverflowOp, CloseSession
  <1>3. /\ engine \in [Conns -> Engine] /\ loginAnswers \in [Conns -> Seq(Results)]
        /\ opAnswers \in [Conns -> Seq(Results)] /\ DOMAIN sess = Conns
    BY DEF EngineInv, TypeOK, MockTypeOK, ServerTypeOK, WireTypeOK
  <1>4. /\ engine'[c] \in Engine
        /\ engine'[c].logins = engine[c].logins /\ engine'[c].ops = engine[c].ops + 1
        /\ engine[c].fired => engine'[c].fired
        /\ sess'[c] = "closed"
        /\ \A d \in Conns \ {c} : engine'[d] = engine[d] /\ sess'[d] = sess[d]
    <2>1. engine[c] \in Engine
      BY <1>3
    <2>2. CASE engine' = [engine EXCEPT ![c] = CountOperation(@)]
      BY <1>2, <1>3, <2>1, <2>2, CountedEngine
    <2>3. CASE engine' = [engine EXCEPT ![c] = MarkFired(profile, CountOperation(@))]
      BY <1>2, <1>3, <2>1, <2>3, CountedEngine
    <2>4. QED
      BY <1>1, <2>2, <2>3
  <1>5. MockTypeOK'
    <2>1. engine' \in [Conns -> Engine]
      BY <1>1, <1>3, <1>4
    <2>2. QED
      BY <1>2, <2>1 DEF EngineInv, TypeOK, MockTypeOK
  <1>6. AnswersCounted'
    <2>1. engine[c].ops \in Nat /\ Len(opAnswers[c]) \in Nat
      BY <1>3 DEF Engine
    <2>2. Len(opAnswers'[c]) <= engine'[c].ops
      BY <1>2, <1>4, <2>1 DEF EngineInv, AnswersCounted
    <2>3. QED
      BY <1>2, <1>4, <2>2 DEF EngineInv, AnswersCounted
  <1>7. LimitHolds' /\ CorruptsFirstOnly' /\ FlapsPerConnection'
    BY <1>2, NothingAnswered
  <1>8. FiredOnAnswer'
    BY <1>2, <1>4 DEF EngineInv, FiredOnAnswer
  <1>9. QED
    BY <1>5, <1>6, <1>7, <1>8

(* An operation that is answered: it was within the limit, and it is
   corrupted when nothing has been answered before.                        *)
LEMMA OperationAnsweredInv ==
  ASSUME EngineInv, NEW c \in Conns, AnswerOp(c)
  PROVE  /\ MockTypeOK'
         /\ AnswersCounted' /\ LimitHolds' /\ FlapsPerConnection' /\ CorruptsFirstOnly'
         /\ FiredOnAnswer'
  <1> DEFINE kind == Head(c2s[c]).kind
             corrupts == Corrupts(profile, engine[c])
  <1>1. kind \in {"hello", "query", "transform"} /\ Serving(c)
    BY DEF AnswerOp, Operation, Frame, Pending
  <1>2. PICK op \in OpsOf(kind) :
          /\ OpAction(c, op) # "disconnect"
          /\ RespondToOp(c, Corrupted(profile, engine[c], Response(op, OpAction(c, op))))
    BY DEF AnswerOp
  <1> DEFINE res == Corrupted(profile, engine[c], Response(op, OpAction(c, op)))
  <1>3. res \in Results /\ (res = "garbage" <=> corrupts)
    <2>1. Response(op, OpAction(c, op)) \in {"greeting", "ok", "empty", "code"}
      BY <1>1, ResponseResults
    <2>2. QED
      BY <2>1 DEF Corrupted, Results
  <1>4. /\ engine \in [Conns -> Engine] /\ loginAnswers \in [Conns -> Seq(Results)]
        /\ opAnswers \in [Conns -> Seq(Results)]
        /\ profile \in Profiles /\ profile.disconnectAfter \in Nat
    BY MockAssumption DEF EngineInv, TypeOK, MockTypeOK, Profile
  <1>5. /\ opAnswers' = [opAnswers EXCEPT ![c] = Append(@, res)]
        /\ UNCHANGED <<profile, loginAnswers, sess>>
    BY <1>2 DEF RespondToOp, AnswerOp
  <1>6. /\ opAnswers'[c] = Append(opAnswers[c], res)
        /\ \A d \in Conns \ {c} : opAnswers'[d] = opAnswers[d]
    BY <1>4, <1>5
  <1>7. engine' = [engine EXCEPT ![c] = MarkFired(profile, CountOperation(@))]
    BY DEF AnswerOp
  <1>8. /\ engine'[c] \in Engine
        /\ engine'[c].logins = engine[c].logins /\ engine'[c].ops = engine[c].ops + 1
        /\ engine'[c].fired <=> engine[c].fired \/ corrupts
        /\ \A d \in Conns \ {c} : engine'[d] = engine[d]
    BY <1>4, <1>7, CountedEngine
  <1>9. MockTypeOK'
    <2>1. engine' \in [Conns -> Engine]
      BY <1>4, <1>7, <1>8
    <2>2. opAnswers' \in [Conns -> Seq(Results)]
      BY <1>3, <1>4, <1>5, AppendTo
    <2>3. QED
      BY <1>5, <2>1, <2>2 DEF EngineInv, TypeOK, MockTypeOK
  <1>10. AnswersCounted'
    <2>1. /\ Len(opAnswers'[c]) = Len(opAnswers[c]) + 1 /\ Len(opAnswers[c]) \in Nat
          /\ engine[c].ops \in Nat
      BY <1>3, <1>4, <1>6, AppendTo DEF Engine
    <2>2. Len(opAnswers'[c]) <= engine'[c].ops
      BY <1>8, <2>1 DEF EngineInv, AnswersCounted
    <2>3. QED
      BY <1>5, <1>6, <1>8, <2>2 DEF EngineInv, AnswersCounted
  <1>11. LimitHolds'
    <2>1. profile.disconnectAfter > 0 => engine[c].ops + 1 <= profile.disconnectAfter
      BY <1>2, <1>4 DEF OpAction, OnOperation, OverLimit, Engine
    <2>2. Len(opAnswers'[c]) = Len(opAnswers[c]) + 1 /\ Len(opAnswers[c]) <= engine[c].ops
      BY <1>3, <1>4, <1>6, AppendTo DEF EngineInv, AnswersCounted
    <2>3. QED
      BY <1>4, <1>5, <1>6, <2>1, <2>2 DEF EngineInv, LimitHolds, Engine
  <1>12. FlapsPerConnection'
    BY <1>5 DEF EngineInv, FlapsPerConnection
  <1>13. FiredOnAnswer'
    <2>1. opAnswers'[c] # <<>>
      <3>1. Len(opAnswers'[c]) = Len(opAnswers[c]) + 1 /\ Len(opAnswers[c]) \in Nat
        BY <1>3, <1>4, <1>6, AppendTo
      <3>2. QED
        BY <3>1
    <2>2. profile.malformedFrame # "" => engine'[c].fired
      BY <1>8 DEF Corrupts
    <2>3. QED
      BY <1>5, <1>6, <1>8, <2>1, <2>2 DEF EngineInv, FiredOnAnswer
  <1>14. CorruptsFirstOnly'
    <2>1. corrupts <=> opAnswers[c] = <<>> /\ profile.malformedFrame # ""
      BY <1>1 DEF EngineInv, FiredOnAnswer, Corrupts, Serving
    <2>2. ASSUME NEW n \in DOMAIN opAnswers'[c]
          PROVE  opAnswers'[c][n] = "garbage" <=> n = 1 /\ profile.malformedFrame # ""
      <3>1. CASE n = Len(opAnswers[c]) + 1
        <4>1. opAnswers'[c][n] = res
          BY <1>3, <1>4, <1>6, <3>1, AppendTo
        <4>2. n = 1 <=> opAnswers[c] = <<>>
          BY <1>4, <3>1
        <4>3. QED
          BY <1>3, <2>1, <4>1, <4>2
      <3>2. CASE n # Len(opAnswers[c]) + 1
        <4>1. n \in DOMAIN opAnswers[c] /\ opAnswers'[c][n] = opAnswers[c][n]
          BY <1>3, <1>4, <1>6, <2>2, <3>2, AppendTo
        <4>2. QED
          BY <4>1 DEF EngineInv, CorruptsFirstOnly
      <3>3. QED
        BY <3>1, <3>2
    <2>3. ASSUME NEW d \in Conns \ {c}, NEW n \in DOMAIN opAnswers'[d]
          PROVE  opAnswers'[d][n] = "garbage" <=> n = 1 /\ profile.malformedFrame # ""
      <3>1. opAnswers'[d] = opAnswers[d] /\ d \in Conns
        BY <1>6
      <3>2. n \in DOMAIN opAnswers[d]
        BY <2>3, <3>1
      <3>3. opAnswers[d][n] = "garbage" <=> n = 1 /\ profile.malformedFrame # ""
        BY <3>1, <3>2 DEF EngineInv, CorruptsFirstOnly
      <3>4. QED
        BY <3>1, <3>3
    <2>4. profile' = profile
      BY <1>5
    <2>5. QED
      BY <2>2, <2>3, <2>4 DEF CorruptsFirstOnly
  <1>15. QED
    BY <1>9, <1>10, <1>11, <1>12, <1>13, <1>14

(* Every step keeps the invariant. *)
LEMMA StepEngineInv == EngineInv /\ [Next]_vars => EngineInv'
  <1> SUFFICES ASSUME EngineInv, [Next]_vars PROVE EngineInv'
    OBVIOUS
  <1>1. ServerTypeOK' /\ DialledOnce'
    BY StepRefines, ServerStepTypeOK, StepDialledOnce DEF EngineInv, TypeOK
  <1>2. \A d \in Conns : sess[d] = "closed" => sess'[d] = "closed"
    BY StepRefines, StepKeepsClosed DEF EngineInv, TypeOK
  <1>3. ASSUME MockTypeOK', AnswersCounted', LimitHolds', FlapsPerConnection',
               CorruptsFirstOnly', FiredOnAnswer'
        PROVE  EngineInv'
    BY <1>1, <1>3 DEF EngineInv, TypeOK
  <1>4. CASE UNCHANGED mockVars
    <2> USE <1>4 DEF mockVars
    <2>1. MockTypeOK' /\ AnswersCounted'
      BY DEF EngineInv, TypeOK, MockTypeOK, AnswersCounted
    <2>2. LimitHolds' /\ FlapsPerConnection' /\ CorruptsFirstOnly'
      BY NothingAnswered
    <2>3. FiredOnAnswer'
      BY <1>2 DEF EngineInv, FiredOnAnswer
    <2>4. QED
      BY <1>3, <2>1, <2>2, <2>3
  <1>5. ASSUME NEW c \in Conns, AllowLogin(c) \/ DenyLogin(c) \/ HangLogin(c) \/ DisconnectLogin(c)
        PROVE  EngineInv'
    <2>1. /\ MockTypeOK' /\ AnswersCounted' /\ LimitHolds'
          /\ FlapsPerConnection' /\ CorruptsFirstOnly'
          /\ \A d \in Conns : engine'[d].fired = engine[d].fired
      BY <1>5, LoginAnsweredInv, LoginUnansweredInv
    <2>2. opAnswers' = opAnswers /\ profile' = profile
      BY <1>5 DEF AllowLogin, DenyLogin, HangLogin, DisconnectLogin
    <2>3. FiredOnAnswer'
      BY <1>2, <2>1, <2>2 DEF EngineInv, FiredOnAnswer
    <2>4. QED
      BY <1>3, <2>1, <2>3
  <1>6. ASSUME NEW c \in Conns, DisconnectOp(c) \/ OverflowOp(c) \/ AnswerOp(c)
        PROVE  EngineInv'
    BY <1>3, <1>6, OperationClosedInv, OperationAnsweredInv
  <1>7. ASSUME NEW c \in Conns, SendGreeting(c) \/ Logout(c) \/ Leave(c)
        PROVE  EngineInv'
    BY <1>4, <1>7 DEF SendGreeting, Logout, Leave
  <1>8. QED
    BY <1>4, <1>5, <1>6, <1>7 DEF Next, MockStep, vars

(* What each engine has counted agrees with what its connection was answered,
   whatever the profile (OnLoginAttempt, OnOperation, ApplyResponseFault and
   the loop of handleConn).                                                *)
THEOREM EngineInvariant == Spec => []EngineInv
  <1>1. QED
    BY InitEngineInv, StepEngineInv, PTL DEF Spec

(* disconnect_after: no connection sees more answers than that. *)
THEOREM LimitAlwaysHolds == Spec => []LimitHolds
  <1>1. EngineInv => LimitHolds
    BY DEF EngineInv
  <1>2. QED
    BY <1>1, EngineInvariant, PTL

(* malformed_frame: the first answer of a connection and no other. *)
THEOREM OnlyFirstCorrupted == Spec => []CorruptsFirstOnly
  <1>1. EngineInv => CorruptsFirstOnly
    BY DEF EngineInv
  <1>2. QED
    BY <1>1, EngineInvariant, PTL

(* login_mode flap: as many denials as login_fail_count on each connection. *)
THEOREM FlapCountsPerConnection == Spec => []FlapsPerConnection
  <1>1. EngineInv => FlapsPerConnection
    BY DEF EngineInv
  <1>2. QED
    BY <1>1, EngineInvariant, PTL
================================================================================
