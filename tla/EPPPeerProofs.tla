----------------------------- MODULE EPPPeerProofs -----------------------------
(***************************************************************************)
(* Every operation on a connection and every step of the server keeps the  *)
(* connections and the server typed.  Used by the proofs about EPPSession  *)
(* and about StandaloneEPPMock.                                            *)
(***************************************************************************)
EXTENDS EPPPeer, SequenceTheorems, TLAPS

(* What the operations on a connection preserve. *)
LEMMA ShutLinksTypeOK ==
  ASSUME WireTypeOK, NEW C, ShutLinks(C), UNCHANGED <<sess, c2s>>
  PROVE  WireTypeOK'
  BY DEF ShutLinks, WireTypeOK

LEMMA ReadAnswerTypeOK ==
  ASSUME WireTypeOK, NEW c \in Conns, Readable(c), ReadAnswer(c), UNCHANGED <<sess, c2s>>
  PROVE  /\ WireTypeOK'
         /\ Head(s2c[c]) \in Answer
  <1>1. s2c[c] \in Seq(Answer) /\ s2c[c] # <<>>
    BY DEF WireTypeOK, Readable
  <1>2. Tail(s2c[c]) \in Seq(Answer) /\ Head(s2c[c]) \in Answer
    BY <1>1
  <1>3. QED
    BY <1>2 DEF WireTypeOK, ReadAnswer

LEMMA WriteRequestTypeOK ==
  ASSUME WireTypeOK, NEW c \in Conns, NEW r \in Request, WriteRequest(c, r)
  PROVE  c2s' \in [Conns -> Seq(Request)]
  <1>1. Append(c2s[c], r) \in Seq(Request)
    BY DEF WireTypeOK
  <1>2. QED
    BY <1>1 DEF WireTypeOK, WriteRequest

LEMMA ConnectTypeOK ==
  ASSUME WireTypeOK, NEW c \in Conns, Connect(c)
  PROVE  WireTypeOK'
  BY DEF WireTypeOK, Connect

-----------------------------------------------------------------------------
(* The server's steps. *)
LEMMA WriteAnswerTypeOK ==
  ASSUME WireTypeOK, NEW c \in Conns, NEW a \in Answer, WriteAnswer(c, a)
  PROVE  s2c' \in [Conns -> Seq(Answer)]
  <1>1. Append(s2c[c], a) \in Seq(Answer)
    BY DEF WireTypeOK
  <1>2. QED
    BY <1>1 DEF WireTypeOK, WriteAnswer

LEMMA ReplyIsAnswer ==
  ASSUME NEW r \in Request, NEW res \in Results
  PROVE  Reply(r, res) \in Answer
  BY DEF Reply, Request, Answer

LEMMA PendingRequest ==
  ASSUME WireTypeOK, NEW c \in Conns, NEW kinds, Pending(c, kinds)
  PROVE  /\ Head(c2s[c]) \in Request
         /\ Tail(c2s[c]) \in Seq(Request)
         /\ Head(c2s[c]).kind \in kinds
         /\ c2s[c] # <<>>
  <1>1. c2s[c] \in Seq(Request) /\ c2s[c] # <<>>
    BY DEF WireTypeOK, Pending
  <1>2. QED
    BY <1>1 DEF Pending

LEMMA PerformTypeOK ==
  ASSUME PeerTypeOK, NEW r \in Request, NEW done \in BOOLEAN, Perform(r, done)
  PROVE  execs' \in [Calls -> Nat]
  <1>1. r.call \in Calls /\ execs[r.call] + 1 \in Nat
    BY DEF Request, PeerTypeOK
  <1>2. QED
    BY <1>1 DEF Perform, PeerTypeOK

LEMMA AnswerTypeOK ==
  ASSUME WireTypeOK, NEW c \in Conns, NEW kinds, NEW res \in Results, Pending(c, kinds),
         WriteAnswer(c, Reply(Head(c2s[c]), res))
  PROVE  s2c' \in [Conns -> Seq(Answer)]
  BY PendingRequest, ReplyIsAnswer, WriteAnswerTypeOK

LEMMA FaultsAreResults ==
  /\ {"ok"} \cup Faults \subseteq Results
  /\ {"greeting"} \cup Faults \subseteq Results
  BY FaultsAssumption DEF Results

LEMMA PeerStepTypeOK ==
  ASSUME WireTypeOK, PeerTypeOK, NEW c \in Conns, PeerStep(c)
  PROVE  WireTypeOK' /\ PeerTypeOK'
  <1> USE FaultsAreResults DEF WireTypeOK, PeerTypeOK
  <1>1. CASE Greet(c)
    <2>1. s2c' \in [Conns -> Seq(Answer)]
      <3>1. PICK offered \in SUBSET Exts, res \in {"greeting"} \cup Faults :
              WriteAnswer(c, [kind |-> "connect", call |-> NoCall, cl |-> 0,
                              res |-> res, ext |-> offered])
        BY <1>1 DEF Greet
      <3>2. [kind |-> "connect", call |-> NoCall, cl |-> 0, res |-> res, ext |-> offered] \in Answer
        BY DEF Answer
      <3>3. QED
        BY <3>1, <3>2, WriteAnswerTypeOK
    <2>2. QED
      BY <1>1, <2>1 DEF Greet
  <1>2. CASE AnswerLogin(c)
    <2>1. s2c' \in [Conns -> Seq(Answer)]
      BY <1>2, AnswerTypeOK DEF AnswerLogin
    <2>2. QED
      BY <1>2, <2>1, PendingRequest DEF AnswerLogin, TakeRequest
  <1>3. CASE IgnoreLogin(c)
    BY <1>3, PendingRequest DEF IgnoreLogin, TakeRequest
  <1>4. CASE AnswerLogout(c)
    <2>1. s2c' \in [Conns -> Seq(Answer)]
      BY <1>4, AnswerTypeOK DEF AnswerLogout
    <2>2. CloseSession(c) /\ UNCHANGED <<link, menu, execs>>
      BY <1>4 DEF AnswerLogout
    <2>3. QED
      BY <2>1, <2>2 DEF CloseSession
  <1>5. CASE ScriptLogout(c)
    <2>1. s2c' \in [Conns -> Seq(Answer)]
      BY <1>5, AnswerTypeOK DEF ScriptLogout
    <2>2. QED
      BY <1>5, <2>1, PendingRequest DEF ScriptLogout, TakeRequest
  <1>6. CASE AnswerHello(c)
    <2>1. s2c' \in [Conns -> Seq(Answer)]
      BY <1>6, AnswerTypeOK DEF AnswerHello
    <2>2. QED
      BY <1>6, <2>1, PendingRequest DEF AnswerHello, TakeRequest
  <1>7. CASE AnswerCommand(c)
    <2>1. s2c' \in [Conns -> Seq(Answer)] /\ execs' \in [Calls -> Nat]
      BY <1>7, AnswerTypeOK, PendingRequest, PerformTypeOK DEF AnswerCommand
    <2>2. QED
      BY <1>7, <2>1, PendingRequest DEF AnswerCommand, TakeRequest
  <1>8. CASE DropCommand(c)
    <2>1. execs' \in [Calls -> Nat]
      BY <1>8, PendingRequest, PerformTypeOK DEF DropCommand
    <2>2. QED
      BY <1>8, <2>1 DEF DropCommand, CloseSession
  <1>9. CASE HangUp(c)
    BY <1>9 DEF HangUp, CloseSession
  <1>10. QED
    BY <1>1, <1>2, <1>3, <1>4, <1>5, <1>6, <1>7, <1>8, <1>9 DEF PeerStep

LEMMA BreakLinkTypeOK ==
  ASSUME WireTypeOK, NEW c \in Conns, BreakLink(c)
  PROVE  WireTypeOK'
  BY DEF WireTypeOK, BreakLink
================================================================================
