--------------------------- MODULE EPPSessionProofs ---------------------------
(***************************************************************************)
(* Theorems about EPPSession, for any callers, connections, extensions and *)
(* faults, and any number of calls.                                        *)
(***************************************************************************)
EXTENDS EPPSession, EPPPeerProofs, SequenceTheorems, TLAPS

LEMMA InitTypeOK == Init => TypeOK
  BY WireAssumption
  DEF Init, AdapterInit, WireInit, PeerInit, TypeOK, AdapterTypeOK, WireTypeOK, PeerTypeOK,
      Calls, Locations, AllOperations, WithConnOps, Returns

LEMMA CurrentIsCall ==
  ASSUME AdapterTypeOK, NEW t \in Callers, made[t] > 0
  PROVE  Current(t) \in Calls
  BY WireAssumption DEF AdapterTypeOK, Current, Calls

(* Steps that leave the connections alone. *)
LEMMA LocalTypeOK ==
  ASSUME AdapterTypeOK, NEW t \in Callers,
         Lock(t) \/ LogoutNotConnected(t) \/ SendOnNil(t) \/ DialFails(t) \/ CancelContext(t)
  PROVE  AdapterTypeOK'
  <1> USE DEF AdapterTypeOK, Goto, Return, Locations, Returns, NextClTRID
  <1>1. CASE Lock(t)
    BY <1>1 DEF Lock
  <1>2. CASE LogoutNotConnected(t)
    BY <1>2 DEF LogoutNotConnected
  <1>3. CASE SendOnNil(t)
    BY <1>3 DEF SendOnNil
  <1>4. CASE DialFails(t)
    BY <1>4 DEF DialFails
  <1>5. CASE CancelContext(t)
    BY <1>5, AdapterAssumption DEF CancelContext
  <1>6. QED
    BY <1>1, <1>2, <1>3, <1>4, <1>5

LEMMA InvokeTypeOK ==
  ASSUME AdapterTypeOK, NEW t \in Callers, NEW op \in Operations,
         Invoke(t, op) \/ RejectInvalid(t, op)
  PROVE  AdapterTypeOK'
  <1>1. made[t] + 1 \in 0 .. MaxCalls /\ op \in AllOperations
    BY WireAssumption, AdapterAssumption DEF Invoke, RejectInvalid, AdapterTypeOK
  <1> USE <1>1 DEF AdapterTypeOK, Goto, Locations, Returns
  <1>2. CASE Invoke(t, op)
    BY <1>2 DEF Invoke
  <1>3. CASE RejectInvalid(t, op)
    BY <1>3 DEF RejectInvalid
  <1>4. QED
    BY <1>2, <1>3

-----------------------------------------------------------------------------
LEMMA FrameIsRequest ==
  ASSUME AdapterTypeOK, NEW t \in Callers, made[t] > 0, advertisedExt' \in SUBSET Exts,
         NEW wireKind \in RequestKinds, NEW n \in Nat
  PROVE  Frame(t, wireKind, n) \in Request
  BY CurrentIsCall DEF Frame, Request

LEMMA ReceivingHasConn ==
  ASSUME AdapterTypeOK, ConnUsable, NEW t \in Callers, Receiving(t)
  PROVE  conn \in Conns
  BY DEF ConnUsable, AdapterTypeOK

(* Steps that close the connection or take a frame from it. *)
LEMMA CloseTypeOK ==
  ASSUME AdapterTypeOK, WireTypeOK, NEW t \in Callers,
         Close(t) \/ LogoutAnswered(t) \/ DialAborts(t)
  PROVE  AdapterTypeOK' /\ WireTypeOK'
  <1> USE DEF Goto, Return, Locations, Returns, CloseConn
  <1>1. CASE Close(t)
    BY <1>1, ShutLinksTypeOK DEF Close, AdapterTypeOK
  <1>2. CASE LogoutAnswered(t)
    BY <1>2, ShutLinksTypeOK DEF LogoutAnswered, AdapterTypeOK
  <1>3. CASE DialAborts(t)
    BY <1>3, ShutLinksTypeOK DEF DialAborts, AdapterTypeOK
  <1>4. QED
    BY <1>1, <1>2, <1>3

LEMMA ReceiveTypeOK ==
  ASSUME AdapterTypeOK, WireTypeOK, ConnUsable, NEW t \in Callers,
         \/ LoseAnswer(t) \/ RejectAnswer(t) \/ AcceptAnswer(t)
         \/ LogoutFails(t) \/ LoginOk(t)
  PROVE  AdapterTypeOK' /\ WireTypeOK'
  <1>1. conn \in Conns
    BY ReceivingHasConn DEF LoseAnswer, RejectAnswer, AcceptAnswer, LogoutFails, LoginOk, At, Receiving
  <1>2. WireTypeOK'
    <2>1. CASE CloseConn
      BY <2>1, ShutLinksTypeOK
         DEF CloseConn, LoseAnswer, RejectAnswer, AcceptAnswer, LogoutFails, LoginOk
    <2>2. CASE Readable(conn) /\ ReadAnswer(conn)
      BY <1>1, <2>2, ReadAnswerTypeOK
         DEF LoseAnswer, RejectAnswer, AcceptAnswer, LogoutFails, LoginOk
    <2>3. CASE UNCHANGED wireVars
      BY <2>3 DEF wireVars, WireTypeOK
    <2>4. QED
      BY <2>1, <2>2, <2>3
         DEF RetryOnce, wireVars, LoseAnswer, RejectAnswer, AcceptAnswer, LogoutFails, LoginOk
  <1>3. AdapterTypeOK'
    <2> USE DEF AdapterTypeOK, Goto, Return, Locations, Returns
    <2>1. ASSUME RetryOnce(t), UNCHANGED <<clTRID, advertisedExt, made, kind, cancelled>>
          PROVE  AdapterTypeOK'
      BY <2>1 DEF RetryOnce, CloseConn
    <2>2. ASSUME GiveUp(t), UNCHANGED <<clTRID, advertisedExt, made, kind, cancelled>>
          PROVE  AdapterTypeOK'
      BY <2>2 DEF GiveUp
    <2>3. CASE LoseAnswer(t) \/ RejectAnswer(t)
      BY <2>1, <2>2, <2>3 DEF LoseAnswer, RejectAnswer
    <2>4. CASE AcceptAnswer(t)
      BY <2>4 DEF AcceptAnswer
    <2>5. CASE LogoutFails(t)
      BY <2>5 DEF LogoutFails
    <2>6. CASE LoginOk(t)
      BY <2>6 DEF LoginOk
    <2>7. QED
      BY <2>3, <2>4, <2>5, <2>6
  <1>4. QED
    BY <1>2, <1>3

LEMMA SendTypeOK ==
  ASSUME AdapterTypeOK, WireTypeOK, MutexHeld, NEW t \in Callers, Send(t)
  PROVE  AdapterTypeOK' /\ WireTypeOK'
  <1>1. AdapterTypeOK'
    BY DEF Send, AdapterTypeOK, Goto, Locations, NextClTRID
  <1>2. advertisedExt' \in SUBSET Exts /\ made[t] > 0 /\ conn \in Conns
    BY DEF Send, AdapterTypeOK, MutexHeld, At
  <1>3. \A op : WireKind(op) \in RequestKinds
    BY DEF WireKind, RequestKinds
  <1>4. c2s' \in [Conns -> Seq(Request)]
    <2>1. \A n \in Nat : Frame(t, WireKind(kind[Current(t)]), n) \in Request
      BY <1>2, <1>3, FrameIsRequest
    <2>2. PICK n \in Nat : WriteRequest(conn, Frame(t, WireKind(kind[Current(t)]), n))
      BY DEF Send, AdapterTypeOK, NextClTRID
    <2>3. QED
      BY <1>2, <2>1, <2>2, WriteRequestTypeOK
  <1>5. QED
    BY <1>1, <1>4 DEF Send, WireTypeOK

LEMMA DialTypeOK ==
  ASSUME AdapterTypeOK, WireTypeOK, NEW t \in Callers, Dial(t)
  PROVE  AdapterTypeOK' /\ WireTypeOK'
  <1>1. PICK c \in Conns : Connect(c) /\ conn' = c
    BY DEF Dial
  <1>2. AdapterTypeOK'
    BY <1>1 DEF Dial, AdapterTypeOK, Goto, Locations
  <1>3. QED
    BY <1>1, <1>2, ConnectTypeOK

LEMMA ReadGreetingTypeOK ==
  ASSUME AdapterTypeOK, WireTypeOK, MutexHeld, ConnUsable, NEW t \in Callers, ReadGreeting(t)
  PROVE  AdapterTypeOK' /\ WireTypeOK'
  <1>1. conn \in Conns /\ made[t] > 0
    BY ReceivingHasConn DEF ReadGreeting, At, Receiving, MutexHeld
  <1>2. AdapterTypeOK'
    BY DEF ReadGreeting, AdapterTypeOK, Goto, Locations, NextClTRID, FilterExtensions
  <1>3. c2s' \in [Conns -> Seq(Request)]
    <2>1. Frame(t, "login", NextClTRID) \in Request
      <3>1. advertisedExt' \in SUBSET Exts /\ NextClTRID \in Nat /\ "login" \in RequestKinds
        BY <1>2 DEF AdapterTypeOK, NextClTRID, RequestKinds
      <3>2. QED
        BY <1>1, <3>1, FrameIsRequest
    <2>2. QED
      BY <1>1, <2>1, WriteRequestTypeOK DEF ReadGreeting
  <1>4. link' \in [Conns -> {"unused", "up", "broken", "shut"}] /\ s2c' \in [Conns -> Seq(Answer)]
    <2>1. s2c[conn] \in Seq(Answer) /\ s2c[conn] # <<>>
      BY <1>1 DEF WireTypeOK, ReadGreeting, Readable
    <2>2. Tail(s2c[conn]) \in Seq(Answer)
      BY <2>1
    <2>3. QED
      BY <2>2 DEF ReadGreeting, ReadAnswer, WireTypeOK
  <1>5. QED
    BY <1>2, <1>3, <1>4 DEF ReadGreeting, WireTypeOK

-----------------------------------------------------------------------------
(* A step of a method keeps the adapter and the connections typed when the
   mutex is held as it should be and the connection is usable.             *)
LEMMA MethodTypeOK ==
  ASSUME AdapterTypeOK, WireTypeOK, MutexHeld, ConnUsable, NEW t \in Callers, MethodStep(t)
  PROVE  AdapterTypeOK' /\ WireTypeOK'
  <1>1. CASE Lock(t) \/ LogoutNotConnected(t) \/ SendOnNil(t) \/ DialFails(t)
    <2>1. UNCHANGED wireVars
      BY <1>1 DEF Lock, LogoutNotConnected, SendOnNil, DialFails
    <2>2. WireTypeOK'
      BY <2>1 DEF WireTypeOK, wireVars
    <2>3. QED
      BY <1>1, <2>2, LocalTypeOK
  <1>2. CASE Close(t) \/ LogoutAnswered(t) \/ DialAborts(t)
    BY <1>2, CloseTypeOK
  <1>3. CASE LoseAnswer(t) \/ RejectAnswer(t) \/ AcceptAnswer(t) \/ LogoutFails(t) \/ LoginOk(t)
    BY <1>3, ReceiveTypeOK
  <1>4. CASE Send(t) \/ Dial(t) \/ ReadGreeting(t)
    BY <1>4, SendTypeOK, DialTypeOK, ReadGreetingTypeOK
  <1>5. QED
    BY <1>1, <1>2, <1>3, <1>4 DEF MethodStep

(* Every step from a typed state in which the mutex is held as it should be
   and the connection is usable leads to a typed state.                    *)
LEMMA StepTypeOK ==
  ASSUME TypeOK, MutexHeld, ConnUsable, [Next]_vars
  PROVE  TypeOK'
  <1>1. ASSUME NEW t \in Callers, MethodStep(t), UNCHANGED peerVars
        PROVE  TypeOK'
    <2>1. PeerTypeOK'
      BY <1>1 DEF TypeOK, PeerTypeOK, peerVars
    <2>2. QED
      BY <1>1, <2>1, MethodTypeOK DEF TypeOK
  <1>2. ASSUME NEW t \in Callers, CallerStep(t), UNCHANGED peerVars
        PROVE  TypeOK'
    <2>1. UNCHANGED wireVars
      BY <1>2 DEF CallerStep, Invoke, RejectInvalid, CancelContext
    <2>2. PeerTypeOK' /\ WireTypeOK'
      BY <1>2, <2>1 DEF TypeOK, PeerTypeOK, peerVars, WireTypeOK, wireVars
    <2>3. QED
      BY <1>2, <2>2, InvokeTypeOK, LocalTypeOK DEF CallerStep, TypeOK
  <1>3. ASSUME NEW c \in Conns, Peer(c)
        PROVE  TypeOK'
    <2>1. AdapterTypeOK'
      BY <1>3 DEF Peer, TypeOK, AdapterTypeOK, adapterVars
    <2>2. QED
      BY <1>3, <2>1, PeerStepTypeOK DEF Peer, TypeOK
  <1>4. ASSUME NEW c \in Conns, BreakLink(c), UNCHANGED <<adapterVars, peerVars>>
        PROVE  TypeOK'
    <2>1. AdapterTypeOK'
      BY <1>4 DEF TypeOK, AdapterTypeOK, adapterVars
    <2>2. PeerTypeOK'
      BY <1>4 DEF TypeOK, PeerTypeOK, peerVars
    <2>3. QED
      BY <1>4, <2>1, <2>2, BreakLinkTypeOK DEF TypeOK
  <1>5. CASE UNCHANGED vars
    <2>1. AdapterTypeOK'
      BY <1>5 DEF vars, adapterVars, TypeOK, AdapterTypeOK
    <2>2. WireTypeOK' /\ PeerTypeOK'
      BY <1>5 DEF vars, wireVars, peerVars, TypeOK, WireTypeOK, PeerTypeOK
    <2>3. QED
      BY <2>1, <2>2 DEF TypeOK
  <1>6. QED
    BY <1>1, <1>2, <1>3, <1>4, <1>5 DEF Next, Adapter, Environment

-----------------------------------------------------------------------------
(* The mutex.  A step of a method takes the mutex, keeps it, or leaves it. *)
Held(t) == pc[t] \notin {"idle", "lock"}

Keeps(t) ==
  /\ Held(t)
  /\ \E l \in Locations \ {"idle", "lock"} : Goto(t, l)
  /\ UNCHANGED <<mu, made, kind>>

Leaves(t) ==
  /\ Held(t)
  /\ Goto(t, "idle") /\ mu' = NoCaller
  /\ UNCHANGED <<made, kind>>

Takes(t) ==
  /\ pc[t] = "lock" /\ mu = NoCaller /\ mu' = t
  /\ \E l \in {"dial", "close", "send"} : Goto(t, l)
  /\ UNCHANGED <<made, kind>>

(* Every step of a method is one of the three. *)
LEMMA MethodMoves ==
  ASSUME NEW t \in Callers, MethodStep(t)
  PROVE  Takes(t) \/ Keeps(t) \/ Leaves(t)
  <1> USE DEF Held, Keeps, Leaves, At, Locations, Return
  <1>1. CASE Lock(t)
    BY <1>1 DEF Lock, Takes, MutexFree
  <1>2. CASE Close(t) \/ LogoutNotConnected(t) \/ SendOnNil(t) \/ Send(t)
    BY <1>2 DEF Close, LogoutNotConnected, SendOnNil, Send
  <1>3. CASE LoseAnswer(t) \/ RejectAnswer(t)
    BY <1>3 DEF LoseAnswer, RejectAnswer, RetryOnce, GiveUp
  <1>4. CASE AcceptAnswer(t) \/ LogoutFails(t) \/ LogoutAnswered(t)
    BY <1>4 DEF AcceptAnswer, LogoutFails, LogoutAnswered
  <1>5. CASE DialFails(t) \/ Dial(t) \/ ReadGreeting(t)
    BY <1>5 DEF DialFails, Dial, ReadGreeting
  <1>6. CASE LoginOk(t) \/ DialAborts(t)
    BY <1>6 DEF LoginOk, DialAborts
  <1>7. QED
    BY <1>1, <1>2, <1>3, <1>4, <1>5, <1>6 DEF MethodStep

(* Exactly the goroutine past the mutex holds it, after every step. *)
LEMMA StepMutexHeld ==
  ASSUME AdapterTypeOK, MutexHeld, [Next]_vars
  PROVE  MutexHeld'
  <1>1. ASSUME NEW t \in Callers, MethodStep(t)
        PROVE  MutexHeld'
    <2>1. CASE Takes(t)
      BY <2>1, AdapterAssumption DEF Takes, Goto, MutexHeld, AdapterTypeOK
    <2>2. CASE Keeps(t)
      BY <2>2, AdapterAssumption DEF Keeps, Held, Goto, MutexHeld, AdapterTypeOK
    <2>3. CASE Leaves(t)
      BY <2>3, AdapterAssumption DEF Leaves, Held, Goto, MutexHeld, AdapterTypeOK
    <2>4. QED
      BY <1>1, <2>1, <2>2, <2>3, MethodMoves
  <1>2. ASSUME NEW t \in Callers, CallerStep(t)
        PROVE  MutexHeld'
    <2>1. ASSUME NEW op \in Operations, Invoke(t, op)
          PROVE  MutexHeld'
      BY <2>1, WireAssumption DEF Invoke, At, Goto, MutexHeld, AdapterTypeOK
    <2>2. ASSUME NEW op \in Operations, RejectInvalid(t, op)
          PROVE  MutexHeld'
      BY <2>2, WireAssumption DEF RejectInvalid, At, MutexHeld, AdapterTypeOK
    <2>3. CASE CancelContext(t)
      BY <2>3 DEF CancelContext, MutexHeld
    <2>4. QED
      BY <1>2, <2>1, <2>2, <2>3 DEF CallerStep
  <1>3. CASE UNCHANGED adapterVars
    BY <1>3 DEF adapterVars, MutexHeld
  <1>4. QED
    <2>1. CASE Environment
      BY <1>2, <1>3, <2>1 DEF Environment
    <2>2. CASE \E c \in Conns : Peer(c)
      BY <1>3, <2>2 DEF Peer
    <2>3. CASE UNCHANGED vars
      BY <1>3, <2>3 DEF vars
    <2>4. QED
      BY <1>1, <2>1, <2>2, <2>3 DEF Next, Adapter

(* Nobody but the holder is past the mutex. *)
LEMMA HolderAlone ==
  ASSUME MutexHeld, NEW t \in Callers, Held(t)
  PROVE  mu = t /\ made[t] > 0 /\ \A u \in Callers \ {t} : pc[u] \in {"idle", "lock"}
  BY DEF MutexHeld, Held

-----------------------------------------------------------------------------
(* Frames on a connection. *)

(* What an appended frame adds. *)
LEMMA AppendElements ==
  ASSUME NEW S, NEW s \in Seq(S), NEW x \in S, NEW i \in DOMAIN Append(s, x)
  PROVE  \/ i \in DOMAIN s /\ Append(s, x)[i] = s[i]
         \/ i = Len(s) + 1 /\ Append(s, x)[i] = x
  OBVIOUS

(* What remains once the first frame is taken. *)
LEMMA TailElements ==
  ASSUME NEW S, NEW s \in Seq(S), s # <<>>, NEW i \in DOMAIN Tail(s)
  PROVE  i + 1 \in DOMAIN s /\ Tail(s)[i] = s[i + 1]
  OBVIOUS

(* A connection with a single frame on it. *)
LEMMA OneFrame ==
  ASSUME NEW S, NEW s \in Seq(S), s # <<>>, Len(s) <= 1
  PROVE  /\ Tail(s) = <<>> /\ Head(s) = s[1]
         /\ DOMAIN s = {1}
  <1>1. Len(s) \in Nat /\ (Len(s) = 0 => s = <<>>)
    OBVIOUS
  <1>2. Len(s) = 1
    BY <1>1
  <1>3. Tail(s) \in Seq(S) /\ Len(Tail(s)) = 0
    BY <1>2
  <1>4. Tail(s) = <<>>
    BY <1>3, EmptySeq
  <1>5. DOMAIN s = {1}
    BY <1>2
  <1>6. QED
    BY <1>4, <1>5

(* The first frame of a connection that carries one. *)
LEMMA FirstFrame ==
  ASSUME NEW S, NEW s \in Seq(S)
  PROVE  /\ s # <<>> => 1 \in DOMAIN s /\ Head(s) = s[1]
         /\ s = <<>> => DOMAIN s = {}
  <1>1. s = <<>> => DOMAIN s = {}
    OBVIOUS
  <1>2. s # <<>> => 1 \in DOMAIN s
    OBVIOUS
  <1>3. QED
    BY <1>1, <1>2

(* The only frame of a connection that carried none. *)
LEMMA OnlyFrame ==
  ASSUME NEW S, NEW x \in S
  PROVE  /\ Append(<<>>, x) # <<>> /\ Len(Append(<<>>, x)) = 1
         /\ DOMAIN Append(<<>>, x) = {1} /\ Append(<<>>, x)[1] = x
  <1>1. Append(<<>>, x) # <<>> /\ Len(Append(<<>>, x)) = 1
    OBVIOUS
  <1>2. DOMAIN Append(<<>>, x) = {1}
    OBVIOUS
  <1>3. Append(<<>>, x)[1] = x
    OBVIOUS
  <1>4. QED
    BY <1>1, <1>2, <1>3

(* A written request is the only new frame. *)
LEMMA WrittenRequest ==
  ASSUME WireTypeOK, NEW c \in Conns, NEW r \in Request, WriteRequest(c, r),
         NEW d \in Conns, NEW i \in DOMAIN c2s'[d]
  PROVE  \/ i \in DOMAIN c2s[d] /\ c2s'[d][i] = c2s[d][i]
         \/ /\ d = c /\ i = Len(c2s[c]) + 1 /\ c2s'[d][i] = r
            /\ link[c] = "up" /\ Serving(c)
  <1>1. c2s[d] \in Seq(Request) /\ c2s \in [Conns -> Seq(Request)]
    BY DEF WireTypeOK
  <1>2. CASE c2s' = [c2s EXCEPT ![c] = Append(@, r)] /\ link[c] = "up" /\ Serving(c)
    <2>1. CASE d = c
      <3>1. c2s'[d] = Append(c2s[d], r)
        BY <1>1, <1>2, <2>1
      <3>2. QED
        BY <1>1, <1>2, <2>1, <3>1, AppendElements
    <2>2. CASE d # c
      BY <1>1, <1>2, <2>2
    <2>3. QED
      BY <2>1, <2>2
  <1>3. CASE c2s' = c2s
    BY <1>3
  <1>4. QED
    BY <1>2, <1>3 DEF WriteRequest

(* A written answer is the only new frame. *)
LEMMA WrittenAnswer ==
  ASSUME WireTypeOK, NEW c \in Conns, NEW a \in Answer, WriteAnswer(c, a),
         NEW d \in Conns, NEW i \in DOMAIN s2c'[d]
  PROVE  \/ i \in DOMAIN s2c[d] /\ s2c'[d][i] = s2c[d][i]
         \/ d = c /\ i = Len(s2c[c]) + 1 /\ s2c'[d][i] = a /\ link[c] = "up"
  <1>1. s2c[d] \in Seq(Answer) /\ s2c \in [Conns -> Seq(Answer)]
    BY DEF WireTypeOK
  <1>2. CASE s2c' = [s2c EXCEPT ![c] = Append(@, a)] /\ link[c] = "up"
    <2>1. CASE d = c
      <3>1. s2c'[d] = Append(s2c[d], a)
        BY <1>1, <1>2, <2>1
      <3>2. QED
        BY <1>1, <1>2, <2>1, <3>1, AppendElements
    <2>2. CASE d # c
      BY <1>1, <1>2, <2>2
    <2>3. QED
      BY <2>1, <2>2
  <1>3. CASE s2c' = s2c
    BY <1>3
  <1>4. QED
    BY <1>2, <1>3 DEF WriteAnswer

(* A request that remains after one was taken was there before. *)
LEMMA RemainingRequest ==
  ASSUME WireTypeOK, NEW c \in Conns, c2s[c] # <<>>, TakeRequest(c),
         NEW d \in Conns, NEW i \in DOMAIN c2s'[d]
  PROVE  \/ d # c /\ i \in DOMAIN c2s[d] /\ c2s'[d][i] = c2s[d][i]
         \/ d = c /\ i + 1 \in DOMAIN c2s[d] /\ c2s'[d][i] = c2s[d][i + 1]
  <1>1. c2s[c] \in Seq(Request) /\ c2s \in [Conns -> Seq(Request)]
    BY DEF WireTypeOK
  <1>2. CASE d = c
    <2>1. c2s'[d] = Tail(c2s[d])
      BY <1>1, <1>2 DEF TakeRequest
    <2>2. QED
      BY <1>1, <1>2, <2>1, TailElements
  <1>3. CASE d # c
    BY <1>1, <1>3 DEF TakeRequest
  <1>4. QED
    BY <1>2, <1>3

(* An answer that remains after one was read was there before. *)
LEMMA RemainingAnswer ==
  ASSUME WireTypeOK, NEW c \in Conns, s2c[c] # <<>>, ReadAnswer(c),
         NEW d \in Conns, NEW i \in DOMAIN s2c'[d]
  PROVE  \E j \in DOMAIN s2c[d] : s2c'[d][i] = s2c[d][j]
  <1>1. s2c[c] \in Seq(Answer) /\ s2c \in [Conns -> Seq(Answer)]
    BY DEF WireTypeOK
  <1>2. CASE d = c
    <2>1. s2c'[d] = Tail(s2c[d])
      BY <1>1, <1>2 DEF ReadAnswer
    <2>2. QED
      BY <1>1, <1>2, <2>1, TailElements
  <1>3. CASE d # c
    BY <1>1, <1>3 DEF ReadAnswer
  <1>4. QED
    BY <1>2, <1>3

-----------------------------------------------------------------------------
(* A step of the server on one connection changes no other connection, and
   never takes a session backwards.                                        *)
LEMMA PeerStepLocal ==
  ASSUME WireTypeOK, EndsAgree, NEW c \in Conns, PeerStep(c)
  PROVE  /\ link' = link
         /\ \A d \in Conns \ {c} : sess'[d] = sess[d] /\ c2s'[d] = c2s[d] /\ s2c'[d] = s2c[d]
         /\ sess[c] \notin {"none", "closed"}
         /\ sess'[c] \in {"open", "authed", "closed"}
         /\ sess[c] = "authed" => sess'[c] \in {"authed", "closed"}
  <1> USE DEF WireTypeOK
  <1>1. CASE Greet(c)
    BY <1>1 DEF Greet, WriteAnswer
  <1>2. CASE IgnoreLogin(c) \/ ScriptLogout(c) \/ AnswerHello(c) \/ AnswerCommand(c) \/ AnswerLogin(c)
    <2>1. /\ Serving(c) /\ c2s[c] # <<>> /\ link' = link
          /\ \A d \in Conns \ {c} : c2s'[d] = c2s[d]
      BY <1>2 DEF IgnoreLogin, ScriptLogout, AnswerHello, AnswerCommand, AnswerLogin, Pending, TakeRequest
    <2>2. sess[c] \in {"open", "authed"}
      BY <2>1 DEF Serving, EndsAgree
    <2>3. \A d \in Conns \ {c} : s2c'[d] = s2c[d]
      BY <1>2 DEF IgnoreLogin, ScriptLogout, AnswerHello, AnswerCommand, AnswerLogin, WriteAnswer
    <2>4. sess' = sess \/ sess' = [sess EXCEPT ![c] = "authed"]
      BY <1>2 DEF IgnoreLogin, ScriptLogout, AnswerHello, AnswerCommand, AnswerLogin
    <2>5. QED
      BY <2>1, <2>2, <2>3, <2>4
  <1>3. CASE AnswerLogout(c) \/ DropCommand(c) \/ HangUp(c)
    <2>1. Serving(c) /\ CloseSession(c) /\ link' = link
      BY <1>3 DEF AnswerLogout, DropCommand, HangUp, Pending
    <2>2. \A d \in Conns \ {c} : s2c'[d] = s2c[d]
      BY <1>3 DEF AnswerLogout, DropCommand, HangUp, WriteAnswer
    <2>3. QED
      BY <2>1, <2>2 DEF CloseSession, Serving
  <1>4. QED
    BY <1>1, <1>2, <1>3 DEF PeerStep

(* The server's answers: the greeting of a connection, or the answer to its
   first request, and the request is gone.                                 *)
LEMMA PeerAnswers ==
  ASSUME WireTypeOK, EndsAgree, NEW c \in Conns, PeerStep(c)
  PROVE  \/ \E offered \in SUBSET Exts, res \in Results :
              /\ sess[c] = "accepted" /\ UNCHANGED c2s
              /\ WriteAnswer(c, [kind |-> "connect", call |-> NoCall, cl |-> 0,
                                 res |-> res, ext |-> offered])
         \/ /\ c2s[c] # <<>>
            /\ \/ s2c' = s2c
               \/ \E res \in Results :
                    /\ WriteAnswer(c, Reply(Head(c2s[c]), res))
                    /\ Head(c2s[c]).kind = "login" /\ res = "ok" => sess'[c] = "authed"
            /\ TakeRequest(c) \/ c2s' = [c2s EXCEPT ![c] = <<>>]
         \/ s2c' = s2c /\ c2s' = [c2s EXCEPT ![c] = <<>>]
  <1> USE FaultsAreResults
  <1>1. CASE Greet(c)
    BY <1>1 DEF Greet
  <1>2. CASE IgnoreLogin(c)
    BY <1>2 DEF IgnoreLogin, Pending
  <1>3. CASE AnswerLogin(c)
    BY <1>3 DEF AnswerLogin, Pending, WireTypeOK
  <1>4. CASE ScriptLogout(c)
    <2>1. Head(c2s[c]).kind = "logout" /\ c2s[c] # <<>> /\ TakeRequest(c)
      BY <1>4 DEF ScriptLogout, Pending
    <2>2. \E res \in Results : WriteAnswer(c, Reply(Head(c2s[c]), res))
      BY <1>4 DEF ScriptLogout
    <2>3. QED
      BY <2>1, <2>2
  <1>5. CASE AnswerHello(c)
    <2>1. Head(c2s[c]).kind = "hello" /\ c2s[c] # <<>> /\ TakeRequest(c)
      BY <1>5 DEF AnswerHello, Pending
    <2>2. \E res \in Results : WriteAnswer(c, Reply(Head(c2s[c]), res))
      BY <1>5 DEF AnswerHello
    <2>3. QED
      BY <2>1, <2>2
  <1>6. CASE AnswerCommand(c)
    <2>1. Head(c2s[c]).kind # "login" /\ c2s[c] # <<>> /\ TakeRequest(c)
      BY <1>6 DEF AnswerCommand, Pending
    <2>2. \E res \in Results : WriteAnswer(c, Reply(Head(c2s[c]), res))
      BY <1>6 DEF AnswerCommand
    <2>3. QED
      BY <2>1, <2>2
  <1>7. CASE AnswerLogout(c)
    <2>1. Head(c2s[c]).kind = "logout" /\ c2s[c] # <<>> /\ c2s' = [c2s EXCEPT ![c] = <<>>]
      BY <1>7 DEF AnswerLogout, Pending, CloseSession
    <2>2. \E res \in Results : WriteAnswer(c, Reply(Head(c2s[c]), res))
      BY <1>7 DEF AnswerLogout, Results
    <2>3. QED
      BY <2>1, <2>2
  <1>8. CASE DropCommand(c) \/ HangUp(c)
    BY <1>8 DEF DropCommand, HangUp, CloseSession
  <1>9. QED
    BY <1>1, <1>2, <1>3, <1>4, <1>5, <1>6, <1>7, <1>8 DEF PeerStep

(* The two ends agree after a step of the server. *)
LEMMA PeerEndsAgree ==
  ASSUME WireTypeOK, PeerTypeOK, EndsAgree, NEW c \in Conns, PeerStep(c)
  PROVE  EndsAgree'
  <1>1. WireTypeOK' /\ link' = link /\ sess'[c] \in {"open", "authed", "closed"}
    BY PeerStepTypeOK, PeerStepLocal
  <1>2. ASSUME NEW d \in Conns \ {c}
        PROVE  sess'[d] = sess[d] /\ c2s'[d] = c2s[d] /\ s2c'[d] = s2c[d]
    BY PeerStepLocal
  <1>3. link[c] # "unused"
    BY PeerStepLocal DEF EndsAgree
  <1>4. sess'[c] = "closed" => c2s'[c] = <<>>
    BY PeerStepLocal DEF PeerStep, Greet, AnswerLogin, IgnoreLogin, AnswerLogout, ScriptLogout,
       AnswerHello, AnswerCommand, DropCommand, HangUp, CloseSession, WireTypeOK
  <1>5. ASSUME NEW i \in DOMAIN s2c'[c], s2c'[c][i].kind = "login", s2c'[c][i].res = "ok"
        PROVE  sess'[c] \in {"authed", "closed"}
    <2>1. CASE \E j \in DOMAIN s2c[c] : s2c'[c][i] = s2c[c][j]
      BY <1>5, <2>1, PeerStepLocal DEF EndsAgree
    <2>2. ASSUME NEW a \in Answer, WriteAnswer(c, a),
                 a.kind = "login" /\ a.res = "ok" => sess'[c] = "authed"
          PROVE  sess'[c] \in {"authed", "closed"}
      BY <1>5, <2>1, <2>2, WrittenAnswer
    <2>3. ASSUME NEW offered \in SUBSET Exts, NEW res \in Results,
                 WriteAnswer(c, [kind |-> "connect", call |-> NoCall, cl |-> 0,
                                 res |-> res, ext |-> offered])
          PROVE  sess'[c] \in {"authed", "closed"}
      <3>1. [kind |-> "connect", call |-> NoCall, cl |-> 0, res |-> res, ext |-> offered] \in Answer
        BY DEF Answer
      <3>2. QED
        BY <2>2, <2>3, <3>1
    <2>4. ASSUME NEW res \in Results, WriteAnswer(c, Reply(Head(c2s[c]), res)), c2s[c] # <<>>,
                 Head(c2s[c]).kind = "login" /\ res = "ok" => sess'[c] = "authed"
          PROVE  sess'[c] \in {"authed", "closed"}
      <3>1. Head(c2s[c]) \in Request
        BY <2>4 DEF WireTypeOK
      <3>2. Reply(Head(c2s[c]), res) \in Answer
        BY <3>1, ReplyIsAnswer
      <3>3. Reply(Head(c2s[c]), res).kind = Head(c2s[c]).kind /\ Reply(Head(c2s[c]), res).res = res
        BY DEF Reply
      <3>4. QED
        BY <2>2, <2>4, <3>2, <3>3
    <2>5. CASE s2c' = s2c
      BY <1>5, <2>1, <2>5
    <2>6. QED
      BY <2>3, <2>4, <2>5, PeerAnswers
  <1>6. QED
    BY <1>1, <1>2, <1>3, <1>4, <1>5 DEF EndsAgree

-----------------------------------------------------------------------------
(* What a step of a method does to the connections, and where it leaves the
   goroutine.                                                              *)
LEMMA MethodWire ==
  ASSUME AdapterTypeOK, NEW t \in Callers, MethodStep(t)
  PROVE  /\ \A u \in Callers \ {t} : pc'[u] = pc[u]
         /\ \/ /\ UNCHANGED <<wireVars, conn, clTRID>> /\ ~Receiving(t)'
               /\ Receiving(t) => ReadFails(conn) /\ pc[t] = "receive"
            \/ SendOnNil(t) /\ ~Receiving(t) /\ ~Receiving(t)'
            \/ CloseConn /\ UNCHANGED <<sess, c2s, clTRID>> /\ ~Receiving(t)'
            \/ /\ pc[t] \in {"receive", "login"} /\ ~Receiving(t)'
               /\ pc[t] = "login" => Head(s2c[conn]).res = "ok"
               /\ Readable(conn) /\ ReadAnswer(conn)
               /\ UNCHANGED <<sess, c2s, conn, clTRID>>
            \/ Send(t) /\ pc[t] = "send" /\ pc'[t] = "receive"
            \/ Dial(t) /\ pc[t] = "dial" /\ pc'[t] = "greeting"
            \/ ReadGreeting(t) /\ pc[t] = "greeting" /\ pc'[t] = "login"
  <1> USE DEF wireVars, At, Receiving, Goto, Return, AdapterTypeOK
  <1>1. CASE Lock(t) \/ LogoutNotConnected(t) \/ DialFails(t)
    BY <1>1 DEF Lock, LogoutNotConnected, DialFails
  <1>2. CASE LoseAnswer(t)
    BY <1>2 DEF LoseAnswer, RetryOnce, GiveUp
  <1>3. CASE RejectAnswer(t)
    BY <1>3 DEF RejectAnswer, RetryOnce, GiveUp
  <1>4. CASE AcceptAnswer(t)
    BY <1>4 DEF AcceptAnswer
  <1>5. CASE LogoutFails(t)
    BY <1>5 DEF LogoutFails
  <1>6. CASE LoginOk(t)
    BY <1>6 DEF LoginOk, LoginAccepted
  <1>7. CASE Close(t) \/ LogoutAnswered(t) \/ DialAborts(t)
    BY <1>7 DEF Close, LogoutAnswered, DialAborts
  <1>8. CASE SendOnNil(t) \/ Send(t)
    BY <1>8 DEF SendOnNil, Send
  <1>9. CASE Dial(t) \/ ReadGreeting(t)
    BY <1>9 DEF Dial, ReadGreeting
  <1>10. QED
    BY <1>1, <1>2, <1>3, <1>4, <1>5, <1>6, <1>7, <1>8, <1>9 DEF MethodStep

(* Nobody else waits for a frame while a method takes a step. *)
LEMMA StepperAlone ==
  ASSUME AdapterTypeOK, MutexHeld, NEW t \in Callers, MethodStep(t)
  PROVE  /\ \A u \in Callers \ {t} : pc'[u] = pc[u] /\ ~Receiving(u) /\ ~Receiving(u)'
         /\ UNCHANGED <<made, kind>>
  <1>1. mu = t \/ mu = NoCaller
    <2>1. Takes(t) \/ Held(t)
      BY MethodMoves DEF Keeps, Leaves
    <2>2. QED
      BY <2>1, HolderAlone DEF Takes
  <1>2. ASSUME NEW u \in Callers \ {t}
        PROVE  pc'[u] = pc[u] /\ pc[u] \in {"idle", "lock"}
    BY <1>1, AdapterAssumption, MethodWire DEF MutexHeld
  <1>3. UNCHANGED <<made, kind>>
    BY MethodMoves DEF Takes, Keeps, Leaves
  <1>4. QED
    BY <1>2, <1>3 DEF Receiving

(* The request a method writes, and when it does. *)
LEMMA SentRequest ==
  ASSUME AdapterTypeOK, MutexHeld, ConnUsable, NEW t \in Callers, Send(t)
  PROVE  \E r \in Request :
           /\ WriteRequest(conn, r) /\ conn \in Conns /\ UNCHANGED <<conn, link, sess, s2c>>
           /\ r.call = Current(t) /\ r.kind = WireKind(kind[Current(t)]) /\ r.kind # "login"
           /\ r.kind # "hello" => r.cl = clTRID' /\ clTRID' = clTRID + 1
           /\ r.kind = "hello" => r.cl = 0 /\ clTRID' = clTRID
           /\ sess[conn] \in {"authed", "closed"}
  <1>1. Held(t) /\ conn \in Conns
    BY DEF Send, At, Held, AdapterTypeOK
  <1>2. pc[t] = "send" /\ \A u \in Callers : pc[u] \notin {"greeting", "login"}
    BY <1>1, HolderAlone DEF Send, At
  <1>3. sess[conn] \in {"authed", "closed"}
    BY <1>1, <1>2, WireAssumption DEF ConnUsable, AdapterTypeOK
  <1> DEFINE op == kind[Current(t)]
             n == IF op = "Ping" THEN clTRID ELSE NextClTRID
             r == Frame(t, WireKind(op), IF op = "Ping" THEN 0 ELSE n)
  <1>4. WireKind(op) \in RequestKinds \ {"login"} /\ (WireKind(op) = "hello" <=> op = "Ping")
    BY DEF WireKind, RequestKinds
  <1>5. advertisedExt' \in SUBSET Exts /\ clTRID \in Nat /\ n \in Nat /\ made[t] > 0
    BY <1>1, HolderAlone DEF Send, AdapterTypeOK, NextClTRID
  <1>6. r \in Request
    BY <1>4, <1>5, FrameIsRequest
  <1>7. clTRID' = n /\ WriteRequest(conn, r) /\ UNCHANGED <<conn, link, sess, s2c>>
    BY DEF Send
  <1>8. /\ r.call = Current(t) /\ r.kind = WireKind(op)
        /\ r.cl = IF op = "Ping" THEN 0 ELSE n
    BY DEF Frame
  <1>9. n = IF op = "Ping" THEN clTRID ELSE clTRID + 1
    BY DEF NextClTRID
  <1> HIDE DEF r, n
  <1>10. QED
    BY <1>1, <1>3, <1>4, <1>6, <1>7, <1>8, <1>9

(* The login a dial writes, and when it does. *)
LEMMA SentLogin ==
  ASSUME AdapterTypeOK, WireTypeOK, MutexHeld, EndsAgree, ConnUsable,
         NEW t \in Callers, ReadGreeting(t)
  PROVE  \E r \in Request :
           /\ WriteRequest(conn, r) /\ conn \in Conns /\ UNCHANGED <<conn, link, sess>>
           /\ Readable(conn) /\ ReadAnswer(conn)
           /\ r.call = Current(t) /\ r.kind = "login"
           /\ r.cl = clTRID' /\ clTRID' = clTRID + 1
           /\ sess[conn] \notin {"none", "accepted"}
  <1>1. conn \in Conns /\ Held(t)
    BY ReceivingHasConn DEF ReadGreeting, At, Receiving, Held
  <1>2. sess[conn] \notin {"none", "accepted"}
    BY <1>1 DEF ReadGreeting, Readable, EndsAgree
  <1> DEFINE r == Frame(t, "login", NextClTRID)
  <1>3. r \in Request
    <2>1. advertisedExt' \in SUBSET Exts /\ NextClTRID \in Nat /\ "login" \in RequestKinds
      BY DEF ReadGreeting, AdapterTypeOK, FilterExtensions, NextClTRID, RequestKinds
    <2>2. QED
      BY <1>1, <2>1, FrameIsRequest, HolderAlone
  <1>4. /\ WriteRequest(conn, r) /\ UNCHANGED <<conn, link, sess>>
        /\ Readable(conn) /\ ReadAnswer(conn) /\ clTRID' = clTRID + 1
    BY DEF ReadGreeting, ReadAnswer, NextClTRID
  <1>5. r.call = Current(t) /\ r.kind = "login" /\ r.cl = clTRID + 1
    BY DEF Frame, NextClTRID
  <1> HIDE DEF r
  <1>6. QED
    BY <1>1, <1>2, <1>3, <1>4, <1>5

(* The two ends agree after a step of a method. *)
LEMMA MethodEndsAgree ==
  ASSUME TypeOK, MutexHeld, EndsAgree, ConnUsable, NEW t \in Callers, MethodStep(t)
  PROVE  EndsAgree'
  <1> USE DEF TypeOK
  <1>1. CASE UNCHANGED wireVars
    BY <1>1 DEF wireVars, EndsAgree
  <1>2. CASE CloseConn /\ UNCHANGED <<sess, c2s>>
    <2>1. ASSUME NEW c \in Conns
          PROVE  \/ link'[c] = link[c] /\ s2c'[c] = s2c[c]
                 \/ link[c] # "unused" /\ link'[c] = "shut" /\ s2c'[c] = <<>>
      BY <1>2, <2>1, WireAssumption DEF CloseConn, ShutLinks, ConnUsable, AdapterTypeOK, WireTypeOK
    <2>2. QED
      BY <1>2, <2>1 DEF EndsAgree
  <1>3. ASSUME conn \in Conns, Readable(conn), ReadAnswer(conn), UNCHANGED <<sess, c2s>>
        PROVE  EndsAgree'
    <2>1. ASSUME NEW c \in Conns
          PROVE  /\ \A i \in DOMAIN s2c'[c] : \E j \in DOMAIN s2c[c] : s2c'[c][i] = s2c[c][j]
                 /\ s2c[c] = <<>> => s2c'[c] = <<>>
      BY <1>3, RemainingAnswer DEF Readable, ReadAnswer, WireTypeOK
    <2>2. QED
      BY <1>3, <2>1 DEF EndsAgree, ReadAnswer
  <1>4. CASE Dial(t)
    <2>1. PICK c \in Conns : Connect(c)
      BY <1>4 DEF Dial
    <2>2. QED
      BY <2>1 DEF Connect, EndsAgree, WireTypeOK
  <1>5. CASE Send(t)
    <2>1. PICK r \in Request : /\ WriteRequest(conn, r) /\ UNCHANGED <<link, sess, s2c>>
                               /\ sess[conn] \in {"authed", "closed"}
      BY <1>5, SentRequest
    <2>2. QED
      BY <2>1 DEF EndsAgree, WriteRequest, WireTypeOK, Serving
  <1>6. CASE ReadGreeting(t)
    <2>1. PICK r \in Request : /\ WriteRequest(conn, r) /\ UNCHANGED <<link, sess>>
                               /\ conn \in Conns /\ Readable(conn) /\ ReadAnswer(conn)
                               /\ sess[conn] \notin {"none", "accepted"}
      BY <1>6, SentLogin
    <2>2. ASSUME NEW c \in Conns
          PROVE  /\ \A i \in DOMAIN s2c'[c] : \E j \in DOMAIN s2c[c] : s2c'[c][i] = s2c[c][j]
                 /\ s2c[c] = <<>> => s2c'[c] = <<>>
      BY <2>1, RemainingAnswer DEF Readable, ReadAnswer, WireTypeOK
    <2>3. ASSUME NEW c \in Conns, sess[c] \in {"none", "accepted", "closed"}
          PROVE  c2s'[c] = c2s[c]
      BY <2>1, <2>3 DEF WriteRequest, Serving, WireTypeOK
    <2>4. QED
      BY <2>1, <2>2, <2>3 DEF EndsAgree
  <1>7. conn \in Conns \/ ~Receiving(t)
    BY ReceivingHasConn
  <1>8. QED
    BY <1>1, <1>2, <1>3, <1>4, <1>5, <1>6, <1>7, MethodWire DEF SendOnNil, wireVars, Receiving

-----------------------------------------------------------------------------
(* The connection the adapter holds stays usable. *)
LEMMA MethodConnUsable ==
  ASSUME TypeOK, MutexHeld, EndsAgree, ConnUsable, OneAnswerDue,
         NEW t \in Callers, MethodStep(t)
  PROVE  ConnUsable'
  <1> USE WireAssumption DEF TypeOK
  <1>1. \A u \in Callers \ {t} : pc'[u] = pc[u] /\ ~Receiving(u) /\ ~Receiving(u)'
    BY StepperAlone
  <1>2. CASE UNCHANGED <<wireVars, conn>> /\ ~Receiving(t)' /\ (Receiving(t) => pc[t] = "receive")
    BY <1>1, <1>2 DEF ConnUsable, Receiving, wireVars
  <1>3. CASE SendOnNil(t) /\ ~Receiving(t)'
    BY <1>1, <1>3 DEF SendOnNil, ConnUsable
  <1>4. CASE CloseConn /\ ~Receiving(t)'
    BY <1>1, <1>4 DEF CloseConn, ConnUsable
  <1>5. CASE /\ pc[t] \in {"receive", "login"} /\ ~Receiving(t)'
             /\ pc[t] = "login" => Head(s2c[conn]).res = "ok"
             /\ Readable(conn) /\ ReadAnswer(conn) /\ UNCHANGED <<sess, conn>>
    <2>1. conn \in Conns /\ Receiving(t)
      BY <1>5, ReceivingHasConn DEF Receiving
    <2>2. sess[conn] \in {"authed", "closed"}
      <3>1. CASE pc[t] = "receive"
        BY <1>1, <2>1, <3>1 DEF ConnUsable, Receiving
      <3>2. CASE pc[t] = "login"
        <4>1. /\ s2c[conn] \in Seq(Answer) /\ s2c[conn] # <<>> /\ Len(s2c[conn]) <= 1
              /\ \A i \in DOMAIN s2c[conn] : s2c[conn][i].kind = "login"
          BY <1>5, <2>1, <3>2 DEF OneAnswerDue, Readable, Awaited, WireTypeOK
        <4>2. 1 \in DOMAIN s2c[conn] /\ Head(s2c[conn]) = s2c[conn][1]
          BY <4>1, FirstFrame
        <4>3. s2c[conn][1].kind = "login" /\ s2c[conn][1].res = "ok"
          BY <1>5, <3>2, <4>1, <4>2
        <4>4. QED
          BY <2>1, <4>2, <4>3 DEF EndsAgree
      <3>3. QED
        BY <1>5, <3>1, <3>2
    <2>3. QED
      BY <1>1, <1>5, <2>1, <2>2 DEF ConnUsable, Receiving, ReadAnswer
  <1>6. CASE Send(t) /\ pc[t] = "send" /\ pc'[t] = "receive"
    BY <1>1, <1>6 DEF Send, ConnUsable, Receiving
  <1>7. CASE Dial(t) /\ pc'[t] = "greeting"
    <2>1. PICK c \in Conns : Connect(c) /\ conn' = c
      BY <1>7 DEF Dial
    <2>2. link'[c] = "up" /\ conn' # NoConn /\ conn' = c
      BY <2>1 DEF Connect, WireTypeOK
    <2>3. QED
      BY <1>1, <1>7, <2>2 DEF ConnUsable, Receiving
  <1>8. CASE ReadGreeting(t) /\ pc[t] = "greeting" /\ pc'[t] = "login"
    <2>1. conn \in Conns /\ UNCHANGED <<conn, link, sess>> /\ sess[conn] \notin {"none", "accepted"}
      BY <1>8, SentLogin
    <2>2. QED
      BY <1>1, <1>8, <2>1 DEF ConnUsable, Receiving
  <1>9. QED
    BY <1>2, <1>3, <1>4, <1>5, <1>6, <1>7, <1>8, MethodWire

(* At most one frame is under way after a step of a method. *)
LEMMA MethodOneAnswerDue ==
  ASSUME TypeOK, MutexHeld, EndsAgree, ConnUsable, OneAnswerDue,
         NEW t \in Callers, MethodStep(t)
  PROVE  OneAnswerDue'
  <1> USE WireAssumption DEF TypeOK
  <1>1. /\ \A u \in Callers \ {t} : ~Receiving(u) /\ ~Receiving(u)'
        /\ UNCHANGED <<made, kind>>
    BY StepperAlone
  <1>2. conn' \in Conns \cup {NoConn} /\ conn \in Conns \cup {NoConn} /\ WireTypeOK'
    BY MethodTypeOK DEF AdapterTypeOK
  <1>3. ASSUME ~Receiving(t)',
               conn' \in Conns /\ link'[conn'] = "up" => c2s'[conn'] = <<>> /\ s2c'[conn'] = <<>>
        PROVE  OneAnswerDue'
    BY <1>1, <1>2, <1>3 DEF OneAnswerDue
  <1>4. CASE /\ UNCHANGED <<wireVars, conn>> /\ ~Receiving(t)'
             /\ Receiving(t) => ReadFails(conn)
    <2>1. CASE ~Receiving(t)
      BY <1>1, <1>2, <1>3, <1>4, <2>1 DEF OneAnswerDue, wireVars
    <2>2. CASE Receiving(t) /\ conn \in Conns /\ link[conn] = "up"
      <3>1. sess[conn] \in {"none", "closed"} /\ s2c[conn] = <<>>
        BY <1>4, <2>2 DEF ReadFails, Serving
      <3>2. c2s[conn] = <<>>
        BY <2>2, <3>1 DEF EndsAgree
      <3>3. QED
        BY <1>3, <1>4, <3>1, <3>2 DEF wireVars
    <2>3. QED
      BY <1>2, <1>3, <1>4, <2>1, <2>2 DEF wireVars
  <1>5. CASE SendOnNil(t) /\ ~Receiving(t)'
    BY <1>3, <1>5 DEF SendOnNil
  <1>6. CASE CloseConn /\ ~Receiving(t)'
    BY <1>3, <1>6 DEF CloseConn
  <1>7. CASE /\ Receiving(t) /\ ~Receiving(t)'
             /\ Readable(conn) /\ ReadAnswer(conn) /\ UNCHANGED <<c2s, conn>>
    <2>1. conn \in Conns
      BY <1>7, ReceivingHasConn
    <2>2. s2c[conn] \in Seq(Answer) /\ s2c[conn] # <<>> /\ Len(s2c[conn]) <= 1 /\ c2s[conn] = <<>>
      BY <1>7, <2>1 DEF OneAnswerDue, Readable, WireTypeOK
    <2>3. s2c'[conn] = <<>>
      BY <1>7, <2>1, <2>2, OneFrame DEF ReadAnswer, WireTypeOK
    <2>4. QED
      BY <1>3, <1>7, <2>2, <2>3
  <1>8. CASE Dial(t) /\ pc'[t] = "greeting"
    <2>1. PICK c \in Conns : Connect(c) /\ conn' = c
      BY <1>8 DEF Dial
    <2>2. c2s[c] = <<>> /\ s2c[c] = <<>>
      BY <2>1 DEF Connect, EndsAgree
    <2>3. c2s'[conn'] = <<>> /\ s2c'[conn'] = <<>>
      BY <2>1, <2>2 DEF Connect
    <2>4. QED
      BY <1>1, <2>3 DEF OneAnswerDue
  <1>9. ASSUME NEW r \in Request, WriteRequest(conn, r), conn \in Conns, UNCHANGED conn,
               c2s[conn] = <<>>, s2c'[conn] = <<>>, Receiving(t)', pc'[t] # "greeting",
               Awaited(t, r)'
        PROVE  OneAnswerDue'
    <2>1. c2s'[conn] = <<>> \/ c2s'[conn] = Append(<<>>, r)
      BY <1>9 DEF WriteRequest, WireTypeOK
    <2>2. CASE c2s'[conn] = <<>>
      BY <1>1, <1>9, <2>2 DEF OneAnswerDue
    <2>3. CASE c2s'[conn] = Append(<<>>, r)
      <3>1. Len(c2s'[conn]) = 1 /\ DOMAIN c2s'[conn] = {1} /\ c2s'[conn][1] = r
        BY <1>9, <2>3, OnlyFrame
      <3>2. Awaited(t, c2s[conn][1])'
        BY <1>9, <3>1
      <3>3. QED
        BY <1>1, <1>9, <3>1, <3>2 DEF OneAnswerDue
    <2>4. QED
      BY <2>1, <2>2, <2>3
  <1>10. ASSUME conn' \in Conns, link'[conn'] # "up"
         PROVE  OneAnswerDue'
    BY <1>10 DEF OneAnswerDue
  <1>11. CASE Send(t) /\ pc[t] = "send" /\ pc'[t] = "receive"
    <2>1. PICK r \in Request :
            /\ WriteRequest(conn, r) /\ conn \in Conns /\ UNCHANGED <<conn, link, s2c>>
            /\ r.call = Current(t) /\ r.kind = WireKind(kind[Current(t)])
            /\ r.kind # "hello" => r.cl = clTRID'
      BY <1>11, SentRequest
    <2>2. CASE link[conn] = "up"
      <3>1. \A u \in Callers : ~Receiving(u)
        BY <1>1, <1>11, StepperAlone DEF Receiving
      <3>2. c2s[conn] = <<>> /\ s2c'[conn] = <<>>
        BY <2>1, <2>2, <3>1 DEF OneAnswerDue
      <3>3. Awaited(t, r)'
        BY <1>1, <1>11, <2>1 DEF Awaited, Current
      <3>4. QED
        BY <1>9, <1>11, <2>1, <3>2, <3>3 DEF Receiving
    <2>3. QED
      BY <1>10, <2>1, <2>2
  <1>12. CASE ReadGreeting(t) /\ pc[t] = "greeting" /\ pc'[t] = "login"
    <2>1. PICK r \in Request :
            /\ WriteRequest(conn, r) /\ conn \in Conns /\ UNCHANGED conn
            /\ Readable(conn) /\ ReadAnswer(conn)
            /\ r.call = Current(t) /\ r.kind = "login" /\ r.cl = clTRID'
      BY <1>12, SentLogin
    <2>2. /\ s2c[conn] \in Seq(Answer) /\ s2c[conn] # <<>> /\ Len(s2c[conn]) <= 1
          /\ c2s[conn] = <<>>
      BY <1>12, <2>1 DEF OneAnswerDue, Readable, Receiving, WireTypeOK
    <2>3. s2c'[conn] = <<>>
      BY <2>1, <2>2, OneFrame DEF ReadAnswer, WireTypeOK
    <2>4. Awaited(t, r)'
      BY <1>1, <1>12, <2>1 DEF Awaited, Current
    <2>5. QED
      BY <1>9, <1>12, <2>1, <2>2, <2>3, <2>4 DEF Receiving
  <1>13. QED
    <2>1. pc[t] \in {"receive", "login"} => Receiving(t)
      BY DEF Receiving
    <2>2. QED
      BY <1>4, <1>5, <1>6, <1>7, <1>8, <1>11, <1>12, <2>1, MethodWire

-----------------------------------------------------------------------------
(* The server's steps and the adapter's connection. *)
LEMMA PeerConnUsable ==
  ASSUME TypeOK, EndsAgree, ConnUsable, NEW c \in Conns, Peer(c)
  PROVE  ConnUsable'
  <1>1. /\ link' = link /\ \A d \in Conns \ {c} : sess'[d] = sess[d]
        /\ sess[c] # "closed" /\ sess'[c] \in {"open", "authed", "closed"}
        /\ sess[c] = "authed" => sess'[c] \in {"authed", "closed"}
    BY PeerStepLocal DEF Peer, TypeOK
  <1>2. UNCHANGED <<pc, conn>>
    BY DEF Peer, adapterVars
  <1>3. conn \in Conns \cup {NoConn}
    BY DEF TypeOK, AdapterTypeOK
  <1>4. QED
    BY <1>1, <1>2, <1>3 DEF ConnUsable, Receiving

(* At most one frame is under way after a step of the server: a request
   gives way to its answer, a connection just accepted gets its greeting.  *)
LEMMA PeerOneAnswerDue ==
  ASSUME TypeOK, MutexHeld, EndsAgree, ConnUsable, OneAnswerDue, NEW c \in Conns, Peer(c)
  PROVE  OneAnswerDue'
  <1> USE DEF TypeOK
  <1>1. /\ link' = link
        /\ \A d \in Conns \ {c} : c2s'[d] = c2s[d] /\ s2c'[d] = s2c[d]
    BY PeerStepLocal DEF Peer
  <1>2. UNCHANGED <<pc, conn, made, kind, clTRID, mu>>
    BY DEF Peer, adapterVars
  <1>3. CASE conn # c \/ link[c] # "up"
    BY <1>1, <1>2, <1>3 DEF OneAnswerDue, Receiving, Awaited, Current, AdapterTypeOK
  <1>4. CASE conn = c /\ link[c] = "up"
    <2>1. c # NoConn /\ c2s[c] \in Seq(Request) /\ s2c[c] \in Seq(Answer)
      BY WireAssumption DEF WireTypeOK
    <2>2. ASSUME NEW a \in Answer, WriteAnswer(c, a), c2s'[c] = <<>>, s2c[c] = <<>>,
                 NEW t \in Callers, Receiving(t), Awaited(t, a)
          PROVE  OneAnswerDue'
      <3>1. s2c'[c] = Append(<<>>, a)
        BY <1>4, <2>2 DEF WriteAnswer, WireTypeOK
      <3>2. Len(s2c'[c]) = 1 /\ DOMAIN s2c'[c] = {1} /\ s2c'[c][1] = a
        BY <3>1, OnlyFrame
      <3>3. \A u \in Callers : Receiving(u) => u = t
        BY <2>2, HolderAlone DEF Receiving, Held
      <3>4. DOMAIN c2s'[c] = {} /\ Len(c2s'[c]) = 0
        BY <2>1, <2>2, FirstFrame
      <3>5. Awaited(t, a)' /\ Receiving(t)' /\ \A u \in Callers : Receiving(u)' => u = t
        BY <1>2, <2>2, <3>3 DEF Receiving, Awaited, Current
      <3>6. \A i \in DOMAIN s2c'[c] : Awaited(t, s2c[c][i])'
        BY <3>2, <3>5
      <3>7. conn' = c
        BY <1>2, <1>4
      <3>8. /\ \A i \in DOMAIN c2s'[c] : pc'[t] # "greeting" /\ Awaited(t, c2s[c][i])'
            /\ Len(s2c'[c]) <= 1 /\ Len(c2s'[c]) <= 1 /\ c2s'[c] = <<>>
        BY <2>2, <3>2, <3>4
      <3>9. QED
        BY <3>5, <3>6, <3>7, <3>8 DEF OneAnswerDue
    <2>3. CASE s2c' = s2c /\ c2s'[c] = <<>>
      <3>1. DOMAIN c2s'[c] = {} /\ Len(c2s'[c]) = 0
        BY <2>1, <2>3, FirstFrame
      <3>2. QED
        BY <1>1, <1>2, <1>4, <2>1, <2>3, <3>1 DEF OneAnswerDue, Receiving, Awaited, Current
    <2>4. ASSUME NEW offered \in SUBSET Exts, NEW res \in Results,
                 sess[c] = "accepted", UNCHANGED c2s,
                 WriteAnswer(c, [kind |-> "connect", call |-> NoCall, cl |-> 0,
                                 res |-> res, ext |-> offered])
          PROVE  OneAnswerDue'
      <3> DEFINE a == [kind |-> "connect", call |-> NoCall, cl |-> 0, res |-> res, ext |-> offered]
      <3>1. a \in Answer
        BY DEF Answer
      <3>2. c2s'[c] = <<>> /\ s2c[c] = <<>>
        BY <2>4 DEF EndsAgree
      <3>3. PICK t \in Callers : pc[t] = "greeting"
        BY <1>4, <2>1, <2>4 DEF ConnUsable
      <3>4. Receiving(t) /\ Awaited(t, a)
        BY <3>3 DEF Receiving, Awaited
      <3>5. QED
        BY <2>2, <2>4, <3>1, <3>2, <3>4
    <2>5. ASSUME c2s[c] # <<>>
          PROVE  /\ Tail(c2s[c]) = <<>> /\ s2c[c] = <<>>
                 /\ \E t \in Callers : /\ Receiving(t)
                                       /\ \A res \in Results : Awaited(t, Reply(Head(c2s[c]), res))
                 /\ \A res \in Results : Reply(Head(c2s[c]), res) \in Answer
      <3>1. s2c[c] = <<>> /\ Len(c2s[c]) <= 1
        BY <1>4, <2>1, <2>5 DEF OneAnswerDue
      <3>2. Tail(c2s[c]) = <<>> /\ Head(c2s[c]) = c2s[c][1] /\ 1 \in DOMAIN c2s[c]
        BY <2>1, <2>5, <3>1, OneFrame
      <3>3. PICK t \in Callers : Receiving(t)
        BY <1>4, <2>1, <2>5 DEF OneAnswerDue
      <3>4. pc[t] # "greeting" /\ Awaited(t, c2s[c][1])
        BY <1>4, <2>1, <3>2, <3>3 DEF OneAnswerDue
      <3>5. ASSUME NEW res \in Results
            PROVE  Awaited(t, Reply(Head(c2s[c]), res)) /\ Reply(Head(c2s[c]), res) \in Answer
        <4>1. Head(c2s[c]) \in Request
          BY <2>1, <2>5
        <4>2. Reply(Head(c2s[c]), res) \in Answer
          BY <4>1, ReplyIsAnswer
        <4>3. Awaited(t, Reply(Head(c2s[c]), res))
          BY <3>2, <3>4 DEF Awaited, Reply
        <4>4. QED
          BY <4>2, <4>3
      <3>6. QED
        BY <3>1, <3>2, <3>3, <3>5
    <2>6. ASSUME c2s[c] # <<>>, TakeRequest(c) \/ c2s' = [c2s EXCEPT ![c] = <<>>]
          PROVE  c2s'[c] = <<>>
      BY <2>5, <2>6 DEF TakeRequest, WireTypeOK
    <2>7. QED
      <3>1. CASE c2s[c] # <<>> /\ (TakeRequest(c) \/ c2s' = [c2s EXCEPT ![c] = <<>>])
        <4>1. ASSUME NEW res \in Results, WriteAnswer(c, Reply(Head(c2s[c]), res))
              PROVE  OneAnswerDue'
          BY <2>2, <2>5, <2>6, <3>1, <4>1
        <4>2. CASE s2c' = s2c
          BY <2>3, <2>6, <3>1, <4>2
        <4>3. CASE \E offered \in SUBSET Exts, res \in Results :
              /\ sess[c] = "accepted" /\ UNCHANGED c2s
              /\ WriteAnswer(c, [kind |-> "connect", call |-> NoCall, cl |-> 0,
                                 res |-> res, ext |-> offered])
          BY <2>4, <4>3
        <4>4. QED
          BY <4>1, <4>2, <4>3, PeerAnswers DEF Peer
      <3>2. CASE s2c' = s2c /\ c2s' = [c2s EXCEPT ![c] = <<>>]
        BY <2>3, <3>2 DEF WireTypeOK
      <3>3. QED
        BY <2>4, <3>1, <3>2, PeerAnswers DEF Peer
  <1>5. QED
    BY <1>3, <1>4

-----------------------------------------------------------------------------
(* The callers and the network.  A caller touches no connection, and changes
   nothing for a goroutine that waits for a frame.                         *)
LEMMA CallerStepLocal ==
  ASSUME AdapterTypeOK, NEW t \in Callers, CallerStep(t)
  PROVE  /\ UNCHANGED <<wireVars, conn, clTRID>>
         /\ \A u \in Callers :
              /\ Receiving(u)' <=> Receiving(u)
              /\ Receiving(u) => /\ pc'[u] = pc[u] /\ Current(u)' = Current(u)
                                 /\ kind'[Current(u)] = kind[Current(u)]
  <1> USE DEF AdapterTypeOK, Receiving, Current, At, Goto
  <1>1. ASSUME pc[t] = "idle", pc' = [pc EXCEPT ![t] = "lock"] \/ pc' = pc,
               made' = [made EXCEPT ![t] = @ + 1],
               NEW op \in Operations, kind' = [kind EXCEPT ![<<t, made[t] + 1>>] = op],
               NEW u \in Callers
        PROVE  /\ Receiving(u)' <=> Receiving(u)
               /\ Receiving(u) => /\ pc'[u] = pc[u] /\ Current(u)' = Current(u)
                                  /\ kind'[Current(u)] = kind[Current(u)]
    <2>1. CASE u = t
      BY <1>1, <2>1
    <2>2. CASE u # t
      <3>1. made'[u] = made[u] /\ pc'[u] = pc[u] /\ <<u, made[u]>> # <<t, made[t] + 1>>
        BY <1>1, <2>2
      <3>2. kind'[<<u, made[u]>>] = kind[<<u, made[u]>>]
        BY <1>1, <3>1
      <3>3. QED
        BY <3>1, <3>2
    <2>3. QED
      BY <2>1, <2>2
  <1>2. ASSUME NEW op \in Operations, Invoke(t, op)
        PROVE  /\ pc[t] = "idle" /\ pc' = [pc EXCEPT ![t] = "lock"]
               /\ UNCHANGED <<wireVars, conn, clTRID>>
               /\ made' = [made EXCEPT ![t] = @ + 1]
               /\ kind' = [kind EXCEPT ![<<t, made[t] + 1>>] = op]
    BY <1>2 DEF Invoke, wireVars
  <1>3. ASSUME NEW op \in Operations, RejectInvalid(t, op)
        PROVE  /\ pc[t] = "idle" /\ pc' = pc
               /\ UNCHANGED <<wireVars, conn, clTRID>>
               /\ made' = [made EXCEPT ![t] = @ + 1]
               /\ kind' = [kind EXCEPT ![<<t, made[t] + 1>>] = op]
    BY <1>3 DEF RejectInvalid, wireVars
  <1>4. CASE CancelContext(t)
    <2>1. UNCHANGED <<pc, made, kind, wireVars, conn, clTRID>>
      BY <1>4 DEF CancelContext
    <2>2. QED
      BY <2>1
  <1>5. CASE \E op \in Operations : Invoke(t, op)
    BY <1>1, <1>2, <1>5
  <1>6. CASE \E op \in Operations : RejectInvalid(t, op)
    BY <1>1, <1>3, <1>6
  <1>7. QED
    BY <1>4, <1>5, <1>6 DEF CallerStep

(* A caller's step preserves the invariant of the wire. *)
LEMMA CallerInv ==
  ASSUME TypeOK, EndsAgree, ConnUsable, OneAnswerDue, NEW t \in Callers, CallerStep(t)
  PROVE  EndsAgree' /\ ConnUsable' /\ OneAnswerDue'
  <1>1. /\ UNCHANGED <<link, sess, c2s, s2c, conn, clTRID>>
        /\ \A u \in Callers : Receiving(u)' <=> Receiving(u)
        /\ \A u \in Callers : Receiving(u) =>
              /\ pc'[u] = pc[u] /\ Current(u)' = Current(u)
              /\ kind'[Current(u)] = kind[Current(u)]
    BY CallerStepLocal DEF TypeOK, wireVars
  <1>2. EndsAgree'
    BY <1>1 DEF EndsAgree
  <1>3. ConnUsable'
    <2>1. \A u \in Callers : pc[u] = "greeting" => pc'[u] = "greeting"
      BY <1>1 DEF Receiving
    <2>2. \A u \in Callers : pc[u] \in {"greeting", "login"} => pc'[u] \in {"greeting", "login"}
      BY <1>1 DEF Receiving
    <2>3. QED
      BY <1>1, <2>1, <2>2 DEF ConnUsable
  <1>4. OneAnswerDue'
    <2>1. ASSUME NEW u \in Callers, NEW f, Receiving(u), Awaited(u, f)
          PROVE  Awaited(u, f)'
      BY <1>1, <2>1 DEF Awaited
    <2>2. QED
      BY <1>1, <2>1 DEF OneAnswerDue, Receiving
  <1>5. QED
    BY <1>2, <1>3, <1>4

(* The network breaks the client's end. *)
LEMMA BreakLinkInv ==
  ASSUME TypeOK, EndsAgree, ConnUsable, OneAnswerDue, NEW c \in Conns,
         BreakLink(c), UNCHANGED adapterVars
  PROVE  EndsAgree' /\ ConnUsable' /\ OneAnswerDue'
  <1> USE DEF TypeOK, WireTypeOK, BreakLink
  <1>1. EndsAgree'
    <2>1. ASSUME NEW d \in Conns
          PROVE  link'[d] = link[d] \/ (link[d] = "up" /\ link'[d] = "broken")
      <3>1. CASE d = c
        BY <3>1
      <3>2. CASE d # c
        BY <3>2
      <3>3. QED
        BY <3>1, <3>2
    <2>2. ASSUME NEW d \in Conns
          PROVE  s2c'[d] = s2c[d] \/ s2c'[d] = <<>>
      OBVIOUS
    <2>3. ASSUME NEW d \in Conns, s2c'[d] = <<>>
          PROVE  DOMAIN s2c'[d] = {}
      BY <2>3, FirstFrame
    <2>4. QED
      BY <2>1, <2>2, <2>3 DEF EndsAgree
  <1>2. UNCHANGED <<pc, conn, made, kind, clTRID, sess, c2s>>
    BY DEF adapterVars
  <1>3. ConnUsable'
    BY <1>2 DEF ConnUsable, Receiving, AdapterTypeOK
  <1>4. OneAnswerDue'
    <2>1. CASE conn = c
      BY <1>2, <2>1 DEF OneAnswerDue
    <2>2. CASE conn # c
      BY <1>2, <2>2 DEF OneAnswerDue, Receiving, Awaited, Current, AdapterTypeOK
    <2>3. QED
      BY <2>1, <2>2
  <1>5. QED
    BY <1>1, <1>3, <1>4

(* The invariant of the wire: the mutex, the two ends of a connection, and
   the one frame under way on the adapter's connection.                    *)
WireInv == MutexHeld /\ EndsAgree /\ ConnUsable /\ OneAnswerDue

LEMMA InitWireInv == Init => WireInv
  <1> SUFFICES ASSUME Init PROVE WireInv
    OBVIOUS
  <1> USE DEF Init, AdapterInit, WireInit
  <1>1. MutexHeld
    BY AdapterAssumption DEF MutexHeld
  <1>2. EndsAgree
    BY DEF EndsAgree
  <1>3. ConnUsable /\ OneAnswerDue
    BY DEF ConnUsable, Receiving, OneAnswerDue
  <1>4. QED
    BY <1>1, <1>2, <1>3 DEF WireInv

LEMMA StepWireInv ==
  ASSUME TypeOK, WireInv, [Next]_vars
  PROVE  WireInv'
  <1> USE DEF WireInv, TypeOK
  <1>1. MutexHeld'
    BY StepMutexHeld
  <1>2. ASSUME NEW t \in Callers, MethodStep(t)
        PROVE  EndsAgree' /\ ConnUsable' /\ OneAnswerDue'
    BY <1>2, MethodEndsAgree, MethodConnUsable, MethodOneAnswerDue
  <1>3. ASSUME NEW c \in Conns, Peer(c)
        PROVE  EndsAgree' /\ ConnUsable' /\ OneAnswerDue'
    BY <1>3, PeerEndsAgree, PeerConnUsable, PeerOneAnswerDue DEF Peer
  <1>4. ASSUME NEW t \in Callers, CallerStep(t)
        PROVE  EndsAgree' /\ ConnUsable' /\ OneAnswerDue'
    BY <1>4, CallerInv
  <1>5. ASSUME NEW c \in Conns, BreakLink(c), UNCHANGED <<adapterVars, peerVars>>
        PROVE  EndsAgree' /\ ConnUsable' /\ OneAnswerDue'
    BY <1>5, BreakLinkInv
  <1>6. CASE UNCHANGED vars
    <2>1. UNCHANGED <<pc, conn, made, kind, clTRID, link, sess, c2s, s2c>>
      BY <1>6 DEF vars, adapterVars, wireVars
    <2>2. EndsAgree' /\ ConnUsable'
      BY <2>1 DEF EndsAgree, ConnUsable, Receiving
    <2>3. ASSUME NEW u \in Callers, NEW f, Awaited(u, f)
          PROVE  Awaited(u, f)'
      BY <2>1, <2>3 DEF Awaited, Current
    <2>4. OneAnswerDue'
      BY <2>1, <2>3 DEF OneAnswerDue, Receiving
    <2>5. QED
      BY <1>1, <2>2, <2>4
  <1>7. QED
    BY <1>1, <1>2, <1>3, <1>4, <1>5, <1>6 DEF Next, Adapter, Environment

-----------------------------------------------------------------------------
(* Requests.  A step leaves the unread requests alone, takes the first one,
   drops all of a connection, or adds one with a fresh clTRID.             *)
LEMMA StepRequests ==
  ASSUME TypeOK, WireInv, [Next]_vars
  PROVE  \/ UNCHANGED c2s /\ clTRID' >= clTRID
         \/ /\ \E c \in Conns : \/ c2s[c] # <<>> /\ TakeRequest(c)
                                \/ c2s' = [c2s EXCEPT ![c] = <<>>]
            /\ UNCHANGED clTRID
         \/ \E c \in Conns, r \in Request :
              /\ WriteRequest(c, r)
              /\ r.kind # "hello" => r.cl = clTRID' /\ clTRID' = clTRID + 1
              /\ r.kind = "hello" => r.cl = 0 /\ UNCHANGED clTRID
              /\ r.kind = "login" \/ sess[c] \in {"authed", "closed"}
  <1> DEFINE Taken == /\ \E c \in Conns : \/ c2s[c] # <<>> /\ TakeRequest(c)
                                          \/ c2s' = [c2s EXCEPT ![c] = <<>>]
                      /\ UNCHANGED clTRID
             Kept == UNCHANGED c2s /\ clTRID' >= clTRID
             Added == \E c \in Conns, r \in Request :
                        /\ WriteRequest(c, r)
                        /\ r.kind # "hello" => r.cl = clTRID' /\ clTRID' = clTRID + 1
                        /\ r.kind = "hello" => r.cl = 0 /\ UNCHANGED clTRID
                        /\ r.kind = "login" \/ sess[c] \in {"authed", "closed"}
  <1> USE DEF WireInv, TypeOK
  <1>1. clTRID \in Nat
    BY DEF AdapterTypeOK
  <1>2. ASSUME UNCHANGED <<c2s, clTRID>>
        PROVE  Kept
    BY <1>1, <1>2
  <1>3. ASSUME NEW t \in Callers, MethodStep(t)
        PROVE  Kept \/ Added
    <2>1. CASE SendOnNil(t)
      BY <1>1, <2>1 DEF SendOnNil, NextClTRID, wireVars
    <2>2. CASE Send(t)
      BY <2>2, SentRequest
    <2>3. CASE ReadGreeting(t)
      BY <2>3, SentLogin
    <2>4. CASE Dial(t)
      BY <1>2, <2>4 DEF Dial, Connect
    <2>5. CASE UNCHANGED <<c2s, clTRID>>
      BY <1>2, <2>5
    <2>6. QED
      BY <1>3, <2>1, <2>2, <2>3, <2>4, <2>5, MethodWire DEF wireVars
  <1>4. ASSUME NEW c \in Conns, Peer(c)
        PROVE  Kept \/ Taken
    <2>1. UNCHANGED clTRID
      BY <1>4 DEF Peer, adapterVars
    <2>2. \/ UNCHANGED c2s
          \/ c2s[c] # <<>> /\ TakeRequest(c)
          \/ c2s' = [c2s EXCEPT ![c] = <<>>]
      BY <1>4, PeerAnswers DEF Peer
    <2>3. QED
      BY <1>2, <2>1, <2>2
  <1>5. ASSUME Environment
        PROVE  Kept
    <2>1. ASSUME NEW t \in Callers, CallerStep(t)
          PROVE  Kept
      BY <1>2, <2>1, CallerStepLocal DEF wireVars
    <2>2. ASSUME NEW c \in Conns, BreakLink(c), UNCHANGED <<adapterVars, peerVars>>
          PROVE  Kept
      BY <1>2, <2>2 DEF BreakLink, adapterVars
    <2>3. QED
      BY <1>5, <2>1, <2>2 DEF Environment
  <1>6. ASSUME UNCHANGED vars
        PROVE  Kept
    BY <1>2, <1>6 DEF vars, adapterVars, wireVars
  <1> HIDE DEF Kept, Taken, Added
  <1>7. Kept \/ Taken \/ Added
    BY <1>3, <1>4, <1>5, <1>6 DEF Next, Adapter
  <1>8. QED
    BY <1>7 DEF Kept, Taken, Added

(* A confirmed login stays confirmed until the session ends. *)
LEMMA StepSessions ==
  ASSUME TypeOK, WireInv, [Next]_vars, NEW c \in Conns, sess[c] \in {"authed", "closed"}
  PROVE  sess'[c] \in {"authed", "closed"}
  <1> USE DEF WireInv, TypeOK
  <1>1. ASSUME NEW t \in Callers, MethodStep(t)
        PROVE  sess'[c] = sess[c]
    <2>1. CASE Dial(t)
      BY <2>1 DEF Dial, Connect, EndsAgree, WireTypeOK
    <2>2. CASE UNCHANGED sess
      BY <2>2
    <2>3. CASE Send(t) \/ ReadGreeting(t) \/ SendOnNil(t)
      BY <2>3 DEF Send, ReadGreeting, SendOnNil, wireVars
    <2>4. QED
      BY <1>1, <2>1, <2>2, <2>3, MethodWire DEF wireVars
  <1>2. ASSUME NEW d \in Conns, Peer(d)
        PROVE  sess'[c] \in {"authed", "closed"}
    BY <1>2, PeerStepLocal DEF Peer
  <1>3. CASE Environment
    <2>1. UNCHANGED sess
      BY <1>3, CallerStepLocal DEF Environment, BreakLink, wireVars
    <2>2. QED
      BY <2>1
  <1>4. CASE UNCHANGED vars
    BY <1>4 DEF vars, wireVars
  <1>5. QED
    BY <1>1, <1>2, <1>3, <1>4 DEF Next, Adapter

(* Commands only reach sessions that are logged in, after every step. *)
LEMMA StepCommandsAfterLogin ==
  ASSUME TypeOK, WireInv, CommandsAfterLogin, [Next]_vars
  PROVE  CommandsAfterLogin'
  <1> SUFFICES ASSUME NEW c \in Conns, NEW i \in DOMAIN c2s'[c],
                      c2s'[c][i].kind \in {"query", "transform", "logout"}
               PROVE  sess'[c] \in {"authed", "closed"}
    BY DEF CommandsAfterLogin
  <1>1. WireTypeOK
    BY DEF TypeOK
  <1>2. ASSUME NEW j \in DOMAIN c2s[c], c2s'[c][i] = c2s[c][j]
        PROVE  sess[c] \in {"authed", "closed"}
    BY <1>2 DEF CommandsAfterLogin
  <1>3. ASSUME NEW d \in Conns, c2s[d] # <<>>, TakeRequest(d)
        PROVE  sess[c] \in {"authed", "closed"}
    BY <1>1, <1>2, <1>3, RemainingRequest
  <1>4. ASSUME NEW d \in Conns, c2s' = [c2s EXCEPT ![d] = <<>>]
        PROVE  sess[c] \in {"authed", "closed"}
    <2>1. d # c
      BY <1>1, <1>4 DEF WireTypeOK
    <2>2. QED
      BY <1>1, <1>2, <1>4, <2>1 DEF WireTypeOK
  <1>5. ASSUME NEW d \in Conns, NEW r \in Request, WriteRequest(d, r),
               r.kind = "login" \/ sess[d] \in {"authed", "closed"}
        PROVE  sess[c] \in {"authed", "closed"}
    BY <1>1, <1>2, <1>5, WrittenRequest
  <1>6. sess[c] \in {"authed", "closed"}
    BY <1>2, <1>3, <1>4, <1>5, StepRequests
  <1>7. QED
    BY <1>6, StepSessions

(* The counter is ahead of every unread request, and no two unread commands
   share a clTRID, after every step.                                       *)
LEMMA StepClTRIDs ==
  ASSUME TypeOK, WireInv, ClTRIDsIssued, ClTRIDsDiffer, [Next]_vars
  PROVE  ClTRIDsIssued' /\ ClTRIDsDiffer'
  <1>1. /\ clTRID \in Nat /\ WireTypeOK
        /\ \A c \in Conns : \A i \in DOMAIN c2s[c] : c2s[c][i].cl \in Nat /\ i \in Nat
    <2>1. clTRID \in Nat /\ WireTypeOK
      BY DEF TypeOK, AdapterTypeOK
    <2>2. ASSUME NEW c \in Conns, NEW i \in DOMAIN c2s[c]
          PROVE  c2s[c][i] \in Request /\ i \in Nat
      <3>1. c2s[c] \in Seq(Request)
        BY <2>1 DEF WireTypeOK
      <3>2. QED
        BY <3>1
    <2>3. \A r \in Request : r.cl \in Nat
      BY DEF Request
    <2>4. QED
      BY <2>1, <2>2, <2>3
  <1>2. CASE UNCHANGED c2s /\ clTRID' >= clTRID
    <2>1. clTRID' \in Nat
      BY StepTypeOK DEF WireInv, TypeOK, AdapterTypeOK
    <2>2. QED
      BY <1>1, <1>2, <2>1 DEF ClTRIDsIssued, ClTRIDsDiffer
  <1>3. ASSUME NEW c \in Conns, c2s[c] # <<>>, TakeRequest(c), UNCHANGED clTRID
        PROVE  ClTRIDsIssued' /\ ClTRIDsDiffer'
    <2> DEFINE Was(d, i) == IF d = c THEN i + 1 ELSE i
    <2>1. ASSUME NEW d \in Conns, NEW i \in DOMAIN c2s'[d]
          PROVE  Was(d, i) \in DOMAIN c2s[d] /\ c2s'[d][i] = c2s[d][Was(d, i)]
      BY <1>1, <1>3, RemainingRequest
    <2>2. ASSUME NEW d \in Conns, NEW i \in DOMAIN c2s'[d], NEW j \in DOMAIN c2s'[d],
                 Was(d, i) = Was(d, j)
          PROVE  i = j
      <3>1. c2s'[d] \in Seq(Request)
        BY StepTypeOK DEF WireInv, TypeOK, WireTypeOK
      <3>2. i \in Nat /\ j \in Nat
        BY <3>1
      <3>3. QED
        BY <2>2, <3>2
    <2> HIDE DEF Was
    <2>3. ClTRIDsIssued'
      BY <1>3, <2>1 DEF ClTRIDsIssued
    <2>4. ClTRIDsDiffer'
      BY <2>1, <2>2 DEF ClTRIDsDiffer
    <2>5. QED
      BY <2>3, <2>4
  <1>4. ASSUME NEW c \in Conns, c2s' = [c2s EXCEPT ![c] = <<>>], UNCHANGED clTRID
        PROVE  ClTRIDsIssued' /\ ClTRIDsDiffer'
    <2>1. ASSUME NEW d \in Conns, NEW i \in DOMAIN c2s'[d]
          PROVE  i \in DOMAIN c2s[d] /\ c2s'[d][i] = c2s[d][i]
      BY <1>1, <1>4, <2>1 DEF WireTypeOK
    <2>2. QED
      BY <1>4, <2>1 DEF ClTRIDsIssued, ClTRIDsDiffer
  <1>5. ASSUME NEW c \in Conns, NEW r \in Request, WriteRequest(c, r),
               r.kind # "hello" => r.cl = clTRID' /\ clTRID' = clTRID + 1,
               r.kind = "hello" => r.cl = 0 /\ UNCHANGED clTRID
        PROVE  ClTRIDsIssued' /\ ClTRIDsDiffer'
    <2>1. ASSUME NEW d \in Conns, NEW i \in DOMAIN c2s'[d]
          PROVE  \/ i \in DOMAIN c2s[d] /\ c2s'[d][i] = c2s[d][i] /\ c2s'[d][i].cl <= clTRID
                                        /\ c2s'[d][i].cl \in Nat
                 \/ d = c /\ i = Len(c2s[c]) + 1 /\ c2s'[d][i] = r
      BY <1>1, <1>5, WrittenRequest DEF ClTRIDsIssued
    <2>2. ClTRIDsIssued'
      BY <1>1, <1>5, <2>1 DEF ClTRIDsIssued
    <2>3. ClTRIDsDiffer'
      <3> SUFFICES ASSUME NEW d \in Conns, NEW e \in Conns,
                          NEW i \in DOMAIN c2s'[d], NEW j \in DOMAIN c2s'[e],
                          c2s'[d][i].kind # "hello", c2s'[e][j].kind # "hello",
                          c2s'[d][i].cl = c2s'[e][j].cl
                   PROVE  d = e /\ i = j
        BY DEF ClTRIDsDiffer
      <3>1. CASE /\ i \in DOMAIN c2s[d] /\ c2s'[d][i] = c2s[d][i]
                 /\ j \in DOMAIN c2s[e] /\ c2s'[e][j] = c2s[e][j]
        BY <3>1 DEF ClTRIDsDiffer
      <3>2. r.kind # "hello" => r.cl = clTRID + 1
        BY <1>5
      <3>3. CASE c2s'[d][i] = r /\ c2s'[e][j].cl <= clTRID /\ c2s'[e][j].cl \in Nat
        BY <1>1, <3>2, <3>3
      <3>4. CASE c2s'[e][j] = r /\ c2s'[d][i].cl <= clTRID /\ c2s'[d][i].cl \in Nat
        BY <1>1, <3>2, <3>4
      <3>5. QED
        BY <2>1, <3>1, <3>3, <3>4
    <2>4. QED
      BY <2>2, <2>3
  <1>6. QED
    BY <1>2, <1>3, <1>4, <1>5, StepRequests

-----------------------------------------------------------------------------
(* One connection.  Where a step of a method takes its goroutine, and what it
   does to the adapter's connection.                                       *)
LEMMA MethodPath ==
  ASSUME AdapterTypeOK, NEW t \in Callers, MethodStep(t)
  PROVE  \/ /\ pc[t] = "lock" /\ UNCHANGED <<conn, link>> /\ pc'[t] \in {"close", "send", "dial"}
            /\ pc'[t] = "dial" <=> kind[Current(t)] = "Login"
         \/ pc[t] = "close" /\ CloseConn /\ pc'[t] = "idle"
         \/ pc[t] = "send" /\ conn = NoConn /\ UNCHANGED <<conn, link>> /\ pc'[t] \in {"idle", "panic"}
         \/ pc[t] = "send" /\ conn # NoConn /\ UNCHANGED <<conn, link>> /\ pc'[t] = "receive"
         \/ Receiving(t) /\ UNCHANGED <<conn, link>> /\ pc'[t] \in {"idle", "send", "login"}
         \/ Receiving(t) /\ CloseConn /\ pc'[t] = "idle"
         \/ Receiving(t) /\ CloseConn /\ pc'[t] = "dial" /\ kind[Current(t)] # "Login"
         \/ pc[t] = "dial" /\ UNCHANGED <<conn, link>> /\ pc'[t] = "idle"
         \/ pc[t] = "dial" /\ pc'[t] = "greeting" /\ \E c \in Conns : Connect(c) /\ conn' = c
  <1> USE DEF At, Goto, Return, AdapterTypeOK, wireVars, Receiving
  <1>1. CASE Lock(t)
    BY <1>1 DEF Lock
  <1>2. CASE Close(t)
    BY <1>2 DEF Close
  <1>3. CASE LogoutNotConnected(t) \/ SendOnNil(t) \/ Send(t)
    BY <1>3 DEF LogoutNotConnected, SendOnNil, Send
  <1>4. CASE LoseAnswer(t)
    BY <1>4 DEF LoseAnswer, RetryOnce, GiveUp, WithConnOps
  <1>5. CASE RejectAnswer(t)
    BY <1>5 DEF RejectAnswer, RetryOnce, GiveUp, WithConnOps, ReadAnswer
  <1>6. CASE AcceptAnswer(t) \/ LogoutFails(t)
    BY <1>6 DEF AcceptAnswer, LogoutFails, ReadAnswer
  <1>7. CASE LogoutAnswered(t) \/ DialAborts(t)
    BY <1>7 DEF LogoutAnswered, DialAborts
  <1>8. CASE DialFails(t) \/ Dial(t)
    BY <1>8 DEF DialFails, Dial
  <1>9. CASE ReadGreeting(t) \/ LoginOk(t)
    BY <1>9 DEF ReadGreeting, LoginOk, ReadAnswer
  <1>10. QED
    BY <1>1, <1>2, <1>3, <1>4, <1>5, <1>6, <1>7, <1>8, <1>9 DEF MethodStep

(* The invariant of callers that log in only when no session is up. *)
OneInv == LoginAlone /\ DialFromNothing /\ OneConnection

(* It is preserved by the methods, by the callers, and by every step. *)
LEMMA MethodOneInv ==
  ASSUME TypeOK, WireInv, OneInv, ~Relogin, NEW t \in Callers, MethodStep(t)
  PROVE  OneInv'
  <1> USE DEF WireInv, TypeOK
  <1>1. /\ UNCHANGED <<made, kind>>
        /\ \A u \in Callers \ {t} : pc'[u] = pc[u] /\ pc[u] \in {"idle", "lock"}
    <2>1. mu = t \/ mu = NoCaller
      BY MethodMoves, HolderAlone DEF Takes, Keeps, Leaves
    <2>2. QED
      BY <2>1, AdapterAssumption, StepperAlone DEF MutexHeld
  <1>2. pc[t] = "lock" \/ Receiving(t) \/ pc[t] \in {"close", "send", "dial"}
    BY MethodPath
  <1>3. DialFromNothing'
    <2>1. pc'[t] = "dial" => conn' = NoConn
      BY MethodPath DEF CloseConn, OneInv, LoginAlone
    <2>2. QED
      BY <1>1, <2>1 DEF DialFromNothing
  <1>4. LoginAlone'
    <2> SUFFICES ASSUME NEW u \in Callers, pc'[u] \in {"lock", "dial"}, kind'[Current(u)'] = "Login"
                 PROVE  /\ conn' = NoConn
                        /\ \A v \in Callers \ {u} :
                             pc'[v] # "idle" => /\ pc'[v] \in {"lock", "close", "send", "panic"}
                                                /\ kind'[Current(v)'] # "Login"
      BY DEF LoginAlone
    <2>1. \A v \in Callers : kind'[Current(v)'] = kind[Current(v)]
      BY <1>1 DEF Current
    <2>2. CASE u = t
      <3>1. pc[t] = "lock" /\ conn' = conn
        BY <2>1, <2>2, MethodPath
      <3>2. QED
        BY <1>1, <2>1, <2>2, <3>1 DEF OneInv, LoginAlone
    <2>3. CASE u # t
      <3>1. /\ conn = NoConn
            /\ \A v \in Callers \ {u} :
                 pc[v] # "idle" => /\ pc[v] \in {"lock", "close", "send", "panic"}
                                   /\ kind[Current(v)] # "Login"
        BY <1>1, <2>1, <2>3 DEF OneInv, LoginAlone
      <3>2. pc[t] \in {"lock", "close", "send"} /\ kind[Current(t)] # "Login"
        BY <1>2, <2>3, <3>1 DEF Receiving
      <3>3. conn' = NoConn /\ pc'[t] \in {"idle", "close", "send", "panic"}
        BY <3>1, <3>2, MethodPath DEF CloseConn, Receiving
      <3>4. QED
        BY <1>1, <2>1, <3>1, <3>2, <3>3
    <2>4. QED
      BY <2>2, <2>3
  <1>5. OneConnection'
    <2>1. CASE UNCHANGED <<conn, link>>
      BY <2>1 DEF OneInv, OneConnection
    <2>2. CASE CloseConn
      BY <2>2 DEF CloseConn, ShutLinks, OneInv, OneConnection
    <2>3. ASSUME pc[t] = "dial", NEW c \in Conns, Connect(c), conn' = c
          PROVE  OneConnection'
      <3>1. conn = NoConn
        BY <2>3 DEF OneInv, DialFromNothing
      <3>2. \A d \in Conns : link[d] \notin {"up", "broken"}
        BY <3>1, WireAssumption DEF OneInv, OneConnection
      <3>3. \A d \in Conns \ {c} : link'[d] = link[d]
        BY <2>3 DEF Connect, WireTypeOK
      <3>4. QED
        BY <2>3, <3>2, <3>3 DEF OneConnection
    <2>4. QED
      BY <2>1, <2>2, <2>3, MethodPath
  <1>6. QED
    BY <1>3, <1>4, <1>5 DEF OneInv

LEMMA CallerOneInv ==
  ASSUME TypeOK, OneInv, ~Relogin, NEW t \in Callers, CallerStep(t)
  PROVE  OneInv'
  <1> USE DEF TypeOK
  <1>1. UNCHANGED <<conn, link>>
    BY CallerStepLocal DEF wireVars
  <1>2. OneConnection'
    BY <1>1 DEF OneInv, OneConnection
  <1>3. CASE CancelContext(t)
    <2>1. UNCHANGED <<pc, made, kind>>
      BY <1>3 DEF CancelContext
    <2>2. QED
      BY <1>1, <1>2, <2>1 DEF OneInv, LoginAlone, DialFromNothing, Current
  <1>4. ASSUME NEW op \in Operations, pc[t] = "idle",
               pc' = pc \/ (pc' = [pc EXCEPT ![t] = "lock"] /\ MayInvoke(op)),
               made[t] < MaxCalls, made' = [made EXCEPT ![t] = @ + 1],
               kind' = [kind EXCEPT ![<<t, made[t] + 1>>] = op]
        PROVE  OneInv'
    <2>1. \A u \in Callers : pc'[u] = pc[u] \/ (u = t /\ pc'[u] = "lock")
      BY <1>4 DEF AdapterTypeOK
    <2>2. DialFromNothing'
      BY <1>1, <2>1 DEF OneInv, DialFromNothing
    <2>3. ASSUME NEW u \in Callers \ {t}
          PROVE  pc'[u] = pc[u] /\ kind'[Current(u)'] = kind[Current(u)]
      <3>1. made'[u] = made[u] /\ <<u, made[u]>> # <<t, made[t] + 1>>
        BY <1>4 DEF AdapterTypeOK
      <3>2. kind'[<<u, made[u]>>] = kind[<<u, made[u]>>]
        BY <1>4, <3>1 DEF AdapterTypeOK
      <3>3. QED
        BY <2>1, <3>1, <3>2 DEF Current
    <2>4. kind'[Current(t)'] = op
      <3>1. made'[t] = made[t] + 1 /\ <<t, made[t] + 1>> \in Calls
        BY <1>4, WireAssumption DEF AdapterTypeOK, Calls
      <3>2. QED
        BY <1>4, <3>1 DEF AdapterTypeOK, Current
    <2>5. LoginAlone'
      <3> SUFFICES ASSUME NEW u \in Callers, pc'[u] \in {"lock", "dial"}, kind'[Current(u)'] = "Login"
                   PROVE  /\ conn' = NoConn
                          /\ \A v \in Callers \ {u} :
                               pc'[v] # "idle" => /\ pc'[v] \in {"lock", "close", "send", "panic"}
                                                  /\ kind'[Current(v)'] # "Login"
        BY DEF LoginAlone
      <3>1. CASE u = t
        <4>1. op = "Login" /\ MayInvoke(op)
          BY <1>4, <2>4, <3>1
        <4>2. QED
          BY <1>1, <2>3, <3>1, <4>1 DEF MayInvoke
      <3>2. CASE u # t
        <4>1. /\ conn = NoConn /\ pc[u] # "idle"
              /\ \A v \in Callers \ {u} :
                   pc[v] # "idle" => /\ pc[v] \in {"lock", "close", "send", "panic"}
                                     /\ kind[Current(v)] # "Login"
          BY <2>3, <3>2 DEF OneInv, LoginAlone
        <4>2. pc'[t] # "idle" => pc'[t] = "lock" /\ op # "Login"
          BY <1>4, <2>1, <4>1 DEF MayInvoke
        <4>3. QED
          BY <1>1, <2>3, <2>4, <4>1, <4>2
      <3>3. QED
        BY <3>1, <3>2
    <2>6. QED
      BY <1>2, <2>2, <2>5 DEF OneInv
  <1>5. CASE \E op \in Operations : Invoke(t, op)
    <2>1. PICK op \in Operations : Invoke(t, op)
      BY <1>5
    <2>2. QED
      BY <1>4, <2>1 DEF Invoke, At, Goto
  <1>6. CASE \E op \in Operations : RejectInvalid(t, op)
    <2>1. PICK op \in Operations : RejectInvalid(t, op)
      BY <1>6
    <2>2. QED
      BY <1>4, <2>1 DEF RejectInvalid, At
  <1>7. QED
    BY <1>3, <1>5, <1>6 DEF CallerStep

LEMMA StepOneInv ==
  ASSUME TypeOK, WireInv, OneInv, ~Relogin, [Next]_vars
  PROVE  OneInv'
  <1>1. ASSUME NEW t \in Callers, MethodStep(t)
        PROVE  OneInv'
    BY <1>1, MethodOneInv
  <1>2. ASSUME NEW t \in Callers, CallerStep(t)
        PROVE  OneInv'
    BY <1>2, CallerOneInv
  <1>3. ASSUME UNCHANGED adapterVars,
               \A c \in Conns : link'[c] = link[c] \/ (link[c] = "up" /\ link'[c] = "broken")
        PROVE  OneInv'
    BY <1>3 DEF adapterVars, OneInv, LoginAlone, DialFromNothing, OneConnection, Current
  <1>4. ASSUME NEW c \in Conns, Peer(c)
        PROVE  OneInv'
    BY <1>3, <1>4, PeerStepLocal DEF Peer, TypeOK, WireInv
  <1>5. ASSUME NEW c \in Conns, BreakLink(c), UNCHANGED <<adapterVars, peerVars>>
        PROVE  OneInv'
    <2>1. \A d \in Conns : link'[d] = link[d] \/ (link[d] = "up" /\ link'[d] = "broken")
      BY <1>5 DEF BreakLink, TypeOK, WireTypeOK
    <2>2. QED
      BY <1>3, <1>5, <2>1
  <1>6. CASE UNCHANGED vars
    BY <1>3, <1>6 DEF vars, wireVars
  <1>7. QED
    BY <1>1, <1>2, <1>4, <1>5, <1>6 DEF Next, Adapter, Environment

-----------------------------------------------------------------------------
(* The inductive invariant. *)

(* It holds of the initial state. *)
LEMMA InitSessionInv == Init => SessionInv
  <1> SUFFICES ASSUME Init PROVE SessionInv
    OBVIOUS
  <1>1. \A c \in Conns : DOMAIN c2s[c] = {} /\ link[c] = "unused"
    BY DEF Init, WireInit
  <1>2. CommandsAfterLogin /\ ClTRIDsIssued /\ ClTRIDsDiffer
    BY <1>1 DEF CommandsAfterLogin, ClTRIDsIssued, ClTRIDsDiffer
  <1>3. LoginAlone /\ DialFromNothing /\ OneConnection
    BY <1>1 DEF Init, AdapterInit, LoginAlone, DialFromNothing, OneConnection
  <1>4. QED
    BY <1>2, <1>3, InitWireInv DEF WireInv, SessionInv

(* Every step preserves it, together with the types. *)
LEMMA StepSessionInv ==
  ASSUME TypeOK, SessionInv, [Next]_vars
  PROVE  SessionInv'
  <1>1. WireInv /\ CommandsAfterLogin /\ ClTRIDsIssued /\ ClTRIDsDiffer
    BY DEF SessionInv, WireInv
  <1>2. WireInv' /\ CommandsAfterLogin' /\ ClTRIDsIssued' /\ ClTRIDsDiffer'
    BY <1>1, StepWireInv, StepCommandsAfterLogin, StepClTRIDs
  <1>3. ~Relogin => OneInv'
    BY <1>1, StepOneInv DEF SessionInv, OneInv
  <1>4. LoginAlone' /\ (~Relogin => (DialFromNothing /\ OneConnection)')
    BY <1>3 DEF OneInv, LoginAlone
  <1>5. QED
    BY <1>2, <1>4 DEF SessionInv, WireInv

(* What the invariant says of the frames under way. *)
LEMMA InvCorrelated ==
  ASSUME TypeOK, SessionInv
  PROVE  Correlated /\ NothingLeftOver
  <1>1. conn \in Conns \cup {NoConn}
    BY DEF TypeOK, AdapterTypeOK
  <1>2. Correlated
    BY <1>1 DEF SessionInv, ConnUsable, OneAnswerDue, Correlated, InFlight
  <1>3. ASSUME mu = NoCaller, conn # NoConn, link[conn] = "up"
        PROVE  InFlight(conn) = {}
    <2>1. \A t \in Callers : ~Receiving(t)
      BY <1>3, AdapterAssumption DEF SessionInv, MutexHeld, Receiving
    <2>2. c2s[conn] = <<>> /\ s2c[conn] = <<>>
      BY <1>3, <2>1 DEF SessionInv, OneAnswerDue
    <2>3. DOMAIN c2s[conn] = {} /\ DOMAIN s2c[conn] = {}
      BY <2>2
    <2>4. QED
      BY <2>3 DEF InFlight
  <1>4. QED
    BY <1>2, <1>3 DEF NothingLeftOver

(* Every variable of the adapter, the connections and the server always has
   its type; no call runs its command a third time (tries is at most two).  *)
THEOREM TypeCorrect == Spec => []TypeOK
  <1>1. Init => TypeOK /\ WireInv
    BY InitTypeOK, InitWireInv
  <1>2. TypeOK /\ WireInv /\ [Next]_vars => (TypeOK /\ WireInv)'
    BY StepTypeOK, StepWireInv DEF WireInv
  <1>3. QED
    BY <1>1, <1>2, PTL DEF Spec

(* The inductive invariant holds in every reachable state: the mutex has one
   holder, the two ends of a connection agree, the adapter's connection is
   usable and carries at most the one frame its holder waits for.          *)
THEOREM InvariantHolds == Spec => []SessionInv
  <1>1. Init => SessionInv
    BY InitSessionInv
  <1>2. TypeOK /\ SessionInv /\ [Next]_vars => SessionInv'
    BY StepSessionInv
  <1>3. QED
    BY <1>1, <1>2, TypeCorrect, PTL DEF Spec

(* Whoever waits for an answer can only be given the answer to the request it
   sent last, although sendAndReceive compares no clTRIDs.                 *)
THEOREM AnswersCorrelated == Spec => []Correlated
  <1>1. TypeOK /\ SessionInv => Correlated
    BY InvCorrelated
  <1>2. QED
    BY <1>1, TypeCorrect, InvariantHolds, PTL

(* When the mutex is free, the connection it guards carries no frame that
   the next caller could take for its own answer.                          *)
THEOREM CleanHandover == Spec => []NothingLeftOver
  <1>1. TypeOK /\ SessionInv => NothingLeftOver
    BY InvCorrelated
  <1>2. QED
    BY <1>1, TypeCorrect, InvariantHolds, PTL

(* Commands only reach a server that confirmed a login on that connection,
   after every reconnect too.                                              *)
THEOREM LoggedInFirst == Spec => []CommandsAfterLogin
  <1>1. SessionInv => CommandsAfterLogin
    BY DEF SessionInv
  <1>2. QED
    BY <1>1, InvariantHolds, PTL

(* No two unread commands share a clTRID, on whatever connections they are. *)
THEOREM DistinctClTRIDs == Spec => []ClTRIDsDiffer
  <1>1. SessionInv => ClTRIDsDiffer
    BY DEF SessionInv
  <1>2. QED
    BY <1>1, InvariantHolds, PTL

(* As long as nobody logs in while a session is up, the adapter never holds
   a second connection open, however often it reconnects.                  *)
THEOREM SingleConnection ==
  ASSUME ~Relogin
  PROVE  Spec => []OneConnection
  <1>1. SessionInv => OneConnection
    BY DEF SessionInv
  <1>2. QED
    BY <1>1, InvariantHolds, PTL
=============================================================================
