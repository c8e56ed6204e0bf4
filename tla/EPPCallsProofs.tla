----------------------------- MODULE EPPCallsProofs -----------------------------
(***************************************************************************)
(* What the calls of EPPSession promise: the session implements            *)
(* RemoteCalls with two executions per call, and a login asks only for     *)
(* extensions that were offered.  For any callers, connections, extensions *)
(* and faults, and any number of calls.                                    *)
(***************************************************************************)
EXTENDS EPPSessionProofs, FiniteSetTheorems

(* No connection, abandoned ones included, ever carries two frames, and one
   that the adapter has overwritten carries none.                            *)
Quiet(c) ==
  /\ Len(c2s[c]) <= 1 /\ Len(s2c[c]) <= 1 /\ (c2s[c] = <<>> \/ s2c[c] = <<>>)
  /\ link[c] # "up" => s2c[c] = <<>>
  /\ link[c] = "up" /\ c # conn => c2s[c] = <<>> /\ s2c[c] = <<>> /\ sess[c] # "accepted"

QuietInv == \A c \in Conns : Quiet(c)

LEMMA QuietInit == Init => QuietInv
  BY DEF Init, AdapterInit, WireInit, QuietInv, Quiet

(* The connection of the adapter is quiet, because at most one answer is due. *)
LEMMA MethodQuiet ==
  ASSUME TypeOK, WireInv, OneAnswerDue', QuietInv, NEW t \in Callers, MethodStep(t)
  PROVE  QuietInv'
  <1> USE DEF WireInv, TypeOK
  <1>1. /\ conn \in Conns \cup {NoConn} /\ NoConn \notin Conns
        /\ link \in [Conns -> {"unused", "up", "broken", "shut"}]
        /\ sess \in [Conns -> {"none", "accepted", "open", "authed", "closed"}]
        /\ c2s \in [Conns -> Seq(Request)] /\ s2c \in [Conns -> Seq(Answer)]
    BY WireAssumption DEF AdapterTypeOK, WireTypeOK
  <1> SUFFICES ASSUME NEW c \in Conns PROVE Quiet(c)'
    BY DEF QuietInv
  <1>2. Quiet(c)
    BY DEF QuietInv
  <1>3. ASSUME UNCHANGED <<wireVars, conn>> PROVE Quiet(c)'
    BY <1>2, <1>3 DEF Quiet, wireVars
  <1>4. CASE SendOnNil(t)
    BY <1>3, <1>4 DEF SendOnNil
  <1>5. CASE CloseConn /\ UNCHANGED <<sess, c2s>>
    <2>1. CASE c = conn
      BY <1>1, <1>2, <1>5, <2>1 DEF CloseConn, ShutLinks, Quiet
    <2>2. CASE c # conn
      BY <1>1, <1>2, <1>5, <2>2 DEF CloseConn, ShutLinks, Quiet
    <2>3. QED
      BY <2>1, <2>2
  <1>6. ASSUME conn \in Conns, UNCHANGED <<conn, link, sess>>,
               \A d \in Conns \ {conn} : c2s'[d] = c2s[d] /\ s2c'[d] = s2c[d],
               link[conn] # "up" => UNCHANGED <<c2s, s2c>>
        PROVE  Quiet(c)'
    <2>1. CASE c = conn /\ link[c] = "up"
      <3>1. Len(c2s'[c]) <= 1 /\ Len(s2c'[c]) <= 1 /\ (c2s'[c] = <<>> \/ s2c'[c] = <<>>)
        BY <1>1, <1>6, <2>1 DEF OneAnswerDue
      <3>2. QED
        BY <1>6, <2>1, <3>1 DEF Quiet
    <2>2. CASE c # conn \/ link[c] # "up"
      BY <1>2, <1>6, <2>2 DEF Quiet
    <2>3. QED
      BY <2>1, <2>2
  <1>7. CASE /\ pc[t] \in {"receive", "login"} /\ Readable(conn) /\ ReadAnswer(conn)
             /\ UNCHANGED <<sess, c2s, conn>>
    <2>1. conn \in Conns
      BY <1>7, ReceivingHasConn DEF Receiving
    <2>2. QED
      BY <1>1, <1>6, <1>7, <2>1 DEF Readable, ReadAnswer
  <1>8. CASE Send(t)
    <2>1. conn \in Conns /\ UNCHANGED <<conn, link, sess, s2c>> /\ \E r \in Request : WriteRequest(conn, r)
      BY <1>8, SentRequest
    <2>2. /\ \A d \in Conns \ {conn} : c2s'[d] = c2s[d]
          /\ link[conn] # "up" => UNCHANGED c2s
      BY <1>1, <2>1 DEF WriteRequest
    <2>3. QED
      BY <1>6, <2>1, <2>2
  <1>9. CASE ReadGreeting(t)
    <2>1. /\ conn \in Conns /\ UNCHANGED <<conn, link, sess>> /\ Readable(conn) /\ ReadAnswer(conn)
          /\ \E r \in Request : WriteRequest(conn, r)
      BY <1>9, SentLogin
    <2>2. /\ \A d \in Conns \ {conn} : c2s'[d] = c2s[d] /\ s2c'[d] = s2c[d]
          /\ link[conn] = "up"
      BY <1>1, <2>1 DEF WriteRequest, Readable, ReadAnswer
    <2>3. QED
      BY <1>6, <2>1, <2>2
  <1>10. CASE Dial(t)
    <2>1. PICK d \in Conns : Connect(d) /\ conn' = d
      BY <1>10 DEF Dial
    <2>2. /\ link[d] = "unused" /\ link'[d] = "up" /\ UNCHANGED <<c2s, s2c>>
          /\ \A e \in Conns \ {d} : link'[e] = link[e] /\ sess'[e] = sess[e]
      BY <1>1, <2>1 DEF Connect
    <2>3. CASE c = d
      BY <1>2, <2>1, <2>2, <2>3 DEF Quiet
    <2>4. CASE c # d /\ c # conn
      BY <1>2, <2>1, <2>2, <2>4 DEF Quiet
    <2>5. CASE c # d /\ c = conn
      <3>1. pc[t] = "dial" /\ \A u \in Callers : ~Receiving(u)
        BY <1>10, StepperAlone DEF Dial, At, Receiving
      <3>2. sess[c] # "accepted" /\ (link[c] = "up" => c2s[c] = <<>> /\ s2c[c] = <<>>)
        BY <1>1, <2>5, <3>1 DEF ConnUsable, OneAnswerDue, Receiving
      <3>3. QED
        BY <1>2, <2>1, <2>2, <2>5, <3>2 DEF Quiet
    <2>6. QED
      BY <2>3, <2>4, <2>5
  <1>11. QED
    BY <1>3, <1>4, <1>5, <1>7, <1>8, <1>9, <1>10, MethodWire

(* What a step of the server does to the frames and the registry: it greets, it
   serves its first request, or it hangs up.                                 *)
Greets(c) ==
  /\ sess[c] = "accepted" /\ UNCHANGED <<c2s, execs>>
  /\ \E a \in Answer : /\ a.kind = "connect" /\ menu' = [menu EXCEPT ![c] = a.ext]
                       /\ WriteAnswer(c, a)

Truthful(r, res, carriedOut) ==
  r.kind = "transform" =>
    /\ res \in Results \ {"greeting"}
    /\ res = "ok" => carriedOut
    /\ res = "code" => ~carriedOut

Serves(c) ==
  /\ c2s[c] # <<>> /\ UNCHANGED menu
  /\ TakeRequest(c) \/ c2s' = [c2s EXCEPT ![c] = <<>>]
  /\ \E carriedOut \in BOOLEAN :
       /\ Perform(Head(c2s[c]), carriedOut)
       /\ \/ s2c' = s2c
          \/ \E res \in Results : /\ Truthful(Head(c2s[c]), res, carriedOut)
                                  /\ WriteAnswer(c, Reply(Head(c2s[c]), res))

HangsUp(c) == c2s' = [c2s EXCEPT ![c] = <<>>] /\ UNCHANGED <<s2c, menu, execs>>

LEMMA PeerDoes ==
  ASSUME NEW c \in Conns, PeerStep(c)
  PROVE  Greets(c) \/ Serves(c) \/ HangsUp(c)
  <1> USE FaultsAreResults, FaultsAssumption
  <1>1. CASE Greet(c)
    <2>1. PICK offered \in SUBSET Exts, res \in {"greeting"} \cup Faults :
            /\ menu' = [menu EXCEPT ![c] = offered]
            /\ WriteAnswer(c, [kind |-> "connect", call |-> NoCall, cl |-> 0,
                               res |-> res, ext |-> offered])
      BY <1>1 DEF Greet
    <2>2. [kind |-> "connect", call |-> NoCall, cl |-> 0, res |-> res, ext |-> offered] \in Answer
      BY DEF Answer
    <2>3. QED
      BY <1>1, <2>1, <2>2 DEF Greet, Greets
  <1>2. ASSUME c2s[c] # <<>>, Head(c2s[c]).kind # "transform", UNCHANGED <<menu, execs>>,
               TakeRequest(c) \/ c2s' = [c2s EXCEPT ![c] = <<>>],
               s2c' = s2c \/ \E res \in Results : WriteAnswer(c, Reply(Head(c2s[c]), res))
        PROVE  Serves(c)
    <2>1. Perform(Head(c2s[c]), FALSE)
      BY <1>2 DEF Perform
    <2>2. \A res \in Results : Truthful(Head(c2s[c]), res, FALSE)
      BY <1>2 DEF Truthful
    <2>3. QED
      BY <1>2, <2>1, <2>2 DEF Serves
  <1>3. CASE IgnoreLogin(c)
    BY <1>2, <1>3 DEF IgnoreLogin, Pending
  <1>4. CASE AnswerLogin(c)
    BY <1>2, <1>4 DEF AnswerLogin, Pending
  <1>5. CASE ScriptLogout(c)
    BY <1>2, <1>5 DEF ScriptLogout, Pending
  <1>6. CASE AnswerHello(c)
    BY <1>2, <1>6 DEF AnswerHello, Pending
  <1>7. CASE AnswerLogout(c)
    BY <1>2, <1>7 DEF AnswerLogout, Pending, CloseSession, Results
  <1>8. CASE AnswerCommand(c)
    <2>1. PICK res \in {"ok"} \cup Faults, done \in BOOLEAN :
            /\ res = "ok" => done
            /\ res = "code" => ~done
            /\ WriteAnswer(c, Reply(Head(c2s[c]), res))
            /\ Perform(Head(c2s[c]), done)
      BY <1>8 DEF AnswerCommand
    <2>2. res \in Results /\ Truthful(Head(c2s[c]), res, done)
      BY <2>1 DEF Truthful, Results
    <2>3. QED
      BY <1>8, <2>1, <2>2 DEF AnswerCommand, Serves, Pending
  <1>9. CASE DropCommand(c)
    BY <1>9 DEF DropCommand, Serves, Pending, CloseSession
  <1>10. CASE HangUp(c)
    BY <1>10 DEF HangUp, HangsUp, CloseSession
  <1>11. QED
    BY <1>1, <1>3, <1>4, <1>5, <1>6, <1>7, <1>8, <1>9, <1>10 DEF PeerStep

(* Without a client that listens, nothing is written. *)
LEMMA PeerUnheard ==
  ASSUME NEW c \in Conns, link[c] # "up", PeerStep(c)
  PROVE  /\ s2c' = s2c
         /\ \/ UNCHANGED c2s
            \/ c2s[c] # <<>> /\ TakeRequest(c)
            \/ c2s' = [c2s EXCEPT ![c] = <<>>]
  <1>1. \A a : WriteAnswer(c, a) => s2c' = s2c
    BY DEF WriteAnswer
  <1>2. CASE Greets(c)
    BY <1>1, <1>2 DEF Greets
  <1>3. CASE Serves(c)
    BY <1>1, <1>3 DEF Serves
  <1>4. CASE HangsUp(c)
    BY <1>4 DEF HangsUp
  <1>5. QED
    BY <1>2, <1>3, <1>4, PeerDoes

LEMMA PeerQuiet ==
  ASSUME TypeOK, WireInv, OneAnswerDue', QuietInv, NEW d \in Conns, Peer(d)
  PROVE  QuietInv'
  <1> USE DEF WireInv, TypeOK
  <1>1. /\ c2s \in [Conns -> Seq(Request)] /\ s2c \in [Conns -> Seq(Answer)] /\ conn' = conn
        /\ PeerStep(d) /\ NoConn \notin Conns
    BY WireAssumption DEF WireTypeOK, Peer, adapterVars
  <1>2. /\ link' = link
        /\ \A e \in Conns \ {d} : sess'[e] = sess[e] /\ c2s'[e] = c2s[e] /\ s2c'[e] = s2c[e]
        /\ sess'[d] # "accepted"
    BY <1>1, PeerStepLocal
  <1> SUFFICES ASSUME NEW c \in Conns PROVE Quiet(c)'
    BY DEF QuietInv
  <1>3. Quiet(c)
    BY DEF QuietInv
  <1>4. CASE c # d
    BY <1>1, <1>2, <1>3, <1>4 DEF Quiet
  <1>5. CASE c = d /\ link[c] = "up" /\ c = conn
    <2>1. Len(c2s'[c]) <= 1 /\ Len(s2c'[c]) <= 1 /\ (c2s'[c] = <<>> \/ s2c'[c] = <<>>)
      BY <1>1, <1>2, <1>5 DEF OneAnswerDue
    <2>2. QED
      BY <1>1, <1>2, <1>5, <2>1 DEF Quiet
  <1>6. CASE c = d /\ link[c] = "up" /\ c # conn
    <2>1. c2s[c] = <<>> /\ s2c[c] = <<>> /\ sess[c] # "accepted"
      BY <1>3, <1>6 DEF Quiet
    <2>2. s2c' = s2c /\ c2s' = [c2s EXCEPT ![c] = <<>>]
      BY <1>1, <1>6, <2>1, PeerAnswers
    <2>3. QED
      BY <1>1, <1>2, <1>6, <2>1, <2>2 DEF Quiet
  <1>7. CASE c = d /\ link[c] # "up"
    <2>1. Quiet(d) /\ link[d] # "up"
      BY <1>3, <1>7
    <2>2. s2c[d] = <<>> /\ c2s[d] \in Seq(Request) /\ Len(c2s[d]) <= 1
      BY <1>1, <2>1 DEF Quiet
    <2>3. /\ s2c' = s2c
          /\ \/ UNCHANGED c2s
             \/ c2s[d] # <<>> /\ TakeRequest(d)
             \/ c2s' = [c2s EXCEPT ![d] = <<>>]
      BY <1>1, <2>1, PeerUnheard
    <2>4. \/ c2s'[d] = c2s[d]
          \/ c2s[d] # <<>> /\ c2s'[d] = Tail(c2s[d])
          \/ c2s'[d] = <<>>
      <3>1. CASE TakeRequest(d)
        BY <1>1, <2>3, <3>1 DEF TakeRequest
      <3>2. CASE c2s' = [c2s EXCEPT ![d] = <<>>]
        BY <1>1, <3>2
      <3>3. QED
        BY <2>3, <3>1, <3>2
    <2>5. Len(c2s'[d]) <= 1
      <3>1. CASE c2s[d] # <<>> /\ c2s'[d] = Tail(c2s[d])
        BY <2>2, <3>1, OneFrame
      <3>2. QED
        BY <2>2, <2>4, <3>1
    <2>6. Quiet(d)'
      BY <1>2, <2>1, <2>2, <2>3, <2>5 DEF Quiet
    <2>7. QED
      BY <1>7, <2>6
  <1>8. QED
    BY <1>4, <1>5, <1>6, <1>7

LEMMA QuietStep ==
  ASSUME TypeOK, WireInv, QuietInv, [Next]_vars
  PROVE  QuietInv'
  <1>1. WireInv' /\ OneAnswerDue'
    BY StepWireInv DEF WireInv
  <1>2. ASSUME UNCHANGED <<wireVars, conn>> PROVE QuietInv'
    BY <1>2 DEF QuietInv, Quiet, wireVars
  <1>3. ASSUME NEW t \in Callers, Adapter(t) PROVE QuietInv'
    BY <1>1, <1>3, MethodQuiet DEF Adapter
  <1>4. ASSUME NEW c \in Conns, Peer(c) PROVE QuietInv'
    BY <1>1, <1>4, PeerQuiet
  <1>5. ASSUME NEW t \in Callers, CallerStep(t) PROVE QuietInv'
    BY <1>2, <1>5, CallerStepLocal DEF TypeOK
  <1>6. ASSUME NEW c \in Conns, BreakLink(c), UNCHANGED <<adapterVars, peerVars>>
        PROVE  QuietInv'
    <2>1. link \in [Conns -> {"unused", "up", "broken", "shut"}] /\ s2c \in [Conns -> Seq(Answer)]
      BY DEF TypeOK, WireTypeOK
    <2>2. ASSUME NEW d \in Conns PROVE Quiet(d)'
      BY <1>6, <2>1 DEF BreakLink, adapterVars, QuietInv, Quiet
    <2>3. QED
      BY <2>2 DEF QuietInv
  <1>7. CASE UNCHANGED vars
    BY <1>2, <1>7 DEF vars, adapterVars
  <1>8. QED
    BY <1>3, <1>4, <1>5, <1>6, <1>7 DEF Next, Environment

-----------------------------------------------------------------------------
(* The frames on a connection, as sets, and how each step changes them.    *)
Requests(c) == {c2s[c][i] : i \in DOMAIN c2s[c]}
Answers(c) == {s2c[c][i] : i \in DOMAIN s2c[c]}

LEMMA RequestsTaken ==
  ASSUME WireTypeOK, NEW c \in Conns,
         (c2s[c] # <<>> /\ TakeRequest(c)) \/ c2s' = [c2s EXCEPT ![c] = <<>>],
         NEW d \in Conns
  PROVE  Requests(d)' \subseteq Requests(d)
  <1>1. c2s \in [Conns -> Seq(Request)]
    BY DEF WireTypeOK
  <1>2. ASSUME NEW i \in DOMAIN c2s'[d] PROVE c2s'[d][i] \in Requests(d)
    <2>1. CASE c2s[c] # <<>> /\ TakeRequest(c)
      BY <1>2, <2>1, RemainingRequest DEF Requests
    <2>2. CASE c2s' = [c2s EXCEPT ![c] = <<>>]
      BY <1>1, <1>2, <2>2 DEF Requests
    <2>3. QED
      BY <2>1, <2>2
  <1>3. QED
    BY <1>2 DEF Requests

LEMMA RequestWritten ==
  ASSUME WireTypeOK, NEW c \in Conns, NEW r \in Request, WriteRequest(c, r), NEW d \in Conns
  PROVE  Requests(d)' \subseteq Requests(d) \cup (IF d = c THEN {r} ELSE {})
  BY WrittenRequest DEF Requests

LEMMA AnswersRead ==
  ASSUME WireTypeOK, NEW c \in Conns, s2c[c] # <<>>, ReadAnswer(c), NEW d \in Conns
  PROVE  Answers(d)' \subseteq Answers(d)
  BY RemainingAnswer DEF Answers

LEMMA AnswersShut ==
  ASSUME WireTypeOK, NEW C, ShutLinks(C), NEW d \in Conns
  PROVE  Answers(d)' \subseteq Answers(d)
  <1>1. s2c'[d] = s2c[d] \/ s2c'[d] = <<>>
    BY DEF ShutLinks
  <1>2. QED
    BY <1>1 DEF Answers

LEMMA AnswerWritten ==
  ASSUME WireTypeOK, NEW c \in Conns, NEW a \in Answer, WriteAnswer(c, a), NEW d \in Conns
  PROVE  Answers(d)' \subseteq Answers(d) \cup (IF d = c THEN {a} ELSE {})
  BY WrittenAnswer DEF Answers

(* A goroutine only reads answers, and what it writes is one request. *)
LEMMA MethodFrames ==
  ASSUME TypeOK, WireInv, NEW t \in Callers, MethodStep(t)
  PROVE  /\ \A d \in Conns : Answers(d)' \subseteq Answers(d)
         /\ \/ \A d \in Conns : Requests(d)' \subseteq Requests(d)
            \/ Send(t) \/ ReadGreeting(t)
  <1> USE DEF WireInv, TypeOK
  <1>1. CASE UNCHANGED <<c2s, s2c>>
    BY <1>1 DEF Requests, Answers
  <1>2. ASSUME UNCHANGED c2s PROVE \A d \in Conns : Requests(d)' \subseteq Requests(d)
    BY <1>2 DEF Requests
  <1>3. CASE CloseConn /\ UNCHANGED c2s
    BY <1>2, <1>3, AnswersShut DEF CloseConn
  <1>4. CASE /\ pc[t] \in {"receive", "login"} /\ Readable(conn) /\ ReadAnswer(conn)
             /\ UNCHANGED c2s
    BY <1>2, <1>4, ReceivingHasConn, AnswersRead DEF Receiving, Readable
  <1>5. CASE Send(t)
    BY <1>5 DEF Send, Answers
  <1>6. CASE ReadGreeting(t)
    BY <1>6, ReceivingHasConn, AnswersRead DEF ReadGreeting, At, Receiving, Readable
  <1>7. CASE Dial(t) \/ SendOnNil(t)
    BY <1>1, <1>7 DEF Dial, Connect, SendOnNil, wireVars
  <1>8. QED
    BY <1>1, <1>3, <1>4, <1>5, <1>6, <1>7, MethodWire DEF wireVars

(* The request of Send, and the login of ReadGreeting. *)
Added(c, r) ==
  \A d \in Conns : Requests(d)' \subseteq Requests(d) \cup (IF d = c THEN {r} ELSE {})

LEMMA SendFrames ==
  ASSUME TypeOK, WireInv, NEW t \in Callers, Send(t)
  PROVE  /\ conn \in Conns
         /\ \E r \in Request :
              /\ r.call = Current(t) /\ r.kind = WireKind(kind[Current(t)]) /\ r.kind # "login"
              /\ Added(conn, r)
  BY SentRequest, RequestWritten DEF WireInv, TypeOK, Added

LEMMA LoginFrames ==
  ASSUME TypeOK, WireInv, NEW t \in Callers, ReadGreeting(t)
  PROVE  /\ conn \in Conns
         /\ \E r \in Request, a \in Answers(conn) :
              /\ r.kind = "login" /\ a.kind = "connect" /\ r.ext \subseteq a.ext
              /\ Added(conn, r)
  <1> USE DEF WireInv, TypeOK
  <1>1. /\ made[t] > 0 /\ conn \in Conns /\ Receiving(t)
        /\ link[conn] = "up" /\ s2c[conn] # <<>>
    BY ReceivingHasConn DEF ReadGreeting, At, Receiving, MutexHeld, Readable
  <1>2. s2c[conn] \in Seq(Answer)
    BY <1>1 DEF WireTypeOK
  <1>3. 1 \in DOMAIN s2c[conn] /\ Head(s2c[conn]) = s2c[conn][1] /\ s2c[conn][1] \in Answer
    BY <1>1, <1>2, FirstFrame
  <1> DEFINE a == Head(s2c[conn])
             r == Frame(t, "login", NextClTRID)
  <1>4. a \in Answers(conn) /\ a \in Answer
    BY <1>3 DEF Answers
  <1>5. Awaited(t, a) /\ conn # NoConn
    BY <1>1, <1>3, WireAssumption DEF OneAnswerDue
  <1>6. a.kind = "connect"
    BY <1>5 DEF Awaited, ReadGreeting, At
  <1>7. advertisedExt' = Exts \cap a.ext
    BY DEF ReadGreeting, FilterExtensions
  <1>8. NextClTRID \in Nat
    BY DEF AdapterTypeOK, NextClTRID
  <1>9. r \in Request
    BY <1>1, <1>7, <1>8, FrameIsRequest DEF RequestKinds
  <1>10. r.kind = "login" /\ r.ext = advertisedExt'
    BY DEF Frame
  <1>11. WriteRequest(conn, r)
    BY DEF ReadGreeting
  <1>12. Added(conn, r)
    BY <1>1, <1>9, <1>11, RequestWritten DEF Added
  <1>13. QED
    BY <1>1, <1>4, <1>6, <1>7, <1>9, <1>10, <1>12

(* The server greets on a connection that carries nothing, or takes the only
   frame of one and answers it at most once, or drops what it has not read. *)
Greeted(c) ==
  /\ UNCHANGED execs
  /\ \A d \in Conns : Requests(d)' \subseteq Requests(d)
  /\ \E a \in Answer :
       /\ a.kind = "connect" /\ menu' = [menu EXCEPT ![c] = a.ext]
       /\ Requests(c) = {} /\ Answers(c) = {}
       /\ \A d \in Conns : Answers(d)' \subseteq Answers(d) \cup (IF d = c THEN {a} ELSE {})

Answered(c, r, done) ==
  /\ UNCHANGED menu
  /\ Requests(c) = {r} /\ Answers(c) = {} /\ Requests(c)' = {}
  /\ Perform(r, done)
  /\ \A d \in Conns : Requests(d)' \subseteq Requests(d)
  /\ \E res \in Results :
       /\ Truthful(r, res, done)
       /\ \A d \in Conns :
            Answers(d)' \subseteq Answers(d) \cup (IF d = c THEN {Reply(r, res)} ELSE {})

Dropped ==
  /\ UNCHANGED peerVars
  /\ \A d \in Conns : Requests(d)' \subseteq Requests(d) /\ Answers(d)' \subseteq Answers(d)

LEMMA NoFrames ==
  ASSUME WireTypeOK, NEW c \in Conns
  PROVE  /\ c2s[c] = <<>> => Requests(c) = {}
         /\ s2c[c] = <<>> => Answers(c) = {}
  BY DEF Requests, Answers

LEMMA SoleRequest ==
  ASSUME WireTypeOK, NEW c \in Conns, c2s[c] # <<>>, Len(c2s[c]) <= 1
  PROVE  /\ Head(c2s[c]) \in Request /\ Requests(c) = {Head(c2s[c])}
         /\ (TakeRequest(c) \/ c2s' = [c2s EXCEPT ![c] = <<>>]) => Requests(c)' = {}
  <1>1. c2s \in [Conns -> Seq(Request)]
    BY DEF WireTypeOK
  <1>2. Tail(c2s[c]) = <<>> /\ Head(c2s[c]) = c2s[c][1] /\ DOMAIN c2s[c] = {1}
    BY <1>1, OneFrame
  <1>3. Requests(c) = {Head(c2s[c])} /\ Head(c2s[c]) \in Request
    BY <1>1, <1>2 DEF Requests
  <1>4. ASSUME TakeRequest(c) \/ c2s' = [c2s EXCEPT ![c] = <<>>] PROVE c2s'[c] = <<>>
    BY <1>1, <1>2, <1>4 DEF TakeRequest
  <1>5. c2s'[c] = <<>> => Requests(c)' = {}
    BY DEF Requests
  <1>6. QED
    BY <1>3, <1>4, <1>5

LEMMA PeerFrames ==
  ASSUME TypeOK, WireInv, QuietInv, NEW c \in Conns, Peer(c)
  PROVE  \/ Greeted(c)
         \/ \E r \in Request, done \in BOOLEAN : Answered(c, r, done)
         \/ Dropped
  <1> USE DEF WireInv, TypeOK
  <1>1. PeerStep(c) /\ Quiet(c)
    BY DEF Peer, QuietInv
  <1>2. UNCHANGED c2s => \A d \in Conns : Requests(d)' \subseteq Requests(d)
    BY DEF Requests
  <1>3. s2c' = s2c => \A d \in Conns : Answers(d)' \subseteq Answers(d)
    BY DEF Answers
  <1>4. CASE Greets(c)
    <2>1. Requests(c) = {} /\ Answers(c) = {}
      BY <1>4, NoFrames DEF Greets, EndsAgree
    <2>2. \A a \in Answer, d \in Conns : WriteAnswer(c, a) =>
            Answers(d)' \subseteq Answers(d) \cup (IF d = c THEN {a} ELSE {})
      BY AnswerWritten
    <2>3. QED
      BY <1>2, <1>4, <2>1, <2>2 DEF Greets, Greeted
  <1>5. CASE Serves(c)
    <2> DEFINE r == Head(c2s[c])
    <2>1. /\ r \in Request /\ Requests(c) = {r} /\ Requests(c)' = {}
          /\ \A d \in Conns : Requests(d)' \subseteq Requests(d)
      BY <1>1, <1>5, SoleRequest, RequestsTaken DEF Serves, Quiet
    <2>2. Answers(c) = {}
      BY <1>1, <1>5, NoFrames DEF Serves, Quiet
    <2>3. PICK done \in BOOLEAN :
            /\ Perform(r, done)
            /\ \/ s2c' = s2c
               \/ \E res \in Results : Truthful(r, res, done) /\ WriteAnswer(c, Reply(r, res))
      BY <1>5 DEF Serves
    <2>4. \E res \in Results :
            /\ Truthful(r, res, done)
            /\ \A d \in Conns :
                 Answers(d)' \subseteq Answers(d) \cup (IF d = c THEN {Reply(r, res)} ELSE {})
      <3>1. CASE s2c' = s2c
        <4>1. Truthful(r, "empty", done) /\ "empty" \in Results
          BY DEF Truthful, Results
        <4>2. QED
          BY <1>3, <3>1, <4>1
      <3>2. CASE s2c' # s2c
        <4>1. PICK res \in Results : Truthful(r, res, done) /\ WriteAnswer(c, Reply(r, res))
          BY <2>3, <3>2
        <4>2. Reply(r, res) \in Answer
          BY <2>1, ReplyIsAnswer
        <4>3. QED
          BY <4>1, <4>2, AnswerWritten
      <3>3. QED
        BY <3>1, <3>2
    <2>5. Answered(c, r, done)
      BY <1>5, <2>1, <2>2, <2>3, <2>4 DEF Answered, Serves
    <2>6. QED
      BY <2>1, <2>5
  <1>6. CASE HangsUp(c)
    BY <1>3, <1>6, RequestsTaken DEF HangsUp, Dropped, peerVars
  <1>7. QED
    BY <1>1, <1>4, <1>5, <1>6, PeerDoes

(* Every other step leaves the frames alone, or loses some. *)
LEMMA CallerFrames ==
  ASSUME TypeOK, NEW t \in Callers, CallerStep(t)
  PROVE  UNCHANGED <<c2s, s2c>>
  BY CallerStepLocal DEF TypeOK, wireVars

LEMMA BreakFrames ==
  ASSUME WireTypeOK, NEW c \in Conns, BreakLink(c), NEW d \in Conns
  PROVE  Requests(d)' \subseteq Requests(d) /\ Answers(d)' \subseteq Answers(d)
  <1>1. c2s' = c2s /\ (s2c'[d] = s2c[d] \/ s2c'[d] = <<>>)
    BY DEF WireTypeOK, BreakLink
  <1>2. QED
    BY <1>1 DEF Requests, Answers

-----------------------------------------------------------------------------
(* A greeting offers what the menu of its connection says, and a login asks
   for no more.                                                            *)
MenuInv ==
  \A c \in Conns :
    /\ \A a \in Answers(c) : a.kind = "connect" => a.ext \subseteq menu[c]
    /\ \A r \in Requests(c) : r.kind = "login" => r.ext \subseteq menu[c]

LEMMA MenuInit == Init => MenuInv
  BY DEF Init, AdapterInit, WireInit, MenuInv, Requests, Answers

LEMMA MenuStep ==
  ASSUME TypeOK, WireInv, QuietInv, MenuInv, [Next]_vars
  PROVE  MenuInv'
  <1>1. ASSUME \A d \in Conns : Requests(d)' \subseteq Requests(d) /\ Answers(d)' \subseteq Answers(d),
               UNCHANGED menu
        PROVE  MenuInv'
    BY <1>1 DEF MenuInv
  <1>2. ASSUME UNCHANGED <<c2s, s2c, menu>> PROVE MenuInv'
    BY <1>2 DEF MenuInv, Requests, Answers
  <1>3. ASSUME NEW r \in Request, NEW c \in Conns, Added(c, r),
               r.kind = "login" => r.ext \subseteq menu[c],
               \A d \in Conns : Answers(d)' \subseteq Answers(d), UNCHANGED menu
        PROVE  MenuInv'
    BY <1>3 DEF MenuInv, Added
  <1>4. ASSUME NEW t \in Callers, Adapter(t) PROVE MenuInv'
    <2>1. MethodStep(t) /\ UNCHANGED menu
      BY <1>4 DEF Adapter, peerVars
    <2>2. \A d \in Conns : Answers(d)' \subseteq Answers(d)
      BY <2>1, MethodFrames
    <2>3. CASE Send(t)
      BY <1>3, <2>1, <2>2, <2>3, SendFrames
    <2>4. CASE ReadGreeting(t)
      BY <1>3, <2>1, <2>2, <2>4, LoginFrames DEF MenuInv
    <2>5. CASE \A d \in Conns : Requests(d)' \subseteq Requests(d)
      BY <1>1, <2>1, <2>2, <2>5
    <2>6. QED
      BY <2>1, <2>3, <2>4, <2>5, MethodFrames
  <1>5. ASSUME NEW c \in Conns, Peer(c) PROVE MenuInv'
    <2>1. CASE Greeted(c)
      <3>1. PICK a \in Answer :
              /\ a.kind = "connect" /\ menu' = [menu EXCEPT ![c] = a.ext]
              /\ Requests(c) = {} /\ Answers(c) = {}
              /\ \A d \in Conns : Answers(d)' \subseteq Answers(d) \cup (IF d = c THEN {a} ELSE {})
        BY <2>1 DEF Greeted
      <3>2. menu'[c] = a.ext /\ \A d \in Conns \ {c} : menu'[d] = menu[d]
        BY <3>1 DEF TypeOK, PeerTypeOK
      <3>3. \A d \in Conns : Requests(d)' \subseteq Requests(d)
        BY <2>1 DEF Greeted
      <3>4. QED
        BY <3>1, <3>2, <3>3 DEF MenuInv
    <2>2. ASSUME NEW r \in Request, NEW done \in BOOLEAN, Answered(c, r, done) PROVE MenuInv'
      <3>1. \A res \in Results : Reply(r, res).kind # "connect"
        BY DEF Reply, Request, RequestKinds
      <3>2. QED
        BY <2>2, <3>1 DEF MenuInv, Answered
    <2>3. CASE Dropped
      BY <1>1, <2>3 DEF Dropped, peerVars
    <2>4. QED
      BY <1>5, <2>1, <2>2, <2>3, PeerFrames
  <1>6. ASSUME NEW t \in Callers, CallerStep(t), UNCHANGED peerVars PROVE MenuInv'
    BY <1>2, <1>6, CallerFrames DEF peerVars
  <1>7. ASSUME NEW c \in Conns, BreakLink(c), UNCHANGED peerVars PROVE MenuInv'
    BY <1>1, <1>7, BreakFrames DEF TypeOK, peerVars
  <1>8. CASE UNCHANGED vars
    BY <1>2, <1>8 DEF vars, wireVars, peerVars
  <1>9. QED
    BY <1>4, <1>5, <1>6, <1>7, <1>8 DEF Next, Environment

(* A login names only extensions that the greeting of the same connection
   offered, whatever menus the servers of earlier connections had.         *)
THEOREM LoginWithinOffer == Spec => []LoginAsksOnlyOffered
  <1>1. Init => QuietInv /\ MenuInv
    BY QuietInit, MenuInit
  <1>2. TypeOK /\ SessionInv /\ QuietInv /\ MenuInv /\ [Next]_vars => QuietInv' /\ MenuInv'
    BY QuietStep, MenuStep DEF SessionInv, WireInv
  <1>3. MenuInv => LoginAsksOnlyOffered
    BY DEF MenuInv, Requests, LoginAsksOnlyOffered
  <1>4. QED
    BY <1>1, <1>2, <1>3, TypeCorrect, InvariantHolds, PTL DEF Spec

-----------------------------------------------------------------------------
(* A call that was not made yet is blank; one that is under way has not
   returned, has started fn unless it queues for the mutex, and dials only
   for Login or for its second run.                                        *)
CallBlank(k) == kind[k] = "none" /\ tries[k] = 0 /\ result[k] = "none"

CallUnderWay(t) ==
  /\ result[Current(t)] = "none"
  /\ tries[Current(t)] = 0 <=> pc[t] = "lock"
  /\ kind[Current(t)] \in AllOperations
  /\ pc[t] = "close" => kind[Current(t)] = "Close"
  /\ pc[t] \in {"send", "receive"} => kind[Current(t)] \in WithConnOps \cup {"Logout"}
  /\ pc[t] \in {"dial", "greeting", "login"} =>
       \/ kind[Current(t)] = "Login"
       \/ tries[Current(t)] = 2 /\ kind[Current(t)] \in WithConnOps \cup {"Logout"}

CallInv ==
  /\ \A t \in Callers, n \in 1 .. MaxCalls : n > made[t] => CallBlank(<<t, n>>)
  /\ \A t \in Callers : pc[t] # "idle" => CallUnderWay(t)

(* How a step of a method changes the books about its call: it goes on, it
   starts a run of fn, or it returns.                                       *)
Unsent(location) == location \in {"send", "dial", "greeting", "login"}

GoesOn(t) ==
  /\ UNCHANGED <<tries, result>>
  /\ pc[t] \notin {"idle", "lock"} /\ pc'[t] \notin {"idle", "lock", "close"}
  /\ pc'[t] \in {"dial", "greeting", "login"} => pc[t] \in {"dial", "greeting", "login"}
  /\ pc'[t] \in {"send", "receive"} =>
       \/ pc[t] \in {"send", "receive"}
       \/ pc[t] = "login" /\ kind[Current(t)] # "Login"
  /\ Unsent(pc'[t]) => Unsent(pc[t])
  /\ Unsent(pc[t]) /\ ~Unsent(pc'[t]) => Send(t) \/ pc'[t] = "panic"

StartsFn(t) ==
  /\ UNCHANGED result
  /\ \/ /\ pc[t] = "lock" /\ tries' = [tries EXCEPT ![Current(t)] = 1]
        /\ pc'[t] = CASE kind[Current(t)] = "Login" -> "dial"
                      [] kind[Current(t)] = "Close" -> "close"
                      [] OTHER -> "send"
     \/ /\ pc[t] = "receive" /\ pc'[t] = "dial"
        /\ tries[Current(t)] = 1 /\ tries' = [tries EXCEPT ![Current(t)] = 2]

Returning(t) ==
  /\ UNCHANGED tries
  /\ pc[t] \notin {"idle", "lock"} /\ pc'[t] = "idle"
  /\ \E r \in Returns :
       /\ result' = [result EXCEPT ![Current(t)] = r]
       /\ kind[Current(t)] = "Transform" =>
            r = "error" \/ (r = "code" /\ tries[Current(t)] = 2) \/ AcceptAnswer(t)

LEMMA MethodBooks ==
  ASSUME TypeOK, MutexHeld, CallInv, NEW t \in Callers, MethodStep(t)
  PROVE  /\ UNCHANGED <<made, kind>> /\ \A u \in Callers \ {t} : pc'[u] = pc[u]
         /\ pc[t] # "idle" /\ made[t] > 0
         /\ GoesOn(t) \/ StartsFn(t) \/ Returning(t)
  <1> USE DEF TypeOK
  <1>1. pc \in [Callers -> Locations] /\ UNCHANGED <<made, kind>>
        /\ \A u \in Callers \ {t} : pc'[u] = pc[u]
    BY StepperAlone DEF AdapterTypeOK
  <1>2. \A loc : Goto(t, loc) => pc'[t] = loc
    BY <1>1 DEF Goto
  <1>3. pc[t] # "idle" /\ made[t] > 0 /\ CallUnderWay(t)
    BY DEF MethodStep, Lock, Close, LogoutNotConnected, SendOnNil, Send, LoseAnswer, RejectAnswer,
           AcceptAnswer, LogoutFails, LogoutAnswered, DialFails, Dial, ReadGreeting, LoginOk,
           DialAborts, At, MutexHeld, CallInv
  <1> SUFFICES GoesOn(t) \/ StartsFn(t) \/ Returning(t)
    BY <1>1, <1>3
  <1>4. ASSUME NEW r \in Returns, Return(t, r), UNCHANGED tries, pc[t] # "lock",
               kind[Current(t)] = "Transform" =>
                 r = "error" \/ (r = "code" /\ tries[Current(t)] = 2) \/ AcceptAnswer(t)
        PROVE  Returning(t)
    BY <1>2, <1>3, <1>4 DEF Return, Returning
  <1>5. CASE Lock(t)
    BY <1>2, <1>5 DEF Lock, At, StartsFn
  <1>6. CASE Close(t)
    <2>1. Return(t, "ok") /\ UNCHANGED tries /\ pc[t] = "close"
      BY <1>6 DEF Close, At
    <2>2. QED
      BY <1>3, <1>4, <2>1 DEF CallUnderWay, Returns
  <1>7. CASE LogoutNotConnected(t)
    <2>1. Return(t, "error") /\ UNCHANGED tries /\ pc[t] = "send"
      BY <1>7 DEF LogoutNotConnected, At
    <2>2. QED
      BY <1>4, <2>1 DEF Returns
  <1>8. CASE SendOnNil(t)
    BY <1>2, <1>8 DEF SendOnNil, At, GoesOn, Unsent
  <1>9. CASE Send(t)
    <2>1. pc[t] = "send" /\ Goto(t, "receive") /\ UNCHANGED <<tries, result>>
      BY <1>9 DEF Send, At
    <2>2. QED
      BY <1>2, <1>9, <2>1 DEF GoesOn, Unsent
  <1>10. CASE LoseAnswer(t) \/ RejectAnswer(t)
    <2>1. pc[t] = "receive" /\ (RetryOnce(t) \/ GiveUp(t))
      BY <1>10 DEF LoseAnswer, RejectAnswer, At
    <2>2. CASE RetryOnce(t)
      BY <1>2, <2>1, <2>2 DEF RetryOnce, StartsFn
    <2>3. CASE GiveUp(t)
      BY <1>4, <2>1, <2>3 DEF GiveUp, Returns
    <2>4. QED
      BY <2>1, <2>2, <2>3
  <1>11. CASE AcceptAnswer(t)
    <2>1. PICK r \in {"ok", "code"} : Return(t, r) /\ UNCHANGED tries /\ pc[t] = "receive"
      BY <1>11 DEF AcceptAnswer, At
    <2>2. QED
      BY <1>4, <1>11, <2>1 DEF Returns
  <1>12. CASE LogoutFails(t)
    <2>1. Return(t, "error") /\ UNCHANGED tries /\ pc[t] = "receive"
      BY <1>12 DEF LogoutFails, At
    <2>2. QED
      BY <1>4, <2>1 DEF Returns
  <1>13. CASE LogoutAnswered(t)
    <2>1. \E r \in Returns : Return(t, r)
      BY <1>13 DEF LogoutAnswered, Returns
    <2>2. UNCHANGED tries /\ pc[t] = "receive" /\ kind[Current(t)] = "Logout"
      BY <1>13 DEF LogoutAnswered, At
    <2>3. QED
      BY <1>4, <2>1, <2>2
  <1>14. CASE DialFails(t)
    <2>1. Return(t, "error") /\ UNCHANGED tries /\ pc[t] = "dial"
      BY <1>14 DEF DialFails, At
    <2>2. QED
      BY <1>4, <2>1 DEF Returns
  <1>15. CASE Dial(t)
    BY <1>2, <1>15 DEF Dial, At, GoesOn, Unsent
  <1>16. CASE ReadGreeting(t)
    BY <1>2, <1>16 DEF ReadGreeting, At, GoesOn, Unsent
  <1>17. CASE LoginOk(t)
    <2>1. pc[t] = "login" /\ UNCHANGED tries
      BY <1>17 DEF LoginOk, At
    <2>2. CASE kind[Current(t)] = "Login"
      <3>1. Return(t, "ok")
        BY <1>17, <2>2 DEF LoginOk
      <3>2. QED
        BY <1>4, <2>1, <2>2, <3>1 DEF Returns
    <2>3. CASE kind[Current(t)] # "Login"
      BY <1>2, <1>17, <2>1, <2>3 DEF LoginOk, GoesOn, Unsent
    <2>4. QED
      BY <2>2, <2>3
  <1>18. CASE DialAborts(t)
    <2>1. PICK r \in {"error", "code"} : Return(t, r)
      BY <1>18 DEF DialAborts
    <2>2. pc[t] \in {"greeting", "login"} /\ UNCHANGED tries
      BY <1>18 DEF DialAborts, At
    <2>3. kind[Current(t)] = "Login" \/ tries[Current(t)] = 2
      BY <1>3, <2>2 DEF CallUnderWay
    <2>4. QED
      BY <1>4, <2>1, <2>2, <2>3 DEF Returns
  <1>19. QED
    BY <1>5, <1>6, <1>7, <1>8, <1>9, <1>10, <1>11, <1>12, <1>13, <1>14, <1>15, <1>16, <1>17,
       <1>18 DEF MethodStep

LEMMA CallInit == Init => CallInv
  BY WireAssumption DEF Init, AdapterInit, CallInv, CallBlank, Calls

(* Two goroutines are never in the same call. *)
LEMMA OwnCall ==
  ASSUME NEW t \in Callers, NEW u \in Callers \ {t}, NEW n
  PROVE  Current(t) # <<u, n>>
  BY DEF Current

LEMMA MethodCallInv ==
  ASSUME TypeOK, MutexHeld, CallInv, NEW t \in Callers, MethodStep(t)
  PROVE  CallInv'
  <1> USE DEF TypeOK
  <1>1. /\ UNCHANGED <<made, kind>> /\ \A u \in Callers \ {t} : pc'[u] = pc[u]
        /\ pc[t] # "idle" /\ made[t] > 0 /\ CallUnderWay(t)
        /\ GoesOn(t) \/ StartsFn(t) \/ Returning(t)
    BY MethodBooks DEF CallInv
  <1>2. /\ Current(t) \in Calls /\ tries \in [Calls -> {0, 1, 2}]
        /\ result \in [Calls -> Returns \cup {"none"}]
    BY <1>1, CurrentIsCall DEF AdapterTypeOK
  <1>3. \A k \in Calls \ {Current(t)} : tries'[k] = tries[k] /\ result'[k] = result[k]
    BY <1>1, <1>2 DEF GoesOn, StartsFn, Returning
  <1>4. ASSUME NEW u \in Callers, NEW n \in 1 .. MaxCalls, n > made[u]
        PROVE  CallBlank(<<u, n>>)'
    <2>1. <<u, n>> # Current(t) /\ <<u, n>> \in Calls
      BY <1>4, OwnCall DEF Current, Calls
    <2>2. CallBlank(<<u, n>>)
      BY <1>1, <1>4 DEF CallInv
    <2>3. QED
      BY <1>1, <1>3, <2>1, <2>2 DEF CallBlank
  <1>5. ASSUME NEW u \in Callers \ {t}, pc'[u] # "idle" PROVE CallUnderWay(u)'
    <2>1. pc'[u] = pc[u] /\ CallUnderWay(u) /\ Current(u)' = Current(u)
      BY <1>1, <1>5 DEF CallInv, Current
    <2>2. Current(u) # Current(t) /\ Current(u) \in Calls
      BY <2>1, <1>5, OwnCall, CurrentIsCall DEF Current, MutexHeld
    <2>3. QED
      BY <1>1, <1>3, <2>1, <2>2 DEF CallUnderWay
  <1>6. ASSUME pc'[t] # "idle" PROVE CallUnderWay(t)'
    <2>1. Current(t)' = Current(t) /\ kind' = kind
      BY <1>1 DEF Current
    <2>2. CASE GoesOn(t)
      BY <1>1, <2>1, <2>2 DEF GoesOn, CallUnderWay
    <2>3. CASE StartsFn(t)
      BY <1>1, <1>2, <2>1, <2>3 DEF StartsFn, CallUnderWay, AllOperations
    <2>4. CASE Returning(t)
      BY <1>6, <2>4 DEF Returning
    <2>5. QED
      BY <1>1, <2>2, <2>3, <2>4
  <1>7. QED
    BY <1>1, <1>4, <1>5, <1>6 DEF CallInv

(* A call is entered in the books when it is made, or refused at once. *)
LEMMA CallerBooks ==
  ASSUME AdapterTypeOK, MutexHeld, NEW t \in Callers, CallerStep(t)
  PROVE  \/ UNCHANGED <<pc, made, kind, tries, result>>
         \/ \E op \in Operations :
              /\ pc[t] = "idle" /\ made[t] + 1 \in 1 .. MaxCalls
              /\ made' = [made EXCEPT ![t] = @ + 1]
              /\ kind' = [kind EXCEPT ![<<t, made[t] + 1>>] = op]
              /\ UNCHANGED tries
              /\ \/ pc' = [pc EXCEPT ![t] = "lock"] /\ UNCHANGED result
                 \/ /\ UNCHANGED pc
                    /\ result' = [result EXCEPT ![<<t, made[t] + 1>>] = "code"]
  <1>1. made[t] \in Nat
    BY DEF AdapterTypeOK
  <1>2. ASSUME NEW op \in Operations, Invoke(t, op) PROVE made[t] + 1 \in 1 .. MaxCalls
    BY <1>1, <1>2, WireAssumption DEF Invoke
  <1>3. ASSUME NEW op \in Operations, RejectInvalid(t, op) PROVE made[t] + 1 \in 1 .. MaxCalls
    BY <1>1, <1>3, WireAssumption DEF RejectInvalid
  <1>4. ASSUME CancelContext(t) PROVE UNCHANGED <<pc, made, kind, tries, result>>
    BY <1>4 DEF CancelContext
  <1>5. QED
    BY <1>2, <1>3, <1>4 DEF CallerStep, Invoke, RejectInvalid, At, Goto

LEMMA CallerCallInv ==
  ASSUME TypeOK, MutexHeld, CallInv, NEW t \in Callers, CallerStep(t)
  PROVE  CallInv'
  <1> USE DEF TypeOK
  <1>1. CASE UNCHANGED <<pc, made, kind, tries, result>>
    BY <1>1 DEF CallInv, CallBlank, CallUnderWay, Current
  <1>2. ASSUME NEW op \in Operations,
               pc[t] = "idle" /\ made[t] + 1 \in 1 .. MaxCalls,
               made' = [made EXCEPT ![t] = @ + 1],
               kind' = [kind EXCEPT ![<<t, made[t] + 1>>] = op],
               UNCHANGED tries,
               \/ pc' = [pc EXCEPT ![t] = "lock"] /\ UNCHANGED result
               \/ UNCHANGED pc /\ result' = [result EXCEPT ![<<t, made[t] + 1>>] = "code"]
        PROVE  CallInv'
    <2> DEFINE k == <<t, made[t] + 1>>
    <2>1. /\ k \in Calls /\ op \in AllOperations /\ made \in [Callers -> 0 .. MaxCalls]
          /\ pc \in [Callers -> Locations] /\ kind \in [Calls -> AllOperations \cup {"none"}]
          /\ result \in [Calls -> Returns \cup {"none"}]
      BY <1>2, AdapterAssumption DEF AdapterTypeOK, Calls
    <2>2. CallBlank(k)
      BY <1>2, <2>1 DEF CallInv
    <2>3. \A l \in Calls \ {k} : kind'[l] = kind[l] /\ tries'[l] = tries[l] /\ result'[l] = result[l]
      BY <1>2, <2>1
    <2>4. ASSUME NEW u \in Callers, NEW n \in 1 .. MaxCalls, n > made'[u]
          PROVE  CallBlank(<<u, n>>)'
      <3>1. n > made[u] /\ <<u, n>> # k /\ <<u, n>> \in Calls
        BY <1>2, <2>1, <2>4 DEF Calls
      <3>2. CallBlank(<<u, n>>)
        BY <3>1 DEF CallInv
      <3>3. QED
        BY <2>3, <3>1, <3>2 DEF CallBlank
    <2>5. ASSUME NEW u \in Callers \ {t}, pc'[u] # "idle" PROVE CallUnderWay(u)'
      <3>1. pc'[u] = pc[u] /\ CallUnderWay(u) /\ made'[u] = made[u] /\ made[u] > 0
        BY <1>2, <2>1, <2>5 DEF CallInv, MutexHeld
      <3>2. Current(u)' = Current(u) /\ Current(u) # k /\ Current(u) \in Calls
        BY <3>1, CurrentIsCall DEF Current
      <3>3. QED
        BY <2>3, <3>1, <3>2 DEF CallUnderWay
    <2>6. ASSUME pc'[t] # "idle" PROVE CallUnderWay(t)'
      <3>1. /\ pc'[t] = "lock" /\ UNCHANGED <<tries, result>> /\ kind'[k] = op
            /\ Current(t)' = k
        BY <1>2, <2>1, <2>6 DEF Current
      <3>2. QED
        BY <2>1, <2>2, <3>1 DEF CallUnderWay, CallBlank
    <2>7. QED
      BY <2>4, <2>5, <2>6 DEF CallInv
  <1>3. QED
    BY <1>1, <1>2, CallerBooks

LEMMA CallStep ==
  ASSUME TypeOK, MutexHeld, CallInv, [Next]_vars
  PROVE  CallInv'
  <1>1. ASSUME UNCHANGED adapterVars PROVE CallInv'
    BY <1>1 DEF adapterVars, CallInv, CallBlank, CallUnderWay, Current
  <1>2. QED
    BY <1>1, MethodCallInv, CallerCallInv DEF Next, Adapter, Peer, Environment, vars

-----------------------------------------------------------------------------
(* A request that changes the registry belongs to a call that does, and an
   answer tells the truth about it.                                        *)
FrameInv ==
  \A c \in Conns :
    /\ \A r \in Requests(c) : r.kind = "transform" => kind[r.call] = "Transform"
    /\ \A a \in Answers(c) : a.kind = "transform" =>
         /\ a.call \in Calls /\ a.res # "greeting"
         /\ a.res = "ok" => execs[a.call] > 0

LEMMA FrameInit == Init => FrameInv
  BY DEF Init, AdapterInit, WireInit, FrameInv, Requests, Answers

LEMMA FramesTyped ==
  ASSUME WireTypeOK, NEW c \in Conns
  PROVE  Requests(c) \subseteq Request /\ Answers(c) \subseteq Answer
  BY DEF WireTypeOK, Requests, Answers

(* The registry only counts up, and for a request that is under way. *)
LEMMA PerformCounts ==
  ASSUME PeerTypeOK, NEW r \in Request, NEW done \in BOOLEAN, Perform(r, done)
  PROVE  \A k \in Calls :
           \/ execs'[k] = execs[k] /\ (r.kind = "transform" /\ r.call = k => ~done)
           \/ execs'[k] = execs[k] + 1 /\ r.kind = "transform" /\ r.call = k /\ done
  BY DEF PeerTypeOK, Perform, Request

LEMMA FrameStep ==
  ASSUME TypeOK, WireInv, QuietInv, CallInv, FrameInv, [Next]_vars
  PROVE  FrameInv'
  <1>1. ASSUME \A d \in Conns : Requests(d)' \subseteq Requests(d) /\ Answers(d)' \subseteq Answers(d),
               UNCHANGED <<kind, execs>>
        PROVE  FrameInv'
    BY <1>1 DEF FrameInv
  <1>2. ASSUME UNCHANGED <<c2s, s2c, execs>>, \A k \in Calls : kind[k] # "none" => kind'[k] = kind[k]
        PROVE  FrameInv'
    <2>1. \A d \in Conns : Requests(d)' = Requests(d) /\ Answers(d)' = Answers(d)
      BY <1>2 DEF Requests, Answers
    <2>2. \A d \in Conns : \A r \in Requests(d) : r.call \in Calls
      BY FramesTyped DEF TypeOK, Request
    <2>3. QED
      BY <1>2, <2>1, <2>2 DEF FrameInv
  <1>3. ASSUME NEW t \in Callers, Adapter(t) PROVE FrameInv'
    <2>1. MethodStep(t) /\ UNCHANGED <<execs, kind>>
      BY <1>3, StepperAlone DEF Adapter, peerVars, TypeOK, WireInv
    <2>2. \A d \in Conns : Answers(d)' \subseteq Answers(d)
      BY <2>1, MethodFrames
    <2>3. ASSUME NEW r \in Request, NEW c \in Conns, Added(c, r),
                 r.kind = "transform" => kind[r.call] = "Transform"
          PROVE  FrameInv'
      BY <2>1, <2>2, <2>3 DEF FrameInv, Added
    <2>4. CASE Send(t)
      <3>1. pc[t] = "send"
        BY <2>4 DEF Send, At
      <3>2. kind[Current(t)] \in WithConnOps \cup {"Logout"}
        BY <3>1 DEF CallInv, CallUnderWay
      <3>3. WireKind(kind[Current(t)]) = "transform" => kind[Current(t)] = "Transform"
        BY <3>2 DEF WithConnOps, WireKind
      <3>4. QED
        BY <2>3, <2>4, <3>3, SendFrames
    <2>5. CASE ReadGreeting(t)
      BY <2>3, <2>5, LoginFrames
    <2>6. CASE \A d \in Conns : Requests(d)' \subseteq Requests(d)
      BY <1>1, <2>1, <2>2, <2>6
    <2>7. QED
      BY <2>1, <2>4, <2>5, <2>6, MethodFrames
  <1>4. ASSUME NEW c \in Conns, Peer(c) PROVE FrameInv'
    <2>1. UNCHANGED kind
      BY <1>4 DEF Peer, adapterVars
    <2>2. CASE Greeted(c)
      BY <2>1, <2>2 DEF Greeted, FrameInv
    <2>3. ASSUME NEW r \in Request, NEW done \in BOOLEAN, Answered(c, r, done) PROVE FrameInv'
      <3>1. PICK res \in Results :
              /\ Truthful(r, res, done)
              /\ \A d \in Conns :
                   Answers(d)' \subseteq Answers(d) \cup (IF d = c THEN {Reply(r, res)} ELSE {})
        BY <2>3 DEF Answered
      <3>2. /\ execs \in [Calls -> Nat] /\ r.call \in Calls
            /\ \A k \in Calls : execs'[k] >= execs[k]
            /\ r.kind = "transform" /\ done => execs'[r.call] > 0
        BY <2>3, PerformCounts DEF Answered, TypeOK, PeerTypeOK, Request
      <3>3. /\ Reply(r, res).kind = r.kind /\ Reply(r, res).call = r.call
            /\ Reply(r, res).res = res
        BY DEF Reply
      <3>4. ASSUME NEW d \in Conns, NEW a \in Answers(d)', a.kind = "transform"
            PROVE  /\ a.call \in Calls /\ a.res # "greeting"
                   /\ a.res = "ok" => execs'[a.call] > 0
        <4>1. CASE a \in Answers(d)
          <5>1. a.call \in Calls /\ a.res # "greeting" /\ (a.res = "ok" => execs[a.call] > 0)
            BY <3>4, <4>1 DEF FrameInv
          <5>2. execs'[a.call] >= execs[a.call] /\ execs[a.call] \in Nat
            BY <3>2, <5>1
          <5>3. execs'[a.call] \in Nat
            BY <2>3, <3>2, <5>1, PerformCounts DEF Answered, TypeOK
          <5>4. QED
            BY <5>1, <5>2, <5>3
        <4>2. CASE a = Reply(r, res)
          BY <3>1, <3>2, <3>3, <3>4, <4>2 DEF Truthful
        <4>3. QED
          BY <3>1, <3>4, <4>1, <4>2
      <3>5. \A d \in Conns : Requests(d)' \subseteq Requests(d)
        BY <2>3 DEF Answered
      <3>6. QED
        BY <2>1, <3>4, <3>5 DEF FrameInv
    <2>4. CASE Dropped
      BY <1>1, <2>1, <2>4 DEF Dropped, peerVars
    <2>5. QED
      BY <1>4, <2>2, <2>3, <2>4, PeerFrames
  <1>5. ASSUME NEW t \in Callers, CallerStep(t), UNCHANGED peerVars PROVE FrameInv'
    <2>1. UNCHANGED <<c2s, s2c, execs>>
      BY <1>5, CallerFrames DEF peerVars
    <2>2. ASSUME NEW op \in Operations, made[t] + 1 \in 1 .. MaxCalls,
                 kind' = [kind EXCEPT ![<<t, made[t] + 1>>] = op]
          PROVE  \A k \in Calls : kind[k] # "none" => kind'[k] = kind[k]
      <3>1. made[t] + 1 > made[t]
        BY DEF TypeOK, AdapterTypeOK
      <3>2. kind[<<t, made[t] + 1>>] = "none"
        BY <2>2, <3>1 DEF CallInv, CallBlank
      <3>3. QED
        BY <2>2, <3>2 DEF TypeOK, AdapterTypeOK
    <2>3. \A k \in Calls : kind[k] # "none" => kind'[k] = kind[k]
      BY <1>5, <2>2, CallerBooks DEF TypeOK, WireInv
    <2>4. QED
      BY <1>2, <2>1, <2>3
  <1>6. ASSUME NEW c \in Conns, BreakLink(c), UNCHANGED <<adapterVars, peerVars>> PROVE FrameInv'
    BY <1>1, <1>6, BreakFrames DEF TypeOK, peerVars, adapterVars
  <1>7. CASE UNCHANGED vars
    BY <1>2, <1>7 DEF vars, wireVars, peerVars, adapterVars
  <1>8. QED
    BY <1>3, <1>4, <1>5, <1>6, <1>7 DEF Next, Environment

-----------------------------------------------------------------------------
(* The connections on which a call may still be carried out, or refused: they
   carry a request of the call that nobody has read, or its refusal.        *)
Open(k) ==
  {c \in Conns :
     \/ \E r \in Requests(c) : r.kind = "transform" /\ r.call = k
     \/ \E a \in Answers(c) : a.kind = "transform" /\ a.call = k /\ a.res = "code"}

(* The requests a call has put on the wire, those lost at once included. *)
Sent(k) ==
  IF k = Current(k[1]) /\ Unsent(pc[k[1]]) THEN tries[k] - 1 ELSE tries[k]

(* Every execution, and everything that may still lead to one, has its own
   request; and a call refused in its first run has no other.              *)
ExecInv ==
  \A k \in Calls :
    /\ IsFiniteSet(Open(k))
    /\ execs[k] + Cardinality(Open(k)) <= Sent(k)
    /\ CallStatus(k) = "rejected" => execs[k] = 0 /\ Open(k) = {}

LEMMA ExecInit == Init => ExecInv
  <1> SUFFICES ASSUME Init, NEW k \in Calls
               PROVE  /\ Open(k) = {} /\ execs[k] = 0 /\ Sent(k) = 0
    BY FS_EmptySet DEF ExecInv
  <1>1. Open(k) = {} /\ execs[k] = 0
    BY DEF Init, AdapterInit, WireInit, PeerInit, Open, Requests, Answers
  <1>2. Sent(k) = 0
    BY DEF Init, AdapterInit, Calls, Sent, Unsent
  <1>3. QED
    BY <1>1, <1>2

LEMMA SentBounds ==
  ASSUME TypeOK, CallInv, NEW k \in Calls
  PROVE  Sent(k) \in Nat /\ Sent(k) <= tries[k] /\ tries[k] <= 2
  <1>1. /\ k[1] \in Callers /\ tries[k] \in {0, 1, 2}
    BY DEF Calls, TypeOK, AdapterTypeOK
  <1>2. ASSUME k = Current(k[1]), Unsent(pc[k[1]]) PROVE tries[k] # 0
    BY <1>1, <1>2 DEF CallInv, CallUnderWay, Unsent
  <1>3. QED
    BY <1>1, <1>2 DEF Sent

(* What becomes of a finite set that loses or gains at most one element. *)
LEMMA Shrinks ==
  ASSUME NEW S, NEW T, IsFiniteSet(S), T \subseteq S
  PROVE  IsFiniteSet(T) /\ Cardinality(T) <= Cardinality(S)
         /\ Cardinality(S) \in Nat /\ Cardinality(T) \in Nat
  BY FS_Subset, FS_CardinalityType

LEMMA GrowsByOne ==
  ASSUME NEW S, NEW T, NEW x, IsFiniteSet(S), T \subseteq S \cup {x}
  PROVE  IsFiniteSet(T) /\ Cardinality(T) <= Cardinality(S) + 1
         /\ Cardinality(S) \in Nat /\ Cardinality(T) \in Nat
  <1>1. /\ IsFiniteSet(S \cup {x})
        /\ Cardinality(S \cup {x}) <= Cardinality(S) + 1
        /\ Cardinality(S) \in Nat
    BY FS_AddElement, FS_CardinalityType
  <1>2. IsFiniteSet(T) /\ Cardinality(T) <= Cardinality(S \cup {x})
    BY <1>1, Shrinks
  <1>3. Cardinality(T) \in Nat /\ Cardinality(S \cup {x}) \in Nat
    BY <1>1, <1>2, FS_CardinalityType
  <1>4. QED
    BY <1>1, <1>2, <1>3

LEMMA LosesOne ==
  ASSUME NEW S, NEW T, NEW x, IsFiniteSet(S), T \subseteq S, x \in S, x \notin T
  PROVE  IsFiniteSet(T) /\ Cardinality(T) + 1 <= Cardinality(S)
         /\ Cardinality(S) \in Nat /\ Cardinality(T) \in Nat
  <1>1. IsFiniteSet(S \ {x}) /\ Cardinality(S \ {x}) = Cardinality(S) - 1 /\ Cardinality(S) \in Nat
    BY FS_RemoveElement, FS_CardinalityType
  <1>2. /\ IsFiniteSet(T) /\ Cardinality(T) <= Cardinality(S \ {x})
        /\ Cardinality(T) \in Nat
    BY <1>1, Shrinks
  <1>3. QED
    BY <1>1, <1>2

(* The books of the other calls, and how many requests this one has sent. *)
LEMMA MethodSends ==
  ASSUME TypeOK, MutexHeld, CallInv, NEW t \in Callers, MethodStep(t), NEW k \in Calls
  PROVE  /\ Sent(k)' >= Sent(k)
         /\ Send(t) /\ k = Current(t) => Sent(k)' = Sent(k) + 1
         /\ k # Current(t) => tries'[k] = tries[k] /\ result'[k] = result[k]
  <1> USE DEF TypeOK
  <1>1. /\ UNCHANGED <<made, kind>> /\ \A u \in Callers \ {t} : pc'[u] = pc[u]
        /\ pc[t] # "idle" /\ made[t] > 0 /\ CallUnderWay(t)
        /\ GoesOn(t) \/ StartsFn(t) \/ Returning(t)
    BY MethodBooks DEF CallInv
  <1>2. /\ Current(t) \in Calls /\ tries \in [Calls -> {0, 1, 2}]
        /\ result \in [Calls -> Returns \cup {"none"}] /\ k[1] \in Callers
    BY <1>1, CurrentIsCall DEF AdapterTypeOK, Calls
  <1>3. CASE k # Current(t)
    <2>1. tries'[k] = tries[k] /\ result'[k] = result[k]
      BY <1>1, <1>2, <1>3 DEF GoesOn, StartsFn, Returning
    <2>2. Sent(k)' = Sent(k)
      <3>1. CASE k[1] = t
        BY <1>1, <1>3, <2>1, <3>1 DEF Sent, Current
      <3>2. CASE k[1] # t
        BY <1>1, <1>2, <2>1, <3>2 DEF Sent, Current
      <3>3. QED
        BY <3>1, <3>2
    <2>3. Sent(k) \in Nat
      BY SentBounds
    <2>4. QED
      BY <1>3, <2>1, <2>2, <2>3
  <1>4. CASE k = Current(t)
    <2>1. /\ k[1] = t /\ k = Current(k[1]) /\ k = Current(k[1])'
          /\ tries[k] \in {0, 1, 2}
      BY <1>1, <1>2, <1>4 DEF Current
    <2>2. /\ Sent(k) = IF Unsent(pc[t]) THEN tries[k] - 1 ELSE tries[k]
          /\ Sent(k)' = IF Unsent(pc'[t]) THEN tries'[k] - 1 ELSE tries'[k]
      BY <2>1 DEF Sent, Unsent
    <2>3. CASE GoesOn(t)
      <3>1. tries'[k] = tries[k] /\ (Unsent(pc'[t]) => Unsent(pc[t]))
        BY <2>3 DEF GoesOn
      <3>2. QED
        <4>1. Send(t) => pc[t] = "send" /\ pc'[t] = "receive"
          BY DEF Send, At, Goto, AdapterTypeOK
        <4>2. Unsent("send") /\ ~Unsent("receive")
          BY DEF Unsent
        <4>3. QED
          BY <1>4, <2>1, <2>2, <3>1, <4>1, <4>2
    <2>4. CASE StartsFn(t)
      <3>1. ~Send(t)
        BY <2>4 DEF StartsFn, Send, At
      <3>2. CASE pc[t] = "lock"
        BY <1>1, <1>2, <1>4, <2>1, <2>2, <2>4, <3>1, <3>2 DEF StartsFn, CallUnderWay, Unsent
      <3>3. CASE pc[t] = "receive"
        BY <1>1, <1>2, <1>4, <2>1, <2>2, <2>4, <3>1, <3>3 DEF StartsFn, Unsent
      <3>4. QED
        BY <2>4, <3>2, <3>3 DEF StartsFn
    <2>5. CASE Returning(t)
      <3>1. tries'[k] = tries[k] /\ ~Unsent(pc'[t])
        BY <2>5 DEF Returning, Unsent
      <3>2. ~Send(t)
        BY <2>5 DEF Returning, Send, Goto, AdapterTypeOK
      <3>3. QED
        BY <1>4, <2>1, <2>2, <3>1, <3>2
    <2>6. QED
      BY <1>1, <2>3, <2>4, <2>5
  <1>5. QED
    BY <1>3, <1>4

(* The answer that AcceptAnswer returns is one to the call it returns from,
   and nothing is left on the connection.                                  *)
LEMMA AcceptedAnswer ==
  ASSUME TypeOK, WireInv, QuietInv, FrameInv, NEW t \in Callers, AcceptAnswer(t),
         kind[Current(t)] = "Transform"
  PROVE  /\ conn \in Conns /\ Requests(conn) = {}
         /\ s2c'[conn] = <<>>
         /\ \E a \in Answers(conn) :
              /\ a.kind = "transform" /\ a.call = Current(t) /\ a.res \in {"ok", "code"}
              /\ result' = [result EXCEPT ![Current(t)] = a.res]
  <1> USE DEF WireInv, TypeOK
  <1>1. /\ conn \in Conns /\ conn # NoConn /\ Receiving(t) /\ pc[t] = "receive"
        /\ link[conn] = "up" /\ s2c[conn] # <<>>
    BY ReceivingHasConn, WireAssumption DEF AcceptAnswer, At, Receiving, Readable
  <1>2. s2c \in [Conns -> Seq(Answer)] /\ s2c[conn] \in Seq(Answer)
    BY <1>1 DEF WireTypeOK
  <1> DEFINE a == Head(s2c[conn])
  <1>3. 1 \in DOMAIN s2c[conn] /\ a = s2c[conn][1] /\ a \in Answer
    BY <1>1, <1>2, FirstFrame
  <1>4. a \in Answers(conn)
    BY <1>3 DEF Answers
  <1>5. Awaited(t, a)
    BY <1>1, <1>3 DEF OneAnswerDue
  <1>6. a.kind = "transform" /\ a.call = Current(t)
    BY <1>1, <1>5 DEF Awaited, WireKind
  <1>7. a.res \in Results /\ a.res # "greeting"
    BY <1>1, <1>3, <1>4, <1>6 DEF FrameInv, Answer
  <1>8. ~Unusable("Transform", a.res) /\ Return(t, IF a.res = "code" THEN "code" ELSE "ok")
    BY DEF AcceptAnswer
  <1>9. a.res \in {"ok", "code"}
    BY <1>7, <1>8 DEF Unusable, Results
  <1>10. result' = [result EXCEPT ![Current(t)] = a.res]
    BY <1>8, <1>9 DEF Return
  <1>11. Quiet(conn)
    BY <1>1 DEF QuietInv
  <1>12. c2s[conn] = <<>> /\ Tail(s2c[conn]) = <<>>
    BY <1>1, <1>2, <1>11, OneFrame DEF Quiet
  <1>13. s2c'[conn] = <<>>
    BY <1>1, <1>2, <1>12 DEF AcceptAnswer, ReadAnswer
  <1>14. Requests(conn) = {}
    BY <1>1, <1>12, NoFrames
  <1>15. QED
    BY <1>1, <1>4, <1>6, <1>9, <1>10, <1>13, <1>14

(* How a step of a method changes the status of a call that changes the
   registry: not at all, or the call ends.                                 *)
Ends(t, k) ==
  /\ k = Current(t) /\ CallStatus(k) = "pending"
  /\ \/ CallStatus(k)' = "failed"
     \/ AcceptAnswer(t) /\ kind[k] = "Transform"
        /\ CallStatus(k)' = CASE result'[k] = "ok" -> "ok"
                              [] result'[k] = "code" /\ tries[k] < 2 -> "rejected"
                              [] OTHER -> "failed"

LEMMA MethodStatus ==
  ASSUME TypeOK, MutexHeld, CallInv, NEW t \in Callers, MethodStep(t), NEW k \in Calls
  PROVE  CallStatus(k)' = CallStatus(k) \/ Ends(t, k)
  <1> USE DEF TypeOK
  <1>1. /\ UNCHANGED <<made, kind>> /\ pc[t] # "idle" /\ made[t] > 0 /\ CallUnderWay(t)
        /\ GoesOn(t) \/ StartsFn(t) \/ Returning(t)
    BY MethodBooks DEF CallInv
  <1>2. Current(t) \in Calls /\ result \in [Calls -> Returns \cup {"none"}]
    BY <1>1, CurrentIsCall DEF AdapterTypeOK
  <1>3. CASE k # Current(t)
    <2>1. tries'[k] = tries[k] /\ result'[k] = result[k]
      BY <1>3, MethodSends
    <2>2. QED
      BY <1>1, <2>1 DEF CallStatus
  <1>4. CASE k = Current(t) /\ kind[k] # "Transform"
    BY <1>1, <1>4 DEF CallStatus
  <1>5. CASE k = Current(t) /\ kind[k] = "Transform"
    <2>1. result[k] = "none" /\ CallStatus(k) = "pending"
      BY <1>1, <1>5 DEF CallUnderWay, CallStatus
    <2>2. CASE GoesOn(t) \/ StartsFn(t)
      <3>1. result' = result
        BY <2>2 DEF GoesOn, StartsFn
      <3>2. QED
        BY <1>1, <1>5, <2>1, <3>1 DEF CallStatus
    <2>3. CASE Returning(t)
      <3>1. PICK r \in Returns :
              /\ result' = [result EXCEPT ![k] = r]
              /\ r = "error" \/ (r = "code" /\ tries[k] = 2) \/ AcceptAnswer(t)
        BY <1>5, <2>3 DEF Returning
      <3>2. result'[k] = r /\ r \in {"ok", "code", "error"} /\ tries' = tries /\ kind'[k] = "Transform"
        BY <1>1, <1>2, <1>5, <2>3, <3>1 DEF Returning, Returns
      <3>3. CASE r = "error" \/ (r = "code" /\ tries[k] = 2)
        <4>1. CallStatus(k)' = "failed"
          BY <3>2, <3>3 DEF CallStatus
        <4>2. QED
          BY <1>5, <2>1, <4>1 DEF Ends
      <3>4. CASE AcceptAnswer(t)
        <4>1. CallStatus(k)' = CASE result'[k] = "ok" -> "ok"
                                 [] result'[k] = "code" /\ tries[k] < 2 -> "rejected"
                                 [] OTHER -> "failed"
          BY <3>2 DEF CallStatus
        <4>2. QED
          BY <1>5, <2>1, <3>4, <4>1 DEF Ends
      <3>5. QED
        BY <3>1, <3>3, <3>4
    <2>4. QED
      BY <1>1, <2>2, <2>3
  <1>6. QED
    BY <1>3, <1>4, <1>5

(* What makes Open grow. *)
LEMMA MethodOpen ==
  ASSUME TypeOK, WireInv, NEW t \in Callers, MethodStep(t), NEW k \in Calls
  PROVE  \/ Open(k)' \subseteq Open(k)
         \/ Send(t) /\ k = Current(t) /\ Open(k)' \subseteq Open(k) \cup {conn}
  <1>1. \A d \in Conns : Answers(d)' \subseteq Answers(d)
    BY MethodFrames
  <1>2. CASE \A d \in Conns : Requests(d)' \subseteq Requests(d)
    BY <1>1, <1>2 DEF Open
  <1>3. ASSUME NEW r \in Request, NEW c \in Conns, Added(c, r), r.kind # "transform" \/ r.call # k
        PROVE  Open(k)' \subseteq Open(k)
    BY <1>1, <1>3 DEF Open, Added
  <1>4. ASSUME NEW r \in Request, NEW c \in Conns, Added(c, r)
        PROVE  Open(k)' \subseteq Open(k) \cup {c}
    BY <1>1, <1>4 DEF Open, Added
  <1>5. CASE Send(t)
    BY <1>3, <1>4, <1>5, SendFrames
  <1>6. CASE ReadGreeting(t)
    BY <1>3, <1>6, LoginFrames
  <1>7. QED
    BY <1>2, <1>5, <1>6, MethodFrames

(* A call whose answer is accepted: nil means it was carried out, an error
   code in the first run means it was not and will not be.                 *)
LEMMA AcceptedTruth ==
  ASSUME TypeOK, WireInv, QuietInv, CallInv, FrameInv, ExecInv,
         NEW t \in Callers, AcceptAnswer(t), NEW k \in Calls, k = Current(t),
         kind[k] = "Transform", Open(k)' \subseteq Open(k)
  PROVE  /\ result'[k] = "ok" => execs[k] > 0
         /\ result'[k] = "code" /\ tries[k] < 2 => execs[k] = 0 /\ Open(k)' = {}
  <1>1. /\ conn \in Conns /\ Requests(conn) = {} /\ s2c'[conn] = <<>>
        /\ \E a \in Answers(conn) :
             /\ a.kind = "transform" /\ a.call = k /\ a.res \in {"ok", "code"}
             /\ result' = [result EXCEPT ![k] = a.res]
    BY AcceptedAnswer
  <1>2. PICK a \in Answers(conn) :
          /\ a.kind = "transform" /\ a.call = k /\ a.res \in {"ok", "code"}
          /\ result' = [result EXCEPT ![k] = a.res]
    BY <1>1
  <1>3. result'[k] = a.res
    BY <1>2 DEF TypeOK, AdapterTypeOK
  <1>4. a.res = "ok" => execs[k] > 0
    BY <1>1, <1>2 DEF FrameInv
  <1>5. ASSUME a.res = "code", tries[k] < 2 PROVE execs[k] = 0 /\ Open(k)' = {}
    <2>1. conn \in Open(k)
      BY <1>1, <1>2, <1>5 DEF Open
    <2>2. c2s' = c2s
      BY DEF AcceptAnswer
    <2>3. ASSUME NEW d \in Conns, d = conn PROVE Requests(d)' = {} /\ Answers(d)' = {}
      <3>1. Requests(d)' = Requests(d)
        BY <2>2 DEF Requests
      <3>2. Requests(d) = {} /\ s2c'[d] = <<>>
        BY <1>1, <2>3
      <3>3. Answers(d)' = {}
        BY <3>2 DEF Answers
      <3>4. QED
        BY <3>1, <3>2, <3>3
    <2>4. ASSUME NEW d \in Open(k)' PROVE d # conn
      BY <2>3, <2>4 DEF Open
    <2>5. conn \notin Open(k)'
      BY <2>4
    <2>6. IsFiniteSet(Open(k)) /\ execs[k] + Cardinality(Open(k)) <= Sent(k)
      BY DEF ExecInv
    <2>7. /\ IsFiniteSet(Open(k)') /\ Cardinality(Open(k)') + 1 <= Cardinality(Open(k))
          /\ Cardinality(Open(k)) \in Nat /\ Cardinality(Open(k)') \in Nat
      BY <2>1, <2>5, <2>6, LosesOne
    <2>8. /\ Sent(k) \in Nat /\ Sent(k) <= tries[k]
          /\ tries[k] \in {0, 1, 2} /\ execs[k] \in Nat
      <3>1. tries[k] \in {0, 1, 2} /\ execs[k] \in Nat
        BY DEF TypeOK, AdapterTypeOK, PeerTypeOK
      <3>2. QED
        BY <3>1, SentBounds
    <2>9. execs[k] = 0 /\ Cardinality(Open(k)') = 0
      BY <1>5, <2>6, <2>7, <2>8
    <2>10. QED
      BY <2>7, <2>9, FS_EmptySet
  <1>6. QED
    BY <1>2, <1>3, <1>4, <1>5

LEMMA MethodExec ==
  ASSUME TypeOK, TypeOK', WireInv, QuietInv, CallInv, FrameInv, ExecInv,
         NEW t \in Callers, MethodStep(t), UNCHANGED execs
  PROVE  ExecInv'
  <1> SUFFICES ASSUME NEW k \in Calls
               PROVE  /\ IsFiniteSet(Open(k))' /\ (execs[k] + Cardinality(Open(k)) <= Sent(k))'
                      /\ CallStatus(k)' = "rejected" => execs[k] = 0 /\ Open(k)' = {}
    BY DEF ExecInv
  <1>1. /\ IsFiniteSet(Open(k)) /\ execs[k] + Cardinality(Open(k)) <= Sent(k)
        /\ CallStatus(k) = "rejected" => execs[k] = 0 /\ Open(k) = {}
    BY DEF ExecInv
  <1>2. /\ Sent(k)' >= Sent(k)
        /\ Send(t) /\ k = Current(t) => Sent(k)' = Sent(k) + 1
    BY MethodSends DEF WireInv
  <1>3. Sent(k) \in Nat /\ execs[k] \in Nat /\ execs'[k] = execs[k]
    BY SentBounds DEF TypeOK, PeerTypeOK
  <1>4. Sent(k)' \in Nat
    <2>1. Sent(k)' \in Int
      BY DEF Sent, TypeOK, AdapterTypeOK
    <2>2. QED
      BY <1>2, <1>3, <2>1
  <1>5. IsFiniteSet(Open(k))' /\ (execs[k] + Cardinality(Open(k)) <= Sent(k))'
    <2>1. CASE Open(k)' \subseteq Open(k)
      <3>1. /\ IsFiniteSet(Open(k)') /\ Cardinality(Open(k)') <= Cardinality(Open(k))
            /\ Cardinality(Open(k)) \in Nat /\ Cardinality(Open(k)') \in Nat
        BY <1>1, <2>1, Shrinks
      <3>2. QED
        BY <1>1, <1>2, <1>3, <1>4, <3>1
    <2>2. CASE Send(t) /\ k = Current(t) /\ Open(k)' \subseteq Open(k) \cup {conn}
      <3>1. /\ IsFiniteSet(Open(k)') /\ Cardinality(Open(k)') <= Cardinality(Open(k)) + 1
            /\ Cardinality(Open(k)) \in Nat /\ Cardinality(Open(k)') \in Nat
        BY <1>1, <2>2, GrowsByOne
      <3>2. QED
        BY <1>1, <1>2, <1>3, <1>4, <2>2, <3>1
    <2>3. QED
      BY <2>1, <2>2, MethodOpen
  <1>6. ASSUME CallStatus(k)' = "rejected" PROVE execs[k] = 0 /\ Open(k)' = {}
    <2>1. ASSUME Send(t), k = Current(t) PROVE FALSE
      <3>1. UNCHANGED <<kind, result>> /\ pc[t] = "send"
        BY <2>1 DEF Send, At
      <3>2. result'[k] = "none"
        BY <2>1, <3>1 DEF CallInv, CallUnderWay
      <3>3. QED
        BY <1>6, <3>2 DEF CallStatus
    <2>2. Open(k)' \subseteq Open(k)
      BY <2>1, MethodOpen
    <2>3. CASE CallStatus(k)' = CallStatus(k)
      BY <1>1, <1>6, <2>2, <2>3
    <2>4. CASE Ends(t, k)
      <3>1. /\ k = Current(t) /\ AcceptAnswer(t) /\ kind[k] = "Transform"
            /\ CallStatus(k)' = CASE result'[k] = "ok" -> "ok"
                                  [] result'[k] = "code" /\ tries[k] < 2 -> "rejected"
                                  [] OTHER -> "failed"
        BY <1>6, <2>4 DEF Ends
      <3>2. result'[k] = "code" /\ tries[k] < 2
        BY <1>6, <3>1
      <3>3. QED
        BY <2>2, <3>1, <3>2, AcceptedTruth
    <2>5. QED
      BY <2>3, <2>4, MethodStatus DEF WireInv
  <1>7. QED
    BY <1>5, <1>6

(* The server carries out, at most once, a request that was open. *)
LEMMA ServedOpen ==
  ASSUME TypeOK, NEW c \in Conns, NEW r \in Request, NEW done \in BOOLEAN, Answered(c, r, done),
         NEW k \in Calls
  PROVE  /\ Open(k)' \subseteq Open(k)
         /\ r.kind = "transform" /\ r.call = k => c \in Open(k) /\ (done => c \notin Open(k)')
  <1>1. PICK res \in Results :
          /\ Truthful(r, res, done)
          /\ \A d \in Conns :
               Answers(d)' \subseteq Answers(d) \cup (IF d = c THEN {Reply(r, res)} ELSE {})
    BY DEF Answered
  <1>2. /\ Requests(c) = {r} /\ Answers(c) = {} /\ Requests(c)' = {}
        /\ \A d \in Conns : Requests(d)' \subseteq Requests(d)
    BY DEF Answered
  <1>3. Reply(r, res).kind = r.kind /\ Reply(r, res).call = r.call /\ Reply(r, res).res = res
    BY DEF Reply
  <1>4. r.kind = "transform" /\ r.call = k => c \in Open(k)
    BY <1>2 DEF Open
  <1>5. ASSUME NEW d \in Open(k)'
        PROVE  d \in Open(k) /\ (r.kind = "transform" /\ r.call = k /\ done => d # c)
    <2>1. CASE d # c
      BY <1>1, <1>2, <1>5, <2>1 DEF Open
    <2>2. CASE d = c
      <3>1. \E a \in Answers(d)' : a.kind = "transform" /\ a.call = k /\ a.res = "code"
        BY <1>2, <1>5, <2>2 DEF Open
      <3>2. r.kind = "transform" /\ r.call = k /\ res = "code"
        BY <1>1, <1>2, <1>3, <2>2, <3>1
      <3>3. ~done
        BY <1>1, <3>2 DEF Truthful
      <3>4. QED
        BY <1>4, <2>2, <3>2, <3>3
    <2>3. QED
      BY <2>1, <2>2
  <1>6. QED
    BY <1>4, <1>5

(* One more execution was allowed, and the call was not refused. *)
Carries(k) ==
  /\ CallStatus(k) \in {"pending", "ok", "failed"} /\ execs[k] < 2
  /\ execs' = [execs EXCEPT ![k] = @ + 1]

LEMMA PeerExec ==
  ASSUME TypeOK, WireInv, QuietInv, CallInv, FrameInv, ExecInv, NEW c \in Conns, Peer(c)
  PROVE  ExecInv' /\ (UNCHANGED execs \/ \E k \in Calls : Carries(k))
  <1>1. \A k \in Calls : Sent(k)' = Sent(k) /\ CallStatus(k)' = CallStatus(k)
    BY DEF Peer, adapterVars, Sent, Current, CallStatus
  <1>2. \A k \in Calls :
          /\ IsFiniteSet(Open(k)) /\ execs[k] + Cardinality(Open(k)) <= Sent(k)
          /\ CallStatus(k) = "rejected" => execs[k] = 0 /\ Open(k) = {}
    BY DEF ExecInv
  <1>3. \A k \in Calls : /\ Sent(k) \in Nat /\ Sent(k) <= 2 /\ execs[k] \in Nat
    <2>1. \A k \in Calls : execs[k] \in Nat /\ tries[k] \in {0, 1, 2}
      BY DEF TypeOK, PeerTypeOK, AdapterTypeOK
    <2>2. QED
      BY <2>1, SentBounds
  <1>4. ASSUME UNCHANGED execs, \A k \in Calls : Open(k)' \subseteq Open(k)
        PROVE  ExecInv'
    <2> SUFFICES ASSUME NEW k \in Calls
                 PROVE  /\ IsFiniteSet(Open(k)') /\ execs'[k] + Cardinality(Open(k)') <= Sent(k)'
                        /\ CallStatus(k)' = "rejected" => execs'[k] = 0 /\ Open(k)' = {}
      BY DEF ExecInv
    <2>1. IsFiniteSet(Open(k)) /\ Open(k)' \subseteq Open(k)
      BY <1>2, <1>4
    <2>2. /\ IsFiniteSet(Open(k)') /\ Cardinality(Open(k)') <= Cardinality(Open(k))
          /\ Cardinality(Open(k)) \in Nat /\ Cardinality(Open(k)') \in Nat
      BY <2>1, Shrinks
    <2>3. QED
      BY <1>1, <1>2, <1>3, <1>4, <2>1, <2>2
  <1>5. ASSUME Greeted(c) PROVE ExecInv'
    <2>1. UNCHANGED execs /\ \A k \in Calls : Open(k)' \subseteq Open(k)
      BY <1>5 DEF Greeted, Open
    <2>2. QED
      BY <1>4, <2>1
  <1>6. ASSUME Dropped PROVE ExecInv'
    <2>1. UNCHANGED execs /\ \A k \in Calls : Open(k)' \subseteq Open(k)
      BY <1>6 DEF Dropped, Open, peerVars
    <2>2. QED
      BY <1>4, <2>1
  <1>7. ASSUME NEW r \in Request, NEW done \in BOOLEAN, Answered(c, r, done)
        PROVE  ExecInv' /\ (UNCHANGED execs \/ \E k \in Calls : Carries(k))
    <2>1. \A k \in Calls :
            /\ Open(k)' \subseteq Open(k)
            /\ r.kind = "transform" /\ r.call = k => c \in Open(k) /\ (done => c \notin Open(k)')
      BY <1>7, ServedOpen
    <2>2. CASE ~(done /\ r.kind = "transform")
      <3>1. UNCHANGED execs
        BY <1>7, <2>2 DEF Answered, Perform
      <3>2. QED
        BY <1>4, <2>1, <3>1
    <2>3. CASE done /\ r.kind = "transform"
      <3> DEFINE l == r.call
      <3>1. l \in Calls /\ execs' = [execs EXCEPT ![l] = @ + 1]
        BY <1>7, <2>3 DEF Answered, Perform, Request
      <3>2. execs'[l] = execs[l] + 1 /\ \A k \in Calls \ {l} : execs'[k] = execs[k]
        BY <3>1 DEF TypeOK, PeerTypeOK
      <3>3. c \in Open(l) /\ c \notin Open(l)' /\ Open(l)' \subseteq Open(l) /\ IsFiniteSet(Open(l))
        BY <1>2, <2>1, <2>3, <3>1
      <3>4. /\ IsFiniteSet(Open(l)') /\ Cardinality(Open(l)') + 1 <= Cardinality(Open(l))
            /\ Cardinality(Open(l)) \in Nat /\ Cardinality(Open(l)') \in Nat
        BY <3>3, LosesOne
      <3>5. execs[l] < 2 /\ CallStatus(l) # "rejected"
        BY <1>2, <1>3, <3>1, <3>3, <3>4
      <3>6. kind[l] = "Transform"
        BY <1>7, <2>3 DEF Answered, FrameInv
      <3>7. CallStatus(l) \in {"pending", "ok", "failed"}
        BY <3>5, <3>6 DEF CallStatus
      <3>8. ASSUME NEW k \in Calls
            PROVE  /\ IsFiniteSet(Open(k)') /\ execs'[k] + Cardinality(Open(k)') <= Sent(k)'
                   /\ CallStatus(k)' = "rejected" => execs'[k] = 0 /\ Open(k)' = {}
        <4>1. CASE k = l
          <5>1. IsFiniteSet(Open(l)') /\ execs'[l] + Cardinality(Open(l)') <= Sent(l)
            BY <1>2, <1>3, <3>1, <3>2, <3>4
          <5>2. Sent(l)' = Sent(l) /\ CallStatus(l)' # "rejected"
            BY <1>1, <3>1, <3>5
          <5>3. QED
            BY <4>1, <5>1, <5>2
        <4>2. CASE k # l
          <5>1. IsFiniteSet(Open(k)) /\ Open(k)' \subseteq Open(k)
            BY <1>2, <2>1
          <5>2. /\ IsFiniteSet(Open(k)') /\ Cardinality(Open(k)') <= Cardinality(Open(k))
                /\ Cardinality(Open(k)) \in Nat /\ Cardinality(Open(k)') \in Nat
            BY <5>1, Shrinks
          <5>3. QED
            BY <1>1, <1>2, <1>3, <3>2, <4>2, <5>1, <5>2
        <4>3. QED
          BY <4>1, <4>2
      <3>9. ExecInv'
        BY <3>8 DEF ExecInv
      <3>10. Carries(l)
        BY <3>1, <3>5, <3>7 DEF Carries
      <3>11. QED
        BY <3>1, <3>9, <3>10
    <2>4. QED
      BY <2>2, <2>3
  <1>8. QED
    <2>1. CASE Greeted(c) \/ Dropped
      BY <1>5, <1>6, <2>1 DEF Greeted, Dropped, peerVars
    <2>2. CASE \E r \in Request, done \in BOOLEAN : Answered(c, r, done)
      BY <1>7, <2>2
    <2>3. QED
      BY <2>1, <2>2, PeerFrames

(* A call that was not made has left no trace. *)
LEMMA BlankCall ==
  ASSUME TypeOK, CallInv, ExecInv, NEW t \in Callers, NEW n \in 1 .. MaxCalls, n > made[t]
  PROVE  /\ <<t, n>> \in Calls /\ CallBlank(<<t, n>>)
         /\ execs[<<t, n>>] = 0 /\ Open(<<t, n>>) = {}
  <1> DEFINE k == <<t, n>>
  <1>1. k \in Calls /\ CallBlank(k)
    BY DEF Calls, CallInv
  <1>2. IsFiniteSet(Open(k)) /\ execs[k] + Cardinality(Open(k)) <= Sent(k)
    BY <1>1 DEF ExecInv
  <1>3. Sent(k) \in Nat /\ Sent(k) <= 0
    BY <1>1, SentBounds DEF CallBlank
  <1>4. execs[k] \in Nat /\ Cardinality(Open(k)) \in Nat
    BY <1>1, <1>2, FS_CardinalityType DEF TypeOK, PeerTypeOK
  <1>5. execs[k] = 0 /\ Cardinality(Open(k)) = 0
    BY <1>2, <1>3, <1>4
  <1>6. QED
    BY <1>1, <1>2, <1>5, FS_EmptySet

(* What a caller changes in the status of a call. *)
LEMMA CallerStatus ==
  ASSUME TypeOK, MutexHeld, CallInv, ExecInv, NEW t \in Callers, CallerStep(t)
  PROVE  /\ \A k \in Calls : Sent(k)' = Sent(k)
         /\ \/ \A k \in Calls : CallStatus(k)' = CallStatus(k)
            \/ \E k \in Calls :
                 /\ CallStatus(k) = "new" /\ execs[k] = 0 /\ Open(k) = {}
                 /\ CallStatus(k)' \in {"pending", "rejected"}
                 /\ \A l \in Calls \ {k} : CallStatus(l)' = CallStatus(l)
  <1> USE DEF TypeOK
  <1>1. CASE UNCHANGED <<pc, made, kind, tries, result>>
    BY <1>1 DEF Sent, Current, CallStatus
  <1>2. ASSUME NEW op \in Operations,
               pc[t] = "idle" /\ made[t] + 1 \in 1 .. MaxCalls,
               made' = [made EXCEPT ![t] = @ + 1],
               kind' = [kind EXCEPT ![<<t, made[t] + 1>>] = op],
               UNCHANGED tries,
               \/ pc' = [pc EXCEPT ![t] = "lock"] /\ UNCHANGED result
               \/ UNCHANGED pc /\ result' = [result EXCEPT ![<<t, made[t] + 1>>] = "code"]
        PROVE  /\ \A k \in Calls : Sent(k)' = Sent(k)
               /\ \/ \A k \in Calls : CallStatus(k)' = CallStatus(k)
                  \/ \E k \in Calls :
                       /\ CallStatus(k) = "new" /\ execs[k] = 0 /\ Open(k) = {}
                       /\ CallStatus(k)' \in {"pending", "rejected"}
                       /\ \A l \in Calls \ {k} : CallStatus(l)' = CallStatus(l)
    <2>1. /\ made \in [Callers -> 0 .. MaxCalls] /\ pc \in [Callers -> Locations]
          /\ kind \in [Calls -> AllOperations \cup {"none"}]
          /\ result \in [Calls -> Returns \cup {"none"}]
      BY DEF AdapterTypeOK
    <2>2. PICK k \in Calls : /\ k = <<t, made[t] + 1>>
                             /\ CallBlank(k) /\ execs[k] = 0 /\ Open(k) = {}
      <3>1. made[t] + 1 > made[t]
        BY <2>1
      <3>2. QED
        BY <1>2, <3>1, BlankCall
    <2>3. ASSUME NEW l \in Calls PROVE Sent(l)' = Sent(l)
      <3>1. l[1] \in Callers
        BY DEF Calls
      <3>2. CASE l[1] = t
        <4>1. ~Unsent(pc[t]) /\ ~Unsent(pc'[t])
          BY <1>2, <2>1 DEF Unsent
        <4>2. QED
          BY <1>2, <3>2, <4>1 DEF Sent, Unsent
      <3>3. CASE l[1] # t
        <4>1. made'[l[1]] = made[l[1]] /\ pc'[l[1]] = pc[l[1]]
          BY <1>2, <2>1, <3>1, <3>3
        <4>2. QED
          BY <1>2, <4>1 DEF Sent, Current, Unsent
      <3>4. QED
        BY <3>2, <3>3
    <2>4. ASSUME NEW l \in Calls \ {k} PROVE CallStatus(l)' = CallStatus(l)
      <3>1. kind'[l] = kind[l] /\ result'[l] = result[l] /\ tries'[l] = tries[l]
        BY <1>2, <2>1, <2>2, <2>4
      <3>2. QED
        BY <3>1 DEF CallStatus
    <2>5. CallStatus(k) = "new" /\ tries'[k] = 0 /\ kind'[k] = op
      BY <1>2, <2>1, <2>2 DEF CallBlank, CallStatus
    <2>6. result'[k] \in {"none", "code"}
      BY <1>2, <2>1, <2>2 DEF CallBlank
    <2>7. CallStatus(k)' \in {"new", "pending", "rejected"}
      BY <2>5, <2>6 DEF CallStatus
    <2>8. CASE CallStatus(k)' = "new"
      BY <2>3, <2>4, <2>5, <2>8
    <2>9. CASE CallStatus(k)' # "new"
      BY <2>2, <2>3, <2>4, <2>5, <2>7, <2>9
    <2>10. QED
      BY <2>8, <2>9
  <1>3. QED
    BY <1>1, <1>2, CallerBooks

LEMMA ExecKept ==
  ASSUME TypeOK, ExecInv, UNCHANGED execs,
         \A k \in Calls : Open(k)' \subseteq Open(k) /\ Sent(k)' = Sent(k),
         \A k \in Calls : CallStatus(k)' = "rejected" =>
           CallStatus(k) = "rejected" \/ (execs[k] = 0 /\ Open(k) = {}),
         \A k \in Calls : Sent(k) \in Nat
  PROVE  ExecInv'
  <1> SUFFICES ASSUME NEW k \in Calls
               PROVE  /\ IsFiniteSet(Open(k)') /\ execs'[k] + Cardinality(Open(k)') <= Sent(k)'
                      /\ CallStatus(k)' = "rejected" => execs'[k] = 0 /\ Open(k)' = {}
    BY DEF ExecInv
  <1>1. /\ IsFiniteSet(Open(k)) /\ execs[k] + Cardinality(Open(k)) <= Sent(k)
        /\ CallStatus(k) = "rejected" => execs[k] = 0 /\ Open(k) = {}
    BY DEF ExecInv
  <1>2. Open(k)' \subseteq Open(k)
    OBVIOUS
  <1>3. /\ IsFiniteSet(Open(k)') /\ Cardinality(Open(k)') <= Cardinality(Open(k))
        /\ Cardinality(Open(k)) \in Nat /\ Cardinality(Open(k)') \in Nat
    BY <1>1, <1>2, Shrinks
  <1>4. execs[k] \in Nat /\ execs'[k] = execs[k] /\ Sent(k) \in Nat /\ Sent(k)' = Sent(k)
    BY DEF TypeOK, PeerTypeOK
  <1>5. QED
    BY <1>1, <1>2, <1>3, <1>4

LEMMA ExecStep ==
  ASSUME TypeOK, TypeOK', WireInv, QuietInv, CallInv, FrameInv, ExecInv, [Next]_vars
  PROVE  ExecInv'
  <1>1. \A k \in Calls : Sent(k) \in Nat
    BY SentBounds
  <1>2. ASSUME NEW t \in Callers, Adapter(t) PROVE ExecInv'
    BY <1>2, MethodExec DEF Adapter, peerVars
  <1>3. ASSUME NEW c \in Conns, Peer(c) PROVE ExecInv'
    BY <1>3, PeerExec
  <1>4. ASSUME NEW t \in Callers, CallerStep(t), UNCHANGED peerVars PROVE ExecInv'
    <2>1. UNCHANGED <<c2s, s2c, execs>>
      BY <1>4, CallerFrames DEF peerVars
    <2>2. \A k \in Calls : Open(k)' = Open(k)
      BY <2>1 DEF Open, Requests, Answers
    <2>3. /\ \A k \in Calls : Sent(k)' = Sent(k)
          /\ \A k \in Calls : CallStatus(k)' = "rejected" =>
               CallStatus(k) = "rejected" \/ (execs[k] = 0 /\ Open(k) = {})
      BY <1>4, CallerStatus DEF WireInv
    <2>4. QED
      BY <1>1, <2>1, <2>2, <2>3, ExecKept
  <1>5. ASSUME UNCHANGED <<adapterVars, peerVars>>,
               \A d \in Conns : Requests(d)' \subseteq Requests(d) /\ Answers(d)' \subseteq Answers(d)
        PROVE  ExecInv'
    <2>1. \A k \in Calls : Open(k)' \subseteq Open(k)
      BY <1>5 DEF Open
    <2>2. /\ UNCHANGED execs
          /\ \A k \in Calls : Sent(k)' = Sent(k) /\ CallStatus(k)' = CallStatus(k)
      BY <1>5 DEF adapterVars, peerVars, Sent, Current, CallStatus
    <2>3. QED
      BY <1>1, <2>1, <2>2, ExecKept
  <1>6. ASSUME NEW c \in Conns, BreakLink(c), UNCHANGED <<adapterVars, peerVars>> PROVE ExecInv'
    BY <1>5, <1>6, BreakFrames DEF TypeOK
  <1>7. CASE UNCHANGED vars
    <2>1. \A d \in Conns : Requests(d)' = Requests(d) /\ Answers(d)' = Answers(d)
      BY <1>7 DEF vars, wireVars, Requests, Answers
    <2>2. QED
      BY <1>5, <1>7, <2>1 DEF vars
  <1>8. QED
    BY <1>2, <1>3, <1>4, <1>6, <1>7 DEF Next, Environment

-----------------------------------------------------------------------------
(* Every step of the session is a step of RemoteCalls, or none.            *)
Same(k) ==
  \A l \in Calls \ {k} : CallStatus(l)' = CallStatus(l)

LEMMA StatusMoves ==
  ASSUME NEW k \in Calls, NEW s, CallStatus(k)' = s, Same(k)
  PROVE  [l \in Calls |-> CallStatus(l)]' = [[l \in Calls |-> CallStatus(l)] EXCEPT ![k] = s]
  BY DEF Same

LEMMA RemoteInit == Init => Remote!Init
  <1> SUFFICES ASSUME Init PROVE Remote!Init
    OBVIOUS
  <1>1. execs = [k \in Calls |-> 0]
    BY DEF Init, PeerInit
  <1>2. \A k \in Calls : CallStatus(k) = "new"
    BY DEF Init, AdapterInit, CallStatus
  <1>3. QED
    BY <1>1, <1>2 DEF Remote!Init

LEMMA RemoteStutter ==
  ASSUME UNCHANGED execs, \A k \in Calls : CallStatus(k)' = CallStatus(k)
  PROVE  UNCHANGED Remote!vars
  BY DEF Remote!vars

LEMMA RemoteMethod ==
  ASSUME TypeOK, WireInv, QuietInv, CallInv, FrameInv, ExecInv,
         NEW t \in Callers, MethodStep(t), UNCHANGED execs
  PROVE  [Remote!Next]_Remote!vars
  <1>1. \A k \in Calls : CallStatus(k)' = CallStatus(k) \/ Ends(t, k)
    BY MethodStatus DEF WireInv
  <1>2. CASE \A k \in Calls : CallStatus(k)' = CallStatus(k)
    BY <1>2, RemoteStutter
  <1>3. ASSUME NEW k \in Calls, Ends(t, k) PROVE Remote!Next
    <2>1. k = Current(t) /\ CallStatus(k) = "pending"
      BY <1>3 DEF Ends
    <2>2. Same(k)
      BY <1>1, <2>1 DEF Ends, Same
    <2>3. CASE CallStatus(k)' = "failed"
      <3>1. Remote!Fail(k)
        BY <2>1, <2>2, <2>3, StatusMoves DEF Remote!Fail
      <3>2. QED
        BY <3>1 DEF Remote!Next
    <2>4. CASE /\ AcceptAnswer(t) /\ kind[k] = "Transform"
               /\ CallStatus(k)' = CASE result'[k] = "ok" -> "ok"
                                     [] result'[k] = "code" /\ tries[k] < 2 -> "rejected"
                                     [] OTHER -> "failed"
      <3>1. ~Send(t)
        BY <2>4 DEF AcceptAnswer, Send, At
      <3>2. Open(k)' \subseteq Open(k)
        BY <3>1, MethodOpen
      <3>3. /\ result'[k] = "ok" => execs[k] > 0
            /\ result'[k] = "code" /\ tries[k] < 2 => execs[k] = 0
        BY <2>1, <2>4, <3>2, AcceptedTruth
      <3>4. CASE result'[k] = "ok"
        <4>1. Remote!Confirm(k)
          BY <2>1, <2>2, <2>4, <3>3, <3>4, StatusMoves DEF Remote!Confirm
        <4>2. QED
          BY <4>1 DEF Remote!Next
      <3>5. CASE result'[k] = "code" /\ tries[k] < 2
        <4>1. Remote!Reject(k)
          BY <2>1, <2>2, <2>4, <3>3, <3>5, StatusMoves DEF Remote!Reject
        <4>2. QED
          BY <4>1 DEF Remote!Next
      <3>6. CASE result'[k] # "ok" /\ ~(result'[k] = "code" /\ tries[k] < 2)
        BY <2>3, <2>4, <3>6
      <3>7. QED
        BY <3>4, <3>5, <3>6
    <2>5. QED
      BY <1>3, <2>3, <2>4 DEF Ends
  <1>4. QED
    BY <1>1, <1>2, <1>3

LEMMA RemoteCaller ==
  ASSUME TypeOK, MutexHeld, CallInv, ExecInv, NEW t \in Callers, CallerStep(t), UNCHANGED execs
  PROVE  [Remote!Next]_Remote!vars
  <1>1. CASE \A k \in Calls : CallStatus(k)' = CallStatus(k)
    BY <1>1, RemoteStutter
  <1>2. ASSUME NEW k \in Calls, CallStatus(k) = "new", execs[k] = 0, Same(k),
               CallStatus(k)' \in {"pending", "rejected"}
        PROVE  Remote!Next
    <2>1. CASE CallStatus(k)' = "pending"
      <3>1. Remote!Submit(k)
        BY <1>2, <2>1, StatusMoves DEF Remote!Submit
      <3>2. QED
        BY <3>1 DEF Remote!Next
    <2>2. CASE CallStatus(k)' = "rejected"
      <3>1. Remote!Reject(k)
        BY <1>2, <2>2, StatusMoves DEF Remote!Reject
      <3>2. QED
        BY <3>1 DEF Remote!Next
    <2>3. QED
      BY <1>2, <2>1, <2>2
  <1>3. QED
    BY <1>1, <1>2, CallerStatus DEF Same

LEMMA RemoteStep ==
  ASSUME TypeOK, WireInv, QuietInv, CallInv, FrameInv, ExecInv, [Next]_vars
  PROVE  [Remote!Next]_Remote!vars
  <1>1. ASSUME UNCHANGED <<adapterVars, execs>> PROVE UNCHANGED Remote!vars
    <2>1. \A k \in Calls : CallStatus(k)' = CallStatus(k)
      BY <1>1 DEF adapterVars, CallStatus
    <2>2. QED
      BY <1>1, <2>1, RemoteStutter
  <1>2. ASSUME NEW t \in Callers, Adapter(t) PROVE [Remote!Next]_Remote!vars
    BY <1>2, RemoteMethod DEF Adapter, peerVars
  <1>3. ASSUME NEW c \in Conns, Peer(c) PROVE [Remote!Next]_Remote!vars
    <2>1. CASE UNCHANGED execs
      BY <1>1, <1>3, <2>1 DEF Peer
    <2>2. ASSUME NEW k \in Calls, Carries(k) PROVE Remote!Next
      <3>1. \A l \in Calls : CallStatus(l)' = CallStatus(l)
        BY <1>3 DEF Peer, adapterVars, CallStatus
      <3>2. Remote!CarryOut(k)
        BY <2>2, <3>1 DEF Carries, Remote!CarryOut
      <3>3. QED
        BY <3>2 DEF Remote!Next
    <2>3. QED
      BY <1>3, <2>1, <2>2, PeerExec
  <1>4. ASSUME NEW t \in Callers, CallerStep(t), UNCHANGED peerVars
        PROVE  [Remote!Next]_Remote!vars
    BY <1>4, RemoteCaller DEF WireInv, peerVars
  <1>5. CASE UNCHANGED <<adapterVars, peerVars>>
    BY <1>1, <1>5 DEF peerVars
  <1>6. CASE UNCHANGED vars
    BY <1>5, <1>6 DEF vars
  <1>7. QED
    BY <1>2, <1>3, <1>4, <1>5, <1>6 DEF Next, Environment

CallsInv == QuietInv /\ CallInv /\ FrameInv /\ ExecInv

LEMMA CallsInvHolds == Spec => []CallsInv
  <1>1. Init => CallsInv
    BY QuietInit, CallInit, FrameInit, ExecInit DEF CallsInv
  <1>2. TypeOK /\ TypeOK' /\ SessionInv /\ CallsInv /\ [Next]_vars => CallsInv'
    BY QuietStep, CallStep, FrameStep, ExecStep DEF SessionInv, WireInv, CallsInv
  <1>3. QED
    BY <1>1, <1>2, TypeCorrect, InvariantHolds, PTL DEF Spec

(* The adapter and the server implement RemoteCalls with two executions: a
   command is carried out at most twice, nil means it was, and an *EPPError
   from the first run means it was not and will not be, whatever the network,
   the server and the other goroutines do.                                 *)
THEOREM SessionImplementsRemoteCalls == Spec => AtMostTwice
  <1>1. TypeOK /\ SessionInv /\ CallsInv /\ [Next]_vars => [Remote!Next]_Remote!vars
    BY RemoteStep DEF SessionInv, WireInv, CallsInv
  <1>2. QED
    BY <1>1, RemoteInit, TypeCorrect, InvariantHolds, CallsInvHolds,
       PTL DEF Spec, Remote!Spec, AtMostTwice
=============================================================================
