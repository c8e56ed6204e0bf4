---------------------------- MODULE RRISessionProofs ----------------------------
(***************************************************************************)
(* Theorems about RRISession, for any number of adapters and calls, any    *)
(* script and any fault profile.                                           *)
(***************************************************************************)
EXTENDS RRISession, SequenceTheorems, FiniteSetTheorems, TLAPS

-----------------------------------------------------------------------------
(* The tables of the adapter. *)
LEMMA QueryFacts ==
  /\ DOMAIN QueryOf = {"Login", "Logout", "Ping", "PollRead", "PollAck", "CheckDomain",
                       "CheckContact", "Info", "Create"}
  /\ \A op \in DOMAIN QueryOf : QueryOf[op] \in Queries
  /\ DOMAIN Unsent = {"Unsupported", "BadName", "BadHandle"}
  /\ \A op \in DOMAIN Unsent : Unsent[op] \in Returns /\ op \notin DOMAIN QueryOf
  /\ DOMAIN EPPCode = {"missing", "exists", "auth", "other"}
  /\ DOMAIN EPPCode \subseteq Answers
  /\ "LOGIN" \in Queries /\ "LOGOUT" \in Queries
  <1>1. /\ DOMAIN QueryOf = {"Login", "Logout", "Ping", "PollRead", "PollAck", "CheckDomain",
                             "CheckContact", "Info", "Create"}
        /\ QueryOf["Login"] = "LOGIN" /\ QueryOf["Logout"] = "LOGOUT"
    BY DEF QueryOf
  <1>2. \A op \in DOMAIN QueryOf : QueryOf[op] \in Queries
    BY DEF Queries
  <1>3. /\ DOMAIN Unsent = {"Unsupported", "BadName", "BadHandle"}
        /\ \A op \in DOMAIN Unsent : Unsent[op] \in Returns
    BY DEF Unsent, Returns
  <1>4. DOMAIN EPPCode = {"missing", "exists", "auth", "other"}
    BY DEF EPPCode
  <1>5. QED
    BY <1>1, <1>2, <1>3, <1>4 DEF Answers

LEMMA ErrorFacts ==
  ASSUME NEW op \in DOMAIN QueryOf, NEW a \in DOMAIN EPPCode
  PROVE  /\ ErrorOf(op, a) \in Returns \ {"ok"}
         /\ ErrorOf(op, a) = "1300" => op = "PollRead"
         /\ ErrorOf(op, a) = "2201" => a = "auth"
         /\ a = "auth" => ErrorOf(op, a) \in {"1300", "2201", "failed", "notfound"}
  <1>1. /\ EPPCode["missing"] = "2303" /\ EPPCode["exists"] = "2302"
        /\ EPPCode["auth"] = "2201" /\ EPPCode["other"] = "2400"
    BY DEF EPPCode
  <1>2. a \in {"missing", "exists", "auth", "other"}
    BY QueryFacts
  <1>3. QED
    BY <1>1, <1>2 DEF ErrorOf, Returns

(* A queue with one element, and one that gets its first. *)
LEMMA One ==
  ASSUME NEW S, NEW s \in Seq(S), Len(s) = 1
  PROVE  Tail(s) = <<>> /\ Head(s) = s[1] /\ s[1] \in S
  <1>1. s # <<>> /\ DOMAIN s = {1}
    BY EmptySeq, LenProperties
  <1>2. Head(s) \in S /\ Tail(s) \in Seq(S) /\ Len(Tail(s)) = 0 /\ Head(s) = s[1]
    BY <1>1, HeadTailProperties
  <1>3. Tail(s) = <<>>
    BY <1>2, EmptySeq
  <1>4. QED
    BY <1>2, <1>3

LEMMA Lengths ==
  ASSUME NEW S, NEW s \in Seq(S)
  PROVE  Len(s) \in Nat /\ (s = <<>> <=> Len(s) = 0)
  BY EmptySeq, LenProperties

LEMMA AtMostOne ==
  ASSUME NEW a \in Nat, NEW b \in Nat, a + b <= 1
  PROVE  a <= 1 /\ b <= 1 /\ b + a <= 1 /\ (a # 0 => a = 1 /\ b = 0) /\ (b # 0 => b = 1 /\ a = 0)
  OBVIOUS

LEMMA First ==
  ASSUME NEW e
  PROVE  Append(<<>>, e) = <<e>> /\ Len(<<e>>) = 1 /\ <<e>>[1] = e /\ Len(<<>>) = 0
  OBVIOUS

-----------------------------------------------------------------------------
(* Types. *)
Result == [op : Operations, res : Returns]
Request == [query : Queries, call : Nat]
Response == [res : Answers, call : Nat]
Record == [res : Answers, query : Queries, call : Nat]

Holding == \A k \in Clients : handler[k] = "await" => held[k] \in Request

Types ==
  /\ TypeOK /\ Holding
  /\ \A k \in Clients : Pending(k) => Number(k) <= Len(plan[k]) /\ call[k] \in Call

LEMMA TypesInit == Init => Types
  <1>1. SUFFICES ASSUME Init PROVE Types
    OBVIOUS
  <1>2. LinkTypeOK
    <2>1. plan \in Plans /\ \A k \in Clients : plan[k] \in Seq(Operations)
      BY <1>1, AdapterAssumption DEF Init, LinkInit
    <2>2. \A k \in Clients : Len(plan[k]) \in Nat
      BY <2>1, LenProperties
    <2>3. QED
      BY <1>1, <2>1, <2>2 DEF Init, LinkInit, LinkTypeOK
  <1>3. MockTypeOK
    BY <1>1, ScriptAssumption DEF Init, MockInit, MockTypeOK
  <1>4. StandaloneTypeOK
    BY <1>1 DEF Init, StandaloneInit, StandaloneTypeOK, NewFaultEngine, Engine
  <1>5. \A k \in Clients : ~Pending(k)
    BY <1>1 DEF Init, LinkInit, Pending
  <1>6. Holding
    BY <1>1 DEF Init, MockInit, Holding
  <1>7. QED
    BY <1>1, <1>2, <1>3, <1>4, <1>5, <1>6 DEF Types, TypeOK, Init

(* What the types say of one connection. *)
TypesOf(k) ==
  /\ plan[k] \in Seq(Operations) /\ Len(plan[k]) \in Nat
  /\ client[k] \in {"none", "open", "lost"} /\ call[k] \in Call \cup {Idle}
  /\ done[k] \in Seq(Result)
  /\ Len(done[k]) \in Nat /\ Len(done[k]) <= Len(plan[k])
  /\ Pending(k) => Number(k) <= Len(plan[k]) /\ call[k] \in Call
  /\ up[k] \in Seq(Request)
  /\ down[k] \in Seq(Response)
  /\ Len(up[k]) \in Nat /\ Len(down[k]) \in Nat
  /\ server[k] \in {"none", "open", "closed"}
  /\ answers[k] \in Seq(Record)
  /\ handler[k] \in {"none", "read", "await", "done"}
  /\ held[k] \in [query : Queries, call : Nat] \cup {NoQuery}

LEMMA TypesOfEach ==
  ASSUME Types, NEW k \in Clients
  PROVE  TypesOf(k)
  <1>1. plan[k] \in Seq(Operations)
    BY AdapterAssumption DEF Types, TypeOK, LinkTypeOK
  <1>2. /\ done[k] \in Seq(Result)
        /\ up[k] \in Seq(Request)
        /\ down[k] \in Seq(Response)
    BY DEF Types, TypeOK, LinkTypeOK, Result, Request, Response
  <1>3. /\ Len(plan[k]) \in Nat /\ Len(done[k]) \in Nat
        /\ Len(up[k]) \in Nat /\ Len(down[k]) \in Nat
    BY <1>1, <1>2, LenProperties
  <1>4. QED
    BY <1>1, <1>2, <1>3 DEF Types, TypeOK, LinkTypeOK, MockTypeOK, TypesOf, Record

(* The variables of the link, apart from what they say of each other. *)
Shapes ==
  /\ plan \in Plans /\ client \in [Clients -> {"none", "open", "lost"}]
  /\ call \in [Clients -> Call \cup {Idle}]
  /\ done \in [Clients -> Seq(Result)]
  /\ up \in [Clients -> Seq(Request)]
  /\ down \in [Clients -> Seq(Response)]
  /\ server \in [Clients -> {"none", "open", "closed"}]
  /\ listening \in BOOLEAN
  /\ answers \in [Clients -> Seq(Record)]

Counts ==
  \A k \in Clients :
    /\ Len(done[k]) <= Len(plan[k])
    /\ Pending(k) => Number(k) <= Len(plan[k]) /\ call[k] \in Call

LEMMA TypesAre ==
  Types <=> /\ Shapes /\ Counts /\ MockTypeOK /\ Holding
            /\ StandaloneTypeOK /\ backend \in Backends
  BY DEF Types, TypeOK, LinkTypeOK, Shapes, Counts, Result, Request, Response, Record

LEMMA ReturnTypes ==
  ASSUME Types, NEW k \in Clients, NEW op \in Operations, NEW res \in Returns,
         Number(k) <= Len(plan[k]), Return(k, op, res), plan' = plan
  PROVE  /\ done' \in [Clients -> Seq(Result)]
         /\ call' \in [Clients -> Call \cup {Idle}]
         /\ Counts'
  <1> DEFINE r == [op |-> op, res |-> res]
  <1>1. Shapes /\ Counts /\ \A q \in Clients : TypesOf(q)
    BY TypesAre, TypesOfEach
  <1>2. Append(done[k], r) \in Seq(Result)
        /\ Len(Append(done[k], r)) = Len(done[k]) + 1
    <2>1. r \in Result
      BY DEF Result
    <2>2. QED
      BY <1>1, <2>1, AppendProperties DEF TypesOf
  <1>3. /\ done' = [done EXCEPT ![k] = Append(done[k], r)]
        /\ call' = [call EXCEPT ![k] = Idle]
    BY DEF Return
  <1>4. Counts'
    BY <1>1, <1>2, <1>3 DEF Counts, Shapes, Pending, Number
  <1>5. QED
    BY <1>1, <1>2, <1>3, <1>4 DEF Shapes

LEMMA PendingOperation ==
  ASSUME Types, NEW k \in Clients, Pending(k)
  PROVE  /\ call[k] \in Call /\ call[k].op \in DOMAIN QueryOf /\ call[k].op \in Operations
         /\ Number(k) <= Len(plan[k])
  BY DEF Types, Call, Operations

LEMMA AnswerTypes ==
  ASSUME Types, NEW k \in Clients, Answered(k)
  PROVE  /\ Pending(k) /\ down[k] \in Seq(Response) /\ down[k] # <<>>
         /\ Answer(k) \in Answers
         /\ TakeAnswer(k) => down' \in [Clients -> Seq(Response)]
  <1>1. Shapes /\ down[k] \in Seq(Response) /\ down[k] # <<>>
    BY TypesAre DEF Shapes, Answered
  <1>2. Head(down[k]) \in Response
        /\ Tail(down[k]) \in Seq(Response)
    BY <1>1, HeadTailProperties
  <1>3. Pending(k) /\ Answer(k) \in Answers
    BY <1>2 DEF Answered, Answer, Response
  <1>4. TakeAnswer(k) => down' \in [Clients -> Seq(Response)]
    BY <1>1, <1>2 DEF TakeAnswer, Shapes
  <1>5. QED
    BY <1>1, <1>3, <1>4

LEMMA SendTypes ==
  ASSUME Types, NEW k \in Clients, NEW op \in DOMAIN QueryOf, Send(k, op, Number(k))
  PROVE  up' \in [Clients -> Seq(Request)]
  <1>1. Number(k) \in Nat /\ QueryOf[op] \in Queries
    BY TypesOfEach, QueryFacts DEF TypesOf, Number
  <1>2. [query |-> QueryOf[op], call |-> Number(k)] \in Request
    BY <1>1 DEF Request
  <1>3. Append(up[k], [query |-> QueryOf[op], call |-> Number(k)]) \in Seq(Request)
    BY <1>2, TypesOfEach, AppendProperties DEF TypesOf
  <1>4. QED
    BY <1>3, TypesAre DEF Send, Shapes

(* A call of a client that goes on, with its count and its wait changed. *)
LEMMA CallTypes ==
  ASSUME Types, NEW k \in Clients, Pending(k), NEW c \in Call, call' = [call EXCEPT ![k] = c],
         up' \in [Clients -> Seq(Request)], down' \in [Clients -> Seq(Response)],
         UNCHANGED <<plan, client, done, serverEnd, listening>>
  PROVE  Shapes' /\ Counts'
  <1>1. Shapes /\ Counts
    BY TypesAre
  <1>2. call' \in [Clients -> Call \cup {Idle}]
    BY <1>1 DEF Shapes
  <1>3. Shapes'
    BY <1>1, <1>2 DEF Shapes, serverEnd
  <1>4. \A q \in Clients : Pending(q)' => Pending(q) /\ call'[q] \in Call
    BY <1>1 DEF Shapes, Counts, Pending
  <1>5. QED
    BY <1>1, <1>3, <1>4 DEF Counts, Number

LEMMA AdapterTypes ==
  ASSUME Types, NEW k \in Clients, AdapterStep(k),
         UNCHANGED <<mockVars, standaloneVars, backend>>
  PROVE  Types'
  <1>1. Shapes /\ Counts /\ TypesOf(k)
    BY TypesAre, TypesOfEach
  <1>2. MockTypeOK' /\ Holding' /\ StandaloneTypeOK' /\ backend' \in Backends
    BY TypesAre
    DEF mockVars, handlerVars, testVars, standaloneVars, MockTypeOK, StandaloneTypeOK, Holding
  <1>3. SUFFICES Shapes' /\ Counts'
    BY <1>2, TypesAre
    DEF Types, TypeOK, LinkTypeOK, Shapes, Counts, Result, Request, Response, Record
  <1>4. CASE Dial(k) \/ Close(k)
    BY <1>1, <1>4 DEF Dial, Close, Shapes, Counts, Pending, Number, serverEnd
  <1>5. ASSUME NEW op \in Operations, ReturnUnsent(k, op)
        PROVE  Shapes' /\ Counts'
    <2>1. /\ Number(k) <= Len(plan[k]) /\ Unsent[op] \in Returns
          /\ Return(k, op, Unsent[op]) /\ plan' = plan
      BY <1>5, QueryFacts DEF ReturnUnsent, MayCall
    <2>2. QED
      BY <1>1, <1>5, <2>1, ReturnTypes DEF ReturnUnsent, Shapes, serverEnd
  <1>6. ASSUME NEW op \in Operations, NEW names \in 1 .. MaxNames, Submit(k, op, names)
        PROVE  Shapes' /\ Counts'
    <2> DEFINE c == [op |-> op, left |-> names, awaits |-> "answer"]
    <2>1. c \in Call /\ op \in DOMAIN QueryOf
      BY <1>6 DEF Submit, Call
    <2>2. up' \in [Clients -> Seq(Request)]
      BY <1>1, <1>6, <2>1, SendTypes DEF Submit, Shapes
    <2>3. call' = [call EXCEPT ![k] = c] /\ call' \in [Clients -> Call \cup {Idle}]
      BY <1>1, <1>6, <2>1 DEF Submit, Shapes
    <2>4. Number(k) <= Len(plan[k])
      BY <1>6 DEF Submit, MayCall
    <2>5. QED
      BY <1>1, <1>6, <2>1, <2>2, <2>3, <2>4
      DEF Submit, Shapes, Counts, Pending, Number, serverEnd
  <1>7. ASSUME Answered(k), TakeAnswer(k), NEW res \in Returns,
               Return(k, call[k].op, res), UNCHANGED <<plan, up, serverEnd, listening>>,
               client' \in [Clients -> {"none", "open", "lost"}]
        PROVE  Shapes' /\ Counts'
    <2>1. down' \in [Clients -> Seq(Response)] /\ Pending(k)
      BY <1>7, AnswerTypes
    <2>2. QED
      BY <1>1, <1>7, <2>1, PendingOperation, ReturnTypes DEF Shapes, serverEnd
  <1>8. CASE NextName(k)
    <2>1. /\ Pending(k) /\ down' \in [Clients -> Seq(Response)]
          /\ up' \in [Clients -> Seq(Request)] /\ call[k] \in Call
      BY <1>8, AnswerTypes, PendingOperation, SendTypes DEF NextName, GoesOn
    <2>2. [call[k] EXCEPT !.left = @ - 1] \in Call
      <3>1. call[k].left \in 1 .. MaxNames /\ call[k].left > 1 /\ MaxNames \in Nat
        BY <1>8, <2>1, AdapterAssumption DEF NextName, GoesOn, Call
      <3>2. call[k].left - 1 \in 1 .. MaxNames
        BY <3>1
      <3>3. QED
        BY <2>1, <3>2 DEF Call
    <2>3. call' = [call EXCEPT ![k] = [call[k] EXCEPT !.left = @ - 1]]
      BY <1>8 DEF NextName
    <2>4. UNCHANGED <<plan, client, done, serverEnd, listening>>
      BY <1>8 DEF NextName
    <2>5. QED
      BY <2>1, <2>2, <2>3, <2>4, CallTypes
  <1>9. CASE RejectName(k)
    BY <1>1, <1>7, <1>9 DEF RejectName, GoesOn, Returns, Shapes
  <1>10. CASE ReturnSuccess(k)
    BY <1>1, <1>7, <1>10 DEF ReturnSuccess, Returns, Shapes
  <1>11. CASE AwaitEof(k)
    <2>1. /\ Pending(k) /\ down' \in [Clients -> Seq(Response)]
          /\ call[k] \in Call
      BY <1>11, AnswerTypes, PendingOperation DEF AwaitEof
    <2>2. [call[k] EXCEPT !.awaits = "eof"] \in Call
      BY <2>1 DEF Call
    <2>3. call' = [call EXCEPT ![k] = [call[k] EXCEPT !.awaits = "eof"]]
      BY <1>11 DEF AwaitEof
    <2>4. UNCHANGED <<plan, client, done, up, serverEnd, listening>>
      BY <1>11 DEF AwaitEof
    <2>5. up' \in [Clients -> Seq(Request)]
      BY <1>1, <2>4 DEF Shapes
    <2>6. QED
      BY <2>1, <2>2, <2>3, <2>4, <2>5, CallTypes
  <1>12. CASE ReturnFailure(k)
    <2>1. Answered(k) /\ Answer(k) \in DOMAIN EPPCode /\ call[k].op \in DOMAIN QueryOf
      BY <1>12, AnswerTypes, PendingOperation DEF ReturnFailure
    <2>2. ErrorOf(call[k].op, Answer(k)) \in Returns /\ "ok" \in Returns
      BY <2>1, ErrorFacts DEF Returns
    <2>3. QED
      BY <1>1, <1>7, <1>12, <2>1, <2>2 DEF ReturnFailure, Shapes
  <1>13. CASE RejectFrame(k)
    BY <1>1, <1>7, <1>13 DEF RejectFrame, Returns, Shapes
  <1>14. CASE Lose(k)
    <2>1. Pending(k) /\ LossOf(k) \in Returns /\ Return(k, call[k].op, LossOf(k))
      BY <1>14 DEF Lose, LossOf, Returns
    <2>2. <<>> \in Seq(Response)
      OBVIOUS
    <2>3. QED
      BY <1>1, <1>14, <2>1, <2>2, PendingOperation, ReturnTypes DEF Lose, Shapes, serverEnd
  <1>15. QED
    BY <1>4, <1>5, <1>6, <1>8, <1>9, <1>10, <1>11, <1>12, <1>13, <1>14
    DEF AdapterStep, Progress

LEMMA WriteTypes ==
  ASSUME Types, NEW k \in Clients, NEW q \in Request, NEW res \in Answers, Write(k, q, res)
  PROVE  down' \in [Clients -> Seq(Response)] /\ answers' \in [Clients -> Seq(Record)]
  <1> DEFINE r == [res |-> res, call |-> q.call]
             a == [res |-> res, query |-> q.query, call |-> q.call]
  <1>1. r \in Response /\ a \in Record
    BY DEF Request, Response, Record
  <1>2. Append(down[k], r) \in Seq(Response) /\ Append(answers[k], a) \in Seq(Record)
    BY <1>1, TypesOfEach, AppendProperties DEF TypesOf
  <1>3. QED
    BY <1>2, TypesAre DEF Write, Shapes

LEMMA QueryTypes ==
  ASSUME Types, NEW k \in Clients, HasQuery(k)
  PROVE  /\ Head(up[k]) \in Request /\ Query(k) \in Queries /\ server[k] = "open"
         /\ TakeQuery(k) => up' \in [Clients -> Seq(Request)]
  <1>1. up[k] \in Seq(Request) /\ up[k] # <<>>
    BY TypesOfEach DEF TypesOf, HasQuery
  <1>2. Head(up[k]) \in Request /\ Tail(up[k]) \in Seq(Request)
    BY <1>1, HeadTailProperties
  <1>3. Query(k) \in Queries /\ server[k] = "open"
    BY <1>2 DEF Query, HasQuery, Request
  <1>4. TakeQuery(k) => up' \in [Clients -> Seq(Request)]
    BY <1>2, TypesAre DEF TakeQuery, Shapes
  <1>5. QED
    BY <1>2, <1>3, <1>4

(* A server changes what is on its way, its ends and what it remembers. *)
LEMMA ServerTypes ==
  ASSUME Types, UNCHANGED clientVars,
         up' \in [Clients -> Seq(Request)], down' \in [Clients -> Seq(Response)],
         server' \in [Clients -> {"none", "open", "closed"}],
         listening' \in BOOLEAN, answers' \in [Clients -> Seq(Record)]
  PROVE  Shapes' /\ Counts'
  BY TypesAre DEF Shapes, Counts, clientVars, Pending, Number

LEMMA HandlerTypes ==
  ASSUME Types, NEW k \in Clients, HandlerStep(k)
  PROVE  Shapes' /\ Counts' /\ MockTypeOK' /\ Holding'
  <1>1. Shapes /\ Counts /\ MockTypeOK /\ Holding
    BY TypesAre
  <1>2. ASSUME Reads(k), NEW res \in Answers, Reply(k, res),
               loggedIn' \in [Clients -> BOOLEAN]
        PROVE  Shapes' /\ Counts' /\ MockTypeOK' /\ Holding'
    <2>1. Head(up[k]) \in Request /\ up' \in [Clients -> Seq(Request)]
      BY <1>2, QueryTypes DEF Reads, Reply
    <2>2. down' \in [Clients -> Seq(Response)] /\ answers' \in [Clients -> Seq(Record)]
      BY <1>2, <2>1, WriteTypes DEF Reply
    <2>3. Shapes' /\ Counts'
      BY <1>1, <1>2, <2>1, <2>2, ServerTypes DEF Reply, Shapes
    <2>4. MockTypeOK' /\ Holding'
      BY <1>1, <1>2 DEF Reply, MockTypeOK, Holding, testVars
    <2>5. QED
      BY <2>3, <2>4
  <1>3. CASE RefuseBeforeLogin(k) \/ LoginSucceeds(k) \/ LoginFails(k)
    BY <1>1, <1>2, <1>3
    DEF RefuseBeforeLogin, LoginSucceeds, LoginFails, Answers, MockTypeOK
  <1>4. CASE AwaitScript(k)
    <2>1. Head(up[k]) \in Request /\ up' \in [Clients -> Seq(Request)]
      BY <1>4, QueryTypes DEF AwaitScript, Reads
    <2>2. Shapes' /\ Counts'
      BY <1>1, <1>4, <2>1, ServerTypes DEF AwaitScript, Shapes, serverEnd
    <2>3. MockTypeOK' /\ Holding'
      BY <1>1, <1>4, <2>1 DEF AwaitScript, MockTypeOK, Holding, Goto, testVars, Request
    <2>4. QED
      BY <2>2, <2>3
  <1>5. ASSUME Leave(k), UNCHANGED <<clientVars, up, listening, loggedIn, conn, test>>,
               down' \in [Clients -> Seq(Response)], answers' \in [Clients -> Seq(Record)],
               Expect' \in 0 .. ExpectCap
        PROVE  Shapes' /\ Counts' /\ MockTypeOK' /\ Holding'
    <2>1. server' \in [Clients -> {"none", "open", "closed"}]
      BY <1>1, <1>5 DEF Leave, CloseEnd, Shapes
    <2>2. Shapes' /\ Counts'
      BY <1>1, <1>5, <2>1, ServerTypes DEF Shapes
    <2>3. MockTypeOK' /\ Holding'
      BY <1>1, <1>5 DEF Leave, Goto, MockTypeOK, Holding
    <2>4. QED
      BY <2>2, <2>3
  <1>6. TakesScript(k) => Expect' \in 0 .. ExpectCap
    BY <1>1, ScriptAssumption DEF TakesScript, MockTypeOK
  <1>7. CASE DispatchFails(k) \/ StopWaiting(k) \/ GiveUp(k)
    BY <1>1, <1>5, <1>6, <1>7
    DEF DispatchFails, StopWaiting, GiveUp, Shapes, MockTypeOK, testVars
  <1>8. ASSUME NEW item \in Items, Dispatch(k, item)
        PROVE  Shapes' /\ Counts' /\ MockTypeOK' /\ Holding'
    <2>1. item \in Answers /\ held[k] \in Request /\ Write(k, held[k], item)
      BY <1>1, <1>8, ScriptAssumption DEF Dispatch, TakesScript, Holding
    <2>2. down' \in [Clients -> Seq(Response)] /\ answers' \in [Clients -> Seq(Record)]
      BY <2>1, WriteTypes
    <2>3. Expect' \in 0 .. ExpectCap
      BY <1>6, <1>8 DEF Dispatch
    <2>4. CASE Leave(k)
      BY <1>5, <1>8, <2>2, <2>3, <2>4 DEF Dispatch
    <2>5. CASE Goto(k, "read") /\ UNCHANGED server /\ held' = [held EXCEPT ![k] = NoQuery]
      <3>1. Shapes' /\ Counts'
        BY <1>1, <1>8, <2>2, <2>5, ServerTypes DEF Dispatch, Shapes
      <3>2. MockTypeOK' /\ Holding'
        BY <1>1, <1>8, <2>3, <2>5 DEF Dispatch, Goto, MockTypeOK, Holding
      <3>3. QED
        BY <3>1, <3>2
    <2>6. QED
      BY <1>8, <2>4, <2>5 DEF Dispatch
  <1>9. QED
    BY <1>3, <1>4, <1>7, <1>8 DEF HandlerStep

LEMMA MockTypes ==
  ASSUME Types, MockStep, UNCHANGED <<standaloneVars, backend>>
  PROVE  Types'
  <1>1. Shapes /\ Counts /\ MockTypeOK /\ Holding /\ StandaloneTypeOK /\ backend \in Backends
    BY TypesAre
  <1>2. SUFFICES Shapes' /\ Counts' /\ MockTypeOK' /\ Holding'
    <2>1. StandaloneTypeOK' /\ backend' \in Backends
      BY <1>1 DEF StandaloneTypeOK, standaloneVars
    <2>2. QED
      BY <2>1
      DEF Types, TypeOK, LinkTypeOK, Shapes, Counts, Result, Request, Response, Record, Holding
  <1>3. ASSUME NEW k \in Clients, Accept(k)
        PROVE  Shapes' /\ Counts' /\ MockTypeOK' /\ Holding'
    <2>1. Shapes' /\ Counts'
      BY <1>1, <1>3, ServerTypes DEF Accept, Shapes
    <2>2. MockTypeOK' /\ Holding'
      BY <1>1, <1>3 DEF Accept, Goto, MockTypeOK, Holding
    <2>3. QED
      BY <2>1, <2>2
  <1>4. CASE Script
    <2>1. Expect' \in 0 .. ExpectCap
      BY <1>1, <1>4, ScriptAssumption DEF Script, MockTypeOK
    <2>2. Shapes' /\ Counts'
      BY <1>1, <1>4, ServerTypes DEF Script, Shapes, linkVars, serverEnd, clientVars
    <2>3. MockTypeOK' /\ Holding'
      BY <1>1, <1>4, <2>1 DEF Script, MockTypeOK, Holding, handlerVars
    <2>4. QED
      BY <2>2, <2>3
  <1>5. CASE DropConnection
    <2>1. server' \in [Clients -> {"none", "open", "closed"}]
      BY <1>1, <1>5 DEF DropConnection, CloseEnd, Shapes
    <2>2. Shapes' /\ Counts'
      BY <1>1, <1>5, <2>1, ServerTypes DEF DropConnection, Shapes
    <2>3. MockTypeOK' /\ Holding'
      BY <1>1, <1>5 DEF DropConnection, MockTypeOK, Holding, mockVars, handlerVars, testVars
    <2>4. QED
      BY <2>2, <2>3
  <1>6. CASE Cancel
    <2>1. server' \in [Clients -> {"none", "open", "closed"}]
      BY <1>1, <1>6 DEF Cancel, Shapes
    <2>2. Shapes' /\ Counts'
      BY <1>1, <1>6, <2>1, ServerTypes DEF Cancel, Shapes
    <2>3. MockTypeOK' /\ Holding'
      BY <1>1, <1>6 DEF Cancel, MockTypeOK, Holding, handlerVars
    <2>4. QED
      BY <2>2, <2>3
  <1>7. CASE WaitReturns
    <2>1. Shapes' /\ Counts'
      BY <1>1, <1>7, ServerTypes DEF WaitReturns, Shapes, linkVars, serverEnd, clientVars
    <2>2. MockTypeOK' /\ Holding'
      BY <1>1, <1>7 DEF WaitReturns, MockTypeOK, Holding, handlerVars
    <2>3. QED
      BY <2>1, <2>2
  <1>8. QED
    BY <1>3, <1>4, <1>5, <1>6, <1>7, HandlerTypes DEF MockStep

LEMMA EngineTypes ==
  ASSUME Types, NEW k \in Clients
  PROVE  /\ [engine EXCEPT ![k] = CountLogin(@)] \in [Clients -> Engine]
         /\ [engine EXCEPT ![k] = CountOperation(@)] \in [Clients -> Engine]
  <1>1. engine \in [Clients -> Engine]
    BY TypesAre DEF StandaloneTypeOK
  <1>2. CountLogin(engine[k]) \in Engine /\ CountOperation(engine[k]) \in Engine
    BY <1>1 DEF CountLogin, CountOperation, Engine
  <1>3. QED
    BY <1>1, <1>2

LEMMA StandaloneTypes ==
  ASSUME Types, ShutDown \/ \E k \in Clients : ConnStep(k), UNCHANGED <<mockVars, backend>>
  PROVE  Types'
  <1>1. Shapes /\ Counts /\ MockTypeOK /\ Holding /\ StandaloneTypeOK /\ backend \in Backends
    BY TypesAre
  <1>2. SUFFICES Shapes' /\ Counts' /\ profile' = profile /\ engine' \in [Clients -> Engine]
    <2>1. MockTypeOK' /\ Holding' /\ backend' \in Backends
      BY <1>1 DEF MockTypeOK, Holding, mockVars, handlerVars, testVars
    <2>2. StandaloneTypeOK'
      BY <1>1 DEF StandaloneTypeOK
    <2>3. QED
      BY <2>1, <2>2
      DEF Types, TypeOK, LinkTypeOK, Shapes, Counts, Result, Request, Response, Record
  <1>3. CASE ShutDown
    <2>1. server' \in [Clients -> {"none", "open", "closed"}]
      BY <1>1, <1>3 DEF ShutDown
    <2>2. QED
      BY <1>1, <1>3, <2>1, ServerTypes DEF ShutDown, Shapes, standaloneVars, StandaloneTypeOK
  <1>4. ASSUME NEW k \in Clients, ConnStep(k)
        PROVE  Shapes' /\ Counts' /\ profile' = profile /\ engine' \in [Clients -> Engine]
    <2>1. \A s \in {"none", "open", "closed"} :
            [server EXCEPT ![k] = s] \in [Clients -> {"none", "open", "closed"}]
      BY <1>1 DEF Shapes
    <2>2. engine \in [Clients -> Engine]
      BY <1>1 DEF StandaloneTypeOK
    <2>3. CASE AcceptConn(k) \/ HangUp(k)
      <3>1. server' \in [Clients -> {"none", "open", "closed"}]
        BY <2>1, <2>3 DEF AcceptConn, HangUp, CloseEnd
      <3>2. QED
        BY <1>1, <2>2, <2>3, <3>1, ServerTypes
        DEF AcceptConn, HangUp, Shapes, standaloneVars
    <2>4. ASSUME HasQuery(k), TakeQuery(k), UNCHANGED <<clientVars, listening>>,
                 down' \in [Clients -> Seq(Response)], answers' \in [Clients -> Seq(Record)],
                 server' = server \/ CloseEnd(k)
          PROVE  Shapes' /\ Counts'
      <3>1. up' \in [Clients -> Seq(Request)]
        BY <2>4, QueryTypes
      <3>2. server' \in [Clients -> {"none", "open", "closed"}]
        BY <1>1, <2>1, <2>4 DEF CloseEnd, Shapes
      <3>3. QED
        BY <1>1, <2>4, <3>1, <3>2, ServerTypes DEF Shapes
    <2>5. ASSUME HasQuery(k), NEW res \in Answers, Respond(k, res)
          PROVE  /\ down' \in [Clients -> Seq(Response)] /\ answers' \in [Clients -> Seq(Record)]
                 /\ TakeQuery(k) /\ UNCHANGED <<clientVars, listening, profile>>
      BY <2>5, QueryTypes, WriteTypes DEF Respond
    <2>6. "success" \in Answers /\ "other" \in Answers
      BY DEF Answers
    <2>7. CASE AllowLogin(k) \/ DenyLogin(k)
      BY <2>4, <2>5, <2>6, <2>7, EngineTypes DEF AllowLogin, DenyLogin, LoginQuery
    <2>8. CASE HangLogin(k) \/ DisconnectLogin(k)
      <3>1. /\ HasQuery(k) /\ TakeQuery(k) /\ UNCHANGED <<clientVars, listening, down, answers>>
            /\ server' = server \/ CloseEnd(k)
            /\ profile' = profile /\ engine' = [engine EXCEPT ![k] = CountLogin(@)]
        BY <2>8 DEF HangLogin, DisconnectLogin, LoginQuery, serverEnd
      <3>2. down' \in [Clients -> Seq(Response)] /\ answers' \in [Clients -> Seq(Record)]
        BY <1>1, <3>1 DEF Shapes
      <3>3. QED
        BY <2>4, <3>1, <3>2, EngineTypes
    <2>9. CASE LogoutQuery(k)
      BY <2>2, <2>4, <2>5, <2>6, <2>9 DEF LogoutQuery
    <2>10. CASE AnswerQuery(k)
      BY <2>4, <2>5, <2>6, <2>10, EngineTypes DEF AnswerQuery, OtherQuery
    <2>11. CASE DisconnectQuery(k)
      BY <1>1, <2>4, <2>11, EngineTypes DEF DisconnectQuery, OtherQuery, Shapes
    <2>12. QED
      BY <1>4, <2>3, <2>7, <2>8, <2>9, <2>10, <2>11 DEF ConnStep
  <1>5. QED
    BY <1>3, <1>4

LEMMA TypesStep == Types /\ [Next]_vars => Types'
  <1>1. SUFFICES ASSUME Types, [Next]_vars PROVE Types'
    OBVIOUS
  <1>2. CASE UNCHANGED vars
    BY <1>1, <1>2
    DEF vars, linkVars, clientVars, serverEnd, mockVars, handlerVars, testVars, standaloneVars,
        Types, TypeOK, LinkTypeOK, MockTypeOK, StandaloneTypeOK, Pending, Number, Holding
  <1>3. QED
    BY <1>1, <1>2, AdapterTypes, MockTypes, StandaloneTypes DEF Next

THEOREM TypesHold == Spec => []Types
  BY TypesInit, TypesStep, PTL DEF Spec

(* Every variable keeps its type, and no adapter returns from more calls than
   it was asked to make.                                                     *)
THEOREM TypeCorrect == Spec => []TypeOK
  <1>1. Types => TypeOK
    BY DEF Types
  <1>2. QED
    BY <1>1, TypesHold, PTL

-----------------------------------------------------------------------------
(* What is on its way on a connection is for the call that waits: its query, or
   the answer to it, or nothing once the server has hung up on it.             *)
Waits(k) == Pending(k) /\ call[k].awaits = "answer"
Asked(k) == [query |-> QueryOf[call[k].op], call |-> Number(k)]

Recorded(k, n, query, res) ==
  \E i \in DOMAIN answers[k] : answers[k][i] = [res |-> res, query |-> query, call |-> n]

Flow(k) ==
  /\ Len(up[k]) + Len(down[k]) <= 1
  /\ down[k] # <<>> =>
       /\ Waits(k) /\ client[k] = "open" /\ down[k][1].call = Number(k)
       /\ Recorded(k, Number(k), Asked(k).query, down[k][1].res)
       /\ call[k].op = "Logout" /\ down[k][1].res = "success" => server[k] = "closed"
  /\ up[k] # <<>> /\ client[k] = "open" => Waits(k) /\ up[k][1] = Asked(k)
  /\ handler[k] = "await" /\ server[k] # "closed" =>
       /\ Waits(k) /\ client[k] = "open" /\ up[k] = <<>> /\ down[k] = <<>>
       /\ held[k] = Asked(k)
  /\ client[k] = "none" =>
       ~Pending(k) /\ up[k] = <<>> /\ server[k] = "none" /\ handler[k] = "none"
  /\ client[k] = "lost" /\ up[k] # <<>> => server[k] = "closed"
  /\ Pending(k) /\ call[k].awaits = "eof" => server[k] = "closed" /\ call[k].op = "Logout"
  /\ server[k] = "none" => handler[k] # "await"
  /\ Pending(k) /\ call[k].op \notin Checks => call[k].left = 1

FlowInv == \A k \in Clients : Flow(k)

(* The connection of adapter k as it was, but that the server may have closed it. *)
CallSame(k) ==
  /\ client'[k] = client[k] /\ call'[k] = call[k] /\ done'[k] = done[k]
LinesSame(k) == up'[k] = up[k] /\ down'[k] = down[k] /\ answers'[k] = answers[k]
Hushed(k) ==
  \/ server'[k] = server[k] /\ handler'[k] = handler[k] /\ held'[k] = held[k]
  \/ server'[k] = "closed" /\ client[k] # "none"

LEMMA FlowInit == Init => FlowInv
  <1>1. SUFFICES ASSUME Init, NEW k \in Clients PROVE Flow(k)
    BY DEF FlowInv
  <1>2. /\ client[k] = "none" /\ call[k] = Idle /\ up[k] = <<>> /\ down[k] = <<>>
        /\ handler[k] = "none" /\ server[k] = "none"
    BY <1>1 DEF Init, LinkInit, MockInit
  <1>3. ~Pending(k) /\ Len(<<>>) = 0
    BY <1>2 DEF Pending
  <1>4. QED
    BY <1>2, <1>3 DEF Flow

(* What the server may do to its end of a connection on which nothing moves. *)
EndKept(k) ==
  /\ server[k] = "closed" => server'[k] = "closed"
  /\ handler'[k] = "await" /\ server'[k] # "closed" =>
       handler[k] = "await" /\ server[k] # "closed" /\ held'[k] = held[k]
  /\ client[k] = "none" => server'[k] = server[k] /\ handler'[k] = handler[k]
  /\ server'[k] = "none" => handler'[k] # "await"

LEMMA FlowKept ==
  ASSUME NEW k \in Clients, Flow(k), CallSame(k), LinesSame(k), EndKept(k)
  PROVE  Flow(k)'
  <1>1. /\ Pending(k)' = Pending(k) /\ Waits(k)' = Waits(k) /\ Number(k)' = Number(k)
        /\ Asked(k)' = Asked(k)
    BY DEF CallSame, Pending, Waits, Number, Asked
  <1>2. Recorded(k, Number(k), Asked(k).query, down[k][1].res)' =
          Recorded(k, Number(k), Asked(k).query, down[k][1].res)
    BY <1>1 DEF LinesSame, Recorded
  <1>3. /\ client'[k] = client[k] /\ call'[k] = call[k]
        /\ up'[k] = up[k] /\ down'[k] = down[k]
    BY DEF CallSame, LinesSame
  <1>4. Len(up'[k]) + Len(down'[k]) <= 1
    BY <1>3 DEF Flow
  <1>5. (down[k] # <<>> =>
           /\ Waits(k) /\ client[k] = "open" /\ down[k][1].call = Number(k)
           /\ Recorded(k, Number(k), Asked(k).query, down[k][1].res)
           /\ call[k].op = "Logout" /\ down[k][1].res = "success" => server[k] = "closed")'
    BY <1>1, <1>2, <1>3 DEF Flow, EndKept
  <1>6. (up[k] # <<>> /\ client[k] = "open" => Waits(k) /\ up[k][1] = Asked(k))'
    BY <1>1, <1>3 DEF Flow
  <1>7. (handler[k] = "await" /\ server[k] # "closed" =>
           /\ Waits(k) /\ client[k] = "open" /\ up[k] = <<>> /\ down[k] = <<>>
           /\ held[k] = Asked(k))'
    BY <1>1, <1>3 DEF Flow, EndKept
  <1>8. (client[k] = "none" =>
           ~Pending(k) /\ up[k] = <<>> /\ server[k] = "none" /\ handler[k] = "none")'
    BY <1>1, <1>3 DEF Flow, EndKept
  <1>9. (client[k] = "lost" /\ up[k] # <<>> => server[k] = "closed")'
    BY <1>3 DEF Flow, EndKept
  <1>10. (Pending(k) /\ call[k].awaits = "eof" =>
            server[k] = "closed" /\ call[k].op = "Logout")'
    BY <1>1, <1>3 DEF Flow, EndKept
  <1>11. (server[k] = "none" => handler[k] # "await")'
    BY DEF EndKept
  <1>12. (Pending(k) /\ call[k].op \notin Checks => call[k].left = 1)'
    BY <1>1, <1>3 DEF Flow
  <1>13. QED
    BY <1>4, <1>5, <1>6, <1>7, <1>8, <1>9, <1>10, <1>11, <1>12 DEF Flow

LEMMA FlowHushed ==
  ASSUME NEW k \in Clients, Flow(k), CallSame(k), LinesSame(k), Hushed(k)
  PROVE  Flow(k)'
  <1>1. EndKept(k)
    BY DEF EndKept, Hushed, Flow
  <1>2. QED
    BY <1>1, FlowKept

(* The server opens a connection, and reads from it without the mock's script. *)
LEMMA FlowOpened ==
  ASSUME NEW k \in Clients, Flow(k), CallSame(k), LinesSame(k),
         server[k] = "none", handler'[k] # "await", client[k] # "none"
  PROVE  Flow(k)'
  <1>1. EndKept(k)
    BY DEF EndKept
  <1>2. QED
    BY <1>1, FlowKept

(* A query that is there is the one the adapter waits on, and the only one. *)
LEMMA QueryThere ==
  ASSUME Types, NEW k \in Clients, Flow(k), HasQuery(k)
  PROVE  /\ up[k][1] = Asked(k) /\ Head(up[k]) = Asked(k) /\ Tail(up[k]) = <<>>
         /\ Query(k) = QueryOf[call[k].op]
         /\ down[k] = <<>> /\ Waits(k) /\ client[k] = "open" /\ handler[k] # "await"
         /\ server[k] = "open"
  <1>1. /\ up[k] # <<>> /\ server[k] = "open" /\ TypesOf(k)
    BY TypesOfEach DEF HasQuery
  <1>2. client[k] = "open"
    BY <1>1 DEF TypesOf, Flow
  <1>3. Len(up[k]) = 1 /\ Len(down[k]) = 0
    <2>1. Len(up[k]) # 0 /\ Len(up[k]) \in Nat /\ Len(down[k]) \in Nat
      BY <1>1, Lengths DEF TypesOf
    <2>2. Len(up[k]) + Len(down[k]) <= 1
      BY DEF Flow
    <2>3. QED
      BY <2>1, <2>2, AtMostOne
  <1>4. down[k] = <<>> /\ Head(up[k]) = up[k][1] /\ Tail(up[k]) = <<>>
    BY <1>1, <1>3, One, Lengths DEF TypesOf
  <1>5. up[k][1] = Asked(k) /\ Waits(k)
    BY <1>1, <1>2 DEF Flow
  <1>6. QED
    BY <1>1, <1>2, <1>4, <1>5 DEF Flow, Query, Asked

(* An answer that is there is the one the adapter waits for, and the only one. *)
LEMMA AnswerThere ==
  ASSUME Types, NEW k \in Clients, Flow(k), Answered(k)
  PROVE  /\ down[k][1].call = Number(k) /\ Answer(k) = down[k][1].res
         /\ Tail(down[k]) = <<>> /\ up[k] = <<>> /\ Waits(k) /\ client[k] = "open"
         /\ handler[k] = "await" => server[k] = "closed"
         /\ Recorded(k, Number(k), QueryOf[call[k].op], Answer(k))
         /\ call[k].op = "Logout" /\ Answer(k) = "success" => server[k] = "closed"
  <1>1. down[k] # <<>> /\ TypesOf(k)
    BY TypesOfEach DEF Answered
  <1>2. Len(down[k]) = 1 /\ Len(up[k]) = 0
    <2>1. Len(down[k]) # 0 /\ Len(up[k]) \in Nat /\ Len(down[k]) \in Nat
      BY <1>1, Lengths DEF TypesOf
    <2>2. Len(up[k]) + Len(down[k]) <= 1
      BY DEF Flow
    <2>3. QED
      BY <2>1, <2>2, AtMostOne
  <1>3. up[k] = <<>> /\ Head(down[k]) = down[k][1] /\ Tail(down[k]) = <<>>
    BY <1>1, <1>2, One, Lengths DEF TypesOf
  <1>4. QED
    BY <1>1, <1>3 DEF Flow, Answer, Asked

(* Everything that depends on where the adapter is with its calls. *)
LEMMA IdleFlow ==
  ASSUME NEW k \in Clients, ~Pending(k)', down'[k] = <<>>, client'[k] # "none",
         Len(up'[k]) <= 1, Len(down'[k]) = 0, Len(up'[k]) \in Nat,
         up'[k] = <<>> \/ (client'[k] = "lost" /\ server'[k] = "closed"),
         handler'[k] = "await" => server'[k] = "closed"
  PROVE  Flow(k)'
  <1>1. Len(up'[k]) + Len(down'[k]) <= 1
    OBVIOUS
  <1>2. ~Waits(k)'
    BY DEF Waits
  <1>3. QED
    BY <1>1 DEF Flow

LEMMA ReturnEffect ==
  ASSUME Types, NEW k \in Clients, NEW op \in Operations, NEW res \in Returns, Return(k, op, res)
  PROVE  /\ ~Pending(k)' /\ done'[k] = Append(done[k], [op |-> op, res |-> res])
         /\ \A q \in Clients \ {k} : call'[q] = call[q] /\ done'[q] = done[q]
         /\ Len(done'[k]) = Len(done[k]) + 1 /\ DOMAIN done[k] = 1 .. Len(done[k])
         /\ DOMAIN done'[k] = 1 .. Len(done[k]) + 1
         /\ \A n \in 1 .. Len(done[k]) : done'[k][n] = done[k][n]
         /\ done'[k][Len(done[k]) + 1] = [op |-> op, res |-> res]
  <1> DEFINE r == [op |-> op, res |-> res]
  <1>1. Shapes /\ TypesOf(k) /\ r \in Result
    BY TypesAre, TypesOfEach DEF Result
  <1>2. /\ Len(Append(done[k], r)) = Len(done[k]) + 1 /\ Append(done[k], r) \in Seq(Result)
        /\ \A n \in 1 .. Len(done[k]) : Append(done[k], r)[n] = done[k][n]
        /\ Append(done[k], r)[Len(done[k]) + 1] = r
    BY <1>1, AppendProperties DEF TypesOf
  <1>3. /\ DOMAIN done[k] = 1 .. Len(done[k])
        /\ DOMAIN Append(done[k], r) = 1 .. Len(done[k]) + 1
    BY <1>1, <1>2, LenProperties DEF TypesOf
  <1>4. /\ done' = [done EXCEPT ![k] = Append(done[k], r)]
        /\ call' = [call EXCEPT ![k] = Idle]
    BY DEF Return
  <1>5. QED
    BY <1>1, <1>2, <1>3, <1>4 DEF Shapes, Pending

(* The other connections of an adapter's step. *)
LEMMA AdapterElsewhere ==
  ASSUME Types, NEW k \in Clients, AdapterStep(k), UNCHANGED mockVars,
         NEW q \in Clients \ {k}
  PROVE  CallSame(q) /\ LinesSame(q) /\ Hushed(q)
  <1>1. Shapes /\ UNCHANGED serverEnd /\ UNCHANGED handlerVars
    BY TypesAre
    DEF AdapterStep, Dial, Close, Progress, ReturnUnsent, Submit, NextName, RejectName,
        ReturnSuccess, AwaitEof, ReturnFailure, RejectFrame, Lose, mockVars
  <1>2. SUFFICES CallSame(q) /\ LinesSame(q)
    BY <1>1 DEF Hushed, serverEnd, handlerVars
  <1>3. CASE Dial(k) \/ Close(k)
    BY <1>1, <1>3 DEF Dial, Close, Shapes, CallSame, LinesSame, serverEnd
  <1>4. ASSUME NEW op \in Operations, ReturnUnsent(k, op) PROVE CallSame(q) /\ LinesSame(q)
    BY <1>1, <1>4 DEF ReturnUnsent, Return, Shapes, CallSame, LinesSame, serverEnd
  <1>5. ASSUME NEW op \in Operations, NEW names \in 1 .. MaxNames, Submit(k, op, names)
        PROVE  CallSame(q) /\ LinesSame(q)
    BY <1>1, <1>5 DEF Submit, Send, Shapes, CallSame, LinesSame, serverEnd
  <1>6. CASE NextName(k) \/ AwaitEof(k)
    BY <1>1, <1>6 DEF NextName, AwaitEof, Send, TakeAnswer, Shapes, CallSame, LinesSame, serverEnd
  <1>7. CASE RejectName(k) \/ ReturnSuccess(k) \/ ReturnFailure(k)
    BY <1>1, <1>7
    DEF RejectName, ReturnSuccess, ReturnFailure, Return, TakeAnswer,
        Shapes, CallSame, LinesSame, serverEnd
  <1>8. CASE RejectFrame(k) \/ Lose(k)
    BY <1>1, <1>8 DEF RejectFrame, Lose, Return, TakeAnswer, Shapes, CallSame, LinesSame, serverEnd
  <1>9. QED
    BY <1>3, <1>4, <1>5, <1>6, <1>7, <1>8 DEF AdapterStep, Progress

(* The return of a call that was answered. *)
AnswerReturned(k, res) ==
  /\ Answered(k) /\ TakeAnswer(k) /\ res \in Returns /\ Return(k, call[k].op, res)
  /\ up' = up /\ server' = server /\ answers' = answers

LEMMA ReturnsAnswer ==
  ASSUME Types, NEW k \in Clients
  PROVE  /\ RejectName(k) => /\ AnswerReturned(k, IF call[k].op = "CheckDomain" THEN "2005" ELSE "failed")
                             /\ client' = client
         /\ ReturnSuccess(k) => AnswerReturned(k, "ok") /\ client' = client
         /\ ReturnFailure(k) => /\ client' = client
                                /\ \/ AnswerReturned(k, ErrorOf(call[k].op, Answer(k)))
                                   \/ call[k].op = "Logout" /\ AnswerReturned(k, "ok")
         /\ RejectFrame(k) => AnswerReturned(k, "failed")
  <1>1. {"ok", "2005", "failed"} \subseteq Returns
    BY DEF Returns
  <1>2. Answered(k) /\ Answer(k) \in DOMAIN EPPCode => ErrorOf(call[k].op, Answer(k)) \in Returns
    BY PendingOperation, ErrorFacts DEF Answered
  <1>3. RejectName(k) => /\ AnswerReturned(k, IF call[k].op = "CheckDomain" THEN "2005" ELSE "failed")
                         /\ client' = client
    BY <1>1 DEF RejectName, GoesOn, AnswerReturned, serverEnd
  <1>4. ReturnSuccess(k) => AnswerReturned(k, "ok") /\ client' = client
    BY <1>1 DEF ReturnSuccess, AnswerReturned, serverEnd
  <1>5. ReturnFailure(k) => /\ client' = client
                            /\ \/ AnswerReturned(k, ErrorOf(call[k].op, Answer(k)))
                               \/ call[k].op = "Logout" /\ AnswerReturned(k, "ok")
    BY <1>1, <1>2 DEF ReturnFailure, AnswerReturned, serverEnd
  <1>6. RejectFrame(k) => AnswerReturned(k, "failed")
    BY <1>1 DEF RejectFrame, AnswerReturned, serverEnd
  <1>7. QED
    BY <1>3, <1>4, <1>5, <1>6

LEMMA AdapterFlow ==
  ASSUME Types, FlowInv, NEW k \in Clients, AdapterStep(k), UNCHANGED mockVars
  PROVE  FlowInv'
  <1>1. Shapes /\ TypesOf(k) /\ Flow(k) /\ Len(<<>>) = 0
    BY TypesAre, TypesOfEach DEF FlowInv
  <1>2. handler' = handler /\ held' = held
    BY DEF mockVars, handlerVars
  <1>3. SUFFICES Flow(k)'
    BY AdapterElsewhere, FlowHushed DEF FlowInv
  <1>4. CASE Dial(k)
    <2>1. /\ client[k] = "none" /\ client'[k] = "open" /\ call' = call /\ up' = up
          /\ down' = down /\ server' = server
      BY <1>1, <1>4 DEF Dial, Shapes, serverEnd
    <2>2. up[k] = <<>> /\ down[k] = <<>> /\ ~Pending(k) /\ (handler[k] = "await" => server[k] = "closed")
      BY <1>1, <2>1 DEF Flow, Waits
    <2>3. ~Pending(k)'
      BY <2>1, <2>2 DEF Pending
    <2>4. QED
      BY <1>1, <1>2, <2>1, <2>2, <2>3, IdleFlow
  <1>5. ~Pending(k) =>
          /\ down[k] = <<>> /\ (handler[k] = "await" => server[k] = "closed")
          /\ up[k] = <<>> \/ (client[k] = "lost" /\ server[k] = "closed")
    BY <1>1 DEF Flow, Waits, TypesOf
  <1>6. Len(up[k]) <= 1
    <2>1. Len(up[k]) + Len(down[k]) <= 1
      BY <1>1 DEF Flow
    <2>2. Len(up[k]) \in Nat /\ Len(down[k]) \in Nat
      BY <1>1 DEF TypesOf
    <2>3. QED
      BY <2>1, <2>2, AtMostOne
  <1>7. CASE Close(k)
    <2>1. /\ client[k] = "open" /\ client'[k] = "lost" /\ call' = call /\ up' = up
          /\ down' = down /\ server' = server /\ ~Pending(k) /\ ~Pending(k)'
      BY <1>1, <1>7 DEF Close, serverEnd, Pending, Shapes
    <2>2. QED
      BY <1>1, <1>2, <1>5, <1>6, <2>1, IdleFlow
  <1>8. ASSUME NEW op \in Operations, ReturnUnsent(k, op)
        PROVE  Flow(k)'
    <2>1. /\ ~Pending(k) /\ client' = client /\ client[k] # "none"
          /\ up' = up /\ down' = down /\ server' = server
          /\ Return(k, op, Unsent[op]) /\ Unsent[op] \in Returns
      BY <1>8, QueryFacts DEF ReturnUnsent, MayCall, serverEnd
    <2>2. ~Pending(k)'
      BY <2>1, ReturnEffect
    <2>3. QED
      BY <1>1, <1>2, <1>5, <1>6, <2>1, <2>2, IdleFlow DEF TypesOf
  <1>9. ASSUME NEW op \in Operations, NEW names \in 1 .. MaxNames, Submit(k, op, names)
        PROVE  Flow(k)'
    <2>1. /\ ~Pending(k) /\ client' = client /\ down' = down /\ server' = server
          /\ done' = done /\ client[k] \in {"open", "lost"} /\ answers' = answers
          /\ op \notin Checks => names = 1
          /\ call'[k] = [op |-> op, left |-> names, awaits |-> "answer"]
      BY <1>1, <1>9 DEF Submit, MayCall, serverEnd, Shapes, TypesOf
    <2>2. Pending(k)' /\ Waits(k)'
      BY <2>1 DEF Pending, Waits, Idle
    <2>3. down'[k] = <<>> /\ (handler'[k] = "await" => server'[k] = "closed")
      BY <1>2, <1>5, <2>1
    <2>4. CASE client[k] = "open"
      <3>1. up[k] = <<>>
        BY <1>5, <2>1, <2>4
      <3>2. up'[k] = Append(up[k], [query |-> QueryOf[op], call |-> Number(k)])
        BY <1>1, <1>9, <2>4 DEF Submit, Send, Shapes
      <3>3. up'[k] = <<[query |-> QueryOf[op], call |-> Number(k)]>>
        BY <3>1, <3>2, First
      <3>4. Asked(k)' = [query |-> QueryOf[op], call |-> Number(k)]
        BY <2>1 DEF Asked, Number
      <3>5. Len(up'[k]) = 1 /\ up'[k][1] = Asked(k)' /\ Len(down'[k]) = 0
        BY <1>1, <2>3, <3>3, <3>4, First
      <3>6. Len(up'[k]) + Len(down'[k]) <= 1
        BY <3>5
      <3>7. QED
        BY <2>1, <2>2, <2>3, <2>4, <3>5, <3>6 DEF Flow, Waits
    <2>5. CASE client[k] = "lost"
      <3>1. up' = up
        BY <1>9, <2>5 DEF Submit
      <3>2. Len(up'[k]) + Len(down'[k]) <= 1
        BY <1>1, <1>6, <2>3, <3>1 DEF TypesOf
      <3>3. QED
        BY <1>5, <2>1, <2>2, <2>3, <2>5, <3>1, <3>2 DEF Flow, Waits
    <2>6. QED
      BY <2>1, <2>4, <2>5
  <1>10. CASE NextName(k)
    <2>1. /\ Answered(k) /\ TakeAnswer(k) /\ Send(k, call[k].op, Number(k)) /\ call[k].left > 1
          /\ client' = client /\ done' = done /\ server' = server /\ answers' = answers
          /\ call' = [call EXCEPT ![k] = [call[k] EXCEPT !.left = @ - 1]]
      BY <1>10 DEF NextName, GoesOn, serverEnd
    <2>2. /\ Tail(down[k]) = <<>> /\ up[k] = <<>> /\ Waits(k) /\ client[k] = "open"
          /\ handler[k] = "await" => server[k] = "closed"
      BY <1>1, <2>1, AnswerThere
    <2>3. call[k] \in Call
      BY <2>2, PendingOperation DEF Waits
    <2>4. call'[k].op = call[k].op /\ call'[k].awaits = "answer" /\ call'[k].left = call[k].left - 1
      BY <1>1, <2>1, <2>2, <2>3 DEF Shapes, Call, Waits
    <2>5. call[k].op \in Checks
      <3>1. call[k].left # 1
        BY <2>1, <2>3 DEF Call
      <3>2. QED
        BY <1>1, <2>2, <3>1 DEF Flow, Waits
    <2>6. Waits(k)' /\ Pending(k)'
      BY <2>4, <2>5 DEF Waits, Pending, Idle, Checks
    <2>7. up'[k] = <<Asked(k)>> /\ down'[k] = <<>> /\ Asked(k)' = Asked(k)
      BY <1>1, <2>1, <2>2, <2>4, First DEF Send, TakeAnswer, Shapes, Asked, Number
    <2>8. Len(up'[k]) = 1 /\ up'[k][1] = Asked(k)' /\ Len(down'[k]) = 0
      BY <1>1, <2>7, First
    <2>9. Len(up'[k]) + Len(down'[k]) <= 1
      BY <2>8
    <2>10. QED
      BY <1>2, <2>1, <2>2, <2>4, <2>5, <2>6, <2>7, <2>8, <2>9 DEF Flow, Waits
  <1>11. ASSUME NEW res, AnswerReturned(k, res), client'[k] # "none"
         PROVE  Flow(k)'
    <2>1. /\ Answered(k) /\ TakeAnswer(k) /\ res \in Returns /\ Return(k, call[k].op, res)
          /\ up' = up /\ server' = server
      BY <1>11 DEF AnswerReturned
    <2>2. /\ Tail(down[k]) = <<>> /\ up[k] = <<>> /\ Pending(k)
          /\ handler[k] = "await" => server[k] = "closed"
      BY <1>1, <2>1, AnswerThere DEF Waits
    <2>3. down'[k] = <<>>
      BY <1>1, <2>1, <2>2 DEF TakeAnswer, Shapes
    <2>4. ~Pending(k)'
      BY <2>1, <2>2, PendingOperation, ReturnEffect
    <2>5. QED
      BY <1>1, <1>2, <1>11, <2>1, <2>2, <2>3, <2>4, IdleFlow
  <1>12. CASE AwaitEof(k)
    <2>1. /\ Answered(k) /\ TakeAnswer(k) /\ Answer(k) = "success" /\ call[k].op = "Logout"
          /\ client' = client /\ done' = done /\ server' = server /\ up' = up
          /\ call' = [call EXCEPT ![k] = [call[k] EXCEPT !.awaits = "eof"]]
      BY <1>12 DEF AwaitEof, serverEnd
    <2>2. /\ Tail(down[k]) = <<>> /\ up[k] = <<>> /\ Waits(k) /\ client[k] = "open"
          /\ server[k] = "closed"
      BY <1>1, <2>1, AnswerThere
    <2>3. call[k] \in Call
      BY <2>2, PendingOperation DEF Waits
    <2>4. call'[k].op = "Logout" /\ call'[k].left = call[k].left /\ call'[k].awaits = "eof"
      BY <1>1, <2>1, <2>3 DEF Shapes, Call
    <2>5. down'[k] = <<>> /\ up'[k] = <<>>
      BY <1>1, <2>1, <2>2 DEF TakeAnswer, Shapes
    <2>6. call[k].left = 1
      BY <1>1, <2>1, <2>2 DEF Flow, Waits, Checks
    <2>7. QED
      BY <1>1, <2>1, <2>2, <2>4, <2>5, <2>6 DEF Flow
  <1>13. CASE Lose(k)
    <2>1. /\ Pending(k) /\ (client[k] = "lost" \/ server[k] = "closed")
          /\ Return(k, call[k].op, LossOf(k)) /\ LossOf(k) \in Returns
          /\ client'[k] = "lost" /\ down'[k] = <<>> /\ up' = up /\ server' = server
      BY <1>1, <1>13 DEF Lose, Shapes, serverEnd, LossOf, Returns
    <2>2. ~Pending(k)'
      BY <2>1, PendingOperation, ReturnEffect
    <2>3. up[k] = <<>> \/ server[k] = "closed"
      BY <1>1, <2>1 DEF Flow
    <2>4. handler[k] = "await" => server[k] = "closed"
      BY <1>1, <2>1 DEF Flow
    <2>5. QED
      BY <1>1, <1>2, <1>6, <2>1, <2>2, <2>3, <2>4, IdleFlow DEF TypesOf
  <1>14. QED
    <2>1. RejectName(k) \/ ReturnSuccess(k) \/ ReturnFailure(k) => client'[k] # "none"
      BY <1>1, AnswerThere DEF RejectName, GoesOn, ReturnSuccess, ReturnFailure
    <2>2. RejectFrame(k) => client'[k] # "none"
      BY <1>1 DEF RejectFrame, Shapes
    <2>3. QED
      BY <1>4, <1>7, <1>8, <1>9, <1>10, <1>11, <1>12, <1>13, <2>1, <2>2, ReturnsAnswer
      DEF AdapterStep, Progress

(* The server answers the query it has taken, or takes it and is silent. *)
LEMMA FlowAnswered ==
  ASSUME Types, NEW k \in Clients, Flow(k), NEW res, Write(k, Asked(k), res),
         Waits(k), client[k] = "open", down[k] = <<>>, up'[k] = <<>>, CallSame(k),
         server'[k] # "none", handler'[k] = "await" => server'[k] = "closed",
         call[k].op = "Logout" /\ res = "success" => server'[k] = "closed"
  PROVE  Flow(k)'
  <1> DEFINE r == [res |-> res, call |-> Number(k)]
             a == [res |-> res, query |-> Asked(k).query, call |-> Number(k)]
  <1>1. Shapes /\ TypesOf(k) /\ Asked(k).call = Number(k) /\ Len(<<>>) = 0
    BY TypesAre, TypesOfEach DEF Asked
  <1>2. down'[k] = <<r>> /\ answers'[k] = Append(answers[k], a)
    BY <1>1, First DEF Write, Shapes
  <1>3. Len(down'[k]) = 1 /\ down'[k][1] = r /\ down'[k] # <<>> /\ Len(up'[k]) = 0
    BY <1>1, <1>2, First
  <1>4. Len(up'[k]) + Len(down'[k]) <= 1
    BY <1>3
  <1>5. /\ Pending(k)' = Pending(k) /\ Waits(k)' = Waits(k) /\ Number(k)' = Number(k)
        /\ Asked(k)' = Asked(k)
    BY DEF CallSame, Pending, Waits, Number, Asked
  <1>6. \E i \in DOMAIN answers'[k] : answers'[k][i] = a
    <2>1. answers[k] \in Seq(Record) /\ Len(answers[k]) \in Nat
      BY <1>1, Lengths DEF TypesOf
    <2>2. DOMAIN answers'[k] = 1 .. Len(answers[k]) + 1 /\ answers'[k][Len(answers[k]) + 1] = a
      BY <1>2, <2>1 
    <2>3. QED
      BY <2>1, <2>2
  <1>7. Recorded(k, Number(k), Asked(k).query, res)'
    BY <1>5, <1>6 DEF Recorded
  <1>8. Pending(k) /\ call[k].awaits = "answer"
    BY DEF Waits
  <1>9. QED
    BY <1>1, <1>3, <1>4, <1>5, <1>7, <1>8 DEF Flow, CallSame

LEMMA FlowTaken ==
  ASSUME Types, NEW k \in Clients, Flow(k), HasQuery(k), up'[k] = <<>>,
         CallSame(k), down'[k] = down[k], answers'[k] = answers[k], server'[k] # "none",
         \/ handler'[k] = "await" => server'[k] = "closed"
         \/ held'[k] = Asked(k)
  PROVE  Flow(k)'
  <1>1. /\ down[k] = <<>> /\ Waits(k) /\ client[k] = "open" /\ Len(<<>>) = 0
    BY QueryThere, First
  <1>2. /\ Pending(k)' = Pending(k) /\ Waits(k)' = Waits(k) /\ Number(k)' = Number(k)
        /\ Asked(k)' = Asked(k)
    BY DEF CallSame, Pending, Waits, Number, Asked
  <1>3. Pending(k) /\ call[k].awaits = "answer"
    BY <1>1 DEF Waits
  <1>4. Len(up'[k]) + Len(down'[k]) <= 1
    BY <1>1
  <1>5. server'[k] # "closed" /\ handler'[k] = "await" => held'[k] = Asked(k)
    OBVIOUS
  <1>6. QED
    BY <1>1, <1>2, <1>3, <1>4, <1>5 DEF Flow, CallSame

LEMMA TakenTail ==
  ASSUME Types, NEW k \in Clients, Flow(k), HasQuery(k), TakeQuery(k)
  PROVE  up'[k] = <<>> /\ \A q \in Clients \ {k} : up'[q] = up[q]
  BY TypesAre, QueryThere DEF TakeQuery, Shapes

LEMMA WrittenElsewhere ==
  ASSUME Types, NEW k \in Clients, NEW m, NEW res, Write(k, m, res), NEW q \in Clients \ {k}
  PROVE  down'[q] = down[q] /\ answers'[q] = answers[q]
  BY TypesAre DEF Write, Shapes

LEMMA HandlerFlow ==
  ASSUME Types, FlowInv, NEW k \in Clients, HandlerStep(k)
  PROVE  FlowInv'
  <1>1. Shapes /\ MockTypeOK /\ TypesOf(k) /\ Flow(k)
    BY TypesAre, TypesOfEach DEF FlowInv
  <1>2. SUFFICES Flow(k)' /\ \A q \in Clients \ {k} : CallSame(q) /\ LinesSame(q) /\ Hushed(q)
    BY FlowHushed DEF FlowInv
  <1>3. ASSUME Leave(k), UNCHANGED <<clientVars, up, down, answers>>, handler[k] # "none"
        PROVE  Flow(k)' /\ \A q \in Clients \ {k} : CallSame(q) /\ LinesSame(q) /\ Hushed(q)
    <2>1. /\ \A q \in Clients : CallSame(q) /\ LinesSame(q)
          /\ server'[k] = "closed" /\ \A q \in Clients \ {k} : Hushed(q)
      BY <1>1, <1>3
      DEF Leave, Goto, CloseEnd, Shapes, MockTypeOK, CallSame, LinesSame, Hushed, clientVars
    <2>2. client[k] # "none"
      BY <1>1, <1>3 DEF Flow
    <2>3. QED
      BY <1>1, <2>1, <2>2, FlowHushed DEF Hushed
  <1>4. CASE DispatchFails(k) \/ StopWaiting(k) \/ GiveUp(k)
    BY <1>3, <1>4 DEF DispatchFails, StopWaiting, GiveUp, TakesScript
  <1>5. ASSUME Reads(k), NEW res \in Answers, Reply(k, res), res = "auth" \/ Query(k) = "LOGIN"
        PROVE  Flow(k)' /\ \A q \in Clients \ {k} : CallSame(q) /\ LinesSame(q) /\ Hushed(q)
    <2>1. /\ HasQuery(k) /\ handler[k] = "read" /\ TakeQuery(k) /\ Write(k, Head(up[k]), res)
          /\ UNCHANGED clientVars /\ server' = server /\ handler' = handler /\ held' = held
      BY <1>5 DEF Reads, Reply
    <2>2. /\ Head(up[k]) = Asked(k) /\ down[k] = <<>> /\ Waits(k) /\ client[k] = "open"
          /\ server[k] = "open" /\ Query(k) = QueryOf[call[k].op]
      BY <1>1, <2>1, QueryThere
    <2>3. call[k].op = "Logout" => Query(k) # "LOGIN"
      BY <2>2 DEF QueryOf
    <2>4. CallSame(k) /\ up'[k] = <<>>
      BY <1>1, <2>1, TakenTail DEF CallSame, clientVars
    <2>5. Flow(k)'
      BY <1>1, <1>5, <2>1, <2>2, <2>3, <2>4, FlowAnswered
    <2>6. ASSUME NEW q \in Clients \ {k}
          PROVE  CallSame(q) /\ LinesSame(q) /\ Hushed(q)
      BY <1>1, <2>1, TakenTail, WrittenElsewhere DEF CallSame, LinesSame, Hushed, clientVars
    <2>7. QED
      BY <2>5, <2>6
  <1>6. CASE RefuseBeforeLogin(k) \/ LoginSucceeds(k) \/ LoginFails(k)
    BY <1>5, <1>6 DEF RefuseBeforeLogin, LoginSucceeds, LoginFails, Answers
  <1>7. CASE AwaitScript(k)
    <2>1. /\ HasQuery(k) /\ TakeQuery(k) /\ UNCHANGED clientVars /\ down' = down
          /\ server' = server /\ answers' = answers
          /\ held' = [held EXCEPT ![k] = Head(up[k])] /\ Goto(k, "await")
      BY <1>7 DEF AwaitScript, Reads, serverEnd
    <2>2. /\ Head(up[k]) = Asked(k) /\ server[k] = "open"
      BY <1>1, <2>1, QueryThere
    <2>3. held'[k] = Asked(k) /\ \A q \in Clients \ {k} : held'[q] = held[q] /\ handler'[q] = handler[q]
      BY <1>1, <2>1, <2>2 DEF MockTypeOK, Goto
    <2>4. up'[k] = <<>> /\ \A q \in Clients \ {k} : up'[q] = up[q]
      BY <1>1, <2>1, TakenTail
    <2>5. \A q \in Clients : CallSame(q)
      BY <2>1 DEF CallSame, clientVars
    <2>6. Flow(k)'
      BY <1>1, <2>1, <2>2, <2>3, <2>4, <2>5, FlowTaken
    <2>7. QED
      BY <2>1, <2>3, <2>4, <2>5, <2>6 DEF LinesSame, Hushed
  <1>8. ASSUME NEW item \in Items, Dispatch(k, item)
        PROVE  Flow(k)' /\ \A q \in Clients \ {k} : CallSame(q) /\ LinesSame(q) /\ Hushed(q)
    <2>1. /\ handler[k] = "await" /\ server[k] = "open" /\ Write(k, held[k], item)
          /\ UNCHANGED clientVars /\ up' = up
          /\ IF held[k].query = "LOGOUT"
             THEN Leave(k)
             ELSE Goto(k, "read") /\ UNCHANGED server /\ held' = [held EXCEPT ![k] = NoQuery]
      BY <1>8 DEF Dispatch, TakesScript
    <2>2. /\ Waits(k) /\ client[k] = "open" /\ up[k] = <<>> /\ down[k] = <<>>
          /\ held[k] = Asked(k)
      BY <1>1, <2>1 DEF Flow
    <2>3. /\ handler'[k] # "await" /\ server'[k] # "none"
          /\ held[k].query = "LOGOUT" => server'[k] = "closed"
          /\ \A q \in Clients \ {k} : Hushed(q)
      BY <1>1, <2>1 DEF Leave, Goto, CloseEnd, Shapes, MockTypeOK, Hushed
    <2>4. call[k].op = "Logout" => held[k].query = "LOGOUT"
      BY <2>2 DEF Asked, QueryOf
    <2>5. \A q \in Clients : CallSame(q)
      BY <2>1 DEF CallSame, clientVars
    <2>6. Flow(k)'
      BY <1>1, <2>1, <2>2, <2>3, <2>4, <2>5, FlowAnswered
    <2>7. \A q \in Clients \ {k} : LinesSame(q)
      BY <2>1, WrittenElsewhere DEF LinesSame
    <2>8. QED
      BY <2>3, <2>5, <2>6, <2>7
  <1>9. QED
    BY <1>4, <1>6, <1>7, <1>8 DEF HandlerStep

LEMMA MockFlow ==
  ASSUME Types, FlowInv, MockStep
  PROVE  FlowInv'
  <1>1. Shapes /\ MockTypeOK /\ \A k \in Clients : Flow(k)
    BY TypesAre DEF FlowInv
  <1>2. ASSUME NEW k \in Clients, Accept(k)
        PROVE  FlowInv'
    <2>1. /\ server[k] = "none" /\ client[k] # "none" /\ handler'[k] = "read"
          /\ \A q \in Clients : CallSame(q) /\ LinesSame(q)
          /\ \A q \in Clients \ {k} : Hushed(q)
      BY <1>1, <1>2
      DEF Accept, Waiting, Goto, Shapes, MockTypeOK, CallSame, LinesSame, Hushed, clientVars
    <2>2. QED
      BY <1>1, <2>1, FlowHushed, FlowOpened DEF FlowInv
  <1>3. CASE Script \/ DropConnection \/ Cancel \/ WaitReturns
    <2>1. \A q \in Clients : server[q] = "open" => client[q] # "none"
      BY <1>1 DEF Flow
    <2>2. \A q \in Clients : CallSame(q) /\ LinesSame(q) /\ Hushed(q)
      BY <1>1, <1>3, <2>1
      DEF Script, DropConnection, Cancel, WaitReturns, CloseEnd, Shapes, CallSame, LinesSame,
          Hushed, clientVars, linkVars, serverEnd, mockVars, handlerVars
    <2>3. QED
      BY <1>1, <2>2, FlowHushed DEF FlowInv
  <1>4. QED
    BY <1>2, <1>3, HandlerFlow DEF MockStep

LEMMA StandaloneFlow ==
  ASSUME Types, FlowInv, ShutDown \/ \E k \in Clients : ConnStep(k), UNCHANGED mockVars
  PROVE  FlowInv'
  <1>1. Shapes /\ \A k \in Clients : Flow(k)
    BY TypesAre DEF FlowInv
  <1>2. handler' = handler /\ held' = held
    BY DEF mockVars, handlerVars
  <1>3. CASE ShutDown
    <2>1. \A q \in Clients : client[q] = "none" => server[q] = "none"
      BY <1>1 DEF Flow
    <2>2. \A q \in Clients : CallSame(q) /\ LinesSame(q) /\ Hushed(q)
      BY <1>2, <1>3, <2>1 DEF ShutDown, CallSame, LinesSame, Hushed, clientVars
    <2>3. QED
      BY <1>1, <2>2, FlowHushed DEF FlowInv
  <1>4. ASSUME NEW k \in Clients, ConnStep(k)
        PROVE  Flow(k)' /\ \A q \in Clients \ {k} : CallSame(q) /\ LinesSame(q) /\ Hushed(q)
    <2>1. /\ Flow(k) /\ \A q \in Clients : CallSame(q)
      BY <1>1, <1>4
      DEF ConnStep, AcceptConn, AllowLogin, DenyLogin, HangLogin, DisconnectLogin, LogoutQuery,
          AnswerQuery, DisconnectQuery, HangUp, Respond, CallSame, clientVars
    <2>2. CASE AcceptConn(k)
      <3>1. /\ server[k] = "none" /\ client[k] # "none" /\ handler[k] # "await"
            /\ (\A q \in Clients : LinesSame(q)) /\ (\A q \in Clients \ {k} : Hushed(q))
        BY <1>1, <1>2, <2>1, <2>2 DEF AcceptConn, Waiting, LinesSame, Hushed, Shapes, Flow
      <3>2. QED
        BY <1>2, <2>1, <3>1, FlowOpened
    <2>3. CASE HangUp(k)
      <3>1. client[k] # "none"
        BY <2>1, <2>3 DEF HangUp, Flow
      <3>2. \A q \in Clients : LinesSame(q) /\ Hushed(q)
        BY <1>1, <1>2, <2>3, <3>1 DEF HangUp, CloseEnd, LinesSame, Hushed, Shapes
      <3>3. QED
        BY <2>1, <3>2, FlowHushed
    <2>4. ASSUME HasQuery(k), TakeQuery(k), server' = server \/ CloseEnd(k)
          PROVE  /\ Head(up[k]) = Asked(k) /\ down[k] = <<>> /\ Waits(k) /\ client[k] = "open"
                 /\ server'[k] # "none" /\ handler'[k] # "await" /\ up'[k] = <<>>
                 /\ Query(k) = QueryOf[call[k].op]
                 /\ \A q \in Clients \ {k} : up'[q] = up[q] /\ Hushed(q)
      <3>1. server[k] = "open" /\ server'[k] # "none" /\ \A q \in Clients \ {k} : Hushed(q)
        BY <1>1, <1>2, <2>4 DEF HasQuery, CloseEnd, Shapes, Hushed
      <3>2. QED
        BY <1>2, <2>1, <2>4, <3>1, QueryThere, TakenTail
    <2>5. ASSUME HasQuery(k), NEW res, Respond(k, res), server' = server \/ CloseEnd(k),
                 Query(k) = "LOGOUT" => CloseEnd(k)
          PROVE  Flow(k)' /\ \A q \in Clients \ {k} : CallSame(q) /\ LinesSame(q) /\ Hushed(q)
      <3>1. TakeQuery(k) /\ Write(k, Head(up[k]), res)
        BY <2>5 DEF Respond
      <3>2. call[k].op = "Logout" => server'[k] = "closed"
        <4>1. Query(k) = QueryOf[call[k].op] /\ QueryOf["Logout"] = "LOGOUT"
          BY <2>4, <2>5, <3>1 DEF QueryOf
        <4>2. QED
          BY <1>1, <2>5, <4>1 DEF CloseEnd, Shapes
      <3>3. Flow(k)'
        BY <2>1, <2>4, <2>5, <3>1, <3>2, FlowAnswered
      <3>4. QED
        BY <2>1, <2>4, <2>5, <3>1, <3>3, WrittenElsewhere DEF LinesSame
    <2>6. ASSUME HasQuery(k), TakeQuery(k), server' = server \/ CloseEnd(k),
                 down' = down, answers' = answers
          PROVE  Flow(k)' /\ \A q \in Clients \ {k} : CallSame(q) /\ LinesSame(q) /\ Hushed(q)
      <3>1. Flow(k)'
        BY <2>1, <2>4, <2>6, FlowTaken
      <3>2. QED
        BY <2>1, <2>4, <2>6, <3>1 DEF LinesSame
    <2>7. CASE AllowLogin(k) \/ DenyLogin(k)
      BY <2>5, <2>7 DEF AllowLogin, DenyLogin, LoginQuery
    <2>8. CASE LogoutQuery(k)
      BY <2>5, <2>8 DEF LogoutQuery
    <2>9. CASE AnswerQuery(k)
      BY <2>5, <2>9 DEF AnswerQuery, OtherQuery
    <2>10. CASE HangLogin(k) \/ DisconnectLogin(k) \/ DisconnectQuery(k)
      BY <2>6, <2>10 DEF HangLogin, DisconnectLogin, DisconnectQuery, LoginQuery, OtherQuery, serverEnd
    <2>11. QED
      BY <1>4, <2>2, <2>3, <2>7, <2>8, <2>9, <2>10 DEF ConnStep
  <1>5. QED
    BY <1>1, <1>3, <1>4, FlowHushed DEF FlowInv

LEMMA FlowStep == Types /\ FlowInv /\ [Next]_vars => FlowInv'
  <1>1. SUFFICES ASSUME Types, FlowInv, [Next]_vars PROVE FlowInv'
    OBVIOUS
  <1>2. CASE UNCHANGED vars
    BY <1>1, <1>2, FlowHushed
    DEF vars, linkVars, clientVars, serverEnd, mockVars, handlerVars, FlowInv, CallSame,
        LinesSame, Hushed
  <1>3. QED
    BY <1>1, <1>2, AdapterFlow, MockFlow, StandaloneFlow DEF Next

THEOREM FlowHolds == Spec => []FlowInv
  BY FlowInit, FlowStep, TypesHold, PTL DEF Spec

(* An adapter that has sent LOGOUT and waits for the end of the stream waits for
   a server that has closed.                                                  *)
THEOREM LogoutNeedsNoDeadline == Spec => []LogoutCloses
  <1>1. FlowInv => LogoutCloses
    BY DEF FlowInv, Flow, LogoutCloses
  <1>2. QED
    BY <1>1, FlowHolds, PTL

(* An answer on its way is to the call that waits, and alone: for any number of
   adapters and calls, after any sequence of refusals, hangs and bad headers. *)
THEOREM AnswersToTheCall == Spec => []AnswersPaired
  <1>1. Types /\ FlowInv => AnswersPaired
    <2>1. SUFFICES ASSUME Types, FlowInv, NEW k \in Clients
                   PROVE  /\ \A i \in DOMAIN down[k] :
                               down[k][i].call = Number(k) /\ Waits(k)
                          /\ Len(down[k]) + Len(up[k]) <= 1
      BY DEF AnswersPaired, Waits
    <2>2. Flow(k) /\ TypesOf(k)
      BY <2>1, TypesOfEach DEF FlowInv
    <2>3. Len(up[k]) + Len(down[k]) <= 1 /\ Len(up[k]) \in Nat /\ Len(down[k]) \in Nat
      BY <2>2 DEF Flow, TypesOf
    <2>4. Len(down[k]) <= 1 /\ Len(down[k]) + Len(up[k]) <= 1
      BY <2>3, AtMostOne
    <2>5. DOMAIN down[k] = 1 .. Len(down[k])
      BY <2>2, LenProperties DEF TypesOf
    <2>6. ASSUME NEW i \in DOMAIN down[k]
          PROVE  down[k][i].call = Number(k) /\ Waits(k)
      <3>1. i = 1 /\ Len(down[k]) # 0
        BY <2>3, <2>4, <2>5
      <3>2. down[k] # <<>>
        BY <2>2, <3>1, Lengths DEF TypesOf
      <3>3. QED
        BY <2>2, <3>1, <3>2 DEF Flow
    <2>7. QED
      BY <2>4, <2>6
  <1>2. QED
    BY <1>1, TypesHold, FlowHolds, PTL

-----------------------------------------------------------------------------
(* An empty queue that was reported is one the server answered for. *)
Refused(k, n) == \E res \in DOMAIN EPPCode : Recorded(k, n, "QUEUE-READ", res)

EmptyOf(k) == \A n \in DOMAIN done[k] : done[k][n].res = "1300" => Refused(k, n)
EmptyInv == \A k \in Clients : EmptyOf(k)

(* What the server has answered stays answered. *)
AnswersKept(k) == \A n, query, res : Recorded(k, n, query, res) => Recorded(k, n, query, res)'

LEMMA WriteKeeps ==
  ASSUME Types, NEW k \in Clients, NEW m, NEW res, Write(k, m, res), NEW q \in Clients
  PROVE  AnswersKept(q)
  <1>1. CASE q # k
    BY <1>1, WrittenElsewhere DEF AnswersKept, Recorded
  <1>2. CASE q = k
    <2> DEFINE a == [res |-> res, query |-> m.query, call |-> m.call]
    <2>1. /\ answers'[k] = Append(answers[k], a) /\ answers[k] \in Seq(Record)
      BY TypesAre, TypesOfEach DEF Write, Shapes, TypesOf
    <2>2. \A i \in DOMAIN answers[k] :
            i \in DOMAIN answers'[k] /\ answers'[k][i] = answers[k][i]
      BY <2>1
    <2>3. QED
      BY <1>2, <2>2 DEF AnswersKept, Recorded
  <1>3. QED
    BY <1>1, <1>2

LEMMA AnswersSameKeeps ==
  ASSUME answers' = answers, NEW q \in Clients
  PROVE  AnswersKept(q)
  BY DEF AnswersKept, Recorded

LEMMA ServerStep ==
  ASSUME Types, MockStep \/ ShutDown \/ \E k \in Clients : ConnStep(k)
  PROVE  /\ UNCHANGED clientVars
         /\ answers' = answers \/ \E k \in Clients : \E m, res : Write(k, m, res)
  <1>1. ASSUME NEW k \in Clients, ConnStep(k)
        PROVE  UNCHANGED clientVars /\ (answers' = answers \/ \E m, res : Write(k, m, res))
    BY <1>1
    DEF ConnStep, AcceptConn, AllowLogin, DenyLogin, HangLogin, DisconnectLogin, LogoutQuery,
        AnswerQuery, DisconnectQuery, HangUp, Respond, clientVars, serverEnd
  <1>2. ASSUME NEW k \in Clients, HandlerStep(k)
        PROVE  UNCHANGED clientVars /\ (answers' = answers \/ \E m, res : Write(k, m, res))
    BY <1>2
    DEF HandlerStep, RefuseBeforeLogin, LoginSucceeds, LoginFails, AwaitScript, DispatchFails,
        StopWaiting, GiveUp, Dispatch, Reply, clientVars, serverEnd
  <1>3. ASSUME NEW k \in Clients, Accept(k)
        PROVE  UNCHANGED clientVars /\ answers' = answers
    BY <1>3 DEF Accept
  <1>4. CASE Script \/ DropConnection \/ Cancel \/ WaitReturns \/ ShutDown
    BY <1>4
    DEF Script, DropConnection, Cancel, WaitReturns, ShutDown, linkVars, clientVars, serverEnd
  <1>5. QED
    BY <1>1, <1>2, <1>3, <1>4 DEF MockStep

LEMMA ServerKeeps ==
  ASSUME Types, MockStep \/ ShutDown \/ \E k \in Clients : ConnStep(k)
  PROVE  done' = done /\ \A q \in Clients : AnswersKept(q)
  BY ServerStep, WriteKeeps, AnswersSameKeeps DEF clientVars

LEMMA EmptyReturned ==
  ASSUME Types, NEW k \in Clients, EmptyOf(k), answers' = answers,
         NEW op \in Operations, NEW res \in Returns, Return(k, op, res),
         res = "1300" => Refused(k, Number(k))
  PROVE  EmptyOf(k)'
  <1>1. /\ DOMAIN done[k] = 1 .. Len(done[k]) /\ DOMAIN done'[k] = 1 .. Len(done[k]) + 1
        /\ \A n \in 1 .. Len(done[k]) : done'[k][n] = done[k][n]
        /\ done'[k][Len(done[k]) + 1] = [op |-> op, res |-> res]
    BY ReturnEffect
  <1>2. \A n : Refused(k, n)' = Refused(k, n)
    BY DEF Refused, Recorded
  <1>3. Len(done[k]) \in Nat
    BY TypesOfEach DEF TypesOf
  <1>4. ASSUME NEW n \in DOMAIN done'[k], done'[k][n].res = "1300"
        PROVE  Refused(k, n)
    <2>1. CASE n \in 1 .. Len(done[k])
      BY <1>1, <1>4, <2>1 DEF EmptyOf
    <2>2. CASE n = Len(done[k]) + 1
      BY <1>1, <1>4, <2>2 DEF Number
    <2>3. QED
      BY <1>1, <1>3, <2>1, <2>2
  <1>5. QED
    BY <1>2, <1>4 DEF EmptyOf

LEMMA AdapterEmpty ==
  ASSUME Types, FlowInv, EmptyInv, NEW k \in Clients, AdapterStep(k), UNCHANGED mockVars
  PROVE  EmptyInv'
  <1>1. EmptyOf(k) /\ Flow(k) /\ TypesOf(k)
    BY TypesOfEach DEF EmptyInv, FlowInv
  <1>2. answers' = answers
    BY DEF AdapterStep, Dial, Close, Progress, ReturnUnsent, Submit, NextName, RejectName,
           ReturnSuccess, AwaitEof, ReturnFailure, RejectFrame, Lose, serverEnd
  <1>3. \A q \in Clients \ {k} : EmptyOf(q)'
    BY <1>2, AdapterElsewhere DEF EmptyInv, EmptyOf, CallSame, Refused, Recorded
  <1>4. SUFFICES EmptyOf(k)'
    BY <1>3 DEF EmptyInv
  <1>5. CASE done' = done
    BY <1>1, <1>2, <1>5 DEF EmptyOf, Refused, Recorded
  <1>6. CASE Dial(k) \/ Close(k) \/ NextName(k) \/ AwaitEof(k)
    BY <1>5, <1>6 DEF Dial, Close, NextName, AwaitEof
  <1>7. ASSUME NEW op \in Operations, ReturnUnsent(k, op)
        PROVE  EmptyOf(k)'
    <2>1. Unsent[op] # "1300" /\ Unsent[op] \in Returns
      BY <1>7, QueryFacts DEF ReturnUnsent, Unsent
    <2>2. QED
      BY <1>1, <1>2, <1>7, <2>1, EmptyReturned DEF ReturnUnsent
  <1>8. ASSUME NEW op \in Operations, NEW names \in 1 .. MaxNames, Submit(k, op, names)
        PROVE  EmptyOf(k)'
    BY <1>5, <1>8 DEF Submit
  <1>9. ASSUME NEW res, AnswerReturned(k, res), res = "1300" => Refused(k, Number(k))
        PROVE  EmptyOf(k)'
    <2>1. Pending(k) /\ res \in Returns /\ Return(k, call[k].op, res)
      BY <1>9 DEF AnswerReturned, Answered
    <2>2. QED
      BY <1>1, <1>2, <1>9, <2>1, PendingOperation, EmptyReturned
  <1>10. CASE RejectName(k) \/ ReturnSuccess(k) \/ RejectFrame(k)
    BY <1>9, <1>10, ReturnsAnswer
  <1>11. CASE ReturnFailure(k)
    <2>1. ErrorOf(call[k].op, Answer(k)) = "1300" => Refused(k, Number(k))
      <3>1. Answered(k) /\ Pending(k) /\ Answer(k) \in DOMAIN EPPCode
        BY <1>11 DEF ReturnFailure, Answered
      <3>2. Recorded(k, Number(k), QueryOf[call[k].op], Answer(k))
        BY <1>1, <3>1, AnswerThere
      <3>3. ErrorOf(call[k].op, Answer(k)) = "1300" => call[k].op = "PollRead"
        BY <3>1, PendingOperation, ErrorFacts
      <3>4. QueryOf["PollRead"] = "QUEUE-READ"
        BY DEF QueryOf
      <3>5. QED
        BY <3>1, <3>2, <3>3, <3>4 DEF Refused
    <2>2. QED
      BY <1>9, <1>11, <2>1, ReturnsAnswer
  <1>12. CASE Lose(k)
    <2>1. Pending(k) /\ Return(k, call[k].op, LossOf(k)) /\ LossOf(k) \in Returns \ {"1300"}
      BY <1>12 DEF Lose, LossOf, Returns
    <2>2. QED
      BY <1>1, <1>2, <2>1, PendingOperation, EmptyReturned
  <1>13. QED
    BY <1>6, <1>7, <1>8, <1>10, <1>11, <1>12 DEF AdapterStep, Progress

LEMMA EmptyStep == Types /\ FlowInv /\ EmptyInv /\ [Next]_vars => EmptyInv'
  <1>1. SUFFICES ASSUME Types, FlowInv, EmptyInv, [Next]_vars PROVE EmptyInv'
    OBVIOUS
  <1>2. ASSUME done' = done, \A q \in Clients : AnswersKept(q)
        PROVE  EmptyInv'
    BY <1>1, <1>2 DEF EmptyInv, EmptyOf, Refused, AnswersKept
  <1>3. CASE UNCHANGED vars
    <2>1. done' = done /\ answers' = answers
      BY <1>3 DEF vars, linkVars, clientVars, serverEnd
    <2>2. QED
      BY <1>2, <2>1, AnswersSameKeeps
  <1>4. QED
    BY <1>1, <1>2, <1>3, AdapterEmpty, ServerKeeps DEF Next

(* An adapter that reports an empty queue has an answer of the server to the
   call that reports it, a refusal of QUEUE-READ: for any script, profile and
   number of adapters, lost connections and bad headers in between.          *)
THEOREM EmptyQueueIsAnswered == Spec => []EmptyQueueAnswered
  <1>1. Init => EmptyInv
    <2>1. SUFFICES ASSUME Init, NEW k \in Clients PROVE EmptyOf(k)
      BY DEF EmptyInv
    <2>2. done[k] = <<>>
      BY <2>1 DEF Init, LinkInit
    <2>3. QED
      BY <2>2 DEF EmptyOf
  <1>2. EmptyInv => EmptyQueueAnswered
    <2>1. SUFFICES ASSUME EmptyInv, NEW k \in Clients, NEW n \in DOMAIN done[k],
                          done[k][n].res = "1300"
                   PROVE  \E i \in DOMAIN answers[k] :
                            /\ answers[k][i].call = n /\ answers[k][i].query = "QUEUE-READ"
                            /\ answers[k][i].res \in DOMAIN EPPCode
      BY DEF EmptyQueueAnswered
    <2>2. PICK res \in DOMAIN EPPCode : Recorded(k, n, "QUEUE-READ", res)
      BY <2>1 DEF EmptyInv, EmptyOf, Refused
    <2>3. PICK i \in DOMAIN answers[k] :
            answers[k][i] = [res |-> res, query |-> "QUEUE-READ", call |-> n]
      BY <2>2 DEF Recorded
    <2>4. /\ answers[k][i].call = n /\ answers[k][i].query = "QUEUE-READ"
          /\ answers[k][i].res = res
      BY <2>3
    <2>5. QED
      BY <2>4
  <1>3. QED
    BY <1>1, <1>2, EmptyStep, TypesHold, FlowHolds, PTL DEF Spec

-----------------------------------------------------------------------------
(* Sessions of the scripted mock.  The adapter and the handler agree on who is
   logged in, but for a LOGIN that was granted and whose answer is on its way or
   was lost with the connection; so an answer that was not to a LOGIN is a
   refusal for want of a login exactly when no Login has returned nil.          *)
Granted == [op |-> "Login", res |-> "ok"]
SaysSo(k) == LoggedInBy(k, Len(done[k]))

SessionOf(k) ==
  /\ SaysSo(k) => loggedIn[k]
  /\ client[k] = "none" => ~loggedIn[k]
  /\ loggedIn[k] /\ client[k] = "open" =>
       \/ SaysSo(k)
       \/ down[k] # <<>> /\ call[k].op = "Login" /\ down[k][1].res = "success"
  /\ down[k] # <<>> =>
       /\ call[k].op = "Login" =>
            /\ down[k][1].res \in {"success", "auth"}
            /\ down[k][1].res = "success" => loggedIn[k]
       /\ call[k].op # "Login" => (down[k][1].res = "auth" <=> ~SaysSo(k))
  /\ handler[k] = "await" => loggedIn[k] /\ (server[k] # "closed" => call[k].op # "Login")

ResultFits(k, n, op, res) ==
  op \in DOMAIN QueryOf \ {"Login", "Logout"} =>
    IF LoggedInBy(k, n - 1) THEN res # "2201"
                            ELSE res \in {"1300", "2201", "failed", "notfound"}

Decided(k) == \A n \in DOMAIN done[k] : ResultFits(k, n, done[k][n].op, done[k][n].res)

SessionInv == backend = "mock" => \A k \in Clients : SessionOf(k) /\ Decided(k)

LEMMA SessionInit == Init => SessionInv
  <1>1. SUFFICES ASSUME Init, NEW k \in Clients PROVE SessionOf(k) /\ Decided(k)
    BY DEF SessionInv
  <1>2. /\ done[k] = <<>> /\ down[k] = <<>> /\ client[k] = "none" /\ handler[k] = "none"
        /\ ~loggedIn[k]
    BY <1>1 DEF Init, LinkInit, MockInit
  <1>3. ~SaysSo(k)
    BY <1>2 DEF SaysSo, LoggedInBy
  <1>4. QED
    BY <1>2, <1>3 DEF SessionOf, Decided

(* What is said of the calls that have returned, while none returns. *)
LEMMA SaidSame ==
  ASSUME NEW k \in Clients, done'[k] = done[k]
  PROVE  SaysSo(k)' = SaysSo(k) /\ Decided(k)' = Decided(k)
  <1>1. \A n : LoggedInBy(k, n)' = LoggedInBy(k, n)
    BY DEF LoggedInBy
  <1>2. QED
    BY <1>1 DEF SaysSo, Decided, ResultFits

LEMMA SessionHushed ==
  ASSUME NEW k \in Clients, SessionOf(k), Decided(k), CallSame(k), down'[k] = down[k],
         loggedIn'[k] = loggedIn[k],
         handler'[k] = "await" =>
           handler[k] = "await" /\ (server[k] = "closed" => server'[k] = "closed")
  PROVE  SessionOf(k)' /\ Decided(k)'
  <1>1. SaysSo(k)' = SaysSo(k) /\ Decided(k)' = Decided(k)
    BY SaidSame DEF CallSame
  <1>2. QED
    BY <1>1 DEF SessionOf, CallSame

LEMMA SaidNext ==
  ASSUME Types, NEW k \in Clients, NEW op \in Operations, NEW res \in Returns, Return(k, op, res),
         Decided(k), ResultFits(k, Number(k), op, res)
  PROVE  /\ SaysSo(k)' <=> (SaysSo(k) \/ (op = "Login" /\ res = "ok"))
         /\ Decided(k)'
  <1>1. /\ DOMAIN done[k] = 1 .. Len(done[k]) /\ DOMAIN done'[k] = 1 .. Len(done[k]) + 1
        /\ \A n \in 1 .. Len(done[k]) : done'[k][n] = done[k][n]
        /\ done'[k][Len(done[k]) + 1] = [op |-> op, res |-> res]
        /\ Len(done'[k]) = Len(done[k]) + 1 /\ Len(done[k]) \in Nat
    BY ReturnEffect, TypesOfEach DEF TypesOf
  <1>2. \A n \in 0 .. Len(done[k]) : LoggedInBy(k, n)' <=> LoggedInBy(k, n)
    <2>1. SUFFICES ASSUME NEW n \in 0 .. Len(done[k])
                   PROVE  \A i \in 1 .. n : done'[k][i] = done[k][i]
      BY DEF LoggedInBy
    <2>2. 1 .. n \subseteq 1 .. Len(done[k])
      BY <1>1
    <2>3. QED
      BY <1>1, <2>2
  <1>3. SaysSo(k)' <=> (SaysSo(k) \/ (op = "Login" /\ res = "ok"))
    <2>1. SaysSo(k)' <=> \E i \in 1 .. Len(done[k]) + 1 : done'[k][i] = Granted
      BY <1>1 DEF SaysSo, LoggedInBy, Granted
    <2>2. 1 .. Len(done[k]) + 1 = (1 .. Len(done[k])) \cup {Len(done[k]) + 1}
      BY <1>1
    <2>3. SaysSo(k) <=> \E i \in 1 .. Len(done[k]) : done'[k][i] = Granted
      BY <1>1 DEF SaysSo, LoggedInBy, Granted
    <2>4. done'[k][Len(done[k]) + 1] = Granted <=> op = "Login" /\ res = "ok"
      BY <1>1 DEF Granted
    <2>5. QED
      BY <2>1, <2>2, <2>3, <2>4
  <1>4. ASSUME NEW n \in DOMAIN done'[k]
        PROVE  ResultFits(k, n, done[k][n].op, done[k][n].res)'
    <2>1. n - 1 \in 0 .. Len(done[k]) /\ (n \in 1 .. Len(done[k]) \/ n = Len(done[k]) + 1)
      BY <1>1
    <2>2. LoggedInBy(k, n - 1)' <=> LoggedInBy(k, n - 1)
      BY <1>2, <2>1
    <2>3. CASE n \in 1 .. Len(done[k])
      <3>1. done'[k][n] = done[k][n] /\ n \in DOMAIN done[k]
        BY <1>1, <2>3
      <3>2. ResultFits(k, n, done[k][n].op, done[k][n].res)
        BY <3>1 DEF Decided
      <3>3. QED
        BY <2>2, <3>1, <3>2 DEF ResultFits
    <2>4. CASE n = Len(done[k]) + 1
      <3>1. done'[k][n].op = op /\ done'[k][n].res = res /\ n = Number(k)
        BY <1>1, <2>4 DEF Number
      <3>2. QED
        BY <2>2, <3>1 DEF ResultFits
    <2>5. QED
      BY <2>1, <2>3, <2>4
  <1>5. QED
    BY <1>3, <1>4 DEF Decided

(* A call that returns. *)
LEMMA SessionReturned ==
  ASSUME Types, NEW k \in Clients, SessionOf(k), Decided(k),
         NEW op \in Operations, NEW res \in Returns, Return(k, op, res),
         down'[k] = <<>>, loggedIn' = loggedIn, client'[k] # "none",
         handler'[k] = "await" => handler[k] = "await" /\ server'[k] = "closed",
         op = "Login" /\ res = "ok" => loggedIn[k],
         loggedIn[k] /\ client'[k] = "open" => SaysSo(k) \/ (op = "Login" /\ res = "ok"),
         ResultFits(k, Number(k), op, res)
  PROVE  SessionOf(k)' /\ Decided(k)'
  <1>1. /\ SaysSo(k)' <=> (SaysSo(k) \/ (op = "Login" /\ res = "ok"))
        /\ Decided(k)'
    BY SaidNext
  <1>2. QED
    BY <1>1 DEF SessionOf

LEMMA AdapterSession ==
  ASSUME Types, FlowInv, NEW k \in Clients, SessionOf(k), Decided(k),
         AdapterStep(k), UNCHANGED mockVars
  PROVE  SessionOf(k)' /\ Decided(k)'
  <1>1. Shapes /\ TypesOf(k) /\ Flow(k)
    BY TypesAre, TypesOfEach DEF FlowInv
  <1>2. handler' = handler /\ loggedIn' = loggedIn
    BY DEF mockVars, handlerVars
  <1>3. ~Pending(k) => /\ down[k] = <<>> /\ (handler[k] = "await" => server[k] = "closed")
                       /\ loggedIn[k] /\ client[k] = "open" => SaysSo(k)
    BY <1>1 DEF Flow, Waits, SessionOf
  <1>4. ASSUME ~Pending(k), done'[k] = done[k], down'[k] = <<>>, server' = server,
               client[k] = "none" \/ client'[k] # "open" \/ client[k] = "open",
               client'[k] # "none"
        PROVE  SessionOf(k)' /\ Decided(k)'
    <2>1. SaysSo(k)' = SaysSo(k) /\ Decided(k)' = Decided(k)
      BY <1>4, SaidSame
    <2>2. QED
      BY <1>2, <1>3, <1>4, <2>1 DEF SessionOf
  <1>5. CASE Dial(k) \/ Close(k)
    BY <1>1, <1>3, <1>4, <1>5 DEF Dial, Close, Shapes, serverEnd, Flow
  <1>6. ASSUME NEW op \in Operations, NEW names \in 1 .. MaxNames, Submit(k, op, names)
        PROVE  SessionOf(k)' /\ Decided(k)'
    BY <1>3, <1>4, <1>6 DEF Submit, MayCall, serverEnd
  <1>7. ASSUME NEW op \in Operations, ReturnUnsent(k, op)
        PROVE  SessionOf(k)' /\ Decided(k)'
    <2>1. /\ ~Pending(k) /\ client' = client /\ client[k] # "none" /\ down' = down
          /\ server' = server /\ Return(k, op, Unsent[op]) /\ Unsent[op] \in Returns
          /\ op \notin DOMAIN QueryOf
      BY <1>7, QueryFacts DEF ReturnUnsent, MayCall, serverEnd
    <2>2. op # "Login"
      BY <2>1, QueryFacts
    <2>3. ResultFits(k, Number(k), op, Unsent[op])
      BY <2>1 DEF ResultFits
    <2>4. QED
      BY <1>2, <1>3, <2>1, <2>2, <2>3, SessionReturned
  <1>8. Answered(k) => /\ Pending(k) /\ Answer(k) = down[k][1].res /\ Tail(down[k]) = <<>>
                       /\ down[k] # <<>> /\ client[k] = "open" /\ Waits(k)
                       /\ handler[k] = "await" => server[k] = "closed"
                       /\ (call[k].left # 1 => call[k].op \in Checks)
    BY <1>1, AnswerThere DEF Answered, Flow
  <1>9. TakeAnswer(k) /\ Tail(down[k]) = <<>> => down'[k] = <<>>
    BY <1>1 DEF TakeAnswer, Shapes
  <1>10. CASE NextName(k) \/ AwaitEof(k)
    <2>1. /\ Answered(k) /\ TakeAnswer(k) /\ client' = client /\ done' = done /\ server' = server
          /\ call[k].op # "Login" /\ call'[k].op = call[k].op
      <3>1. CASE NextName(k)
        <4>1. Answered(k) /\ call[k].left > 1
          BY <3>1 DEF NextName, GoesOn
        <4>2. call[k].op \in Checks
          BY <1>8, <4>1, PendingOperation DEF Call
        <4>3. call[k].op # "Login"
          BY <4>2 DEF Checks
        <4>4. call[k] \in Call
          BY <1>8, <4>1, PendingOperation
        <4>5. QED
          BY <1>1, <3>1, <4>1, <4>3, <4>4 DEF NextName, serverEnd, Shapes, Call
      <3>2. CASE AwaitEof(k)
        <4>1. call[k] \in Call
          BY <1>8, <3>2, PendingOperation DEF AwaitEof
        <4>2. QED
          BY <1>1, <3>2, <4>1 DEF AwaitEof, serverEnd, Shapes, Call
      <3>3. QED
        BY <1>10, <3>1, <3>2
    <2>2. down'[k] = <<>>
      BY <1>8, <1>9, <2>1
    <2>3. SaysSo(k)' = SaysSo(k) /\ Decided(k)' = Decided(k)
      BY <2>1, SaidSame
    <2>4. QED
      BY <1>2, <1>8, <2>1, <2>2, <2>3 DEF SessionOf
  (* What the answer says, and what the call then returns. *)
  <1>11. Answered(k) /\ call[k].op # "Login" =>
           (Answer(k) = "auth" <=> ~SaysSo(k)) /\ (loggedIn[k] => SaysSo(k))
    BY <1>8 DEF SessionOf
  <1>12. Answered(k) /\ call[k].op = "Login" =>
           /\ Answer(k) \in {"success", "auth"} /\ (Answer(k) = "success" => loggedIn[k])
           /\ loggedIn[k] => SaysSo(k) \/ Answer(k) = "success"
    BY <1>8 DEF SessionOf
  <1>13. LoggedInBy(k, Number(k) - 1) = SaysSo(k)
    <2>1. Number(k) - 1 = Len(done[k])
      BY <1>1 DEF Number, TypesOf
    <2>2. QED
      BY <2>1 DEF SaysSo
  <1>14. ASSUME NEW res, AnswerReturned(k, res), client'[k] # "none",
                call[k].op = "Login" => (res = "ok" <=> Answer(k) = "success"),
                call[k].op \notin {"Login", "Logout"} =>
                  IF SaysSo(k) THEN res # "2201"
                               ELSE res \in {"1300", "2201", "failed", "notfound"}
         PROVE  SessionOf(k)' /\ Decided(k)'
    <2>1. /\ Answered(k) /\ TakeAnswer(k) /\ res \in Returns /\ Return(k, call[k].op, res)
          /\ server' = server
      BY <1>14 DEF AnswerReturned
    <2>2. call[k].op \in Operations /\ down'[k] = <<>>
      BY <1>8, <1>9, <2>1, PendingOperation
    <2>3. ResultFits(k, Number(k), call[k].op, res)
      BY <1>13, <1>14 DEF ResultFits
    <2>4. call[k].op = "Login" /\ res = "ok" => loggedIn[k]
      BY <1>12, <1>14, <2>1
    <2>5. loggedIn[k] /\ client'[k] = "open" => SaysSo(k) \/ (call[k].op = "Login" /\ res = "ok")
      BY <1>11, <1>12, <1>14, <2>1
    <2>6. handler'[k] = "await" => handler[k] = "await" /\ server'[k] = "closed"
      BY <1>2, <1>8, <2>1
    <2>7. QED
      BY <1>2, <1>14, <2>1, <2>2, <2>3, <2>4, <2>5, <2>6, SessionReturned
  <1>15. CASE ReturnSuccess(k)
    <2>1. /\ AnswerReturned(k, "ok") /\ client' = client /\ Answered(k) /\ Answer(k) = "success"
          /\ call[k].op # "Logout"
      BY <1>15, ReturnsAnswer DEF ReturnSuccess
    <2>2. call[k].op # "Login" => SaysSo(k)
      BY <1>11, <2>1
    <2>3. QED
      BY <1>8, <1>14, <2>1, <2>2
  <1>16. CASE RejectName(k)
    <2> DEFINE r == IF call[k].op = "CheckDomain" THEN "2005" ELSE "failed"
    <2>1. /\ AnswerReturned(k, r) /\ client' = client /\ GoesOn(k) /\ Answered(k)
          /\ call[k].left > 1
      BY <1>16, ReturnsAnswer DEF RejectName, GoesOn
    <2>2. call[k].op \in Checks
      BY <1>8, <2>1, PendingOperation DEF Call
    <2>3. call[k].op = "CheckDomain" => SaysSo(k)
      BY <1>11, <2>1 DEF GoesOn
    <2>4. call[k].op # "Login" /\ call[k].op # "Logout"
      BY <2>2 DEF Checks
    <2>5. IF SaysSo(k) THEN r # "2201" ELSE r \in {"1300", "2201", "failed", "notfound"}
      BY <2>3
    <2>6. QED
      BY <1>8, <1>14, <2>1, <2>4, <2>5
  <1>17. CASE RejectFrame(k)
    <2>1. /\ AnswerReturned(k, "failed") /\ client'[k] # "none" /\ Answered(k)
          /\ Answer(k) = "malformed"
      BY <1>1, <1>17, ReturnsAnswer DEF RejectFrame, Shapes
    <2>2. QED
      BY <1>14, <2>1
  <1>18. CASE ReturnFailure(k)
    <2>1. /\ Answered(k) /\ Answer(k) \in DOMAIN EPPCode /\ client' = client
          /\ \/ AnswerReturned(k, ErrorOf(call[k].op, Answer(k)))
             \/ call[k].op = "Logout" /\ AnswerReturned(k, "ok")
      BY <1>18, ReturnsAnswer DEF ReturnFailure
    <2>2. Answer(k) # "success"
      BY <2>1, QueryFacts
    <2>3. CASE call[k].op = "Logout" /\ AnswerReturned(k, "ok")
      BY <1>8, <1>14, <2>1, <2>3
    <2>4. CASE AnswerReturned(k, ErrorOf(call[k].op, Answer(k)))
      <3> DEFINE e == ErrorOf(call[k].op, Answer(k))
      <3>1. /\ e # "ok" /\ (e = "2201" => Answer(k) = "auth")
            /\ (Answer(k) = "auth" => e \in {"1300", "2201", "failed", "notfound"})
        BY <1>8, <2>1, PendingOperation, ErrorFacts
      <3>2. call[k].op # "Login" =>
              IF SaysSo(k) THEN e # "2201" ELSE e \in {"1300", "2201", "failed", "notfound"}
        BY <1>11, <2>1, <3>1
      <3>3. client'[k] # "none"
        BY <1>8, <2>1
      <3> HIDE DEF e
      <3>4. AnswerReturned(k, e)
        BY <2>4 DEF e
      <3>5. QED
        BY <1>14, <2>2, <3>1, <3>2, <3>3, <3>4
    <2>5. QED
      BY <2>1, <2>3, <2>4
  <1>19. CASE Lose(k)
    <2>1. /\ Pending(k) /\ Return(k, call[k].op, LossOf(k)) /\ client'[k] = "lost"
          /\ down'[k] = <<>> /\ server' = server
          /\ LossOf(k) \in Returns /\ LossOf(k) \in {"ok", "failed"}
          /\ (LossOf(k) = "ok" => call[k].awaits = "eof")
      BY <1>1, <1>19 DEF Lose, Shapes, serverEnd, LossOf, Returns
    <2>2. call[k].op \in Operations /\ (LossOf(k) = "ok" => call[k].op = "Logout")
      BY <1>1, <2>1, PendingOperation DEF Flow
    <2>3. ResultFits(k, Number(k), call[k].op, LossOf(k))
      BY <2>1, <2>2 DEF ResultFits
    <2>4. handler[k] = "await" => server[k] = "closed"
      BY <1>1, <1>19 DEF Lose, Flow
    <2>5. QED
      BY <1>2, <2>1, <2>2, <2>3, <2>4, SessionReturned
  <1>20. QED
    BY <1>5, <1>6, <1>7, <1>10, <1>15, <1>16, <1>17, <1>18, <1>19 DEF AdapterStep, Progress

LEMMA SessionElsewhere ==
  ASSUME NEW q \in Clients, SessionOf(q), Decided(q), CallSame(q), LinesSame(q), Hushed(q),
         loggedIn'[q] = loggedIn[q], handler'[q] = "await" => handler[q] = "await"
  PROVE  SessionOf(q)' /\ Decided(q)'
  BY SessionHushed DEF LinesSame, Hushed

(* The mock answers a query of the adapter that waits. *)
LEMMA SessionAnswered ==
  ASSUME NEW k \in Clients, SessionOf(k), Decided(k), CallSame(k), client[k] = "open", NEW res,
         Len(down'[k]) = 1, down'[k][1].res = res, down'[k] # <<>>, down[k] = <<>>,
         handler'[k] # "await", loggedIn[k] => loggedIn'[k],
         loggedIn'[k] => loggedIn[k] \/ (call[k].op = "Login" /\ res = "success"),
         call[k].op = "Login" => res \in {"success", "auth"} /\ (res = "success" => loggedIn'[k]),
         call[k].op # "Login" => (res = "auth" <=> ~loggedIn[k])
  PROVE  SessionOf(k)' /\ Decided(k)'
  <1>1. SaysSo(k)' = SaysSo(k) /\ Decided(k)' = Decided(k)
    BY SaidSame DEF CallSame
  <1>2. loggedIn[k] <=> SaysSo(k)
    BY DEF SessionOf
  <1>3. QED
    BY <1>1, <1>2 DEF SessionOf, CallSame

LEMMA HandlerSession ==
  ASSUME Types, FlowInv, "auth" \notin Items, NEW k \in Clients, HandlerStep(k),
         \A q \in Clients : SessionOf(q) /\ Decided(q)
  PROVE  \A q \in Clients : SessionOf(q)' /\ Decided(q)'
  <1>1. Shapes /\ MockTypeOK /\ TypesOf(k) /\ Flow(k) /\ SessionOf(k) /\ Decided(k)
    BY TypesAre, TypesOfEach DEF FlowInv
  <1>2. \A q \in Clients : CallSame(q)
    <2>1. UNCHANGED clientVars
      BY ServerStep DEF MockStep
    <2>2. QED
      BY <2>1 DEF CallSame, clientVars
  <1>3. \A q \in Clients \ {k} :
          down'[q] = down[q] /\ loggedIn'[q] = loggedIn[q] /\ handler'[q] = handler[q]
          /\ server'[q] = server[q]
    <2>1. CASE RefuseBeforeLogin(k) \/ LoginSucceeds(k) \/ LoginFails(k)
      BY <1>1, <2>1
      DEF RefuseBeforeLogin, LoginSucceeds, LoginFails, Reply, Write, Shapes, MockTypeOK
    <2>2. CASE AwaitScript(k)
      BY <1>1, <2>2 DEF AwaitScript, Goto, serverEnd, MockTypeOK
    <2>3. CASE DispatchFails(k) \/ StopWaiting(k) \/ GiveUp(k)
      BY <1>1, <2>3
      DEF DispatchFails, StopWaiting, GiveUp, Leave, Goto, CloseEnd, Shapes, MockTypeOK
    <2>4. ASSUME NEW item \in Items, Dispatch(k, item)
          PROVE  \A q \in Clients \ {k} :
                   down'[q] = down[q] /\ loggedIn'[q] = loggedIn[q]
                   /\ handler'[q] = handler[q] /\ server'[q] = server[q]
      <3>1. down' = [down EXCEPT ![k] = down'[k]] /\ loggedIn' = loggedIn
        BY <1>1, <2>4 DEF Dispatch, Write, Shapes
      <3>2. \A q \in Clients \ {k} : handler'[q] = handler[q] /\ server'[q] = server[q]
        BY <1>1, <2>4 DEF Dispatch, Leave, Goto, CloseEnd, Shapes, MockTypeOK
      <3>3. QED
        BY <1>1, <3>1, <3>2 DEF Shapes
    <2>5. QED
      BY <2>1, <2>2, <2>3, <2>4 DEF HandlerStep
  <1>4. \A q \in Clients \ {k} : SessionOf(q)' /\ Decided(q)'
    BY <1>2, <1>3, SessionHushed
  <1>5. SUFFICES SessionOf(k)' /\ Decided(k)'
    BY <1>4
  <1>6. CASE DispatchFails(k) \/ StopWaiting(k) \/ GiveUp(k)
    <2>1. handler'[k] # "await" /\ down'[k] = down[k] /\ loggedIn'[k] = loggedIn[k]
      BY <1>1, <1>6 DEF DispatchFails, StopWaiting, GiveUp, Leave, Goto, MockTypeOK
    <2>2. QED
      BY <1>1, <1>2, <2>1, SessionHushed
  <1>7. ASSUME NEW m, NEW res, Write(k, m, res), down[k] = <<>>
        PROVE  Len(down'[k]) = 1 /\ down'[k][1].res = res /\ down'[k] # <<>>
    <2> DEFINE r == [res |-> res, call |-> m.call]
    <2>1. down'[k] = <<r>>
      BY <1>1, <1>7, First DEF Write, Shapes
    <2>2. QED
      BY <2>1, First
  <1>8. ASSUME Reads(k), NEW res \in Answers, Reply(k, res)
        PROVE  /\ Query(k) = QueryOf[call[k].op] /\ client[k] = "open" /\ down[k] = <<>>
               /\ Len(down'[k]) = 1 /\ down'[k][1].res = res /\ down'[k] # <<>>
               /\ handler'[k] # "await" /\ call[k].op \in DOMAIN QueryOf
    <2>1. HasQuery(k) /\ handler[k] = "read" /\ Write(k, Head(up[k]), res) /\ handler' = handler
      BY <1>8 DEF Reads, Reply
    <2>2. Query(k) = QueryOf[call[k].op] /\ client[k] = "open" /\ down[k] = <<>> /\ Pending(k)
      BY <1>1, <2>1, QueryThere DEF Waits
    <2>3. QED
      BY <1>7, <2>1, <2>2, PendingOperation
  <1>9. /\ QueryOf["Login"] = "LOGIN"
        /\ \A op \in DOMAIN QueryOf : QueryOf[op] = "LOGIN" => op = "Login"
    BY DEF QueryOf
  <1>10. CASE RefuseBeforeLogin(k)
    <2>1. /\ Reads(k) /\ ~loggedIn[k] /\ Query(k) # "LOGIN" /\ Reply(k, "auth")
          /\ loggedIn' = loggedIn
      BY <1>10 DEF RefuseBeforeLogin
    <2>2. call[k].op # "Login"
      BY <1>8, <1>9, <2>1 DEF Answers
    <2>3. QED
      BY <1>1, <1>2, <1>8, <2>1, <2>2, SessionAnswered DEF Answers
  <1>11. CASE LoginSucceeds(k)
    <2>1. /\ Reads(k) /\ Query(k) = "LOGIN" /\ Reply(k, "success") /\ loggedIn'[k] = TRUE
      BY <1>1, <1>11 DEF LoginSucceeds, MockTypeOK
    <2>2. call[k].op = "Login"
      BY <1>8, <1>9, <2>1 DEF Answers
    <2>3. QED
      BY <1>1, <1>2, <1>8, <2>1, <2>2, SessionAnswered DEF Answers
  <1>12. CASE LoginFails(k)
    <2>1. /\ Reads(k) /\ Query(k) = "LOGIN" /\ Reply(k, "auth") /\ loggedIn' = loggedIn
      BY <1>12 DEF LoginFails
    <2>2. call[k].op = "Login"
      BY <1>8, <1>9, <2>1 DEF Answers
    <2>3. QED
      BY <1>1, <1>2, <1>8, <2>1, <2>2, SessionAnswered DEF Answers
  <1>13. CASE AwaitScript(k)
    <2>1. /\ HasQuery(k) /\ loggedIn[k] /\ Query(k) # "LOGIN" /\ down' = down
          /\ loggedIn' = loggedIn
      BY <1>13 DEF AwaitScript, Reads
    <2>2. call[k].op # "Login"
      BY <1>1, <1>9, <2>1, QueryThere
    <2>3. SaysSo(k)' = SaysSo(k) /\ Decided(k)' = Decided(k)
      BY <1>2, SaidSame DEF CallSame
    <2>4. QED
      BY <1>1, <1>2, <2>1, <2>2, <2>3 DEF SessionOf, CallSame
  <1>14. ASSUME NEW item \in Items, Dispatch(k, item)
         PROVE  SessionOf(k)' /\ Decided(k)'
    <2>1. /\ handler[k] = "await" /\ server[k] = "open" /\ Write(k, held[k], item)
          /\ loggedIn' = loggedIn /\ handler'[k] # "await"
      BY <1>1, <1>14 DEF Dispatch, TakesScript, Leave, Goto, MockTypeOK
    <2>2. client[k] = "open" /\ down[k] = <<>>
      BY <1>1, <2>1 DEF Flow
    <2>3. loggedIn[k] /\ call[k].op # "Login"
      BY <1>1, <2>1 DEF SessionOf
    <2>4. Len(down'[k]) = 1 /\ down'[k][1].res = item /\ down'[k] # <<>>
      BY <1>7, <2>1, <2>2
    <2>5. item # "auth"
      BY <1>14
    <2>6. QED
      BY <1>1, <1>2, <2>1, <2>2, <2>3, <2>4, <2>5, SessionAnswered
  <1>15. QED
    BY <1>6, <1>10, <1>11, <1>12, <1>13, <1>14 DEF HandlerStep

LEMMA MockSession ==
  ASSUME Types, FlowInv, "auth" \notin Items, MockStep,
         \A q \in Clients : SessionOf(q) /\ Decided(q)
  PROVE  \A q \in Clients : SessionOf(q)' /\ Decided(q)'
  <1>1. Shapes /\ MockTypeOK
    BY TypesAre
  <1>2. \A q \in Clients : CallSame(q)
    <2>1. UNCHANGED clientVars
      BY ServerStep
    <2>2. QED
      BY <2>1 DEF CallSame, clientVars
  <1>3. ASSUME NEW k \in Clients, Accept(k)
        PROVE  \A q \in Clients : SessionOf(q)' /\ Decided(q)'
    <2>1. \A q \in Clients :
            /\ down'[q] = down[q] /\ loggedIn'[q] = loggedIn[q]
            /\ handler'[q] = "await" =>
                 handler[q] = "await" /\ (server[q] = "closed" => server'[q] = "closed")
      BY <1>1, <1>3 DEF Accept, Goto, Shapes, MockTypeOK
    <2>2. QED
      BY <1>2, <2>1, SessionHushed
  <1>4. CASE Script \/ DropConnection \/ Cancel \/ WaitReturns
    <2>1. \A q \in Clients :
            /\ down'[q] = down[q] /\ loggedIn'[q] = loggedIn[q] /\ handler'[q] = handler[q]
            /\ server[q] = "closed" => server'[q] = "closed"
      BY <1>1, <1>4
      DEF Script, DropConnection, Cancel, WaitReturns, CloseEnd, Shapes, linkVars, serverEnd,
          mockVars, handlerVars
    <2>2. QED
      BY <1>2, <2>1, SessionHushed
  <1>5. QED
    BY <1>3, <1>4, HandlerSession DEF MockStep

LEMMA SessionStep ==
  ASSUME "auth" \notin Items
  PROVE  Types /\ FlowInv /\ SessionInv /\ [Next]_vars => SessionInv'
  <1>1. SUFFICES ASSUME Types, FlowInv, SessionInv, [Next]_vars, backend' = "mock"
                 PROVE  \A q \in Clients : SessionOf(q)' /\ Decided(q)'
    BY DEF SessionInv
  <1>2. backend = "mock"
    BY <1>1 DEF Next, vars
  <1>3. \A q \in Clients : SessionOf(q) /\ Decided(q)
    BY <1>1, <1>2 DEF SessionInv
  <1>4. CASE UNCHANGED vars
    BY <1>3, <1>4, SessionHushed
    DEF vars, linkVars, clientVars, serverEnd, mockVars, handlerVars, CallSame
  <1>5. ASSUME NEW k \in Clients, AdapterStep(k), UNCHANGED mockVars
        PROVE  \A q \in Clients : SessionOf(q)' /\ Decided(q)'
    <2>1. SessionOf(k)' /\ Decided(k)'
      BY <1>1, <1>3, <1>5, AdapterSession
    <2>2. \A q \in Clients \ {k} : CallSame(q) /\ LinesSame(q) /\ Hushed(q)
      BY <1>1, <1>5, AdapterElsewhere
    <2>3. loggedIn' = loggedIn /\ handler' = handler
      BY <1>5 DEF mockVars, handlerVars
    <2>4. QED
      BY <1>3, <2>1, <2>2, <2>3, SessionElsewhere
  <1>6. QED
    BY <1>1, <1>2, <1>3, <1>4, <1>5, MockSession DEF Next

(* Against the scripted mock the Logins that returned nil decide what the later
   calls may return, for any number of adapters and any script in which the test
   does not put an authentication error of its own.                             *)
THEOREM LoginsDecide ==
  ASSUME "auth" \notin Items
  PROVE  Spec => []LoginDecides
  <1>1. SessionInv => LoginDecides
    BY DEF SessionInv, Decided, ResultFits, LoginDecides
  <1>2. Types /\ FlowInv /\ SessionInv /\ [Next]_vars => SessionInv'
    BY SessionStep
  <1>3. QED
    BY <1>1, <1>2, SessionInit, TypesHold, FlowHolds, PTL DEF Spec

-----------------------------------------------------------------------------
(* Counting in a history. *)
Places(s, R) == {i \in DOMAIN s : s[i] \in R}

LEMMA PlacesFinite ==
  ASSUME NEW S, NEW s \in Seq(S), NEW R
  PROVE  /\ IsFiniteSet(Places(s, R)) /\ Cardinality(Places(s, R)) \in Nat
         /\ Places(s, R) = {} => Cardinality(Places(s, R)) = 0
         /\ Places(s, R) # {} => Cardinality(Places(s, R)) > 0
  <1>1. IsFiniteSet(DOMAIN s)
    <2>1. DOMAIN s = 1 .. Len(s) /\ Len(s) \in Nat
      BY LenProperties
    <2>2. QED
      BY <2>1, FS_Interval
  <1>2. Places(s, R) \subseteq DOMAIN s
    BY DEF Places
  <1>3. IsFiniteSet(Places(s, R))
    BY <1>1, <1>2, FS_Subset
  <1>4. QED
    BY <1>3, FS_CardinalityType, FS_EmptySet

LEMMA PlacesGrow ==
  ASSUME NEW S, NEW s \in Seq(S), NEW a \in S, NEW R
  PROVE  /\ a \notin R => Places(Append(s, a), R) = Places(s, R)
         /\ a \in R => Cardinality(Places(Append(s, a), R)) = Cardinality(Places(s, R)) + 1
  <1> DEFINE t == Append(s, a)
             n == Len(s)
  <1>1. /\ n \in Nat /\ DOMAIN s = 1 .. n /\ DOMAIN t = 1 .. n + 1 /\ t[n + 1] = a
        /\ \A i \in 1 .. n : t[i] = s[i]
    <2>1. /\ t \in Seq(S) /\ Len(t) = n + 1 /\ t[n + 1] = a
          /\ \A i \in 1 .. n : t[i] = s[i]
      BY AppendProperties
    <2>2. QED
      BY <2>1, LenProperties
  <1> HIDE DEF t, n
  <1>2. a \notin R => Places(t, R) = Places(s, R)
    BY <1>1 DEF Places
  <1>3. a \in R => Places(t, R) = Places(s, R) \cup {n + 1} /\ n + 1 \notin Places(s, R)
    BY <1>1 DEF Places
  <1>4. IsFiniteSet(Places(s, R))
    BY PlacesFinite
  <1>5. a \in R => Cardinality(Places(t, R)) = Cardinality(Places(s, R)) + 1
    BY <1>3, <1>4, FS_AddElement
  <1>6. QED
    BY <1>2, <1>5 DEF t

-----------------------------------------------------------------------------
(* A server that writes answers the query the adapter waits on. *)
AnswersOne(k, res) == Waits(k) /\ down[k] = <<>> /\ Write(k, Asked(k), res)

LEMMA ServerAnswers ==
  ASSUME Types, FlowInv, MockStep \/ ShutDown \/ \E k \in Clients : ConnStep(k)
  PROVE  /\ UNCHANGED clientVars
         /\ \/ answers' = answers /\ down' = down
            \/ \E k \in Clients : \E res \in Answers : AnswersOne(k, res)
  <1>1. UNCHANGED clientVars /\ \A k \in Clients : Flow(k)
    BY ServerStep DEF FlowInv
  <1>2. {"success", "auth", "other"} \subseteq Answers
    BY DEF Answers
  <1>3. ASSUME NEW k \in Clients, HasQuery(k), NEW res \in Answers, Write(k, Head(up[k]), res)
        PROVE  AnswersOne(k, res)
    BY <1>1, <1>3, QueryThere DEF AnswersOne
  <1>4. ASSUME NEW k \in Clients, ConnStep(k)
        PROVE  \/ answers' = answers /\ down' = down
               \/ \E res \in Answers : AnswersOne(k, res)
    <2>1. CASE AcceptConn(k) \/ HangLogin(k) \/ DisconnectLogin(k) \/ DisconnectQuery(k) \/ HangUp(k)
      BY <2>1 DEF AcceptConn, HangLogin, DisconnectLogin, DisconnectQuery, HangUp, serverEnd
    <2>2. CASE AllowLogin(k) \/ DenyLogin(k) \/ LogoutQuery(k) \/ AnswerQuery(k)
      BY <1>2, <1>3, <2>2
      DEF AllowLogin, DenyLogin, LogoutQuery, AnswerQuery, LoginQuery, OtherQuery, Respond
    <2>3. QED
      BY <1>4, <2>1, <2>2 DEF ConnStep
  <1>5. ASSUME NEW k \in Clients, HandlerStep(k)
        PROVE  \/ answers' = answers /\ down' = down
               \/ \E res \in Answers : AnswersOne(k, res)
    <2>1. CASE AwaitScript(k) \/ DispatchFails(k) \/ StopWaiting(k) \/ GiveUp(k)
      BY <2>1 DEF AwaitScript, DispatchFails, StopWaiting, GiveUp, serverEnd
    <2>2. CASE RefuseBeforeLogin(k) \/ LoginSucceeds(k) \/ LoginFails(k)
      BY <1>2, <1>3, <2>2 DEF RefuseBeforeLogin, LoginSucceeds, LoginFails, Reads, Reply
    <2>3. ASSUME NEW item \in Items, Dispatch(k, item)
          PROVE  AnswersOne(k, item) /\ item \in Answers
      <3>1. /\ handler[k] = "await" /\ server[k] = "open" /\ Write(k, held[k], item)
            /\ item \in Answers
        BY <2>3, ScriptAssumption DEF Dispatch, TakesScript
      <3>2. Waits(k) /\ down[k] = <<>> /\ held[k] = Asked(k)
        BY <1>1, <3>1 DEF Flow
      <3>3. QED
        BY <3>1, <3>2 DEF AnswersOne
    <2>4. QED
      BY <1>5, <2>1, <2>2, <2>3 DEF HandlerStep
  <1>6. ASSUME \/ \E k \in Clients : Accept(k)
               \/ Script \/ DropConnection \/ Cancel \/ WaitReturns \/ ShutDown
        PROVE  answers' = answers /\ down' = down
    BY <1>6
    DEF Accept, Script, DropConnection, Cancel, WaitReturns, ShutDown, linkVars, serverEnd
  <1>7. QED
    BY <1>1, <1>4, <1>5, <1>6 DEF MockStep

-----------------------------------------------------------------------------
(* What has been answered on a connection was asked by a call that has begun;
   a Create that is pending was answered at most by what is on its way.        *)
OnceOf(k) ==
  \A i \in DOMAIN answers[k] :
    /\ answers[k][i].call <= Number(k)
    /\ answers[k][i].call = Number(k) =>
         /\ Pending(k)
         /\ call[k].op = "Create" => down[k] # <<>> /\ down[k][1].res = answers[k][i].res

OnceInv == \A k \in Clients : OnceOf(k)

LEMMA OnceInit == Init => OnceInv
  <1>1. SUFFICES ASSUME Init, NEW k \in Clients PROVE OnceOf(k)
    BY DEF OnceInv
  <1>2. answers[k] = <<>>
    BY <1>1 DEF Init, LinkInit
  <1>3. QED
    BY <1>2 DEF OnceOf

(* The record that an answer leaves. *)
LEMMA AnswerEffect ==
  ASSUME Types, NEW k \in Clients, NEW res \in Answers, AnswersOne(k, res), NEW a,
         a = [res |-> res, query |-> QueryOf[call[k].op], call |-> Number(k)]
  PROVE  /\ a \in Record /\ answers[k] \in Seq(Record) /\ answers'[k] = Append(answers[k], a)
         /\ down'[k] # <<>> /\ down'[k][1].res = res
         /\ \A q \in Clients \ {k} : answers'[q] = answers[q] /\ down'[q] = down[q]
  <1> DEFINE r == [res |-> res, call |-> Number(k)]
  <1>1. Shapes /\ TypesOf(k) /\ Waits(k) /\ down[k] = <<>> /\ Write(k, Asked(k), res)
    BY TypesAre, TypesOfEach DEF AnswersOne
  <1>2. /\ Asked(k).query = QueryOf[call[k].op] /\ Asked(k).call = Number(k)
        /\ QueryOf[call[k].op] \in Queries /\ Number(k) \in Nat
    BY <1>1, PendingOperation, QueryFacts DEF Asked, Waits, TypesOf, Number
  <1>3. a \in Record /\ answers[k] \in Seq(Record)
    BY <1>1, <1>2 DEF Record, TypesOf
  <1>4. answers'[k] = Append(answers[k], a) /\ down'[k] = Append(down[k], r)
    BY <1>1, <1>2 DEF Write, Shapes
  <1>5. down'[k] # <<>> /\ down'[k][1].res = res
    <2>1. down'[k] = <<r>>
      BY <1>1, <1>4, First
    <2>2. QED
      BY <2>1, First
  <1>6. QED
    BY <1>1, <1>3, <1>4, <1>5, WrittenElsewhere

LEMMA AnswerOnce ==
  ASSUME Types, NEW k \in Clients, NEW res \in Answers, OnceOf(k), AnswersOne(k, res),
         UNCHANGED clientVars
  PROVE  OnceOf(k)'
  <1> DEFINE a == [res |-> res, query |-> QueryOf[call[k].op], call |-> Number(k)]
  <1>1. /\ a \in Record /\ answers[k] \in Seq(Record) /\ answers'[k] = Append(answers[k], a)
        /\ down'[k] # <<>> /\ down'[k][1].res = res
    BY AnswerEffect
  <1>2. Pending(k)' = Pending(k) /\ Number(k)' = Number(k) /\ call'[k] = call[k]
    BY DEF clientVars, Pending, Number
  <1>3. Pending(k) /\ down[k] = <<>> /\ a.call = Number(k) /\ a.res = res /\ Number(k) \in Nat
    BY TypesOfEach DEF AnswersOne, Waits, TypesOf, Number
  <1> HIDE DEF a
  <1>4. ASSUME NEW i \in DOMAIN answers'[k]
        PROVE  \/ i \in DOMAIN answers[k] /\ answers'[k][i] = answers[k][i]
               \/ answers'[k][i] = a
    BY <1>1
  <1>5. ASSUME NEW i \in DOMAIN answers[k]
        PROVE  /\ answers[k][i].call <= Number(k)
               /\ call[k].op = "Create" => answers[k][i].call # Number(k)
    BY <1>3 DEF OnceOf
  <1>6. QED
    BY <1>1, <1>2, <1>3, <1>4, <1>5 DEF OnceOf

(* A call that returns leaves no answer to the next one. *)
LEMMA ReturnOnce ==
  ASSUME Types, NEW k \in Clients, NEW op \in Operations, NEW res \in Returns, Return(k, op, res),
         answers' = answers, OnceOf(k)
  PROVE  OnceOf(k)'
  <1>1. Number(k)' = Number(k) + 1 /\ Number(k) \in Nat
    <2>1. Len(done[k]) \in Nat /\ Len(done'[k]) = Len(done[k]) + 1
      BY ReturnEffect, TypesOfEach DEF TypesOf
    <2>2. QED
      BY <2>1 DEF Number
  <1>2. ASSUME NEW i \in DOMAIN answers[k]
        PROVE  answers[k][i].call <= Number(k) /\ answers[k][i].call \in Nat
    <2>1. answers[k] \in Seq(Record)
      BY TypesOfEach DEF TypesOf
    <2>2. answers[k][i] \in Record
      BY <2>1
    <2>3. QED
      BY <2>2 DEF OnceOf, Record
  <1>3. QED
    BY <1>1, <1>2 DEF OnceOf

LEMMA OnceKept ==
  ASSUME NEW q \in Clients, OnceOf(q), CallSame(q), answers'[q] = answers[q], down'[q] = down[q]
  PROVE  OnceOf(q)'
  BY DEF OnceOf, CallSame, Pending, Number

(* A Create returns what it was answered, or an error that tells nothing. *)
ToldByAnswer(k, res) == res = "failed" \/ (res = "ok" <=> down[k][1].res = "success")

(* What an adapter may do: begin a call, go on with it, or return from one. *)
LEMMA AdapterMoves ==
  ASSUME Types, FlowInv, NEW k \in Clients, AdapterStep(k)
  PROVE  /\ answers' = answers
         /\ \/ call'[k] = call[k] /\ done'[k] = done[k] /\ down'[k] = down[k]
            \/ \E op \in DOMAIN QueryOf :
                 /\ ~Pending(k) /\ Pending(k)' /\ call'[k].op = op /\ done'[k] = done[k]
                 /\ Number(k) <= Len(plan[k])
            \/ /\ Pending(k) /\ Pending(k)' /\ call'[k].op = call[k].op /\ done'[k] = done[k]
               /\ call[k].op # "Create"
            \/ \E op \in DOMAIN Unsent :
                 ~Pending(k) /\ Unsent[op] \in Returns /\ Return(k, op, Unsent[op])
            \/ /\ Pending(k) /\ down[k] # <<>>
               /\ \E res \in Returns :
                    /\ AnswerReturned(k, res)
                    /\ call[k].op = "Create" => ToldByAnswer(k, res)
            \/ Pending(k) /\ \E res \in {"ok", "failed"} :
                 /\ Return(k, call[k].op, res)
                 /\ call[k].op = "Create" => res = "failed"
  <1>1. Shapes /\ Flow(k)
    BY TypesAre DEF FlowInv
  <1>2. answers' = answers
    BY DEF AdapterStep, Dial, Close, Progress, ReturnUnsent, Submit, NextName, RejectName,
           ReturnSuccess, AwaitEof, ReturnFailure, RejectFrame, Lose, serverEnd
  <1>3. CASE Dial(k) \/ Close(k)
    BY <1>2, <1>3 DEF Dial, Close
  <1>4. ASSUME NEW op \in Operations, ReturnUnsent(k, op)
        PROVE  ~Pending(k) /\ op \in DOMAIN Unsent /\ Unsent[op] \in Returns /\ Return(k, op, Unsent[op])
    BY <1>4, QueryFacts DEF ReturnUnsent, MayCall
  <1>5. ASSUME NEW op \in Operations, NEW names \in 1 .. MaxNames, Submit(k, op, names)
        PROVE  /\ op \in DOMAIN QueryOf /\ ~Pending(k) /\ Pending(k)' /\ call'[k].op = op
               /\ done'[k] = done[k] /\ Number(k) <= Len(plan[k])
    <2>1. /\ call'[k] = [op |-> op, left |-> names, awaits |-> "answer"]
          /\ op \in DOMAIN QueryOf /\ ~Pending(k) /\ done' = done /\ Number(k) <= Len(plan[k])
      BY <1>1, <1>5 DEF Submit, MayCall, Shapes
    <2>2. Pending(k)'
      BY <2>1 DEF Pending, Idle
    <2>3. QED
      BY <2>1, <2>2
  <1>6. CASE NextName(k) \/ AwaitEof(k)
    <2>1. /\ Answered(k) /\ Pending(k) /\ done' = done /\ call[k] \in Call
          /\ call[k].op \in DOMAIN QueryOf
      BY <1>6, PendingOperation DEF NextName, GoesOn, AwaitEof, Answered
    <2>2. call'[k].op = call[k].op
      BY <1>1, <1>6, <2>1 DEF NextName, AwaitEof, Shapes, Call
    <2>3. call[k].op # "Create"
      <3>1. call[k].left > 1 /\ call[k].left \in Nat => call[k].left # 1
        OBVIOUS
      <3>2. "Create" \notin Checks /\ call[k].left \in Nat
        BY <2>1 DEF Checks, Call
      <3>3. QED
        BY <1>1, <1>6, <2>1, <3>1, <3>2 DEF NextName, GoesOn, AwaitEof, Flow
    <2>4. Pending(k)'
      BY <2>1, <2>2, QueryFacts DEF Pending, Idle
    <2>5. QED
      BY <1>2, <2>1, <2>2, <2>3, <2>4
  <1>7. CASE RejectName(k) \/ ReturnSuccess(k) \/ ReturnFailure(k) \/ RejectFrame(k)
    <2>1. Answered(k) /\ Pending(k) /\ down[k] # <<>> /\ Answer(k) = down[k][1].res
      BY <1>1, <1>7, AnswerThere
      DEF RejectName, GoesOn, ReturnSuccess, ReturnFailure, RejectFrame, Answered
    <2>2. CASE RejectName(k) \/ RejectFrame(k)
      <3>1. PICK res \in Returns : AnswerReturned(k, res) /\ (call[k].op = "Create" => res = "failed")
        BY <2>2, ReturnsAnswer DEF AnswerReturned
      <3>2. QED
        BY <1>2, <2>1, <3>1 DEF ToldByAnswer
    <2>3. CASE ReturnSuccess(k)
      BY <1>2, <2>1, <2>3, ReturnsAnswer DEF AnswerReturned, ReturnSuccess, ToldByAnswer
    <2>4. CASE ReturnFailure(k)
      <3>1. Answer(k) \in DOMAIN EPPCode /\ Answer(k) # "success"
        BY <2>4, QueryFacts DEF ReturnFailure
      <3>2. ErrorOf(call[k].op, Answer(k)) # "ok"
        BY <2>1, <3>1, PendingOperation, ErrorFacts
      <3>3. QED
        BY <1>2, <2>1, <2>4, <3>1, <3>2, ReturnsAnswer DEF AnswerReturned, ToldByAnswer
    <2>5. QED
      BY <1>7, <2>2, <2>3, <2>4
  <1>8. CASE Lose(k)
    <2>1. Pending(k) /\ Return(k, call[k].op, LossOf(k))
      BY <1>8 DEF Lose
    <2>2. LossOf(k) \in {"ok", "failed"} /\ (call[k].op = "Create" => LossOf(k) = "failed")
      BY <1>1, <2>1 DEF LossOf, Flow
    <2>3. QED
      BY <1>2, <2>1, <2>2
  <1>9. QED
    BY <1>2, <1>3, <1>4, <1>5, <1>6, <1>7, <1>8 DEF AdapterStep, Progress

LEMMA AdapterOnce ==
  ASSUME Types, FlowInv, OnceInv, NEW k \in Clients, AdapterStep(k), UNCHANGED mockVars
  PROVE  OnceInv'
  <1>1. OnceOf(k) /\ answers' = answers
    BY AdapterMoves DEF OnceInv
  <1>2. SUFFICES OnceOf(k)'
    BY <1>1, AdapterElsewhere, OnceKept DEF OnceInv, LinesSame
  <1>3. \A op \in DOMAIN Unsent : op \in Operations
    BY DEF Operations
  <1>4. Pending(k) => call[k].op \in Operations
    BY PendingOperation
  <1>5. CASE call'[k] = call[k] /\ done'[k] = done[k] /\ down'[k] = down[k]
    BY <1>1, <1>5 DEF OnceOf, Pending, Number
  <1>6. CASE ~Pending(k) /\ done'[k] = done[k]
    BY <1>1, <1>6 DEF OnceOf, Number
  <1>7. CASE /\ Pending(k) /\ Pending(k)' /\ call'[k].op = call[k].op /\ done'[k] = done[k]
             /\ call[k].op # "Create"
    BY <1>1, <1>7 DEF OnceOf, Number
  <1>8. {"ok", "failed"} \subseteq Returns
    BY DEF Returns
  <1>9. QED
    BY <1>1, <1>3, <1>4, <1>5, <1>6, <1>7, <1>8, AdapterMoves, ReturnOnce DEF AnswerReturned

LEMMA OnceStep == Types /\ FlowInv /\ OnceInv /\ [Next]_vars => OnceInv'
  <1>1. SUFFICES ASSUME Types, FlowInv, OnceInv, [Next]_vars PROVE OnceInv'
    OBVIOUS
  <1>2. ASSUME UNCHANGED clientVars, NEW q \in Clients, answers'[q] = answers[q], down'[q] = down[q]
        PROVE  OnceOf(q)'
    BY <1>1, <1>2, OnceKept DEF OnceInv, CallSame, clientVars
  <1>3. CASE UNCHANGED vars
    BY <1>2, <1>3 DEF vars, linkVars, serverEnd, OnceInv
  <1>4. CASE MockStep \/ ShutDown \/ \E k \in Clients : ConnStep(k)
    <2>1. UNCHANGED clientVars
      BY <1>1, <1>4, ServerAnswers
    <2>2. CASE answers' = answers /\ down' = down
      BY <1>2, <2>1, <2>2 DEF OnceInv
    <2>3. ASSUME NEW k \in Clients, NEW res \in Answers, AnswersOne(k, res)
          PROVE  OnceInv'
      <3>1. OnceOf(k)'
        BY <1>1, <2>1, <2>3, AnswerOnce DEF OnceInv
      <3>2. \A q \in Clients \ {k} : answers'[q] = answers[q] /\ down'[q] = down[q]
        BY <1>1, <2>3, AnswerEffect
      <3>3. QED
        BY <1>2, <2>1, <3>1, <3>2 DEF OnceInv
    <2>4. QED
      BY <1>1, <1>4, <2>2, <2>3, ServerAnswers
  <1>5. QED
    BY <1>1, <1>3, <1>4, AdapterOnce DEF Next

THEOREM OnceHolds == Spec => []OnceInv
  BY OnceInit, OnceStep, TypesHold, FlowHolds, PTL DEF Spec

-----------------------------------------------------------------------------
(* The standalone mock counts on its engine what it answers, LOGIN and LOGOUT
   apart, and does not answer beyond its limit.                              *)
CountedRecords == {r \in Record : r.query \notin {"LOGIN", "LOGOUT"}}

LimitOf(k) ==
  /\ Cardinality(Counted(k)) <= engine[k].ops
  /\ profile.disconnectAfter > 0 => Cardinality(Counted(k)) <= profile.disconnectAfter

LimitInv == backend = "standalone" => \A k \in Clients : LimitOf(k)

LEMMA CountedPlaces ==
  ASSUME NEW k \in Clients, answers[k] \in Seq(Record)
  PROVE  Counted(k) = Places(answers[k], CountedRecords)
  BY DEF Counted, Places, CountedRecords

LEMMA LimitInit == Init => LimitInv
  <1>1. SUFFICES ASSUME Init, NEW k \in Clients PROVE LimitOf(k)
    BY DEF LimitInv
  <1>2. answers[k] = <<>> /\ engine[k].ops = 0
    BY <1>1 DEF Init, LinkInit, StandaloneInit, NewFaultEngine
  <1>3. Counted(k) = {}
    BY <1>2 DEF Counted
  <1>4. profile.disconnectAfter \in Nat
    BY <1>1, ProfileAssumption DEF Init, StandaloneInit, Profile
  <1>5. QED
    BY <1>2, <1>3, <1>4, FS_EmptySet DEF LimitOf

LEMMA LimitKept ==
  ASSUME NEW k \in Clients, LimitOf(k), Types, answers'[k] = answers[k], profile' = profile,
         engine'[k].ops \in {engine[k].ops, engine[k].ops + 1}
  PROVE  LimitOf(k)'
  <1>1. Counted(k)' = Counted(k)
    BY DEF Counted
  <1>2. engine[k].ops \in Nat /\ Cardinality(Counted(k)) \in Nat
    <2>1. answers[k] \in Seq(Record) /\ engine[k] \in Engine
      BY TypesOfEach, TypesAre DEF TypesOf, StandaloneTypeOK
    <2>2. QED
      BY <2>1, CountedPlaces, PlacesFinite DEF Engine
  <1>3. QED
    BY <1>1, <1>2 DEF LimitOf

(* What the mock answers, and what it counts. *)
LEMMA LimitAnswered ==
  ASSUME Types, NEW k \in Clients, LimitOf(k), HasQuery(k), NEW res \in Answers, Respond(k, res),
         \/ Query(k) \in {"LOGIN", "LOGOUT"} /\ engine'[k].ops = engine[k].ops
         \/ /\ engine'[k].ops = engine[k].ops + 1
            /\ profile.disconnectAfter > 0 => engine[k].ops + 1 <= profile.disconnectAfter
  PROVE  LimitOf(k)'
  <1> DEFINE a == [res |-> res, query |-> Query(k), call |-> Head(up[k]).call]
  <1>1. /\ answers[k] \in Seq(Record) /\ engine[k].ops \in Nat
        /\ profile.disconnectAfter \in Nat
    BY TypesOfEach, TypesAre, ProfileAssumption DEF TypesOf, StandaloneTypeOK, Engine, Profile
  <1>2. a \in Record
    BY QueryTypes DEF Record, Request
  <1>3. answers'[k] = Append(answers[k], a) /\ profile' = profile
    BY TypesAre DEF Respond, Write, Query, Shapes
  <1>4. /\ a \in CountedRecords => Query(k) \notin {"LOGIN", "LOGOUT"}
        /\ a \notin CountedRecords => Query(k) \in {"LOGIN", "LOGOUT"}
    BY <1>2 DEF CountedRecords
  <1> HIDE DEF a
  <1>5. answers'[k] \in Seq(Record)
    BY <1>1, <1>2, <1>3, AppendProperties
  <1>6. /\ Counted(k) = Places(answers[k], CountedRecords)
        /\ Counted(k)' = Places(Append(answers[k], a), CountedRecords)
    <2>1. Counted(k)' = Places(answers'[k], CountedRecords)
      BY <1>5 DEF Counted, Places, CountedRecords
    <2>2. QED
      BY <1>1, <1>3, <2>1, CountedPlaces
  <1>7. Cardinality(Counted(k)) \in Nat
    BY <1>1, <1>6, PlacesFinite
  <1>8. CASE a \notin CountedRecords
    <2>1. Cardinality(Counted(k)') = Cardinality(Counted(k))
      BY <1>1, <1>2, <1>6, <1>8, PlacesGrow
    <2>2. QED
      BY <1>1, <1>3, <1>7, <2>1 DEF LimitOf
  <1>9. CASE a \in CountedRecords
    <2>1. Cardinality(Counted(k)') = Cardinality(Counted(k)) + 1
      BY <1>1, <1>2, <1>6, <1>9, PlacesGrow
    <2>2. /\ engine'[k].ops = engine[k].ops + 1
          /\ profile.disconnectAfter > 0 => engine[k].ops + 1 <= profile.disconnectAfter
      BY <1>4, <1>9
    <2>3. QED
      BY <1>1, <1>3, <1>7, <2>1, <2>2 DEF LimitOf
  <1>10. QED
    BY <1>8, <1>9

LEMMA ConnLimit ==
  ASSUME Types, NEW k \in Clients, ConnStep(k), \A q \in Clients : LimitOf(q)
  PROVE  \A q \in Clients : LimitOf(q)'
  <1>1. Shapes /\ engine \in [Clients -> Engine]
    BY TypesAre DEF StandaloneTypeOK
  <1>2. /\ profile' = profile
        /\ \A q \in Clients \ {k} : answers'[q] = answers[q] /\ engine'[q] = engine[q]
    BY <1>1
    DEF ConnStep, AcceptConn, AllowLogin, DenyLogin, HangLogin, DisconnectLogin, LogoutQuery,
        AnswerQuery, DisconnectQuery, HangUp, LoginQuery, OtherQuery, Respond, Write,
        standaloneVars, serverEnd, Shapes
  <1>3. SUFFICES LimitOf(k)'
    BY <1>2, LimitKept
  <1>4. /\ LoginQuery(k, "allow") \/ LoginQuery(k, "deny") \/ LoginQuery(k, "hang")
           \/ LoginQuery(k, "disconnect") => engine'[k].ops = engine[k].ops
        /\ OtherQuery(k) => engine'[k].ops = engine[k].ops + 1
    BY <1>1 DEF LoginQuery, OtherQuery, CountLogin, CountOperation, Engine
  <1>5. "success" \in Answers /\ "other" \in Answers
    BY DEF Answers
  <1>6. CASE AcceptConn(k) \/ HangUp(k) \/ HangLogin(k) \/ DisconnectLogin(k) \/ DisconnectQuery(k)
    BY <1>2, <1>4, <1>6, LimitKept
    DEF AcceptConn, HangUp, HangLogin, DisconnectLogin, DisconnectQuery, standaloneVars, serverEnd
  <1>7. CASE AllowLogin(k) \/ DenyLogin(k)
    BY <1>4, <1>5, <1>7, LimitAnswered DEF AllowLogin, DenyLogin, LoginQuery
  <1>8. CASE LogoutQuery(k)
    BY <1>5, <1>8, LimitAnswered DEF LogoutQuery
  <1>9. CASE AnswerQuery(k)
    <2>1. HasQuery(k) /\ Respond(k, "success") /\ OtherQuery(k) /\ ~Disconnects(k)
      BY <1>9 DEF AnswerQuery, OtherQuery
    <2>2. ~OverLimit(profile, engine[k])
      BY <2>1 DEF Disconnects, OnOperation
    <2>3. profile.disconnectAfter \in Nat /\ engine[k].ops \in Nat
      BY <1>1, TypesAre, ProfileAssumption DEF StandaloneTypeOK, Engine, Profile
    <2>4. profile.disconnectAfter > 0 => engine[k].ops + 1 <= profile.disconnectAfter
      BY <2>2, <2>3 DEF OverLimit
    <2>5. QED
      BY <1>4, <1>5, <2>1, <2>4, LimitAnswered
  <1>10. QED
    BY <1>6, <1>7, <1>8, <1>9 DEF ConnStep

LEMMA LimitStep == Types /\ LimitInv /\ [Next]_vars => LimitInv'
  <1>1. SUFFICES ASSUME Types, LimitInv, [Next]_vars, backend' = "standalone"
                 PROVE  \A k \in Clients : LimitOf(k)'
    BY DEF LimitInv
  <1>2. backend = "standalone" /\ \A k \in Clients : LimitOf(k)
    BY <1>1 DEF LimitInv, Next, vars
  <1>3. CASE answers' = answers /\ UNCHANGED standaloneVars
    BY <1>1, <1>2, <1>3, LimitKept DEF standaloneVars
  <1>4. ASSUME NEW k \in Clients, AdapterStep(k)
        PROVE  answers' = answers
    BY <1>4
    DEF AdapterStep, Dial, Close, Progress, ReturnUnsent, Submit, NextName, RejectName,
        ReturnSuccess, AwaitEof, ReturnFailure, RejectFrame, Lose, serverEnd
  <1>5. CASE ShutDown
    BY <1>3, <1>5 DEF ShutDown
  <1>6. CASE UNCHANGED vars
    BY <1>3, <1>6 DEF vars, linkVars, serverEnd
  <1>7. QED
    BY <1>1, <1>2, <1>3, <1>4, <1>5, <1>6, ConnLimit DEF Next

(* The standalone mock answers no more queries on a connection than its profile
   allows, LOGIN and LOGOUT apart, for any profile and number of connections.  *)
THEOREM LimitIsKept == Spec => []QueriesLimited
  <1>1. LimitInv => QueriesLimited
    BY DEF LimitInv, LimitOf, QueriesLimited
  <1>2. QED
    BY <1>1, LimitInit, LimitStep, TypesHold, PTL DEF Spec

-----------------------------------------------------------------------------
(* The calls and counts of RemoteCalls. *)
LEMMA CallOf ==
  ASSUME NEW c \in ChangesOf
  PROVE  c[1] \in Clients /\ c[2] \in 1 .. MaxCalls /\ c[2] \in Nat
  BY AdapterAssumption DEF ChangesOf

LEMMA CurrentCall ==
  ASSUME Types, NEW k \in Clients, Number(k) <= Len(plan[k])
  PROVE  <<k, Number(k)>> \in ChangesOf
  <1>1. Len(plan[k]) \in Nat /\ Len(plan[k]) <= MaxCalls /\ MaxCalls \in Nat
    BY TypesOfEach, AdapterAssumption DEF TypesOf, Types, TypeOK, LinkTypeOK
  <1>2. Number(k) \in Nat \ {0}
    BY TypesOfEach DEF TypesOf, Number
  <1>3. QED
    BY <1>1, <1>2 DEF ChangesOf

Execution(n) == [res |-> "success", query |-> "CREATE", call |-> n]

LEMMA ExecutionPlaces ==
  ASSUME NEW c \in ChangesOf
  PROVE  Executions(c) = Cardinality(Places(answers[c[1]], {Execution(c[2])}))
  <1>1. {i \in DOMAIN answers[c[1]] : answers[c[1]][i] = Execution(c[2])}
          = Places(answers[c[1]], {Execution(c[2])})
    BY DEF Places
  <1>2. QED
    BY <1>1 DEF Executions, Execution

LEMMA ExecutionsSame ==
  ASSUME NEW c \in ChangesOf, answers'[c[1]] = answers[c[1]]
  PROVE  Executions(c)' = Executions(c)
  BY DEF Executions

(* An answer adds an execution to the call that waits for it, if it says that
   a Create was carried out.                                                  *)
CarriesOut(k, res) == call[k].op = "Create" /\ res = "success"

LEMMA ExecutionsAnswered ==
  ASSUME Types, NEW k \in Clients, NEW res \in Answers, AnswersOne(k, res), NEW c \in ChangesOf
  PROVE  IF CarriesOut(k, res) /\ c = <<k, Number(k)>>
         THEN Executions(c)' = Executions(c) + 1
         ELSE Executions(c)' = Executions(c)
  <1> DEFINE a == [res |-> res, query |-> QueryOf[call[k].op], call |-> Number(k)]
             e == Execution(c[2])
  <1>1. /\ a \in Record /\ answers[k] \in Seq(Record) /\ answers'[k] = Append(answers[k], a)
        /\ \A q \in Clients \ {k} : answers'[q] = answers[q]
    BY AnswerEffect
  <1>2. CASE c[1] # k
    <2>1. Executions(c)' = Executions(c)
      BY <1>1, <1>2, CallOf, ExecutionsSame
    <2>2. c # <<k, Number(k)>>
      BY <1>2
    <2>3. QED
      BY <2>1, <2>2
  <1>3. CASE c[1] = k
    <2>1. Executions(c) = Cardinality(Places(answers[k], {e}))
      BY <1>3, ExecutionPlaces
    <2>2. Executions(c)' = Cardinality(Places(answers'[k], {e}))
      <3>1. {i \in DOMAIN answers'[k] : answers'[k][i] = e} = Places(answers'[k], {e})
        BY DEF Places
      <3>2. QED
        BY <1>3, <3>1 DEF Executions, Execution
    <2>3. a = e <=> CarriesOut(k, res) /\ c[2] = Number(k)
      <3>1. call[k].op \in DOMAIN QueryOf
        BY PendingOperation DEF AnswersOne, Waits
      <3>2. QueryOf[call[k].op] = "CREATE" <=> call[k].op = "Create"
        BY <3>1 DEF QueryOf
      <3>3. QED
        BY <3>2 DEF Execution, CarriesOut
    <2>4. c = <<k, Number(k)>> <=> c[2] = Number(k)
      BY <1>3 DEF ChangesOf
    <2> HIDE DEF a, e
    <2>5. a \in {e} <=> CarriesOut(k, res) /\ c = <<k, Number(k)>>
      BY <2>3, <2>4
    <2>6. /\ a \notin {e} => Places(Append(answers[k], a), {e}) = Places(answers[k], {e})
          /\ a \in {e} =>
               Cardinality(Places(Append(answers[k], a), {e})) =
                 Cardinality(Places(answers[k], {e})) + 1
      BY <1>1, PlacesGrow
    <2>7. QED
      BY <1>1, <2>1, <2>2, <2>5, <2>6
  <1>4. QED
    BY <1>2, <1>3

(* How often a Create was carried out that nothing, or the answer at hand, has
   been said of.                                                              *)
LEMMA ExecutionsKnown ==
  ASSUME Types, NEW k \in Clients, Flow(k), OnceOf(k), Pending(k), call[k].op = "Create",
         NEW c \in ChangesOf, c = <<k, Number(k)>>
  PROVE  /\ down[k] = <<>> => Executions(c) = 0
         /\ down[k] # <<>> /\ down[k][1].res # "success" => Executions(c) = 0
         /\ down[k] # <<>> /\ down[k][1].res = "success" => Executions(c) > 0
  <1> DEFINE e == Execution(Number(k))
  <1>1. answers[k] \in Seq(Record)
    BY TypesOfEach DEF TypesOf
  <1>2. Executions(c) = Cardinality(Places(answers[k], {e}))
    BY ExecutionPlaces
  <1>3. /\ Places(answers[k], {e}) = {} => Executions(c) = 0
        /\ Places(answers[k], {e}) # {} => Executions(c) > 0
    BY <1>1, <1>2, PlacesFinite
  <1>4. ASSUME NEW i \in Places(answers[k], {e})
        PROVE  down[k] # <<>> /\ down[k][1].res = "success"
    BY <1>4 DEF Places, Execution, OnceOf
  <1>5. ASSUME down[k] # <<>>, down[k][1].res = "success"
        PROVE  Places(answers[k], {e}) # {}
    <2>1. Asked(k).query = "CREATE"
      BY DEF Asked, QueryOf
    <2>2. PICK i \in DOMAIN answers[k] : answers[k][i] = e
      BY <1>5, <2>1 DEF Flow, Recorded, Execution
    <2>3. QED
      BY <2>2 DEF Places
  <1> HIDE DEF e
  <1>6. QED
    BY <1>3, <1>4, <1>5

-----------------------------------------------------------------------------
(* The status of a call. *)
StatusKept == \A c \in ChangesOf : Status(c)' = Status(c)
Others(k) == \A c \in ChangesOf : c # <<k, Number(k)>> => Status(c)' = Status(c)

LEMMA StatusSame ==
  ASSUME NEW k \in Clients, done'[k] = done[k], call'[k] = call[k], NEW c \in ChangesOf, c[1] = k
  PROVE  Status(c)' = Status(c)
  BY DEF Status, Pending, Number

LEMMA StatusElsewhere ==
  ASSUME Types, NEW k \in Clients, AdapterStep(k), UNCHANGED mockVars,
         NEW c \in ChangesOf, c[1] # k
  PROVE  Status(c)' = Status(c)
  <1>1. CallSame(c[1])
    BY CallOf, AdapterElsewhere
  <1>2. QED
    BY <1>1, CallOf, StatusSame DEF CallSame

LEMMA StatusBegun ==
  ASSUME Types, NEW k \in Clients, NEW op, ~Pending(k), Pending(k)', call'[k].op = op,
         done'[k] = done[k], NEW c \in ChangesOf, c[1] = k
  PROVE  IF op = "Create" /\ c[2] = Number(k)
         THEN Status(c) = "new" /\ Status(c)' = "pending"
         ELSE Status(c)' = Status(c)
  <1>1. Len(done[k]) \in Nat /\ c[2] \in Nat
    BY TypesOfEach, CallOf DEF TypesOf
  <1>2. QED
    BY <1>1 DEF Status, Number

LEMMA StatusGoesOn ==
  ASSUME NEW k \in Clients, Pending(k), Pending(k)', call'[k].op = call[k].op,
         done'[k] = done[k], NEW c \in ChangesOf, c[1] = k
  PROVE  Status(c)' = Status(c)
  BY DEF Status, Number

(* What the return of a Create tells. *)
Told(res) == IF res \in {"ok", "failed"} THEN res ELSE "rejected"

LEMMA StatusReturned ==
  ASSUME Types, NEW k \in Clients, NEW op \in Operations, NEW res \in Returns, Return(k, op, res),
         op = "Create" => Pending(k), Pending(k) => call[k].op = op,
         NEW c \in ChangesOf, c[1] = k
  PROVE  IF op = "Create" /\ c[2] = Number(k)
         THEN Status(c) = "pending" /\ Status(c)' = Told(res)
         ELSE Status(c)' = Status(c)
  <1>1. Len(done[k]) \in Nat /\ c[2] \in 1 .. MaxCalls /\ c[2] \in Nat
    BY TypesOfEach, CallOf DEF TypesOf
  <1>2. /\ ~Pending(k)' /\ Len(done'[k]) = Len(done[k]) + 1
        /\ \A n \in 1 .. Len(done[k]) : done'[k][n] = done[k][n]
        /\ done'[k][Len(done[k]) + 1] = [op |-> op, res |-> res]
    BY ReturnEffect
  <1>3. CASE c[2] <= Len(done[k])
    <2>1. c[2] \in 1 .. Len(done[k]) /\ c[2] <= Len(done'[k]) /\ c[2] # Number(k)
      BY <1>1, <1>2, <1>3, AdapterAssumption DEF Number
    <2>2. done'[k][c[2]] = done[k][c[2]]
      BY <1>2, <2>1
    <2>3. c[2] # Number(k)'
      BY <1>1, <1>2, <1>3 DEF Number
    <2>4. Status(c)' = Status(c)
      BY <1>2, <1>3, <2>1, <2>2, <2>3 DEF Status
    <2>5. QED
      BY <2>1, <2>4
  <1>4. CASE c[2] = Number(k)
    <2>1. ~(c[2] <= Len(done[k])) /\ c[2] <= Len(done'[k]) /\ c[2] = Len(done[k]) + 1
      BY <1>1, <1>2, <1>4 DEF Number
    <2>2. done'[k][c[2]].op = op /\ done'[k][c[2]].res = res
      BY <1>2, <2>1
    <2>3. Status(c) = IF op = "Create" THEN "pending" ELSE "new"
      BY <1>4, <2>1 DEF Status
    <2>4. Status(c)' = IF op = "Create" THEN Told(res) ELSE "new"
      BY <1>2, <2>1, <2>2 DEF Status, Told
    <2>5. QED
      BY <1>4, <2>3, <2>4
  <1>5. CASE c[2] > Number(k)
    <2>1. ~(c[2] <= Len(done[k])) /\ ~(c[2] <= Len(done'[k])) /\ c[2] # Number(k)
      BY <1>1, <1>2, <1>5 DEF Number
    <2>2. Status(c) = "new" /\ Status(c)' = "new"
      BY <1>2, <2>1 DEF Status
    <2>3. QED
      BY <2>1, <2>2
  <1>6. QED
    BY <1>1, <1>3, <1>4, <1>5 DEF Number

-----------------------------------------------------------------------------
(* Every step of the session is a step of RemoteCalls, or none. *)
LEMMA AbstractInit == Init => Abstract!Init
  <1> SUFFICES ASSUME Init PROVE Abstract!Init
    OBVIOUS
  <1>1. \A k \in Clients : ~Pending(k) /\ Len(done[k]) = 0 /\ answers[k] = <<>>
    BY DEF Init, LinkInit, Pending
  <1>2. ASSUME NEW c \in ChangesOf
        PROVE  Status(c) = "new" /\ Executions(c) = 0
    <2>1. /\ c[1] \in Clients /\ c[2] \in 1 .. MaxCalls /\ MaxCalls \in Nat
          /\ ~(c[2] <= Len(done[c[1]]))
      BY <1>1, CallOf, AdapterAssumption
    <2>2. Status(c) = "new"
      BY <1>1, <2>1 DEF Status
    <2>3. Executions(c) = Cardinality({})
      BY <1>1, <2>1 DEF Executions
    <2>4. QED
      BY <2>2, <2>3, FS_EmptySet
  <1>3. QED
    BY <1>2 DEF Abstract!Init

LEMMA AbstractStutter ==
  ASSUME \A c \in ChangesOf : Status(c)' = Status(c) /\ Executions(c)' = Executions(c)
  PROVE  UNCHANGED Abstract!vars
  BY DEF Abstract!vars

LEMMA StatusMoves ==
  ASSUME NEW c \in ChangesOf, NEW s, Status(c)' = s,
         \A d \in ChangesOf \ {c} : Status(d)' = Status(d),
         \A d \in ChangesOf : Executions(d)' = Executions(d)
  PROVE  /\ [d \in ChangesOf |-> Status(d)]' = [[d \in ChangesOf |-> Status(d)] EXCEPT ![c] = s]
         /\ [d \in ChangesOf |-> Executions(d)]' = [d \in ChangesOf |-> Executions(d)]
  OBVIOUS

LEMMA ExecutionsMove ==
  ASSUME NEW c \in ChangesOf, Executions(c)' = Executions(c) + 1,
         \A d \in ChangesOf \ {c} : Executions(d)' = Executions(d),
         \A d \in ChangesOf : Status(d)' = Status(d)
  PROVE  /\ [d \in ChangesOf |-> Status(d)]' = [d \in ChangesOf |-> Status(d)]
         /\ [d \in ChangesOf |-> Executions(d)]' =
              [[d \in ChangesOf |-> Executions(d)] EXCEPT ![c] = @ + 1]
  OBVIOUS

LEMMA AbstractServer ==
  ASSUME Types, FlowInv, OnceInv, MockStep \/ ShutDown \/ \E k \in Clients : ConnStep(k)
  PROVE  [Abstract!Next]_Abstract!vars
  <1>1. UNCHANGED clientVars
    BY ServerAnswers
  <1>2. \A c \in ChangesOf : Status(c)' = Status(c)
    BY <1>1, CallOf, StatusSame DEF clientVars
  <1>3. CASE answers' = answers
    <2>1. \A c \in ChangesOf : Executions(c)' = Executions(c)
      BY <1>3, ExecutionsSame
    <2>2. QED
      BY <1>2, <2>1, AbstractStutter
  <1>4. ASSUME NEW k \in Clients, NEW res \in Answers, AnswersOne(k, res)
        PROVE  [Abstract!Next]_Abstract!vars
    <2>1. Pending(k) /\ down[k] = <<>> /\ Flow(k) /\ OnceOf(k)
      BY <1>4 DEF AnswersOne, Waits, FlowInv, OnceInv
    <2>2. PICK c \in ChangesOf : c = <<k, Number(k)>>
      BY <2>1, PendingOperation, CurrentCall
    <2>3. /\ CarriesOut(k, res) => Executions(c)' = Executions(c) + 1
          /\ ~CarriesOut(k, res) => Executions(c)' = Executions(c)
          /\ \A d \in ChangesOf \ {c} : Executions(d)' = Executions(d)
      BY <1>4, <2>2, ExecutionsAnswered
    <2>4. CASE ~CarriesOut(k, res)
      <3>1. \A d \in ChangesOf : Executions(d)' = Executions(d)
        BY <2>3, <2>4
      <3>2. QED
        BY <1>2, <3>1, AbstractStutter
    <2>5. CASE CarriesOut(k, res)
      <3>1. Executions(c) = 0 /\ Executions(c)' = Executions(c) + 1
        BY <2>1, <2>2, <2>3, <2>5, ExecutionsKnown DEF CarriesOut
      <3>2. Status(c) = "pending"
        <4>1. Len(done[k]) \in Nat
          BY TypesOfEach DEF TypesOf
        <4>2. c[1] = k /\ c[2] = Number(k)
          BY <2>2
        <4>3. ~(c[2] <= Len(done[k]))
          BY <4>1, <4>2 DEF Number
        <4>4. QED
          BY <2>1, <2>5, <4>2, <4>3 DEF Status, CarriesOut
      <3>3. Abstract!CarryOut(c)
        BY <1>2, <2>3, <3>1, <3>2, ExecutionsMove DEF Abstract!CarryOut
      <3>4. QED
        BY <3>3 DEF Abstract!Next
    <2>6. QED
      BY <2>4, <2>5
  <1>5. QED
    BY <1>3, <1>4, ServerAnswers

LEMMA AbstractAdapter ==
  ASSUME Types, FlowInv, OnceInv, NEW k \in Clients, AdapterStep(k), UNCHANGED mockVars
  PROVE  [Abstract!Next]_Abstract!vars
  <1>1. Flow(k) /\ OnceOf(k) /\ answers' = answers
    BY AdapterMoves DEF FlowInv, OnceInv
  <1>2. \A c \in ChangesOf : Executions(c)' = Executions(c)
    BY <1>1, ExecutionsSame
  <1>3. \A c \in ChangesOf : c[1] # k => Status(c)' = Status(c)
    BY StatusElsewhere
  <1>4. ASSUME \A c \in ChangesOf : c[1] = k => Status(c)' = Status(c)
        PROVE  UNCHANGED Abstract!vars
    BY <1>2, <1>3, <1>4, AbstractStutter
  <1>5. CASE call'[k] = call[k] /\ done'[k] = done[k]
    BY <1>4, <1>5, StatusSame
  <1>6. CASE /\ Pending(k) /\ Pending(k)' /\ call'[k].op = call[k].op /\ done'[k] = done[k]
    BY <1>4, <1>6, StatusGoesOn
  <1>7. ASSUME NEW c \in ChangesOf, c = <<k, Number(k)>>,
               \A d \in ChangesOf : d[1] = k /\ d[2] # Number(k) => Status(d)' = Status(d)
        PROVE  \A d \in ChangesOf \ {c} : Status(d)' = Status(d)
    <2>1. \A d \in ChangesOf \ {c} : d[1] # k \/ d[2] # Number(k)
      BY <1>7 DEF ChangesOf
    <2>2. QED
      BY <1>3, <1>7, <2>1
  <1>8. ASSUME NEW op \in DOMAIN QueryOf, ~Pending(k), Pending(k)', call'[k].op = op,
               done'[k] = done[k], Number(k) <= Len(plan[k])
        PROVE  [Abstract!Next]_Abstract!vars
    <2>1. CASE op # "Create"
      BY <1>4, <1>8, <2>1, StatusBegun
    <2>2. CASE op = "Create"
      <3>1. PICK c \in ChangesOf : c = <<k, Number(k)>>
        BY <1>8, CurrentCall
      <3>2. Status(c) = "new" /\ Status(c)' = "pending"
        BY <1>8, <2>2, <3>1, StatusBegun
      <3>3. \A d \in ChangesOf \ {c} : Status(d)' = Status(d)
        BY <1>7, <1>8, <3>1, StatusBegun
      <3>4. Abstract!Submit(c)
        BY <1>2, <3>2, <3>3, StatusMoves DEF Abstract!Submit
      <3>5. QED
        BY <3>4 DEF Abstract!Next
    <2>3. QED
      BY <2>1, <2>2
  <1>9. ASSUME NEW op \in Operations, NEW res \in Returns, Return(k, op, res), op # "Create",
               Pending(k) => call[k].op = op
        PROVE  UNCHANGED Abstract!vars
    BY <1>4, <1>9, StatusReturned
  <1>10. ASSUME NEW res \in Returns, Return(k, "Create", res), Pending(k), call[k].op = "Create",
                NEW c \in ChangesOf, c = <<k, Number(k)>>
         PROVE  /\ Status(c) = "pending" /\ Status(c)' = Told(res)
                /\ \A d \in ChangesOf \ {c} : Status(d)' = Status(d)
    <2>1. "Create" \in Operations
      BY <1>10, PendingOperation
    <2>2. Status(c) = "pending" /\ Status(c)' = Told(res)
      BY <1>10, <2>1, StatusReturned
    <2>3. \A d \in ChangesOf \ {c} : Status(d)' = Status(d)
      BY <1>7, <1>10, <2>1, StatusReturned
    <2>4. QED
      BY <2>2, <2>3
  <1>11. ASSUME NEW res \in Returns, Return(k, call[k].op, res), Pending(k), call[k].op = "Create",
                res = "failed" \/ (down[k] # <<>> /\ ToldByAnswer(k, res))
         PROVE  Abstract!Next
    <2>1. PICK c \in ChangesOf : c = <<k, Number(k)>>
      BY <1>11, PendingOperation, CurrentCall
    <2>2. /\ Status(c) = "pending" /\ Status(c)' = Told(res)
          /\ \A d \in ChangesOf \ {c} : Status(d)' = Status(d)
      BY <1>10, <1>11, <2>1
    <2>3. /\ down[k] # <<>> /\ down[k][1].res # "success" => Executions(c) = 0
          /\ down[k] # <<>> /\ down[k][1].res = "success" => Executions(c) > 0
      BY <1>1, <1>11, <2>1, ExecutionsKnown
    <2>4. CASE res = "failed"
      <3>1. Abstract!Fail(c)
        BY <1>2, <2>2, <2>4, StatusMoves DEF Abstract!Fail, Told
      <3>2. QED
        BY <3>1 DEF Abstract!Next
    <2>5. CASE res = "ok"
      <3>1. Abstract!Confirm(c)
        BY <1>2, <1>11, <2>2, <2>3, <2>5, StatusMoves DEF Abstract!Confirm, Told, ToldByAnswer
      <3>2. QED
        BY <3>1 DEF Abstract!Next
    <2>6. CASE res \notin {"ok", "failed"}
      <3>1. Abstract!Reject(c)
        BY <1>2, <1>11, <2>2, <2>3, <2>6, StatusMoves DEF Abstract!Reject, Told, ToldByAnswer
      <3>2. QED
        BY <3>1 DEF Abstract!Next
    <2>7. QED
      BY <2>4, <2>5, <2>6
  <1>12. ASSUME NEW op \in DOMAIN Unsent, ~Pending(k), Unsent[op] \in Returns,
                Return(k, op, Unsent[op])
         PROVE  UNCHANGED Abstract!vars
    <2>1. op \in Operations /\ op # "Create"
      BY <1>12, QueryFacts DEF Operations
    <2>2. QED
      BY <1>9, <1>12, <2>1
  <1>13. ASSUME Pending(k), NEW res \in Returns, Return(k, call[k].op, res),
                call[k].op = "Create" =>
                  res = "failed" \/ (down[k] # <<>> /\ ToldByAnswer(k, res))
         PROVE  [Abstract!Next]_Abstract!vars
    BY <1>9, <1>11, <1>13, PendingOperation
  <1>14. {"ok", "failed"} \subseteq Returns
    BY DEF Returns
  <1>15. QED
    BY <1>5, <1>6, <1>8, <1>12, <1>13, <1>14, AdapterMoves DEF AnswerReturned

LEMMA AbstractStep == Types /\ FlowInv /\ OnceInv /\ [Next]_vars => [Abstract!Next]_Abstract!vars
  <1>1. SUFFICES ASSUME Types, FlowInv, OnceInv, [Next]_vars PROVE [Abstract!Next]_Abstract!vars
    OBVIOUS
  <1>2. CASE UNCHANGED vars
    <2>1. answers' = answers /\ done' = done /\ call' = call
      BY <1>2 DEF vars, linkVars, clientVars, serverEnd
    <2>2. QED
      BY <2>1, CallOf, ExecutionsSame, StatusSame, AbstractStutter
  <1>3. QED
    BY <1>1, <1>2, AbstractAdapter, AbstractServer DEF Next

(* Adapters and mocks implement RemoteCalls with one execution: a change is
   carried out at most once, nil means it was, and an error code of the registry
   means it was not and will not be, for any number of adapters and calls, any
   script and any profile.                                                     *)
THEOREM SessionImplementsRemoteCalls == Spec => CallsOnce
  <1>1. Types /\ FlowInv /\ OnceInv /\ [Next]_vars => [Abstract!Next]_Abstract!vars
    BY AbstractStep
  <1>2. QED
    BY <1>1, AbstractInit, TypesHold, FlowHolds, OnceHolds, PTL DEF Spec, Abstract!Spec, CallsOnce
=============================================================================
