------------------------------ MODULE RRIAdapter ------------------------------
(***************************************************************************)
(* pkg/registrar/rri: the adapter for DENIC's RRI with the client library  *)
(* it wraps, and the connections to a server.  An adapter dials once, when *)
(* it is made, never redials (NoAutoRetry), and is used by one goroutine;  *)
(* so an adapter and its connection are one and the same.                  *)
(*                                                                         *)
(* A definition named Bug... is a mistake this code could contain.  The    *)
(* model does not use it; it stands beside the definition it could replace *)
(* to show that some property would notice.                                *)
(***************************************************************************)
EXTENDS Naturals, Sequences

CONSTANTS
  Clients,      \* adapters
  MaxCalls,     \* bound: calls of each adapter
  MaxNames,     \* bound: names in one CheckDomain or CheckContact
  Plans         \* what the goroutines of the adapters may be about to call

(* The query an operation sends; a check sends one for each name.  Create
   stands for all that change a domain or a contact.                        *)
QueryOf ==
  [Login |-> "LOGIN", Logout |-> "LOGOUT", Ping |-> "QUEUE-READ",
   PollRead |-> "QUEUE-READ", PollAck |-> "QUEUE-DELETE", CheckDomain |-> "CHECK",
   CheckContact |-> "CHECK", Info |-> "INFO", Create |-> "CREATE"]

Queries == {QueryOf[op] : op \in DOMAIN QueryOf}

(* Operations RRI lacks, names that are no domain names and handles that are
   none end a call before anything is sent.                                 *)
Unsent == [Unsupported |-> "2101", BadName |-> "2005", BadHandle |-> "failed"]

Operations == DOMAIN QueryOf \cup DOMAIN Unsent

Checks == {"CheckDomain", "CheckContact"}

ASSUME AdapterAssumption ==
  /\ MaxCalls \in Nat /\ MaxNames \in Nat \ {0}
  /\ Plans \subseteq [Clients -> Seq(Operations)]
  /\ \A p \in Plans : \A k \in Clients : Len(p[k]) <= MaxCalls

VARIABLES
  plan,       \* what they call, in order
  client,     \* client's end: "none", "open", "lost"
  call,       \* the call in progress
  done,       \* the calls that have returned, with what they returned
  up,         \* queries on the way to the server
  down,       \* answers on the way to the adapter
  server,     \* server's end: "none", "open", "closed"
  listening,  \* the listener accepts
  answers     \* history: what the server has answered on each connection

clientVars == <<plan, client, call, done>>
serverEnd == <<server, answers>>
linkVars == <<clientVars, up, down, serverEnd, listening>>

(* What go-rriclient makes of a frame: success, the business codes of a
   failure that the adapter tells apart, a failure with another or none, and
   a header it rejects.                                                     *)
Answers == {"success", "missing", "exists", "auth", "other", "malformed"}

Idle == [op |-> "none", left |-> 0, awaits |-> "nothing"]

Call == [op : DOMAIN QueryOf, left : 1 .. MaxNames, awaits : {"answer", "eof"}]

Returns == {"ok", "notfound", "1300", "2005", "2101", "2201", "2302", "2303", "2400", "failed"}

Pending(k) == call[k] # Idle

Number(k) == Len(done[k]) + 1

LinkTypeOK ==
  /\ plan \in Plans
  /\ client \in [Clients -> {"none", "open", "lost"}]
  /\ call \in [Clients -> Call \cup {Idle}]
  /\ done \in [Clients -> Seq([op : Operations, res : Returns])]
  /\ \A k \in Clients : Len(done[k]) <= Len(plan[k])
  /\ up \in [Clients -> Seq([query : Queries, call : Nat])]
  /\ down \in [Clients -> Seq([res : Answers, call : Nat])]
  /\ server \in [Clients -> {"none", "open", "closed"}]
  /\ listening \in BOOLEAN
  /\ answers \in [Clients -> Seq([res : Answers, query : Queries, call : Nat])]

LinkInit ==
  /\ plan \in Plans
  /\ client = [k \in Clients |-> "none"]
  /\ call = [k \in Clients |-> Idle]
  /\ done = [k \in Clients |-> <<>>]
  /\ up = [k \in Clients |-> <<>>]
  /\ down = [k \in Clients |-> <<>>]
  /\ server = [k \in Clients |-> "none"]
  /\ listening = TRUE
  /\ answers = [k \in Clients |-> <<>>]

-----------------------------------------------------------------------------
(* The adapter. *)

(* NewRRIAdapter; without a listener there is no adapter. *)
Dial(k) ==
  /\ client[k] = "none" /\ listening
  /\ client' = [client EXCEPT ![k] = "open"]
  /\ UNCHANGED <<plan, call, done, up, down, serverEnd, listening>>

Send(k, op, n) ==
  up' = [up EXCEPT ![k] = Append(@, [query |-> QueryOf[op], call |-> n])]

Return(k, op, res) ==
  /\ done' = [done EXCEPT ![k] = Append(@, [op |-> op, res |-> res])]
  /\ call' = [call EXCEPT ![k] = Idle]

MayCall(k, op) ==
  /\ client[k] # "none" /\ ~Pending(k)
  /\ Number(k) <= Len(plan[k]) /\ plan[k][Number(k)] = op

ReturnUnsent(k, op) ==
  /\ MayCall(k, op) /\ op \in DOMAIN Unsent
  /\ Return(k, op, Unsent[op])
  /\ UNCHANGED <<plan, client, up, down, serverEnd, listening>>

(* On a connection that is lost nothing is sent. *)
Submit(k, op, names) ==
  /\ MayCall(k, op) /\ op \in DOMAIN QueryOf
  /\ op \notin Checks => names = 1
  /\ call' = [call EXCEPT ![k] = [op |-> op, left |-> names, awaits |-> "answer"]]
  /\ IF client[k] = "open" THEN Send(k, op, Number(k)) ELSE UNCHANGED up
  /\ UNCHANGED <<plan, client, done, down, serverEnd, listening>>

(* respToError with mapRRICodeToEPP, unless the operation treats a failure in
   its own way: PollRead takes every one for an empty queue, CheckContact for
   a handle that is free, and Login is the library's.                        *)
EPPCode == [missing |-> "2303", exists |-> "2302", auth |-> "2201", other |-> "2400"]

BugMissingIsDone(op, failure) ==
  IF failure = "missing" THEN "ok" ELSE EPPCode[failure]

ErrorOf(op, failure) ==
  CASE op = "PollRead" -> "1300"
    [] op = "CheckContact" -> "notfound"
    [] op = "Login" -> "failed"
    [] OTHER -> EPPCode[failure]

Answered(k) == Pending(k) /\ call[k].awaits = "answer" /\ down[k] # <<>>
Answer(k) == Head(down[k]).res
TakeAnswer(k) == down' = [down EXCEPT ![k] = Tail(@)]

(* A check that goes on with the next name: CheckContact does so whatever the
   answer to the last one was.                                               *)
GoesOn(k) ==
  /\ Answered(k) /\ call[k].left > 1
  /\ \/ Answer(k) = "success"
     \/ call[k].op = "CheckContact" /\ Answer(k) \in DOMAIN EPPCode

NextName(k) ==
  /\ GoesOn(k)
  /\ TakeAnswer(k)
  /\ call' = [call EXCEPT ![k].left = @ - 1]
  /\ Send(k, call[k].op, Number(k))
  /\ UNCHANGED <<plan, client, done, serverEnd, listening>>

(* The next name is none, and the results so far are dropped. *)
RejectName(k) ==
  /\ GoesOn(k)
  /\ TakeAnswer(k)
  /\ Return(k, call[k].op, IF call[k].op = "CheckDomain" THEN "2005" ELSE "failed")
  /\ UNCHANGED <<plan, client, up, serverEnd, listening>>

ReturnSuccess(k) ==
  /\ Answered(k) /\ Answer(k) = "success" /\ call[k].left = 1
  /\ call[k].op # "Logout"
  /\ TakeAnswer(k)
  /\ Return(k, call[k].op, "ok")
  /\ UNCHANGED <<plan, client, up, serverEnd, listening>>

(* After a successful LOGOUT the library waits for the end of the stream. *)
AwaitEof(k) ==
  /\ Answered(k) /\ Answer(k) = "success" /\ call[k].op = "Logout"
  /\ TakeAnswer(k)
  /\ call' = [call EXCEPT ![k].awaits = "eof"]
  /\ UNCHANGED <<plan, client, done, up, serverEnd, listening>>

ReturnFailure(k) ==
  /\ Answered(k) /\ Answer(k) \in DOMAIN EPPCode /\ ~GoesOn(k)
  /\ TakeAnswer(k)
  /\ \/ Return(k, call[k].op, ErrorOf(call[k].op, Answer(k)))
     \/ call[k].op = "Logout" /\ Return(k, "Logout", "ok")
  /\ UNCHANGED <<plan, client, up, serverEnd, listening>>

(* What the library does with a connection that sent a bad header is its own. *)
RejectFrame(k) ==
  /\ Answered(k) /\ Answer(k) = "malformed"
  /\ TakeAnswer(k)
  /\ Return(k, call[k].op, "failed")
  /\ \E end \in {"open", "lost"} : client' = [client EXCEPT ![k] = end]
  /\ UNCHANGED <<plan, up, serverEnd, listening>>

(* What a call returns whose connection ends. *)
BugLossOf(k) == IF call[k].op = "PollRead" THEN "1300" ELSE "failed"
LossOf(k) == IF call[k].awaits = "eof" THEN "ok" ELSE "failed"

(* The connection is lost, or the server has closed it; a reset may overtake
   an answer, which is lost.                                                 *)
Lose(k) ==
  /\ Pending(k) /\ (client[k] = "lost" \/ server[k] = "closed")
  /\ Return(k, call[k].op, LossOf(k))
  /\ client' = [client EXCEPT ![k] = "lost"]
  /\ down' = [down EXCEPT ![k] = <<>>]
  /\ UNCHANGED <<plan, up, serverEnd, listening>>

Close(k) ==
  /\ client[k] = "open" /\ ~Pending(k)
  /\ client' = [client EXCEPT ![k] = "lost"]
  /\ UNCHANGED <<plan, call, done, up, down, serverEnd, listening>>

(* What ends in a result once the server has answered or closed. *)
Progress(k) ==
  \/ NextName(k) \/ RejectName(k) \/ ReturnSuccess(k) \/ AwaitEof(k)
  \/ ReturnFailure(k) \/ RejectFrame(k) \/ Lose(k)

AdapterStep(k) ==
  \/ Dial(k) \/ Close(k) \/ Progress(k)
  \/ \E op \in Operations :
       \/ ReturnUnsent(k, op)
       \/ \E names \in 1 .. MaxNames : Submit(k, op, names)

-----------------------------------------------------------------------------
(* What a server does with a connection; ReadRRIFrame finds whole frames. *)

Waiting(k) == client[k] # "none" /\ server[k] = "none" /\ listening

HasQuery(k) == server[k] = "open" /\ up[k] # <<>>
Query(k) == Head(up[k]).query

TakeQuery(k) == up' = [up EXCEPT ![k] = Tail(@)]

(* WriteRRIFrame of the answer to query q. *)
Write(k, q, res) ==
  /\ answers' = [answers EXCEPT ![k] = Append(@, [res |-> res, query |-> q.query, call |-> q.call])]
  /\ down' = [down EXCEPT ![k] = Append(@, [res |-> res, call |-> q.call])]

CloseEnd(k) == server' = [server EXCEPT ![k] = "closed"]
=============================================================================
