----------------------------- MODULE MockEPPServer -----------------------------
(***************************************************************************)
(* The scripted mock of pkg/mock/epp: an accept loop, one handler per      *)
(* connection, the test that scripts and tears it down, and the clients    *)
(* that dial it.  All handlers take their answers from the same queues.    *)
(*                                                                         *)
(* One action is one operation on a channel, a connection, the wait group  *)
(* or the field s.conn: between two of them any goroutine may run, so      *)
(* SetDelay, which only makes a handler slow, needs no action of its own.  *)
(*                                                                         *)
(* A definition named Bug... is a mistake this code could contain.  The    *)
(* model does not use it; it stands beside the definition it could replace *)
(* to show that some property would notice.                                *)
(***************************************************************************)
EXTENDS Naturals, Sequences, FiniteSets, Functions

CONSTANTS
  MaxConns,      \* bound: connections clients dial, numbered in that order
  MaxFrames,     \* bound: frames that clients send
  MaxScripted,   \* bound: items the test puts into Expect and pollCh
  MaxPolls,      \* bound: payloads among them
  ExpectCap,     \* capacity of Expect (32)
  PollCap,       \* capacity of pollCh (8)
  ReceivedCap    \* capacity of Received (32)

ASSUME MockAssumption ==
  /\ {MaxConns, MaxFrames, MaxScripted, MaxPolls} \subseteq Nat
  /\ {ExpectCap, PollCap, ReceivedCap} \subseteq Nat \ {0}

Conns == 1 .. MaxConns

VARIABLES
  client,        \* client's end: "unused", "dialling", "up" (handshake done), "closed"
  asked,         \* frames the client has sent over each connection
  server,        \* server's end: "none", "open", "closed"
  handler,       \* where the handler of each connection is
  got,           \* frames the handler has read
  held,          \* item a handler has taken from a queue and not yet written
  out,           \* what the handler has written, in order
  acceptLoop,    \* where the accept loop is
  fresh,         \* connection the accept loop is about to hand over, or 0
  conn,          \* s.conn; 0 stands for nil
  wg,            \* count of s.wg
  Expect, pollCh, Received,    \* the channels
  scripted, injected,          \* items put into Expect and pollCh so far
  taken,         \* captured frames the test has received
  missed,        \* frames dropped because Received was full
  test           \* "running", "cancelled", "closed" (listener), "finished"

clientVars == <<client, asked>>
handlerVars == <<server, handler, got, held, out>>
acceptVars == <<acceptLoop, fresh, conn>>
queueVars == <<Expect, pollCh, Received>>
testVars == <<scripted, injected, taken, missed, test>>
vars == <<clientVars, handlerVars, acceptVars, wg, queueVars, testVars>>

(* What dispatch writes, whether it is a frame as scripted, a frame with the
   code of WrongResultCodeFault or the header of MalformedFrameFault, and an
   item of a type it rejects.                                              *)
ScriptKinds == {"response", "unknown"}
Item == [what : ScriptKinds \cup {"poll"}, id : Nat \ {0}]
NoItem == [what |-> "none", id |-> 0]
Frame == Conns \X (Nat \ {0})

TypeOK ==
  /\ client \in [Conns -> {"unused", "dialling", "up", "closed"}]
  /\ asked \in [Conns -> Nat]
  /\ server \in [Conns -> {"none", "open", "closed"}]
  /\ handler \in [Conns -> {"none", "start", "drain", "inject", "read", "capture",
                            "await", "dispatch", "return", "done"}]
  /\ got \in [Conns -> Nat]
  /\ held \in [Conns -> Item \cup {NoItem}]
  /\ out \in [Conns -> Seq([item : Item, to : Nat])]
  /\ acceptLoop \in {"accept", "register", "spawn", "done"}
  /\ fresh \in 0 .. MaxConns
  /\ conn \in 0 .. MaxConns
  /\ wg \in Nat
  /\ Expect \in Seq(Item) /\ Len(Expect) <= ExpectCap
  /\ pollCh \in Seq(Item) /\ Len(pollCh) <= PollCap
  /\ Received \in Seq(Frame) /\ Len(Received) <= ReceivedCap
  /\ scripted \in 0 .. MaxScripted
  /\ injected \in 0 .. MaxPolls
  /\ taken \in SUBSET Frame
  /\ missed \in SUBSET Frame
  /\ test \in {"running", "cancelled", "closed", "finished"}

Init ==
  /\ client = [c \in Conns |-> "unused"]
  /\ asked = [c \in Conns |-> 0]
  /\ server = [c \in Conns |-> "none"]
  /\ handler = [c \in Conns |-> "none"]
  /\ got = [c \in Conns |-> 0]
  /\ held = [c \in Conns |-> NoItem]
  /\ out = [c \in Conns |-> <<>>]
  /\ acceptLoop = "accept"
  /\ fresh = 0
  /\ conn = 0
  /\ wg = 1
  /\ Expect = <<>> /\ pollCh = <<>> /\ Received = <<>>
  /\ scripted = 0 /\ injected = 0
  /\ taken = {} /\ missed = {}
  /\ test = "running"

ContextDone == test # "running"
ListenerOpen == test \in {"running", "cancelled"}

-----------------------------------------------------------------------------
(* The clients. *)

FramesSent == FoldFunction(LAMBDA m, n : m + n, 0, asked)

(* tls.Dial queues a connection at the listener. *)
ClientDial(c) ==
  /\ client[c] = "unused" /\ ListenerOpen
  /\ \A d \in 1 .. c - 1 : client[d] # "unused"
  /\ client' = [client EXCEPT ![c] = "dialling"]
  /\ UNCHANGED <<asked, handlerVars, acceptVars, wg, queueVars, testVars>>

ClientSend(c) ==
  /\ client[c] = "up" /\ FramesSent < MaxFrames
  /\ asked' = [asked EXCEPT ![c] = @ + 1]
  /\ UNCHANGED <<client, handlerVars, acceptVars, wg, queueVars, testVars>>

ClientClose(c) ==
  /\ client[c] \in {"dialling", "up"}
  /\ client' = [client EXCEPT ![c] = "closed"]
  /\ UNCHANGED <<asked, handlerVars, acceptVars, wg, queueVars, testVars>>

-----------------------------------------------------------------------------
(* The accept loop. *)

(* Accept returns the oldest connection of the backlog. *)
Accept(c) ==
  /\ acceptLoop = "accept" /\ ListenerOpen
  /\ client[c] # "unused" /\ server[c] = "none"
  /\ \A d \in 1 .. c - 1 : server[d] # "none"
  /\ server' = [server EXCEPT ![c] = "open"]
  /\ fresh' = c
  /\ acceptLoop' = "register"
  /\ UNCHANGED <<clientVars, handler, got, held, out, conn, wg, queueVars, testVars>>

(* s.conn = conn, under connMu. *)
BugFirstConnKept(c) == IF conn = 0 THEN c ELSE conn
ActiveConn(c) == c

Register ==
  /\ acceptLoop = "register"
  /\ conn' = ActiveConn(fresh)
  /\ acceptLoop' = "spawn"
  /\ UNCHANGED <<clientVars, handlerVars, fresh, wg, queueVars, testVars>>

(* s.wg.Add(1) before the go statement. *)
BugAddMissing == wg
WgAdd == wg + 1

Spawn ==
  /\ acceptLoop = "spawn"
  /\ wg' = WgAdd
  /\ handler' = [handler EXCEPT ![fresh] = "start"]
  /\ fresh' = 0
  /\ acceptLoop' = "accept"
  /\ UNCHANGED <<clientVars, server, got, held, out, conn, queueVars, testVars>>

(* Accept fails once the listener is closed. *)
AcceptEnds ==
  /\ acceptLoop = "accept" /\ ~ListenerOpen
  /\ acceptLoop' = "done"
  /\ wg' = wg - 1
  /\ UNCHANGED <<clientVars, handlerVars, fresh, conn, queueVars, testVars>>

-----------------------------------------------------------------------------
(* The handler of connection c. *)

HandlerAt(c, location) == handler[c] = location
HandlerGoto(c, location) == handler' = [handler EXCEPT ![c] = location]

(* A write of the handler can succeed; towards a client that is gone it may,
   and the frame is lost.                                                  *)
CanWrite(c) == server[c] = "open" /\ client[c] # "dialling"

(* SetDeadline, which fails on a connection that is closed already. *)
SetDeadline(c) ==
  /\ HandlerAt(c, "start")
  /\ HandlerGoto(c, IF server[c] = "open" THEN "drain" ELSE "return")
  /\ UNCHANGED <<clientVars, server, got, held, out, acceptVars, wg, queueVars, testVars>>

(* The select on pollCh: at most one payload per round. *)
TakePoll(c) ==
  /\ HandlerAt(c, "drain") /\ pollCh # <<>>
  /\ held' = [held EXCEPT ![c] = Head(pollCh)]
  /\ pollCh' = Tail(pollCh)
  /\ HandlerGoto(c, "inject")
  /\ UNCHANGED <<clientVars, server, got, out, acceptVars, wg, Expect, Received, testVars>>

SkipPoll(c) ==
  /\ HandlerAt(c, "drain") /\ pollCh = <<>>
  /\ HandlerGoto(c, "read")
  /\ UNCHANGED <<clientVars, server, got, held, out, acceptVars, wg, queueVars, testVars>>

(* The first read or write of the handler completes the TLS handshake. *)
Handshake(c) ==
  /\ handler[c] \in {"inject", "read"} /\ server[c] = "open"
  /\ client[c] = "dialling"
  /\ client' = [client EXCEPT ![c] = "up"]
  /\ UNCHANGED <<asked, handlerVars, acceptVars, wg, queueVars, testVars>>

(* WriteFrame of a held item, to is the frame it answers. *)
Write(c, to) ==
  /\ out' = IF client[c] = "up"
            THEN [out EXCEPT ![c] = Append(@, [item |-> held[c], to |-> to])]
            ELSE out
  /\ held' = [held EXCEPT ![c] = NoItem]

WritePoll(c) ==
  /\ HandlerAt(c, "inject") /\ CanWrite(c)
  /\ Write(c, 0)
  /\ HandlerGoto(c, "read")
  /\ UNCHANGED <<clientVars, server, got, acceptVars, wg, queueVars, testVars>>

(* A frame the client sent is read, even when the client is gone since. *)
ReadFrame(c) ==
  /\ HandlerAt(c, "read") /\ server[c] = "open" /\ got[c] < asked[c]
  /\ got' = [got EXCEPT ![c] = @ + 1]
  /\ HandlerGoto(c, "capture")
  /\ UNCHANGED <<clientVars, server, held, out, acceptVars, wg, queueVars, testVars>>

(* The non-blocking send to Received. *)
BugNotCaptured(c) == UNCHANGED <<Received, missed>>
BugReceivedUnbounded(c) ==
  Received' = Append(Received, <<c, got[c]>>) /\ UNCHANGED missed
SendReceived(c) ==
  IF Len(Received) < ReceivedCap
  THEN Received' = Append(Received, <<c, got[c]>>) /\ UNCHANGED missed
  ELSE missed' = missed \cup {<<c, got[c]>>} /\ UNCHANGED Received

Capture(c) ==
  /\ HandlerAt(c, "capture")
  /\ SendReceived(c)
  /\ HandlerGoto(c, "await")
  /\ UNCHANGED <<clientVars, server, got, held, out, acceptVars, wg, Expect, pollCh,
                 scripted, injected, taken, test>>

(* The select on ctx.Done and Expect chooses freely when both are ready. *)
TakeScripted(c) ==
  /\ HandlerAt(c, "await") /\ Expect # <<>>
  /\ held' = [held EXCEPT ![c] = Head(Expect)]
  /\ Expect' = Tail(Expect)
  /\ HandlerGoto(c, "dispatch")
  /\ UNCHANGED <<clientVars, server, got, out, acceptVars, wg, pollCh, Received, testVars>>

BugContextIgnored(c) == FALSE
SeesContextDone(c) == HandlerAt(c, "await") /\ ContextDone

StopWaiting(c) ==
  /\ SeesContextDone(c)
  /\ HandlerGoto(c, "return")
  /\ UNCHANGED <<clientVars, server, got, held, out, acceptVars, wg, queueVars, testVars>>

(* dispatch writes a response; then comes the next round. *)
BugAnswerRepeated(c) == Write(c, got[c]) /\ HandlerGoto(c, "await")
Respond(c) == Write(c, got[c]) /\ HandlerGoto(c, "drain")

Dispatch(c) ==
  /\ HandlerAt(c, "dispatch") /\ CanWrite(c) /\ held[c].what # "unknown"
  /\ Respond(c)
  /\ UNCHANGED <<clientVars, server, got, acceptVars, wg, queueVars, testVars>>

(* What becomes of Expect when a held response could not be written. *)
BugPutBack(c) ==
  Expect' = IF HandlerAt(c, "dispatch") THEN Append(Expect, held[c]) ELSE Expect
LoseItem(c) == UNCHANGED Expect

(* An item of unknown type, or a read or write that fails: DropConnection or
   the client has closed the connection, or the deadline of thirty seconds is
   over, which the model lets happen at any time.                          *)
Fail(c) ==
  /\ handler[c] \in {"inject", "read", "dispatch"}
  /\ held' = [held EXCEPT ![c] = NoItem]
  /\ LoseItem(c)
  /\ HandlerGoto(c, "return")
  /\ UNCHANGED <<clientVars, server, got, out, acceptVars, wg, pollCh, Received, testVars>>

(* The deferred conn.Close and wg.Done. *)
Return(c) ==
  /\ HandlerAt(c, "return")
  /\ server' = [server EXCEPT ![c] = "closed"]
  /\ HandlerGoto(c, "done")
  /\ wg' = wg - 1
  /\ UNCHANGED <<clientVars, got, held, out, acceptVars, queueVars, testVars>>

-----------------------------------------------------------------------------
(* The test. *)

Script(kind) ==
  /\ test = "running" /\ scripted + injected < MaxScripted /\ Len(Expect) < ExpectCap
  /\ Expect' = Append(Expect, [what |-> kind, id |-> scripted + 1])
  /\ scripted' = scripted + 1
  /\ UNCHANGED <<clientVars, handlerVars, acceptVars, wg, pollCh, Received,
                 injected, taken, missed, test>>

InjectPoll ==
  /\ test = "running" /\ Len(pollCh) < PollCap
  /\ injected < MaxPolls /\ scripted + injected < MaxScripted
  /\ pollCh' = Append(pollCh, [what |-> "poll", id |-> injected + 1])
  /\ injected' = injected + 1
  /\ UNCHANGED <<clientVars, handlerVars, acceptVars, wg, Expect, Received,
                 scripted, taken, missed, test>>

(* The handler of the dropped connection learns of it at its next read or
   write; one that waits for Expect goes on waiting.                       *)
DropConnection ==
  /\ test = "running" /\ conn # 0 /\ server[conn] = "open"
  /\ server' = [server EXCEPT ![conn] = "closed"]
  /\ UNCHANGED <<clientVars, handler, got, held, out, acceptVars, wg, queueVars, testVars>>

TakeReceived ==
  /\ Received # <<>>
  /\ taken' = taken \cup {Head(Received)}
  /\ Received' = Tail(Received)
  /\ UNCHANGED <<clientVars, handlerVars, acceptVars, wg, Expect, pollCh,
                 scripted, injected, missed, test>>

(* t.Cleanup: cancel, ln.Close, wg.Wait. *)
Cancel ==
  /\ test = "running"
  /\ test' = "cancelled"
  /\ UNCHANGED <<clientVars, handlerVars, acceptVars, wg, queueVars,
                 scripted, injected, taken, missed>>

CloseListener ==
  /\ test = "cancelled"
  /\ test' = "closed"
  /\ UNCHANGED <<clientVars, handlerVars, acceptVars, wg, queueVars,
                 scripted, injected, taken, missed>>

WaitReturns ==
  /\ test = "closed" /\ wg = 0
  /\ test' = "finished"
  /\ UNCHANGED <<clientVars, handlerVars, acceptVars, wg, queueVars,
                 scripted, injected, taken, missed>>

-----------------------------------------------------------------------------
AcceptStep == (\E c \in Conns : Accept(c)) \/ Register \/ Spawn \/ AcceptEnds

HandlerStep(c) ==
  \/ SetDeadline(c)
  \/ TakePoll(c) \/ SkipPoll(c) \/ WritePoll(c)
  \/ Handshake(c)
  \/ ReadFrame(c) \/ Capture(c)
  \/ TakeScripted(c) \/ StopWaiting(c) \/ Dispatch(c)
  \/ Fail(c) \/ Return(c)

ClientStep(c) == ClientDial(c) \/ ClientSend(c) \/ ClientClose(c)

TestStep ==
  \/ \E kind \in ScriptKinds : Script(kind)
  \/ InjectPoll \/ DropConnection \/ TakeReceived
  \/ Cancel \/ CloseListener \/ WaitReturns

Next ==
  \/ AcceptStep
  \/ \E c \in Conns : HandlerStep(c)
  \/ \E c \in Conns : ClientStep(c)
  \/ TestStep

Spec == Init /\ [][Next]_vars

(* Goroutines run, a handler's reads and writes return by the deadline at the
   latest, and a cleanup that has begun goes on.  Clients need not do
   anything, and no test need end.                                         *)
Fairness ==
  /\ WF_vars(AcceptStep)
  /\ \A c \in Conns : WF_vars(HandlerStep(c))
  /\ WF_vars(CloseListener \/ WaitReturns)

FairSpec == Spec /\ Fairness

-----------------------------------------------------------------------------
(* Where the responses stand among what the handler of c has written. *)
Replies(c) == {i \in DOMAIN out[c] : out[c][i].to # 0}

Queued(q) == {q[i] : i \in DOMAIN q}

(* On one connection the n-th scripted response that reaches the client
   answers the n-th frame, whatever is injected, dropped or delayed: dispatch
   runs once per ReadFrame, and a handler that fails to answer stops.      *)
RepliesPaired ==
  \A c \in Conns : \A i \in Replies(c) :
    out[c][i].to = Cardinality({j \in Replies(c) : j <= i})

(* Handlers share Expect, and yet a response is used once, and none is handed
   out before one that was scripted earlier.                               *)
ScriptInOrder ==
  LET Id(c, i) == out[c][i].item.id
  IN \A c \in Conns : \A i \in Replies(c) :
       /\ \A d \in Conns : \A j \in Replies(d) : Id(c, i) = Id(d, j) => c = d /\ i = j
       /\ \A j \in Replies(c) : i < j => Id(c, i) < Id(c, j)
       /\ \A e \in Queued(Expect) : Id(c, i) < e.id

(* Whoever has an answer in hand finds the frame it answers captured, unless
   Received was full: tests read Received right after the call returned.   *)
CapturedBeforeAnswered ==
  \A c \in Conns : \A i \in Replies(c) :
    <<c, out[c][i].to>> \in Queued(Received) \cup taken \cup missed

(* Once tls.Dial has returned, DropConnection acts on that connection or on a
   later one, never on an earlier one: the handshake needs the handler, which
   acceptLoop starts after it has set s.conn.                              *)
DropHitsLatest == \A c \in Conns : client[c] = "up" => conn >= c

(* A handler runs. *)
Running(c) == handler[c] \notin {"none", "done"}

(* When the cleanup of a test has returned, no goroutine of the server is
   left and no connection is open (the constructor's comment: wg.Wait "drains
   all handler goroutines before the test exits").                         *)
CleanupLeavesNothing ==
  test = "finished" =>
    acceptLoop = "done" /\ \A c \in Conns : ~Running(c) /\ server[c] # "open"

(* A cleanup that has begun ends, also when a handler waits for a response
   nobody will script or for a client that does nothing.                   *)
CleanupEnds == test = "cancelled" ~> test = "finished"
=============================================================================
