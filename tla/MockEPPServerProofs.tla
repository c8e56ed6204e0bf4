-------------------------- MODULE MockEPPServerProofs --------------------------
(***************************************************************************)
(* Theorems about MockEPPServer, for any number of connections, frames and *)
(* scripted items and any capacity of the channels.                        *)
(***************************************************************************)
EXTENDS MockEPPServer, SequenceTheorems, FiniteSetTheorems, TLAPS

-----------------------------------------------------------------------------
(* Sequences and finite sets. *)
LEMMA AppendFacts ==
  ASSUME NEW S, NEW s \in Seq(S), NEW e \in S
  PROVE  /\ Append(s, e) \in Seq(S) /\ Len(s) \in Nat
         /\ DOMAIN s = 1 .. Len(s) /\ DOMAIN Append(s, e) = 1 .. Len(s) + 1
         /\ Len(Append(s, e)) = Len(s) + 1
         /\ \A i \in 1 .. Len(s) : Append(s, e)[i] = s[i]
         /\ Append(s, e)[Len(s) + 1] = e
  <1>1. /\ Append(s, e) \in Seq(S) /\ Len(Append(s, e)) = Len(s) + 1
        /\ \A i \in 1 .. Len(s) : Append(s, e)[i] = s[i]
        /\ Append(s, e)[Len(s) + 1] = e
    BY AppendProperties
  <1>2. Len(s) \in Nat /\ DOMAIN s = 1 .. Len(s) /\ DOMAIN Append(s, e) = 1 .. Len(Append(s, e))
    BY <1>1, LenProperties
  <1>3. QED
    BY <1>1, <1>2

LEMMA TailFacts ==
  ASSUME NEW S, NEW s \in Seq(S), s # <<>>
  PROVE  /\ Head(s) \in S /\ Head(s) = s[1] /\ Tail(s) \in Seq(S)
         /\ Len(s) \in Nat /\ Len(s) >= 1 /\ Len(Tail(s)) = Len(s) - 1
         /\ DOMAIN s = 1 .. Len(s) /\ DOMAIN Tail(s) = 1 .. Len(s) - 1
         /\ \A i \in 1 .. Len(s) - 1 : Tail(s)[i] = s[i + 1]
  <1>1. /\ Head(s) \in S /\ Tail(s) \in Seq(S) /\ Len(Tail(s)) = Len(s) - 1
        /\ \A i \in 1 .. Len(Tail(s)) : Tail(s)[i] = s[i + 1]
    BY HeadTailProperties
  <1>2. Len(s) \in Nat /\ DOMAIN s = 1 .. Len(s) /\ DOMAIN Tail(s) = 1 .. Len(Tail(s))
    BY <1>1, LenProperties
  <1>3. Len(s) # 0 /\ Head(s) = s[1]
    BY EmptySeq
  <1>4. QED
    BY <1>1, <1>2, <1>3

(* What a queue holds after a send and after a receive. *)
LEMMA QueuedAppend ==
  ASSUME NEW S, NEW s \in Seq(S), NEW e \in S
  PROVE  Queued(Append(s, e)) = Queued(s) \cup {e}
  <1>1. /\ DOMAIN s = 1 .. Len(s) /\ DOMAIN Append(s, e) = 1 .. Len(s) + 1 /\ Len(s) \in Nat
        /\ \A i \in 1 .. Len(s) : Append(s, e)[i] = s[i]
        /\ Append(s, e)[Len(s) + 1] = e
    BY AppendFacts
  <1>2. ASSUME NEW x \in Queued(s) PROVE x \in Queued(Append(s, e))
    <2>1. PICK i \in 1 .. Len(s) : x = s[i]
      BY <1>1 DEF Queued
    <2>2. i \in 1 .. Len(s) + 1 /\ x = Append(s, e)[i]
      BY <1>1, <2>1
    <2>3. QED
      BY <1>1, <2>2 DEF Queued
  <1>3. e \in Queued(Append(s, e))
    <2>1. Len(s) + 1 \in DOMAIN Append(s, e)
      BY <1>1
    <2>2. QED
      BY <1>1, <2>1 DEF Queued
  <1>4. ASSUME NEW x \in Queued(Append(s, e)) PROVE x \in Queued(s) \cup {e}
    <2>1. PICK i \in 1 .. Len(s) + 1 : x = Append(s, e)[i]
      BY <1>1 DEF Queued
    <2>2. i \in 1 .. Len(s) \/ i = Len(s) + 1
      BY <1>1
    <2>3. QED
      BY <1>1, <2>1, <2>2 DEF Queued
  <1>5. QED
    BY <1>2, <1>3, <1>4

LEMMA QueuedTail ==
  ASSUME NEW S, NEW s \in Seq(S), s # <<>>
  PROVE  Queued(s) = {Head(s)} \cup Queued(Tail(s))
  <1>1. /\ Head(s) = s[1] /\ Len(s) \in Nat /\ Len(s) >= 1
        /\ DOMAIN s = 1 .. Len(s) /\ DOMAIN Tail(s) = 1 .. Len(s) - 1
        /\ \A i \in 1 .. Len(s) - 1 : Tail(s)[i] = s[i + 1]
    BY TailFacts
  <1>2. ASSUME NEW x \in Queued(s) PROVE x \in {Head(s)} \cup Queued(Tail(s))
    <2>1. PICK i \in 1 .. Len(s) : x = s[i]
      BY <1>1 DEF Queued
    <2>2. CASE i = 1
      BY <1>1, <2>1, <2>2
    <2>3. CASE i # 1
      <3>1. i - 1 \in 1 .. Len(s) - 1 /\ i = (i - 1) + 1
        BY <1>1, <2>3
      <3>2. Tail(s)[i - 1] = x
        BY <1>1, <2>1, <3>1
      <3>3. QED
        BY <1>1, <3>1, <3>2 DEF Queued
    <2>4. QED
      BY <2>2, <2>3
  <1>3. ASSUME NEW x \in Queued(Tail(s)) PROVE x \in Queued(s)
    <2>1. PICK i \in 1 .. Len(s) - 1 : x = Tail(s)[i]
      BY <1>1 DEF Queued
    <2>2. i + 1 \in 1 .. Len(s) /\ x = s[i + 1]
      BY <1>1, <2>1
    <2>3. QED
      BY <1>1, <2>2 DEF Queued
  <1>4. Head(s) \in Queued(s)
    BY <1>1 DEF Queued
  <1>5. QED
    BY <1>2, <1>3, <1>4

-----------------------------------------------------------------------------
(* Types. *)
Locations == {"none", "start", "drain", "inject", "read", "capture",
              "await", "dispatch", "return", "done"}
Written == [item : Item, to : Nat]

(* A handler that is about to write holds an item, and one that is between its
   read and its write has read a frame.                                        *)
Answering(c) == handler[c] \in {"capture", "await", "dispatch"}

HeldInv ==
  \A c \in Conns :
    /\ handler[c] \in {"inject", "dispatch"} => held[c] \in Item
    /\ Answering(c) => got[c] >= 1

LEMMA TypesAre ==
  TypeOK => /\ client \in [Conns -> {"unused", "dialling", "up", "closed"}]
            /\ asked \in [Conns -> Nat] /\ got \in [Conns -> Nat]
            /\ server \in [Conns -> {"none", "open", "closed"}]
            /\ handler \in [Conns -> Locations]
            /\ held \in [Conns -> Item \cup {NoItem}] /\ out \in [Conns -> Seq(Written)]
            /\ Expect \in Seq(Item) /\ pollCh \in Seq(Item) /\ Received \in Seq(Frame)
  BY DEF TypeOK, Locations, Written

LEMMA ItemFacts ==
  /\ NoItem.id = 0 /\ \A x \in Item : x.id \in Nat \ {0}
  /\ \A kind \in ScriptKinds \cup {"poll"}, n \in Nat \ {0} : [what |-> kind, id |-> n] \in Item
  BY DEF NoItem, Item

LEMMA TypeInit == Init => TypeOK /\ HeldInv
  BY MockAssumption DEF Init, TypeOK, HeldInv, Answering

(* A step of the accept loop or of a client. *)
LEMMA AcceptTypes ==
  ASSUME TypeOK, HeldInv, wg' \in Nat, AcceptStep
  PROVE  TypeOK' /\ HeldInv'
  <1>1. ASSUME NEW c \in Conns, Accept(c) PROVE TypeOK' /\ HeldInv'
    <2>1. server' \in [Conns -> {"none", "open", "closed"}] /\ c \in 0 .. MaxConns
      BY <1>1, MockAssumption DEF Accept, TypeOK, Conns
    <2>2. QED
      BY <1>1, <2>1 DEF Accept, TypeOK, HeldInv, Answering, clientVars, queueVars, testVars
  <1>2. CASE Register
    BY <1>2 DEF Register, ActiveConn, TypeOK, HeldInv, Answering, clientVars, handlerVars,
                queueVars, testVars
  <1>3. CASE Spawn
    <2>1. handler' \in [Conns -> Locations] /\ 0 \in 0 .. MaxConns
      <3>1. handler \in [Conns -> Locations] /\ "start" \in Locations
        BY TypesAre DEF Locations
      <3>2. 0 \in 0 .. MaxConns
        BY MockAssumption
      <3>3. handler' = [handler EXCEPT ![fresh] = "start"]
        BY <1>3 DEF Spawn
      <3>4. QED
        BY <3>1, <3>2, <3>3
    <2>2. \A c \in Conns : handler'[c] \in {"start", handler[c]}
      BY <1>3, TypesAre DEF Spawn
    <2>3. HeldInv'
      BY <1>3, <2>2 DEF Spawn, HeldInv, Answering
    <2>4. QED
      BY <1>3, <2>1, <2>3 DEF Spawn, TypeOK, Locations, clientVars, queueVars, testVars
  <1>4. CASE AcceptEnds
    BY <1>4 DEF AcceptEnds, TypeOK, HeldInv, Answering, clientVars, handlerVars, queueVars, testVars
  <1>5. QED
    BY <1>1, <1>2, <1>3, <1>4 DEF AcceptStep

LEMMA ClientTypes ==
  ASSUME TypeOK, HeldInv, NEW c \in Conns, ClientStep(c) \/ Handshake(c)
  PROVE  TypeOK' /\ HeldInv'
  <1>1. UNCHANGED <<handlerVars, acceptVars, wg, queueVars, testVars>>
    BY DEF ClientStep, ClientDial, ClientSend, ClientClose, Handshake
  <1>2. \/ \E s \in {"dialling", "up", "closed"} : client' = [client EXCEPT ![c] = s]
           /\ asked' = asked
        \/ asked' = [asked EXCEPT ![c] = asked[c] + 1] /\ client' = client
    BY DEF ClientStep, ClientDial, ClientSend, ClientClose, Handshake
  <1>3. client' \in [Conns -> {"unused", "dialling", "up", "closed"}]
    BY <1>2, TypesAre
  <1>4. asked' \in [Conns -> Nat]
    <2>1. asked \in [Conns -> Nat] /\ asked[c] + 1 \in Nat
      BY TypesAre
    <2>2. asked' = asked \/ asked' = [asked EXCEPT ![c] = asked[c] + 1]
      BY <1>2
    <2>3. QED
      BY <2>1, <2>2
  <1>5. QED
    BY <1>1, <1>3, <1>4 DEF TypeOK, HeldInv, Answering, handlerVars, acceptVars, queueVars, testVars

(* What the handler of c has written is typed after every write. *)
LEMMA WriteTypes ==
  ASSUME TypeOK, NEW c \in Conns, NEW to \in Nat, held[c] \in Item, Write(c, to)
  PROVE  /\ out' \in [Conns -> Seq(Written)]
         /\ held' = [held EXCEPT ![c] = NoItem] /\ held' \in [Conns -> Item \cup {NoItem}]
  <1>1. out \in [Conns -> Seq(Written)] /\ held \in [Conns -> Item \cup {NoItem}]
    BY TypesAre
  <1>2. Append(out[c], [item |-> held[c], to |-> to]) \in Seq(Written)
    BY <1>1, AppendFacts DEF Written
  <1>3. QED
    BY <1>1, <1>2 DEF Write

(* A step of the handler of c, from what it does to the variables. *)
LEMMA HandlerTypesFrom ==
  ASSUME TypeOK, HeldInv, NEW c \in Conns, NEW l \in Locations, HandlerGoto(c, l),
         held' = held \/ \E x \in Item \cup {NoItem} : held' = [held EXCEPT ![c] = x],
         l \in {"inject", "dispatch"} => held'[c] \in Item,
         l = "capture" => got'[c] >= 1,
         l \in {"await", "dispatch"} => Answering(c) /\ got' = got,
         got' = got \/ got' = [got EXCEPT ![c] = got[c] + 1]
  PROVE  /\ handler' \in [Conns -> Locations] /\ held' \in [Conns -> Item \cup {NoItem}]
         /\ HeldInv'
  <1>1. handler \in [Conns -> Locations] /\ held \in [Conns -> Item \cup {NoItem}]
    BY TypesAre
  <1>2. handler' \in [Conns -> Locations] /\ handler'[c] = l
        /\ \A d \in Conns \ {c} : handler'[d] = handler[d]
    BY <1>1 DEF HandlerGoto
  <1>3. held' \in [Conns -> Item \cup {NoItem}] /\ \A d \in Conns \ {c} : held'[d] = held[d]
    BY <1>1
  <1>4. \A d \in Conns \ {c} : got'[d] = got[d]
    BY TypesAre
  <1>5. Answering(c)' => got'[c] >= 1
    BY <1>2 DEF Answering, HeldInv
  <1>6. QED
    BY <1>2, <1>3, <1>4, <1>5 DEF HeldInv, Answering

LEMMA HandlerTypes ==
  ASSUME TypeOK, HeldInv, wg' \in Nat, NEW c \in Conns, HandlerStep(c)
  PROVE  TypeOK' /\ HeldInv'
  <1>1. CASE SetDeadline(c) \/ SkipPoll(c) \/ StopWaiting(c)
    <2>1. PICK l \in {"drain", "return", "read"} :
            HandlerGoto(c, l) /\ UNCHANGED <<server, got, held, out, clientVars, acceptVars, wg,
                                             queueVars, testVars>>
      BY <1>1 DEF SetDeadline, SkipPoll, StopWaiting
    <2>2. handler' \in [Conns -> Locations] /\ HeldInv'
      BY <2>1, HandlerTypesFrom DEF Locations
    <2>3. QED
      BY <2>1, <2>2 DEF TypeOK, Locations, clientVars, acceptVars, queueVars, testVars
  <1>2. CASE TakePoll(c)
    <2>1. pollCh \in Seq(Item) /\ pollCh # <<>> /\ Len(pollCh) <= PollCap /\ PollCap \in Nat
      BY <1>2, MockAssumption DEF TakePoll, TypeOK
    <2>2. Head(pollCh) \in Item /\ Tail(pollCh) \in Seq(Item) /\ Len(Tail(pollCh)) <= PollCap
      BY <2>1, TailFacts
    <2>3. HandlerGoto(c, "inject") /\ held' = [held EXCEPT ![c] = Head(pollCh)]
          /\ held'[c] = Head(pollCh) /\ got' = got
      BY <1>2, TypesAre DEF TakePoll
    <2>4. /\ handler' \in [Conns -> Locations] /\ held' \in [Conns -> Item \cup {NoItem}]
          /\ HeldInv'
      BY <2>2, <2>3, HandlerTypesFrom DEF Locations
    <2>5. QED
      BY <1>2, <2>2, <2>4 DEF TakePoll, TypeOK, Locations, clientVars, acceptVars, testVars
  <1>3. CASE WritePoll(c) \/ Dispatch(c)
    <2>1. PICK to \in {0, got[c]}, l \in {"read", "drain"} :
            /\ handler[c] \in {"inject", "dispatch"} /\ Write(c, to) /\ HandlerGoto(c, l)
            /\ UNCHANGED <<clientVars, server, got, acceptVars, wg, queueVars, testVars>>
      BY <1>3 DEF WritePoll, Dispatch, Respond, HandlerAt
    <2>2. held[c] \in Item /\ to \in Nat
      BY <2>1, TypesAre DEF HeldInv
    <2>3. /\ out' \in [Conns -> Seq(Written)]
          /\ held' = [held EXCEPT ![c] = NoItem] /\ held' \in [Conns -> Item \cup {NoItem}]
      BY <2>1, <2>2, WriteTypes
    <2>4. handler' \in [Conns -> Locations] /\ HeldInv'
      BY <2>1, <2>3, HandlerTypesFrom DEF Locations
    <2>5. QED
      BY <2>1, <2>3, <2>4
      DEF TypeOK, Written, Locations, clientVars, acceptVars, queueVars, testVars
  <1>4. CASE Handshake(c)
    BY <1>4, ClientTypes
  <1>5. CASE ReadFrame(c)
    <2>1. /\ HandlerGoto(c, "capture") /\ held' = held /\ got' = [got EXCEPT ![c] = got[c] + 1]
          /\ got' \in [Conns -> Nat] /\ got'[c] >= 1
      BY <1>5, TypesAre DEF ReadFrame
    <2>2. handler' \in [Conns -> Locations] /\ HeldInv'
      BY <2>1, HandlerTypesFrom DEF Locations
    <2>3. QED
      BY <1>5, <2>1, <2>2 DEF ReadFrame, TypeOK, Locations, clientVars, acceptVars, queueVars, testVars
  <1>6. CASE Capture(c)
    <2>1. HandlerGoto(c, "await") /\ held' = held /\ got' = got
      BY <1>6 DEF Capture
    <2>2. handler' \in [Conns -> Locations] /\ HeldInv'
      BY <1>6, <2>1, HandlerTypesFrom DEF Locations, Capture, HandlerAt, Answering
    <2>3. <<c, got[c]>> \in Frame
      BY <1>6, TypesAre DEF Capture, HandlerAt, HeldInv, Answering, Frame
    <2>4. /\ Received' \in Seq(Frame) /\ Len(Received') <= ReceivedCap
          /\ missed' \in SUBSET Frame
      <3>1. /\ Received \in Seq(Frame) /\ Len(Received) \in Nat /\ Len(Received) <= ReceivedCap
            /\ missed \in SUBSET Frame /\ ReceivedCap \in Nat
        BY MockAssumption, LenProperties DEF TypeOK
      <3>2. CASE Len(Received) < ReceivedCap
        <4>1. Received' = Append(Received, <<c, got[c]>>) /\ missed' = missed
          BY <1>6, <3>2 DEF Capture, SendReceived
        <4>2. QED
          BY <2>3, <3>1, <3>2, <4>1, AppendFacts
      <3>3. CASE ~(Len(Received) < ReceivedCap)
        BY <1>6, <2>3, <3>1, <3>3 DEF Capture, SendReceived
      <3>4. QED
        BY <3>2, <3>3
    <2>5. QED
      BY <1>6, <2>1, <2>2, <2>4 DEF Capture, TypeOK, Locations, clientVars, acceptVars
  <1>7. CASE TakeScripted(c)
    <2>1. Expect \in Seq(Item) /\ Expect # <<>> /\ Len(Expect) <= ExpectCap /\ ExpectCap \in Nat
      BY <1>7, MockAssumption DEF TakeScripted, TypeOK
    <2>2. Head(Expect) \in Item /\ Tail(Expect) \in Seq(Item) /\ Len(Tail(Expect)) <= ExpectCap
      BY <2>1, TailFacts
    <2>3. HandlerGoto(c, "dispatch") /\ held' = [held EXCEPT ![c] = Head(Expect)]
          /\ held'[c] = Head(Expect) /\ got' = got /\ Answering(c)
      BY <1>7, TypesAre DEF TakeScripted, HandlerAt, Answering
    <2>4. /\ handler' \in [Conns -> Locations] /\ held' \in [Conns -> Item \cup {NoItem}]
          /\ HeldInv'
      BY <2>2, <2>3, HandlerTypesFrom DEF Locations
    <2>5. QED
      BY <1>7, <2>2, <2>4 DEF TakeScripted, TypeOK, Locations, clientVars, acceptVars, testVars
  <1>8. CASE Fail(c)
    <2>1. HandlerGoto(c, "return") /\ held' = [held EXCEPT ![c] = NoItem] /\ got' = got
      BY <1>8 DEF Fail
    <2>2. /\ handler' \in [Conns -> Locations] /\ held' \in [Conns -> Item \cup {NoItem}]
          /\ HeldInv'
      BY <2>1, HandlerTypesFrom DEF Locations
    <2>3. QED
      BY <1>8, <2>2 DEF Fail, LoseItem, TypeOK, Locations, clientVars, acceptVars, testVars
  <1>9. CASE Return(c)
    <2>1. /\ HandlerGoto(c, "done") /\ held' = held /\ got' = got
          /\ server' \in [Conns -> {"none", "open", "closed"}]
      BY <1>9, TypesAre DEF Return
    <2>2. handler' \in [Conns -> Locations] /\ HeldInv'
      BY <2>1, HandlerTypesFrom DEF Locations
    <2>3. QED
      BY <1>9, <2>1, <2>2 DEF Return, TypeOK, Locations, clientVars, acceptVars, queueVars, testVars
  <1>10. QED
    BY <1>1, <1>2, <1>3, <1>4, <1>5, <1>6, <1>7, <1>8, <1>9 DEF HandlerStep

(* A step of the test. *)
LEMMA TestTypes ==
  ASSUME TypeOK, HeldInv, TestStep
  PROVE  TypeOK' /\ HeldInv'
  <1>1. ASSUME NEW kind \in ScriptKinds, Script(kind) PROVE TypeOK' /\ HeldInv'
    <2> DEFINE x == [what |-> kind, id |-> scripted + 1]
    <2>1. /\ Expect \in Seq(Item) /\ Len(Expect) < ExpectCap /\ Len(Expect) \in Nat
          /\ scripted \in 0 .. MaxScripted /\ injected \in 0 .. MaxPolls
          /\ scripted + injected < MaxScripted
          /\ ExpectCap \in Nat /\ MaxScripted \in Nat /\ MaxPolls \in Nat
      BY <1>1, MockAssumption, LenProperties DEF Script, TypeOK
    <2>2. x \in Item /\ scripted + 1 \in 0 .. MaxScripted
      BY <2>1, ItemFacts
    <2>3. Append(Expect, x) \in Seq(Item) /\ Len(Append(Expect, x)) <= ExpectCap
      BY <2>1, <2>2, AppendFacts
    <2>4. QED
      BY <1>1, <2>2, <2>3
      DEF Script, TypeOK, HeldInv, Answering, clientVars, handlerVars, acceptVars
  <1>2. CASE InjectPoll
    <2> DEFINE x == [what |-> "poll", id |-> injected + 1]
    <2>1. /\ pollCh \in Seq(Item) /\ Len(pollCh) < PollCap /\ Len(pollCh) \in Nat
          /\ injected \in 0 .. MaxPolls /\ injected < MaxPolls
          /\ PollCap \in Nat /\ MaxPolls \in Nat
      BY <1>2, MockAssumption, LenProperties DEF InjectPoll, TypeOK
    <2>2. x \in Item /\ injected + 1 \in 0 .. MaxPolls
      BY <2>1, ItemFacts
    <2>3. Append(pollCh, x) \in Seq(Item) /\ Len(Append(pollCh, x)) <= PollCap
      BY <2>1, <2>2, AppendFacts
    <2>4. QED
      BY <1>2, <2>2, <2>3
      DEF InjectPoll, TypeOK, HeldInv, Answering, clientVars, handlerVars, acceptVars
  <1>3. CASE DropConnection
    <2>1. server' \in [Conns -> {"none", "open", "closed"}]
      BY <1>3, TypesAre DEF DropConnection
    <2>2. QED
      BY <1>3, <2>1 DEF DropConnection, TypeOK, HeldInv, Answering, clientVars, acceptVars,
                        queueVars, testVars
  <1>4. CASE TakeReceived
    <2>1. /\ Received \in Seq(Frame) /\ Received # <<>> /\ Len(Received) <= ReceivedCap
          /\ ReceivedCap \in Nat /\ taken \in SUBSET Frame
      BY <1>4, MockAssumption DEF TakeReceived, TypeOK
    <2>2. /\ Head(Received) \in Frame /\ Tail(Received) \in Seq(Frame)
          /\ Len(Tail(Received)) <= ReceivedCap
      BY <2>1, TailFacts
    <2>3. taken' \in SUBSET Frame
      BY <1>4, <2>1, <2>2 DEF TakeReceived
    <2>4. QED
      BY <1>4, <2>2, <2>3
      DEF TakeReceived, TypeOK, HeldInv, Answering, clientVars, handlerVars, acceptVars
  <1>5. CASE Cancel \/ CloseListener \/ WaitReturns
    <2>1. /\ UNCHANGED <<clientVars, handlerVars, acceptVars, wg, queueVars,
                         scripted, injected, taken, missed>>
          /\ test' \in {"running", "cancelled", "closed", "finished"}
      BY <1>5 DEF Cancel, CloseListener, WaitReturns
    <2>2. QED
      BY <2>1 DEF TypeOK, HeldInv, Answering, clientVars, handlerVars, acceptVars, queueVars
  <1>6. QED
    BY <1>1, <1>2, <1>3, <1>4, <1>5 DEF TestStep

LEMMA TypeStep ==
  ASSUME TypeOK, HeldInv, wg' \in Nat, [Next]_vars
  PROVE  TypeOK' /\ HeldInv'
  <1>1. CASE UNCHANGED vars
    BY <1>1 DEF vars, TypeOK, HeldInv, Answering, clientVars, handlerVars, acceptVars,
                queueVars, testVars
  <1>2. QED
    BY <1>1, AcceptTypes, HandlerTypes, ClientTypes, TestTypes DEF Next

-----------------------------------------------------------------------------
(* The accept loop.  It starts the handlers in the order of the connections,
   after it has set s.conn, and so the dialled connection of a client that has
   finished its handshake is never later than s.conn.                         *)
Accepting ==
  acceptLoop \in {"register", "spawn"} =>
    /\ fresh \in Conns /\ handler[fresh] = "none" /\ server[fresh] # "none"
    /\ \A c \in Conns : server[c] # "none" => c <= fresh

Handled(c) ==
  /\ server[c] # "none" => \A d \in 1 .. c - 1 : server[d] # "none"
  /\ server[c] # "none" /\ handler[c] = "none" => c = fresh
  /\ handler[c] # "none" => server[c] # "none" /\ conn >= c
  /\ handler[c] = "done" => server[c] = "closed"
  /\ client[c] = "up" => handler[c] # "none"

AcceptInv ==
  /\ Accepting
  /\ acceptLoop = "spawn" => conn = fresh
  /\ acceptLoop \in {"accept", "done"} => fresh = 0
  /\ \A c \in Conns : Handled(c)

LEMMA AcceptInit == Init => AcceptInv
  BY DEF Init, AcceptInv, Accepting, Handled

(* A step that starts no handler and accepts no connection. *)
LEMMA AcceptKept ==
  ASSUME TypeOK, AcceptInv, UNCHANGED acceptVars,
         \A c \in Conns :
           /\ handler'[c] = "none" <=> handler[c] = "none"
           /\ server'[c] = "none" <=> server[c] = "none"
           /\ handler'[c] = "done" =>
                \/ handler[c] = "done" /\ server'[c] = server[c]
                \/ server'[c] = "closed"
           /\ client'[c] = "up" => client[c] = "up" \/ handler[c] # "none"
  PROVE  AcceptInv'
  <1>1. Accepting'
    BY DEF AcceptInv, Accepting, acceptVars
  <1>2. ASSUME NEW c \in Conns PROVE Handled(c)'
    <2>1. Handled(c) /\ \A d \in 1 .. c - 1 : d \in Conns
      BY MockAssumption DEF AcceptInv, Conns
    <2>2. QED
      BY <2>1 DEF Handled, acceptVars
  <1>3. QED
    BY <1>1, <1>2 DEF AcceptInv, acceptVars

(* Where a step of the handler of c leaves it. *)
LEMMA HandlerMoves ==
  ASSUME TypeOK, NEW c \in Conns, HandlerStep(c)
  PROVE  /\ UNCHANGED <<acceptVars, asked, scripted, injected, taken, test>>
         /\ Handshake(c) \/ client' = client
         /\ \A d \in Conns \ {c} :
              handler'[d] = handler[d] /\ held'[d] = held[d] /\ got'[d] = got[d] /\ out'[d] = out[d]
         /\ \/ Handshake(c) /\ UNCHANGED <<handlerVars, wg>>
            \/ Return(c) /\ handler[c] = "return" /\ handler'[c] = "done"
            \/ /\ UNCHANGED <<server, wg>>
               /\ handler[c] \notin {"none", "done"} /\ handler'[c] \notin {"none", "done"}
  <1>1. UNCHANGED <<acceptVars, asked, scripted, injected, taken, test>>
        /\ (Handshake(c) \/ client' = client)
    BY DEF HandlerStep, SetDeadline, TakePoll, SkipPoll, WritePoll, Handshake, ReadFrame, Capture,
           TakeScripted, StopWaiting, Dispatch, Fail, Return, clientVars, testVars
  <1>2. ASSUME NEW d \in Conns \ {c}
        PROVE  handler'[d] = handler[d] /\ held'[d] = held[d] /\ got'[d] = got[d] /\ out'[d] = out[d]
    <2>1. CASE SetDeadline(c) \/ SkipPoll(c) \/ StopWaiting(c) \/ Return(c) \/ Capture(c)
      BY <2>1, TypesAre DEF SetDeadline, SkipPoll, StopWaiting, Return, Capture, HandlerGoto
    <2>2. CASE TakePoll(c) \/ TakeScripted(c) \/ Fail(c) \/ ReadFrame(c)
      BY <2>2, TypesAre DEF TakePoll, TakeScripted, Fail, ReadFrame, HandlerGoto
    <2>3. CASE WritePoll(c) \/ Dispatch(c)
      BY <2>3, TypesAre DEF WritePoll, Dispatch, Respond, Write, HandlerGoto
    <2>4. CASE Handshake(c)
      BY <2>4 DEF Handshake, handlerVars
    <2>5. QED
      BY <2>1, <2>2, <2>3, <2>4 DEF HandlerStep
  <1>3. CASE Handshake(c)
    BY <1>1, <1>2, <1>3 DEF Handshake
  <1>4. CASE Return(c)
    <2>1. handler[c] = "return" /\ handler'[c] = "done"
      BY <1>4, TypesAre DEF Return, HandlerAt, HandlerGoto
    <2>2. QED
      BY <1>1, <1>2, <1>4, <2>1
  <1>5. CASE ~Handshake(c) /\ ~Return(c)
    <2>1. /\ UNCHANGED <<server, wg>> /\ handler[c] \notin {"none", "done"}
          /\ \E l \in Locations \ {"none", "done"} : handler' = [handler EXCEPT ![c] = l]
      BY <1>5
      DEF HandlerStep, SetDeadline, TakePoll, SkipPoll, WritePoll, ReadFrame, Capture,
          TakeScripted, StopWaiting, Dispatch, Respond, Fail, HandlerAt, HandlerGoto,
          Locations, SeesContextDone
    <2>2. handler'[c] \notin {"none", "done"}
      BY <2>1, TypesAre
    <2>3. QED
      BY <1>1, <1>2, <2>1, <2>2
  <1>6. QED
    BY <1>3, <1>4, <1>5

(* The test moves no handler. *)
LEMMA TestMoves ==
  ASSUME TestStep
  PROVE  /\ UNCHANGED <<clientVars, acceptVars, wg, handler, got, held, out>>
         /\ test' = "finished" => test = "finished" \/ wg = 0
         /\ DropConnection \/ server' = server
  BY DEF TestStep, Script, InjectPoll, DropConnection, TakeReceived, Cancel, CloseListener,
         WaitReturns, handlerVars, testVars

LEMMA AcceptStepInv == TypeOK /\ AcceptInv /\ [Next]_vars => AcceptInv'
  <1>1. SUFFICES ASSUME TypeOK, AcceptInv, [Next]_vars PROVE AcceptInv'
    OBVIOUS
  <1>2. ASSUME NEW c \in Conns, Accept(c) PROVE AcceptInv'
    <2>1. /\ server' = [server EXCEPT ![c] = "open"] /\ fresh' = c /\ acceptLoop' = "register"
          /\ handler' = handler /\ conn' = conn /\ client' = client
          /\ server[c] = "none" /\ fresh = 0
          /\ \A d \in 1 .. c - 1 : server[d] # "none"
      BY <1>1, <1>2 DEF Accept, clientVars, AcceptInv
    <2>2. /\ server'[c] = "open" /\ \A d \in Conns \ {c} : server'[d] = server[d]
          /\ \A d \in Conns : Handled(d)
      BY <1>1, <2>1, TypesAre DEF AcceptInv
    <2>3. ASSUME NEW d \in Conns, server[d] # "none" PROVE d < c
      <3>1. CASE d > c
        <4>1. c \in 1 .. d - 1
          BY <3>1 DEF Conns
        <4>2. QED
          BY <2>1, <2>2, <2>3, <4>1 DEF Handled
      <3>2. QED
        BY <2>1, <2>3, <3>1 DEF Conns
    <2>4. handler[c] = "none"
      BY <2>1, <2>2 DEF Handled
    <2>5. Accepting'
      BY <2>1, <2>2, <2>3, <2>4 DEF Accepting, Conns
    <2>6. ASSUME NEW d \in Conns PROVE Handled(d)'
      <3>1. \A e \in 1 .. d - 1 : e \in Conns
        BY MockAssumption DEF Conns
      <3>2. server[d] # "none" => handler[d] # "none"
        BY <2>1, <2>2 DEF Handled, Conns
      <3>3. CASE d = c
        BY <2>1, <2>2, <2>4, <3>1, <3>3 DEF Handled, Conns
      <3>4. CASE d # c
        BY <2>1, <2>2, <2>3, <3>1, <3>2, <3>4 DEF Handled, Conns
      <3>5. QED
        BY <3>3, <3>4
    <2>7. QED
      BY <2>1, <2>5, <2>6 DEF AcceptInv
  <1>3. CASE Register
    <2>1. /\ acceptLoop = "register" /\ conn' = fresh /\ acceptLoop' = "spawn" /\ fresh' = fresh
          /\ server' = server /\ handler' = handler /\ client' = client
      BY <1>3 DEF Register, ActiveConn, clientVars, handlerVars
    <2>2. ASSUME NEW c \in Conns PROVE Handled(c)'
      BY <1>1, <2>1 DEF AcceptInv, Accepting, Handled, Conns
    <2>3. QED
      BY <1>1, <2>1, <2>2 DEF AcceptInv, Accepting
  <1>4. CASE Spawn
    <2>1. /\ acceptLoop = "spawn" /\ fresh' = 0 /\ acceptLoop' = "accept" /\ conn' = conn
          /\ handler' = [handler EXCEPT ![fresh] = "start"]
          /\ server' = server /\ client' = client
      BY <1>4 DEF Spawn, clientVars
    <2>2. /\ conn = fresh /\ fresh \in Conns /\ server[fresh] # "none"
          /\ handler'[fresh] = "start" /\ \A d \in Conns \ {fresh} : handler'[d] = handler[d]
      BY <1>1, <2>1, TypesAre DEF AcceptInv, Accepting
    <2>3. ASSUME NEW c \in Conns PROVE Handled(c)'
      <3>1. Handled(c)
        BY <1>1 DEF AcceptInv
      <3>2. CASE c = fresh
        BY <2>1, <2>2, <3>1, <3>2 DEF Handled, Conns
      <3>3. CASE c # fresh
        BY <2>1, <2>2, <3>1, <3>3 DEF Handled
      <3>4. QED
        BY <3>2, <3>3
    <2>4. QED
      BY <2>1, <2>3 DEF AcceptInv, Accepting
  <1>5. CASE AcceptEnds
    BY <1>1, <1>5 DEF AcceptEnds, AcceptInv, Accepting, Handled, clientVars, handlerVars
  <1>6. ASSUME NEW c \in Conns, HandlerStep(c) PROVE AcceptInv'
    <2>1. UNCHANGED acceptVars /\ (Handshake(c) \/ client' = client)
      BY <1>1, <1>6, HandlerMoves
    <2>2. \A d \in Conns : client'[d] = "up" => client[d] = "up" \/ handler[d] # "none"
      <3>1. CASE Handshake(c)
        BY <3>1, TypesAre, <1>1 DEF Handshake
      <3>2. QED
        BY <2>1, <3>1
    <2>3. CASE Handshake(c)
      BY <1>1, <2>1, <2>2, <2>3, AcceptKept DEF Handshake, handlerVars
    <2>4. CASE Return(c)
      <3>1. /\ server' = [server EXCEPT ![c] = "closed"] /\ handler' = [handler EXCEPT ![c] = "done"]
            /\ handler[c] = "return" /\ server[c] # "none"
        BY <1>1, <2>4 DEF Return, HandlerAt, HandlerGoto, AcceptInv, Handled
      <3>2. /\ server'[c] = "closed" /\ handler'[c] = "done"
            /\ \A d \in Conns \ {c} : server'[d] = server[d] /\ handler'[d] = handler[d]
        BY <1>1, <3>1, TypesAre
      <3>3. QED
        BY <1>1, <2>1, <2>2, <3>1, <3>2, AcceptKept
    <2>5. CASE ~Handshake(c) /\ ~Return(c)
      <3>1. /\ server' = server
            /\ handler[c] \notin {"none", "done"} /\ handler'[c] \notin {"none", "done"}
            /\ \A d \in Conns \ {c} : handler'[d] = handler[d]
        BY <1>1, <1>6, <2>5, HandlerMoves
      <3>2. QED
        BY <1>1, <2>1, <2>2, <3>1, AcceptKept
    <2>6. QED
      BY <2>3, <2>4, <2>5
  <1>7. ASSUME NEW c \in Conns, ClientStep(c) PROVE AcceptInv'
    <2>1. /\ UNCHANGED <<acceptVars, handlerVars>>
          /\ \/ client' = client
             \/ \E s \in {"dialling", "closed"} : client' = [client EXCEPT ![c] = s]
      BY <1>7 DEF ClientStep, ClientDial, ClientSend, ClientClose
    <2>2. \A d \in Conns : client'[d] = "up" => client[d] = "up"
      BY <1>1, <2>1, TypesAre
    <2>3. QED
      BY <1>1, <2>1, <2>2, AcceptKept DEF handlerVars
  <1>8. CASE TestStep
    <2>1. CASE DropConnection
      <3>1. /\ UNCHANGED <<acceptVars, client, handler>> /\ server[conn] = "open"
            /\ server' = [server EXCEPT ![conn] = "closed"]
        BY <2>1 DEF DropConnection, clientVars
      <3>2. \A c \in Conns : /\ server'[c] = "none" <=> server[c] = "none"
                             /\ server'[c] \in {server[c], "closed"}
        BY <1>1, <3>1, TypesAre
      <3>3. QED
        BY <1>1, <3>1, <3>2, AcceptKept
    <2>2. CASE ~DropConnection
      <3>1. UNCHANGED <<acceptVars, client, handler, server>>
        BY <1>8, <2>2, TestMoves DEF clientVars
      <3>2. QED
        BY <1>1, <3>1, AcceptKept
    <2>3. QED
      BY <2>1, <2>2
  <1>9. CASE UNCHANGED vars
    BY <1>1, <1>9, AcceptKept DEF vars, clientVars, handlerVars
  <1>10. QED
    BY <1>1, <1>2, <1>3, <1>4, <1>5, <1>6, <1>7, <1>8, <1>9 DEF Next, AcceptStep

-----------------------------------------------------------------------------
(* The wait group counts the accept loop and the handlers that run, and a
   cleanup returns only once it is zero.                                     *)
Handlers == {c \in Conns : Running(c)}

WaitInv ==
  /\ wg = Cardinality(Handlers) + (IF acceptLoop = "done" THEN 0 ELSE 1)
  /\ test = "finished" => wg = 0

LEMMA HandlersFinite == IsFiniteSet(Handlers) /\ Cardinality(Handlers) \in Nat
  <1>1. IsFiniteSet(Conns) /\ Handlers \in SUBSET Conns
    <2>1. 1 \in Int /\ MaxConns \in Int
      BY MockAssumption
    <2>2. IsFiniteSet(1 .. MaxConns)
      BY <2>1, FS_Interval
    <2>3. QED
      BY <2>2 DEF Conns, Handlers
  <1>2. IsFiniteSet(Handlers)
    BY <1>1, FS_Subset
  <1>3. QED
    BY <1>2, FS_CardinalityType

LEMMA WaitInit == Init => WaitInv /\ wg \in Nat
  <1> SUFFICES ASSUME Init PROVE WaitInv
    BY DEF Init
  <1>1. Handlers = {} /\ wg = 1 /\ acceptLoop = "accept" /\ test = "running"
    BY DEF Init, Handlers, Running
  <1>2. QED
    BY <1>1, FS_EmptySet DEF WaitInv

(* A cleanup that has returned leaves nobody who could count. *)
LEMMA WaitOver ==
  ASSUME WaitInv, test = "finished"
  PROVE  acceptLoop = "done" /\ Handlers = {} /\ wg = 0
  <1>1. wg = 0 /\ Cardinality(Handlers) \in Nat
    BY HandlersFinite DEF WaitInv
  <1>2. Cardinality(Handlers) = 0 /\ acceptLoop = "done"
    BY <1>1 DEF WaitInv
  <1>3. QED
    BY <1>1, <1>2, HandlersFinite, FS_EmptySet

LEMMA WaitStep ==
  ASSUME TypeOK, AcceptInv, WaitInv, [Next]_vars
  PROVE  WaitInv' /\ wg' \in Nat
  <1>1. IsFiniteSet(Handlers) /\ Cardinality(Handlers) \in Nat
    BY HandlersFinite
  <1>2. ASSUME Handlers' = Handlers, acceptLoop' = "done" <=> acceptLoop = "done", wg' = wg,
               test' = "finished" => test = "finished" \/ wg = 0
        PROVE  WaitInv' /\ wg' \in Nat
    BY <1>1, <1>2 DEF WaitInv
  <1>3. ASSUME NEW c \in Conns, Accept(c) PROVE WaitInv' /\ wg' \in Nat
    <2>1. Handlers' = Handlers
      BY <1>3 DEF Accept, Handlers, Running
    <2>2. QED
      BY <1>2, <1>3, <2>1 DEF Accept, testVars
  <1>4. CASE Register
    <2>1. Handlers' = Handlers
      BY <1>4 DEF Register, Handlers, Running, handlerVars
    <2>2. QED
      BY <1>2, <1>4, <2>1 DEF Register, testVars
  <1>5. CASE Spawn
    <2>1. /\ wg' = wg + 1 /\ acceptLoop = "spawn" /\ acceptLoop' = "accept" /\ test' = test
          /\ handler' = [handler EXCEPT ![fresh] = "start"]
      BY <1>5 DEF Spawn, WgAdd, testVars
    <2>2. fresh \in Conns /\ handler[fresh] = "none"
      BY <2>1 DEF AcceptInv, Accepting
    <2>3. handler'[fresh] = "start" /\ \A d \in Conns \ {fresh} : handler'[d] = handler[d]
      BY <2>1, <2>2, TypesAre
    <2>4. Handlers' = Handlers \cup {fresh} /\ fresh \notin Handlers
      BY <2>2, <2>3 DEF Handlers, Running
    <2>5. Cardinality(Handlers') = Cardinality(Handlers) + 1
      BY <1>1, <2>4, FS_AddElement
    <2>6. test # "finished"
      BY <2>1, WaitOver
    <2>7. QED
      BY <1>1, <2>1, <2>5, <2>6 DEF WaitInv
  <1>6. CASE AcceptEnds
    <2>1. /\ wg' = wg - 1 /\ acceptLoop = "accept" /\ acceptLoop' = "done" /\ test' = test
          /\ handler' = handler
      BY <1>6 DEF AcceptEnds, testVars, handlerVars
    <2>2. Handlers' = Handlers
      BY <2>1 DEF Handlers, Running
    <2>3. test # "finished"
      BY <2>1, WaitOver
    <2>4. QED
      BY <1>1, <2>1, <2>2, <2>3 DEF WaitInv
  <1>7. ASSUME NEW c \in Conns, HandlerStep(c) PROVE WaitInv' /\ wg' \in Nat
    <2>1. acceptLoop' = acceptLoop /\ test' = test
          /\ \A d \in Conns \ {c} : handler'[d] = handler[d]
      BY <1>7, HandlerMoves DEF acceptVars
    <2>2. CASE Handshake(c) /\ UNCHANGED <<handlerVars, wg>>
      <3>1. Handlers' = Handlers
        BY <2>2 DEF Handlers, Running, handlerVars
      <3>2. QED
        BY <1>2, <2>1, <2>2, <3>1
    <2>3. CASE Return(c) /\ handler[c] = "return" /\ handler'[c] = "done"
      <3>1. c \in Handlers /\ Handlers' = Handlers \ {c}
        BY <2>1, <2>3 DEF Handlers, Running
      <3>2. Cardinality(Handlers') = Cardinality(Handlers) - 1
        BY <1>1, <3>1, FS_RemoveElement
      <3>3. test # "finished"
        BY <3>1, WaitOver
      <3>4. Cardinality(Handlers') \in Nat /\ wg' = wg - 1
        BY <2>3, <3>1, <1>1, FS_RemoveElement, FS_CardinalityType DEF Return
      <3>5. QED
        BY <1>1, <2>1, <3>2, <3>3, <3>4 DEF WaitInv
    <2>4. CASE UNCHANGED wg /\ handler[c] \notin {"none", "done"} /\ handler'[c] \notin {"none", "done"}
      <3>1. Handlers' = Handlers
        BY <2>1, <2>4 DEF Handlers, Running
      <3>2. QED
        BY <1>2, <2>1, <2>4, <3>1
    <2>5. QED
      BY <1>7, <2>2, <2>3, <2>4, HandlerMoves
  <1>8. ASSUME NEW c \in Conns, ClientStep(c) PROVE WaitInv' /\ wg' \in Nat
    <2>1. UNCHANGED <<acceptVars, handlerVars, wg, testVars>>
      BY <1>8 DEF ClientStep, ClientDial, ClientSend, ClientClose
    <2>2. Handlers' = Handlers
      BY <2>1 DEF Handlers, Running, handlerVars
    <2>3. QED
      BY <1>2, <2>1, <2>2 DEF acceptVars, testVars
  <1>9. CASE TestStep
    <2>1. Handlers' = Handlers
      BY <1>9, TestMoves DEF Handlers, Running
    <2>2. QED
      BY <1>2, <1>9, <2>1, TestMoves DEF acceptVars
  <1>10. CASE UNCHANGED vars
    <2>1. Handlers' = Handlers
      BY <1>10 DEF Handlers, Running, vars, handlerVars
    <2>2. QED
      BY <1>2, <1>10, <2>1 DEF vars, acceptVars, testVars
  <1>11. QED
    BY <1>3, <1>4, <1>5, <1>6, <1>7, <1>8, <1>9, <1>10 DEF Next, AcceptStep

-----------------------------------------------------------------------------
(* The replies.  As long as a handler can still answer, and its client is
   there, its client has a reply to every frame but the one in hand.         *)
Told(c) == IF Answering(c) THEN got[c] - 1 ELSE got[c]

Paired(c) ==
  \A i \in Replies(c) :
    out[c][i].to = Cardinality({j \in Replies(c) : j <= i}) /\ out[c][i].to <= Told(c)

Reply(c) ==
  /\ got[c] <= asked[c]
  /\ client[c] \in {"unused", "dialling"} => asked[c] = 0 /\ out[c] = <<>>
  /\ client[c] = "up" /\ handler[c] \notin {"return", "done"} =>
       Cardinality(Replies(c)) = Told(c)
  /\ Paired(c)

ReplyInv == \A c \in Conns : Reply(c)

LEMMA RepliesFinite ==
  ASSUME TypeOK, NEW c \in Conns
  PROVE  /\ out[c] \in Seq(Written) /\ Len(out[c]) \in Nat /\ DOMAIN out[c] = 1 .. Len(out[c])
         /\ Replies(c) \subseteq 1 .. Len(out[c])
         /\ IsFiniteSet(Replies(c)) /\ Cardinality(Replies(c)) \in Nat
         /\ \A i \in Replies(c) : out[c][i].to \in Nat \ {0} /\ out[c][i].item \in Item
  <1>1. out[c] \in Seq(Written)
    BY TypesAre
  <1>2. Len(out[c]) \in Nat /\ DOMAIN out[c] = 1 .. Len(out[c])
        /\ \A i \in 1 .. Len(out[c]) : out[c][i] \in Written
    BY <1>1, LenProperties
  <1>3. Replies(c) \in SUBSET (1 .. Len(out[c]))
    BY <1>2 DEF Replies
  <1>4. IsFiniteSet(Replies(c)) /\ Cardinality(Replies(c)) \in Nat
    <2>1. IsFiniteSet(1 .. Len(out[c]))
      BY <1>2, FS_Interval
    <2>2. QED
      BY <1>3, <2>1, FS_Subset, FS_CardinalityType
  <1>5. \A i \in Replies(c) : out[c][i].to \in Nat \ {0} /\ out[c][i].item \in Item
    BY <1>2 DEF Replies, Written
  <1>6. QED
    BY <1>1, <1>2, <1>3, <1>4, <1>5

LEMMA ReplyInit == Init => ReplyInv
  <1> SUFFICES ASSUME Init, NEW c \in Conns PROVE Reply(c)
    BY DEF ReplyInv
  <1>1. got[c] = 0 /\ asked[c] = 0 /\ out[c] = <<>> /\ client[c] = "unused"
    BY DEF Init
  <1>2. Replies(c) = {}
    BY <1>1 DEF Replies
  <1>3. QED
    BY <1>1, <1>2 DEF Reply, Paired

(* A step that sends c nothing. *)
LEMMA ReplyKept ==
  ASSUME NEW c \in Conns, TypeOK, Reply(c), out'[c] = out[c],
         got'[c] <= asked'[c], Told(c) \in Nat, Told(c)' \in Nat, Told(c) <= Told(c)',
         client'[c] \in {"unused", "dialling"} => asked'[c] = 0 /\ out[c] = <<>>,
         client'[c] = "up" /\ handler'[c] \notin {"return", "done"} =>
           Told(c)' = Cardinality(Replies(c))
  PROVE  Reply(c)'
  <1>1. Replies(c)' = Replies(c)
    BY DEF Replies
  <1>2. Paired(c)'
    <2>1. ASSUME NEW i \in Replies(c)
          PROVE  out[c][i].to = Cardinality({j \in Replies(c) : j <= i}) /\ out[c][i].to <= Told(c)'
      <3>1. out[c][i].to = Cardinality({j \in Replies(c) : j <= i}) /\ out[c][i].to <= Told(c)
            /\ out[c][i].to \in Nat
        BY RepliesFinite DEF Reply, Paired
      <3>2. QED
        BY <3>1
    <2>2. QED
      BY <1>1, <2>1 DEF Paired
  <1>3. QED
    BY <1>1, <1>2 DEF Reply

LEMMA ReplySame ==
  ASSUME NEW c \in Conns, TypeOK, HeldInv, Reply(c), out'[c] = out[c], got'[c] = got[c],
         asked'[c] = asked[c],
         \/ handler'[c] \in {"return", "done"}
         \/ handler[c] \notin {"return", "done"} /\ Told(c)' = Told(c),
         \/ client'[c] \in {client[c], "closed"}
         \/ client[c] = "unused" /\ client'[c] = "dialling"
  PROVE  Reply(c)'
  <1>1. Told(c) \in Nat /\ Told(c)' \in Nat /\ Told(c) <= Told(c)'
    BY TypesAre DEF Told, Answering, HeldInv
  <1>2. client'[c] = "up" /\ handler'[c] \notin {"return", "done"} =>
          Told(c)' = Cardinality(Replies(c))
    BY DEF Reply
  <1>3. QED
    BY <1>1, <1>2, ReplyKept DEF Reply

(* What the handler has written, after one more. *)
LEMMA WriteReplies ==
  ASSUME TypeOK, NEW c \in Conns, NEW w \in Written, out'[c] = Append(out[c], w)
  PROVE  /\ Len(out'[c]) = Len(out[c]) + 1 /\ DOMAIN out'[c] = 1 .. Len(out[c]) + 1
         /\ \A i \in 1 .. Len(out[c]) : out'[c][i] = out[c][i]
         /\ out'[c][Len(out[c]) + 1] = w
         /\ Len(out[c]) + 1 \notin Replies(c)
         /\ Replies(c)' = IF w.to = 0 THEN Replies(c) ELSE Replies(c) \cup {Len(out[c]) + 1}
  <1>1. /\ Len(out[c]) \in Nat /\ out[c] \in Seq(Written) /\ DOMAIN out[c] = 1 .. Len(out[c])
        /\ Replies(c) \subseteq 1 .. Len(out[c])
    BY RepliesFinite
  <1>2. /\ Len(out'[c]) = Len(out[c]) + 1 /\ DOMAIN out'[c] = 1 .. Len(out[c]) + 1
        /\ \A i \in 1 .. Len(out[c]) : out'[c][i] = out[c][i]
        /\ out'[c][Len(out[c]) + 1] = w
    BY <1>1, AppendFacts
  <1>3. Len(out[c]) + 1 \notin 1 .. Len(out[c])
        /\ 1 .. Len(out[c]) + 1 = (1 .. Len(out[c])) \cup {Len(out[c]) + 1}
    BY <1>1
  <1>4. Replies(c)' = {i \in 1 .. Len(out[c]) + 1 : out'[c][i].to # 0}
    BY <1>2 DEF Replies
  <1>5. QED
    BY <1>1, <1>2, <1>3, <1>4 DEF Replies

(* A payload is no reply. *)
LEMMA PollReply ==
  ASSUME TypeOK, HeldInv, NEW c \in Conns, Reply(c), WritePoll(c)
  PROVE  Reply(c)'
  <1>1. /\ handler[c] = "inject" /\ handler'[c] = "read" /\ got' = got /\ asked' = asked
        /\ client' = client /\ client[c] # "dialling" /\ held[c] \in Item
    BY TypesAre DEF WritePoll, HandlerAt, HandlerGoto, CanWrite, clientVars, HeldInv
  <1>2. CASE client[c] # "up"
    <2>1. out' = out
      BY <1>2 DEF WritePoll, Write
    <2>2. Told(c)' = Told(c)
      BY <1>1 DEF Told, Answering
    <2>3. QED
      BY <1>1, <2>1, <2>2, ReplySame
  <1>3. CASE client[c] = "up"
    <2> DEFINE w == [item |-> held[c], to |-> 0]
    <2>1. w \in Written /\ out'[c] = Append(out[c], w)
      BY <1>1, <1>3, TypesAre DEF WritePoll, Write, Written
    <2>2. /\ Replies(c)' = Replies(c) /\ Replies(c) \subseteq 1 .. Len(out[c])
          /\ \A i \in 1 .. Len(out[c]) : out'[c][i] = out[c][i]
      BY <2>1, WriteReplies, RepliesFinite
    <2>3. Told(c)' = Told(c)
      BY <1>1 DEF Told, Answering
    <2>4. Paired(c)'
      BY <2>2, <2>3 DEF Reply, Paired
    <2>5. QED
      BY <1>1, <1>3, <2>2, <2>3, <2>4 DEF Reply
  <1>4. QED
    BY <1>2, <1>3

(* A response answers the frame that was read last. *)
LEMMA DispatchReply ==
  ASSUME TypeOK, HeldInv, NEW c \in Conns, Reply(c), Dispatch(c)
  PROVE  Reply(c)'
  <1>1. /\ handler[c] = "dispatch" /\ handler'[c] = "drain" /\ got' = got /\ asked' = asked
        /\ client' = client /\ client[c] # "dialling" /\ held[c] \in Item
        /\ got[c] \in Nat /\ got[c] >= 1
    BY TypesAre DEF Dispatch, Respond, HandlerAt, HandlerGoto, CanWrite, clientVars, HeldInv, Answering
  <1>2. Told(c) = got[c] - 1 /\ Told(c)' = got[c]
    BY <1>1 DEF Told, Answering
  <1>3. CASE client[c] # "up"
    <2>1. out' = out
      BY <1>3 DEF Dispatch, Respond, Write
    <2>2. QED
      BY <1>1, <1>2, <1>3, <2>1, ReplyKept DEF Reply
  <1>4. CASE client[c] = "up"
    <2> DEFINE w == [item |-> held[c], to |-> got[c]]
               n == Len(out[c]) + 1
               R == Replies(c) \cup {n}
    <2>1. w \in Written /\ out'[c] = Append(out[c], w) /\ w.to # 0
      BY <1>1, <1>4, TypesAre DEF Dispatch, Respond, Write, Written
    <2>2. /\ Replies(c)' = R /\ n \notin Replies(c)
          /\ \A i \in 1 .. Len(out[c]) : out'[c][i] = out[c][i]
          /\ out'[c][n].to = got[c]
      BY <2>1, WriteReplies
    <2>3. /\ Replies(c) \subseteq 1 .. Len(out[c]) /\ Len(out[c]) \in Nat
          /\ IsFiniteSet(Replies(c))
          /\ \A i \in Replies(c) : out[c][i].to \in Nat
      BY RepliesFinite
    <2>4. Cardinality(Replies(c)) = got[c] - 1
      BY <1>1, <1>2, <1>4 DEF Reply
    <2>5. Cardinality(R) = got[c]
      <3>1. Cardinality(R) = Cardinality(Replies(c)) + 1
        BY <2>2, <2>3, FS_AddElement
      <3>2. QED
        BY <1>1, <2>4, <3>1
    <2>6. ASSUME NEW i \in R
          PROVE  out'[c][i].to = Cardinality({j \in R : j <= i}) /\ out'[c][i].to <= got[c]
      <3>1. CASE i = n
        <4>1. {j \in R : j <= n} = R
          BY <2>3
        <4>2. Cardinality({j \in R : j <= n}) = got[c]
          BY <2>5, <4>1
        <4>3. out'[c][n].to = got[c] /\ got[c] <= got[c]
          BY <1>1, <2>2
        <4> HIDE DEF n, R
        <4>4. QED
          BY <3>1, <4>2, <4>3
      <3>2. CASE i # n
        <4>1. i \in Replies(c) /\ i \in 1 .. Len(out[c])
          BY <2>3, <2>6, <3>2
        <4>2. {j \in R : j <= i} = {j \in Replies(c) : j <= i}
          BY <2>3, <4>1
        <4>3. out[c][i].to = Cardinality({j \in Replies(c) : j <= i}) /\ out[c][i].to <= got[c] - 1
          BY <1>2, <4>1 DEF Reply, Paired
        <4>4. out'[c][i] = out[c][i] /\ out[c][i].to \in Nat
          BY <2>2, <2>3, <4>1
        <4>5. out'[c][i].to <= got[c]
          BY <1>1, <4>3, <4>4
        <4>6. QED
          BY <4>2, <4>3, <4>4, <4>5
      <3>3. QED
        BY <3>1, <3>2
    <2> HIDE DEF R
    <2>7. Paired(c)'
      BY <1>2, <2>2, <2>6 DEF Paired
    <2>8. Cardinality(Replies(c))' = Told(c)'
      BY <1>2, <2>2, <2>5
    <2>9. QED
      BY <1>1, <1>4, <2>7, <2>8 DEF Reply
  <1>5. QED
    BY <1>3, <1>4

LEMMA ReplyStep == TypeOK /\ HeldInv /\ AcceptInv /\ ReplyInv /\ [Next]_vars => ReplyInv'
  <1> SUFFICES ASSUME TypeOK, HeldInv, AcceptInv, ReplyInv, [Next]_vars, NEW c \in Conns
               PROVE  Reply(c)'
    BY DEF ReplyInv
  <1>1. Reply(c)
    BY DEF ReplyInv
  <1>2. CASE out'[c] = out[c] /\ got'[c] = got[c] /\ asked'[c] = asked[c]
             /\ handler'[c] = handler[c] /\ client'[c] \in {client[c], "closed"}
    <2>1. Told(c)' = Told(c)
      BY <1>2 DEF Told, Answering
    <2>2. QED
      BY <1>1, <1>2, <2>1, ReplySame
  <1>3. ASSUME HandlerStep(c)
        PROVE  Reply(c)'
    <2>1. CASE WritePoll(c)
      BY <1>1, <2>1, PollReply
    <2>2. CASE Dispatch(c)
      BY <1>1, <2>2, DispatchReply
    <2>3. CASE Handshake(c)
      <3>1. /\ handler[c] \in {"inject", "read"} /\ handler'[c] = handler[c] /\ client[c] = "dialling"
            /\ client'[c] = "up" /\ out' = out /\ got' = got /\ asked' = asked
            /\ got[c] \in Nat /\ asked[c] \in Nat
        BY <2>3, TypesAre DEF Handshake, handlerVars
      <3>2. asked[c] = 0 /\ got[c] = 0 /\ out[c] = <<>>
        BY <1>1, <3>1 DEF Reply
      <3>3. Told(c) = 0 /\ Told(c)' = 0
        BY <3>1, <3>2 DEF Told, Answering
      <3>4. Cardinality(Replies(c)) = 0
        <4>1. Replies(c) = {}
          BY <3>2 DEF Replies
        <4>2. QED
          BY <4>1, FS_EmptySet
      <3>5. QED
        BY <1>1, <3>1, <3>2, <3>3, <3>4, ReplyKept
    <2>4. CASE ReadFrame(c)
      <3>1. /\ handler[c] = "read" /\ handler'[c] = "capture" /\ got'[c] = got[c] + 1
            /\ got[c] < asked[c] /\ client' = client /\ out' = out /\ asked' = asked
            /\ got[c] \in Nat /\ asked[c] \in Nat
        BY <2>4, TypesAre DEF ReadFrame, HandlerAt, HandlerGoto, clientVars
      <3>2. Told(c) = got[c] /\ Told(c)' = got[c]
        BY <3>1 DEF Told, Answering
      <3>3. QED
        BY <1>1, <3>1, <3>2, ReplyKept DEF Reply
    <2>5. CASE SetDeadline(c) \/ TakePoll(c) \/ SkipPoll(c) \/ Capture(c) \/ TakeScripted(c)
               \/ StopWaiting(c) \/ Fail(c) \/ Return(c)
      <3>1. client' = client /\ asked' = asked /\ got' = got /\ out' = out
        BY <2>5
        DEF SetDeadline, TakePoll, SkipPoll, Capture, TakeScripted, StopWaiting, Fail, Return,
            clientVars
      <3>2. \/ handler'[c] \in {"return", "done"}
            \/ handler[c] \in {"start", "drain"} /\ handler'[c] \in {"drain", "inject", "read"}
            \/ handler[c] \in {"capture", "await"} /\ handler'[c] \in {"await", "dispatch"}
        BY <2>5, TypesAre
        DEF SetDeadline, TakePoll, SkipPoll, Capture, TakeScripted, StopWaiting, Fail, Return,
            HandlerAt, HandlerGoto
      <3>3. handler'[c] \in {"return", "done"} \/ Told(c)' = Told(c)
        BY <3>1, <3>2 DEF Told, Answering
      <3>4. QED
        BY <1>1, <3>1, <3>2, <3>3, ReplySame
    <2>6. QED
      BY <1>3, <2>1, <2>2, <2>3, <2>4, <2>5 DEF HandlerStep
  <1>4. ASSUME NEW d \in Conns \ {c}, HandlerStep(d)
        PROVE  Reply(c)'
    <2>1. /\ handler'[c] = handler[c] /\ got'[c] = got[c] /\ out'[c] = out[c] /\ asked' = asked
          /\ Handshake(d) \/ client' = client
      BY <1>4, HandlerMoves
    <2>2. client'[c] = client[c]
      BY <2>1, TypesAre DEF Handshake
    <2>3. QED
      BY <1>2, <2>1, <2>2
  <1>5. ASSUME NEW d \in Conns, ClientStep(d)
        PROVE  Reply(c)'
    <2>1. out' = out /\ got' = got /\ handler' = handler
      BY <1>5 DEF ClientStep, ClientDial, ClientSend, ClientClose, handlerVars
    <2>2. CASE ClientDial(d) \/ ClientClose(d)
      <3>1. /\ asked' = asked
            /\ \/ client'[c] \in {client[c], "closed"}
               \/ client[c] = "unused" /\ client'[c] = "dialling"
        BY <2>2, TypesAre DEF ClientDial, ClientClose
      <3>2. Told(c)' = Told(c) /\ Told(c) \in Nat
        BY <2>1, TypesAre DEF Told, Answering, HeldInv
      <3>3. client'[c] = "up" => client[c] = "up"
        BY <3>1
      <3>4. QED
        BY <1>1, <2>1, <3>1, <3>2, <3>3, ReplyKept DEF Reply
    <2>3. CASE ClientSend(d)
      <3>1. client' = client /\ client[d] = "up" /\ asked' = [asked EXCEPT ![d] = @ + 1]
        BY <2>3 DEF ClientSend
      <3>2. /\ asked[c] \in Nat /\ got[c] \in Nat
            /\ asked'[c] = IF c = d THEN asked[c] + 1 ELSE asked[c]
        BY <3>1, TypesAre
      <3>3. Told(c) \in Nat /\ Told(c)' = Told(c)
        BY <2>1, <3>2 DEF Told, Answering, HeldInv
      <3>4. got'[c] <= asked'[c]
        BY <1>1, <2>1, <3>2 DEF Reply
      <3>5. client'[c] \in {"unused", "dialling"} => asked'[c] = 0 /\ out[c] = <<>>
        BY <1>1, <3>1, <3>2 DEF Reply
      <3>6. QED
        BY <1>1, <2>1, <3>1, <3>3, <3>4, <3>5, ReplyKept DEF Reply
    <2>4. QED
      BY <1>5, <2>2, <2>3 DEF ClientStep
  <1>6. CASE AcceptStep
    <2>1. UNCHANGED <<client, asked, got, out>>
      BY <1>6 DEF AcceptStep, Accept, Register, Spawn, AcceptEnds, clientVars, handlerVars
    <2>2. \/ handler'[c] = handler[c]
          \/ handler[c] = "none" /\ handler'[c] = "start"
      BY <1>6, TypesAre
      DEF AcceptStep, Accept, Register, Spawn, AcceptEnds, handlerVars, AcceptInv, Accepting
    <2>3. CASE handler'[c] = handler[c]
      BY <1>2, <2>1, <2>3
    <2>4. CASE handler[c] = "none" /\ handler'[c] = "start"
      <3>1. Told(c)' = Told(c)
        BY <2>1, <2>4 DEF Told, Answering
      <3>2. QED
        BY <1>1, <2>1, <2>4, <3>1, ReplySame
    <2>5. QED
      BY <2>2, <2>3, <2>4
  <1>7. CASE TestStep
    BY <1>2, <1>7, TestMoves DEF clientVars
  <1>8. CASE UNCHANGED vars
    BY <1>2, <1>8 DEF vars, clientVars, handlerVars
  <1>9. QED
    BY <1>3, <1>4, <1>5, <1>6, <1>7, <1>8 DEF Next

-----------------------------------------------------------------------------
(* The script.  A position on a connection is that of a reply, or the next one
   when its handler holds a response.  The ids of all positions differ, grow
   along each connection, and are smaller than what is left in Expect.        *)
Given(c) == Replies(c) \cup {n \in {Len(out[c]) + 1} : handler[c] = "dispatch"}
GivenId(c, n) == IF n \in DOMAIN out[c] THEN out[c][n].item.id ELSE held[c].id

Ordered ==
  /\ \A i, j \in DOMAIN Expect : i < j => Expect[i].id < Expect[j].id
  /\ \A i \in DOMAIN Expect : Expect[i].id <= scripted

GivenFor(c, n) ==
  /\ GivenId(c, n) <= scripted
  /\ \A i \in DOMAIN Expect : GivenId(c, n) < Expect[i].id
  /\ \A d \in Conns : \A m \in Given(d) : GivenId(c, n) = GivenId(d, m) => c = d /\ n = m
  /\ \A m \in Given(c) : n < m => GivenId(c, n) < GivenId(c, m)

ScriptInv == Ordered /\ \A c \in Conns : \A n \in Given(c) : GivenFor(c, n)

LEMMA GivenTypes ==
  ASSUME TypeOK, HeldInv, NEW c \in Conns, NEW n \in Given(c)
  PROVE  GivenId(c, n) \in Nat /\ n \in 1 .. Len(out[c]) + 1 /\ Len(out[c]) \in Nat
         /\ Given(c) \subseteq 1 .. Len(out[c]) + 1
  <1>1. /\ Len(out[c]) \in Nat /\ DOMAIN out[c] = 1 .. Len(out[c])
        /\ Replies(c) \subseteq 1 .. Len(out[c])
        /\ \A i \in Replies(c) : out[c][i].item \in Item
    BY RepliesFinite
  <1>2. CASE n \in Replies(c)
    BY <1>1, <1>2, ItemFacts DEF Given, GivenId
  <1>3. CASE n = Len(out[c]) + 1 /\ handler[c] = "dispatch"
    <2>1. held[c] \in Item /\ n \notin DOMAIN out[c]
      BY <1>1, <1>3 DEF HeldInv
    <2>2. QED
      BY <1>1, <1>3, <2>1, ItemFacts DEF Given, GivenId
  <1>4. QED
    BY <1>2, <1>3 DEF Given

LEMMA ScriptInit == Init => ScriptInv
  <1> SUFFICES ASSUME Init PROVE ScriptInv
    OBVIOUS
  <1>1. Expect = <<>> /\ \A c \in Conns : out[c] = <<>> /\ handler[c] = "none"
    BY DEF Init
  <1>2. \A c \in Conns : Given(c) = {}
    BY <1>1 DEF Given, Replies
  <1>3. QED
    BY <1>1, <1>2 DEF ScriptInv, Ordered

(* A step that takes nothing from Expect and puts nothing there. *)
LEMMA ScriptKept ==
  ASSUME ScriptInv, Expect' = Expect, scripted' = scripted,
         \A c \in Conns : /\ Given(c)' \subseteq Given(c)
                          /\ \A n \in Given(c)' : GivenId(c, n)' = GivenId(c, n)
  PROVE  ScriptInv'
  <1>1. Ordered'
    BY DEF ScriptInv, Ordered
  <1>2. ASSUME NEW c \in Conns, NEW n \in Given(c)'
        PROVE  GivenFor(c, n)'
    <2>1. n \in Given(c) /\ GivenFor(c, n) /\ GivenId(c, n)' = GivenId(c, n)
      BY <1>2 DEF ScriptInv
    <2>2. GivenId(c, n)' <= scripted' /\ \A i \in DOMAIN Expect' : GivenId(c, n)' < Expect'[i].id
      BY <2>1 DEF GivenFor
    <2>3. ASSUME NEW d \in Conns, NEW m \in Given(d)', GivenId(c, n)' = GivenId(d, m)'
          PROVE  c = d /\ n = m
      <3>1. m \in Given(d) /\ GivenId(c, n) = GivenId(d, m)
        BY <2>1, <2>3
      <3>2. QED
        BY <2>1, <3>1 DEF GivenFor
    <2>4. ASSUME NEW m \in Given(c)', n < m
          PROVE  GivenId(c, n)' < GivenId(c, m)'
      <3>1. m \in Given(c) /\ GivenId(c, m)' = GivenId(c, m)
        BY <2>4
      <3>2. GivenId(c, n) < GivenId(c, m)
        BY <2>1, <2>4, <3>1 DEF GivenFor
      <3>3. QED
        BY <2>1, <3>1, <3>2
    <2>5. QED
      BY <2>2, <2>3, <2>4 DEF GivenFor
  <1>3. QED
    BY <1>1, <1>2 DEF ScriptInv

LEMMA SameGiven ==
  ASSUME NEW c \in Conns, out'[c] = out[c],
         handler'[c] = "dispatch" => handler[c] = "dispatch" /\ held'[c] = held[c],
         TypeOK
  PROVE  /\ Given(c)' \subseteq Given(c)
         /\ \A n \in Given(c)' : GivenId(c, n)' = GivenId(c, n)
  <1>1. Given(c)' \subseteq Given(c) /\ Replies(c)' = Replies(c)
    BY DEF Given, Replies
  <1>2. ASSUME NEW n \in Given(c)'
        PROVE  GivenId(c, n)' = GivenId(c, n)
    <2>1. n \in DOMAIN out[c] \/ handler'[c] = "dispatch"
      BY <1>2 DEF Given, Replies
    <2>2. QED
      BY <2>1 DEF GivenId
  <1>3. QED
    BY <1>1, <1>2

(* A handler that writes: the item it held keeps its position. *)
LEMMA WriteGiven ==
  ASSUME TypeOK, HeldInv, NEW c \in Conns, WritePoll(c) \/ Dispatch(c)
  PROVE  /\ Given(c)' \subseteq Given(c)
         /\ \A n \in Given(c)' : GivenId(c, n)' = GivenId(c, n)
  <1> DEFINE to == IF WritePoll(c) THEN 0 ELSE got[c]
             w == [item |-> held[c], to |-> to]
  <1>1. /\ handler'[c] \in {"read", "drain"} /\ held[c] \in Item
        /\ \/ to = 0
           \/ handler[c] = "dispatch" /\ to # 0 /\ to \in Nat
        /\ Write(c, to)
    <2>1. CASE WritePoll(c)
      BY <2>1, TypesAre DEF WritePoll, HandlerAt, HandlerGoto, HeldInv
    <2>2. CASE ~WritePoll(c) /\ Dispatch(c)
      BY <2>2, TypesAre DEF Dispatch, Respond, HandlerAt, HandlerGoto, HeldInv, Answering
    <2>3. QED
      BY <2>1, <2>2
  <1>2. CASE client[c] # "up"
    <2>1. out' = out
      BY <1>1, <1>2 DEF Write
    <2>2. QED
      BY <1>1, <2>1, SameGiven
  <1>3. CASE client[c] = "up"
    <2>1. w \in Written /\ out'[c] = Append(out[c], w)
      BY <1>1, <1>3, TypesAre DEF Write, Written
    <2> HIDE DEF to
    <2>2. /\ DOMAIN out'[c] = 1 .. Len(out[c]) + 1
          /\ \A i \in 1 .. Len(out[c]) : out'[c][i] = out[c][i]
          /\ out'[c][Len(out[c]) + 1] = w
          /\ Replies(c)' = IF to = 0 THEN Replies(c) ELSE Replies(c) \cup {Len(out[c]) + 1}
      BY <2>1, WriteReplies
    <2>3. /\ Len(out[c]) \in Nat /\ DOMAIN out[c] = 1 .. Len(out[c])
          /\ Replies(c) \subseteq 1 .. Len(out[c])
      BY RepliesFinite
    <2>4. Given(c)' = Replies(c)' /\ Given(c)' \subseteq Given(c)
      BY <1>1, <2>2 DEF Given
    <2>5. ASSUME NEW n \in Given(c)'
          PROVE  GivenId(c, n)' = GivenId(c, n)
      <3>1. CASE n \in 1 .. Len(out[c])
        <4>1. n \in DOMAIN out'[c] /\ out'[c][n] = out[c][n]
          BY <2>2, <2>3, <3>1
        <4>2. QED
          BY <2>3, <3>1, <4>1 DEF GivenId
      <3>2. CASE n = Len(out[c]) + 1
        <4>1. n \in DOMAIN out'[c] /\ n \notin DOMAIN out[c] /\ out'[c][n].item.id = held[c].id
          BY <2>2, <2>3, <3>2
        <4>2. QED
          BY <4>1 DEF GivenId
      <3>3. QED
        BY <2>2, <2>3, <2>4, <3>1, <3>2
    <2>6. QED
      BY <2>4, <2>5
  <1>4. QED
    BY <1>2, <1>3

(* The oldest response of Expect gets the next position on a connection. *)
LEMMA TakeGiven ==
  ASSUME TypeOK, HeldInv, TypeOK', HeldInv', ScriptInv, NEW c \in Conns, TakeScripted(c)
  PROVE  ScriptInv'
  <1> DEFINE x == Head(Expect)
             p == Len(out[c]) + 1
  <1>1. /\ handler[c] = "await" /\ handler'[c] = "dispatch" /\ held'[c] = x
        /\ out' = out /\ scripted' = scripted /\ Expect' = Tail(Expect) /\ Expect # <<>>
        /\ \A d \in Conns \ {c} : handler'[d] = handler[d] /\ held'[d] = held[d]
    BY TypesAre DEF TakeScripted, HandlerAt, HandlerGoto, testVars
  <1>2. /\ x = Expect[1] /\ x \in Item /\ Len(Expect) \in Nat /\ Len(Expect) >= 1
        /\ DOMAIN Expect = 1 .. Len(Expect) /\ DOMAIN Expect' = 1 .. Len(Expect) - 1
        /\ \A i \in 1 .. Len(Expect) - 1 : Expect'[i] = Expect[i + 1] /\ i + 1 \in DOMAIN Expect
    BY <1>1, TypesAre, TailFacts
  <1>3. \A i \in DOMAIN Expect' : x.id < Expect'[i].id
    <2>1. ASSUME NEW i \in 1 .. Len(Expect) - 1
          PROVE  Expect[1].id < Expect[i + 1].id
      <3>1. 1 \in DOMAIN Expect /\ i + 1 \in DOMAIN Expect /\ 1 < i + 1
        BY <1>2
      <3>2. QED
        BY <3>1 DEF ScriptInv, Ordered
    <2>2. QED
      BY <1>2, <2>1
  <1>4. Ordered'
    <2>1. ASSUME NEW i \in DOMAIN Expect', NEW j \in DOMAIN Expect', i < j
          PROVE  Expect'[i].id < Expect'[j].id
      <3>1. i + 1 \in DOMAIN Expect /\ j + 1 \in DOMAIN Expect /\ i + 1 < j + 1
        BY <1>2, <2>1
      <3>2. Expect[i + 1].id < Expect[j + 1].id
        BY <3>1 DEF ScriptInv, Ordered
      <3>3. QED
        BY <1>2, <3>2
    <2>2. ASSUME NEW i \in DOMAIN Expect'
          PROVE  Expect'[i].id <= scripted'
      BY <1>1, <1>2 DEF ScriptInv, Ordered
    <2>3. QED
      BY <2>1, <2>2 DEF Ordered
  <1>5. /\ Given(c)' = Given(c) \cup {p} /\ p \notin Given(c)
        /\ GivenId(c, p)' = x.id /\ \A n \in Given(c) : n < p /\ GivenId(c, n)' = GivenId(c, n)
    <2>1. /\ Len(out[c]) \in Nat /\ DOMAIN out[c] = 1 .. Len(out[c])
          /\ Replies(c) \subseteq 1 .. Len(out[c])
      BY RepliesFinite
    <2>2. Given(c) = Replies(c) /\ Given(c)' = Replies(c) \cup {p}
      BY <1>1 DEF Given, Replies
    <2>3. QED
      BY <1>1, <2>1, <2>2 DEF GivenId
  <1>6. ASSUME NEW d \in Conns, NEW n \in Given(d)'
        PROVE  \/ n \in Given(d) /\ GivenId(d, n)' = GivenId(d, n)
               \/ d = c /\ n = p /\ GivenId(d, n)' = x.id
    <2>1. CASE d = c
      <3>1. n \in Given(c)'
        BY <1>6, <2>1 DEF Given, Replies
      <3>2. GivenId(d, n)' = IF n \in DOMAIN out'[c] THEN out'[c][n].item.id ELSE held'[c].id
        BY <2>1 DEF GivenId
      <3>3. GivenId(d, n) = IF n \in DOMAIN out[c] THEN out[c][n].item.id ELSE held[c].id
        BY <2>1 DEF GivenId
      <3>4. n = p => n \notin DOMAIN out[c]
        BY RepliesFinite
      <3>5. n \in Given(c) => n \in DOMAIN out[c]
        BY <1>1 DEF Given, Replies
      <3>6. QED
        BY <1>1, <1>5, <2>1, <3>1, <3>2, <3>3, <3>4, <3>5
    <2>2. CASE d # c
      BY <1>1, <1>6, <2>2 DEF Given, GivenId, Replies
    <2>3. QED
      BY <2>1, <2>2
  <1>7. x.id \in Nat /\ x.id <= scripted
        /\ \A d \in Conns : \A n \in Given(d) : GivenId(d, n) < x.id /\ GivenId(d, n) \in Nat
    <2>1. 1 \in DOMAIN Expect
      BY <1>2
    <2>2. QED
      BY <1>2, <2>1, ItemFacts, GivenTypes DEF ScriptInv, Ordered, GivenFor
  <1> HIDE DEF x, p
  <1>8. ASSUME NEW d \in Conns, NEW n \in Given(d)', n \in Given(d), GivenId(d, n)' = GivenId(d, n)
        PROVE  GivenFor(d, n)'
    <2>1. GivenFor(d, n) /\ GivenId(d, n) < x.id /\ GivenId(d, n) \in Nat
      BY <1>7, <1>8 DEF ScriptInv
    <2>2. GivenId(d, n)' <= scripted'
      BY <1>1, <1>8, <2>1 DEF GivenFor
    <2>3. \A i \in DOMAIN Expect' : GivenId(d, n)' < Expect'[i].id
      BY <1>2, <1>8, <2>1 DEF GivenFor
    <2>4. ASSUME NEW e \in Conns, NEW m \in Given(e)', GivenId(d, n)' = GivenId(e, m)'
          PROVE  d = e /\ n = m
      <3>1. CASE m \in Given(e) /\ GivenId(e, m)' = GivenId(e, m)
        BY <1>8, <2>1, <2>4, <3>1 DEF GivenFor
      <3>2. CASE GivenId(e, m)' = x.id
        BY <1>7, <1>8, <2>1, <2>4, <3>2
      <3>3. QED
        BY <1>6, <3>1, <3>2
    <2>5. ASSUME NEW m \in Given(d)', n < m
          PROVE  GivenId(d, n)' < GivenId(d, m)'
      <3>1. CASE m \in Given(d) /\ GivenId(d, m)' = GivenId(d, m)
        <4>1. GivenId(d, n) < GivenId(d, m)
          BY <2>1, <2>5, <3>1 DEF GivenFor
        <4>2. QED
          BY <1>8, <3>1, <4>1
      <3>2. CASE GivenId(d, m)' = x.id
        BY <1>8, <2>1, <3>2
      <3>3. QED
        BY <1>6, <3>1, <3>2
    <2>6. QED
      BY <2>2, <2>3, <2>4, <2>5 DEF GivenFor
  <1>9. ASSUME NEW d \in Conns, NEW n \in Given(d)', d = c, n = p, GivenId(d, n)' = x.id
        PROVE  GivenFor(d, n)'
    <2>1. GivenId(d, n)' <= scripted' /\ \A i \in DOMAIN Expect' : GivenId(d, n)' < Expect'[i].id
      BY <1>1, <1>3, <1>7, <1>9
    <2>2. ASSUME NEW e \in Conns, NEW m \in Given(e)', GivenId(d, n)' = GivenId(e, m)'
          PROVE  d = e /\ n = m
      <3>1. CASE m \in Given(e) /\ GivenId(e, m)' = GivenId(e, m)
        <4>1. GivenId(e, m) < x.id /\ GivenId(e, m) \in Nat
          BY <1>7, <3>1
        <4>2. QED
          BY <1>7, <1>9, <2>2, <3>1, <4>1
      <3>2. CASE e = c /\ m = p
        BY <1>9, <3>2
      <3>3. QED
        BY <1>6, <3>1, <3>2
    <2>3. ASSUME NEW m \in Given(d)', n < m
          PROVE  FALSE
      <3>1. m \in Given(d) \/ m = p
        BY <1>6
      <3>2. m \in Nat /\ n \in Nat /\ (m \in Given(d) => m < p)
        <4>1. Len(out[c]) \in Nat /\ p \in Nat
          BY RepliesFinite DEF p
        <4>2. m \in Given(d) => m \in Given(c)
          BY <1>9
        <4>3. m \in Given(c) => m \in Nat /\ m < p
          BY <1>5, GivenTypes
        <4>4. QED
          BY <1>9, <3>1, <4>1, <4>2, <4>3
      <3>3. QED
        BY <1>9, <2>3, <3>1, <3>2
    <2>4. QED
      BY <2>1, <2>2, <2>3 DEF GivenFor
  <1>10. QED
    BY <1>4, <1>6, <1>8, <1>9 DEF ScriptInv

(* A response that is scripted gets an id no other has had. *)
LEMMA ScriptGrows ==
  ASSUME TypeOK, HeldInv, ScriptInv, NEW kind \in ScriptKinds, Script(kind)
  PROVE  ScriptInv'
  <1> DEFINE x == [what |-> kind, id |-> scripted + 1]
  <1>1. /\ scripted \in Nat /\ scripted' = scripted + 1 /\ Expect' = Append(Expect, x)
        /\ UNCHANGED <<out, handler, held>> /\ Expect \in Seq(Item)
    BY MockAssumption DEF Script, handlerVars, TypeOK
  <1>2. x \in Item /\ x.id = scripted + 1
    BY <1>1, ItemFacts
  <1>3. /\ Len(Expect) \in Nat /\ DOMAIN Expect = 1 .. Len(Expect)
        /\ DOMAIN Expect' = 1 .. Len(Expect) + 1
        /\ \A i \in 1 .. Len(Expect) : Expect'[i] = Expect[i]
        /\ Expect'[Len(Expect) + 1] = x
    BY <1>1, <1>2, AppendFacts
  <1>4. \A i \in DOMAIN Expect : Expect[i].id \in Nat /\ Expect[i].id <= scripted
    <2>1. \A i \in DOMAIN Expect : Expect[i] \in Item
      BY <1>1, <1>3, LenProperties
    <2>2. QED
      BY <2>1, ItemFacts DEF ScriptInv, Ordered
  <1> HIDE DEF x
  <1>5. ASSUME NEW i \in DOMAIN Expect', NEW j \in DOMAIN Expect', i < j
        PROVE  Expect'[i].id < Expect'[j].id
    <2>1. i \in DOMAIN Expect /\ Expect'[i] = Expect[i]
      BY <1>3, <1>5
    <2>2. CASE j \in DOMAIN Expect
      BY <1>3, <1>5, <2>1, <2>2 DEF ScriptInv, Ordered
    <2>3. CASE j = Len(Expect) + 1
      BY <1>1, <1>2, <1>3, <1>4, <2>1, <2>3
    <2>4. QED
      BY <1>3, <2>2, <2>3
  <1>6. ASSUME NEW i \in DOMAIN Expect'
        PROVE  Expect'[i].id <= scripted'
    <2>1. CASE i \in DOMAIN Expect
      BY <1>1, <1>3, <1>4, <2>1
    <2>2. CASE i = Len(Expect) + 1
      BY <1>1, <1>2, <1>3, <2>2
    <2>3. QED
      BY <1>3, <2>1, <2>2
  <1>7. \A c \in Conns : /\ Given(c)' = Given(c)
                         /\ \A n \in Given(c) : GivenId(c, n)' = GivenId(c, n)
    BY <1>1 DEF Given, GivenId, Replies
  <1>8. ASSUME NEW c \in Conns, NEW n \in Given(c)
        PROVE  GivenFor(c, n)'
    <2>1. GivenFor(c, n) /\ GivenId(c, n) \in Nat /\ GivenId(c, n)' = GivenId(c, n)
      BY <1>7, GivenTypes DEF ScriptInv
    <2>2. GivenId(c, n)' <= scripted'
      BY <1>1, <2>1 DEF GivenFor
    <2>3. ASSUME NEW i \in DOMAIN Expect'
          PROVE  GivenId(c, n)' < Expect'[i].id
      <3>1. CASE i \in DOMAIN Expect
        BY <1>3, <2>1, <3>1 DEF GivenFor
      <3>2. CASE i = Len(Expect) + 1
        <4>1. GivenId(c, n) <= scripted /\ Expect'[i].id = scripted + 1
          BY <1>2, <1>3, <2>1, <3>2 DEF GivenFor
        <4>2. QED
          BY <1>1, <2>1, <4>1
      <3>3. QED
        BY <1>3, <3>1, <3>2
    <2>4. QED
      BY <1>7, <2>1, <2>2, <2>3 DEF GivenFor
  <1>9. QED
    BY <1>5, <1>6, <1>7, <1>8 DEF ScriptInv, Ordered

LEMMA ScriptStep ==
  ASSUME TypeOK, HeldInv, TypeOK', HeldInv', AcceptInv, ScriptInv, [Next]_vars
  PROVE  ScriptInv'
  <1>1. ASSUME Expect' = Expect, scripted' = scripted,
               \A c \in Conns : out'[c] = out[c]
                 /\ (handler'[c] = "dispatch" => handler[c] = "dispatch" /\ held'[c] = held[c])
        PROVE  ScriptInv'
    BY <1>1, SameGiven, ScriptKept
  <1>2. ASSUME NEW c \in Conns, HandlerStep(c)
        PROVE  ScriptInv'
    <2>1. scripted' = scripted
          /\ \A d \in Conns \ {c} : handler'[d] = handler[d] /\ held'[d] = held[d] /\ out'[d] = out[d]
      BY <1>2, HandlerMoves
    <2>2. CASE TakeScripted(c)
      BY <2>2, TakeGiven
    <2>3. CASE WritePoll(c) \/ Dispatch(c)
      <3>1. Expect' = Expect
        BY <2>3 DEF WritePoll, Dispatch, queueVars
      <3>2. \A d \in Conns : /\ Given(d)' \subseteq Given(d)
                             /\ \A n \in Given(d)' : GivenId(d, n)' = GivenId(d, n)
        BY <2>1, <2>3, SameGiven, WriteGiven
      <3>3. QED
        BY <2>1, <3>1, <3>2, ScriptKept
    <2>4. CASE SetDeadline(c) \/ TakePoll(c) \/ SkipPoll(c) \/ Handshake(c) \/ ReadFrame(c)
               \/ Capture(c) \/ StopWaiting(c) \/ Fail(c) \/ Return(c)
      <3>1. Expect' = Expect /\ out' = out
        BY <2>4
        DEF SetDeadline, TakePoll, SkipPoll, Handshake, ReadFrame, Capture, StopWaiting, Fail,
            LoseItem, Return, queueVars, handlerVars
      <3>2. handler'[c] = "dispatch" => handler[c] = "dispatch" /\ held'[c] = held[c]
        BY <2>4, TypesAre
        DEF SetDeadline, TakePoll, SkipPoll, Handshake, ReadFrame, Capture, StopWaiting, Fail,
            Return, HandlerGoto, handlerVars
      <3>3. QED
        BY <1>1, <2>1, <3>1, <3>2
    <2>5. QED
      BY <1>2, <2>2, <2>3, <2>4 DEF HandlerStep
  <1>3. ASSUME NEW c \in Conns, ClientStep(c) PROVE ScriptInv'
    BY <1>1, <1>3 DEF ClientStep, ClientDial, ClientSend, ClientClose, handlerVars, queueVars, testVars
  <1>4. CASE AcceptStep
    <2>1. UNCHANGED <<Expect, scripted, out, held>>
      BY <1>4 DEF AcceptStep, Accept, Register, Spawn, AcceptEnds, handlerVars, queueVars, testVars
    <2>2. \A c \in Conns : handler'[c] \in {"start", handler[c]}
      BY <1>4, TypesAre DEF AcceptStep, Accept, Register, Spawn, AcceptEnds, handlerVars
    <2>3. QED
      BY <1>1, <2>1, <2>2
  <1>5. CASE TestStep
    <2>1. ASSUME NEW kind \in ScriptKinds, Script(kind) PROVE ScriptInv'
      BY <2>1, ScriptGrows
    <2>2. CASE InjectPoll \/ DropConnection \/ TakeReceived \/ Cancel \/ CloseListener \/ WaitReturns
      <3>1. UNCHANGED <<Expect, scripted, out, handler, held>>
        BY <2>2
        DEF InjectPoll, DropConnection, TakeReceived, Cancel, CloseListener, WaitReturns,
            handlerVars, queueVars, testVars
      <3>2. QED
        BY <1>1, <3>1
    <2>3. QED
      BY <1>5, <2>1, <2>2 DEF TestStep
  <1>6. CASE UNCHANGED vars
    BY <1>1, <1>6 DEF vars, handlerVars, queueVars, testVars
  <1>7. QED
    BY <1>2, <1>3, <1>4, <1>5, <1>6 DEF Next

-----------------------------------------------------------------------------
(* The captured frames.  Every frame a handler has read is in Received, has been
   taken from it or was dropped, but for the one its handler is about to send. *)
Kept == Queued(Received) \cup taken \cup missed

CaptureInv ==
  \A c \in Conns : \A n \in 1 .. got[c] :
    (n = got[c] /\ handler[c] = "capture") \/ <<c, n>> \in Kept

LEMMA CaptureInit == Init => CaptureInv
  BY DEF Init, CaptureInv

LEMMA CaptureKept ==
  ASSUME CaptureInv, Kept \subseteq Kept', got' = got,
         \A c \in Conns : handler[c] = "capture" => handler'[c] = "capture" \/ <<c, got[c]>> \in Kept'
  PROVE  CaptureInv'
  BY DEF CaptureInv

LEMMA CaptureStep ==
  ASSUME TypeOK, HeldInv, AcceptInv, CaptureInv, [Next]_vars
  PROVE  CaptureInv'
  <1>1. ASSUME UNCHANGED <<Received, taken, missed>> PROVE Kept' = Kept
    BY <1>1 DEF Kept, Queued
  <1>2. ASSUME NEW c \in Conns, HandlerStep(c) PROVE CaptureInv'
    <2>1. \A d \in Conns \ {c} : handler'[d] = handler[d] /\ got'[d] = got[d]
      BY <1>2, HandlerMoves
    <2>2. CASE Capture(c)
      <3>1. /\ handler[c] = "capture" /\ got' = got /\ taken' = taken
            /\ SendReceived(c) /\ got[c] \in Nat /\ got[c] >= 1
        BY <2>2, TypesAre DEF Capture, HandlerAt, HeldInv, Answering
      <3>2. Kept' = Kept \cup {<<c, got[c]>>}
        <4>1. CASE Received' = Append(Received, <<c, got[c]>>) /\ missed' = missed
          <5>1. Received \in Seq(Frame) /\ <<c, got[c]>> \in Frame
            BY <3>1, TypesAre DEF Frame
          <5>2. Queued(Append(Received, <<c, got[c]>>)) = Queued(Received) \cup {<<c, got[c]>>}
            BY <5>1, QueuedAppend
          <5>3. Queued(Received)' = Queued(Append(Received, <<c, got[c]>>))
            BY <4>1 DEF Queued
          <5>4. QED
            BY <3>1, <4>1, <5>2, <5>3 DEF Kept
        <4>2. CASE missed' = missed \cup {<<c, got[c]>>} /\ Received' = Received
          <5>1. Queued(Received)' = Queued(Received)
            BY <4>2 DEF Queued
          <5>2. QED
            BY <3>1, <4>2, <5>1 DEF Kept
        <4>3. QED
          BY <3>1, <4>1, <4>2 DEF SendReceived
      <3>3. \A d \in Conns : handler[d] = "capture" =>
                               handler'[d] = "capture" \/ <<d, got[d]>> \in Kept'
        BY <2>1, <3>2
      <3>4. QED
        BY <3>1, <3>2, <3>3, CaptureKept
    <2>3. CASE ReadFrame(c)
      <3>1. /\ Kept' = Kept /\ handler[c] = "read" /\ handler'[c] = "capture"
            /\ got'[c] = got[c] + 1 /\ got[c] \in Nat
        BY <1>1, <2>3, TypesAre DEF ReadFrame, HandlerAt, HandlerGoto, queueVars, testVars
      <3>2. ASSUME NEW d \in Conns, NEW n \in 1 .. got'[d], ~(n = got'[d] /\ handler'[d] = "capture")
            PROVE  <<d, n>> \in Kept'
        <4>1. CASE d = c
          <5>1. n \in 1 .. got[c]
            BY <3>1, <3>2, <4>1
          <5>2. QED
            BY <3>1, <4>1, <5>1 DEF CaptureInv
        <4>2. CASE d # c
          BY <2>1, <3>1, <3>2, <4>2 DEF CaptureInv
        <4>3. QED
          BY <4>1, <4>2
      <3>3. QED
        BY <3>2 DEF CaptureInv
    <2>4. CASE SetDeadline(c) \/ TakePoll(c) \/ SkipPoll(c) \/ WritePoll(c) \/ Handshake(c)
               \/ TakeScripted(c) \/ StopWaiting(c) \/ Dispatch(c) \/ Fail(c) \/ Return(c)
      <3>1. UNCHANGED <<Received, taken, missed, got>>
        BY <2>4
        DEF SetDeadline, TakePoll, SkipPoll, WritePoll, Handshake, TakeScripted, StopWaiting,
            Dispatch, Fail, Return, queueVars, testVars, handlerVars
      <3>2. handler[c] # "capture"
        BY <2>4
        DEF SetDeadline, TakePoll, SkipPoll, WritePoll, Handshake, TakeScripted, StopWaiting,
            SeesContextDone, Dispatch, Fail, Return, HandlerAt
      <3>3. QED
        BY <1>1, <2>1, <3>1, <3>2, CaptureKept
    <2>5. QED
      BY <1>2, <2>2, <2>3, <2>4 DEF HandlerStep
  <1>3. CASE TakeReceived
    <2>1. /\ Received \in Seq(Frame) /\ Received # <<>> /\ Received' = Tail(Received)
          /\ taken' = taken \cup {Head(Received)} /\ missed' = missed
          /\ UNCHANGED <<got, handler>>
      BY <1>3, TypesAre DEF TakeReceived, handlerVars
    <2>2. Queued(Received) = {Head(Received)} \cup Queued(Tail(Received))
      BY <2>1, QueuedTail
    <2>3. Queued(Received)' = Queued(Tail(Received))
      BY <2>1 DEF Queued
    <2>4. Kept' = Kept
      BY <2>1, <2>2, <2>3 DEF Kept
    <2>5. QED
      BY <2>1, <2>4, CaptureKept
  <1>4. ASSUME UNCHANGED <<Received, taken, missed, got>>,
               \A c \in Conns : handler[c] = "capture" => handler'[c] = "capture"
        PROVE  CaptureInv'
    BY <1>1, <1>4, CaptureKept
  <1>5. CASE AcceptStep
    <2>1. UNCHANGED <<Received, taken, missed, got>>
      BY <1>5 DEF AcceptStep, Accept, Register, Spawn, AcceptEnds, handlerVars, queueVars, testVars
    <2>2. CASE handler' = handler
      BY <1>4, <2>1, <2>2
    <2>3. CASE Spawn
      <3>1. handler[fresh] # "capture" /\ handler' = [handler EXCEPT ![fresh] = "start"]
        BY <2>3 DEF Spawn, AcceptInv, Accepting
      <3>2. \A c \in Conns : handler[c] = "capture" => handler'[c] = "capture"
        BY <3>1, TypesAre
      <3>3. QED
        BY <1>4, <2>1, <3>2
    <2>4. QED
      BY <1>5, <2>2, <2>3 DEF AcceptStep, Accept, Register, AcceptEnds, handlerVars
  <1>6. ASSUME NEW c \in Conns, ClientStep(c) PROVE CaptureInv'
    BY <1>4, <1>6 DEF ClientStep, ClientDial, ClientSend, ClientClose, handlerVars, queueVars, testVars
  <1>7. CASE TestStep /\ ~TakeReceived
    BY <1>4, <1>7
    DEF TestStep, Script, InjectPoll, DropConnection, Cancel, CloseListener, WaitReturns,
        handlerVars, queueVars, testVars
  <1>8. CASE UNCHANGED vars
    BY <1>4, <1>8 DEF vars, handlerVars, queueVars, testVars
  <1>9. QED
    BY <1>2, <1>3, <1>5, <1>6, <1>7, <1>8 DEF Next, TestStep

-----------------------------------------------------------------------------
(* The theorems. *)
MockInv ==
  TypeOK /\ HeldInv /\ AcceptInv /\ WaitInv /\ ReplyInv /\ ScriptInv /\ CaptureInv

THEOREM MockInvHolds == Spec => []MockInv
  <1>1. Init => MockInv
    BY TypeInit, AcceptInit, WaitInit, ReplyInit, ScriptInit, CaptureInit DEF MockInv
  <1>2. MockInv /\ [Next]_vars => MockInv'
    <2>1. SUFFICES ASSUME MockInv, [Next]_vars PROVE MockInv'
      OBVIOUS
    <2>2. AcceptInv' /\ WaitInv' /\ wg' \in Nat
      BY <2>1, AcceptStepInv, WaitStep DEF MockInv
    <2>3. TypeOK' /\ HeldInv'
      BY <2>1, <2>2, TypeStep DEF MockInv
    <2>4. ReplyInv' /\ ScriptInv' /\ CaptureInv'
      BY <2>1, <2>3, ReplyStep, ScriptStep, CaptureStep DEF MockInv
    <2>5. QED
      BY <2>2, <2>3, <2>4 DEF MockInv
  <1>3. QED
    BY <1>1, <1>2, PTL DEF Spec

(* Every variable keeps its type: no channel ever holds more than its capacity,
   and the wait group never counts below zero, which would panic.            *)
THEOREM TypeCorrect == Spec => []TypeOK
  <1>1. MockInv => TypeOK
    BY DEF MockInv
  <1>2. QED
    BY <1>1, MockInvHolds, PTL

(* On one connection the n-th scripted response that reaches the client answers
   the n-th frame, for any number of connections, frames, responses and payloads,
   wherever connections are dropped or closed.                               *)
THEOREM RepliesArePaired == Spec => []RepliesPaired
  <1>1. MockInv => RepliesPaired
    BY DEF MockInv, ReplyInv, Reply, Paired, RepliesPaired
  <1>2. QED
    BY <1>1, MockInvHolds, PTL

(* The handlers use no scripted response twice, hand none out before one that
   was scripted earlier, and leave the later ones in Expect.                 *)
THEOREM ScriptIsFollowed == Spec => []ScriptInOrder
  <1>1. MockInv => ScriptInOrder
    <2>1. SUFFICES ASSUME MockInv PROVE ScriptInOrder
      OBVIOUS
    <2>2. \A c \in Conns : \A i \in Replies(c) :
            i \in Given(c) /\ GivenId(c, i) = out[c][i].item.id /\ GivenFor(c, i)
      BY <2>1 DEF MockInv, ScriptInv, Given, GivenId, Replies
    <2>3. SUFFICES ASSUME NEW c \in Conns, NEW i \in Replies(c)
          PROVE  /\ \A d \in Conns : \A j \in Replies(d) :
                      out[c][i].item.id = out[d][j].item.id => c = d /\ i = j
                 /\ \A j \in Replies(c) : i < j => out[c][i].item.id < out[c][j].item.id
                 /\ \A e \in Queued(Expect) : out[c][i].item.id < e.id
      BY DEF ScriptInOrder
    <2>4. GivenFor(c, i) /\ GivenId(c, i) = out[c][i].item.id
      BY <2>2
    <2>5. QED
      BY <2>2, <2>4 DEF GivenFor, Queued
  <1>2. QED
    BY <1>1, MockInvHolds, PTL

(* A frame is captured, or dropped at a full channel, before its answer can be
   there: a test that has the answer need not wait for the frame.            *)
THEOREM AnswersFollowCaptures == Spec => []CapturedBeforeAnswered
  <1>1. MockInv => CapturedBeforeAnswered
    <2>1. SUFFICES ASSUME MockInv, NEW c \in Conns, NEW i \in Replies(c)
                   PROVE  <<c, out[c][i].to>> \in Kept
      BY DEF CapturedBeforeAnswered, Kept
    <2>2. TypeOK /\ CaptureInv /\ Paired(c)
      BY <2>1 DEF MockInv, ReplyInv, Reply
    <2>3. out[c][i].to \in Nat \ {0} /\ out[c][i].to <= Told(c) /\ got[c] \in Nat
      BY <2>2, RepliesFinite, TypesAre DEF Paired
    <2>4. out[c][i].to \in 1 .. got[c] /\ (handler[c] = "capture" => out[c][i].to # got[c])
      BY <2>3 DEF Told, Answering
    <2>5. QED
      BY <2>2, <2>4 DEF CaptureInv
  <1>2. QED
    BY <1>1, MockInvHolds, PTL

(* A client that has finished its handshake finds s.conn at its own connection
   or a later one, however many clients dial.                                *)
THEOREM DropsHitTheLatest == Spec => []DropHitsLatest
  <1>1. MockInv => DropHitsLatest
    BY DEF MockInv, AcceptInv, Handled, DropHitsLatest
  <1>2. QED
    BY <1>1, MockInvHolds, PTL

(* When the cleanup has returned, every goroutine has ended and every connection
   that was accepted is closed: wg counts them all, from before they start.  *)
THEOREM CleanupIsComplete == Spec => []CleanupLeavesNothing
  <1>1. MockInv => CleanupLeavesNothing
    <2>1. SUFFICES ASSUME MockInv, test = "finished"
                   PROVE  acceptLoop = "done" /\ \A c \in Conns : ~Running(c) /\ server[c] # "open"
      BY DEF CleanupLeavesNothing
    <2>2. acceptLoop = "done" /\ Handlers = {} /\ fresh = 0
      BY <2>1, WaitOver DEF MockInv, AcceptInv
    <2>3. ASSUME NEW c \in Conns PROVE ~Running(c) /\ server[c] # "open"
      <3>1. ~Running(c) /\ Handled(c)
        BY <2>1, <2>2 DEF Handlers, MockInv, AcceptInv
      <3>2. CASE handler[c] = "none"
        BY <2>2, <3>1, <3>2 DEF Handled, Conns
      <3>3. CASE handler[c] = "done"
        BY <3>1, <3>3 DEF Handled
      <3>4. QED
        BY <3>1, <3>2, <3>3 DEF Running
    <2>4. QED
      BY <2>2, <2>3
  <1>2. QED
    BY <1>1, MockInvHolds, PTL
=============================================================================
