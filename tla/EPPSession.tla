------------------------------ MODULE EPPSession ------------------------------
(***************************************************************************)
(* The adapter and the server it talks to, over connections the network    *)
(* may break at any time.                                                  *)
(***************************************************************************)
EXTENDS EPPAdapter, EPPPeer

vars == <<adapterVars, wireVars, peerVars>>

TypeOK == AdapterTypeOK /\ WireTypeOK /\ PeerTypeOK

Init == AdapterInit /\ WireInit /\ PeerInit

Adapter(t) == MethodStep(t) /\ UNCHANGED peerVars

Environment ==
  \/ \E t \in Callers : CallerStep(t) /\ UNCHANGED peerVars
  \/ \E c \in Conns : BreakLink(c) /\ UNCHANGED <<adapterVars, peerVars>>

Peer(c) == PeerStep(c) /\ UNCHANGED adapterVars

Next ==
  \/ \E t \in Callers : Adapter(t)
  \/ \E c \in Conns : Peer(c)
  \/ Environment

Spec == Init /\ [][Next]_vars

(* A goroutine that can run does, and Go's mutex starves nobody who waits
   for it.                                                                 *)
AdapterFairness ==
  \A t \in Callers : WF_vars(Adapter(t)) /\ SF_vars(Lock(t) /\ UNCHANGED peerVars)

(* The read deadline is set once per connection (five minutes in the
   standalone mock, thirty seconds in the scripted one), so the server ends
   every connection sooner or later, whatever else it does.                *)
PeerFairness == \A c \in Conns : WF_vars(HangUp(c) /\ UNCHANGED adapterVars)

FairSpec == Spec /\ AdapterFairness /\ PeerFairness

(* The server may hang, the adapter may not. *)
AdapterFairSpec == Spec /\ AdapterFairness

-----------------------------------------------------------------------------
(* A goroutine waits for a frame. *)
Receiving(t) == pc[t] \in {"greeting", "login", "receive"}

InFlight(c) == {c2s[c][i] : i \in DOMAIN c2s[c]} \cup {s2c[c][i] : i \in DOMAIN s2c[c]}

(* The frame a waiting goroutine may find. *)
Awaited(t, f) ==
  IF pc[t] = "greeting"
  THEN f.kind = "connect"
  ELSE /\ f.call = Current(t)
       /\ f.kind = IF pc[t] = "login" THEN "login" ELSE WireKind(kind[Current(t)])
       /\ f.kind # "hello" => f.cl = clTRID

(* The goroutine that waits for an answer can only be given the answer to the
   request it sent last: nobody compares clTRIDs (sendAndReceive), so the
   pairing rests on the mutex, on one request per answer and on dropping the
   connection after a failure.                                             *)
Correlated ==
  \A t \in Callers : Receiving(t) /\ link[conn] = "up" =>
    \A f \in InFlight(conn) : Awaited(t, f)

(* When the mutex is free, nothing is left on the connection it guards that
   the next caller could take for its own answer.                          *)
NothingLeftOver ==
  mu = NoCaller /\ conn # NoConn /\ link[conn] = "up" => InFlight(conn) = {}

(* A command only reaches a server that has confirmed a login on that very
   connection, after every reconnect too (dial logs in on every dial).     *)
CommandsAfterLogin ==
  \A c \in Conns : \A i \in DOMAIN c2s[c] :
    c2s[c][i].kind \in {"query", "transform", "logout"} => sess[c] \in {"authed", "closed"}

(* Commands that are under way at the same time, those stranded on an
   abandoned connection included, have different clTRIDs (the counter of
   nextClTRID and sendLogin).                                              *)
ClTRIDsDiffer ==
  \A c, d \in Conns : \A i \in DOMAIN c2s[c], j \in DOMAIN c2s[d] :
    /\ c2s[c][i].kind # "hello" /\ c2s[d][j].kind # "hello"
    /\ c2s[c][i].cl = c2s[d][j].cl
    => c = d /\ i = j

(* The adapter never holds more than one connection open, and the one it
   holds is the one its conn field names (the type's comment: "one
   connection, no parallelism").                                           *)
OneConnection ==
  \A c \in Conns : link[c] \in {"up", "broken"} => c = conn

(* A login names only extensions that the greeting of the same connection
   offered, also when a reconnect meets a server with another menu
   (readGreeting replaces advertisedExt on every dial).                    *)
LoginAsksOnlyOffered ==
  \A c \in Conns : \A i \in DOMAIN c2s[c] :
    c2s[c][i].kind = "login" => c2s[c][i].ext \subseteq menu[c]

(* The inductive invariant behind the properties above, in parts. *)

(* Exactly the goroutine past the mutex holds it, and it is in a call. *)
MutexHeld ==
  \A t \in Callers :
    /\ pc[t] \notin {"idle", "lock"} <=> mu = t
    /\ pc[t] # "idle" => made[t] > 0

(* The two ends of a connection agree on how far it has come. *)
EndsAgree ==
  \A c \in Conns :
    /\ link[c] = "unused" <=> sess[c] = "none"
    /\ sess[c] \in {"none", "accepted"} => c2s[c] = <<>> /\ s2c[c] = <<>>
    /\ sess[c] = "closed" => c2s[c] = <<>>
    /\ \A i \in DOMAIN s2c[c] :
         s2c[c][i].kind = "login" /\ s2c[c][i].res = "ok" => sess[c] \in {"authed", "closed"}

(* The connection the adapter holds is open, it is logged in unless it is
   being dialled, and whoever waits for a frame waits on it.               *)
ConnUsable ==
  /\ \A t \in Callers : Receiving(t) => conn # NoConn
  /\ conn # NoConn =>
       /\ link[conn] \in {"up", "broken"}
       /\ (\A t \in Callers : pc[t] \notin {"greeting", "login"}) =>
            sess[conn] \in {"authed", "closed"}
       /\ (\A t \in Callers : pc[t] # "greeting") => sess[conn] # "accepted"

(* At most one frame is under way on the connection, and none unless a
   goroutine waits for it.                                                 *)
OneAnswerDue ==
  conn # NoConn /\ link[conn] = "up" =>
    /\ (\A t \in Callers : ~Receiving(t)) => c2s[conn] = <<>> /\ s2c[conn] = <<>>
    /\ c2s[conn] = <<>> \/ s2c[conn] = <<>>
    /\ Len(c2s[conn]) <= 1 /\ Len(s2c[conn]) <= 1
    /\ \A t \in Callers : Receiving(t) =>
         /\ \A i \in DOMAIN c2s[conn] : pc[t] # "greeting" /\ Awaited(t, c2s[conn][i])
         /\ \A i \in DOMAIN s2c[conn] : Awaited(t, s2c[conn][i])

(* No request carries a clTRID the counter has not reached. *)
ClTRIDsIssued ==
  \A c \in Conns : \A i \in DOMAIN c2s[c] : c2s[c][i].cl <= clTRID

(* Without Relogin, nobody can have dialled while a Login is on its way. *)
LoginAlone ==
  \A t \in Callers :
    ~Relogin /\ pc[t] \in {"lock", "dial"} /\ kind[Current(t)] = "Login" =>
      /\ conn = NoConn
      /\ \A u \in Callers \ {t} :
           pc[u] # "idle" => /\ pc[u] \in {"lock", "close", "send", "panic"}
                            /\ kind[Current(u)] # "Login"

(* Nobody dials while the adapter still has a connection. *)
DialFromNothing == \A t \in Callers : pc[t] = "dial" => conn = NoConn

SessionInv ==
  /\ MutexHeld
  /\ EndsAgree
  /\ ConnUsable
  /\ OneAnswerDue
  /\ CommandsAfterLogin
  /\ ClTRIDsIssued
  /\ ClTRIDsDiffer
  /\ LoginAlone
  /\ ~Relogin => DialFromNothing /\ OneConnection

(* How a call that changes the registry looks to its caller: a rejection is
   final when it ended the first run of fn, and tells nothing when it came
   from the reconnect or from the second run.                              *)
CallStatus(k) ==
  IF kind[k] # "Transform" THEN "new"
  ELSE CASE result[k] = "none" -> "pending"
         [] result[k] = "ok" -> "ok"
         [] result[k] = "code" /\ tries[k] < 2 -> "rejected"
         [] OTHER -> "failed"

Remote == INSTANCE RemoteCalls WITH
  MaxExecs <- 2,
  status <- [k \in Calls |-> CallStatus(k)],
  count <- execs

(* The adapter and the server implement RemoteCalls with two executions:
   withConn runs a command at most twice, nil means it was carried out, and
   an *EPPError from the first run means it was not.                       *)
AtMostTwice == Remote!Spec

(* Every call returns, or the process has panicked (no method holds the mutex
   for ever, and no read waits for a server that is gone).                 *)
CallsReturn ==
  \A t \in Callers : pc[t] # "idle" ~> pc[t] = "idle" \/ Panicked

-----------------------------------------------------------------------------
(* withConn's comment: a reconnect and retry "on TRANSPORT failures only". *)
RetryOnTransportFailureOnly ==
  [][\A k \in Calls : tries[k] = 1 /\ tries'[k] = 2 => ReadFails(conn)]_vars

(* docs/how-to-fault-injection.md on dropped sessions: the client "does not
   hang, and returns a clear error to the caller rather than silently
   retrying or panicking".                                                 *)
NeverPanics == ~Panicked

(* registrar.go: "All methods accept context.Context as the first argument
   for timeout and cancellation": a call whose context is cancelled returns
   without the server's help.                                              *)
CancelledCallsReturn ==
  \A t \in Callers : t \in cancelled /\ pc[t] # "idle" ~> pc[t] = "idle" \/ Panicked
=============================================================================
