------------------------------ MODULE EPPAdapter ------------------------------
(***************************************************************************)
(* GenericEPPAdapter (pkg/registrar/epp): one TLS connection behind a      *)
(* mutex, shared by goroutines.  Login dials, reads the greeting and logs  *)
(* in; every operation runs through withConn, which re-dials and runs it   *)
(* once more when it fails with anything but an *EPPError.                 *)
(*                                                                         *)
(* One action is one stretch of a method between two points where the      *)
(* goroutine can block: the mutex, the dialler and each frame it reads.    *)
(*                                                                         *)
(* A definition named Bug... is a mistake this code could contain.  The    *)
(* model does not use it; it stands beside the definition it could replace *)
(* to show that some property would notice.                                *)
(***************************************************************************)
EXTENDS EPPWire

CONSTANTS
  NoCaller,      \* a.mu is free
  Operations,    \* the kinds of call the callers make
  Cancellable,   \* callers whose context may be cancelled
  Relogin        \* may Login be called while a session is up?

VARIABLES
  mu,              \* holder of a.mu
  conn,            \* a.conn
  clTRID,          \* a.clTRID
  advertisedExt,   \* a.advertisedExt
  pc,              \* where each goroutine is
  made,            \* calls each goroutine has made
  kind,            \* what each call is
  tries,           \* runs of fn that each call has started, its reconnect included
  result,          \* what each call returned
  cancelled        \* callers whose context is cancelled

adapterVars ==
  <<mu, conn, clTRID, advertisedExt, pc, made, kind, tries, result, cancelled>>

(* The wrapped methods and what they put on the wire.  Ping sends a hello,
   which carries no clTRID; Close sends nothing.                           *)
WithConnOps == {"Ping", "Query", "Transform"}
AllOperations == WithConnOps \cup {"Login", "Logout", "Close"}

ASSUME AdapterAssumption ==
  /\ NoCaller \notin Callers
  /\ Operations \subseteq AllOperations
  /\ Cancellable \subseteq Callers
  /\ Relogin \in BOOLEAN

Locations == {"idle", "lock", "close", "send", "receive", "dial", "greeting",
              "login", "panic"}

(* A call returns nil, an *EPPError, or some other error. *)
Returns == {"ok", "code", "error"}

(* The call a goroutine is in. *)
Current(t) == <<t, made[t]>>

AdapterTypeOK ==
  /\ mu \in Callers \cup {NoCaller}
  /\ conn \in Conns \cup {NoConn}
  /\ clTRID \in Nat
  /\ advertisedExt \in SUBSET Exts
  /\ pc \in [Callers -> Locations]
  /\ made \in [Callers -> 0 .. MaxCalls]
  /\ kind \in [Calls -> AllOperations \cup {"none"}]
  /\ tries \in [Calls -> {0, 1, 2}]
  /\ result \in [Calls -> Returns \cup {"none"}]
  /\ cancelled \in SUBSET Callers

AdapterInit ==
  /\ mu = NoCaller
  /\ conn = NoConn
  /\ clTRID = 0
  /\ advertisedExt = {}
  /\ pc = [t \in Callers |-> "idle"]
  /\ made = [t \in Callers |-> 0]
  /\ kind = [k \in Calls |-> "none"]
  /\ tries = [k \in Calls |-> 0]
  /\ result = [k \in Calls |-> "none"]
  /\ cancelled = {}

-----------------------------------------------------------------------------
(* A nil dereference in one goroutine ends the whole process. *)
Panicked == \E t \in Callers : pc[t] = "panic"

At(t, location) == ~Panicked /\ pc[t] = location

Goto(t, location) == pc' = [pc EXCEPT ![t] = location]

(* The method returns r; its deferred a.mu.Unlock runs. *)
Return(t, r) ==
  /\ Goto(t, "idle")
  /\ mu' = NoCaller
  /\ result' = [result EXCEPT ![Current(t)] = r]

(* a.conn.Close(); a.conn = nil, also when a.conn is nil already. *)
CloseConn == conn' = NoConn /\ ShutLinks({conn})

(* nextClTRID, and the increment in sendLogin. *)
BugClTRIDReused == clTRID
NextClTRID == clTRID + 1

(* readGreeting: the configured extensions that the greeting offers. *)
BugExtensionsAccumulated(offered) == advertisedExt \cup (Exts \cap offered)
FilterExtensions(offered) == Exts \cap offered

(* The request a call puts on the wire. *)
Frame(t, wireKind, n) ==
  [kind |-> wireKind, call |-> Current(t), cl |-> n,
   ext |-> IF wireKind = "login" THEN advertisedExt' ELSE {}]

WireKind(op) ==
  CASE op = "Ping" -> "hello"
    [] op = "Logout" -> "logout"
    [] op = "Query" -> "query"
    [] OTHER -> "transform"

(* The caller's discipline: with Relogin, Login at any time; without it only
   when no session is up and nobody is in a call.                          *)
MayInvoke(op) ==
  op = "Login" /\ ~Relogin =>
    conn = NoConn /\ \A u \in Callers : pc[u] = "idle"

(* A goroutine calls a method and queues for the mutex. *)
Invoke(t, op) ==
  /\ At(t, "idle") /\ made[t] < MaxCalls /\ MayInvoke(op)
  /\ made' = [made EXCEPT ![t] = @ + 1]
  /\ kind' = [kind EXCEPT ![<<t, made[t] + 1>>] = op]
  /\ Goto(t, "lock")
  /\ cancelled' = cancelled \ {t}
  /\ UNCHANGED <<mu, conn, clTRID, advertisedExt, tries, result, wireVars>>

(* A name, handle or authInfo that fails validation: *EPPError 2005 before
   the mutex is taken and before anything is sent.                         *)
RejectInvalid(t, op) ==
  /\ At(t, "idle") /\ made[t] < MaxCalls
  /\ op \in {"Query", "Transform"}
  /\ made' = [made EXCEPT ![t] = @ + 1]
  /\ kind' = [kind EXCEPT ![<<t, made[t] + 1>>] = op]
  /\ result' = [result EXCEPT ![<<t, made[t] + 1>>] = "code"]
  /\ UNCHANGED <<mu, conn, clTRID, advertisedExt, pc, tries, cancelled,
                 wireVars>>

(* a.mu.Lock() can succeed. *)
BugMutexIgnored == TRUE
MutexFree == mu = NoCaller

(* a.mu.Lock() succeeds. *)
Lock(t) ==
  /\ At(t, "lock") /\ MutexFree
  /\ mu' = t
  /\ tries' = [tries EXCEPT ![Current(t)] = 1]
  /\ Goto(t, CASE kind[Current(t)] = "Login" -> "dial"
               [] kind[Current(t)] = "Close" -> "close"
               [] OTHER -> "send")
  /\ UNCHANGED <<conn, clTRID, advertisedExt, made, kind, result, cancelled, wireVars>>

(* The context of a running call is cancelled. *)
CancelContext(t) ==
  /\ ~Panicked /\ pc[t] # "idle" /\ t \in Cancellable \ cancelled
  /\ cancelled' = cancelled \cup {t}
  /\ UNCHANGED <<mu, conn, clTRID, advertisedExt, pc, made, kind, tries,
                 result, wireVars>>

-----------------------------------------------------------------------------
(* Close: nothing is sent. *)
Close(t) ==
  /\ At(t, "close")
  /\ CloseConn
  /\ Return(t, "ok")
  /\ UNCHANGED <<clTRID, advertisedExt, made, kind, tries, cancelled, sess, c2s>>

(* Logout without a connection reports an error. *)
BugLeaveLocked(t) ==
  /\ At(t, "send") /\ conn = NoConn /\ kind[Current(t)] = "Logout"
  /\ Goto(t, "idle")
  /\ result' = [result EXCEPT ![Current(t)] = "error"]
  /\ UNCHANGED <<mu, conn, clTRID, advertisedExt, made, kind, tries, cancelled, wireVars>>

LogoutNotConnected(t) ==
  /\ At(t, "send") /\ conn = NoConn /\ kind[Current(t)] = "Logout"
  /\ Return(t, "error")
  /\ UNCHANGED <<conn, clTRID, advertisedExt, made, kind, tries, cancelled, wireVars>>

(* fn(nil): WriteFrame calls Write on a nil net.Conn. *)
SendOnNil(t) ==
  /\ At(t, "send") /\ conn = NoConn /\ kind[Current(t)] \in WithConnOps
  /\ clTRID' = IF kind[Current(t)] = "Ping" THEN clTRID ELSE NextClTRID
  /\ Goto(t, "panic")
  /\ UNCHANGED <<mu, conn, advertisedExt, made, kind, tries, result, cancelled, wireVars>>

(* sendAndReceive up to its ReadFrame. *)
Send(t) ==
  /\ At(t, "send") /\ conn # NoConn
  /\ LET op == kind[Current(t)]
         n == IF op = "Ping" THEN clTRID ELSE NextClTRID
     IN /\ clTRID' = n
        /\ WriteRequest(conn, Frame(t, WireKind(op), IF op = "Ping" THEN 0 ELSE n))
  /\ Goto(t, "receive")
  /\ UNCHANGED <<mu, conn, advertisedExt, made, kind, tries, result, cancelled, link, sess, s2c>>

-----------------------------------------------------------------------------
(* withConn after fn failed with an error that is no *EPPError: the first
   time reconnect drops the connection and dials, the second time the error
   is returned and the connection kept.                                    *)
BugRetryAlways(t) ==
  /\ tries' = [tries EXCEPT ![Current(t)] = 2]
  /\ CloseConn
  /\ Goto(t, "dial")
  /\ UNCHANGED <<mu, result>>

BugRetryWithoutClose(t) ==
  /\ tries[Current(t)] = 1
  /\ tries' = [tries EXCEPT ![Current(t)] = 2]
  /\ conn' = NoConn
  /\ Goto(t, "dial")
  /\ UNCHANGED <<mu, result, link, s2c>>

RetryOnce(t) ==
  /\ tries[Current(t)] = 1
  /\ tries' = [tries EXCEPT ![Current(t)] = 2]
  /\ CloseConn
  /\ Goto(t, "dial")
  /\ UNCHANGED <<mu, result>>

GiveUp(t) ==
  /\ tries[Current(t)] = 2
  /\ Return(t, "error")
  /\ UNCHANGED <<conn, tries>>

(* ReadFrame fails under withConn: end of file, reset, broken pipe. *)
LoseAnswer(t) ==
  /\ At(t, "receive") /\ kind[Current(t)] \in WithConnOps
  /\ ReadFails(conn)
  /\ \/ RetryOnce(t)
     \/ GiveUp(t) /\ UNCHANGED <<link, s2c>>
  /\ UNCHANGED <<clTRID, advertisedExt, made, kind, cancelled, sess, c2s>>

(* A frame arrives and fn cannot use it: a bad header, bytes that are not
   XML, no <response>, no <resData>.  Ping only needs a frame.             *)
Unusable(op, res) ==
  IF op = "Ping" THEN res = "short" ELSE res \in {"short", "garbage", "empty"}

RejectAnswer(t) ==
  /\ At(t, "receive") /\ kind[Current(t)] \in WithConnOps
  /\ Readable(conn) /\ Unusable(kind[Current(t)], Head(s2c[conn]).res)
  /\ \/ RetryOnce(t)
     \/ GiveUp(t) /\ ReadAnswer(conn)
  /\ UNCHANGED <<clTRID, advertisedExt, made, kind, cancelled, sess, c2s>>

(* A frame arrives and fn can use it: nil below 2000, an *EPPError, which
   withConn passes on, from 2000 on.                                       *)
AcceptAnswer(t) ==
  /\ At(t, "receive") /\ kind[Current(t)] \in WithConnOps
  /\ Readable(conn)
  /\ LET op == kind[Current(t)]
         res == Head(s2c[conn]).res
     IN /\ ~Unusable(op, res)
        /\ Return(t, IF op # "Ping" /\ res = "code" THEN "code" ELSE "ok")
  /\ ReadAnswer(conn)
  /\ UNCHANGED <<conn, clTRID, advertisedExt, made, kind, tries, cancelled, sess, c2s>>

-----------------------------------------------------------------------------
(* Logout: a failed write, read or unmarshal returns with the connection
   still in place.                                                         *)
LogoutFails(t) ==
  /\ At(t, "receive") /\ kind[Current(t)] = "Logout"
  /\ \/ ReadFails(conn) /\ UNCHANGED <<link, s2c>>
     \/ /\ Readable(conn) /\ Head(s2c[conn]).res \in {"short", "garbage"}
        /\ ReadAnswer(conn)
  /\ Return(t, "error")
  /\ UNCHANGED <<conn, clTRID, advertisedExt, made, kind, tries, cancelled, sess, c2s>>

(* Logout: an answer that parses closes the connection, whatever it says. *)
LogoutAnswered(t) ==
  /\ At(t, "receive") /\ kind[Current(t)] = "Logout"
  /\ Readable(conn) /\ Head(s2c[conn]).res \in {"ok", "code", "empty"}
  /\ Return(t, IF Head(s2c[conn]).res = "empty" THEN "error" ELSE Head(s2c[conn]).res)
  /\ CloseConn
  /\ UNCHANGED <<clTRID, advertisedExt, made, kind, tries, cancelled, sess, c2s>>

-----------------------------------------------------------------------------
(* dial: the connection cannot be made, which a cancelled context ensures.
   a.conn keeps the value it had.                                          *)
DialFails(t) ==
  /\ At(t, "dial")
  /\ Return(t, "error")
  /\ UNCHANGED <<conn, clTRID, advertisedExt, made, kind, tries, cancelled, wireVars>>

(* dial: a.conn is overwritten with the new connection. *)
Dial(t) ==
  /\ At(t, "dial") /\ t \notin cancelled
  /\ \E c \in Conns : Connect(c) /\ conn' = c
  /\ Goto(t, "greeting")
  /\ UNCHANGED <<mu, clTRID, advertisedExt, made, kind, tries, result, cancelled>>

(* readGreeting, then sendLogin up to its ReadFrame: the login asks for the
   configured extensions the greeting offers.                              *)
ReadGreeting(t) ==
  /\ At(t, "greeting")
  /\ Readable(conn) /\ Head(s2c[conn]).res = "greeting"
  /\ advertisedExt' = FilterExtensions(Head(s2c[conn]).ext)
  /\ ReadAnswer(conn)
  /\ clTRID' = NextClTRID
  /\ WriteRequest(conn, Frame(t, "login", NextClTRID))
  /\ Goto(t, "login")
  /\ UNCHANGED <<mu, conn, made, kind, tries, result, cancelled, sess>>

(* The login's result code is below 2000 (resultToError). *)
BugLoginUnchecked(res) == res \in {"ok", "code"}
LoginAccepted(res) == res = "ok"

(* sendLogin gets a code below 2000.  Login returns; withConn runs fn on the
   new connection.                                                         *)
LoginOk(t) ==
  /\ At(t, "login")
  /\ Readable(conn) /\ LoginAccepted(Head(s2c[conn]).res)
  /\ ReadAnswer(conn)
  /\ IF kind[Current(t)] = "Login"
     THEN Return(t, "ok")
     ELSE Goto(t, "send") /\ UNCHANGED <<mu, result>>
  /\ UNCHANGED <<conn, clTRID, advertisedExt, made, kind, tries, cancelled, sess, c2s>>

(* Anything else while dialling closes the new connection.  A refused login
   is an *EPPError, also through the wrapping of withConn.                 *)
DialAborts(t) ==
  /\ \/ /\ At(t, "greeting")
        /\ \/ ReadFails(conn)
           \/ Readable(conn) /\ Head(s2c[conn]).res # "greeting"
        /\ Return(t, "error")
     \/ /\ At(t, "login")
        /\ \/ ReadFails(conn) /\ Return(t, "error")
           \/ /\ Readable(conn) /\ ~LoginAccepted(Head(s2c[conn]).res)
              /\ Return(t, IF Head(s2c[conn]).res = "code" THEN "code" ELSE "error")
  /\ CloseConn
  /\ UNCHANGED <<clTRID, advertisedExt, made, kind, tries, cancelled, sess, c2s>>

(* What a goroutine does on its own; Invoke, RejectInvalid and CancelContext
   are its caller's doing.                                                 *)
MethodStep(t) ==
  \/ Lock(t)
  \/ Close(t)
  \/ LogoutNotConnected(t)
  \/ SendOnNil(t)
  \/ Send(t)
  \/ LoseAnswer(t)
  \/ RejectAnswer(t)
  \/ AcceptAnswer(t)
  \/ LogoutFails(t)
  \/ LogoutAnswered(t)
  \/ DialFails(t)
  \/ Dial(t)
  \/ ReadGreeting(t)
  \/ LoginOk(t)
  \/ DialAborts(t)

CallerStep(t) ==
  \/ \E op \in Operations : Invoke(t, op) \/ RejectInvalid(t, op)
  \/ CancelContext(t)
=============================================================================
