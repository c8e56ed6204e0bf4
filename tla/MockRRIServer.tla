----------------------------- MODULE MockRRIServer -----------------------------
(***************************************************************************)
(* The scripted mock of pkg/mock/rri, which unlike the one for EPP keeps   *)
(* sessions: a login decides, connection by connection, who gets at the    *)
(* script, and all connections share the script.                           *)
(***************************************************************************)
EXTENDS RRIAdapter

CONSTANTS
  Nobody,       \* no connection
  Items,        \* what the test puts into Expect
  ExpectCap     \* capacity of Expect (32)

ASSUME ScriptAssumption ==
  /\ Nobody \notin Clients
  /\ Items \subseteq Answers \cup {"unknown"}
  /\ ExpectCap \in Nat \ {0}

(* The test may script what it likes and may AddUser whenever it likes; so the
   model counts the items in Expect and lets a handler find out what it got,
   and lets any login succeed or fail.                                        *)
VARIABLES
  handler,     \* where the handler of each connection is
  loggedIn,    \* its session
  held,        \* the query it has read and not yet answered
  Expect,      \* number of items in the script
  conn,        \* s.conn
  test         \* "running", "closed" (cancelled, listener closed), "finished"

handlerVars == <<handler, loggedIn, held>>
testVars == <<Expect, conn, test>>
mockVars == <<handlerVars, testVars>>

NoQuery == [query |-> "none", call |-> 0]

MockTypeOK ==
  /\ handler \in [Clients -> {"none", "read", "await", "done"}]
  /\ loggedIn \in [Clients -> BOOLEAN]
  /\ held \in [Clients -> [query : Queries, call : Nat] \cup {NoQuery}]
  /\ Expect \in 0 .. ExpectCap
  /\ conn \in Clients \cup {Nobody}
  /\ test \in {"running", "closed", "finished"}

MockInit ==
  /\ handler = [k \in Clients |-> "none"]
  /\ loggedIn = [k \in Clients |-> FALSE]
  /\ held = [k \in Clients |-> NoQuery]
  /\ Expect = 0
  /\ conn = Nobody
  /\ test = "running"

Goto(k, location) == handler' = [handler EXCEPT ![k] = location]

(* acceptLoop. *)
Accept(k) ==
  /\ Waiting(k)
  /\ server' = [server EXCEPT ![k] = "open"]
  /\ conn' = k
  /\ Goto(k, "read")
  /\ UNCHANGED <<clientVars, up, down, answers, listening, loggedIn, held, Expect, test>>

-----------------------------------------------------------------------------
(* handleConn. *)

Reads(k) == handler[k] = "read" /\ HasQuery(k)

(* A response the handler has not from the script. *)
Reply(k, res) ==
  /\ TakeQuery(k) /\ Write(k, Head(up[k]), res)
  /\ UNCHANGED <<clientVars, server, listening, handler, held, testVars>>

BugRefusesAndAwaits(k) ==
  /\ Reads(k) /\ ~loggedIn[k] /\ Query(k) # "LOGIN"
  /\ TakeQuery(k) /\ Write(k, Head(up[k]), "auth")
  /\ held' = [held EXCEPT ![k] = Head(up[k])]
  /\ Goto(k, "await")
  /\ UNCHANGED <<clientVars, server, listening, loggedIn, testVars>>

RefuseBeforeLogin(k) ==
  /\ Reads(k) /\ ~loggedIn[k] /\ Query(k) # "LOGIN"
  /\ Reply(k, "auth")
  /\ UNCHANGED loggedIn

LoginSucceeds(k) ==
  /\ Reads(k) /\ Query(k) = "LOGIN"
  /\ Reply(k, "success")
  /\ loggedIn' = [loggedIn EXCEPT ![k] = TRUE]

BugLoginLost(k) ==
  /\ Reads(k) /\ Query(k) = "LOGIN"
  /\ Reply(k, "auth")
  /\ loggedIn' = [loggedIn EXCEPT ![k] = FALSE]

(* A session that is there stays. *)
LoginFails(k) ==
  /\ Reads(k) /\ Query(k) = "LOGIN"
  /\ Reply(k, "auth")
  /\ UNCHANGED loggedIn

(* A query of a session waits for Expect, where no deadline ends the wait. *)
AwaitScript(k) ==
  /\ Reads(k) /\ loggedIn[k] /\ Query(k) # "LOGIN"
  /\ TakeQuery(k)
  /\ held' = [held EXCEPT ![k] = Head(up[k])]
  /\ Goto(k, "await")
  /\ UNCHANGED <<clientVars, down, serverEnd, listening, loggedIn, testVars>>

Leave(k) == Goto(k, "done") /\ CloseEnd(k) /\ held' = [held EXCEPT ![k] = NoQuery]

TakesScript(k) == handler[k] = "await" /\ Expect > 0 /\ Expect' = Expect - 1

(* dispatch; the connection is closed after LOGOUT. *)
BugLogoutKeepsOpen(k, item) ==
  /\ TakesScript(k) /\ item # "unknown" /\ server[k] = "open"
  /\ Write(k, held[k], item)
  /\ Goto(k, "read") /\ UNCHANGED server /\ held' = [held EXCEPT ![k] = NoQuery]
  /\ UNCHANGED <<clientVars, up, listening, loggedIn, conn, test>>

Dispatch(k, item) ==
  /\ TakesScript(k) /\ item # "unknown" /\ server[k] = "open"
  /\ Write(k, held[k], item)
  /\ IF held[k].query = "LOGOUT"
     THEN Leave(k)
     ELSE Goto(k, "read") /\ UNCHANGED server /\ held' = [held EXCEPT ![k] = NoQuery]
  /\ UNCHANGED <<clientVars, up, listening, loggedIn, conn, test>>

(* An item of unknown type, or a write that fails: the item is lost. *)
DispatchFails(k) ==
  /\ TakesScript(k)
  /\ Leave(k)
  /\ UNCHANGED <<clientVars, up, down, answers, listening, loggedIn, conn, test>>

BugContextIgnored(k) == FALSE
StopWaiting(k) ==
  /\ handler[k] = "await" /\ test # "running"
  /\ Leave(k)
  /\ UNCHANGED <<clientVars, up, down, answers, listening, loggedIn, testVars>>

(* A read or write that fails: DropConnection or the client has closed the
   connection, or the deadline of thirty seconds is over, which the model lets
   happen at any time.                                                       *)
GiveUp(k) ==
  /\ handler[k] = "read"
  /\ Leave(k)
  /\ UNCHANGED <<clientVars, up, down, answers, listening, loggedIn, testVars>>

HandlerStep(k) ==
  \/ RefuseBeforeLogin(k) \/ LoginSucceeds(k) \/ LoginFails(k)
  \/ AwaitScript(k) \/ DispatchFails(k)
  \/ StopWaiting(k) \/ GiveUp(k)
  \/ \E item \in Items : Dispatch(k, item)

-----------------------------------------------------------------------------
(* The test. *)

Script ==
  /\ test = "running" /\ Expect < ExpectCap
  /\ Expect' = Expect + 1
  /\ UNCHANGED <<linkVars, handlerVars, conn, test>>

DropConnection ==
  /\ test = "running" /\ conn # Nobody /\ server[conn] = "open"
  /\ CloseEnd(conn)
  /\ UNCHANGED <<clientVars, up, down, answers, listening, mockVars>>

(* t.Cleanup: cancel and ln.Close, which refuses the connections that have not
   been accepted; then wg.Wait.                                              *)
Cancel ==
  /\ test = "running"
  /\ test' = "closed"
  /\ listening' = FALSE
  /\ server' = [k \in Clients |->
                  IF server[k] = "none" /\ client[k] # "none" THEN "closed" ELSE server[k]]
  /\ UNCHANGED <<clientVars, up, down, answers, handlerVars, Expect, conn>>

Running(k) == handler[k] \in {"read", "await"}

WaitReturns ==
  /\ test = "closed" /\ \A k \in Clients : ~Running(k)
  /\ test' = "finished"
  /\ UNCHANGED <<linkVars, handlerVars, Expect, conn>>

MockStep ==
  \/ \E k \in Clients : Accept(k) \/ HandlerStep(k)
  \/ Script \/ DropConnection \/ Cancel \/ WaitReturns
=============================================================================
