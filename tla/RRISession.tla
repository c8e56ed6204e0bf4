------------------------------ MODULE RRISession ------------------------------
(***************************************************************************)
(* Adapters for RRI against the servers of this repository: the scripted   *)
(* mock of a test, or the standalone mock with a fault profile.            *)
(***************************************************************************)
EXTENDS MockRRIServer, StandaloneRRIMock, FiniteSets

CONSTANT Backends    \* subset of {"mock", "standalone"}

VARIABLE backend     \* which server the adapters dial

vars == <<linkVars, mockVars, standaloneVars, backend>>

TypeOK ==
  /\ LinkTypeOK /\ MockTypeOK /\ StandaloneTypeOK
  /\ backend \in Backends

Init ==
  /\ LinkInit /\ MockInit /\ StandaloneInit
  /\ backend \in Backends
  /\ backend = "mock" => profile = CHOOSE p \in Profiles : TRUE

Next ==
  \/ \E k \in Clients : AdapterStep(k) /\ UNCHANGED <<mockVars, standaloneVars, backend>>
  \/ backend = "mock" /\ MockStep /\ UNCHANGED <<standaloneVars, backend>>
  \/ /\ backend = "standalone"
     /\ ShutDown \/ \E k \in Clients : ConnStep(k)
     /\ UNCHANGED <<mockVars, backend>>

Spec == Init /\ [][Next]_vars

(* Goroutines that can go on do, the deadlines pass, and a cleanup that has
   begun goes on; nothing makes a test script an answer, end, or call.       *)
Fairness ==
  /\ \A k \in Clients :
       /\ WF_vars(Progress(k) /\ UNCHANGED <<mockVars, standaloneVars, backend>>)
       /\ WF_vars(backend = "mock" /\ (Accept(k) \/ HandlerStep(k))
                  /\ UNCHANGED <<standaloneVars, backend>>)
       /\ WF_vars(backend = "standalone" /\ ConnStep(k) /\ UNCHANGED <<mockVars, backend>>)
  /\ WF_vars(backend = "mock" /\ WaitReturns /\ UNCHANGED <<standaloneVars, backend>>)

FairSpec == Spec /\ Fairness

-----------------------------------------------------------------------------
(* Properties. *)

(* Whether one of the first n calls of adapter k was a Login that succeeded. *)
LoggedInBy(k, n) == \E i \in 1 .. n : done[k][i] = [op |-> "Login", res |-> "ok"]

(* Against the scripted mock a Login that returned nil decides, and nothing
   after it, not a failing second Login either (server.go:223, :239): before
   it no call but CheckContact, which takes the refusal for a free handle,
   and Logout succeeds, and after it none is refused for want of a login.    *)
LoginDecides ==
  backend = "mock" =>
    \A k \in Clients : \A n \in DOMAIN done[k] :
      done[k][n].op \in DOMAIN QueryOf \ {"Login", "Logout"} =>
        IF LoggedInBy(k, n - 1) THEN done[k][n].res # "2201"
                                ELSE done[k][n].res \in {"1300", "2201", "failed", "notfound"}

(* The answers on a connection are to the calls of its adapter, one to each
   query, in order: an answer on the way is to the call that waits, whatever
   hung, was malformed or was refused before it.                             *)
AnswersPaired ==
  \A k \in Clients :
    /\ \A i \in DOMAIN down[k] :
         down[k][i].call = Number(k) /\ Pending(k) /\ call[k].awaits = "answer"
    /\ Len(down[k]) + Len(up[k]) <= 1

(* A PollRead that reports an empty queue, 1300, was answered by the server
   with a failure: a lost connection, a hanging login and a bad header are not
   taken for an empty queue (adapter.go:476).                                *)
EmptyQueueAnswered ==
  \A k \in Clients : \A n \in DOMAIN done[k] :
    done[k][n].res = "1300" =>
      \E i \in DOMAIN answers[k] :
        /\ answers[k][i].call = n /\ answers[k][i].query = "QUEUE-READ"
        /\ answers[k][i].res \in DOMAIN EPPCode

(* An adapter that waits for the end of the stream after LOGOUT does not wait
   for a deadline: the server has closed (server.go:263, main.go:179).       *)
LogoutCloses ==
  \A k \in Clients : Pending(k) /\ call[k].awaits = "eof" => server[k] = "closed"

(* The standalone mock answers no more queries on a connection than
   disconnect_after, LOGIN and LOGOUT not counted.                           *)
Counted(k) == {i \in DOMAIN answers[k] : answers[k][i].query \notin {"LOGIN", "LOGOUT"}}

QueriesLimited ==
  backend = "standalone" /\ profile.disconnectAfter > 0 =>
    \A k \in Clients : Cardinality(Counted(k)) <= profile.disconnectAfter

(* A call returns, unless its query waits for a script that has run out. *)
Unscripted(k) == backend = "mock" /\ handler[k] = "await" /\ Expect = 0

CallsReturn == \A k \in Clients : Pending(k) ~> (~Pending(k) \/ Unscripted(k))

(* Once begun, the cleanup of the scripted mock ends, with no handler left. *)
CleanupEnds == test = "closed" ~> (test = "finished" /\ \A k \in Clients : ~Running(k))

(* A call that changes the registry is carried out at most once, for nothing
   resends it, and RemoteCalls says what its result tells.                   *)
ChangesOf == Clients \X (1 .. MaxCalls)

Status(c) ==
  LET k == c[1] n == c[2]
  IN CASE n <= Len(done[k]) /\ done[k][n].op = "Create" ->
            IF done[k][n].res \in {"ok", "failed"} THEN done[k][n].res ELSE "rejected"
       [] n = Number(k) /\ Pending(k) /\ call[k].op = "Create" -> "pending"
       [] OTHER -> "new"

Executions(c) ==
  Cardinality({i \in DOMAIN answers[c[1]] :
    answers[c[1]][i] = [res |-> "success", query |-> "CREATE", call |-> c[2]]})

Abstract ==
  INSTANCE RemoteCalls WITH
    Calls <- ChangesOf, MaxExecs <- 1,
    status <- [c \in ChangesOf |-> Status(c)],
    count <- [c \in ChangesOf |-> Executions(c)]

CallsOnce == Abstract!Spec
=============================================================================
