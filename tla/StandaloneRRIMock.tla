--------------------------- MODULE StandaloneRRIMock ---------------------------
(***************************************************************************)
(* cmd/mock-rri-server: every query succeeds, with or without a login,     *)
(* unless the fault profile has it otherwise.                              *)
(***************************************************************************)
EXTENDS RRIAdapter, FaultEngine

CONSTANT Profiles    \* fault profiles the mock is started with

ASSUME ProfileAssumption == Profiles \subseteq Profile /\ OpTypes = Queries

VARIABLES
  profile,    \* the profile of this process
  engine      \* the fault engine of each connection

standaloneVars == <<profile, engine>>

StandaloneTypeOK == profile \in Profiles /\ engine \in [Clients -> Engine]

StandaloneInit == profile \in Profiles /\ engine = [k \in Clients |-> NewFaultEngine]

(* The accept loop, OnConnect and AfterGreeting. *)
ClosesAtOnce == \E moment \in {"pre-greeting", "post-greeting"} : DisconnectsAt(profile, moment)

AcceptConn(k) ==
  /\ Waiting(k)
  /\ server' = [server EXCEPT ![k] = IF ClosesAtOnce THEN "closed" ELSE "open"]
  /\ UNCHANGED <<clientVars, up, down, answers, listening, standaloneVars>>

Respond(k, res) ==
  /\ TakeQuery(k) /\ Write(k, Head(up[k]), res)
  /\ UNCHANGED <<clientVars, listening, profile>>

LoginQuery(k, action) ==
  /\ HasQuery(k) /\ Query(k) = "LOGIN"
  /\ OnLoginAttempt(profile, engine[k]) = action
  /\ engine' = [engine EXCEPT ![k] = CountLogin(@)]

AllowLogin(k) == LoginQuery(k, "allow") /\ Respond(k, "success") /\ UNCHANGED server
DenyLogin(k) == LoginQuery(k, "deny") /\ Respond(k, "other") /\ UNCHANGED server

(* No answer; the adapter waits for it until the deadline. *)
HangLogin(k) ==
  /\ LoginQuery(k, "hang") /\ TakeQuery(k)
  /\ UNCHANGED <<clientVars, down, serverEnd, listening, profile>>

DisconnectLogin(k) ==
  /\ LoginQuery(k, "disconnect") /\ TakeQuery(k) /\ CloseEnd(k)
  /\ UNCHANGED <<clientVars, down, answers, listening, profile>>

LogoutQuery(k) ==
  /\ HasQuery(k) /\ Query(k) = "LOGOUT"
  /\ Respond(k, "success") /\ CloseEnd(k)
  /\ UNCHANGED engine

OtherQuery(k) ==
  /\ HasQuery(k) /\ Query(k) \notin {"LOGIN", "LOGOUT"}
  /\ engine' = [engine EXCEPT ![k] = CountOperation(@)]

Disconnects(k) == OnOperation(profile, engine[k], Query(k)) = "disconnect"

(* mismatch and malformed_frame have no effect here. *)
AnswerQuery(k) ==
  /\ OtherQuery(k) /\ ~Disconnects(k)
  /\ Respond(k, "success")
  /\ UNCHANGED server

DisconnectQuery(k) ==
  /\ OtherQuery(k) /\ Disconnects(k)
  /\ TakeQuery(k) /\ CloseEnd(k)
  /\ UNCHANGED <<clientVars, down, answers, listening, profile>>

(* A read that fails: the client is gone, or the deadline of five minutes. *)
BugNoDeadline(k) ==
  /\ server[k] = "open" /\ client[k] = "lost"
  /\ CloseEnd(k)
  /\ UNCHANGED <<clientVars, up, down, answers, listening, standaloneVars>>

HangUp(k) ==
  /\ server[k] = "open"
  /\ CloseEnd(k)
  /\ UNCHANGED <<clientVars, up, down, answers, listening, standaloneVars>>

(* A signal closes the listener; the process ends. *)
ShutDown ==
  /\ listening
  /\ listening' = FALSE
  /\ server' = [k \in Clients |-> IF client[k] = "none" THEN "none" ELSE "closed"]
  /\ UNCHANGED <<clientVars, up, down, answers, standaloneVars>>

ConnStep(k) ==
  \/ AcceptConn(k)
  \/ AllowLogin(k) \/ DenyLogin(k) \/ HangLogin(k) \/ DisconnectLogin(k)
  \/ LogoutQuery(k) \/ AnswerQuery(k) \/ DisconnectQuery(k) \/ HangUp(k)
=============================================================================
