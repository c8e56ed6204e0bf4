------------------------------- MODULE EPPPeer -------------------------------
(***************************************************************************)
(* The EPP server as the adapter meets it: handleConn of                   *)
(* cmd/mock-epp-server under every fault profile, and the scripted faults  *)
(* of pkg/mock/epp.  A fault engine decides per frame what happens; here   *)
(* the decision is a choice.  On top of the mock the peer keeps what a     *)
(* registry would: how often each transform command was carried out.       *)
(***************************************************************************)
EXTENDS EPPWire

CONSTANT Faults    \* results the peer may answer besides the proper one

ASSUME FaultsAssumption == Faults \subseteq {"code", "empty", "garbage", "short"}

VARIABLES
  menu,    \* extensions offered by the greeting of each connection
  execs    \* how often the registry carried out the transform of each call

peerVars == <<menu, execs>>

PeerTypeOK ==
  /\ menu \in [Conns -> SUBSET Exts]
  /\ execs \in [Calls -> Nat]

PeerInit ==
  /\ menu = [c \in Conns |-> {}]
  /\ execs = [k \in Calls |-> 0]

-----------------------------------------------------------------------------
(* frame.WriteFrame by the server: lost unless the client still listens. *)
WriteAnswer(c, a) ==
  s2c' = IF link[c] = "up" THEN [s2c EXCEPT ![c] = Append(@, a)] ELSE s2c

(* The oldest unread request is taken off the connection. *)
TakeRequest(c) == c2s' = [c2s EXCEPT ![c] = Tail(@)]

(* handleConn returns: its deferred conn.Close drops unread requests. *)
CloseSession(c) ==
  /\ sess' = [sess EXCEPT ![c] = "closed"]
  /\ c2s' = [c2s EXCEPT ![c] = <<>>]

Reply(r, res) ==
  [kind |-> r.kind, call |-> r.call, cl |-> r.cl, res |-> res, ext |-> {}]

(* A transform is carried out, or it is not. *)
Perform(r, done) ==
  execs' = IF done /\ r.kind = "transform"
           THEN [execs EXCEPT ![r.call] = @ + 1]
           ELSE execs

Pending(c, kinds) ==
  Serving(c) /\ c2s[c] # <<>> /\ Head(c2s[c]).kind \in kinds

(* The server speaks first: a greeting with the extensions it offers, or a
   first frame the client cannot use.                                      *)
Greet(c) ==
  /\ sess[c] = "accepted"
  /\ sess' = [sess EXCEPT ![c] = "open"]
  /\ \E offered \in SUBSET Exts, res \in {"greeting"} \cup Faults :
       /\ menu' = [menu EXCEPT ![c] = offered]
       /\ WriteAnswer(c, [kind |-> "connect", call |-> NoCall, cl |-> 0,
                          res |-> res, ext |-> offered])
  /\ UNCHANGED <<link, c2s, execs>>

(* The login branch of the loop: allow or deny, or a scripted fault. *)
AnswerLogin(c) ==
  /\ Pending(c, {"login"})
  /\ \E res \in {"ok"} \cup Faults :
       /\ WriteAnswer(c, Reply(Head(c2s[c]), res))
       /\ sess' = IF res = "ok" THEN [sess EXCEPT ![c] = "authed"] ELSE sess
  /\ TakeRequest(c)
  /\ UNCHANGED <<link, menu, execs>>

(* ActionHang: the login frame is read and never answered. *)
IgnoreLogin(c) ==
  /\ Pending(c, {"login"})
  /\ TakeRequest(c)
  /\ UNCHANGED <<link, sess, s2c, menu, execs>>

(* The logout branch: the standalone mock answers 1500 and returns. *)
AnswerLogout(c) ==
  /\ Pending(c, {"logout"})
  /\ WriteAnswer(c, Reply(Head(c2s[c]), "ok"))
  /\ CloseSession(c)
  /\ UNCHANGED <<link, menu, execs>>

(* The scripted mock answers a logout from its queue like any other frame
   and keeps the connection.                                               *)
ScriptLogout(c) ==
  /\ Pending(c, {"logout"})
  /\ \E res \in {"ok"} \cup Faults : WriteAnswer(c, Reply(Head(c2s[c]), res))
  /\ TakeRequest(c)
  /\ UNCHANGED <<link, sess, menu, execs>>

(* A hello is answered by a greeting, with a menu the client does not read,
   or by a bare success (a mismatch rule that matches the hello).          *)
AnswerHello(c) ==
  /\ Pending(c, {"hello"})
  /\ \E res \in {"greeting", "ok"} \cup Faults : WriteAnswer(c, Reply(Head(c2s[c]), res))
  /\ TakeRequest(c)
  /\ UNCHANGED <<link, sess, menu, execs>>

(* Any other command: carried out and confirmed, refused and not carried
   out, or answered by a corrupted frame whether carried out or not.       *)
AnswerCommand(c) ==
  /\ Pending(c, {"query", "transform"})
  /\ \E res \in {"ok"} \cup Faults, done \in BOOLEAN :
       /\ res = "ok" => done
       /\ res = "code" => ~done
       /\ WriteAnswer(c, Reply(Head(c2s[c]), res))
       /\ Perform(Head(c2s[c]), done)
  /\ TakeRequest(c)
  /\ UNCHANGED <<link, sess, menu>>

(* A command is read, carried out or not, and the connection closed without
   a complete answer: ActionDisconnect, length_overflow, DropConnection.   *)
DropCommand(c) ==
  /\ Pending(c, {"query", "transform"})
  /\ \E done \in BOOLEAN : Perform(Head(c2s[c]), done)
  /\ CloseSession(c)
  /\ UNCHANGED <<link, s2c, menu>>

(* Every other return of handleConn: pre- and post-greeting disconnect, a
   denied connection, the absolute read deadline, end of file.             *)
HangUp(c) ==
  /\ Serving(c)
  /\ CloseSession(c)
  /\ UNCHANGED <<link, s2c, menu, execs>>

PeerStep(c) ==
  \/ Greet(c)
  \/ AnswerLogin(c)
  \/ IgnoreLogin(c)
  \/ AnswerLogout(c)
  \/ ScriptLogout(c)
  \/ AnswerHello(c)
  \/ AnswerCommand(c)
  \/ DropCommand(c)
  \/ HangUp(c)
=============================================================================
