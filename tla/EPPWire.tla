------------------------------- MODULE EPPWire -------------------------------
(***************************************************************************)
(* The connections between one GenericEPPAdapter and the EPP server it     *)
(* dials.  A connection carries whole frames, first in first out, in each  *)
(* direction (pkg/epp/frame).  The two ends are separate: the client's end *)
(* can be shut or broken while the server still holds requests it has not  *)
(* read, and the server's end can be closed while answers it wrote are     *)
(* still to be read by the client.                                         *)
(*                                                                         *)
(* A definition named Bug... is a mistake this code could contain.  The    *)
(* model does not use it; it stands beside the definition it could replace *)
(* to show that some property would notice.                                *)
(***************************************************************************)
EXTENDS Naturals, Sequences

CONSTANTS
  Callers,    \* goroutines that share one adapter
  MaxCalls,   \* bound: calls one caller makes
  Conns,      \* connections that can be dialled; bound: their number
  NoConn,     \* the adapter's conn field is nil
  NoCall,     \* the unsolicited greeting answers no call
  Exts        \* extension URIs configured for the registrar

Calls == Callers \X (1 .. MaxCalls)

ASSUME WireAssumption ==
  /\ MaxCalls \in Nat
  /\ NoConn \notin Conns
  /\ NoCall \notin Calls

VARIABLES
  link,   \* client's end: "unused", "up", "broken" by the network, "shut" by the client
  sess,   \* server's end: "none", "accepted", "open" (greeted), "authed", "closed"
  c2s,    \* frames the server has not read
  s2c     \* frames the client has not read

wireVars == <<link, sess, c2s, s2c>>

(* What a command is on the wire.  Queries are check, info and poll
   commands; transforms change the registry.                               *)
RequestKinds == {"login", "logout", "hello", "query", "transform"}

(* How a frame ends for the client that reads it: a parsable greeting, a
   result code below 2000, a code of 2000 or more, a parsable envelope that
   lacks <response> or <resData>, bytes that are not XML, and a frame header
   that claims less than its own four bytes.                               *)
Results == {"greeting", "ok", "code", "empty", "garbage", "short"}

Request == [kind : RequestKinds, call : Calls, cl : Nat, ext : SUBSET Exts]

Answer == [kind : RequestKinds \cup {"connect"}, call : Calls \cup {NoCall},
           cl : Nat, res : Results, ext : SUBSET Exts]

WireTypeOK ==
  /\ link \in [Conns -> {"unused", "up", "broken", "shut"}]
  /\ sess \in [Conns -> {"none", "accepted", "open", "authed", "closed"}]
  /\ c2s \in [Conns -> Seq(Request)]
  /\ s2c \in [Conns -> Seq(Answer)]

WireInit ==
  /\ link = [c \in Conns |-> "unused"]
  /\ sess = [c \in Conns |-> "none"]
  /\ c2s = [c \in Conns |-> <<>>]
  /\ s2c = [c \in Conns |-> <<>>]

-----------------------------------------------------------------------------
(* The server's end can still take requests and write answers. *)
Serving(c) == sess[c] \notin {"none", "closed"}

(* tls.Dialer.DialContext: a fresh connection, accepted by the server. *)
Connect(c) ==
  /\ link[c] = "unused"
  /\ link' = [link EXCEPT ![c] = "up"]
  /\ sess' = [sess EXCEPT ![c] = "accepted"]
  /\ UNCHANGED <<c2s, s2c>>

(* WriteFrame by the client.  A write towards a dead peer either fails or is
   buffered and lost; the client cannot tell until it reads.               *)
WriteRequest(c, r) ==
  c2s' = IF link[c] = "up" /\ Serving(c)
         THEN [c2s EXCEPT ![c] = Append(@, r)]
         ELSE c2s

(* ReadFrame by the client cannot deliver anything any more.  The mistaken
   form gives up on an answer that is only late.                           *)
BugReadDeadline(c) == link[c] = "broken" \/ s2c[c] = <<>>
ReadFails(c) ==
  \/ link[c] = "broken"
  \/ ~Serving(c) /\ s2c[c] = <<>>

(* A frame is there for the client to read. *)
Readable(c) == link[c] = "up" /\ s2c[c] # <<>>

(* conn.Close() by the client: what it has not read is gone, what it has
   written is still delivered.                                             *)
ShutLinks(C) ==
  /\ link' = [c \in Conns |-> IF c \in C THEN "shut" ELSE link[c]]
  /\ s2c' = [c \in Conns |-> IF c \in C THEN <<>> ELSE s2c[c]]

(* The frame is consumed and the connection kept. *)
ReadAnswer(c) == s2c' = [s2c EXCEPT ![c] = Tail(@)] /\ UNCHANGED link

(* The network resets the client's end: its reads and writes fail, answers
   are lost, and requests already delivered stay with the server.          *)
BreakLink(c) ==
  /\ link[c] = "up"
  /\ link' = [link EXCEPT ![c] = "broken"]
  /\ s2c' = [s2c EXCEPT ![c] = <<>>]
  /\ UNCHANGED <<sess, c2s>>
=============================================================================
