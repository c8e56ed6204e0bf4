-------------------------------- MODULE Registry --------------------------------
(***************************************************************************)
(* What scenario runs meet behind a Registrar: objects with the names they *)
(* were created under, a queue of messages, and calls whose answer need    *)
(* not say what became of them.  An adapter runs a call twice after a      *)
(* failure, so a call may have been carried out although it is answered    *)
(* with an error, and a request on an abandoned connection may be carried  *)
(* out later (RemoteCalls).  One action is one call, from its start to its *)
(* answer.                                                                 *)
(***************************************************************************)
EXTENDS Naturals, Sequences

CONSTANTS
  Runs,         \* invocations of RunScenario
  Nobody,       \* creator of what was there before
  NoBase,       \* the empty string as a name
  MsgTypes,     \* types of messages
  MaxArrivals,  \* bound: messages that arrive
  Reliable      \* TRUE: every call is carried out once and answered

ASSUME RegistryAssumption ==
  /\ Nobody \notin Runs
  /\ MaxArrivals \in Nat
  /\ Reliable \in BOOLEAN

VARIABLES
  objects,   \* what exists: its name, who created it, the names it links to
  late,      \* requests on abandoned connections
  queue,     \* the poll queue
  arrived    \* messages that have arrived so far

registryVars == <<objects, late, queue, arrived>>

(* How a call ends: success, the EPP codes 2302, 2303, 2305 and 1300, any
   other code, and an error that is no *EPPError.                          *)
Outcomes == {"ok", "exists", "missing", "linked", "empty", "refused", "failed"}

(* The empty name: the registry assigns a handle of its own, which no run
   gets to know, for the adapters answer with the name they asked for.     *)
NoName == [base |-> NoBase, tags |-> <<>>]

Message == [id : 1 .. MaxArrivals, type : MsgTypes]

Exists(n) == n # NoName /\ \E x \in objects : x.name = n

Linked(n) == \E x \in objects : n \in x.uses

-----------------------------------------------------------------------------
(* The answer leaves open whether the call was carried out. *)
InDoubt(o) == ~Reliable /\ o \in {"refused", "failed"}

(* The second run of a call finds what the first has done. *)
AnsweredTwice(o, second) == ~Reliable /\ o \in {second, "refused", "failed"}

Create(r, n, links, o) ==
  LET x == [name |-> n, by |-> r, uses |-> links]
      Add == objects' = objects \cup {x} /\ UNCHANGED late
      Nothing == UNCHANGED <<objects, late>>
  IN /\ \/ ~Exists(n) /\ o = "ok" /\ Add
        \/ ~Exists(n) /\ AnsweredTwice(o, "exists") /\ Add
        \/ Exists(n) /\ o = "exists" /\ Nothing
        \/ InDoubt(o) /\ Nothing
        \/ InDoubt(o) /\ late' = late \cup {[verb |-> "create", object |-> x]}
                      /\ UNCHANGED objects
     /\ UNCHANGED <<queue, arrived>>

Delete(n, o) ==
  LET Remove == objects' = {x \in objects : x.name # n}
  IN /\ \/ Exists(n) /\ ~Linked(n) /\ o = "ok" /\ Remove
        \/ Exists(n) /\ ~Linked(n) /\ AnsweredTwice(o, "missing") /\ Remove
        \/ Exists(n) /\ Linked(n) /\ o = "linked" /\ UNCHANGED objects
        \/ ~Exists(n) /\ o = "missing" /\ UNCHANGED objects
        \/ InDoubt(o) /\ UNCHANGED objects
     /\ UNCHANGED <<late, queue, arrived>>

(* Check, info, update, renew and transfer leave objects and queue alone. *)
Consult(n, o) ==
  /\ \/ o = IF Exists(n) THEN "ok" ELSE "missing"
     \/ InDoubt(o)
  /\ UNCHANGED registryVars

(* Login, logout and ping. *)
Session(o) == (o = "ok" \/ InDoubt(o)) /\ UNCHANGED registryVars

(* The oldest message, which stays in the queue.  RRIAdapter answers 1300 to
   every refusal.                                                          *)
PollRead(o, m) ==
  /\ \/ m \in queue /\ o = "ok" /\ \A k \in queue : m.id <= k.id
     \/ queue = {} /\ o = "empty"
     \/ ~Reliable /\ o \in {"empty", "refused", "failed"}
  /\ UNCHANGED registryVars

PollAck(m, o) ==
  LET Dequeue == queue' = queue \ {m}
  IN /\ \/ m \in queue /\ o = "ok" /\ Dequeue
        \/ m \in queue /\ AnsweredTwice(o, "missing") /\ Dequeue
        \/ m \notin queue /\ o = "missing" /\ UNCHANGED queue
        \/ InDoubt(o) /\ UNCHANGED queue
     /\ UNCHANGED <<objects, late, arrived>>

-----------------------------------------------------------------------------
(* The registry by itself. *)

Arrive(t) ==
  /\ arrived < MaxArrivals
  /\ arrived' = arrived + 1
  /\ queue' = queue \cup {[id |-> arrived + 1, type |-> t]}
  /\ UNCHANGED <<objects, late>>

CarryOutLate(e) ==
  /\ late' = late \ {e}
  /\ objects' = IF Exists(e.object.name) THEN objects ELSE objects \cup {e.object}
  /\ UNCHANGED <<queue, arrived>>

RegistryStep(types) ==
  \/ \E t \in types : Arrive(t)
  \/ \E e \in late : CarryOutLate(e)
=============================================================================
