----------------------------- MODULE ScenarioRunner -----------------------------
(***************************************************************************)
(* pkg/runner: RunScenario, which executes the steps of a scenario one     *)
(* after the other, asserts what each was expected to return, deletes what *)
(* it created when the test ends, and reports to the collector that all    *)
(* runs of a process share.  Runs are concurrent unless RunDir or          *)
(* RunMatrix makes them wait for each other.                               *)
(*                                                                         *)
(* One action is one call of the Registrar together with what the runner   *)
(* does with its answer: everything else it touches is its own, but for    *)
(* the collector, which it locks.                                          *)
(*                                                                         *)
(* A definition named Bug... is a mistake this code could contain.  The    *)
(* model does not use it; it stands beside the definition it could replace *)
(* to show that some property would notice.                                *)
(***************************************************************************)
EXTENDS Registry

CONSTANTS
  Plans,       \* what a process may be asked to do, a sequence
  Token,       \* a reference ${step.field} that nothing replaces
  None         \* no run-ID prefix, no message type

(* Steps of a scenario, with the override of the registrar merged in.
   base: the literal name or id in params; ref: the number of the earlier step
   that params name instead, or 0; links: the steps the other params name;
   expect: "nil" without an expect block, "any" for one without a code;
   fields: what it expects of the result; type: match_type.  "invalid" stands
   for an op that opTable lacks, params that decodeParams cannot decode and a
   timeout that cannot be parsed.                                           *)
Ops ==
  {"create", "delete", "consult", "session", "poll", "poll_ack", "wait_for_poll", "invalid"}

ObjectOps == {"create", "delete", "consult"}

ASSUME PlansAssumption ==
  \A n \in DOMAIN Plans :
    LET p == Plans[n]
    IN /\ p.unreadable \subseteq Runs
       /\ p.after \in [Runs -> SUBSET Runs]
       /\ p.types \subseteq MsgTypes
       /\ \A x \in p.objects : x.by = Nobody
       /\ \A r \in Runs :
            LET steps == p.runs[r].steps
            IN /\ Len(steps) \in Nat /\ DOMAIN steps = 1 .. Len(steps)
               /\ \A i \in DOMAIN steps :
                    /\ steps[i].op \in Ops
                    /\ steps[i].ref \in 0 .. i - 1
                    /\ steps[i].links \subseteq 1 .. i - 1
                    /\ steps[i].op \in ObjectOps /\ steps[i].ref # 0 =>
                         steps[steps[i].ref].op \in ObjectOps
                    /\ steps[i].expect \in {"nil", "any"} \cup Outcomes

VARIABLES
  plan,       \* the plan it carries out
  pc,         \* where RunScenario is
  at,         \* number of the step it executes
  captured,   \* results of the steps so far
  stack,      \* cleanupStack
  message,    \* the message execWaitForPoll has read
  expired,    \* runs whose execWaitForPoll is past its deadline
  undeleted,  \* names whose deletion in a cleanup was answered with an error
  doubtful,   \* names whose creation was answered with an error
  results,    \* the collector
  flushed     \* what Flush has returned so far

stepVars == <<at, captured, stack, doubtful>>
waitVars == <<message, expired>>
collectorVars == <<results, flushed>>
vars == <<registryVars, plan, pc, stepVars, waitVars, undeleted, collectorVars>>

(* Of each run the scenario, the run-ID prefix and the runs it waits for; the
   objects that are there before; the types of messages that arrive.         *)
Plan == Plans[plan]
Steps(r) == Plan.runs[r].steps
Prefix(r) == Plan.runs[r].prefix
Step(r) == Steps(r)[at[r]]

NoMessage == [id |-> 0, type |-> None]
Unresolved == [base |-> Token, tags |-> <<>>]

Locations ==
  {"idle", "step", "poll", "ack", "skip", "append", "cleanup", "done"}

Init ==
  /\ plan \in DOMAIN Plans
  /\ objects = Plan.objects /\ late = {} /\ queue = {} /\ arrived = 0
  /\ pc = [r \in Runs |-> "idle"]
  /\ at = [r \in Runs |-> 1]
  /\ captured = [r \in Runs |-> <<>>]
  /\ stack = [r \in Runs |-> <<>>]
  /\ message = [r \in Runs |-> NoMessage]
  /\ expired = {}
  /\ undeleted = [r \in Runs |-> {}]
  /\ doubtful = [r \in Runs |-> {}]
  /\ results = <<>> /\ flushed = <<>>

-----------------------------------------------------------------------------
(* Parameters and results of a step. *)

(* A step whose result is nil is not captured: its token stays. *)
Interpolate(r, s) ==
  IF s.ref = 0 THEN [base |-> s.base, tags |-> <<>>] ELSE captured[r][s.ref]

Absent(s) == s.ref = 0 /\ s.base = NoBase

InjectRunIDPrefix(r, s, n) ==
  IF s.op # "create" \/ Absent(s) \/ n = Unresolved
  THEN n
  ELSE [n EXCEPT !.tags = <<Prefix(r)>> \o @]

(* The name or id in the request of run r for step s. *)
Requested(r, s) == InjectRunIDPrefix(r, s, Interpolate(r, s))

Links(r, s) == {captured[r][i] : i \in s.links}

(* A result of another outcome than success is a zero value. *)
Mismatches(s, o) ==
  IF o # "ok" THEN {s.fields} ELSE IF Reliable THEN {{}} ELSE SUBSET s.fields

AssertExpect(s, o, wrong) ==
  IF s.expect = "nil"
  THEN o \in {"ok", "empty"}
  ELSE o # "failed" /\ s.expect \in {"any", o} /\ wrong = {}

BugUnprefixedCleanup(r, s) ==
  LET n == Interpolate(r, s)
  IN IF s.op = "create" /\ n # NoName
     THEN [stack EXCEPT ![r] = Append(@, n)]
     ELSE stack

BugCleanupInOrder(r, s) ==
  LET n == Requested(r, s)
  IN IF s.op = "create" /\ n # NoName
     THEN [stack EXCEPT ![r] = <<n>> \o @]
     ELSE stack

RegisterCleanup(r, s) ==
  LET n == Requested(r, s)
  IN IF s.op = "create" /\ n # NoName
     THEN [stack EXCEPT ![r] = Append(@, n)]
     ELSE stack

-----------------------------------------------------------------------------
(* What RunScenario does with the outcome o and the result v of its step. *)

Pass(r, v) ==
  /\ captured' = [captured EXCEPT ![r] = Append(@, v)]
  /\ stack' = RegisterCleanup(r, Step(r))
  /\ at' = [at EXCEPT ![r] = @ + 1]
  /\ pc' = [pc EXCEPT ![r] = IF at[r] = Len(Steps(r)) THEN "append" ELSE "step"]

BugFailCaptures(r) ==
  /\ captured' = [captured EXCEPT ![r] = Append(@, NoName)]
  /\ pc' = [pc EXCEPT ![r] = "append"]
  /\ UNCHANGED <<stack, at>>

Fail(r) ==
  /\ pc' = [pc EXCEPT ![r] = "append"]
  /\ UNCHANGED <<captured, stack, at>>

Conclude(r, o, v) ==
  /\ \E wrong \in Mismatches(Step(r), o) :
       IF AssertExpect(Step(r), o, wrong) THEN Pass(r, v) ELSE Fail(r)
  /\ UNCHANGED <<plan, undeleted, collectorVars>>

(* A failing call comes with the zero value of its result. *)
Found(o, v, zero) == IF o = "ok" THEN v ELSE zero

-----------------------------------------------------------------------------
(* Steps through opTable. *)

ExecCreate(r, o) ==
  LET n == Requested(r, Step(r))
  IN /\ pc[r] = "step" /\ Step(r).op = "create"
     /\ Create(r, n, Links(r, Step(r)), o)
     /\ doubtful' = IF o = "ok" THEN doubtful ELSE [doubtful EXCEPT ![r] = @ \cup {n}]
     /\ Conclude(r, o, Found(o, n, NoName))
     /\ UNCHANGED waitVars

ExecDelete(r, o) ==
  /\ pc[r] = "step" /\ Step(r).op = "delete"
  /\ Delete(Requested(r, Step(r)), o)
  /\ Conclude(r, o, Unresolved)
  /\ UNCHANGED <<waitVars, doubtful>>

(* A failing check returns no result at all. *)
ExecConsult(r, o) ==
  LET n == Requested(r, Step(r))
  IN /\ pc[r] = "step" /\ Step(r).op = "consult"
     /\ Consult(n, o)
     /\ \E zero \in {NoName, Unresolved} : Conclude(r, o, Found(o, n, zero))
     /\ UNCHANGED <<waitVars, doubtful>>

ExecSession(r, o) ==
  /\ pc[r] = "step" /\ Step(r).op = "session"
  /\ Session(o)
  /\ Conclude(r, o, Unresolved)
  /\ UNCHANGED <<waitVars, doubtful>>

ExecPollRead(r, o, m) ==
  /\ pc[r] = "step" /\ Step(r).op = "poll"
  /\ PollRead(o, m)
  /\ Conclude(r, o, Found(o, m, NoMessage))
  /\ UNCHANGED <<waitVars, doubtful>>

ExecPollAck(r, o) ==
  /\ pc[r] = "step" /\ Step(r).op = "poll_ack"
  /\ PollAck(Interpolate(r, Step(r)), o)
  /\ Conclude(r, o, Unresolved)
  /\ UNCHANGED <<waitVars, doubtful>>

ExecInvalid(r) ==
  /\ pc[r] = "step" /\ Step(r).op = "invalid"
  /\ Conclude(r, "failed", Unresolved)
  /\ UNCHANGED <<registryVars, waitVars, doubtful>>

-----------------------------------------------------------------------------
(* execWaitForPoll. *)

StartWait(r) ==
  /\ pc[r] = "step" /\ Step(r).op = "wait_for_poll"
  /\ pc' = [pc EXCEPT ![r] = "poll"]
  /\ expired' = expired \ {r}
  /\ UNCHANGED <<registryVars, plan, stepVars, message, undeleted, collectorVars>>

DeadlinePasses(r) ==
  /\ pc[r] \in {"poll", "ack", "skip"} /\ r \notin expired
  /\ expired' = expired \cup {r}
  /\ UNCHANGED <<registryVars, plan, pc, stepVars, message, undeleted, collectorVars>>

TimeOut(r) ==
  /\ pc[r] = "poll" /\ r \in expired
  /\ Conclude(r, "failed", Unresolved)
  /\ UNCHANGED <<registryVars, waitVars, doubtful>>

Wanted(r, m) == Step(r).type \in {None, m.type}

PollArrived(r, m) ==
  /\ pc[r] = "poll" /\ r \notin expired
  /\ PollRead("ok", m)
  /\ message' = [message EXCEPT ![r] = m]
  /\ pc' = [pc EXCEPT ![r] = IF Wanted(r, m) THEN "ack" ELSE "skip"]
  /\ UNCHANGED <<plan, stepVars, expired, undeleted, collectorVars>>

PollEmpty(r) ==
  /\ pc[r] = "poll" /\ r \notin expired
  /\ PollRead("empty", NoMessage)
  /\ UNCHANGED <<plan, pc, stepVars, waitVars, undeleted, collectorVars>>

PollFails(r, o) ==
  /\ pc[r] = "poll" /\ r \notin expired
  /\ o \notin {"ok", "empty"} /\ PollRead(o, NoMessage)
  /\ Conclude(r, o, Unresolved)
  /\ UNCHANGED <<waitVars, doubtful>>

BugAckIgnored(r, o) ==
  /\ pc[r] = "ack"
  /\ PollAck(message[r], o)
  /\ Conclude(r, "ok", message[r])
  /\ UNCHANGED <<waitVars, doubtful>>

AckWanted(r, o) ==
  /\ pc[r] = "ack"
  /\ PollAck(message[r], o)
  /\ Conclude(r, o, Found(o, message[r], Unresolved))
  /\ UNCHANGED <<waitVars, doubtful>>

BugRestartsWait(r, o) ==
  /\ pc[r] = "skip"
  /\ PollAck(message[r], o)
  /\ pc' = [pc EXCEPT ![r] = "poll"]
  /\ expired' = expired \ {r}
  /\ UNCHANGED <<plan, stepVars, message, undeleted, collectorVars>>

AckUnwanted(r, o) ==
  /\ pc[r] = "skip"
  /\ PollAck(message[r], o)
  /\ pc' = [pc EXCEPT ![r] = "poll"]
  /\ UNCHANGED <<plan, stepVars, waitVars, undeleted, collectorVars>>

-----------------------------------------------------------------------------
(* Start and end of RunScenario. *)

(* A test whose scenario LoadScenario cannot read ends at once. *)
Begin(r) ==
  /\ pc[r] = "idle"
  /\ \A q \in Plan.after[r] : pc[q] = "done"
  /\ pc' = [pc EXCEPT ![r] = IF r \in Plan.unreadable THEN "done"
                             ELSE IF Len(Steps(r)) = 0 THEN "append" ELSE "step"]
  /\ UNCHANGED <<registryVars, plan, stepVars, waitVars, undeleted, collectorVars>>

PassedAll(r) == at[r] > Len(Steps(r))
StoppedAt(r) == IF PassedAll(r) THEN 0 ELSE at[r]

AppendResult(r) ==
  /\ pc[r] = "append"
  /\ results' = Append(results, [run |-> r, failed |-> StoppedAt(r)])
  /\ pc' = [pc EXCEPT ![r] = "cleanup"]
  /\ UNCHANGED <<registryVars, plan, stepVars, waitVars, undeleted, flushed>>

BugFlushKeeps ==
  /\ results # <<>> /\ flushed = <<>>
  /\ flushed' = results
  /\ UNCHANGED <<registryVars, plan, pc, stepVars, waitVars, undeleted, results>>

Flush ==
  /\ results # <<>>
  /\ flushed' = flushed \o results
  /\ results' = <<>>
  /\ UNCHANGED <<registryVars, plan, pc, stepVars, waitVars, undeleted>>

Top(s) == s[Len(s)]
Below(s) == SubSeq(s, 1, Len(s) - 1)

(* One closure of cleanupStack: an error is only logged. *)
CleanupOne(r, o) ==
  LET n == Top(stack[r])
  IN /\ pc[r] = "cleanup" /\ stack[r] # <<>>
     /\ Delete(n, o)
     /\ stack' = [stack EXCEPT ![r] = Below(@)]
     /\ undeleted' = IF o = "ok" THEN undeleted ELSE [undeleted EXCEPT ![r] = @ \cup {n}]
     /\ UNCHANGED <<plan, pc, at, captured, doubtful, waitVars, collectorVars>>

BugOneLeft(r) ==
  /\ pc[r] = "cleanup" /\ Len(stack[r]) <= 1
  /\ pc' = [pc EXCEPT ![r] = "done"]
  /\ UNCHANGED <<registryVars, plan, stepVars, waitVars, undeleted, collectorVars>>

End(r) ==
  /\ pc[r] = "cleanup" /\ stack[r] = <<>>
  /\ pc' = [pc EXCEPT ![r] = "done"]
  /\ UNCHANGED <<registryVars, plan, stepVars, waitVars, undeleted, collectorVars>>

-----------------------------------------------------------------------------
RunStep(r) ==
  \/ Begin(r) \/ ExecInvalid(r) \/ StartWait(r) \/ TimeOut(r) \/ PollEmpty(r)
  \/ AppendResult(r) \/ End(r)
  \/ \E o \in Outcomes :
       \/ ExecCreate(r, o) \/ ExecDelete(r, o) \/ ExecConsult(r, o)
       \/ ExecSession(r, o) \/ ExecPollAck(r, o) \/ PollFails(r, o)
       \/ AckWanted(r, o) \/ AckUnwanted(r, o) \/ CleanupOne(r, o)
       \/ \E m \in Message \cup {NoMessage} : ExecPollRead(r, o, m)
  \/ \E m \in Message : PollArrived(r, m)

Next ==
  \/ \E r \in Runs : RunStep(r) \/ DeadlinePasses(r)
  \/ Flush
  \/ RegistryStep(Plan.types) /\ UNCHANGED <<plan, pc, stepVars, waitVars, undeleted, collectorVars>>

Fairness ==
  /\ \A r \in Runs : WF_vars(RunStep(r)) /\ WF_vars(DeadlinePasses(r))

Spec == Init /\ [][Next]_vars
FairSpec == Spec /\ Fairness

-----------------------------------------------------------------------------
(* Properties. *)

TypeOK ==
  /\ pc \in [Runs -> Locations]
  /\ \A r \in Runs : at[r] \in 1 .. Len(Steps(r)) + 1
  /\ \A r \in Runs : Len(captured[r]) = at[r] - 1
  /\ queue \subseteq Message /\ arrived \in 0 .. MaxArrivals
  /\ message \in [Runs -> Message \cup {NoMessage}]
  /\ expired \subseteq Runs

(* The create step at which run r stopped: its assertion failed, whatever the
   registry made of the request.                                            *)
CreateStoppedAt(r) ==
  IF ~PassedAll(r) /\ Step(r).op = "create" THEN {Requested(r, Step(r))} ELSE {}

(* After the cleanup of a run (runner.go:49) nothing that it created is left,
   but for objects whose handle it was never told, the create step it stopped
   at, names whose creation was answered with an error, and names whose
   deletion was.                                                            *)
LeaksExplained ==
  \A r \in Runs : pc[r] = "done" =>
    \A x \in objects : x.by = r =>
      \/ x.name = NoName
      \/ x.name \in undeleted[r] \cup doubtful[r]
      \/ x.name \in CreateStoppedAt(r)

InCleanup(r) == pc[r] = "cleanup" /\ stack'[r] # stack[r]

(* A cleanup deletes nothing but names under its own run-ID prefix, or names
   that were tokens nobody replaced, whatever the scenario refers to.        *)
CleanupSparesOthers ==
  [][\A r \in Runs : InCleanup(r) =>
       \A x \in objects \ objects' :
         \/ x.name = Unresolved
         \/ x.name.tags # <<>> /\ x.name.tags[1] = Prefix(r)]_vars

(* When a cleanup comes to an object for the last time, the objects of its run
   that link to it are gone (runner.go:23: deletion in reverse order), unless
   the run cannot name them or could not tell their fate.  A second create of
   the same name, which a scenario expects to be refused, has the cleanup come
   to the object twice.  An object that bears the text of a token may have been
   created after one that links to that text.                                *)
LastVisit(r) == \A i \in 1 .. Len(stack[r]) - 1 : stack[r][i] # Top(stack[r])

CleanupUnlinksFirst ==
  [][\A r \in Runs : InCleanup(r) /\ LastVisit(r) /\ Top(stack[r]) # Unresolved =>
       \A x \in objects : x.by = r /\ Top(stack[r]) \in x.uses =>
         \/ x.name = NoName
         \/ x.name \in undeleted[r] \cup doubtful[r]
         \/ x.name \in CreateStoppedAt(r)]_vars

(* Steps by which run r has waited for a message, and those that got one. *)
Waits(r) == {i \in DOMAIN captured[r] : Steps(r)[i].op = "wait_for_poll"}
Won(r) == {i \in Waits(r) : captured[r][i] # Unresolved}

(* Runs that share an account share its queue.  A wait_for_poll that was to
   succeed passes with a message, which lets no other wait pass and is out of
   the queue by then (runner.go:397).                                        *)
MessageWonOnce ==
  \A r \in Runs :
    /\ \A i \in Waits(r) : Steps(r)[i].expect \in {"nil", "ok"} => i \in Won(r)
    /\ \A i \in Won(r) :
         /\ captured[r][i] \in Message \ queue
         /\ \A q \in Runs : \A j \in Won(q) :
              captured[q][j] = captured[r][i] => q = r /\ j = i

Reports == flushed \o results

(* Whenever the collector is flushed, no result is lost or doubled: a run that
   has come to its cleanup is reported once, with the step it stopped at
   (runner.go:110).                                                          *)
Reported(r) == {i \in DOMAIN Reports : Reports[i].run = r}

ReportedOnce ==
  \A r \in Runs :
    IF pc[r] \in {"cleanup", "done"} /\ r \notin Plan.unreadable
    THEN \E i \in Reported(r) : Reported(r) = {i} /\ Reports[i].failed = StoppedAt(r)
    ELSE Reported(r) = {}

(* Every run ends: a queue that stays empty, a message that is not wanted and
   cannot be acknowledged, a refused deletion do not keep it.               *)
RunsEnd == \A r \in Runs : <>(pc[r] = "done")

(* Every scenario passes. *)
ScenariosPass == \A i \in DOMAIN Reports : Reports[i].failed = 0
=============================================================================
