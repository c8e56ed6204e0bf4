-------------------------- MODULE ScenarioRunnerProofs --------------------------
(***************************************************************************)
(* Theorems about ScenarioRunner, for any scenarios, runs, run IDs and     *)
(* messages, and any number of steps.                                      *)
(***************************************************************************)
EXTENDS ScenarioRunner, SequenceTheorems, TLAPS

-----------------------------------------------------------------------------
(* The values that names, results of steps and entries of the collector take. *)
Bases == {Token, NoBase} \cup
  {Plans[x[1]].runs[x[2]].steps[x[3]].base : x \in (DOMAIN Plans) \X Runs \X Nat}

Prefixes == {Plans[n].runs[r].prefix : n \in DOMAIN Plans, r \in Runs}

Names == [base : Bases, tags : Seq(Prefixes)]
Value == Names \cup Message \cup {NoMessage}
Entry == [run : Runs, failed : Nat]

LEMMA ValueFacts ==
  /\ Unresolved \in Names /\ NoName \in Names
  /\ Names \subseteq Value /\ Message \subseteq Value /\ NoMessage \in Value
  /\ Unresolved \in Value /\ NoName \in Value
  <1>1. <<>> \in Seq(Prefixes)
    OBVIOUS
  <1>2. Unresolved \in Names /\ NoName \in Names
    BY <1>1 DEF Unresolved, NoName, Names, Bases
  <1>3. QED
    BY <1>2 DEF Value

(* A message is not a name. *)
LEMMA MessageNotName ==
  ASSUME NEW m \in Message \cup {NoMessage}
  PROVE  m # Unresolved /\ m \notin Names
  <1>1. DOMAIN m = {"id", "type"}
    BY DEF Message, NoMessage
  <1>2. \A n \in Names : DOMAIN n = {"base", "tags"}
    BY DEF Names
  <1>3. "id" \notin {"base", "tags"}
    OBVIOUS
  <1>4. Unresolved \in Names
    BY ValueFacts
  <1>5. m \notin Names
    BY <1>1, <1>2, <1>3, Zenon
  <1>6. QED
    BY <1>4, <1>5

(* The scenario of a run. *)
Scenario(r) ==
  /\ Len(Steps(r)) \in Nat /\ DOMAIN Steps(r) = 1 .. Len(Steps(r))
  /\ Prefix(r) \in Prefixes
  /\ \A i \in 1 .. Len(Steps(r)) :
       /\ Steps(r)[i].base \in Bases
       /\ Steps(r)[i].ref \in 0 .. i - 1
       /\ Steps(r)[i].links \subseteq 1 .. i - 1
       /\ Steps(r)[i].op \in ObjectOps /\ Steps(r)[i].ref # 0 =>
            Steps(r)[Steps(r)[i].ref].op \in ObjectOps

(* The base of any step of any run is one of Bases. *)
LEMMA BasesAll ==
  ASSUME NEW n \in DOMAIN Plans, NEW q \in Runs, NEW j \in Nat
  PROVE  Plans[n].runs[q].steps[j].base \in Bases
  <1> DEFINE x == <<n, q, j>>
  <1>1. x \in (DOMAIN Plans) \X Runs \X Nat /\ x[1] = n /\ x[2] = q /\ x[3] = j
    OBVIOUS
  <1> HIDE DEF x
  <1>2. QED
    BY <1>1 DEF Bases

LEMMA ScenarioFacts ==
  ASSUME plan \in DOMAIN Plans, NEW r \in Runs
  PROVE  Scenario(r)
  <1> DEFINE s == Plans[plan].runs[r].steps
  <1>1. Len(s) \in Nat /\ DOMAIN s = 1 .. Len(s)
    BY PlansAssumption
  <1>2. \A i \in 1 .. Len(s) : s[i].ref \in 0 .. i - 1 /\ s[i].links \subseteq 1 .. i - 1
    BY <1>1, PlansAssumption
  <1>3. \A i \in 1 .. Len(s) : s[i].op \in ObjectOps /\ s[i].ref # 0 => s[s[i].ref].op \in ObjectOps
    BY <1>1, PlansAssumption
  <1>4. Steps(r) = s /\ Prefix(r) \in Prefixes
    BY DEF Steps, Prefix, Plan, Prefixes
  <1>5. ASSUME NEW i \in 1 .. Len(s)
        PROVE  s[i].base \in Bases
    <2>1. i \in Nat /\ plan \in DOMAIN Plans /\ r \in Runs
      BY <1>1
    <2>2. QED
      BY <2>1, BasesAll
  <1> HIDE DEF s
  <1>6. QED
    BY <1>1, <1>2, <1>3, <1>4, <1>5 DEF Scenario

-----------------------------------------------------------------------------
(* The types of the variables, stronger than TypeOK: a run that executes a step
   has one left, and a step that names an object has a name for its result.    *)
TypesOfRegistry ==
  /\ plan \in DOMAIN Plans
  /\ arrived \in 0 .. MaxArrivals
  /\ queue \subseteq {m \in Message : m.id <= arrived}

TypesOfRun(r) ==
  /\ at[r] \in 1 .. Len(Steps(r)) + 1
  /\ Len(captured[r]) = at[r] - 1
  /\ pc[r] = "idle" => at[r] = 1
  /\ pc[r] \in {"step", "poll", "ack", "skip"} => at[r] <= Len(Steps(r))
  /\ pc[r] \in {"poll", "ack", "skip"} => Step(r).op = "wait_for_poll"
  /\ pc[r] \in {"ack", "skip"} => message[r] \in {m \in Message : m.id <= arrived}
  /\ \A i \in 1 .. at[r] - 1 :
       Steps(r)[i].op \in ObjectOps => captured[r][i] \in Names

Types ==
  /\ TypesOfRegistry
  /\ pc \in [Runs -> Locations]
  /\ at \in [Runs -> Nat]
  /\ captured \in [Runs -> Seq(Value)]
  /\ stack \in [Runs -> Seq(Names)]
  /\ message \in [Runs -> Message \cup {NoMessage}]
  /\ expired \subseteq Runs
  /\ undeleted \in [Runs -> SUBSET Names]
  /\ doubtful \in [Runs -> SUBSET Names]
  /\ results \in Seq(Entry) /\ flushed \in Seq(Entry)
  /\ \A r \in Runs : TypesOfRun(r)

LEMMA TypesInit == Init => Types
  <1>1. SUFFICES ASSUME Init PROVE Types
    OBVIOUS
  <1>2. /\ plan \in DOMAIN Plans /\ arrived = 0 /\ queue = {}
        /\ pc = [r \in Runs |-> "idle"] /\ at = [r \in Runs |-> 1]
        /\ captured = [r \in Runs |-> <<>>] /\ stack = [r \in Runs |-> <<>>]
        /\ message = [r \in Runs |-> NoMessage] /\ expired = {}
        /\ undeleted = [r \in Runs |-> {}] /\ doubtful = [r \in Runs |-> {}]
        /\ results = <<>> /\ flushed = <<>>
    BY <1>1 DEF Init
  <1>3. TypesOfRegistry
    BY <1>2, RegistryAssumption DEF TypesOfRegistry
  <1>4. ASSUME NEW r \in Runs PROVE TypesOfRun(r)
    <2>1. Len(Steps(r)) \in Nat
      BY <1>2, ScenarioFacts DEF Scenario
    <2>2. QED
      BY <1>2, <2>1 DEF TypesOfRun
  <1>5. QED
    BY <1>2, <1>3, <1>4 DEF Types, Locations

(* What a step names, and the name in its request. *)
LEMMA InterpolatedIsName ==
  ASSUME Types, NEW r \in Runs, at[r] <= Len(Steps(r)), Step(r).op \in ObjectOps
  PROVE  Interpolate(r, Step(r)) \in Names
  <1> DEFINE s == Step(r)
  <1>1. /\ at[r] \in 1 .. Len(Steps(r)) /\ at[r] \in Nat
        /\ Scenario(r) /\ TypesOfRun(r)
    BY ScenarioFacts DEF Types, TypesOfRegistry, TypesOfRun
  <1>2. /\ s.base \in Bases /\ s.ref \in 0 .. at[r] - 1
        /\ s.ref # 0 => Steps(r)[s.ref].op \in ObjectOps
    BY <1>1 DEF Scenario, Step
  <1>3. CASE s.ref = 0
    <2>1. <<>> \in Seq(Prefixes)
      OBVIOUS
    <2>2. QED
      BY <1>2, <1>3, <2>1 DEF Interpolate, Names
  <1>4. CASE s.ref # 0
    <2>1. s.ref \in 1 .. at[r] - 1
      BY <1>1, <1>2, <1>4
    <2>2. captured[r][s.ref] \in Names
      BY <1>1, <1>2, <1>4, <2>1 DEF TypesOfRun
    <2>3. QED
      BY <1>4, <2>2 DEF Interpolate
  <1>5. QED
    BY <1>3, <1>4

LEMMA RequestedIsName ==
  ASSUME Types, NEW r \in Runs, at[r] <= Len(Steps(r)), Step(r).op \in ObjectOps
  PROVE  Requested(r, Step(r)) \in Names
  <1> DEFINE n == Interpolate(r, Step(r))
  <1>1. n \in Names
    BY InterpolatedIsName
  <1>2. Prefix(r) \in Prefixes
    BY ScenarioFacts DEF Types, TypesOfRegistry, Scenario
  <1>3. <<Prefix(r)>> \o n.tags \in Seq(Prefixes)
    BY <1>1, <1>2 DEF Names
  <1>4. [n EXCEPT !.tags = <<Prefix(r)>> \o @] \in Names
    BY <1>1, <1>3 DEF Names
  <1>5. QED
    BY <1>1, <1>4 DEF Requested, InjectRunIDPrefix

(* What a step that concludes, however it concludes, does to its own run and
   to the others.                                                            *)
Concluded(r, v) ==
  /\ pc' \in [Runs -> Locations] /\ at' \in [Runs -> Nat]
  /\ captured' \in [Runs -> Seq(Value)] /\ stack' \in [Runs -> Seq(Names)]
  /\ \A q \in Runs \ {r} :
       /\ pc'[q] = pc[q] /\ at'[q] = at[q]
       /\ captured'[q] = captured[q] /\ stack'[q] = stack[q]

Passed(r, v) ==
  /\ captured'[r] = Append(captured[r], v)
  /\ at'[r] = at[r] + 1
  /\ pc'[r] = IF at[r] = Len(Steps(r)) THEN "append" ELSE "step"
  /\ stack' = RegisterCleanup(r, Step(r))

Failed(r) ==
  /\ captured'[r] = captured[r] /\ at'[r] = at[r] /\ stack' = stack
  /\ pc'[r] = "append"

LEMMA RegisteredNames ==
  ASSUME Types, NEW r \in Runs, at[r] <= Len(Steps(r))
  PROVE  LET st == RegisterCleanup(r, Step(r)) n == Requested(r, Step(r))
         IN /\ st \in [Runs -> Seq(Names)]
            /\ \A q \in Runs \ {r} : st[q] = stack[q]
            /\ IF Step(r).op = "create" /\ n # NoName
               THEN n \in Names /\ st[r] = Append(stack[r], n)
               ELSE st[r] = stack[r]
  <1> DEFINE st == RegisterCleanup(r, Step(r))
             n == Requested(r, Step(r))
  <1>1. stack \in [Runs -> Seq(Names)]
    BY DEF Types
  <1>2. CASE Step(r).op = "create" /\ n # NoName
    <2>1. n \in Names
      BY <1>2, RequestedIsName DEF ObjectOps
    <2>2. st = [stack EXCEPT ![r] = Append(@, n)]
      BY <1>2 DEF RegisterCleanup
    <2>3. QED
      BY <1>1, <1>2, <2>1, <2>2
  <1>3. CASE ~(Step(r).op = "create" /\ n # NoName)
    BY <1>1, <1>3 DEF RegisterCleanup
  <1>4. QED
    BY <1>2, <1>3

LEMMA PassEffect ==
  ASSUME Types, NEW r \in Runs, at[r] <= Len(Steps(r)), NEW v \in Value, Pass(r, v)
  PROVE  Concluded(r, v) /\ Passed(r, v)
  <1>1. /\ pc \in [Runs -> Locations] /\ at \in [Runs -> Nat]
        /\ captured \in [Runs -> Seq(Value)] /\ stack \in [Runs -> Seq(Names)]
    BY DEF Types
  <1>2. /\ captured' = [captured EXCEPT ![r] = Append(@, v)]
        /\ stack' = RegisterCleanup(r, Step(r))
        /\ at' = [at EXCEPT ![r] = @ + 1]
        /\ pc' = [pc EXCEPT ![r] = IF at[r] = Len(Steps(r)) THEN "append" ELSE "step"]
    BY DEF Pass
  <1>3. /\ stack' \in [Runs -> Seq(Names)]
        /\ \A q \in Runs \ {r} : stack'[q] = stack[q]
    BY <1>2, RegisteredNames
  <1>4. Append(captured[r], v) \in Seq(Value)
    BY <1>1
  <1>5. captured' \in [Runs -> Seq(Value)]
    BY <1>1, <1>2, <1>4
  <1>6. pc' \in [Runs -> Locations]
    BY <1>1, <1>2 DEF Locations
  <1>7. at' \in [Runs -> Nat]
    BY <1>1, <1>2
  <1>8. QED
    BY <1>1, <1>2, <1>3, <1>5, <1>6, <1>7 DEF Concluded, Passed

LEMMA FailEffect ==
  ASSUME Types, NEW r \in Runs, NEW v, Fail(r)
  PROVE  Concluded(r, v) /\ Failed(r)
  BY DEF Types, Fail, Concluded, Failed, Locations

LEMMA ConcludeEffect ==
  ASSUME Types, NEW r \in Runs, at[r] <= Len(Steps(r)), NEW v \in Value, NEW o,
         Conclude(r, o, v)
  PROVE  /\ Concluded(r, v)
         /\ \/ Passed(r, v) /\ \E wrong \in Mismatches(Step(r), o) : AssertExpect(Step(r), o, wrong)
            \/ Failed(r)
         /\ plan' = plan /\ undeleted' = undeleted
         /\ results' = results /\ flushed' = flushed
  <1>1. /\ plan' = plan /\ undeleted' = undeleted
        /\ results' = results /\ flushed' = flushed
    BY DEF Conclude, collectorVars
  <1>2. PICK wrong \in Mismatches(Step(r), o) :
          IF AssertExpect(Step(r), o, wrong) THEN Pass(r, v) ELSE Fail(r)
    BY DEF Conclude
  <1>3. QED
    BY <1>1, <1>2, PassEffect, FailEffect

(* The run's types after a step that concludes. *)
LEMMA ConcludeTypesOfRun ==
  ASSUME Types, NEW r \in Runs, pc[r] \in {"step", "poll", "ack"},
         NEW v \in Value, Step(r).op \in ObjectOps => v \in Names,
         NEW o, Conclude(r, o, v), message' = message, arrived' = arrived,
         NEW q \in Runs
  PROVE  TypesOfRun(q)'
  <1>1. /\ TypesOfRun(r) /\ TypesOfRun(q) /\ at[r] <= Len(Steps(r))
        /\ at \in [Runs -> Nat] /\ captured \in [Runs -> Seq(Value)]
    BY DEF Types, TypesOfRun
  <1>2. /\ Concluded(r, v) /\ plan' = plan /\ (Passed(r, v) \/ Failed(r))
    BY <1>1, ConcludeEffect
  <1>3. Steps(q)' = Steps(q)
    BY <1>2 DEF Steps, Plan
  <1>4. CASE q # r
    BY <1>1, <1>2, <1>3, <1>4 DEF Concluded, TypesOfRun, Step
  <1>5. CASE q = r /\ Failed(r)
    BY <1>1, <1>2, <1>3, <1>5 DEF Failed, TypesOfRun, Step
  <1>6. CASE q = r /\ Passed(r, v)
    <2>1. /\ Scenario(r) /\ at[r] \in Nat /\ at[r] >= 1 /\ Len(Steps(r)) \in Nat
          /\ captured[r] \in Seq(Value) /\ Len(captured[r]) = at[r] - 1
      <3>1. Scenario(r)
        BY ScenarioFacts DEF Types, TypesOfRegistry
      <3>2. Len(Steps(r)) \in Nat
        BY <3>1 DEF Scenario
      <3>3. QED
        BY <1>1, <3>1, <3>2 DEF TypesOfRun
    <2>2. /\ captured'[r] = Append(captured[r], v) /\ at'[r] = at[r] + 1
          /\ pc'[r] = IF at[r] = Len(Steps(r)) THEN "append" ELSE "step"
      BY <1>6 DEF Passed
    <2>3. /\ Len(captured'[r]) = at[r]
          /\ captured'[r][at[r]] = v
          /\ \A i \in 1 .. at[r] - 1 : captured'[r][i] = captured[r][i]
      BY <2>1, <2>2, AppendProperties
    <2>4. ASSUME NEW i \in 1 .. at[r], Steps(r)[i].op \in ObjectOps
          PROVE  captured'[r][i] \in Names
      <3>1. CASE i = at[r]
        BY <3>1, <2>3, <2>4 DEF Step
      <3>2. CASE i # at[r]
        <4>1. i \in 1 .. at[r] - 1
          BY <3>2, <2>1
        <4>2. QED
          BY <4>1, <2>3, <2>4, <1>1 DEF TypesOfRun
      <3>3. QED
        BY <3>1, <3>2
    <2>5. at'[r] \in 1 .. Len(Steps(r)) + 1 /\ Len(captured'[r]) = at'[r] - 1
      BY <1>1, <2>1, <2>2, <2>3
    <2>6. \A i \in 1 .. at'[r] - 1 : Steps(r)[i].op \in ObjectOps => captured'[r][i] \in Names
      BY <2>1, <2>2, <2>4
    <2>7. pc'[r] \in {"step", "poll", "ack", "skip"} => at'[r] <= Len(Steps(r))
      BY <1>1, <2>1, <2>2
    <2>8. pc'[r] \notin {"idle", "poll", "ack", "skip"}
      BY <2>2
    <2>9. QED
      BY <1>3, <1>6, <2>5, <2>6, <2>7, <2>8 DEF TypesOfRun
  <1>7. QED
    BY <1>2, <1>4, <1>5, <1>6

LEMMA ConcludeTypes ==
  ASSUME Types, NEW r \in Runs, pc[r] \in {"step", "poll", "ack"},
         NEW v \in Value, Step(r).op \in ObjectOps => v \in Names,
         NEW o, Conclude(r, o, v), UNCHANGED waitVars, arrived' = arrived,
         queue' \subseteq queue, doubtful' \in [Runs -> SUBSET Names]
  PROVE  Types'
  <1>1. at[r] <= Len(Steps(r)) /\ message' = message /\ expired' = expired
    BY DEF Types, TypesOfRun, waitVars
  <1>2. /\ Concluded(r, v) /\ plan' = plan /\ undeleted' = undeleted
        /\ results' = results /\ flushed' = flushed
    BY <1>1, ConcludeEffect
  <1>3. TypesOfRegistry'
    BY <1>2 DEF Types, TypesOfRegistry
  <1>4. \A q \in Runs : TypesOfRun(q)'
    BY <1>1, ConcludeTypesOfRun
  <1>5. QED
    BY <1>1, <1>2, <1>3, <1>4 DEF Types, Concluded

(* A wait for a message ends with one that leaves the queue, or fails. *)
WaitResult(r, o, v) ==
  Step(r).op = "wait_for_poll" =>
    \/ v = Unresolved /\ o \notin {"ok", "empty"}
    \/ v \in queue /\ v \notin queue'

(* What a call may add: the object it was to create, now or later. *)
Creation(r, o) ==
  LET n == Requested(r, Step(r))
  IN /\ \A q \in Runs : doubtful[q] \subseteq doubtful'[q]
     /\ \A x \in objects' : x \in objects \/
          /\ Step(r).op = "create" /\ x.by = r /\ x.name = n /\ x.uses = Links(r, Step(r))
          /\ o = "ok" \/ n \in doubtful'[r]
     /\ \A e \in late' : e \in late \/ (e.object.by = r /\ e.object.name \in doubtful'[r])

(* A name with a prefix in the result of a step is the one it was to create, or
   was in the result of an earlier step.                                       *)
Prefixed(v) == v \in Names /\ v.tags # <<>>

Origin(r, v) ==
  Prefixed(v) =>
    \/ Step(r).op = "create" /\ v = Requested(r, Step(r))
    \/ \E i \in 1 .. at[r] - 1 : v = captured[r][i]

(* The actions in which a step concludes, with the result they may capture. *)
Concludes(r, o, v) ==
  /\ pc[r] \in {"step", "poll", "ack"}
  /\ v \in Value /\ (Step(r).op \in ObjectOps => v \in Names)
  /\ Conclude(r, o, v)
  /\ UNCHANGED <<waitVars, arrived>>
  /\ queue' \subseteq queue
  /\ doubtful' \in [Runs -> SUBSET Names]
  /\ WaitResult(r, o, v) /\ Creation(r, o) /\ Origin(r, v)

LEMMA CreateEffect ==
  ASSUME NEW r \in Runs, NEW n, NEW links, NEW o, Create(r, n, links, o)
  PROVE  /\ \A x \in objects' : x \in objects \/ (x.by = r /\ x.name = n /\ x.uses = links)
         /\ \A e \in late' : e \in late \/
              (e.object.by = r /\ e.object.name = n /\ o # "ok")
  <1> DEFINE x0 == [name |-> n, by |-> r, uses |-> links]
  <1>1. /\ objects' = objects \/ objects' = objects \cup {x0}
        /\ \/ late' = late
           \/ late' = late \cup {[verb |-> "create", object |-> x0]} /\ o # "ok"
    BY DEF Create, InDoubt
  <1>2. QED
    BY <1>1

LEMMA NoCreation ==
  ASSUME NEW r \in Runs, NEW o, objects' \subseteq objects, late' = late, doubtful' = doubtful
  PROVE  Creation(r, o)
  BY DEF Creation

LEMMA BarePrefix == ~Prefixed(Unresolved) /\ ~Prefixed(NoName)
  BY DEF Prefixed, Unresolved, NoName

(* A step that creates nothing asks for a name as it is written, or as it was in
   the result of an earlier step.                                              *)
LEMMA ConsultedBefore ==
  ASSUME Types, NEW r \in Runs, at[r] <= Len(Steps(r)), Step(r).op \in ObjectOps,
         Step(r).op # "create", Prefixed(Requested(r, Step(r)))
  PROVE  \E i \in 1 .. at[r] - 1 : Requested(r, Step(r)) = captured[r][i]
  <1> DEFINE s == Step(r)
  <1>1. Requested(r, s) = Interpolate(r, s)
    BY DEF Requested, InjectRunIDPrefix
  <1>2. CASE s.ref = 0
    <2>1. Requested(r, s) = [base |-> s.base, tags |-> <<>>]
      BY <1>1, <1>2 DEF Interpolate
    <2>2. QED
      BY <2>1 DEF Prefixed
  <1>3. CASE s.ref # 0
    <2>1. at[r] \in 1 .. Len(Steps(r)) /\ at[r] \in Nat /\ Scenario(r)
      BY ScenarioFacts DEF Types, TypesOfRegistry, TypesOfRun
    <2>2. s.ref \in 0 .. at[r] - 1
      BY <2>1 DEF Scenario, Step
    <2>3. s.ref \in 1 .. at[r] - 1
      BY <1>3, <2>1, <2>2
    <2>4. QED
      BY <1>1, <1>3, <2>3 DEF Interpolate
  <1>4. QED
    BY <1>2, <1>3

LEMMA CallsConclude ==
  ASSUME Types, NEW r \in Runs, NEW o \in Outcomes
  PROVE  /\ ExecCreate(r, o) => \E v : Concludes(r, o, v)
         /\ ExecDelete(r, o) => Concludes(r, o, Unresolved)
         /\ ExecConsult(r, o) => \E v : Concludes(r, o, v)
         /\ ExecSession(r, o) => Concludes(r, o, Unresolved)
         /\ ExecPollAck(r, o) => Concludes(r, o, Unresolved)
         /\ \A m \in Message \cup {NoMessage} :
              ExecPollRead(r, o, m) => \E v : Concludes(r, o, v)
  <1> USE ValueFacts
  <1>1. doubtful \in [Runs -> SUBSET Names] /\ TypesOfRun(r)
    BY DEF Types
  <1>2. pc[r] = "step" => at[r] <= Len(Steps(r))
    BY <1>1 DEF TypesOfRun
  <1>3. pc[r] = "step" /\ Step(r).op \in ObjectOps => Requested(r, Step(r)) \in Names
    BY <1>2, RequestedIsName
  <1> USE BarePrefix
  <1>4. ASSUME ExecCreate(r, o) PROVE \E v : Concludes(r, o, v)
    <2> DEFINE n == Requested(r, Step(r))
    <2>1. /\ pc[r] = "step" /\ Create(r, n, Links(r, Step(r)), o)
          /\ doubtful' = IF o = "ok" THEN doubtful ELSE [doubtful EXCEPT ![r] = @ \cup {n}]
          /\ Conclude(r, o, Found(o, n, NoName)) /\ UNCHANGED waitVars /\ n \in Names
      BY <1>3, <1>4 DEF ExecCreate, ObjectOps
    <2>2. doubtful' \in [Runs -> SUBSET Names]
      BY <1>1, <2>1
    <2>3. queue' \subseteq queue /\ arrived' = arrived
      BY <2>1 DEF Create
    <2>4. WaitResult(r, o, Found(o, n, NoName))
      BY <1>4 DEF ExecCreate, WaitResult
    <2>5. Creation(r, o)
      <3>1. /\ \A x \in objects' : x \in objects \/
                 (x.by = r /\ x.name = n /\ x.uses = Links(r, Step(r)))
            /\ \A e \in late' : e \in late \/
                 (e.object.by = r /\ e.object.name = n /\ o # "ok")
        BY <2>1, CreateEffect
      <3>2. /\ \A q \in Runs : doubtful[q] \subseteq doubtful'[q]
            /\ o # "ok" => n \in doubtful'[r]
        BY <1>1, <2>1
      <3>3. Step(r).op = "create"
        BY <1>4 DEF ExecCreate
      <3>4. QED
        BY <3>1, <3>2, <3>3 DEF Creation
    <2>6. Origin(r, Found(o, n, NoName))
      BY <1>4 DEF ExecCreate, Found, Origin
    <2>7. QED
      BY <2>1, <2>2, <2>3, <2>4, <2>5, <2>6 DEF Concludes, Found
  <1>5. ASSUME ExecDelete(r, o) PROVE Concludes(r, o, Unresolved)
    <2>1. objects' \subseteq objects /\ late' = late /\ doubtful' = doubtful
      BY <1>5 DEF ExecDelete, Delete
    <2>2. QED
      BY <1>1, <1>5, <2>1, NoCreation DEF ExecDelete, Delete, Concludes, WaitResult, Origin
  <1>6. ASSUME ExecConsult(r, o) PROVE \E v : Concludes(r, o, v)
    <2> DEFINE n == Requested(r, Step(r))
    <2>1. PICK zero \in {NoName, Unresolved} : Conclude(r, o, Found(o, n, zero))
      BY <1>6 DEF ExecConsult
    <2>2. /\ pc[r] = "step" /\ UNCHANGED waitVars /\ doubtful' = doubtful /\ n \in Names
          /\ queue' = queue /\ arrived' = arrived
      BY <1>3, <1>6 DEF ExecConsult, Consult, registryVars, ObjectOps
    <2>3. Found(o, n, zero) \in Names
      BY <2>1, <2>2 DEF Found
    <2>4. Origin(r, Found(o, n, zero))
      <3>1. CASE Found(o, n, zero) = n
        <4>1. Step(r).op = "consult" /\ at[r] <= Len(Steps(r))
          BY <1>2, <1>6 DEF ExecConsult
        <4>2. QED
          BY <3>1, <4>1, ConsultedBefore DEF Origin, ObjectOps
      <3>2. QED
        BY <2>1, <3>1 DEF Found, Origin
    <2>5. Concludes(r, o, Found(o, n, zero))
      <3>1. Step(r).op = "consult" /\ objects' = objects /\ late' = late
        BY <1>6 DEF ExecConsult, Consult, registryVars
      <3>2. QED
        BY <1>1, <2>1, <2>2, <2>3, <2>4, <3>1, NoCreation DEF Concludes, WaitResult
    <2>6. QED
      BY <2>5
  <1>7. ASSUME ExecSession(r, o) PROVE Concludes(r, o, Unresolved)
    BY <1>1, <1>7, NoCreation DEF ExecSession, Session, registryVars, Concludes, WaitResult, Origin
  <1>8. ASSUME ExecPollAck(r, o) PROVE Concludes(r, o, Unresolved)
    BY <1>1, <1>8, NoCreation DEF ExecPollAck, PollAck, Concludes, WaitResult, Origin
  <1>9. ASSUME NEW m \in Message \cup {NoMessage}, ExecPollRead(r, o, m)
        PROVE  Concludes(r, o, Found(o, m, NoMessage))
    <2>1. Found(o, m, NoMessage) \in Value
      BY <1>9 DEF Found, Value
    <2>2. Step(r).op = "poll"
      BY <1>9 DEF ExecPollRead
    <2>3. Origin(r, Found(o, m, NoMessage))
      BY <1>9, MessageNotName DEF Found, Origin, Prefixed
    <2>4. QED
      BY <1>1, <1>9, <2>1, <2>2, <2>3, NoCreation
      DEF ExecPollRead, PollRead, registryVars, Concludes, ObjectOps, WaitResult
  <1>10. QED
    BY <1>4, <1>5, <1>6, <1>7, <1>8, <1>9

LEMMA WaitsConclude ==
  ASSUME Types, NEW r \in Runs
  PROVE  /\ ExecInvalid(r) => Concludes(r, "failed", Unresolved)
         /\ TimeOut(r) => Concludes(r, "failed", Unresolved)
         /\ \A o \in Outcomes : PollFails(r, o) => Concludes(r, o, Unresolved)
         /\ \A o \in Outcomes :
              AckWanted(r, o) => Concludes(r, o, Found(o, message[r], Unresolved))
  <1> USE ValueFacts, BarePrefix
  <1>1. /\ doubtful \in [Runs -> SUBSET Names] /\ message[r] \in Value
        /\ pc[r] \in {"poll", "ack", "skip"} => Step(r).op = "wait_for_poll"
    BY DEF Types, TypesOfRun, Value
  <1>2. ExecInvalid(r) => Concludes(r, "failed", Unresolved)
    BY <1>1, NoCreation DEF ExecInvalid, registryVars, Concludes, WaitResult, Origin
  <1>3. TimeOut(r) => Concludes(r, "failed", Unresolved)
    BY <1>1, NoCreation DEF TimeOut, registryVars, Concludes, WaitResult, Origin
  <1>4. ASSUME NEW o \in Outcomes, PollFails(r, o)
        PROVE  Concludes(r, o, Unresolved)
    BY <1>1, <1>4, NoCreation DEF PollFails, PollRead, registryVars, Concludes, WaitResult, Origin
  <1>5. ASSUME NEW o \in Outcomes, AckWanted(r, o)
        PROVE  Concludes(r, o, Found(o, message[r], Unresolved))
    <2>1. Found(o, message[r], Unresolved) \in Value /\ Step(r).op \notin ObjectOps
      BY <1>1, <1>5 DEF AckWanted, Found, ObjectOps
    <2>2. WaitResult(r, o, Found(o, message[r], Unresolved))
      BY <1>5 DEF AckWanted, PollAck, Found, WaitResult, InDoubt, AnsweredTwice
    <2>3. Origin(r, Found(o, message[r], Unresolved))
      <3>1. message[r] \in Message \cup {NoMessage}
        BY DEF Types
      <3>2. QED
        BY <3>1, MessageNotName DEF Found, Origin, Prefixed
    <2>4. QED
      BY <1>1, <1>5, <2>1, <2>2, <2>3, NoCreation DEF AckWanted, PollAck, Concludes
  <1>6. QED
    BY <1>2, <1>3, <1>4, <1>5

(* The steps of a run that do not conclude a step of its scenario. *)
Moves(r) ==
  \/ Begin(r) \/ StartWait(r) \/ PollEmpty(r) \/ AppendResult(r) \/ End(r)
  \/ \E o \in Outcomes : AckUnwanted(r, o) \/ CleanupOne(r, o)
  \/ \E m \in Message : PollArrived(r, m)

LEMMA RunSteps ==
  ASSUME Types, NEW r \in Runs, RunStep(r)
  PROVE  Moves(r) \/ \E o, v : Concludes(r, o, v)
  BY CallsConclude, WaitsConclude DEF RunStep, Moves

(* A move changes where its run is, what it waits for, and its cleanup stack. *)
Moved(r) ==
  /\ plan' = plan /\ at' = at /\ captured' = captured /\ flushed' = flushed
  /\ arrived' = arrived /\ queue' \subseteq queue
  /\ pc' \in [Runs -> Locations] /\ \A q \in Runs \ {r} : pc'[q] = pc[q]
  /\ message' \in [Runs -> Message \cup {NoMessage}]
  /\ \A q \in Runs \ {r} : message'[q] = message[q]
  /\ expired' \subseteq Runs
  /\ stack' \in [Runs -> Seq(Names)] /\ undeleted' \in [Runs -> SUBSET Names]
  /\ doubtful' = doubtful /\ results' \in Seq(Entry)
  /\ pc'[r] # "idle"
  /\ pc'[r] = "step" => at[r] <= Len(Steps(r))
  /\ pc'[r] \in {"poll", "ack", "skip"} => Step(r).op = "wait_for_poll" /\ at[r] <= Len(Steps(r))
  /\ pc'[r] \in {"ack", "skip"} => message'[r] \in {m \in Message : m.id <= arrived}

LEMMA TopFacts ==
  ASSUME NEW S, NEW s \in Seq(S), s # <<>>
  PROVE  /\ Len(s) \in Nat /\ Len(s) >= 1 /\ Top(s) \in S
         /\ Below(s) \in Seq(S) /\ Len(Below(s)) = Len(s) - 1
         /\ \A i \in 1 .. Len(s) - 1 : Below(s)[i] = s[i]
  <1>1. Len(s) \in Nat /\ Len(s) >= 1 /\ \A i \in 1 .. Len(s) : s[i] \in S
    BY EmptySeq, LenProperties
  <1>2. Top(s) \in S
    BY <1>1 DEF Top
  <1>3. PICK n \in Int : n = Len(s) - 1
    BY <1>1
  <1>4. n - 1 + 1 = n /\ \A i \in 1 .. n : s[i] \in S /\ s[1 + i - 1] = s[i]
    BY <1>1, <1>3
  <1>5. /\ SubSeq(s, 1, n) \in Seq(S)
        /\ Len(SubSeq(s, 1, n)) = IF 1 <= n THEN n - 1 + 1 ELSE 0
        /\ \A i \in 1 .. n - 1 + 1 : SubSeq(s, 1, n)[i] = s[1 + i - 1]
    BY <1>4, SubSeqProperties
  <1>6. Below(s) = SubSeq(s, 1, n)
    BY <1>3 DEF Below
  <1>7. Below(s) \in Seq(S) /\ Len(Below(s)) = n /\ \A i \in 1 .. n : Below(s)[i] = s[i]
    BY <1>1, <1>3, <1>4, <1>5, <1>6
  <1>8. QED
    BY <1>1, <1>2, <1>3, <1>7

LEMMA MoveEffect ==
  ASSUME Types, NEW r \in Runs, Moves(r)
  PROVE  Moved(r)
  <1>1. /\ pc \in [Runs -> Locations] /\ message \in [Runs -> Message \cup {NoMessage}]
        /\ expired \subseteq Runs /\ stack \in [Runs -> Seq(Names)]
        /\ undeleted \in [Runs -> SUBSET Names] /\ results \in Seq(Entry)
        /\ at \in [Runs -> Nat]
        /\ queue \subseteq {m \in Message : m.id <= arrived}
    BY DEF Types, TypesOfRegistry
  <1>2. /\ pc[r] \in {"step", "poll", "ack", "skip"} => at[r] <= Len(Steps(r))
        /\ pc[r] \in {"poll", "ack", "skip"} => Step(r).op = "wait_for_poll"
        /\ pc[r] = "idle" => at[r] = 1
        /\ at[r] \in 1 .. Len(Steps(r)) + 1 /\ Len(Steps(r)) \in Nat
    BY ScenarioFacts DEF Types, TypesOfRun, TypesOfRegistry, Scenario
  <1>3. CASE Begin(r)
    <2>1. pc[r] = "idle" /\ (Len(Steps(r)) # 0 => at[r] <= Len(Steps(r)))
      BY <1>2, <1>3 DEF Begin
    <2>2. QED
      BY <1>1, <1>3, <2>1
      DEF Begin, Moved, Locations, registryVars, stepVars, waitVars, collectorVars
  <1>4. CASE StartWait(r)
    BY <1>1, <1>2, <1>4
    DEF StartWait, Moved, Locations, registryVars, stepVars, collectorVars
  <1>5. CASE PollEmpty(r)
    BY <1>1, <1>2, <1>5
    DEF PollEmpty, PollRead, Moved, registryVars, stepVars, waitVars, collectorVars
  <1>6. CASE AppendResult(r)
    <2>1. StoppedAt(r) \in Nat
      BY <1>1 DEF StoppedAt
    <2>2. Append(results, [run |-> r, failed |-> StoppedAt(r)]) \in Seq(Entry)
      BY <1>1, <2>1 DEF Entry
    <2>3. QED
      BY <1>1, <1>6, <2>2
      DEF AppendResult, Moved, Locations, registryVars, stepVars, waitVars
  <1>7. CASE End(r)
    BY <1>1, <1>7
    DEF End, Moved, Locations, registryVars, stepVars, waitVars, collectorVars
  <1>8. ASSUME NEW o \in Outcomes, AckUnwanted(r, o)
        PROVE  Moved(r)
    BY <1>1, <1>2, <1>8
    DEF AckUnwanted, PollAck, Moved, Locations, stepVars, waitVars, collectorVars
  <1>9. ASSUME NEW o \in Outcomes, CleanupOne(r, o)
        PROVE  Moved(r)
    <2>1. stack[r] \in Seq(Names) /\ stack[r] # <<>>
      BY <1>1, <1>9 DEF CleanupOne
    <2>2. Top(stack[r]) \in Names /\ Below(stack[r]) \in Seq(Names)
      BY <2>1, TopFacts
    <2>3. stack' \in [Runs -> Seq(Names)] /\ undeleted' \in [Runs -> SUBSET Names]
      BY <1>1, <1>9, <2>2 DEF CleanupOne
    <2>4. queue' = queue /\ arrived' = arrived
      BY <1>9 DEF CleanupOne, Delete
    <2>5. QED
      BY <1>1, <1>9, <2>3, <2>4 DEF CleanupOne, Moved, waitVars, collectorVars
  <1>10. ASSUME NEW m \in Message, PollArrived(r, m)
         PROVE  Moved(r)
    <2>1. m \in queue
      BY <1>10 DEF PollArrived, PollRead
    <2>2. m.id <= arrived
      BY <1>1, <2>1
    <2>3. QED
      BY <1>1, <1>2, <1>10, <2>2
      DEF PollArrived, PollRead, Moved, Locations, registryVars, stepVars, collectorVars
  <1>11. QED
    BY <1>3, <1>4, <1>5, <1>6, <1>7, <1>8, <1>9, <1>10 DEF Moves

LEMMA MoveTypes ==
  ASSUME Types, NEW r \in Runs, Moves(r)
  PROVE  Types'
  <1>1. Moved(r)
    BY MoveEffect
  <1>2. TypesOfRegistry'
    BY <1>1 DEF Types, TypesOfRegistry, Moved
  <1>3. ASSUME NEW q \in Runs PROVE TypesOfRun(q)'
    <2>1. Steps(q)' = Steps(q) /\ TypesOfRun(q) /\ Step(q)' = Step(q)
      BY <1>1 DEF Moved, Types, Steps, Plan, Step
    <2>2. CASE q = r
      BY <1>1, <2>1, <2>2 DEF Moved, TypesOfRun
    <2>3. CASE q # r
      BY <1>1, <2>1, <2>3 DEF Moved, TypesOfRun
    <2>4. QED
      BY <2>2, <2>3
  <1>4. QED
    BY <1>1, <1>2, <1>3 DEF Moved, Types

LEMMA TypesStep == Types /\ [Next]_vars => Types'
  <1>1. SUFFICES ASSUME Types, [Next]_vars PROVE Types'
    OBVIOUS
  <1>2. ASSUME NEW r \in Runs, RunStep(r)
        PROVE  Types'
    <2>1. CASE Moves(r)
      BY <1>1, <2>1, MoveTypes
    <2>2. ASSUME NEW o, NEW v, Concludes(r, o, v)
          PROVE  Types'
      BY <1>1, <2>2, ConcludeTypes DEF Concludes
    <2>3. QED
      BY <1>1, <1>2, <2>1, <2>2, RunSteps
  <1>3. ASSUME NEW r \in Runs, DeadlinePasses(r)
        PROVE  Types'
    <2>1. ASSUME NEW q \in Runs PROVE TypesOfRun(q)'
      BY <1>1, <1>3
      DEF DeadlinePasses, Types, TypesOfRun, Steps, Plan, Step, registryVars, stepVars
    <2>2. QED
      BY <1>1, <1>3, <2>1
      DEF DeadlinePasses, Types, TypesOfRegistry, registryVars, stepVars, collectorVars
  <1>4. CASE Flush
    <2>1. ASSUME NEW q \in Runs PROVE TypesOfRun(q)'
      BY <1>1, <1>4 DEF Flush, Types, TypesOfRun, Steps, Plan, Step, registryVars, stepVars, waitVars
    <2>2. flushed \o results \in Seq(Entry) /\ <<>> \in Seq(Entry)
      BY <1>1, ConcatProperties DEF Types
    <2>3. QED
      BY <1>1, <1>4, <2>1, <2>2
      DEF Flush, Types, TypesOfRegistry, registryVars, stepVars, waitVars
  <1>5. CASE RegistryStep(Plan.types)
             /\ UNCHANGED <<plan, pc, stepVars, waitVars, undeleted, collectorVars>>
    <2>1. plan \in DOMAIN Plans /\ arrived \in 0 .. MaxArrivals /\ MaxArrivals \in Nat
      BY <1>1, RegistryAssumption DEF Types, TypesOfRegistry
    <2>2. Plan.types \subseteq MsgTypes
      BY <2>1, PlansAssumption DEF Plan
    <2>3. arrived' \in 0 .. MaxArrivals /\ arrived <= arrived'
      BY <1>5, <2>1 DEF RegistryStep, Arrive, CarryOutLate
    <2>4. queue' \subseteq {m \in Message : m.id <= arrived'}
      <3>1. ASSUME NEW t \in Plan.types, Arrive(t)
            PROVE  queue' \subseteq {m \in Message : m.id <= arrived'}
        BY <1>1, <2>1, <2>2, <3>1 DEF Arrive, Message, Types, TypesOfRegistry
      <3>2. ASSUME NEW e \in late, CarryOutLate(e)
            PROVE  queue' \subseteq {m \in Message : m.id <= arrived'}
        BY <1>1, <3>2 DEF CarryOutLate, Types, TypesOfRegistry
      <3>3. QED
        BY <1>5, <3>1, <3>2 DEF RegistryStep
    <2>5. ASSUME NEW q \in Runs PROVE TypesOfRun(q)'
      <3>1. \A m \in Message : m.id \in Nat
        BY DEF Message
      <3>2. QED
        BY <1>1, <1>5, <2>1, <2>3, <3>1
        DEF Types, TypesOfRun, Steps, Plan, Step, stepVars, waitVars
    <2>6. QED
      BY <1>1, <1>5, <2>1, <2>3, <2>4, <2>5
      DEF Types, TypesOfRegistry, stepVars, waitVars, collectorVars
  <1>6. CASE UNCHANGED vars
    BY <1>1, <1>6
    DEF Types, TypesOfRegistry, TypesOfRun, Steps, Plan, Step,
        vars, registryVars, stepVars, waitVars, collectorVars
  <1>7. QED
    BY <1>1, <1>2, <1>3, <1>4, <1>5, <1>6 DEF Next

THEOREM TypesHold == Spec => []Types
  BY TypesInit, TypesStep, PTL DEF Spec

(* Every variable keeps its type: a run has captured one result for every step
   it has passed, and its step is never beyond the end of its scenario.      *)
THEOREM TypeCorrect == Spec => []TypeOK
  <1>1. Types => TypeOK
    <2>1. SUFFICES ASSUME Types PROVE TypeOK
      OBVIOUS
    <2>2. /\ pc \in [Runs -> Locations] /\ expired \subseteq Runs
          /\ message \in [Runs -> Message \cup {NoMessage}]
          /\ queue \subseteq Message /\ arrived \in 0 .. MaxArrivals
      BY <2>1 DEF Types, TypesOfRegistry
    <2>3. \A r \in Runs : at[r] \in 1 .. Len(Steps(r)) + 1 /\ Len(captured[r]) = at[r] - 1
      BY <2>1 DEF Types, TypesOfRun
    <2>4. QED
      BY <2>2, <2>3 DEF TypeOK
  <1>2. QED
    BY <1>1, TypesHold, PTL

-----------------------------------------------------------------------------
(* Steps that conclude no step of a scenario leave results alone. *)
Kept ==
  /\ plan' = plan /\ at' = at /\ captured' = captured /\ doubtful' = doubtful
  /\ arrived' \in Nat /\ arrived <= arrived'
  /\ \A m \in queue' : m \in queue \/ m.id > arrived

LEMMA StepCases ==
  ASSUME Types, [Next]_vars
  PROVE  \/ Kept
         \/ \E r \in Runs : \E o, v : Concludes(r, o, v)
  <1>1. arrived \in Nat
    BY RegistryAssumption DEF Types, TypesOfRegistry
  <1>2. ASSUME NEW r \in Runs, RunStep(r)
        PROVE  Kept \/ \E o, v : Concludes(r, o, v)
    <2>1. CASE Moves(r)
      BY <1>1, <2>1, MoveEffect DEF Moved, Kept
    <2>2. QED
      BY <1>2, <2>1, RunSteps
  <1>3. ASSUME NEW r \in Runs, DeadlinePasses(r)
        PROVE  Kept
    BY <1>1, <1>3 DEF DeadlinePasses, Kept, registryVars, stepVars
  <1>4. CASE Flush
    BY <1>1, <1>4 DEF Flush, Kept, registryVars, stepVars
  <1>5. CASE RegistryStep(Plan.types)
             /\ UNCHANGED <<plan, pc, stepVars, waitVars, undeleted, collectorVars>>
    <2>1. ASSUME NEW t \in Plan.types, Arrive(t)
          PROVE  Kept
      BY <1>1, <1>5, <2>1 DEF Arrive, Kept, stepVars
    <2>2. ASSUME NEW e \in late, CarryOutLate(e)
          PROVE  Kept
      BY <1>1, <1>5, <2>2 DEF CarryOutLate, Kept, stepVars
    <2>3. QED
      BY <1>5, <2>1, <2>2 DEF RegistryStep
  <1>6. CASE UNCHANGED vars
    BY <1>1, <1>6 DEF vars, Kept, registryVars, stepVars
  <1>7. QED
    BY <1>2, <1>3, <1>4, <1>5, <1>6 DEF Next

(* What a passed wait has to show. *)
Delivered(m, n, q) == m \in Message /\ m.id <= n /\ m \notin q

MessageInv ==
  \A r \in Runs : \A i \in Waits(r) :
    /\ captured[r][i] = Unresolved \/ Delivered(captured[r][i], arrived, queue)
    /\ Steps(r)[i].expect \in {"nil", "ok"} => captured[r][i] # Unresolved
    /\ captured[r][i] # Unresolved =>
         \A q \in Runs : \A j \in Waits(q) :
           captured[q][j] = captured[r][i] => q = r /\ j = i

LEMMA MessageInit == Init => MessageInv
  <1>1. SUFFICES ASSUME Init PROVE MessageInv
    OBVIOUS
  <1>2. \A r \in Runs : captured[r] = <<>>
    BY <1>1 DEF Init
  <1>3. DOMAIN <<>> = {}
    OBVIOUS
  <1>4. \A r \in Runs : Waits(r) = {}
    BY <1>2, <1>3 DEF Waits
  <1>5. QED
    BY <1>4 DEF MessageInv

(* The waits of a run and what they have captured, after a step that concludes:
   at most one more, with what it got.                                       *)
LEMMA WaitsAfter ==
  ASSUME Types, NEW r \in Runs, NEW o, NEW v, Concludes(r, o, v)
  PROVE  /\ \A q \in Runs : \A j \in Waits(q)' :
              \/ j \in Waits(q) /\ captured'[q][j] = captured[q][j]
              \/ /\ q = r /\ j = at[r] /\ j \notin Waits(r) /\ captured'[q][j] = v
                 /\ Step(r).op = "wait_for_poll" /\ Step(r) = Steps(r)[j]
                 /\ \E wrong \in Mismatches(Step(r), o) : AssertExpect(Step(r), o, wrong)
         /\ plan' = plan /\ arrived' = arrived /\ queue' \subseteq queue
  <1>1. /\ TypesOfRun(r) /\ at[r] <= Len(Steps(r)) /\ v \in Value
        /\ captured \in [Runs -> Seq(Value)] /\ at \in [Runs -> Nat]
        /\ arrived' = arrived /\ queue' \subseteq queue
    BY DEF Types, TypesOfRun, Concludes
  <1>2. /\ Concluded(r, v) /\ plan' = plan
        /\ \/ Passed(r, v) /\ \E wrong \in Mismatches(Step(r), o) : AssertExpect(Step(r), o, wrong)
           \/ Failed(r)
    BY <1>1, ConcludeEffect DEF Concludes
  <1>3. \A q \in Runs : Steps(q)' = Steps(q)
    BY <1>2 DEF Steps, Plan
  <1>4. \A q \in Runs : captured'[q] = captured[q] => Waits(q)' = Waits(q)
    BY <1>3 DEF Waits
  <1>5. CASE Failed(r)
    <2>1. \A q \in Runs : captured'[q] = captured[q]
      BY <1>2, <1>5 DEF Failed, Concluded
    <2>2. QED
      BY <1>1, <1>2, <1>4, <2>1
  <1>6. CASE Passed(r, v)
    <2>1. captured'[r] = Append(captured[r], v) /\ captured[r] \in Seq(Value)
      BY <1>1, <1>6 DEF Passed
    <2>2. Len(captured[r]) = at[r] - 1 /\ at[r] \in Nat /\ at[r] >= 1
      BY <1>1 DEF TypesOfRun
    <2>3. /\ DOMAIN captured[r] = 1 .. at[r] - 1 /\ DOMAIN captured'[r] = 1 .. at[r]
          /\ captured'[r][at[r]] = v
          /\ \A i \in 1 .. at[r] - 1 : captured'[r][i] = captured[r][i]
      BY <1>1, <2>1, <2>2, AppendProperties, LenProperties
    <2>4. ASSUME NEW j \in Waits(r)'
          PROVE  \/ j \in Waits(r) /\ captured'[r][j] = captured[r][j]
                 \/ /\ j = at[r] /\ j \notin Waits(r) /\ captured'[r][j] = v
                    /\ Step(r).op = "wait_for_poll" /\ Step(r) = Steps(r)[j]
      <3>1. j \in DOMAIN captured'[r] /\ Steps(r)[j].op = "wait_for_poll"
        BY <1>3 DEF Waits
      <3>2. CASE j = at[r]
        <4>1. j \notin DOMAIN captured[r]
          BY <2>2, <2>3, <3>2
        <4>2. QED
          BY <2>3, <3>1, <3>2, <4>1 DEF Waits, Step
      <3>3. CASE j # at[r]
        <4>1. j \in 1 .. at[r] - 1
          BY <2>2, <2>3, <3>1, <3>3
        <4>2. QED
          BY <2>3, <3>1, <4>1 DEF Waits
      <3>4. QED
        BY <3>2, <3>3
    <2>5. ASSUME NEW q \in Runs \ {r}, NEW j \in Waits(q)'
          PROVE  j \in Waits(q) /\ captured'[q][j] = captured[q][j]
      BY <1>2, <1>4, <2>5 DEF Concluded
    <2>6. \E wrong \in Mismatches(Step(r), o) : AssertExpect(Step(r), o, wrong)
      <3>1. ~Failed(r)
        BY <1>1, <1>6, <2>2 DEF Passed, Failed
      <3>2. QED
        BY <1>2, <3>1
    <2>7. QED
      BY <1>1, <1>2, <2>4, <2>5, <2>6
  <1>7. QED
    BY <1>2, <1>5, <1>6

LEMMA MessageStep == Types /\ MessageInv /\ [Next]_vars => MessageInv'
  <1>1. SUFFICES ASSUME Types, MessageInv, [Next]_vars PROVE MessageInv'
    OBVIOUS
  <1>2. CASE Kept
    <2>1. /\ \A r \in Runs : Waits(r)' = Waits(r) /\ Steps(r)' = Steps(r)
          /\ captured' = captured
      BY <1>2 DEF Kept, Waits, Steps, Plan
    <2>2. \A m : Delivered(m, arrived, queue) => Delivered(m, arrived', queue')
      <3>1. arrived \in Nat /\ \A m \in Message : m.id \in Nat
        BY <1>1, RegistryAssumption DEF Types, TypesOfRegistry, Message
      <3>2. QED
        BY <1>2, <3>1 DEF Kept, Delivered
    <2>3. QED
      BY <1>1, <2>1, <2>2 DEF MessageInv
  <1>3. ASSUME NEW p \in Runs, NEW o, NEW v, Concludes(p, o, v)
        PROVE  MessageInv'
    <2>1. /\ \A q \in Runs : \A j \in Waits(q)' :
               \/ j \in Waits(q) /\ captured'[q][j] = captured[q][j]
               \/ /\ q = p /\ j = at[p] /\ j \notin Waits(p) /\ captured'[q][j] = v
                  /\ Step(p).op = "wait_for_poll" /\ Step(p) = Steps(p)[j]
                  /\ \E wrong \in Mismatches(Step(p), o) : AssertExpect(Step(p), o, wrong)
          /\ plan' = plan /\ arrived' = arrived /\ queue' \subseteq queue
      BY <1>1, <1>3, WaitsAfter
    <2>2. \A q \in Runs : Steps(q)' = Steps(q)
      BY <2>1 DEF Steps, Plan
    <2>3. \A m : Delivered(m, arrived, queue) => Delivered(m, arrived', queue')
      BY <2>1 DEF Delivered
    <2>4. ASSUME Step(p).op = "wait_for_poll"
          PROVE  \/ v = Unresolved /\ o \notin {"ok", "empty"}
                 \/ v # Unresolved /\ ~Delivered(v, arrived, queue)
                    /\ Delivered(v, arrived', queue')
      <3>1. CASE v \in queue /\ v \notin queue'
        BY <1>1, <2>1, <3>1, MessageNotName DEF Types, TypesOfRegistry, Delivered
      <3>2. QED
        BY <1>3, <2>4, <3>1 DEF Concludes, WaitResult
    <2>5. (\E wrong \in Mismatches(Step(p), o) : AssertExpect(Step(p), o, wrong))
            /\ Step(p).expect \in {"nil", "ok"} => o \in {"ok", "empty"}
      BY DEF AssertExpect
    <2>6. ASSUME NEW r \in Runs, NEW i \in Waits(r)'
          PROVE  /\ captured'[r][i] = Unresolved \/ Delivered(captured'[r][i], arrived', queue')
                 /\ Steps(r)[i].expect \in {"nil", "ok"} => captured'[r][i] # Unresolved
      <3>1. CASE i \in Waits(r) /\ captured'[r][i] = captured[r][i]
        BY <1>1, <2>3, <3>1 DEF MessageInv
      <3>2. CASE /\ r = p /\ captured'[r][i] = v
                 /\ Step(p).op = "wait_for_poll" /\ Step(p) = Steps(p)[i]
                 /\ \E wrong \in Mismatches(Step(p), o) : AssertExpect(Step(p), o, wrong)
        BY <2>4, <2>5, <3>2
      <3>3. QED
        BY <2>1, <3>1, <3>2
    <2>7. ASSUME NEW r \in Runs, NEW i \in Waits(r)', captured'[r][i] # Unresolved,
                 NEW q \in Runs, NEW j \in Waits(q)', captured'[q][j] = captured'[r][i]
          PROVE  q = r /\ j = i
      <3>1. CASE i \in Waits(r) /\ captured'[r][i] = captured[r][i]
        <4>1. Delivered(captured[r][i], arrived, queue)
          BY <1>1, <2>7, <3>1 DEF MessageInv
        <4>2. j \in Waits(q) /\ captured'[q][j] = captured[q][j]
          BY <2>1, <2>4, <2>7, <3>1, <4>1
        <4>3. QED
          BY <1>1, <2>7, <3>1, <4>2 DEF MessageInv
      <3>2. CASE /\ r = p /\ i = at[p] /\ captured'[r][i] = v
                 /\ Step(p).op = "wait_for_poll"
        <4>1. ~Delivered(v, arrived, queue) /\ v # Unresolved
          BY <2>4, <2>7, <3>2
        <4>2. ~(j \in Waits(q) /\ captured'[q][j] = captured[q][j])
          BY <1>1, <2>7, <3>2, <4>1 DEF MessageInv
        <4>3. QED
          BY <2>1, <3>2, <4>2
      <3>3. QED
        BY <2>1, <3>1, <3>2
    <2>8. QED
      BY <2>2, <2>6, <2>7 DEF MessageInv
  <1>4. QED
    BY <1>1, <1>2, <1>3, StepCases

(* A wait that was to succeed has passed with a message, which is out of the
   queue and has let no other wait pass, of this run or of another: for any
   number of runs, messages and steps, whatever the registry answers.        *)
THEOREM WaitsAreServedOnce == Spec => []MessageWonOnce
  <1>1. MessageInv => MessageWonOnce
    <2>1. SUFFICES ASSUME MessageInv, NEW r \in Runs PROVE
            /\ \A i \in Waits(r) : Steps(r)[i].expect \in {"nil", "ok"} => i \in Won(r)
            /\ \A i \in Won(r) :
                 /\ captured[r][i] \in Message \ queue
                 /\ \A q \in Runs : \A j \in Won(q) :
                      captured[q][j] = captured[r][i] => q = r /\ j = i
      BY DEF MessageWonOnce
    <2>2. \A q \in Runs : Won(q) = {i \in Waits(q) : captured[q][i] # Unresolved}
      BY DEF Won
    <2>3. QED
      BY <2>1, <2>2 DEF MessageInv, Delivered
  <1>2. Spec => []MessageInv
    BY MessageInit, MessageStep, TypesHold, PTL DEF Spec
  <1>3. QED
    BY <1>1, <1>2, PTL

-----------------------------------------------------------------------------
(* What a run has on its cleanup stack is its own, or a token. *)
Own(r, n) == n = Unresolved \/ (n.tags # <<>> /\ n.tags[1] = Prefix(r))

StackInv ==
  \A r \in Runs :
    /\ \A i \in 1 .. Len(stack[r]) : Own(r, stack[r][i])
    /\ pc[r] \in {"idle", "done"} => stack[r] = <<>>

OnStack(r, n) == \E i \in 1 .. Len(stack[r]) : stack[r][i] = n

LEMMA RequestedIsOwn ==
  ASSUME Types, NEW r \in Runs, at[r] <= Len(Steps(r)), Step(r).op = "create",
         Requested(r, Step(r)) # NoName
  PROVE  Own(r, Requested(r, Step(r)))
  <1> DEFINE s == Step(r)
             n == Interpolate(r, s)
  <1>1. Scenario(r)
    BY ScenarioFacts DEF Types, TypesOfRegistry
  <1>2. CASE Absent(s)
    <2>1. Requested(r, s) = n /\ n = NoName
      BY <1>2 DEF Requested, InjectRunIDPrefix, Absent, Interpolate, NoName
    <2>2. QED
      BY <2>1
  <1>3. CASE n = Unresolved
    BY <1>3 DEF Requested, InjectRunIDPrefix, Own
  <1>4. CASE ~Absent(s) /\ n # Unresolved
    <2>1. Requested(r, s) = [n EXCEPT !.tags = <<Prefix(r)>> \o @]
      BY <1>4 DEF Requested, InjectRunIDPrefix
    <2>2. n \in Names
      BY InterpolatedIsName DEF ObjectOps
    <2>3. n.tags \in Seq(Prefixes) /\ Prefix(r) \in Prefixes
      BY <1>1, <2>2 DEF Names, Scenario
    <2>4. /\ <<Prefix(r)>> \in Seq(Prefixes) /\ Len(<<Prefix(r)>>) = 1
          /\ <<Prefix(r)>>[1] = Prefix(r)
      BY <2>3
    <2>5. <<Prefix(r)>> \o n.tags # <<>> /\ (<<Prefix(r)>> \o n.tags)[1] = Prefix(r)
      BY <2>3, <2>4, ConcatProperties, EmptySeq, LenProperties
    <2>6. Requested(r, s).tags = <<Prefix(r)>> \o n.tags
      BY <2>1, <2>2 DEF Names
    <2>7. QED
      BY <2>5, <2>6 DEF Own
  <1>5. QED
    BY <1>2, <1>3, <1>4

(* A step that concludes pushes at most the name it was to create. *)
LEMMA StackAfter ==
  ASSUME Types, NEW r \in Runs, NEW o, NEW v, Concludes(r, o, v)
  PROVE  /\ \A q \in Runs \ {r} : stack'[q] = stack[q] /\ pc'[q] = pc[q]
         /\ pc[r] \in {"step", "poll", "ack"} /\ pc'[r] \in {"step", "append"}
         /\ \/ stack'[r] = stack[r]
            \/ /\ Step(r).op = "create" /\ Requested(r, Step(r)) # NoName
               /\ stack'[r] = Append(stack[r], Requested(r, Step(r)))
         /\ \/ Failed(r)
            \/ /\ Passed(r, v)
               /\ Step(r).op = "create" /\ Requested(r, Step(r)) # NoName =>
                    stack'[r] = Append(stack[r], Requested(r, Step(r)))
  <1>1. at[r] <= Len(Steps(r)) /\ v \in Value /\ pc[r] \in {"step", "poll", "ack"}
    BY DEF Types, TypesOfRun, Concludes
  <1>2. Concluded(r, v) /\ (Passed(r, v) \/ Failed(r))
    BY <1>1, ConcludeEffect DEF Concludes
  <1>3. CASE Failed(r)
    BY <1>1, <1>2, <1>3 DEF Concluded, Failed
  <1>4. CASE Passed(r, v)
    <2>1. /\ stack' = RegisterCleanup(r, Step(r)) /\ pc'[r] \in {"step", "append"}
      BY <1>4 DEF Passed
    <2>2. /\ \A q \in Runs \ {r} : stack'[q] = stack[q]
          /\ IF Step(r).op = "create" /\ Requested(r, Step(r)) # NoName
             THEN stack'[r] = Append(stack[r], Requested(r, Step(r)))
             ELSE stack'[r] = stack[r]
      BY <1>1, <2>1, RegisteredNames
    <2>3. QED
      BY <1>1, <1>2, <1>4, <2>1, <2>2 DEF Concluded
  <1>5. QED
    BY <1>2, <1>3, <1>4

LEMMA Pushed ==
  ASSUME NEW s \in Seq(Names), NEW n \in Names
  PROVE  /\ Len(s) \in Nat /\ Len(Append(s, n)) = Len(s) + 1
         /\ \A i \in 1 .. Len(s) : Append(s, n)[i] = s[i]
         /\ Append(s, n)[Len(s) + 1] = n
  BY AppendProperties, LenProperties

(* Steps other than these two kinds touch neither stacks nor results of steps,
   and add no object but a late one.                                         *)
Calm ==
  /\ plan' = plan /\ at' = at /\ captured' = captured /\ stack' = stack
  /\ undeleted' = undeleted /\ doubtful' = doubtful
  /\ late' \subseteq late
  /\ \A x \in objects' : x \in objects \/ \E e \in late : x = e.object
  /\ \A r \in Runs :
       /\ pc[r] \in {"append", "cleanup", "done"} => pc'[r] \in {"append", "cleanup", "done"}
       /\ pc'[r] \in {"idle", "done"} => pc[r] \in {"idle", "done"} \/ stack[r] = <<>>

LEMMA OtherSteps ==
  ASSUME Types, [Next]_vars
  PROVE  \/ Calm
         \/ \E r \in Runs : \E o, v : Concludes(r, o, v)
         \/ \E r \in Runs : \E o \in Outcomes : CleanupOne(r, o)
  <1>1. pc \in [Runs -> Locations]
    BY DEF Types
  <1>2. ASSUME NEW r \in Runs, Moves(r)
        PROVE  Calm \/ \E o \in Outcomes : CleanupOne(r, o)
    <2>1. CASE Begin(r) \/ StartWait(r) \/ AppendResult(r) \/ End(r) \/ PollEmpty(r)
      BY <1>1, <2>1
      DEF Begin, StartWait, AppendResult, End, PollEmpty, PollRead, Calm, Locations,
          stepVars, registryVars
    <2>2. ASSUME NEW o \in Outcomes, AckUnwanted(r, o)
          PROVE  Calm
      BY <1>1, <2>2 DEF AckUnwanted, PollAck, Calm, Locations, stepVars
    <2>3. ASSUME NEW m \in Message, PollArrived(r, m)
          PROVE  Calm
      BY <1>1, <2>3 DEF PollArrived, PollRead, Calm, Locations, stepVars, registryVars
    <2>4. QED
      BY <1>2, <2>1, <2>2, <2>3 DEF Moves
  <1>3. ASSUME NEW r \in Runs, RunStep(r)
        PROVE  \/ Calm
               \/ \E o, v : Concludes(r, o, v)
               \/ \E o \in Outcomes : CleanupOne(r, o)
    BY <1>2, <1>3, RunSteps
  <1>4. ASSUME NEW r \in Runs, DeadlinePasses(r)
        PROVE  Calm
    BY <1>4 DEF DeadlinePasses, Calm, stepVars, registryVars
  <1>5. CASE Flush
    BY <1>5 DEF Flush, Calm, stepVars, registryVars
  <1>6. CASE RegistryStep(Plan.types)
             /\ UNCHANGED <<plan, pc, stepVars, waitVars, undeleted, collectorVars>>
    <2>1. /\ late' \subseteq late
          /\ \A x \in objects' : x \in objects \/ \E e \in late : x = e.object
      BY <1>6 DEF RegistryStep, Arrive, CarryOutLate
    <2>2. QED
      BY <1>6, <2>1 DEF Calm, stepVars
  <1>7. CASE UNCHANGED vars
    BY <1>7 DEF vars, Calm, stepVars, registryVars
  <1>8. QED
    BY <1>3, <1>4, <1>5, <1>6, <1>7 DEF Next

LEMMA CleanupEffect ==
  ASSUME Types, NEW r \in Runs, NEW o \in Outcomes, CleanupOne(r, o)
  PROVE  /\ plan' = plan /\ pc' = pc /\ at' = at /\ captured' = captured
         /\ doubtful' = doubtful /\ late' = late /\ pc[r] = "cleanup"
         /\ \A q \in Runs \ {r} : stack'[q] = stack[q] /\ undeleted'[q] = undeleted[q]
         /\ stack[r] \in Seq(Names) /\ stack[r] # <<>> /\ stack'[r] = Below(stack[r])
         /\ undeleted[r] \subseteq undeleted'[r]
         /\ \A x \in objects : x \notin objects' => x.name = Top(stack[r])
         /\ objects' \subseteq objects
         /\ \/ Top(stack[r]) \in undeleted'[r]
            \/ \A x \in objects' : x.name # Top(stack[r])
  <1> DEFINE n == Top(stack[r])
  <1>1. stack \in [Runs -> Seq(Names)] /\ undeleted \in [Runs -> SUBSET Names]
    BY DEF Types
  <1>2. /\ plan' = plan /\ pc' = pc /\ at' = at /\ captured' = captured
        /\ doubtful' = doubtful /\ pc[r] = "cleanup" /\ stack[r] # <<>>
        /\ stack' = [stack EXCEPT ![r] = Below(@)]
        /\ undeleted' = IF o = "ok" THEN undeleted ELSE [undeleted EXCEPT ![r] = @ \cup {n}]
        /\ Delete(n, o)
    BY DEF CleanupOne
  <1>3. /\ late' = late
        /\ objects' = objects \/ objects' = {x \in objects : x.name # n}
        /\ o = "ok" => objects' = {x \in objects : x.name # n}
    BY <1>2 DEF Delete, InDoubt, AnsweredTwice
  <1>4. o # "ok" => n \in undeleted'[r]
    BY <1>1, <1>2
  <1>5. QED
    BY <1>1, <1>2, <1>3, <1>4

LEMMA StackInit == Init => StackInv
  <1>1. SUFFICES ASSUME Init, NEW r \in Runs
                 PROVE  /\ \A i \in 1 .. Len(stack[r]) : Own(r, stack[r][i])
                        /\ pc[r] \in {"idle", "done"} => stack[r] = <<>>
    BY DEF StackInv
  <1>2. stack[r] = <<>>
    BY <1>1 DEF Init
  <1>3. Len(<<>>) = 0 /\ 1 .. 0 = {}
    OBVIOUS
  <1>4. QED
    BY <1>2, <1>3

LEMMA StackStep == Types /\ StackInv /\ [Next]_vars => StackInv'
  <1>1. SUFFICES ASSUME Types, StackInv, [Next]_vars PROVE StackInv'
    OBVIOUS
  <1>2. CASE Calm
    BY <1>1, <1>2 DEF Calm, StackInv, Own, Prefix, Plan
  <1>3. ASSUME NEW p \in Runs, NEW o, NEW v, Concludes(p, o, v)
        PROVE  StackInv'
    <2> DEFINE n == Requested(p, Step(p))
    <2>1. /\ \A q \in Runs \ {p} : stack'[q] = stack[q] /\ pc'[q] = pc[q]
          /\ pc'[p] \in {"step", "append"}
          /\ \/ stack'[p] = stack[p]
             \/ Step(p).op = "create" /\ n # NoName /\ stack'[p] = Append(stack[p], n)
      BY <1>1, <1>3, StackAfter
    <2>2. plan' = plan /\ at[p] <= Len(Steps(p)) /\ stack[p] \in Seq(Names)
      BY <1>1, <1>3, WaitsAfter DEF Types, TypesOfRun, Concludes
    <2>3. \A q \in Runs : Prefix(q)' = Prefix(q)
      BY <2>2 DEF Prefix, Plan
    <2>4. ASSUME NEW i \in 1 .. Len(stack'[p])
          PROVE  Own(p, stack'[p][i])
      <3>1. CASE stack'[p] = stack[p]
        BY <1>1, <2>4, <3>1 DEF StackInv
      <3>2. CASE Step(p).op = "create" /\ n # NoName /\ stack'[p] = Append(stack[p], n)
        <4>1. n \in Names /\ Own(p, n)
          BY <1>1, <2>2, <3>2, RequestedIsName, RequestedIsOwn DEF ObjectOps
        <4>2. /\ Len(stack[p]) \in Nat /\ Len(stack'[p]) = Len(stack[p]) + 1
              /\ \A k \in 1 .. Len(stack[p]) : stack'[p][k] = stack[p][k]
              /\ stack'[p][Len(stack[p]) + 1] = n
          BY <2>2, <3>2, <4>1, Pushed
        <4>3. CASE i = Len(stack[p]) + 1
          BY <4>1, <4>2, <4>3
        <4>4. CASE i # Len(stack[p]) + 1
          <5>1. i \in 1 .. Len(stack[p])
            BY <2>4, <4>2, <4>4
          <5>2. QED
            BY <1>1, <4>2, <5>1 DEF StackInv
        <4>5. QED
          BY <4>3, <4>4
      <3>3. QED
        BY <2>1, <3>1, <3>2
    <2>5. QED
      BY <1>1, <2>1, <2>3, <2>4 DEF StackInv, Own
  <1>4. ASSUME NEW p \in Runs, NEW o \in Outcomes, CleanupOne(p, o)
        PROVE  StackInv'
    <2>1. /\ plan' = plan /\ pc' = pc /\ pc[p] = "cleanup"
          /\ \A q \in Runs \ {p} : stack'[q] = stack[q]
          /\ stack[p] \in Seq(Names) /\ stack[p] # <<>> /\ stack'[p] = Below(stack[p])
      BY <1>1, <1>4, CleanupEffect
    <2>2. \A q \in Runs : Prefix(q)' = Prefix(q)
      BY <2>1 DEF Prefix, Plan
    <2>3. /\ Len(stack[p]) \in Nat /\ Len(stack'[p]) = Len(stack[p]) - 1
          /\ \A i \in 1 .. Len(stack[p]) - 1 : stack'[p][i] = stack[p][i]
      BY <2>1, TopFacts
    <2>4. \A i \in 1 .. Len(stack'[p]) : i \in 1 .. Len(stack[p]) /\ stack'[p][i] = stack[p][i]
      BY <2>3
    <2>5. QED
      BY <1>1, <2>1, <2>2, <2>4 DEF StackInv, Own
  <1>5. QED
    BY <1>1, <1>2, <1>3, <1>4, OtherSteps

(* A cleanup deletes only what bears its own run-ID prefix, or the name of a
   token, for any scenarios and prefixes, also of runs that refer to one
   another's objects.                                                        *)
THEOREM CleanupKeepsToItsOwn == Spec => CleanupSparesOthers
  <1> DEFINE Spared == \A r \in Runs : InCleanup(r) =>
                         \A x \in objects \ objects' :
                           \/ x.name = Unresolved
                           \/ x.name.tags # <<>> /\ x.name.tags[1] = Prefix(r)
  <1>1. ASSUME Types, StackInv, [Next]_vars PROVE Spared
    <2>1. SUFFICES ASSUME NEW r \in Runs, InCleanup(r), NEW x \in objects \ objects'
                   PROVE  Own(r, x.name)
      BY DEF Own
    <2>2. pc[r] = "cleanup" /\ stack'[r] # stack[r]
      BY <2>1 DEF InCleanup
    <2>3. ~Calm
      BY <2>2 DEF Calm
    <2>4. ~\E p \in Runs : \E o, v : Concludes(p, o, v)
      BY <1>1, <2>2, StackAfter
    <2>5. PICK p \in Runs, o \in Outcomes : CleanupOne(p, o)
      BY <1>1, <2>3, <2>4, OtherSteps
    <2>6. p = r
      BY <1>1, <2>2, <2>5, CleanupEffect
    <2>7. x.name = Top(stack[r]) /\ stack[r] \in Seq(Names) /\ stack[r] # <<>>
      BY <1>1, <2>1, <2>5, <2>6, CleanupEffect
    <2>8. Len(stack[r]) \in 1 .. Len(stack[r])
      BY <2>7, TopFacts
    <2>9. QED
      BY <1>1, <2>7, <2>8 DEF StackInv, Top
  <1>2. Spec => []Types /\ []StackInv
    BY StackInit, StackStep, TypesHold, PTL DEF Spec
  <1>3. Types /\ StackInv /\ [Next]_vars => [Spared]_vars
    BY <1>1
  <1>4. Spec => [][Spared]_vars
    BY <1>2, <1>3, PTL DEF Spec
  <1>5. QED
    BY <1>4 DEF CleanupSparesOthers, InCleanup

-----------------------------------------------------------------------------
(* What a run has created is on its stack until it is done, unless it failed at
   that step or was told of an error; so is what may still be created.         *)
Excused(r, n) ==
  \/ n = NoName
  \/ n \in undeleted[r] \cup doubtful[r]
  \/ pc[r] \in {"append", "cleanup", "done"} /\ n \in CreateStoppedAt(r)

Accounted(r, n) == Excused(r, n) \/ OnStack(r, n)

LeakInv ==
  /\ \A e \in late : e.object.by \in Runs /\ e.object.name \in doubtful[e.object.by]
  /\ \A r \in Runs : \A x \in objects : x.by = r => Accounted(r, x.name)

LEMMA LeakInit == Init => LeakInv
  <1>1. SUFFICES ASSUME Init PROVE LeakInv
    OBVIOUS
  <1>2. late = {} /\ \A x \in objects : x.by = Nobody
    BY <1>1, PlansAssumption DEF Init, Plan
  <1>3. QED
    BY <1>2, RegistryAssumption DEF LeakInv

(* The create step a run stopped at is settled by its position and captures. *)
LEMMA SameCreate ==
  ASSUME NEW q \in Runs, plan' = plan, at'[q] = at[q], captured'[q] = captured[q]
  PROVE  CreateStoppedAt(q)' = CreateStoppedAt(q)
  <1>1. Steps(q)' = Steps(q) /\ Prefix(q)' = Prefix(q)
    BY DEF Steps, Prefix, Plan
  <1>2. Step(q)' = Step(q) /\ PassedAll(q)' = PassedAll(q)
    BY <1>1 DEF Step, PassedAll
  <1>3. Interpolate(q, Step(q))' = Interpolate(q, Step(q))
    BY <1>2 DEF Interpolate
  <1>4. Requested(q, Step(q))' = Requested(q, Step(q))
    BY <1>1, <1>2, <1>3 DEF Requested, InjectRunIDPrefix, Absent
  <1>5. QED
    BY <1>2, <1>4 DEF CreateStoppedAt

(* The name of a create step that may have been carried out is pushed, unless the
   run has an excuse for it.                                                    *)
LEMMA CreatedName ==
  ASSUME Types, NEW p \in Runs, NEW o, NEW v, Concludes(p, o, v), Step(p).op = "create",
         NEW k, k = Requested(p, Step(p)), o = "ok" \/ k \in doubtful'[p]
  PROVE  Excused(p, k)' \/ stack'[p] = Append(stack[p], k)
  <1>1. /\ plan' = plan /\ at[p] <= Len(Steps(p)) /\ Len(Steps(p)) \in Nat /\ at[p] \in Nat
    <2>1. TypesOfRun(p) /\ at[p] <= Len(Steps(p)) /\ v \in Value /\ at[p] \in Nat
      BY DEF Types, TypesOfRun, Concludes
    <2>2. Conclude(p, o, v) /\ Len(Steps(p)) \in Nat
      BY ScenarioFacts DEF Concludes, Types, TypesOfRegistry, Scenario
    <2>3. QED
      BY <2>1, <2>2, ConcludeEffect
  <1>2. Failed(p) \/ (k # NoName => stack'[p] = Append(stack[p], k))
    BY StackAfter
  <1>3. CASE k \in doubtful'[p] \/ k = NoName
    BY <1>3 DEF Excused
  <1>4. CASE Failed(p)
    <2>1. at'[p] = at[p] /\ captured'[p] = captured[p] /\ pc'[p] = "append"
      BY <1>4 DEF Failed
    <2>2. Step(p)' = Step(p) /\ Steps(p)' = Steps(p) /\ Prefix(p)' = Prefix(p)
      BY <1>1, <2>1 DEF Step, Steps, Plan, Prefix
    <2>3. Requested(p, Step(p))' = k
      BY <2>1, <2>2 DEF Requested, InjectRunIDPrefix, Interpolate, Absent
    <2>4. ~PassedAll(p)'
      BY <1>1, <2>1, <2>2 DEF PassedAll
    <2>5. k \in CreateStoppedAt(p)'
      BY <2>2, <2>3, <2>4 DEF CreateStoppedAt
    <2>6. QED
      BY <2>1, <2>5 DEF Excused
  <1>5. QED
    BY <1>2, <1>3, <1>4

LEMMA LeakStep == Types /\ LeakInv /\ [Next]_vars => LeakInv'
  <1>1. SUFFICES ASSUME Types, LeakInv, [Next]_vars PROVE LeakInv'
    OBVIOUS
  <1>2. CASE Calm
    <2>1. \A r \in Runs : CreateStoppedAt(r)' = CreateStoppedAt(r)
      BY <1>2, SameCreate DEF Calm
    <2>2. ASSUME NEW r \in Runs, NEW n, Accounted(r, n)
          PROVE  Accounted(r, n)'
      BY <1>2, <2>1, <2>2 DEF Calm, Accounted, Excused, OnStack
    <2>3. ASSUME NEW r \in Runs, NEW x \in objects', x.by = r
          PROVE  Accounted(r, x.name)'
      <3>1. CASE x \in objects
        BY <1>1, <2>2, <2>3, <3>1 DEF LeakInv
      <3>2. CASE \E e \in late : x = e.object
        <4>1. x.name \in doubtful[r]
          BY <1>1, <2>3, <3>2 DEF LeakInv
        <4>2. QED
          BY <1>2, <4>1 DEF Accounted, Excused, Calm
      <3>3. QED
        BY <1>2, <3>1, <3>2 DEF Calm
    <2>4. \A e \in late' : e.object.by \in Runs /\ e.object.name \in doubtful'[e.object.by]
      BY <1>1, <1>2 DEF Calm, LeakInv
    <2>5. QED
      BY <2>3, <2>4 DEF LeakInv
  <1>3. ASSUME NEW p \in Runs, NEW o, NEW v, Concludes(p, o, v)
        PROVE  LeakInv'
    <2> DEFINE n == Requested(p, Step(p))
    <2>1. /\ \A q \in Runs \ {p} : stack'[q] = stack[q] /\ pc'[q] = pc[q]
          /\ pc[p] \in {"step", "poll", "ack"}
          /\ \/ stack'[p] = stack[p]
             \/ Step(p).op = "create" /\ n # NoName /\ stack'[p] = Append(stack[p], n)
          /\ \/ Failed(p)
             \/ /\ Passed(p, v)
                /\ Step(p).op = "create" /\ n # NoName => stack'[p] = Append(stack[p], n)
      BY <1>1, <1>3, StackAfter
    <2>2. /\ plan' = plan /\ at[p] <= Len(Steps(p)) /\ stack[p] \in Seq(Names)
          /\ Len(Steps(p)) \in Nat /\ at[p] \in Nat /\ Concluded(p, v) /\ undeleted' = undeleted
      <3>1. TypesOfRun(p) /\ at[p] <= Len(Steps(p)) /\ v \in Value /\ at[p] \in Nat
        BY <1>1, <1>3 DEF Types, TypesOfRun, Concludes
      <3>2. Conclude(p, o, v) /\ Len(Steps(p)) \in Nat
        BY <1>1, <1>3, ScenarioFacts DEF Concludes, Types, TypesOfRegistry, Scenario
      <3>3. QED
        BY <1>1, <3>1, <3>2, ConcludeEffect DEF Types
    <2>3. Creation(p, o) /\ \A q \in Runs : doubtful[q] \subseteq doubtful'[q]
      BY <1>3 DEF Concludes, Creation
    <2>4. \A q \in Runs \ {p} : CreateStoppedAt(q)' = CreateStoppedAt(q)
      BY <2>2, SameCreate DEF Concluded
    <2>5. Step(p).op = "create" => n \in Names
      BY <1>1, <2>2, RequestedIsName DEF ObjectOps
    <2>6. ASSUME NEW k, OnStack(p, k)
          PROVE  OnStack(p, k)'
      <3>1. CASE stack'[p] = stack[p]
        BY <2>6, <3>1 DEF OnStack
      <3>2. CASE Step(p).op = "create" /\ stack'[p] = Append(stack[p], n)
        <4>1. /\ Len(stack[p]) \in Nat /\ Len(stack'[p]) = Len(stack[p]) + 1
              /\ \A i \in 1 .. Len(stack[p]) : stack'[p][i] = stack[p][i]
          BY <2>2, <2>5, <3>2, Pushed
        <4>2. QED
          BY <2>6, <4>1 DEF OnStack
      <3>3. QED
        BY <2>1, <3>1, <3>2
    <2>7. ASSUME NEW r \in Runs, NEW k, Accounted(r, k)
          PROVE  Accounted(r, k)'
      <3>1. CASE r = p
        BY <2>1, <2>2, <2>3, <2>6, <2>7, <3>1 DEF Accounted, Excused
      <3>2. CASE r # p
        BY <2>1, <2>2, <2>3, <2>4, <2>7, <3>2 DEF Accounted, Excused, OnStack
      <3>3. QED
        BY <3>1, <3>2
    <2>8. ASSUME NEW k, k = n, Step(p).op = "create", o = "ok" \/ k \in doubtful'[p]
          PROVE  Accounted(p, k)'
      <3>1. CASE Excused(p, k)'
        BY <3>1 DEF Accounted
      <3>2. CASE stack'[p] = Append(stack[p], n)
        <4>1. /\ Len(stack[p]) \in Nat /\ Len(stack'[p]) = Len(stack[p]) + 1
              /\ stack'[p][Len(stack[p]) + 1] = k
          BY <2>2, <2>5, <2>8, <3>2, Pushed
        <4>2. Len(stack[p]) + 1 \in 1 .. Len(stack'[p])
          BY <4>1
        <4>3. QED
          BY <4>1, <4>2 DEF Accounted, OnStack
      <3>3. QED
        BY <1>1, <1>3, <2>8, <3>1, <3>2, CreatedName
    <2>9. ASSUME NEW r \in Runs, NEW x \in objects', x.by = r
          PROVE  Accounted(r, x.name)'
      <3>1. CASE x \in objects
        BY <1>1, <2>7, <2>9, <3>1 DEF LeakInv
      <3>2. CASE /\ Step(p).op = "create" /\ x.by = p /\ x.name = n
                 /\ o = "ok" \/ n \in doubtful'[p]
        BY <2>8, <2>9, <3>2
      <3>3. QED
        BY <2>3, <3>1, <3>2 DEF Creation
    <2>10. \A e \in late' : e.object.by \in Runs /\ e.object.name \in doubtful'[e.object.by]
      BY <1>1, <2>3 DEF Creation, LeakInv
    <2>11. QED
      BY <2>9, <2>10 DEF LeakInv
  <1>4. ASSUME NEW p \in Runs, NEW o \in Outcomes, CleanupOne(p, o)
        PROVE  LeakInv'
    <2> DEFINE n == Top(stack[p])
    <2>1. /\ plan' = plan /\ pc' = pc /\ at' = at /\ captured' = captured
          /\ doubtful' = doubtful /\ late' = late
          /\ \A q \in Runs \ {p} : stack'[q] = stack[q] /\ undeleted'[q] = undeleted[q]
          /\ stack[p] \in Seq(Names) /\ stack[p] # <<>> /\ stack'[p] = Below(stack[p])
          /\ undeleted[p] \subseteq undeleted'[p] /\ objects' \subseteq objects
          /\ n \in undeleted'[p] \/ \A x \in objects' : x.name # n
      BY <1>1, <1>4, CleanupEffect
    <2>2. \A r \in Runs : CreateStoppedAt(r)' = CreateStoppedAt(r)
      BY <2>1, SameCreate
    <2>3. /\ Len(stack[p]) \in Nat /\ Len(stack[p]) >= 1
          /\ Len(stack'[p]) = Len(stack[p]) - 1
          /\ \A i \in 1 .. Len(stack[p]) - 1 : stack'[p][i] = stack[p][i]
      BY <2>1, TopFacts
    <2>4. ASSUME NEW k, OnStack(p, k), k # n
          PROVE  OnStack(p, k)'
      <3>1. PICK i \in 1 .. Len(stack[p]) : stack[p][i] = k
        BY <2>4 DEF OnStack
      <3>2. i # Len(stack[p])
        BY <2>4, <3>1 DEF Top
      <3>3. i \in 1 .. Len(stack'[p]) /\ stack'[p][i] = k
        BY <2>3, <3>1, <3>2
      <3>4. QED
        BY <3>3 DEF OnStack
    <2>5. ASSUME NEW r \in Runs, NEW x \in objects', x.by = r
          PROVE  Accounted(r, x.name)'
      <3>1. Accounted(r, x.name)
        BY <1>1, <2>1, <2>5 DEF LeakInv
      <3>2. CASE r # p
        BY <2>1, <2>2, <3>1, <3>2 DEF Accounted, Excused, OnStack
      <3>3. CASE r = p /\ x.name # n
        BY <2>1, <2>2, <2>4, <3>1, <3>3 DEF Accounted, Excused
      <3>4. CASE r = p /\ x.name = n
        BY <2>1, <2>5, <3>4 DEF Accounted, Excused
      <3>5. QED
        BY <3>2, <3>3, <3>4
    <2>6. QED
      BY <1>1, <2>1, <2>5 DEF LeakInv
  <1>5. QED
    BY <1>1, <1>2, <1>3, <1>4, OtherSteps

(* When a run is done, what it created is gone but for the four exceptions that
   LeaksExplained lists, for any scenario, whatever the registry answers and
   whenever abandoned requests are carried out.                              *)
THEOREM CleanupIsComplete == Spec => []LeaksExplained
  <1>1. StackInv /\ LeakInv => LeaksExplained
    <2>1. SUFFICES ASSUME StackInv, LeakInv, NEW r \in Runs, pc[r] = "done",
                          NEW x \in objects, x.by = r
                   PROVE  \/ x.name = NoName
                          \/ x.name \in undeleted[r] \cup doubtful[r]
                          \/ x.name \in CreateStoppedAt(r)
      BY DEF LeaksExplained
    <2>2. Accounted(r, x.name) /\ stack[r] = <<>>
      BY <2>1 DEF LeakInv, StackInv
    <2>3. Len(<<>>) = 0 /\ 1 .. 0 = {}
      OBVIOUS
    <2>4. QED
      BY <2>2, <2>3 DEF Accounted, Excused, OnStack
  <1>2. Spec => []StackInv /\ []LeakInv
    BY StackInit, StackStep, LeakInit, LeakStep, TypesHold, PTL DEF Spec
  <1>3. QED
    BY <1>1, <1>2, PTL

-----------------------------------------------------------------------------
(* The stack of a run is in the order in which its objects came to link to one
   another: as long as it executes steps, the prefixed names among their results
   are on the stack, so that what a later step creates comes to lie above all
   that it links to.                                                           *)
Executing(r) == pc[r] \in {"idle", "step", "poll", "ack", "skip"}

Above(r, n, m) ==
  \E i \in 1 .. Len(stack[r]) : \E j \in 1 .. i - 1 : stack[r][i] = n /\ stack[r][j] = m

ResultsStacked(r) ==
  Executing(r) =>
    \A i \in 1 .. at[r] - 1 : Prefixed(captured[r][i]) => OnStack(r, captured[r][i])

LinksOrdered(r) ==
  \A x \in objects : x.by = r =>
    \A m \in x.uses : Prefixed(m) => Excused(r, x.name) \/ Above(r, x.name, m)

LinkInv == \A r \in Runs : ResultsStacked(r) /\ LinksOrdered(r)

LEMMA LinkInit == Init => LinkInv
  <1>1. SUFFICES ASSUME Init, NEW r \in Runs PROVE ResultsStacked(r) /\ LinksOrdered(r)
    BY DEF LinkInv
  <1>2. at[r] = 1 /\ \A x \in objects : x.by = Nobody
    BY <1>1, PlansAssumption DEF Init, Plan
  <1>3. 1 .. 1 - 1 = {}
    OBVIOUS
  <1>4. QED
    BY <1>2, <1>3, RegistryAssumption DEF ResultsStacked, LinksOrdered

(* A stack on which something is pushed. *)
LEMMA StackGrown ==
  ASSUME NEW r \in Runs, stack[r] \in Seq(Names),
         stack'[r] = stack[r] \/ \E k \in Names : stack'[r] = Append(stack[r], k)
  PROVE  /\ \A n : OnStack(r, n) => OnStack(r, n)'
         /\ \A n, m : Above(r, n, m) => Above(r, n, m)'
         /\ \A n \in Names : stack'[r] = Append(stack[r], n) =>
              /\ OnStack(r, n)'
              /\ \A m : OnStack(r, m) => Above(r, n, m)'
  <1>1. /\ Len(stack[r]) \in Nat /\ Len(stack'[r]) \in Nat
        /\ Len(stack[r]) <= Len(stack'[r])
        /\ \A i \in 1 .. Len(stack[r]) : stack'[r][i] = stack[r][i]
    <2>1. CASE stack'[r] = stack[r]
      BY <2>1, LenProperties
    <2>2. ASSUME NEW k \in Names, stack'[r] = Append(stack[r], k)
          PROVE  /\ Len(stack[r]) \in Nat /\ Len(stack'[r]) = Len(stack[r]) + 1
                 /\ \A i \in 1 .. Len(stack[r]) : stack'[r][i] = stack[r][i]
      BY <2>2, Pushed
    <2>3. QED
      BY <2>1, <2>2
  <1>2. ASSUME NEW n, OnStack(r, n)
        PROVE  OnStack(r, n)'
    <2>1. PICK i \in 1 .. Len(stack[r]) : stack[r][i] = n
      BY <1>2 DEF OnStack
    <2>2. i \in 1 .. Len(stack'[r]) /\ stack'[r][i] = n
      BY <1>1, <2>1
    <2>3. QED
      BY <2>2 DEF OnStack
  <1>3. ASSUME NEW n, NEW m, Above(r, n, m)
        PROVE  Above(r, n, m)'
    <2>1. PICK i \in 1 .. Len(stack[r]) :
            \E j \in 1 .. i - 1 : stack[r][i] = n /\ stack[r][j] = m
      BY <1>3 DEF Above
    <2>2. PICK j \in 1 .. i - 1 : stack[r][i] = n /\ stack[r][j] = m
      BY <2>1
    <2>3. i \in 1 .. Len(stack'[r]) /\ j \in 1 .. Len(stack[r])
      BY <1>1, <2>1, <2>2
    <2>4. stack'[r][i] = n /\ stack'[r][j] = m
      BY <1>1, <2>1, <2>2, <2>3
    <2>5. QED
      BY <2>2, <2>3, <2>4 DEF Above
  <1>4. ASSUME NEW n \in Names, stack'[r] = Append(stack[r], n)
        PROVE  /\ OnStack(r, n)'
               /\ \A m : OnStack(r, m) => Above(r, n, m)'
    <2>1. /\ Len(stack'[r]) = Len(stack[r]) + 1
          /\ stack'[r][Len(stack[r]) + 1] = n
      BY <1>4, Pushed
    <2>2. PICK l \in Nat : l = Len(stack[r]) + 1
      BY <1>1
    <2>3. l \in 1 .. Len(stack'[r]) /\ stack'[r][l] = n
      BY <1>1, <2>1, <2>2
    <2>4. ASSUME NEW m, OnStack(r, m)
          PROVE  Above(r, n, m)'
      <3>1. PICK j \in 1 .. Len(stack[r]) : stack[r][j] = m
        BY <2>4 DEF OnStack
      <3>2. j \in 1 .. l - 1 /\ stack'[r][j] = m
        BY <1>1, <2>2, <3>1
      <3>3. QED
        BY <2>3, <3>2 DEF Above
    <2>5. QED
      BY <2>3, <2>4 DEF OnStack
  <1>5. QED
    BY <1>2, <1>3, <1>4

LEMMA LinkStep == Types /\ LeakInv /\ LinkInv /\ [Next]_vars => LinkInv'
  <1>1. SUFFICES ASSUME Types, LeakInv, LinkInv, [Next]_vars PROVE LinkInv'
    OBVIOUS
  <1>2. CASE Calm
    <2>1. \A r \in Runs : CreateStoppedAt(r)' = CreateStoppedAt(r)
      BY <1>2, SameCreate DEF Calm
    <2>2. ASSUME NEW r \in Runs
          PROVE  ResultsStacked(r)'
      <3>1. Executing(r)' => Executing(r)
        BY <1>1, <1>2 DEF Calm, Executing, Types, Locations
      <3>2. QED
        BY <1>1, <1>2, <3>1 DEF Calm, LinkInv, ResultsStacked, OnStack
    <2>3. ASSUME NEW r \in Runs, NEW n, Excused(r, n)
          PROVE  Excused(r, n)'
      BY <1>2, <2>1, <2>3 DEF Calm, Excused
    <2>4. ASSUME NEW r \in Runs, NEW x \in objects', x.by = r, NEW m \in x.uses, Prefixed(m)
          PROVE  Excused(r, x.name)' \/ Above(r, x.name, m)'
      <3>1. CASE x \in objects
        <4>1. Excused(r, x.name) \/ Above(r, x.name, m)
          BY <1>1, <2>4, <3>1 DEF LinkInv, LinksOrdered
        <4>2. Above(r, x.name, m) => Above(r, x.name, m)'
          BY <1>2 DEF Calm, Above
        <4>3. QED
          BY <2>3, <4>1, <4>2
      <3>2. CASE \E e \in late : x = e.object
        <4>1. x.name \in doubtful[r]
          BY <1>1, <2>4, <3>2 DEF LeakInv
        <4>2. QED
          BY <1>2, <4>1 DEF Excused, Calm
      <3>3. QED
        BY <1>2, <3>1, <3>2 DEF Calm
    <2>5. QED
      BY <2>2, <2>4 DEF LinkInv, LinksOrdered, Prefixed
  <1>3. ASSUME NEW p \in Runs, NEW o, NEW v, Concludes(p, o, v)
        PROVE  LinkInv'
    <2>1. PICK n : n = Requested(p, Step(p))
      OBVIOUS
    <2>2. /\ \A q \in Runs \ {p} : stack'[q] = stack[q] /\ pc'[q] = pc[q]
          /\ pc[p] \in {"step", "poll", "ack"}
          /\ \/ stack'[p] = stack[p]
             \/ Step(p).op = "create" /\ n # NoName /\ stack'[p] = Append(stack[p], n)
          /\ \/ Failed(p)
             \/ /\ Passed(p, v)
                /\ Step(p).op = "create" /\ n # NoName => stack'[p] = Append(stack[p], n)
      BY <1>1, <1>3, <2>1, StackAfter
    <2>3. /\ plan' = plan /\ at[p] \in 1 .. Len(Steps(p)) /\ stack[p] \in Seq(Names)
          /\ captured[p] \in Seq(Value) /\ Len(captured[p]) = at[p] - 1 /\ v \in Value
          /\ at[p] \in Nat /\ Concluded(p, v) /\ undeleted' = undeleted
      <3>1. /\ TypesOfRun(p) /\ at[p] <= Len(Steps(p)) /\ v \in Value /\ at[p] \in Nat
            /\ stack[p] \in Seq(Names) /\ captured[p] \in Seq(Value)
        BY <1>1, <1>3 DEF Types, TypesOfRun, Concludes
      <3>2. Conclude(p, o, v) /\ Len(Steps(p)) \in Nat
        BY <1>1, <1>3, ScenarioFacts DEF Concludes, Types, TypesOfRegistry, Scenario
      <3>3. QED
        BY <1>1, <3>1, <3>2, ConcludeEffect DEF TypesOfRun
    <2>4. Creation(p, o) /\ Origin(p, v) /\ \A q \in Runs : doubtful[q] \subseteq doubtful'[q]
      BY <1>3 DEF Concludes, Creation
    <2>5. Step(p).op = "create" => n \in Names
      BY <1>1, <2>1, <2>3, RequestedIsName DEF ObjectOps
    <2>6. /\ \A k : OnStack(p, k) => OnStack(p, k)'
          /\ \A k, m : Above(p, k, m) => Above(p, k, m)'
          /\ \A k \in Names : stack'[p] = Append(stack[p], k) =>
               /\ OnStack(p, k)'
               /\ \A m : OnStack(p, m) => Above(p, k, m)'
      BY <2>2, <2>3, <2>5, StackGrown
    <2>7. Executing(p) /\ \A i \in 1 .. at[p] - 1 :
                            Prefixed(captured[p][i]) => OnStack(p, captured[p][i])
      BY <1>1, <2>2 DEF LinkInv, ResultsStacked, Executing
    <2>8. ASSUME NEW r \in Runs
          PROVE  ResultsStacked(r)'
      <3>1. CASE r # p
        <4>1. /\ stack'[r] = stack[r] /\ pc'[r] = pc[r] /\ at'[r] = at[r]
              /\ captured'[r] = captured[r]
          BY <2>2, <2>3, <3>1 DEF Concluded
        <4>2. QED
          BY <1>1, <4>1 DEF LinkInv, ResultsStacked, Executing, OnStack, Prefixed
      <3>2. CASE Failed(p) /\ r = p
        BY <3>2 DEF Failed, ResultsStacked, Executing
      <3>3. ASSUME Passed(p, v), NEW i \in 1 .. at'[p] - 1,
                   NEW w, w = captured'[p][i], Prefixed(w)
            PROVE  OnStack(p, w)'
        <4>1. /\ at'[p] - 1 = at[p] /\ captured'[p] = Append(captured[p], v)
              /\ \A j \in 1 .. at[p] - 1 : captured'[p][j] = captured[p][j]
              /\ captured'[p][at[p]] = v
          BY <2>3, <3>3 DEF Passed
        <4>2. CASE i # at[p]
          <5>1. i \in 1 .. at[p] - 1 /\ captured[p][i] = w
            BY <2>3, <3>3, <4>1, <4>2
          <5>2. QED
            BY <2>6, <2>7, <3>3, <5>1
        <4>3. CASE i = at[p]
          <5>1. w = v
            BY <3>3, <4>1, <4>3
          <5>2. CASE Step(p).op = "create" /\ v = n
            <6>1. n # NoName
              BY <3>3, <5>1, <5>2, BarePrefix
            <6>2. stack'[p] = Append(stack[p], n)
              BY <2>2, <2>3, <3>3, <5>2, <6>1 DEF Failed, Passed
            <6>3. QED
              BY <2>5, <2>6, <5>1, <5>2, <6>2
          <5>3. CASE \E j \in 1 .. at[p] - 1 : v = captured[p][j]
            BY <2>6, <2>7, <3>3, <5>1, <5>3
          <5>4. QED
            BY <2>1, <2>4, <3>3, <5>1, <5>2, <5>3 DEF Origin
        <4>4. QED
          BY <4>2, <4>3
      <3>4. CASE Passed(p, v) /\ r = p
        BY <3>3, <3>4 DEF ResultsStacked, Prefixed
      <3>5. QED
        BY <2>2, <3>1, <3>2, <3>4
    <2>9. ASSUME NEW r \in Runs, NEW k, Excused(r, k)
          PROVE  Excused(r, k)'
      <3>1. CASE r = p
        BY <2>2, <2>3, <2>4, <2>9, <3>1 DEF Excused
      <3>2. CASE r # p
        <4>1. CreateStoppedAt(r)' = CreateStoppedAt(r)
          BY <2>3, <3>2, SameCreate DEF Concluded
        <4>2. QED
          BY <2>2, <2>3, <2>4, <2>9, <3>2, <4>1 DEF Excused
      <3>3. QED
        BY <3>1, <3>2
    <2>10. ASSUME NEW r \in Runs, NEW k, NEW m, Above(r, k, m)
           PROVE  Above(r, k, m)'
      BY <2>2, <2>6, <2>10 DEF Above
    <2>11. ASSUME NEW m \in Links(p, Step(p)), Prefixed(m)
           PROVE  OnStack(p, m)
      <3>1. Step(p).links \subseteq 1 .. at[p] - 1
        <4>1. Scenario(p)
          BY <1>1, ScenarioFacts DEF Types, TypesOfRegistry
        <4>2. QED
          BY <2>3, <4>1 DEF Scenario, Step
      <3>2. QED
        BY <2>7, <2>11, <3>1 DEF Links
    <2>12. ASSUME NEW r \in Runs, NEW x \in objects', x.by = r, NEW m \in x.uses, Prefixed(m)
           PROVE  Excused(r, x.name)' \/ Above(r, x.name, m)'
      <3>1. CASE x \in objects
        <4>1. Excused(r, x.name) \/ Above(r, x.name, m)
          BY <1>1, <2>12, <3>1 DEF LinkInv, LinksOrdered
        <4>2. QED
          BY <2>9, <2>10, <4>1
      <3>2. CASE /\ Step(p).op = "create" /\ x.by = p /\ x.name = n
                 /\ x.uses = Links(p, Step(p))
                 /\ o = "ok" \/ n \in doubtful'[p]
        <4>1. Excused(p, n)' \/ stack'[p] = Append(stack[p], n)
          BY <1>1, <1>3, <2>1, <3>2, CreatedName
        <4>2. OnStack(p, m)
          BY <2>11, <2>12, <3>2
        <4>3. QED
          BY <2>5, <2>6, <2>12, <3>2, <4>1, <4>2
      <3>3. QED
        BY <2>1, <2>4, <2>12, <3>1, <3>2 DEF Creation
    <2>13. QED
      BY <2>8, <2>12 DEF LinkInv, LinksOrdered, Prefixed
  <1>4. ASSUME NEW p \in Runs, NEW o \in Outcomes, CleanupOne(p, o)
        PROVE  LinkInv'
    <2>1. /\ plan' = plan /\ pc' = pc /\ at' = at /\ captured' = captured
          /\ doubtful' = doubtful /\ pc[p] = "cleanup"
          /\ \A q \in Runs \ {p} : stack'[q] = stack[q] /\ undeleted'[q] = undeleted[q]
          /\ stack[p] \in Seq(Names) /\ stack[p] # <<>> /\ stack'[p] = Below(stack[p])
          /\ undeleted[p] \subseteq undeleted'[p] /\ objects' \subseteq objects
          /\ \/ Top(stack[p]) \in undeleted'[p]
             \/ \A x \in objects' : x.name # Top(stack[p])
      BY <1>1, <1>4, CleanupEffect
    <2>2. \A r \in Runs : CreateStoppedAt(r)' = CreateStoppedAt(r)
      BY <2>1, SameCreate
    <2>3. /\ Len(stack[p]) \in Nat /\ Len(stack[p]) >= 1
          /\ Len(stack'[p]) = Len(stack[p]) - 1
          /\ \A i \in 1 .. Len(stack[p]) - 1 : stack'[p][i] = stack[p][i]
      BY <2>1, TopFacts
    <2>4. ASSUME NEW r \in Runs
          PROVE  ResultsStacked(r)'
      BY <1>1, <2>1 DEF LinkInv, ResultsStacked, Executing, OnStack
    <2>5. ASSUME NEW r \in Runs, NEW k, Excused(r, k)
          PROVE  Excused(r, k)'
      BY <2>1, <2>2, <2>5 DEF Excused
    <2>6. ASSUME NEW r \in Runs, NEW k, NEW m, Above(r, k, m), r # p \/ k # Top(stack[p])
          PROVE  Above(r, k, m)'
      <3>1. CASE r # p
        BY <2>1, <2>6, <3>1 DEF Above
      <3>2. CASE r = p /\ k # Top(stack[p])
        <4>1. PICK i \in 1 .. Len(stack[p]) :
                \E j \in 1 .. i - 1 : stack[p][i] = k /\ stack[p][j] = m
          BY <2>6, <3>2 DEF Above
        <4>2. PICK j \in 1 .. i - 1 : stack[p][i] = k /\ stack[p][j] = m
          BY <4>1
        <4>3. i # Len(stack[p])
          BY <3>2, <4>2 DEF Top
        <4>4. /\ i \in 1 .. Len(stack'[p]) /\ stack'[p][i] = k /\ stack'[p][j] = m
          BY <2>3, <4>1, <4>2, <4>3
        <4>5. QED
          BY <3>2, <4>4 DEF Above
      <3>3. QED
        BY <2>6, <3>1, <3>2
    <2>7. ASSUME NEW r \in Runs, NEW x \in objects', x.by = r, NEW m \in x.uses, Prefixed(m)
          PROVE  Excused(r, x.name)' \/ Above(r, x.name, m)'
      <3>1. Excused(r, x.name) \/ Above(r, x.name, m)
        BY <1>1, <2>1, <2>7 DEF LinkInv, LinksOrdered
      <3>2. CASE r = p /\ x.name = Top(stack[p])
        BY <2>1, <2>7, <3>2 DEF Excused
      <3>3. QED
        BY <2>5, <2>6, <3>1, <3>2
    <2>8. QED
      BY <2>4, <2>7 DEF LinkInv, LinksOrdered, Prefixed
  <1>5. QED
    BY <1>1, <1>2, <1>3, <1>4, OtherSteps

(* A cleanup deletes in an order that a registry accepts which keeps what is linked
   to: for any scenario, when it comes to an object for the last time, what its run
   created with a link to it is gone, but for the exceptions of LeaksExplained.    *)
THEOREM CleanupGoesBackwards == Spec => CleanupUnlinksFirst
  <1> DEFINE Unlinked ==
        \A r \in Runs : InCleanup(r) /\ LastVisit(r) /\ Top(stack[r]) # Unresolved =>
          \A x \in objects : x.by = r /\ Top(stack[r]) \in x.uses =>
            \/ x.name = NoName
            \/ x.name \in undeleted[r] \cup doubtful[r]
            \/ x.name \in CreateStoppedAt(r)
  <1>1. ASSUME Types, StackInv, LinkInv, [Next]_vars PROVE Unlinked
    <2>1. SUFFICES ASSUME NEW r \in Runs, InCleanup(r), LastVisit(r),
                          Top(stack[r]) # Unresolved,
                          NEW x \in objects, x.by = r, Top(stack[r]) \in x.uses
                   PROVE  Excused(r, x.name)
      BY DEF Excused
    <2>2. pc[r] = "cleanup" /\ stack'[r] # stack[r]
      BY <2>1 DEF InCleanup
    <2>3. ~Calm
      BY <2>2 DEF Calm
    <2>4. ~\E p \in Runs : \E o, v : Concludes(p, o, v)
      BY <1>1, <2>2, StackAfter
    <2>5. PICK p \in Runs, o \in Outcomes : CleanupOne(p, o)
      BY <1>1, <2>3, <2>4, OtherSteps
    <2>6. p = r
      BY <1>1, <2>2, <2>5, CleanupEffect
    <2>7. stack[r] \in Seq(Names) /\ stack[r] # <<>>
      BY <1>1, <2>5, <2>6, CleanupEffect
    <2>8. Len(stack[r]) \in 1 .. Len(stack[r]) /\ Len(stack[r]) \in Nat
          /\ Top(stack[r]) \in Names
      BY <2>7, TopFacts
    <2>9. Prefixed(Top(stack[r]))
      BY <1>1, <2>1, <2>8 DEF StackInv, Own, Top, Prefixed
    <2>10. ASSUME Above(r, x.name, Top(stack[r]))
           PROVE  FALSE
      <3>1. PICK i \in 1 .. Len(stack[r]) : \E j \in 1 .. i - 1 : stack[r][j] = Top(stack[r])
        BY <2>10 DEF Above
      <3>2. PICK j \in 1 .. i - 1 : stack[r][j] = Top(stack[r])
        BY <3>1
      <3>3. j \in 1 .. Len(stack[r]) - 1
        BY <2>8, <3>1, <3>2
      <3>4. QED
        BY <2>1, <3>2, <3>3 DEF LastVisit
    <2>11. QED
      BY <1>1, <2>1, <2>9, <2>10 DEF LinkInv, LinksOrdered
  <1>2. Spec => []Types /\ []StackInv /\ []LinkInv
    BY StackInit, StackStep, LeakInit, LeakStep, LinkInit, LinkStep, TypesHold, PTL DEF Spec
  <1>3. Types /\ StackInv /\ LinkInv /\ [Next]_vars => [Unlinked]_vars
    BY <1>1
  <1>4. Spec => [][Unlinked]_vars
    BY <1>2, <1>3, PTL DEF Spec
  <1>5. QED
    BY <1>4 DEF CleanupUnlinksFirst, InCleanup

-----------------------------------------------------------------------------
(* A run whose scenario cannot be read never starts. *)
ReportInv ==
  /\ \A r \in Plan.unreadable : pc[r] \in {"idle", "done"}
  /\ ReportedOnce

(* A run that has come to its cleanup has reported. *)
Ended(r) == pc[r] \in {"cleanup", "done"} /\ r \notin Plan.unreadable

(* A step by which no run ends and nothing is reported. *)
NoReport ==
  /\ plan' = plan /\ Reports' = Reports
  /\ \A r \in Plan.unreadable : pc'[r] \in {"idle", "done"}
  /\ \A r \in Runs : Ended(r)' = Ended(r) /\ (Ended(r) => at'[r] = at[r])

LEMMA NoReportKeeps ==
  ASSUME ReportInv, NoReport
  PROVE  ReportInv'
  <1>1. /\ Plan' = Plan /\ \A r \in Runs : Steps(r)' = Steps(r) /\ Reported(r)' = Reported(r)
    BY DEF NoReport, Plan, Steps, Reported
  <1>2. \A r \in Runs : Ended(r) => StoppedAt(r)' = StoppedAt(r)
    BY <1>1 DEF NoReport, StoppedAt, PassedAll
  <1>3. ASSUME NEW r \in Runs
        PROVE  IF Ended(r)'
               THEN \E i \in Reported(r)' : Reported(r)' = {i} /\ Reports'[i].failed = StoppedAt(r)'
               ELSE Reported(r)' = {}
    BY <1>1, <1>2, <1>3 DEF ReportInv, ReportedOnce, NoReport, Ended
  <1>4. QED
    BY <1>1, <1>3 DEF ReportInv, ReportedOnce, NoReport, Ended

LEMMA ReportInit == Init => ReportInv
  <1>1. SUFFICES ASSUME Init PROVE ReportInv
    OBVIOUS
  <1>2. \A r \in Runs : pc[r] = "idle"
    BY <1>1 DEF Init
  <1>3. Plan.unreadable \subseteq Runs
    BY <1>1, PlansAssumption DEF Init, Plan
  <1>4. <<>> \o <<>> = <<>> /\ DOMAIN <<>> = {}
    BY ConcatEmptySeq
  <1>5. Reports = <<>>
    BY <1>1, <1>4 DEF Init, Reports
  <1>6. \A r \in Runs : Reported(r) = {}
    BY <1>4, <1>5 DEF Reported
  <1>7. QED
    BY <1>2, <1>3, <1>6 DEF ReportInv, ReportedOnce

(* To flush is to report nothing new; a result is reported last. *)
LEMMA FlushReports ==
  ASSUME Types, Flush
  PROVE  Reports' = Reports
  <1>1. flushed \o results \in Seq(Entry)
    BY ConcatProperties DEF Types
  <1>2. (flushed \o results) \o <<>> = flushed \o results
    BY <1>1, ConcatEmptySeq
  <1>3. QED
    BY <1>2 DEF Flush, Reports

LEMMA AppendReports ==
  ASSUME Types, NEW r \in Runs, AppendResult(r)
  PROVE  LET e == [run |-> r, failed |-> StoppedAt(r)]
         IN /\ Reports \in Seq(Entry) /\ Len(Reports) \in Nat
            /\ DOMAIN Reports = 1 .. Len(Reports)
            /\ DOMAIN Reports' = 1 .. Len(Reports) + 1
            /\ \A i \in 1 .. Len(Reports) : Reports'[i] = Reports[i]
            /\ Reports'[Len(Reports) + 1] = e
  <1> DEFINE e == [run |-> r, failed |-> StoppedAt(r)]
  <1>1. flushed \in Seq(Entry) /\ results \in Seq(Entry) /\ e \in Entry
    BY DEF Types, Entry, StoppedAt
  <1>2. Append(results, e) \in Seq(Entry)
        /\ results' = Append(results, e) /\ flushed' = flushed
    BY <1>1 DEF AppendResult
  <1>3. /\ Len(flushed) \in Nat /\ Len(results) \in Nat
        /\ Len(Append(results, e)) = Len(results) + 1
        /\ \A i \in 1 .. Len(results) : Append(results, e)[i] = results[i]
        /\ Append(results, e)[Len(results) + 1] = e
    BY <1>1, AppendProperties, LenProperties
  <1>4. /\ Reports \in Seq(Entry) /\ Len(Reports) = Len(flushed) + Len(results)
        /\ \A i \in 1 .. Len(flushed) + Len(results) :
             Reports[i] = IF i <= Len(flushed) THEN flushed[i] ELSE results[i - Len(flushed)]
    BY <1>1, ConcatProperties DEF Reports
  <1>5. /\ Reports' \in Seq(Entry) /\ Len(Reports') = Len(flushed) + (Len(results) + 1)
        /\ \A i \in 1 .. Len(flushed) + (Len(results) + 1) :
             Reports'[i] = IF i <= Len(flushed) THEN flushed[i]
                           ELSE Append(results, e)[i - Len(flushed)]
    BY <1>1, <1>2, <1>3, ConcatProperties DEF Reports
  <1>6. ASSUME NEW i \in 1 .. Len(Reports)
        PROVE  Reports'[i] = Reports[i]
    <2>1. CASE i <= Len(flushed)
      BY <1>3, <1>4, <1>5, <1>6, <2>1
    <2>2. CASE ~(i <= Len(flushed))
      <3>1. /\ i - Len(flushed) \in 1 .. Len(results)
            /\ i \in 1 .. Len(flushed) + Len(results)
            /\ i \in 1 .. Len(flushed) + (Len(results) + 1)
        BY <1>3, <1>4, <1>6, <2>2
      <3>2. Reports[i] = results[i - Len(flushed)]
        BY <1>4, <2>2, <3>1
      <3>3. Reports'[i] = Append(results, e)[i - Len(flushed)]
        BY <1>5, <2>2, <3>1
      <3>4. QED
        BY <1>3, <3>1, <3>2, <3>3
    <2>3. QED
      BY <2>1, <2>2
  <1>7. Reports'[Len(Reports) + 1] = e
    <2>1. /\ Len(Reports) + 1 \in 1 .. Len(flushed) + (Len(results) + 1)
          /\ ~(Len(Reports) + 1 <= Len(flushed))
          /\ Len(Reports) + 1 - Len(flushed) = Len(results) + 1
      BY <1>3, <1>4
    <2>2. Reports'[Len(Reports) + 1] = Append(results, e)[Len(Reports) + 1 - Len(flushed)]
      BY <1>5, <2>1
    <2>3. QED
      BY <1>3, <2>1, <2>2
  <1>8. DOMAIN Reports = 1 .. Len(Reports) /\ DOMAIN Reports' = 1 .. Len(Reports')
    BY <1>4, <1>5, LenProperties
  <1>9. QED
    BY <1>3, <1>4, <1>5, <1>6, <1>7, <1>8

LEMMA AppendStep ==
  ASSUME Types, ReportInv, NEW r \in Runs, AppendResult(r)
  PROVE  ReportInv'
  <1> DEFINE e == [run |-> r, failed |-> StoppedAt(r)]
             n == Len(Reports)
  <1>1. /\ n \in Nat /\ DOMAIN Reports = 1 .. n /\ DOMAIN Reports' = 1 .. n + 1
        /\ \A i \in 1 .. n : Reports'[i] = Reports[i]
        /\ Reports'[n + 1] = e
    BY AppendReports
  <1>2. /\ plan' = plan /\ at' = at /\ pc[r] = "append" /\ pc'[r] = "cleanup"
        /\ \A q \in Runs \ {r} : pc'[q] = pc[q]
    BY DEF AppendResult, stepVars, Types
  <1>3. /\ Plan' = Plan /\ \A q \in Runs : StoppedAt(q)' = StoppedAt(q)
    BY <1>2 DEF Plan, StoppedAt, PassedAll, Steps
  <1>4. r \notin Plan.unreadable /\ \A q \in Plan.unreadable : pc'[q] \in {"idle", "done"}
    <2>1. r \notin Plan.unreadable
      BY <1>2 DEF ReportInv
    <2>2. Plan.unreadable \subseteq Runs
      BY PlansAssumption DEF Types, TypesOfRegistry, Plan
    <2>3. QED
      BY <1>2, <2>1, <2>2 DEF ReportInv
  <1>5. Reported(r) = {} /\ Reported(r)' = {n + 1} /\ Reports'[n + 1].failed = StoppedAt(r)'
    <2>1. Reported(r) = {}
      BY <1>2 DEF ReportInv, ReportedOnce
    <2>2. \A i \in 1 .. n : Reports'[i].run # r
      BY <1>1, <2>1 DEF Reported
    <2>3. \A i \in 1 .. n + 1 : i \in 1 .. n \/ i = n + 1
      BY <1>1
    <2>4. n + 1 \in 1 .. n + 1 /\ Reports'[n + 1].run = r
      BY <1>1
    <2>5. Reported(r)' = {n + 1}
      BY <1>1, <2>2, <2>3, <2>4 DEF Reported
    <2>6. QED
      BY <1>1, <1>3, <2>1, <2>5
  <1>6. ASSUME NEW q \in Runs \ {r}
        PROVE  Reported(q)' = Reported(q) /\ \A i \in Reported(q) : Reports'[i] = Reports[i]
    <2>1. Reports'[n + 1].run # q
      BY <1>1
    <2>2. \A i \in 1 .. n + 1 : i \in 1 .. n \/ i = n + 1
      BY <1>1
    <2>3. 1 .. n \subseteq 1 .. n + 1
      BY <1>1
    <2>4. QED
      BY <1>1, <2>1, <2>2, <2>3 DEF Reported
  <1>7. ASSUME NEW q \in Runs
        PROVE  IF pc'[q] \in {"cleanup", "done"} /\ q \notin Plan'.unreadable
               THEN \E i \in Reported(q)' : Reported(q)' = {i} /\ Reports'[i].failed = StoppedAt(q)'
               ELSE Reported(q)' = {}
    <2>1. CASE q = r
      BY <1>2, <1>3, <1>4, <1>5, <2>1
    <2>2. CASE q # r
      BY <1>2, <1>3, <1>6, <2>2 DEF ReportInv, ReportedOnce
    <2>3. QED
      BY <2>1, <2>2
  <1>8. QED
    BY <1>3, <1>4, <1>7 DEF ReportInv, ReportedOnce

LEMMA ReportStep == Types /\ ReportInv /\ [Next]_vars => ReportInv'
  <1>1. SUFFICES ASSUME Types, ReportInv, [Next]_vars PROVE ReportInv'
    OBVIOUS
  <1>2. /\ Plan.unreadable \subseteq Runs /\ pc \in [Runs -> Locations]
        /\ \A r \in Plan.unreadable : pc[r] \in {"idle", "done"}
    BY <1>1, PlansAssumption DEF Types, TypesOfRegistry, Plan, ReportInv
  <1>3. ASSUME plan' = plan, results' = results, flushed' = flushed,
               \A q \in Runs : /\ pc'[q] = pc[q] \/ (pc[q] = "cleanup" /\ pc'[q] = "done")
                               /\ at'[q] = at[q]
        PROVE  NoReport
    BY <1>2, <1>3 DEF NoReport, Plan, Reports, Ended
  <1>4. ASSUME NEW p \in Runs, NEW o, NEW v, Concludes(p, o, v)
        PROVE  NoReport
    <2>1. /\ at[p] <= Len(Steps(p)) /\ v \in Value /\ pc[p] \in {"step", "poll", "ack"}
          /\ Conclude(p, o, v)
      BY <1>1, <1>4 DEF Types, TypesOfRun, Concludes
    <2>2. /\ plan' = plan /\ results' = results /\ flushed' = flushed /\ Concluded(p, v)
      BY <1>1, <2>1, ConcludeEffect
    <2>3. pc'[p] \in {"step", "append"}
      BY <1>1, <1>4, StackAfter
    <2>4. p \notin Plan.unreadable
      BY <1>2, <2>1
    <2>5. QED
      BY <1>2, <2>1, <2>2, <2>3, <2>4 DEF NoReport, Plan, Reports, Ended, Concluded
  <1>5. ASSUME NEW p \in Runs, Moves(p)
        PROVE  NoReport \/ AppendResult(p)
    <2>1. CASE Begin(p)
      BY <1>2, <2>1 DEF Begin, NoReport, Plan, Reports, Ended, stepVars, collectorVars
    <2>2. CASE StartWait(p)
      BY <1>2, <2>2 DEF StartWait, NoReport, Plan, Reports, Ended, stepVars, collectorVars
    <2>3. CASE PollEmpty(p)
      BY <1>3, <2>3 DEF PollEmpty, stepVars, collectorVars
    <2>4. CASE End(p)
      BY <1>2, <1>3, <2>4 DEF End, stepVars, collectorVars
    <2>5. ASSUME NEW o \in Outcomes, AckUnwanted(p, o)
          PROVE  NoReport
      BY <1>2, <2>5 DEF AckUnwanted, NoReport, Plan, Reports, Ended, stepVars, collectorVars
    <2>6. ASSUME NEW o \in Outcomes, CleanupOne(p, o)
          PROVE  NoReport
      BY <1>3, <2>6 DEF CleanupOne, collectorVars
    <2>7. ASSUME NEW m \in Message, PollArrived(p, m)
          PROVE  NoReport
      BY <1>2, <2>7 DEF PollArrived, NoReport, Plan, Reports, Ended, stepVars, collectorVars
    <2>8. QED
      BY <1>5, <2>1, <2>2, <2>3, <2>4, <2>5, <2>6, <2>7 DEF Moves
  <1>6. ASSUME NEW p \in Runs, RunStep(p)
        PROVE  ReportInv'
    BY <1>1, <1>4, <1>5, <1>6, RunSteps, NoReportKeeps, AppendStep
  <1>7. ASSUME NEW p \in Runs, DeadlinePasses(p)
        PROVE  NoReport
    BY <1>3, <1>7 DEF DeadlinePasses, stepVars, collectorVars
  <1>8. CASE Flush
    <2>1. Reports' = Reports
      BY <1>1, <1>8, FlushReports
    <2>2. plan' = plan /\ pc' = pc /\ at' = at
      BY <1>8 DEF Flush, stepVars
    <2>3. NoReport
      BY <1>2, <2>1, <2>2 DEF NoReport, Ended, Plan
    <2>4. QED
      BY <1>1, <2>3, NoReportKeeps
  <1>9. CASE RegistryStep(Plan.types)
             /\ UNCHANGED <<plan, pc, stepVars, waitVars, undeleted, collectorVars>>
    BY <1>1, <1>3, <1>9, NoReportKeeps DEF stepVars, collectorVars
  <1>10. CASE UNCHANGED vars
    BY <1>1, <1>3, <1>10, NoReportKeeps DEF vars, stepVars, collectorVars
  <1>11. QED
    BY <1>1, <1>6, <1>7, <1>8, <1>9, <1>10, NoReportKeeps DEF Next

(* Whenever the collector is flushed, every run that has come to its cleanup is
   reported once, with the step it stopped at, and no other run is.          *)
THEOREM ResultsAreKept == Spec => []ReportedOnce
  <1>1. ReportInv => ReportedOnce
    BY DEF ReportInv
  <1>2. Spec => []ReportInv
    BY ReportInit, ReportStep, TypesHold, PTL DEF Spec
  <1>3. QED
    BY <1>1, <1>2, PTL
=============================================================================
