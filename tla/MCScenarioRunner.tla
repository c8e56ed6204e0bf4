---------------------------- MODULE MCScenarioRunner ----------------------------
(* Scenarios like those of scenarios/conformance and of runner_test.go, and
   the ways two of them meet, as instances of ScenarioRunner for TLC.        *)
EXTENDS ScenarioRunner, TLC

CONSTANTS r1, r2, contact, domain, p1, p2, transfer

step(op) ==
  [op |-> op, base |-> NoBase, ref |-> 0, links |-> {}, type |-> None,
   expect |-> "nil", fields |-> {}]
named(op, b) == [step(op) EXCEPT !.base = b]
onResult(op, i) == [step(op) EXCEPT !.ref = i]
expecting(s, e) == [s EXCEPT !.expect = e]
withFields(s) == [s EXCEPT !.fields = {"Name"}]
linking(s, i) == [s EXCEPT !.links = {i}]
waiting(t) == [step("wait_for_poll") EXCEPT !.type = t]

run(steps, prefix) == [steps |-> steps, prefix |-> prefix]

(* One run for r1 and one for r2, at the same time. *)
together(s1, s2, q1, q2, present, types) ==
  [runs |-> (r1 :> run(s1, q1) @@ r2 :> run(s2, q2)), unreadable |-> {},
   after |-> [r \in Runs |-> {}], objects |-> present, types |-> types]

(* r2 is the next subtest of RunDir or RunMatrix. *)
inTurn(s1, s2, q1, q2) ==
  [together(s1, s2, q1, q2, {}, {}) EXCEPT !.after = (r1 :> {} @@ r2 :> {r1})]

(* contact_lifecycle and domain_lifecycle, with references throughout. *)
lifecycle ==
  <<expecting(named("create", contact), "ok"),
    withFields(expecting(linking(named("create", domain), 1), "ok")),
    expecting(onResult("consult", 2), "ok"),
    expecting(onResult("delete", 2), "ok")>>

(* negative_tests: the object is there already, and another is not. *)
duplicate ==
  <<expecting(named("create", contact), "any"),
    expecting(linking(named("create", domain), 1), "any"),
    expecting(named("create", contact), "exists"),
    named("consult", domain)>>

(* The same RUN_ID for both runs: each may meet what the other has created. *)
contested ==
  <<expecting(named("create", contact), "any"),
    linking(named("create", domain), 1)>>

(* A contact without an id, and a name that is the result of a deletion. *)
unnamed ==
  <<expecting(step("create"), "ok"),
    expecting(linking(named("create", domain), 1), "ok"),
    onResult("delete", 2),
    onResult("create", 3)>>

(* poll_lifecycle. *)
polls ==
  <<expecting(waiting(None), "ok"),
    expecting(step("poll"), "ok"),
    expecting(onResult("poll_ack", 2), "ok"),
    expecting(step("poll"), "empty")>>

waitsForTransfer == <<expecting(waiting(transfer), "ok"), waiting(None)>>
waitsAnyhow == <<expecting(waiting(transfer), "any"), step("session"), step("invalid")>>

AllPlans ==
  <<together(lifecycle, lifecycle, p1, p1, {}, {}),
    together(contested, contested, p1, p1, {}, {}),
    together(unnamed, lifecycle, p1, p2,
             {[name |-> [base |-> domain, tags |-> <<>>], by |-> Nobody, uses |-> {}]}, {}),
    inTurn(duplicate, unnamed, p1, p1),
    together(polls, waitsForTransfer, p1, p2, {}, MsgTypes),
    together(waitsForTransfer, waitsAnyhow, p1, p2, {}, MsgTypes),
    [inTurn(<<>>, lifecycle, p1, p2) EXCEPT !.unreadable = {r2}]>>

(* host_lifecycle as it is written: the later steps name the host. *)
hostLifecycle ==
  <<expecting(named("create", domain), "ok"),
    withFields(expecting(named("consult", domain), "ok")),
    expecting(named("consult", domain), "ok"),
    expecting(named("delete", domain), "ok")>>

AsWritten == <<together(hostLifecycle, hostLifecycle, p1, p2, {}, {})>>
=============================================================================
