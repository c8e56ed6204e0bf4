------------------------------ MODULE RemoteCalls ------------------------------
(***************************************************************************)
(* What a registrar adapter promises about a call that changes the         *)
(* registry: the registry carries it out at most MaxExecs times, a call    *)
(* that returns nil was carried out, and a call that the registry rejected *)
(* outright was not and never will be.  Every other error leaves open how  *)
(* often it was, and leaves open that it still will be.                    *)
(***************************************************************************)
EXTENDS Naturals

CONSTANTS
  Calls,      \* calls made through the adapter
  MaxExecs    \* how often one call may be carried out

VARIABLES
  status,    \* "new", "pending", "ok", "rejected", "failed"
  count      \* how often the registry carried the call out

vars == <<status, count>>

Init ==
  /\ status = [k \in Calls |-> "new"]
  /\ count = [k \in Calls |-> 0]

Submit(k) ==
  /\ status[k] = "new"
  /\ status' = [status EXCEPT ![k] = "pending"]
  /\ UNCHANGED count

CarryOut(k) ==
  /\ status[k] \in {"pending", "ok", "failed"}
  /\ count[k] < MaxExecs
  /\ count' = [count EXCEPT ![k] = @ + 1]
  /\ UNCHANGED status

(* Invalid arguments are rejected before the call is pending. *)
Reject(k) ==
  /\ status[k] \in {"new", "pending"}
  /\ count[k] = 0
  /\ status' = [status EXCEPT ![k] = "rejected"]
  /\ UNCHANGED count

Confirm(k) ==
  /\ status[k] = "pending"
  /\ count[k] > 0
  /\ status' = [status EXCEPT ![k] = "ok"]
  /\ UNCHANGED count

Fail(k) ==
  /\ status[k] = "pending"
  /\ status' = [status EXCEPT ![k] = "failed"]
  /\ UNCHANGED count

Next == \E k \in Calls : Submit(k) \/ CarryOut(k) \/ Reject(k) \/ Confirm(k) \/ Fail(k)

Spec == Init /\ [][Next]_vars
=============================================================================
