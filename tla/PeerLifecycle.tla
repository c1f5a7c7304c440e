---------------------------- MODULE PeerLifecycle ----------------------------
(***************************************************************************)
(* What Sync promises of every key in its peer list, without messages,     *)
(* addresses or action lists.  A key is absent, inactive (met, not         *)
(* confirmed) or active.  It is met before it is confirmed, and it is      *)
(* dropped only when it is not active and has been silent for longer than  *)
(* Patience; an active key stops being active only by being met anew.      *)
(* When a key was last heard from never moves backwards.                   *)
(***************************************************************************)
EXTENDS Integers

CONSTANTS Key,        \* the keys of the peers
          Patience    \* how long an inactive key may stay silent

VARIABLES status,     \* absent, inactive or active
          heard,      \* when each key was last heard from; 0 while absent
          clock       \* the time

vars == <<status, heard, clock>>

Init ==
  /\ status = [k \in Key |-> "absent"]
  /\ heard = [k \in Key |-> 0]
  /\ clock = 0

\* The record of k is renewed with a moment that is not in the future.
Renew(k) == \E t \in heard[k]..clock : heard' = [heard EXCEPT ![k] = t]

Meet(k) ==
  /\ Renew(k)
  /\ status' = [status EXCEPT ![k] = "inactive"]
  /\ UNCHANGED clock

Confirm(k) ==
  /\ status[k] # "absent"
  /\ Renew(k)
  /\ status' = [status EXCEPT ![k] = "active"]
  /\ UNCHANGED clock

Forget(k) ==
  /\ status[k] = "inactive"
  /\ clock - heard[k] > Patience
  /\ status' = [status EXCEPT ![k] = "absent"]
  /\ heard' = [heard EXCEPT ![k] = 0]
  /\ UNCHANGED clock

Elapse ==
  /\ clock' \in Nat /\ clock < clock'
  /\ UNCHANGED <<status, heard>>

Next ==
  \/ \E k \in Key : Meet(k) \/ Confirm(k) \/ Forget(k)
  \/ Elapse

Spec == Init /\ [][Next]_vars
=============================================================================
