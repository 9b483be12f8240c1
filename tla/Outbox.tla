------------------------------- MODULE Outbox -------------------------------
(***************************************************************************)
(* What the events table promises its reader, whoever drains it and        *)
(* however it fails: an event is recorded once; only a pending event is    *)
(* announced on Discord; and a pending event is settled only after it was  *)
(* announced, unless it is too old to announce.  Announcing twice is       *)
(* allowed (the contract is at-least-once), forgetting is not.             *)
(***************************************************************************)
CONSTANTS Events, Stale

VARIABLES row, told
vars == <<row, told>>

Pending == {e \in Events : row[e] = "pending"}

Init ==
  /\ row = [e \in Events |-> "absent"]
  /\ told = {}

\* A detection inserts the row: to be announced, or already settled.
Record(e, how) ==
  /\ row[e] = "absent"
  /\ how \in {"pending", "seeded"}
  /\ row' = [row EXCEPT ![e] = how]
  /\ UNCHANGED told

\* One Discord message shows the events of S.
Tell(S) ==
  /\ S \subseteq Pending \ Stale
  /\ told' = told \cup S
  /\ UNCHANGED row

Settle(S) ==
  /\ S \subseteq Pending \cap (told \cup Stale)
  /\ row' = [e \in Events |-> IF e \in S THEN "acked" ELSE row[e]]
  /\ UNCHANGED told

Next ==
  \/ \E e \in Events, how \in {"pending", "seeded"} : Record(e, how)
  \/ \E S \in SUBSET Events : Tell(S) \/ Settle(S)

Spec == Init /\ [][Next]_vars
=============================================================================
