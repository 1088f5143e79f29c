------------------------------- MODULE FanOut -------------------------------
(***************************************************************************)
(* What the connector's event broker promises: events form one log, every  *)
(* subscriber reads it from the point where it subscribed, one entry at a  *)
(* time, and the log grows, and the set of subscribers changes, only when  *)
(* every subscriber has been handed all of it.                             *)
(***************************************************************************)
EXTENDS Naturals, Sequences

CONSTANTS Events, Readers

VARIABLES
  log,   \* the events broadcast so far
  subs,  \* the current subscribers
  pos    \* how much of the log each reader has been handed

vars == <<log, subs, pos>>

AllCaughtUp == \A r \in subs : pos[r] = Len(log)

Init ==
  /\ log = <<>>
  /\ subs = {}
  /\ pos = [r \in Readers |-> 0]

Subscribe(r) ==
  /\ AllCaughtUp
  /\ r \notin subs
  /\ subs' = subs \cup {r}
  /\ pos' = [pos EXCEPT ![r] = Len(log)]
  /\ UNCHANGED log

Unsubscribe(r) ==
  /\ AllCaughtUp
  /\ r \in subs
  /\ subs' = subs \ {r}
  /\ UNCHANGED <<log, pos>>

Broadcast(e) ==
  /\ AllCaughtUp
  /\ log' = Append(log, e)
  /\ UNCHANGED <<subs, pos>>

Hand(r) ==
  /\ r \in subs
  /\ pos[r] < Len(log)
  /\ pos' = [pos EXCEPT ![r] = @ + 1]
  /\ UNCHANGED <<log, subs>>

Next ==
  \/ \E e \in Events : Broadcast(e)
  \/ \E r \in Readers : Subscribe(r) \/ Unsubscribe(r) \/ Hand(r)

Spec == Init /\ [][Next]_vars
=============================================================================
