------------------------------ MODULE PolicyLog ------------------------------
(* What the policy registry promises (policy.py): an append-only log of      *)
(* versions, each with its one publisher, and a worker that reads its end.   *)
EXTENDS Naturals, Sequences

CONSTANT Writers

VARIABLES log, seen, pinned

Init == log = <<>> /\ seen = 0 /\ pinned = 0

Publish(w) ==
  /\ \A v \in DOMAIN log : log[v] # {w}
  /\ log' = Append(log, {w})
  /\ UNCHANGED <<seen, pinned>>

Refresh == /\ seen' = IF pinned = 0 THEN Len(log) ELSE pinned
           /\ UNCHANGED <<log, pinned>>

Pin(v) == pinned' = v /\ UNCHANGED <<log, seen>>

Next == (\E w \in Writers : Publish(w)) \/ Refresh \/ (\E v \in DOMAIN log : Pin(v))

Spec == Init /\ [][Next]_<<log, seen, pinned>>

=============================================================================
