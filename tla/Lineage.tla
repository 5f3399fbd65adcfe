------------------------------- MODULE Lineage -------------------------------
(***************************************************************************)
(* The lineage queries of artifacts.py over the index that RunRegistry     *)
(* fills: ancestors(), a depth-first walk, and children().                 *)
(***************************************************************************)
EXTENDS RunRegistry, Relation

\* ancestors(): depth first from the parents, each id once, unknown ids skipped.
RECURSIVE Climb(_, _, _)
Climb(stack, seen, out) ==
  IF stack = <<>> THEN out
  ELSE LET pid  == Last(stack)
           rest == Front(stack)
       IN  IF pid \in seen THEN Climb(rest, seen, out)
           ELSE IF pid \notin DOMAIN artifacts THEN Climb(rest, seen \cup {pid}, out)
           ELSE Climb(rest \o artifacts[pid].parents, seen \cup {pid}, Append(out, pid))

\* Mutant: an unknown id ends the walk.
ancestors_until_unknown(a) ==
  LET out == Climb(artifacts[a].parents, {}, <<>>)
  IN  IF \E i \in DOMAIN artifacts[a].parents : artifacts[a].parents[i] = 0 THEN <<>> ELSE out

ancestors(a) == Climb(artifacts[a].parents, {}, <<>>)

children(a) == {b \in DOMAIN artifacts : a \in Range(artifacts[b].parents)}

-----------------------------------------------------------------------------
\* ancestors() lists every artifact that can be reached through known parents,
\* each once, itself never among them, whatever ids the callers gave as
\* parents; and it agrees with children().
LineageIsTheClosure ==
  LET ids    == DOMAIN artifacts
      isPar  == [p \in ids \X ids |-> p[2] \in Range(artifacts[p[1]].parents)]
      above  == TransitiveClosure(isPar, ids)
  IN  \A a \in ids :
        /\ Range(ancestors(a)) = {b \in ids : above[a, b]}
        /\ Len(ancestors(a)) = Cardinality(Range(ancestors(a)))
        /\ a \notin Range(ancestors(a))
        /\ \A b \in children(a) : a \in Range(ancestors(b))

==============================================================================
