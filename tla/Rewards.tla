------------------------------- MODULE Rewards -------------------------------
(***************************************************************************)
(* The verifiable reward of one answer: reward/parse.py, functions.py and  *)
(* composite.py. An answer is read line by line; a line cites skus and     *)
(* states specs. Fractions of one are integers out of Unit, a common       *)
(* multiple of what is divided by: however many products an answer cites,  *)
(* no share is rounded.                                                    *)
(***************************************************************************)
EXTENDS Catalog, Sequences, FiniteSetsExt

CONSTANTS
  Unknown,    \* sku-shaped tokens that are not in the catalog
  SpecLines,  \* what _extract_specs() may return: field -> value or NONE
  Asks,       \* the constraints a prompt may carry
  MaxLines, NONE,
  Unit        \* what 1.0 is in the model

Cited  == Skus \cup Unknown
Fields == {"price", "ram", "weight", "battery"}

ASSUME RewardAssumption ==
  /\ Skus \cap Unknown = {} /\ IsFiniteSet(Cited)
  /\ Unit \in Nat \ {0} /\ Unit % 40 = 0
  /\ \A n \in 1..Cardinality(Cited) : Unit % (4 * n) = 0
  /\ \A s \in SpecLines : DOMAIN s = Fields /\ \A f \in Fields : s[f] \in Nat \/ s[f] = NONE
  /\ \A c \in Asks : DOMAIN c \subseteq ConstraintKeys

VARIABLES
  constraints,              \* RewardContext.constraints
  has_language, n_dims,     \* what the prose of the answer compares (_reasoning_text)
  said,                     \* the lines read, for the properties
  recs                      \* parse_response(): sku -> field -> stated value

answerVars == <<constraints, has_language, n_dims, said, recs>>

AnswerInit ==
  /\ constraints \in Asks
  /\ has_language \in BOOLEAN /\ n_dims \in 0..2
  /\ said = <<>> /\ recs = <<>>

-----------------------------------------------------------------------------
(* parse_response(): the specs of a line go to every sku on it, and a later *)
(* line only fills in what is not there yet.                                *)

Merge(old, specs) == [f \in Fields |-> IF old[f] # NONE THEN old[f] ELSE specs[f]]

Blank == [f \in Fields |-> NONE]

ReadLine(skus, specs) ==
  /\ Len(said) < MaxLines
  /\ said' = Append(said, [skus |-> skus, specs |-> specs])
  /\ recs' = [s \in DOMAIN recs \cup skus |->
                LET old == IF s \in DOMAIN recs THEN recs[s] ELSE Blank
                IN  IF s \in skus THEN Merge(old, specs) ELSE old]
  /\ UNCHANGED <<constraints, has_language, n_dims>>

AnswerNext == \E skus \in (SUBSET Cited) \ {{}}, specs \in SpecLines : ReadLine(skus, specs)

\* One answer.
AnswerSpec == AnswerInit /\ [][AnswerNext]_answerVars

-----------------------------------------------------------------------------
(* The components, each out of Unit.                                        *)

Share(part, whole) == (Unit * Cardinality(part)) \div Cardinality(whole)

grounded(r) == DOMAIN r \cap Skus

Tolerance(f) == CASE f = "price" -> 100 [] f = "weight" -> 1 [] OTHER -> 0

Off(a, b) == IF a > b THEN a - b ELSE b - a

specs_consistent(stated, p) ==
  \A f \in Fields : stated[f] # NONE => Off(stated[f], p[f]) <= Tolerance(f)

Clean(r) == {s \in grounded(r) : specs_consistent(r[s], Product[s])}

budget_compliance(r) ==
  IF "max_price" \notin DOMAIN constraints THEN Unit
  ELSE IF grounded(r) = {} THEN 0
  ELSE Share({s \in grounded(r) : meets(Product[s], "max_price", constraints["max_price"])},
             grounded(r))

catalog_groundedness(r) == IF DOMAIN r = {} THEN 0 ELSE Share(Clean(r), DOMAIN r)

\* Mutant: one product described correctly clears the answer.
is_hallucinated_unless_clean(r) == Clean(r) = {} /\ DOMAIN r # {}

is_hallucinated(r) == Clean(r) # DOMAIN r

attribute_coverage(r) ==
  IF grounded(r) = {} THEN 0
  ELSE Share({s \in grounded(r) : satisfies(Product[s], constraints)}, grounded(r))

num_specs_stated(r) == UNION {{<<s, f>> : f \in {g \in Fields : r[s][g] # NONE}} : s \in DOMAIN r}

\* response_quality(), its two results: the mean share of the four specs that
\* is stated, and breadth * (0.4 + 0.6 * content).
Format(r) ==
  IF DOMAIN r = {} THEN 0 ELSE Share(num_specs_stated(r), (DOMAIN r) \X Fields)

Comparison(r) ==
  LET breadth == IF Cardinality(grounded(r)) > 2 THEN 2 ELSE Cardinality(grounded(r))
  IN  (Unit \div 40) * breadth * (8 + (IF has_language THEN 6 ELSE 0) + 3 * n_dims)

\* Mutant: the penalty is not subtracted.
compute_reward_lenient(r) ==
  25 * budget_compliance(r) + 25 * catalog_groundedness(r) + 25 * attribute_coverage(r)
    + 15 * Format(r) + 10 * Comparison(r)

\* Total, in hundredths of Unit.
compute_reward(r) ==
  25 * budget_compliance(r) + 25 * catalog_groundedness(r) + 25 * attribute_coverage(r)
    + 15 * Format(r) + 10 * Comparison(r)
    - (IF is_hallucinated(r) THEN 50 * Unit ELSE 0)

-----------------------------------------------------------------------------
\* The same answer without the invented products and with the true specs.
Honest(r) == [s \in grounded(r) |-> [f \in Fields |-> IF r[s][f] = NONE THEN NONE ELSE Product[s][f]]]

\* The reward never pays for lying, whatever else the answer gains by it
\* (breadth, stated specs, a smaller share of bad picks): an answer that
\* is_hallucinated() scores at least 0.35 less than the same answer made
\* honest, and an honest one never scores below zero (composite.py: "inventing
\* products/specs is worse than a merely mediocre answer").
HonestyPays ==
  IF is_hallucinated(recs)
  THEN compute_reward(Honest(recs)) >= compute_reward(recs) + 35 * Unit
  ELSE compute_reward(recs) \in 0..(100 * Unit)

\* is_hallucinated() is documented as "True if the response cited a
\* non-existent SKU OR stated a spec that contradicts the catalog". A cited
\* sku that does not exist never escapes, and a false spec only behind an
\* earlier line that states the same field of the same product: which is then
\* the statement the answer is judged by.
LieEscapesOnlyBehindAStatement ==
  /\ \A i \in DOMAIN said : said[i].skus \cap Unknown # {} => is_hallucinated(recs)
  /\ \A i \in DOMAIN said, f \in Fields : \A s \in said[i].skus \cap Skus :
       /\ said[i].specs[f] # NONE
       /\ Off(said[i].specs[f], Product[s][f]) > Tolerance(f)
       => \/ is_hallucinated(recs)
          \/ \E k \in 1..(i - 1) : s \in said[k].skus /\ said[k].specs[f] # NONE

=============================================================================
