------------------------------ MODULE MCLearning ------------------------------
EXTENDS Learning

(* The catalog, the goals of episodes and the lines of answers. *)

MCProduct ==
  [s \in Skus |-> IF s = "light" THEN [price |-> 90000, ram |-> 16, weight |-> 30, battery |-> 10]
                  ELSE [price |-> 60000, ram |-> 8, weight |-> 45, battery |-> 10]]

MCGoals ==
  {[budget |-> b, constraints |-> c, target_items |-> n] :
     b \in {150000, 239999}, c \in {<<>>, ("min_ram" :> 16), ("max_price" :> 60000 @@ "max_weight" :> 45)},
     n \in 0..2}

MCCriteria == {<<>>, ("min_ram" :> 16), ("max_price" :> 60000 @@ "min_ram" :> 8)}

\* Of the price: unstated, that of "light" or one dollar off it, that of the
\* other. Of the rest: unstated, that of "light", or a RAM that is nobody's.
MCSpecLines ==
  {[price |-> p, ram |-> r, weight |-> w[1], battery |-> w[2]] :
     p \in {NONE, 90000, 90100, 60000}, r \in {NONE, 16, 32}, w \in {<<NONE, NONE>>, <<30, 10>>}}

MCAsks == {<<>>, ("max_price" :> 60000), ("min_ram" :> 16 @@ "min_battery" :> 10)}

(* Training. *)

\* Every learner with groups of one and two, cleared and not; and one flaw at a
\* time, seen or not by its check.
MCLaunches ==
  {[algorithm |-> a, num_samples |-> n, prompts_per_step |-> p, skip_preflight |-> s, flaws |-> {}, unchecked |-> {}] :
     a \in {"grpo", "rloo", "ppo", "legacy"}, n \in 1..2, p \in 1..2, s \in BOOLEAN}
    \cup {[algorithm |-> "grpo", num_samples |-> 2, prompts_per_step |-> 1,
           skip_preflight |-> FALSE, flaws |-> {f}, unchecked |-> u] :
            f \in Range(Checks), u \in SUBSET {"memory", "backward"}}

===============================================================================
