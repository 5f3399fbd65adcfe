------------------------------- MODULE ShopEnv -------------------------------
(***************************************************************************)
(* The shopping environment of env/shopenv.py and the episode reward of    *)
(* env/reward.py. A policy emits any action text; what step() makes of it  *)
(* is one action here. step() after the end of the episode changes         *)
(* nothing. Amounts are in cents.                                          *)
(***************************************************************************)
EXTENDS Catalog, Sequences, SequencesExt, TLC

CONSTANTS
  Goals,      \* Goal: [budget, constraints, target_items]
  Criteria,   \* what _parse_criteria() may return
  max_turns

ASSUME EnvAssumption ==
  /\ max_turns \in Nat \ {0}
  /\ \A g \in Goals : /\ g.budget \in Nat /\ g.target_items \in Nat
                      /\ DOMAIN g.constraints \subseteq ConstraintKeys

VARIABLES goal, budget_remaining, cart, filters, turn, done, checked_out

envVars == <<goal, budget_remaining, cart, filters, turn, done, checked_out>>

reset ==
  /\ budget_remaining = goal.budget
  /\ cart = <<>> /\ filters = <<>>
  /\ turn = 0 /\ done = FALSE /\ checked_out = FALSE

-----------------------------------------------------------------------------
(* step(). Every action takes a turn, the invalid ones too, and the last    *)
(* turn ends the episode.                                                   *)

TakeTurn ==
  /\ ~done
  /\ turn' = turn + 1
  /\ done' = (checked_out' \/ turn + 1 >= max_turns)
  /\ UNCHANGED goal

\* Mutant: an item goes into the cart before its price is looked at.
AddUnpriced(sku) ==
  /\ cart' = Append(cart, sku)
  /\ budget_remaining' = budget_remaining - Product[sku].price
  /\ UNCHANGED <<filters, checked_out>>
  /\ TakeTurn

AddToCart(sku) ==
  /\ Product[sku].price <= budget_remaining
  /\ cart' = Append(cart, sku)
  /\ budget_remaining' = budget_remaining - Product[sku].price
  /\ UNCHANGED <<filters, checked_out>>
  /\ TakeTurn

\* list.remove() takes out the first of its kind.
RemoveFromCart(sku) ==
  /\ \E i \in DOMAIN cart :
       /\ cart[i] = sku /\ \A k \in 1..(i - 1) : cart[k] # sku
       /\ cart' = RemoveAt(cart, i)
  /\ budget_remaining' = budget_remaining + Product[sku].price
  /\ UNCHANGED <<filters, checked_out>>
  /\ TakeTurn

ApplyFilter(crit) ==
  /\ crit # <<>>
  /\ filters' = crit @@ filters
  /\ UNCHANGED <<budget_remaining, cart, checked_out>>
  /\ TakeTurn

Checkout ==
  /\ checked_out' = TRUE
  /\ UNCHANGED <<budget_remaining, cart, filters>>
  /\ TakeTurn

\* Unknown sku, over budget, not in the cart, unparseable criteria or no
\* action at all.
Invalid ==
  /\ UNCHANGED <<budget_remaining, cart, filters, checked_out>>
  /\ TakeTurn

EnvNext ==
  \/ \E sku \in Skus : AddToCart(sku) \/ RemoveFromCart(sku)
  \/ \E crit \in Criteria : ApplyFilter(crit)
  \/ Checkout
  \/ Invalid

\* One episode.
EnvSpec == goal \in Goals /\ reset /\ [][EnvNext]_envVars

-----------------------------------------------------------------------------
(* episode_reward(), in the ten thousandths it is rounded to.               *)

Satisfying == {i \in DOMAIN cart : satisfies(Product[cart[i]], goal.constraints)}

Distance(a, b) == IF a > b THEN a - b ELSE b - a

\* round(0.6 * good / n + 0.4 * max(0, 1 - |n - t| / t), 4)
Blend(good, n, target) ==
  LET t   == IF target = 0 THEN n ELSE target
      num == 6 * good * t + 4 * n * (IF Distance(n, t) > t THEN 0 ELSE t - Distance(n, t))
      den == 10 * n * t
  IN  (10000 * num + den \div 2) \div den

\* Mutant: a cart is scored although it was never bought.
episode_reward_unbought ==
  IF cart = <<>> THEN 0 ELSE Blend(Cardinality(Satisfying), Len(cart), goal.target_items)

episode_reward ==
  IF ~checked_out \/ cart = <<>> THEN 0
  ELSE Blend(Cardinality(Satisfying), Len(cart), goal.target_items)

-----------------------------------------------------------------------------
Spent == FoldSeq(LAMBDA sku, sum : Product[sku].price + sum, 0, cart)

\* No order of adds and removes, of the same item twice or of items that are
\* not there, makes or loses money: what is left and what the cart is worth is
\* the budget. episode_reward() relies on it ("a checked-out cart is always
\* within budget") and does not check the budget itself.
BudgetConserved == budget_remaining >= 0 /\ budget_remaining + Spent = goal.budget

\* The score lies in [0, 1] and is 1 exactly for a purchase of the wanted
\* number of items that all satisfy the goal by the catalog's specs, whatever
\* filters the shopper looked through; an episode cut off by max_turns scores 0.
RewardIsFair ==
  /\ episode_reward \in 0..10000
  /\ episode_reward = 10000 <=>
       /\ checked_out /\ cart # <<>>
       /\ Satisfying = DOMAIN cart
       /\ goal.target_items \in {0, Len(cart)}

=============================================================================
