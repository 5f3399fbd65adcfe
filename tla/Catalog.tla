------------------------------- MODULE Catalog -------------------------------
(* The product catalog and the ground-truth predicate: data/catalog.py and   *)
(* data/prompts.py. Amounts are integers: cents, tenths of a pound.          *)
EXTENDS Integers, FiniteSets

CONSTANTS
  Skus,      \* the skus of the catalog
  Product    \* sku -> [price, ram, weight, battery]

ASSUME CatalogAssumption ==
  /\ IsFiniteSet(Skus)
  /\ Product \in [Skus -> [price : Nat, ram : Nat, weight : Nat, battery : Nat]]

ConstraintKeys == {"max_price", "min_ram", "max_weight", "min_battery"}

meets(p, key, bound) ==
  CASE key = "max_price"   -> p.price <= bound
    [] key = "min_ram"     -> p.ram >= bound
    [] key = "max_weight"  -> p.weight <= bound
    [] key = "min_battery" -> p.battery >= bound

\* constraints: a function from some of the keys to their thresholds.
satisfies(p, constraints) ==
  \A key \in DOMAIN constraints : meets(p, key, constraints[key])

=============================================================================
