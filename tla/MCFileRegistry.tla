--------------------------- MODULE MCFileRegistry ---------------------------
(* Two checkpoint saves, one through save_state(), or three publishers of    *)
(* policies, or three runs that materialize the same prompt set.             *)
EXTENDS FileRegistry

CONSTANTS a, b, c

MCCallers == [r \in {"checkpoints", "policies", "prompts"} |->
                IF r = "checkpoints" THEN {a, b} ELSE Ingests]
=============================================================================
