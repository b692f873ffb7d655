------------------------------- MODULE MCBench -------------------------------
(* The benchmark with short prefixes, few requests and small pools.          *)
EXTENDS Bench, TLC

Reusing == {"shared_system_prompt", "few_shot_families"}
Churn == {"adversarial_churn"}

Symmetry == Permutations(Handles)

=============================================================================
