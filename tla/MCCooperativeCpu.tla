--------------------------- MODULE MCCooperativeCpu ---------------------------
(* Two conversions that compete for permits: one that has a task for the
   executor and wants the cached value, and one that fetches something for its
   template and wants the value too, or that has a task for the executor too.  *)
EXTENDS CooperativeCpu, TLC

CONSTANTS c1, c2

MCPlans == {(c1 :> {"submit", "cache"}) @@ (c2 :> plan) :
              plan \in {{"fetch", "cache"}, {"submit"}}}
=============================================================================
