--------------------------- MODULE MCSiteLifecycle ---------------------------
(* Small instances of SiteLifecycle. *)
EXTENDS SiteLifecycle, TLC

CONSTANTS blog, shop, v1, v2, p1, p2, home, sub

EveryOp    == SiteOps \cup StackOps \cup {"rebuild"}
TwoOps     == {"create", "delete"}
Symmetry   == Permutations({blog, shop}) \cup Permutations({v1, v2}) \cup Permutations({p1, p2})
=============================================================================
