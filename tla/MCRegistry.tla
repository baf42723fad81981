----------------------------- MODULE MCRegistry -----------------------------
(***************************************************************************)
(* Two rules: g starts as a default and becomes non-negotiable, h is free  *)
(* for an overlay to add.  One rulebook and one overlay are malformed.     *)
(***************************************************************************)
EXTENDS Registry, TLC

CONSTANTS g, h

Tiered(x, t) == [id |-> x, tier |-> t]

MCFounding == <<Tiered(g, "default")>>
MCRulebooks == {<<Tiered(g, "non_negotiable"), Tiered(h, "default")>>,
                <<Tiered(g, "default"), Tiered(g, "other")>>}
MCOverlays == {[over |-> <<g>>, add |-> <<h>>], [over |-> <<g, g>>, add |-> <<>>]}
Symmetry == Permutations(Sessions) \cup Permutations(Procs)
============================================================================
