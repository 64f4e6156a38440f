---------------------------- MODULE MCBootloader ----------------------------
(* Bootloader on small instances.                                          *)
EXTENDS Bootloader, FiniteSets

(* Interrupted operations explored: states with more torn double words     *)
(* than this are left out.  Every operation that may tear has an outcome   *)
(* that does not, so that no step is left without one: the behaviours that *)
(* remain are those of the fair specification with so few torn words.      *)
CONSTANT MaxTorn

FewTorn ==
  Cardinality({a \in Addr : slot[a] = Torn})
    + Cardinality({f \in Fields : meta[f] = Torn}) <= MaxTorn
=============================================================================
