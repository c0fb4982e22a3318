----------------------------- MODULE MCCatalog -----------------------------
(* Instances of Catalog for TLC.                                           *)
EXTENDS Catalog, TLC

CONSTANTS a, b, c, old, new

HostSymmetry == Permutations(Hosts)
=============================================================================
