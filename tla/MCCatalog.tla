------------------------------ MODULE MCCatalog ------------------------------
(* A small instance of Catalog: two datasets of one owner, three versions, and *)
(* a quota that two of them can fill.                                          *)
EXTENDS Catalog, TLC

CONSTANTS c1, c2

MCTotalBytes == (c1 :> 1) @@ (c2 :> 2)

Symmetry == Permutations(Datasets) \cup Permutations(VersionIds)

\* No row of versions, datasets or usage depends on the reservations or on the
\* audit log: one row of either, beside one version, lets their operations happen.
SideTables ==
  DOMAIN idem # {} \/ events # {} =>
    Cardinality(DOMAIN idem) + Cardinality(events) + Cardinality(DOMAIN versions) <= 2

=============================================================================
