------------------------------ MODULE MCAliasLease ------------------------------
(* AliasLease on small instances: worker threads are interchangeable (the    *)
(* scan order depends only on account ids), so they and the identities may be *)
(* permuted in safety runs.                                                   *)
EXTENDS AliasLease, TLC

Interchangeable == Permutations(Workers) \cup Permutations(Ssos)
=============================================================================
