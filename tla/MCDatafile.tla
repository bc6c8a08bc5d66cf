----------------------------- MODULE MCDatafile -----------------------------
(* Datafile for TLC.                                                       *)
EXTENDS Datafile, TLC

\* Contents are only compared.
Tags == Permutations(Tag)
=============================================================================
