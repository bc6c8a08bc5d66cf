------------------------------ MODULE MCMk4Vfs ------------------------------
(* Constants for the runs of Mk4Vfs and Mk4VfsTree. *)
EXTENDS Mk4VfsTree
CONSTANTS a, b
NoPairs == {}
TwinPairs == {<<a, b>>, <<b, a>>}
=============================================================================
