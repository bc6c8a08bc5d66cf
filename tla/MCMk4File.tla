------------------------------ MODULE MCMk4File ------------------------------
(* Constants for the runs of Mk4File. *)
EXTENDS Mk4File
\* A byte for the format and one for every run of equal bytes: shorter than the
\* text, as long, or longer.
RunLength(t) == 1 + Cardinality({i \in 1..Len(t) : i = Len(t) \/ t[i] # t[i + 1]})
=============================================================================
