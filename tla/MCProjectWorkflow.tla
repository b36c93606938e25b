------------------------- MODULE MCProjectWorkflow -------------------------
(* Values of the constants of ProjectWorkflow for TLC. *)
EXTENDS ProjectWorkflow

\* Every document was imported from the same surface text: the hash of the
\* text, and so the run id, does not tell the documents apart.
OneSource == [d \in Docs |-> CHOOSE s \in Sources : TRUE]

Symmetric == Permutations(Clients)

=============================================================================
