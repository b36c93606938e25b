---------------------------- MODULE MCStyleVault ----------------------------
(* Values of the constants of StyleVault for TLC. *)
EXTENDS StyleVault

\* One style document saved twice with different bytes gives one package id
\* and two contents, each with an original of its own.
OwnArtifact == [c \in Contents |-> c]

Symmetric ==
    Permutations(Clients) \cup Permutations(Packages)
        \cup Permutations(Contents)
=============================================================================
