------------------------------ MODULE MCKeyPool ------------------------------
(* Instances of KeyPool for TLC.                                           *)
EXTENDS KeyPool, TLC

\* Goroutines of a kind are interchangeable, and so are keys and credentials.
Symmetry == Permutations(Txns) \cup Permutations(Callers)
            \cup Permutations(Keys) \cup Permutations(Creds)
=============================================================================
