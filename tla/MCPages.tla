-------------------------------- MODULE MCPages --------------------------------
(* The workspaces, Facebook users, rows and operations are alike.           *)
EXTENDS Pages, TLC
Symmetry == Permutations(Workspace) \cup Permutations(FbUser) \cup Permutations(Account)
            \cup Permutations(Row) \cup Permutations(Op)
=============================================================================
