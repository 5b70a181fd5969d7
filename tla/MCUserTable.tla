---------------------------- MODULE MCUserTable -----------------------------
(***************************************************************************)
(* Small instances of UserTable for TLC.                                   *)
(***************************************************************************)
EXTENDS UserTable, TLC

\* Clients, sockets and cells are interchangeable.
Symmetry == Permutations(Addr) \cup Permutations(Fd) \cup Permutations(Node)
=============================================================================
