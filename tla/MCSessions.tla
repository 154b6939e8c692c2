------------------------------- MODULE MCSessions -------------------------------
(***************************************************************************)
(* An instance of Sessions for TLC: two publishers beside one client's     *)
(* calls, one publisher beside two overlapping calls, or a longer story    *)
(* with one of each.                                                       *)
(***************************************************************************)
EXTENDS Sessions, TLC

Crews ==
  {[threads |-> Publishers \cup {c}, messages |-> 2] : c \in Callers}
    \cup {[threads |-> Callers \cup {p}, messages |-> 1] : p \in Publishers}
    \cup {[threads |-> {p, c}, messages |-> 3] : p \in Publishers, c \in Callers}

ThreadSymmetry == Permutations(Publishers) \cup Permutations(Callers)
=============================================================================
