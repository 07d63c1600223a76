----------------------------- MODULE MCFileTree -----------------------------
(***************************************************************************)
(* Instances of FileTree for TLC, with the default slots of 15 minutes.    *)
(* From minute 1005 on the slot's number has four digits, so that the      *)
(* padded and the bare file name agree; before, they do not.               *)
(***************************************************************************)
EXTENDS FileTree

At(d, m) == [day |-> d, minute |-> m]

Morning == {At(1, 989), At(1, 990)}
BothDays == {At(1, 989), At(1, 1019), At(1, 1020), At(2, 1025)}
=============================================================================
