----------------------------- MODULE MCEditForm -----------------------------
(* Values for the constants of EditForm.                                       *)
EXTENDS EditForm, TLC

Symmetry == Permutations(Ids)

=============================================================================
