----------------------------- MODULE OrgStaffMC -----------------------------
(* Small instances of OrgStaff.                                             *)
EXTENDS OrgStaff, TLC

CONSTANTS owen, ann, sue, c1, w1, w2

ThreePeople == {owen, ann, sue}
Interchangeable == Permutations(Workers)
=============================================================================
