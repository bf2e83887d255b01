----------------------------- MODULE OrgSeatsMC -----------------------------
(* Small instances of OrgSeats: model values, symmetry and starting caps.   *)
EXTENDS OrgSeats, TLC

CONSTANTS a1, a2, o1, o2, w1, w2

OneAccount    == {a1}
TwoAccounts   == {a1, a2}
OneOrg  == {o1}
TwoOrgs == {o1, o2}
OneWorker  == {w1}
TwoWorkers == {w1, w2}

NobodyBarred == {}

CapOne      == {1}
CapOneTwo   == {1, 2}
CapOrNoLimit == {1, NoLimit}

AccountsAndWorkers == Permutations(Accounts) \cup Permutations(Workers)
=============================================================================
