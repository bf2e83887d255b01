-------------------------- MODULE AiAllowanceMC ---------------------------
(* The policies an administrator chooses among, and the calls' symmetry.   *)
EXTENDS AiAllowance, TLC

P(d, c, u, r) == [disabled |-> d, calls |-> c, usd |-> u, reserve |-> r]
\* A dollar limit two reservations wide, a limit of one call, no limit.
ToolRows == {P(FALSE, NoLimit, 2, 1), P(FALSE, 1, NoLimit, 0)}
Alike == Permutations(Calls)
=============================================================================
