----------------------------- MODULE SeatLedger -----------------------------
(***************************************************************************)
(* What an organization is promised about its seats, without the requests  *)
(* that spend them: a count that never passes the cap, that covers every   *)
(* person who paid a seat, and that goes down only by handing one person's *)
(* seat back.  The cap is only ever raised.                                *)
(***************************************************************************)
EXTENDS Integers, FiniteSets

CONSTANTS Accounts, Orgs, NoLimit, StartCaps

VARIABLES
    claimed,    \* seats spent, per organization
    cap,        \* seats bought, per organization, or NoLimit
    holders     \* <<account, org>> whose seat is paid

ledgerVars == <<claimed, cap, holders>>

Init ==
    /\ claimed = [o \in Orgs |-> 0]
    /\ cap \in [Orgs -> StartCaps]
    /\ holders = {}

\* A seat is paid for a person.  The books allow a second charge for someone
\* who already holds one: the organization loses the seat, never the cap.
Charge(a, o) ==
    /\ cap[o] # NoLimit => claimed[o] < cap[o]
    /\ claimed' = [claimed EXCEPT ![o] = @ + 1]
    /\ holders' = holders \cup {<<a, o>>}
    /\ UNCHANGED cap

Refund(a, o) ==
    /\ <<a, o>> \in holders
    /\ claimed' = [claimed EXCEPT ![o] = @ - 1]
    /\ holders' = holders \ {<<a, o>>}
    /\ UNCHANGED cap

RaiseCap(o) ==
    /\ cap[o] # NoLimit
    /\ cap' = [cap EXCEPT ![o] = @ + 1]
    /\ UNCHANGED <<claimed, holders>>

Next == \E o \in Orgs :
            \/ RaiseCap(o)
            \/ \E a \in Accounts : Charge(a, o) \/ Refund(a, o)

Spec == Init /\ [][Next]_ledgerVars

=============================================================================
