------------------------------ MODULE Mailbox ------------------------------
(***************************************************************************)
(* What a person is promised about the mails of a finished resume, without *)
(* the queue, the claims, the tries and the provider's keys: revisions are *)
(* saved, a finished one may be mailed, never a second time, and one that  *)
(* counts as delivered has been mailed.                                    *)
(***************************************************************************)
EXTENDS Sequences

CONSTANTS Days, Addrs

VARIABLES
    revs,      \* the status of each revision, in order
    inbox,     \* the mails the person got, in order
    told       \* the revisions that count as delivered

boxVars == <<revs, inbox, told>>

Init == revs = <<>> /\ inbox = <<>> /\ told = {}

Mailed(r) == \E i \in DOMAIN inbox : inbox[i].rev = r

Save(status) ==
    /\ revs' = Append(revs, status)
    /\ UNCHANGED <<inbox, told>>

\* A mail is claimed for one day and may go out on another.
Deliver(r, claimed, day, to) ==
    /\ revs[r] = "finished" /\ ~Mailed(r)
    /\ inbox' = Append(inbox, [rev |-> r, claimed |-> claimed, day |-> day, to |-> to])
    /\ UNCHANGED <<revs, told>>

\* The answer of the provider was written down; it may never be.
Confirm(r) ==
    /\ Mailed(r)
    /\ told' = told \cup {r}
    /\ UNCHANGED <<revs, inbox>>

Next ==
    \/ \E status \in {"draft", "finished"} : Save(status)
    \/ \E r \in DOMAIN revs :
          Confirm(r) \/ \E claimed, day \in Days, to \in Addrs : Deliver(r, claimed, day, to)

Spec == Init /\ [][Next]_boxVars

=============================================================================
