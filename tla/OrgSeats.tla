------------------------------ MODULE OrgSeats ------------------------------
(***************************************************************************)
(* Organization seats: access codes, memberships, seat offers and invites. *)
(*                                                                         *)
(* An organization is one access_code row.  A membership is one row of     *)
(* access_code_redemption; it is written only by smr_redeem_code, under a  *)
(* row lock on the code.  Every request runs on a serverless instance as a *)
(* sequence of short READ COMMITTED transactions, so what a request read   *)
(* may be stale when it writes.  A request that spans several transactions *)
(* is an entry of req, one stage per transaction; a request that is one    *)
(* transaction is one action.  Both need a free worker.                    *)
(***************************************************************************)
EXTENDS Integers, FiniteSets

CONSTANTS
    Accounts,   \* users rows: an id is never used twice
    Orgs,       \* access_code rows
    Workers,    \* requests that may be in flight at once
    NoLimit,    \* max_redemptions IS NULL
    Barred,     \* <<account, org>> refused by smr_redeem_code (admin, owner, staff)
    StartCaps,  \* the caps an organization may be created with
    MaxCap,     \* bound: addOrgSeats raises no cap past this
    MaxDay,     \* bound: how many 24-hour email windows may pass
    CanCrash    \* may an instance die between two transactions?

ASSUME AccountsFinite == IsFiniteSet(Accounts)
ASSUME LimitAssumption ==
    /\ NoLimit \notin Int
    /\ StartCaps \subseteq Nat \cup {NoLimit}
    /\ MaxCap \in Nat
    /\ MaxDay \in Nat
ASSUME BarredAssumption == Barred \subseteq Accounts \X Orgs
ASSUME CrashAssumption == CanCrash \in BOOLEAN

VARIABLES
    acct,       \* the users row of each account
    member,     \* access_code_redemption rows, as <<account, org>>
    departed,   \* access_code_departure rows, as <<account, org>>
    claimed,    \* access_code.times_redeemed
    cap,        \* access_code.max_redemptions
    codeOpen,   \* is_active and not expired
    offer,      \* status of the newest org_seat_offer row of each pair
    invite,     \* the org_invite row of each pair (its offer_status)
    recent,     \* pairs whose org_invite.last_sent_at is in the last 24 hours
    offerMails, \* offer emails per pair since the last time a day passed
    day,        \* 24-hour windows that have passed
    req,        \* the request each worker is running
    charged     \* history: <<account, org>> that paid a seat and was not refunded

ledger == <<member, departed, claimed, charged>>
lists  == <<offer, invite, recent>>
mail   == <<offerMails, day>>
codes  == <<cap, codeOpen>>
vars   == <<acct, ledger, codes, lists, mail, req>>

Pairs == Accounts \X Orgs

AcctState   == {"unborn", "shell", "active", "gone"}
OfferState  == {"none", "pending", "accepted", "declined", "withdrawn"}
InviteState == {"none", "plain", "offered", "joined", "declined", "withdrawn"}

(***************************************************************************)
(* The stages of a request, named for the transaction that comes next.     *)
(***************************************************************************)
Stages == {"attribute", "accept", "claim", "claimNew", "rollback",
           "list", "offer", "relist", "relistFresh", "free", "unlist", "reopen",
           "leaveAll", "eraseAccount"}

Idle == [at |-> "idle"]
Request == [at: Stages, who: Accounts, org: Orgs, left: SUBSET Orgs]

TypeOK ==
    /\ acct \in [Accounts -> AcctState]
    /\ member \subseteq Pairs
    /\ departed \subseteq Pairs
    /\ claimed \in [Orgs -> Nat]
    /\ cap \in [Orgs -> Nat \cup {NoLimit}]
    /\ codeOpen \in [Orgs -> BOOLEAN]
    /\ offer \in [Pairs -> OfferState]
    /\ invite \in [Pairs -> InviteState]
    /\ recent \subseteq Pairs
    /\ offerMails \in [Pairs -> 0..2]
    /\ day \in 0..MaxDay
    /\ req \in [Workers -> Request \cup {Idle}]
    /\ charged \subseteq Pairs

Init ==
    /\ acct \in [Accounts -> {"unborn", "active"}]
    /\ member = {} /\ departed = {} /\ charged = {}
    /\ claimed = [o \in Orgs |-> 0]
    /\ cap \in [Orgs -> StartCaps]
    /\ codeOpen = [o \in Orgs |-> TRUE]
    /\ offer = [p \in Pairs |-> "none"]
    /\ invite = [p \in Pairs |-> "none"]
    /\ recent = {}
    /\ offerMails = [p \in Pairs |-> 0]
    /\ day = 0
    /\ req = [w \in Workers |-> Idle]

-----------------------------------------------------------------------------
(***************************************************************************)
(* Requests and their workers.                                             *)
(***************************************************************************)
Free(w) == req[w] = Idle
SomeFree == \E w \in Workers : Free(w)

At(w, stage, a, o) == req[w].at = stage /\ req[w].who = a /\ req[w].org = o

Begin(w, stage, a, o) ==
    req' = [req EXCEPT ![w] = [at |-> stage, who |-> a, org |-> o, left |-> {}]]
Finish(w) == req' = [req EXCEPT ![w] = Idle]

(***************************************************************************)
(* Row locks a transaction holds from its first statement: accept locks    *)
(* the offer row; leaveAll's departure inserts pin the users row.  The     *)
(* transactions that read nothing before they lock are single actions.     *)
(***************************************************************************)
\* Mutated form: the offer is read without FOR UPDATE.
OfferNotLocked(a, o) == FALSE

OfferLocked(a, o) == \E w \in Workers : At(w, "accept", a, o)

RowPinned(a) ==
    \E w \in Workers :
        /\ ~Free(w) /\ req[w].who = a
        /\ req[w].at = "accept" \/ (req[w].at = "leaveAll" /\ req[w].left # {})

-----------------------------------------------------------------------------
(***************************************************************************)
(* smr_redeem_code: one membership path, serialized by the code's row lock.*)
(***************************************************************************)
\* Mutated form: the limit is tested with > instead of >=.
SeatFreeOneOver(o) == cap[o] # NoLimit => claimed[o] <= cap[o]

SeatFree(o) == cap[o] # NoLimit => claimed[o] < cap[o]

Joinable(a, o) == codeOpen[o] /\ <<a, o>> \notin Barred \cup member

Returning(a, o) == Joinable(a, o) /\ <<a, o>> \in departed
NewSeat(a, o) == Joinable(a, o) /\ <<a, o>> \notin departed /\ SeatFree(o)

\* Mutated form: coming back counts a seat without looking at the limit.
TakeBackSeatPaying(a, o) ==
    /\ Returning(a, o)
    /\ member' = member \cup {<<a, o>>}
    /\ departed' = departed \ {<<a, o>>}
    /\ claimed' = [claimed EXCEPT ![o] = @ + 1]
    /\ UNCHANGED charged

\* Coming back: the departure row is traded for a membership, no seat is spent.
TakeBackSeat(a, o) ==
    /\ Returning(a, o)
    /\ member' = member \cup {<<a, o>>}
    /\ departed' = departed \ {<<a, o>>}
    /\ UNCHANGED <<claimed, charged>>

SpendSeat(a, o) ==
    /\ NewSeat(a, o)
    /\ member' = member \cup {<<a, o>>}
    /\ claimed' = [claimed EXCEPT ![o] = @ + 1]
    /\ charged' = charged \cup {<<a, o>>}
    /\ UNCHANGED departed

RedeemOk(a, o) == TakeBackSeat(a, o) \/ SpendSeat(a, o)

RedeemRefused(a, o) ==
    /\ ~Returning(a, o)
    /\ ~NewSeat(a, o)
    /\ UNCHANGED ledger

\* The answer 'already_member' (given only for an open code and no refusal).
SaysAlreadyMember(a, o) == codeOpen[o] /\ <<a, o>> \in member \ Barred

ElsewhereMember(a, o) == \E q \in Orgs \ {o} : <<a, q>> \in member

-----------------------------------------------------------------------------
(***************************************************************************)
(* A person's own ways in: a typed code (the hub's unlock has this shape   *)
(* too), and the attribution a page load makes when a cookie carries a     *)
(* code and the person is in no organization yet.                          *)
(***************************************************************************)
redeemAccessCode(a, o) ==
    /\ SomeFree /\ acct[a] = "active"
    /\ RedeemOk(a, o)
    /\ UNCHANGED <<acct, codes, lists, mail, req>>

ensureUserAttribution(w, a, o) ==
    /\ Free(w) /\ acct[a] = "active"
    /\ \A q \in Orgs : <<a, q>> \notin member
    /\ Begin(w, "attribute", a, o)
    /\ UNCHANGED <<acct, ledger, codes, lists, mail>>

AttributeRedeem(w, a, o) ==
    /\ At(w, "attribute", a, o)
    /\ RedeemOk(a, o) \/ RedeemRefused(a, o)
    /\ Finish(w)
    /\ UNCHANGED <<acct, codes, lists, mail>>

-----------------------------------------------------------------------------
(***************************************************************************)
(* smr_accept_seat_offer.  Its reads come first and lock only the offer    *)
(* row; smr_redeem_code and the two status writes end the transaction.     *)
(***************************************************************************)
MarkAccepted(a, o) ==
    /\ offer' = [offer EXCEPT ![<<a, o>>] = "accepted"]
    /\ invite' = [invite EXCEPT ![<<a, o>>] = IF @ = "offered" THEN "joined" ELSE @]
    /\ UNCHANGED recent

CanAnswer(a, o) ==
    /\ acct[a] = "active"
    /\ offer[<<a, o>>] = "pending"
    /\ ~OfferLocked(a, o)

AcceptAlreadyIn(a, o) ==
    /\ SomeFree /\ CanAnswer(a, o)
    /\ <<a, o>> \in member
    /\ MarkAccepted(a, o)
    /\ UNCHANGED <<acct, ledger, codes, mail, req>>

\* The 'other_org' answer changes nothing and is left out.
AcceptCheck(w, a, o) ==
    /\ Free(w) /\ CanAnswer(a, o)
    /\ <<a, o>> \notin member
    /\ ~ElsewhereMember(a, o)
    /\ Begin(w, "accept", a, o)
    /\ UNCHANGED <<acct, ledger, codes, lists, mail>>

AcceptRedeem(w, a, o) ==
    /\ At(w, "accept", a, o)
    /\ \/ RedeemOk(a, o) /\ MarkAccepted(a, o)
       \/ SaysAlreadyMember(a, o) /\ UNCHANGED ledger /\ MarkAccepted(a, o)
       \/ ~SaysAlreadyMember(a, o) /\ RedeemRefused(a, o) /\ UNCHANGED lists
    /\ Finish(w)
    /\ UNCHANGED <<acct, codes, mail>>

\* smr_decline_seat_offer: nothing is spent.
Decline(a, o) ==
    /\ SomeFree /\ CanAnswer(a, o)
    /\ offer' = [offer EXCEPT ![<<a, o>>] = "declined"]
    /\ invite' = [invite EXCEPT ![<<a, o>>] = IF @ = "offered" THEN "declined" ELSE @]
    /\ UNCHANGED <<acct, ledger, codes, recent, mail, req>>

-----------------------------------------------------------------------------
(***************************************************************************)
(* createOrgInvite.  Staff add a person by email.                          *)
(***************************************************************************)
Listed(a, o) ==
    \/ invite[<<a, o>>] \in {"offered", "declined"}
    \/ invite[<<a, o>>] = "plain" /\ acct[a] = "shell"

\* validateAccessCode: the fail-fast read before anything is written.
Valid(o) == codeOpen[o] /\ SeatFree(o)

\* No users row for the address: a shell is inserted, then a seat is claimed.
\* The address is unique, so a racing insert of the same person has no effect.
InviteNew(w, a, o) ==
    /\ Free(w) /\ acct[a] = "unborn"
    /\ Valid(o)
    /\ acct' = [acct EXCEPT ![a] = "shell"]
    /\ Begin(w, "claimNew", a, o)
    /\ UNCHANGED <<ledger, codes, lists, mail>>

\* Mutated form: an account in use is claimed like a shell (before 096).
InviteWithoutAsking(w, a, o) ==
    /\ Free(w) /\ acct[a] \in {"shell", "active"}
    /\ ~Listed(a, o)
    /\ \A q \in Orgs : <<a, q>> \notin member
    /\ Begin(w, "claim", a, o)
    /\ UNCHANGED <<acct, ledger, codes, lists, mail>>

\* The account exists: the list, smr_invite_binding and the pending test are
\* read, and decide between claiming now (a shell) and asking (in use).
InviteCheck(w, a, o) ==
    /\ Free(w) /\ acct[a] \in {"shell", "active"}
    /\ ~Listed(a, o)
    /\ \A q \in Orgs : <<a, q>> \notin member
    /\ \/ acct[a] = "shell" /\ Begin(w, "claim", a, o)
       \/ acct[a] = "active" /\ Valid(o) /\ Begin(w, "offer", a, o)
    /\ UNCHANGED <<acct, ledger, codes, lists, mail>>

InviteClaim(w, a, o) ==
    /\ At(w, "claim", a, o) \/ At(w, "claimNew", a, o)
    /\ \/ RedeemOk(a, o) /\ Begin(w, "list", a, o)
       \/ /\ RedeemRefused(a, o)
          /\ IF req[w].at = "claimNew" THEN Begin(w, "rollback", a, o) ELSE Finish(w)
    /\ UNCHANGED <<acct, codes, lists, mail>>

\* The rows that reference users with ON DELETE CASCADE go with it.
\* access_code_redemption has no such reference: its rows stay.
DropAccount(a) ==
    LET gone == {a} \X Orgs
    IN  /\ acct' = [acct EXCEPT ![a] = "gone"]
        /\ departed' = departed \ gone
        /\ offer' = [p \in Pairs |-> IF p \in gone THEN "none" ELSE offer[p]]
        /\ invite' = [p \in Pairs |-> IF p \in gone THEN "none" ELSE invite[p]]
        /\ recent' = recent \ gone
        /\ UNCHANGED <<member, claimed, charged>>

InviteRollback(w, a, o) ==
    /\ At(w, "rollback", a, o)
    /\ ~RowPinned(a)
    /\ DropAccount(a)
    /\ Finish(w)
    /\ UNCHANGED <<codes, mail>>

\* The org_invite row, then the magic-link email.  A users row that is gone
\* fails the foreign key and ends the request with an error.
InviteList(w, a, o) ==
    /\ At(w, "list", a, o)
    /\ Finish(w)
    /\ IF acct[a] = "gone" THEN UNCHANGED <<invite, recent>>
       ELSE /\ invite' = [invite EXCEPT ![<<a, o>>] = IF @ = "none" THEN "plain" ELSE @]
            /\ recent' = recent \cup {<<a, o>>}
    /\ UNCHANGED <<acct, ledger, codes, offer, offerMails, day>>

\* Mutated form: the list's word is written where the offer's status goes.
createListedOffer(a, o) == offer' = [offer EXCEPT ![<<a, o>>] = "offered"]

\* createSeatOffer with no window: refused only while one is open.
createSeatOffer(a, o) ==
    offer' = [offer EXCEPT ![<<a, o>>] = IF acct[a] = "gone" THEN @ ELSE "pending"]

InviteOffer(w, a, o) ==
    /\ At(w, "offer", a, o)
    /\ createSeatOffer(a, o)
    /\ \/ acct[a] = "gone" /\ Finish(w)
       \/ acct[a] # "gone" /\ offer[<<a, o>>] = "pending" /\ Begin(w, "relist", a, o)
       \/ acct[a] # "gone" /\ offer[<<a, o>>] # "pending" /\ Begin(w, "relistFresh", a, o)
    /\ UNCHANGED <<acct, ledger, codes, invite, recent, mail>>

SendOfferEmail(a, o) ==
    /\ offerMails' = [offerMails EXCEPT ![<<a, o>>] = IF @ = 2 THEN 2 ELSE @ + 1]
    /\ UNCHANGED day

\* OFFER_RELIST_SQL, then the email: only for a newly written offer, and only
\* when this statement moved last_sent_at.
InviteRelist(w, a, o) ==
    /\ At(w, "relist", a, o) \/ At(w, "relistFresh", a, o)
    /\ Finish(w)
    /\ IF acct[a] = "gone" THEN UNCHANGED <<invite, recent, mail>>
       ELSE /\ invite' = [invite EXCEPT ![<<a, o>>] = "offered"]
            /\ recent' = recent \cup {<<a, o>>}
            /\ IF req[w].at = "relistFresh" /\ <<a, o>> \notin recent
               THEN SendOfferEmail(a, o)
               ELSE UNCHANGED mail
    /\ UNCHANGED <<acct, ledger, codes, offer>>

-----------------------------------------------------------------------------
(***************************************************************************)
(* touchOrgInviteResend: the window is tested inside the write.            *)
(***************************************************************************)
ResendInvite(a, o) ==
    /\ SomeFree
    /\ invite[<<a, o>>] = "plain" /\ acct[a] = "shell"
    /\ <<a, o>> \notin recent
    /\ recent' = recent \cup {<<a, o>>}
    /\ UNCHANGED <<acct, ledger, codes, offer, invite, offerMails, day, req>>

\* Mutated form: the window is not tested inside the write.
ResendAnyTime(w, a, o) ==
    /\ Free(w)
    /\ invite[<<a, o>>] \in {"offered", "declined"}
    /\ recent' = recent \cup {<<a, o>>}
    /\ invite' = [invite EXCEPT ![<<a, o>>] = "offered"]
    /\ Begin(w, "reopen", a, o)
    /\ UNCHANGED <<acct, ledger, codes, offer, mail>>

ResendTouch(w, a, o) ==
    /\ Free(w)
    /\ invite[<<a, o>>] \in {"offered", "declined"}
    /\ <<a, o>> \notin recent
    /\ recent' = recent \cup {<<a, o>>}
    /\ invite' = [invite EXCEPT ![<<a, o>>] = "offered"]
    /\ Begin(w, "reopen", a, o)
    /\ UNCHANGED <<acct, ledger, codes, offer, mail>>

ResendOffer(w, a, o) ==
    /\ At(w, "reopen", a, o)
    /\ createSeatOffer(a, o)
    /\ IF acct[a] = "gone" THEN UNCHANGED mail ELSE SendOfferEmail(a, o)
    /\ Finish(w)
    /\ UNCHANGED <<acct, ledger, codes, invite, recent>>

(***************************************************************************)
(* revokeOrgInvite.  It reads the list row and the pending test first.  A  *)
(* never-opened invite: one statement then frees the seat and drops the    *)
(* row; of what was read it asks again only that nobody has signed in.  An *)
(* offer: the withdraw function, then a write that takes the row off the   *)
(* list.                                                                   *)
(***************************************************************************)
RevokeSees(w, a, o) ==
    /\ Free(w)
    /\ invite[<<a, o>>] = "plain" /\ acct[a] = "shell"
    /\ Begin(w, "free", a, o)
    /\ UNCHANGED <<acct, ledger, codes, lists, mail>>

\* Mutated form: a seat is refunded whether or not the delete removed one.
FreeSeatUncounted(a, o) ==
    /\ claimed' = [claimed EXCEPT ![o] = IF @ >= 1 THEN @ - 1 ELSE 0]
    /\ member' = member \ {<<a, o>>}
    /\ charged' = charged \ ({<<a, o>>} \cap member)
    /\ invite' = [invite EXCEPT ![<<a, o>>] = "none"]
    /\ recent' = recent \ {<<a, o>>}
    /\ UNCHANGED departed

\* The seats refunded are the memberships this very statement deleted.
FreeSeat(a, o) ==
    /\ LET freed == IF <<a, o>> \in member THEN 1 ELSE 0
       IN  claimed' = [claimed EXCEPT ![o] = IF @ >= freed THEN @ - freed ELSE 0]
    /\ member' = member \ {<<a, o>>}
    /\ charged' = charged \ ({<<a, o>>} \cap member)
    /\ invite' = [invite EXCEPT ![<<a, o>>] = "none"]
    /\ recent' = recent \ {<<a, o>>}
    /\ UNCHANGED departed

RevokeInvite(w, a, o) ==
    /\ At(w, "free", a, o)
    /\ IF acct[a] = "shell" THEN FreeSeat(a, o) ELSE UNCHANGED <<ledger, invite, recent>>
    /\ Finish(w)
    /\ UNCHANGED <<acct, codes, offer, mail>>

RevokeOffer(w, a, o) ==
    /\ Free(w)
    /\ invite[<<a, o>>] \in {"offered", "declined"}
    /\ ~OfferLocked(a, o)
    /\ IF offer[<<a, o>>] = "pending"
       THEN /\ offer' = [offer EXCEPT ![<<a, o>>] = "withdrawn"]
            /\ invite' = [invite EXCEPT ![<<a, o>>] = IF @ = "offered" THEN "withdrawn" ELSE @]
       ELSE UNCHANGED <<offer, invite>>
    /\ Begin(w, "unlist", a, o)
    /\ UNCHANGED <<acct, ledger, codes, recent, mail>>

RevokeUnlist(w, a, o) ==
    /\ At(w, "unlist", a, o)
    /\ invite' = [invite EXCEPT ![<<a, o>>] =
                    IF @ \in {"offered", "declined"} THEN "withdrawn" ELSE @]
    /\ Finish(w)
    /\ UNCHANGED <<acct, ledger, codes, offer, recent, mail>>

-----------------------------------------------------------------------------
(***************************************************************************)
(* Leaving.  smr_leave_org is one transaction.  smr_leave_all_orgs records *)
(* the departures it sees first and deletes the memberships last.          *)
(***************************************************************************)
\* Mutated form: leaving hands the seat back.
LeaveOrgRefunding(a, o) ==
    /\ SomeFree /\ acct[a] = "active"
    /\ <<a, o>> \in member
    /\ member' = member \ {<<a, o>>}
    /\ departed' = departed \cup {<<a, o>>}
    /\ claimed' = [claimed EXCEPT ![o] = @ - 1]
    /\ UNCHANGED <<acct, charged, codes, lists, mail, req>>

\* Mutated form: the departure is not recorded.
LeaveOrgForgotten(a, o) ==
    /\ SomeFree /\ acct[a] = "active"
    /\ <<a, o>> \in member
    /\ member' = member \ {<<a, o>>}
    /\ UNCHANGED <<acct, departed, claimed, charged, codes, lists, mail, req>>

LeaveOrg(a, o) ==
    /\ SomeFree /\ acct[a] = "active"
    /\ <<a, o>> \in member
    /\ member' = member \ {<<a, o>>}
    /\ departed' = departed \cup {<<a, o>>}
    /\ UNCHANGED <<acct, claimed, charged, codes, lists, mail, req>>

EraseData(w, a, o) ==
    /\ Free(w) /\ acct[a] = "active"
    /\ req' = [req EXCEPT ![w] = [at |-> "leaveAll", who |-> a, org |-> o,
                                  left |-> {q \in Orgs : <<a, q>> \in member}]]
    /\ UNCHANGED <<acct, ledger, codes, lists, mail>>

LeaveAll(w, a, o) ==
    /\ At(w, "leaveAll", a, o)
    /\ member' = member \ ({a} \X Orgs)
    /\ departed' = departed \cup ({a} \X req[w].left)
    /\ \/ Finish(w)                              \* data only
       \/ Begin(w, "eraseAccount", a, o)         \* deleteAccount
    /\ UNCHANGED <<acct, claimed, charged, codes, lists, mail>>

EraseAccount(w, a, o) ==
    /\ At(w, "eraseAccount", a, o)
    /\ ~RowPinned(a)
    /\ DropAccount(a)
    /\ Finish(w)
    /\ UNCHANGED <<codes, mail>>

-----------------------------------------------------------------------------
(***************************************************************************)
(* The platform admin, the clock, a first sign-in, and a dying instance.   *)
(***************************************************************************)
addOrgSeats(o) ==
    /\ SomeFree
    /\ cap[o] # NoLimit /\ cap[o] < MaxCap
    /\ cap' = [cap EXCEPT ![o] = @ + 1]
    /\ UNCHANGED <<acct, ledger, codeOpen, lists, mail, req>>

CloseOrReopen(o) ==
    /\ SomeFree
    /\ codeOpen' = [codeOpen EXCEPT ![o] = ~@]
    /\ UNCHANGED <<acct, ledger, cap, lists, mail, req>>

SignIn(a) ==
    /\ SomeFree /\ acct[a] = "shell"
    /\ acct' = [acct EXCEPT ![a] = "active"]
    /\ UNCHANGED <<ledger, codes, lists, mail, req>>

\* A request is short beside a day: none spans the day's turn.
DayPasses ==
    /\ \A w \in Workers : Free(w)
    /\ day < MaxDay
    /\ day' = day + 1
    /\ recent' = {}
    /\ offerMails' = [p \in Pairs |-> 0]
    /\ UNCHANGED <<acct, ledger, codes, offer, invite, req>>

Crash(w) ==
    /\ CanCrash /\ ~Free(w)
    /\ Finish(w)
    /\ UNCHANGED <<acct, ledger, codes, lists, mail>>

-----------------------------------------------------------------------------
PersonStep(w, a, o) ==
    \/ ensureUserAttribution(w, a, o)
    \/ AttributeRedeem(w, a, o)
    \/ AcceptCheck(w, a, o)
    \/ AcceptRedeem(w, a, o)
    \/ EraseData(w, a, o)
    \/ LeaveAll(w, a, o)
    \/ EraseAccount(w, a, o)

StaffStep(w, a, o) ==
    \/ InviteNew(w, a, o)
    \/ InviteCheck(w, a, o)
    \/ InviteClaim(w, a, o)
    \/ InviteRollback(w, a, o)
    \/ InviteList(w, a, o)
    \/ InviteOffer(w, a, o)
    \/ InviteRelist(w, a, o)
    \/ ResendTouch(w, a, o)
    \/ ResendOffer(w, a, o)
    \/ RevokeSees(w, a, o)
    \/ RevokeInvite(w, a, o)
    \/ RevokeOffer(w, a, o)
    \/ RevokeUnlist(w, a, o)

OneTransaction(a, o) ==
    \/ redeemAccessCode(a, o)
    \/ AcceptAlreadyIn(a, o)
    \/ Decline(a, o)
    \/ ResendInvite(a, o)
    \/ LeaveOrg(a, o)

Next ==
    \/ \E w \in Workers, a \in Accounts, o \in Orgs :
          PersonStep(w, a, o) \/ StaffStep(w, a, o)
    \/ \E a \in Accounts, o \in Orgs : OneTransaction(a, o)
    \/ \E o \in Orgs : addOrgSeats(o) \/ CloseOrReopen(o)
    \/ \E a \in Accounts : SignIn(a)
    \/ \E w \in Workers : Crash(w)
    \/ DayPasses

Spec == Init /\ [][Next]_vars

-----------------------------------------------------------------------------
(***************************************************************************)
(* What makes the seats right.                                             *)
(***************************************************************************)

\* An organization never spends more seats than it bought, however many
\* joins, invites and accepts run at once (smr_redeem_code's row lock).
SeatCap == \A o \in Orgs : cap[o] # NoLimit => claimed[o] <= cap[o]

Holders(o) == {a \in Accounts : <<a, o>> \in member \cup departed}

\* Every current or former member spent a seat: the counter never says fewer
\* seats are used than people hold one (orgSeatsShared, "claimed can never be
\* below active"), through refunds, returns, rollbacks and crashes.
LedgerCovers == \A o \in Orgs : Cardinality(Holders(o)) <= claimed[o]

Payers(o) == {a \in Accounts : <<a, o>> \in charged}

\* Nobody is a member and departed at once, and each of them paid.
HoldersPaid ==
    /\ member \cap departed = {}
    /\ member \cup departed \subseteq charged

CountCoversPayers == \A o \in Orgs : Cardinality(Payers(o)) <= claimed[o]

\* A leave-all in flight has seen only paid seats, of an account still in use.
LeaversPaid ==
    \A w \in Workers : req[w].at = "leaveAll" /\ req[w].left # {} =>
        /\ acct[req[w].who] = "active"
        /\ {req[w].who} \X req[w].left \subseteq charged

\* The books behind LedgerCovers: what a leave-all read before its delete
\* is still owed when it writes the departures, because its row locks keep
\* the account and its paid seats in place (smr_leave_all_orgs).
SeatBooks == HoldersPaid /\ CountCoversPayers /\ LeaversPaid

\* Seats are durable: the counter goes down only when the membership of a
\* person who never signed in is removed with it, one seat for one person.
DurableSeats ==
    [][\A o \in Orgs : claimed'[o] < claimed[o] =>
          /\ claimed'[o] = claimed[o] - 1
          /\ \E a \in Accounts : acct[a] = "shell" /\ <<a, o>> \in member \ member']_vars

\* A person who left and comes back takes back the seat they already used,
\* by whichever door they return and even when the pool is full.
ReturnIsFree ==
    [][\A a \in Accounts, o \in Orgs :
          <<a, o>> \in departed \cap (member' \ member) => claimed'[o] = claimed[o]]_vars

\* A yes spends a seat only while the offer is still open: a decline or the
\* organization's withdrawal cannot slip under an accept that has started.
SeatOnlyForOpenOffer ==
    [][\A w \in Workers, a \in Accounts, o \in Orgs :
          AcceptRedeem(w, a, o) /\ <<a, o>> \in member' \ member
             => offer[<<a, o>>] = "pending" /\ offer'[<<a, o>>] = "accepted"]_vars

\* One offer email per person per organization per day, whatever staff add,
\* withdraw, re-add and resend, and however many of them at once.
OneOfferEmailADay == \A p \in Pairs : offerMails[p] <= 1

\* The database counter implements the ledger the organization is promised.
Ledger == INSTANCE SeatLedger WITH holders <- charged
LedgerSpec == Ledger!Spec

(***************************************************************************)
(* What holds while one request runs at a time, and not when two overlap.  *)
(***************************************************************************)

\* Nobody is charged two seats of one organization: the counter is exactly
\* the number of people charged and not refunded (096, "leave and re-join
\* drains a pool one seat per click").
SeatsMatchPeople ==
    \A o \in Orgs : claimed[o] = Cardinality(Payers(o))

\* An account in use is attached only by its owner's own yes: a code they
\* carried or an offer they accepted, never by staff adding them.
ConsentOnAttach ==
    [][\A a \in Accounts, o \in Orgs :
          <<a, o>> \in member' \ member /\ acct[a] = "active"
             => \/ redeemAccessCode(a, o)
                \/ \E w \in Workers : AttributeRedeem(w, a, o) \/ AcceptRedeem(w, a, o)]_vars

=============================================================================
