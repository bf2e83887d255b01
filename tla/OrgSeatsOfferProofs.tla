------------------------ MODULE OrgSeatsOfferProofs ------------------------
(***************************************************************************)
(* Proofs about the offers of OrgSeats: what an accept in flight may count *)
(* on, and what keeps a second offer email out of a day.                   *)
(***************************************************************************)
EXTENDS OrgSeatsProofs

(***************************************************************************)
(* An accept in flight holds its offer: the offer is open, and the accept  *)
(* is the only one that holds it.                                          *)
(***************************************************************************)
AcceptHolds ==
    \A w \in Workers, a \in Accounts, o \in Orgs : At(w, "accept", a, o) =>
        /\ offer[<<a, o>>] = "pending"
        /\ \A v \in Workers \ {w} : ~At(v, "accept", a, o)

\* What a step that begins no accept does to the offers: those an accept
\* holds stay as they are.
HeldStay ==
    /\ \A w \in Workers, a \in Accounts, o \in Orgs :
          At(w, "accept", a, o)' => At(w, "accept", a, o)
    /\ \A w \in Workers, a \in Accounts, o \in Orgs :
          At(w, "accept", a, o)' /\ offer[<<a, o>>] = "pending"
             => offer'[<<a, o>>] = "pending"

LEMMA HeldStayKeeps == AcceptHolds /\ HeldStay => AcceptHolds'
  <1> SUFFICES ASSUME AcceptHolds, HeldStay,
                      NEW w \in Workers, NEW a \in Accounts, NEW o \in Orgs,
                      At(w, "accept", a, o)'
               PROVE  /\ offer'[<<a, o>>] = "pending"
                      /\ \A v \in Workers \ {w} : ~At(v, "accept", a, o)'
    BY DEF AcceptHolds
  <1>1. At(w, "accept", a, o)
    BY DEF HeldStay
  <1>2. offer[<<a, o>>] = "pending" /\ \A v \in Workers \ {w} : ~At(v, "accept", a, o)
    BY <1>1 DEF AcceptHolds
  <1> QED BY <1>2 DEF HeldStay

\* Beginning something else, or ending, begins no accept.
LEMMA BeginNoAccept ==
    ASSUME req \in Requests, NEW w \in Workers, NEW b \in Accounts, NEW q \in Orgs,
           NEW stage \in Stages \ {"accept"}, Begin(w, stage, b, q) \/ Finish(w)
    PROVE  \A v \in Workers, a \in Accounts, o \in Orgs :
              At(v, "accept", a, o)' => At(v, "accept", a, o) /\ v # w
  BY DEF Begin, Finish, Requests, At, Idle

LEMMA AcceptHoldsPerson ==
    ASSUME TypeOK, AcceptHolds, NEW w \in Workers, NEW a \in Accounts, NEW o \in Orgs,
           PersonStep(w, a, o)
    PROVE  AcceptHolds'
  <1>t. req \in Requests /\ <<a, o>> \in Pairs /\ offer \in [Pairs -> OfferState]
    BY DEF TypeOK, Requests, Pairs
  <1> USE DEF lists
  <1>1. CASE ensureUserAttribution(w, a, o)
    BY <1>1, <1>t, BeginNoAccept, HeldStayKeeps DEF ensureUserAttribution, HeldStay, Stages
  <1>2. CASE AttributeRedeem(w, a, o)
    <2>1. "list" \in Stages \ {"accept"}
      BY DEF Stages
    <2> QED BY <1>2, <2>1, <1>t, BeginNoAccept, HeldStayKeeps DEF AttributeRedeem, HeldStay
  <1>3. CASE AcceptCheck(w, a, o)
    <2>1. offer' = offer /\ offer[<<a, o>>] = "pending"
          /\ \A v \in Workers : ~At(v, "accept", a, o)
      BY <1>3 DEF AcceptCheck, CanAnswer, OfferLocked
    <2>2. req' = [req EXCEPT ![w] = [at |-> "accept", who |-> a, org |-> o, left |-> {}]]
      BY <1>3 DEF AcceptCheck, Begin
    <2>3. ASSUME NEW v \in Workers, NEW b \in Accounts, NEW q \in Orgs, At(v, "accept", b, q)'
          PROVE  (v = w /\ b = a /\ q = o) \/ (v # w /\ At(v, "accept", b, q))
      BY <2>2, <2>3, <1>t DEF At, Requests
    <2> QED BY <2>1, <2>3 DEF AcceptHolds
  <1>4. CASE AcceptRedeem(w, a, o)
    <2>1. At(w, "accept", a, o) /\ Finish(w)
      BY <1>4 DEF AcceptRedeem
    <2>2. \A v \in Workers, b \in Accounts, q \in Orgs :
             At(v, "accept", b, q)' => At(v, "accept", b, q) /\ <<b, q>> # <<a, o>>
      <3>1. "list" \in Stages \ {"accept"}
        BY DEF Stages
      <3> QED BY <2>1, <3>1, <1>t, BeginNoAccept DEF AcceptHolds
    <2>3. \A p \in Pairs \ {<<a, o>>} : offer'[p] = offer[p]
      BY <1>4, <1>t DEF AcceptRedeem, MarkAccepted
    <2> QED BY <2>2, <2>3, HeldStayKeeps DEF HeldStay, Pairs
  <1>5. CASE EraseData(w, a, o)
    <2>1. \A v \in Workers, b \in Accounts, q \in Orgs :
             At(v, "accept", b, q)' => At(v, "accept", b, q)
      BY <1>5, <1>t DEF EraseData, At, Requests
    <2> QED BY <1>5, <2>1, HeldStayKeeps DEF EraseData, HeldStay
  <1>6. CASE LeaveAll(w, a, o)
    <2>1. "eraseAccount" \in Stages \ {"accept"}
      BY DEF Stages
    <2> QED BY <1>6, <2>1, <1>t, BeginNoAccept, HeldStayKeeps DEF LeaveAll, HeldStay
  <1>7. CASE EraseAccount(w, a, o)
    <2>1. "list" \in Stages \ {"accept"}
      BY DEF Stages
    <2>2. \A v \in Workers, b \in Accounts, q \in Orgs :
             At(v, "accept", b, q)' => At(v, "accept", b, q) /\ b # a
      BY <1>7, <2>1, <1>t, BeginNoAccept
         DEF EraseAccount, RowPinned, At, Free, Idle
    <2> QED BY <1>7, <2>2, HeldStayKeeps DEF EraseAccount, DropAccount, HeldStay, Pairs
  <1> QED BY <1>1, <1>2, <1>3, <1>4, <1>5, <1>6, <1>7 DEF PersonStep

LEMMA AcceptHoldsStaff ==
    ASSUME TypeOK, AcceptHolds, NEW w \in Workers, NEW a \in Accounts, NEW o \in Orgs,
           StaffStep(w, a, o)
    PROVE  AcceptHolds'
  <1>t. req \in Requests /\ <<a, o>> \in Pairs /\ offer \in [Pairs -> OfferState]
    BY DEF TypeOK, Requests, Pairs
  <1>b. \A v \in Workers, b \in Accounts, q \in Orgs :
           At(v, "accept", b, q)' => At(v, "accept", b, q) /\ v # w
    <2>1. \/ Finish(w)
          \/ \E stage \in Stages \ {"accept"} : Begin(w, stage, a, o)
      BY DEF StaffStep, InviteNew, InviteCheck, InviteClaim, InviteRollback, InviteList,
             InviteOffer, InviteRelist, ResendTouch, ResendOffer, RevokeSees, RevokeInvite,
             RevokeOffer, RevokeUnlist, Stages
    <2>2. "list" \in Stages \ {"accept"}
      BY DEF Stages
    <2> QED BY <2>1, <2>2, <1>t, BeginNoAccept
  <1>1. CASE offer' = offer
    BY <1>1, <1>b, HeldStayKeeps DEF HeldStay
  <1>2. CASE InviteRollback(w, a, o)
    <2>1. \A v \in Workers, q \in Orgs : ~At(v, "accept", a, q)
      BY <1>2 DEF InviteRollback, RowPinned, At, Free, Idle
    <2> QED BY <1>2, <1>b, <2>1, HeldStayKeeps DEF InviteRollback, DropAccount, HeldStay, Pairs
  <1>3. CASE createSeatOffer(a, o)
    BY <1>3, <1>b, <1>t, HeldStayKeeps DEF createSeatOffer, HeldStay, Pairs
  <1>4. CASE RevokeOffer(w, a, o)
    <2>1. \A v \in Workers : ~At(v, "accept", a, o)
      BY <1>4 DEF RevokeOffer, OfferLocked
    <2>2. \A p \in Pairs \ {<<a, o>>} : offer'[p] = offer[p]
      BY <1>4, <1>t DEF RevokeOffer
    <2> QED BY <1>b, <2>1, <2>2, HeldStayKeeps DEF HeldStay, Pairs
  <1> QED
    BY <1>1, <1>2, <1>3, <1>4
       DEF StaffStep, InviteNew, InviteCheck, InviteClaim, InviteList, InviteOffer,
           InviteRelist, ResendTouch, ResendOffer, RevokeSees, RevokeInvite, RevokeUnlist,
           lists

LEMMA AcceptHoldsStep == TypeOK /\ AcceptHolds /\ [Next]_vars => AcceptHolds'
  <1> SUFFICES ASSUME TypeOK, AcceptHolds, [Next]_vars PROVE AcceptHolds'
    OBVIOUS
  <1>t. req \in Requests /\ offer \in [Pairs -> OfferState]
    BY DEF TypeOK, Requests
  <1> USE DEF lists
  <1>1. ASSUME NEW a \in Accounts, NEW o \in Orgs, OneTransaction(a, o) PROVE AcceptHolds'
    <2>1. req' = req
      BY <1>1 DEF OneTransaction, redeemAccessCode, AcceptAlreadyIn, Decline, ResendInvite,
                  LeaveOrg
    <2>2. CASE offer' = offer
      BY <2>1, <2>2, HeldStayKeeps DEF HeldStay, At
    <2>3. CASE CanAnswer(a, o) /\ \A p \in Pairs \ {<<a, o>>} : offer'[p] = offer[p]
      BY <2>1, <2>3, HeldStayKeeps DEF HeldStay, At, CanAnswer, OfferLocked, Pairs
    <2> QED
      BY <1>1, <1>t, <2>2, <2>3
         DEF OneTransaction, redeemAccessCode, AcceptAlreadyIn, MarkAccepted, Decline,
             ResendInvite, LeaveOrg
  <1>2. ASSUME NEW w \in Workers, Crash(w) PROVE AcceptHolds'
    <2>1. \A v \in Workers, b \in Accounts, q \in Orgs :
             At(v, "accept", b, q)' => At(v, "accept", b, q)
      BY <1>2, <1>t DEF Crash, Finish, At, Requests, Idle
    <2> QED BY <1>2, <2>1, HeldStayKeeps DEF Crash, HeldStay
  <1>3. CASE UNCHANGED <<offer, req>>
    BY <1>3, HeldStayKeeps DEF HeldStay, At
  <1> QED
    BY <1>1, <1>2, <1>3, AcceptHoldsPerson, AcceptHoldsStaff
       DEF Next, addOrgSeats, CloseOrReopen, SignIn, DayPasses, vars

LEMMA AcceptHoldsAlways == Spec => []AcceptHolds
  <1>1. Init => AcceptHolds
    BY DEF Init, AcceptHolds, At, Idle
  <1> QED BY <1>1, AcceptHoldsStep, TypeCorrect, PTL DEF Spec

(***************************************************************************)
(* A yes spends a seat only while the offer is open: no decline, no        *)
(* withdrawal, no second yes and no erased account slips under an accept   *)
(* that has started (SELECT ... FOR UPDATE in smr_accept_seat_offer).      *)
(***************************************************************************)
THEOREM YesNeedsOpenOffer == Spec => SeatOnlyForOpenOffer
  <1>1. ASSUME TypeOK, AcceptHolds, NEW w \in Workers, NEW a \in Accounts, NEW o \in Orgs,
               AcceptRedeem(w, a, o), <<a, o>> \in member' \ member
        PROVE  offer[<<a, o>>] = "pending" /\ offer'[<<a, o>>] = "accepted"
    <2>1. offer[<<a, o>>] = "pending"
      BY <1>1 DEF AcceptRedeem, AcceptHolds
    <2>2. MarkAccepted(a, o)
      BY <1>1 DEF AcceptRedeem, RedeemRefused, ledger
    <2>3. <<a, o>> \in Pairs /\ offer \in [Pairs -> OfferState]
      BY <1>1 DEF TypeOK, Pairs
    <2> QED BY <2>1, <2>2, <2>3 DEF MarkAccepted
  <1>2. TypeOK /\ AcceptHolds /\ [Next]_vars
          => [\A w \in Workers, a \in Accounts, o \in Orgs :
                AcceptRedeem(w, a, o) /\ <<a, o>> \in member' \ member
                  => offer[<<a, o>>] = "pending" /\ offer'[<<a, o>>] = "accepted"]_vars
    BY <1>1
  <1> QED BY <1>2, TypeCorrect, AcceptHoldsAlways, PTL DEF Spec, SeatOnlyForOpenOffer

-----------------------------------------------------------------------------
(***************************************************************************)
(* One offer email a day.  The send clock (last_sent_at) is moved before   *)
(* or with the email and never cleared under an account in use, so an      *)
(* email sent leaves the window closed behind it.                          *)
(***************************************************************************)
InUse == {"active", "gone"}
Asking == {"offer", "relist", "relistFresh", "reopen"}

\* An email belongs to an account that has signed in and, until that account
\* is erased, to a send clock that has been moved.
EmailsAreTimed ==
    \A a \in Accounts, o \in Orgs : offerMails[<<a, o>>] # 0 =>
        /\ offerMails[<<a, o>>] = 1
        /\ acct[a] \in InUse
        /\ acct[a] = "gone" \/ <<a, o>> \in recent

\* The list says "offered" of accounts in use only, and only they are asked.
OffersAreToUsers ==
    /\ \A a \in Accounts, o \in Orgs :
          invite[<<a, o>>] \in {"offered", "declined"} => acct[a] = "active"
    /\ \A w \in Workers, a \in Accounts, o \in Orgs, stage \in Asking :
          At(w, stage, a, o) => acct[a] \in InUse

\* A resend between its two writes has the window to itself.
ResendAlone ==
    \A w \in Workers, a \in Accounts, o \in Orgs :
        At(w, "reopen", a, o) /\ acct[a] # "gone" =>
            /\ <<a, o>> \in recent
            /\ offerMails[<<a, o>>] = 0
            /\ \A v \in Workers \ {w} : ~At(v, "reopen", a, o)

MailInv == EmailsAreTimed /\ OffersAreToUsers /\ ResendAlone

\* A step that sends nothing and starts no resend: accounts in use stay in
\* use, the clock of an account in use is not cleared, no offer is listed
\* and no one asked but an account in use.
SendsNothing ==
    /\ offerMails' = offerMails
    /\ \A a \in Accounts : acct[a] \in InUse => acct'[a] \in InUse
    /\ \A a \in Accounts : acct[a] = "gone" => acct'[a] = "gone"
    /\ \A a \in Accounts, o \in Orgs :
          acct[a] \in InUse /\ <<a, o>> \in recent => <<a, o>> \in recent' \/ acct'[a] = "gone"
    /\ \A a \in Accounts, o \in Orgs :
          invite'[<<a, o>>] \in {"offered", "declined"} => acct'[a] = "active"
    /\ \A w \in Workers, a \in Accounts, o \in Orgs, stage \in Asking :
          At(w, stage, a, o)' => acct'[a] \in InUse
    /\ \A w \in Workers, a \in Accounts, o \in Orgs :
          At(w, "reopen", a, o)' => At(w, "reopen", a, o)

LEMMA SendsNothingKeeps == MailInv /\ SendsNothing => MailInv'
  <1> SUFFICES ASSUME MailInv, SendsNothing PROVE MailInv'
    OBVIOUS
  <1>1. EmailsAreTimed'
    BY DEF MailInv, EmailsAreTimed, SendsNothing
  <1>2. OffersAreToUsers'
    BY DEF SendsNothing, OffersAreToUsers
  <1>3. ASSUME NEW w \in Workers, NEW a \in Accounts, NEW o \in Orgs,
               At(w, "reopen", a, o)', acct'[a] # "gone"
        PROVE  /\ <<a, o>> \in recent'
               /\ offerMails'[<<a, o>>] = 0
               /\ \A v \in Workers \ {w} : ~At(v, "reopen", a, o)'
    <2>1. At(w, "reopen", a, o) /\ acct[a] # "gone"
      BY <1>3 DEF SendsNothing
    <2>2. acct[a] \in InUse
      BY <2>1 DEF MailInv, OffersAreToUsers, Asking
    <2>3. /\ <<a, o>> \in recent /\ offerMails[<<a, o>>] = 0
          /\ \A v \in Workers \ {w} : ~At(v, "reopen", a, o)
      BY <2>1 DEF MailInv, ResendAlone
    <2> QED BY <1>3, <2>2, <2>3 DEF SendsNothing
  <1> QED BY <1>1, <1>2, <1>3 DEF MailInv, ResendAlone

\* What a request becomes when worker w turns to another stage or ends.
LEMMA TurnTo ==
    ASSUME req \in Requests, NEW w \in Workers, NEW b \in Accounts, NEW q \in Orgs,
           NEW stage \in Stages, Begin(w, stage, b, q)
    PROVE  \A v \in Workers, a \in Accounts, o \in Orgs, s \in Stages :
              At(v, s, a, o)' => \/ v # w /\ At(v, s, a, o)
                                 \/ v = w /\ s = stage /\ a = b /\ o = q
  BY DEF Begin, Requests, At

LEMMA TurnIdle ==
    ASSUME req \in Requests, NEW w \in Workers, Finish(w)
    PROVE  \A v \in Workers, a \in Accounts, o \in Orgs, s \in Stages :
              At(v, s, a, o)' => v # w /\ At(v, s, a, o)
  BY DEF Finish, Requests, At, Idle, Stages

\* A request turning to a stage that asks nobody, or ending.
LEMMA TurnQuiet ==
    ASSUME req \in Requests, NEW w \in Workers, NEW b \in Accounts, NEW q \in Orgs,
           Finish(w) \/ \E stage \in Stages \ Asking : Begin(w, stage, b, q)
    PROVE  \A v \in Workers, a \in Accounts, o \in Orgs, s \in Asking :
              At(v, s, a, o)' => At(v, s, a, o)
  <1>1. Asking \subseteq Stages
    BY DEF Asking, Stages
  <1>2. CASE Finish(w)
    BY <1>1, <1>2, TurnIdle
  <1>3. ASSUME NEW stage \in Stages \ Asking, Begin(w, stage, b, q)
        PROVE  \A v \in Workers, a \in Accounts, o \in Orgs, s \in Asking :
                  At(v, s, a, o)' => At(v, s, a, o)
    BY <1>1, <1>3, TurnTo
  <1> QED BY <1>2, <1>3

\* A step that leaves accounts, list and mail alone and asks nobody new.
LEMMA SameMail ==
    ASSUME MailInv, UNCHANGED <<acct, invite, recent, offerMails>>,
           \A v \in Workers, a \in Accounts, o \in Orgs, s \in Asking :
              At(v, s, a, o)' => At(v, s, a, o)
    PROVE  MailInv'
  <1>1. SendsNothing
    BY DEF MailInv, OffersAreToUsers, SendsNothing, Asking
  <1> QED BY <1>1, SendsNothingKeeps

\* An erased account takes its list rows and its clocks with it.
LEMMA DropMail ==
    ASSUME TypeOK, MailInv, NEW w \in Workers, NEW b \in Accounts,
           DropAccount(b), Finish(w), UNCHANGED mail
    PROVE  MailInv'
  <1>1. \A a \in Accounts : acct'[a] = IF a = b THEN "gone" ELSE acct[a]
    BY DEF DropAccount, TypeOK
  <1>2. \A a \in Accounts, o \in Orgs :
           invite'[<<a, o>>] = IF a = b THEN "none" ELSE invite[<<a, o>>]
    BY DEF DropAccount, Pairs
  <1>3. \A v \in Workers, a \in Accounts, o \in Orgs, s \in Asking :
           At(v, s, a, o)' => At(v, s, a, o)
    <2>1. Asking \subseteq Stages /\ req \in Requests
      BY DEF Asking, Stages, TypeOK, Requests
    <2> QED BY <2>1, TurnIdle
  <1>4. \A a \in Accounts, o \in Orgs : <<a, o>> \in recent => a = b \/ <<a, o>> \in recent'
    BY DEF DropAccount
  <1>5. SendsNothing
    BY <1>1, <1>2, <1>3, <1>4
       DEF MailInv, OffersAreToUsers, SendsNothing, InUse, Asking, mail
  <1> QED BY <1>5, SendsNothingKeeps

LEMMA MailPerson ==
    ASSUME TypeOK, MailInv, NEW w \in Workers, NEW a \in Accounts, NEW o \in Orgs,
           PersonStep(w, a, o)
    PROVE  MailInv'
  <1>t. req \in Requests /\ <<a, o>> \in Pairs /\ invite \in [Pairs -> InviteState]
    BY DEF TypeOK, Requests, Pairs
  <1>s. {"attribute", "accept", "eraseAccount"} \subseteq Stages \ Asking
    BY DEF Stages, Asking
  <1> USE DEF lists, mail
  <1>1. CASE ensureUserAttribution(w, a, o)
    BY <1>1, <1>t, <1>s, TurnQuiet, SameMail DEF ensureUserAttribution
  <1>2. CASE AttributeRedeem(w, a, o)
    BY <1>2, <1>t, TurnQuiet, SameMail DEF AttributeRedeem
  <1>3. CASE AcceptCheck(w, a, o)
    BY <1>3, <1>t, <1>s, TurnQuiet, SameMail DEF AcceptCheck
  <1>4. CASE AcceptRedeem(w, a, o)
    <2>1. \A v \in Workers, b \in Accounts, q \in Orgs, s \in Asking :
             At(v, s, b, q)' => At(v, s, b, q)
      BY <1>4, <1>t, TurnQuiet DEF AcceptRedeem
    <2>2. \A p \in Pairs : invite'[p] \in {"offered", "declined"} => invite'[p] = invite[p]
      BY <1>4, <1>t DEF AcceptRedeem, MarkAccepted
    <2>3. recent' = recent /\ acct' = acct /\ offerMails' = offerMails
      BY <1>4 DEF AcceptRedeem, MarkAccepted
    <2>4. SendsNothing
      BY <2>1, <2>2, <2>3 DEF MailInv, OffersAreToUsers, SendsNothing, Asking, Pairs
    <2> QED BY <2>4, SendsNothingKeeps
  <1>5. CASE EraseData(w, a, o)
    <2>1. \A v \in Workers, b \in Accounts, q \in Orgs, s \in Asking :
             At(v, s, b, q)' => At(v, s, b, q)
      BY <1>5, <1>t DEF EraseData, At, Requests, Asking
    <2> QED BY <1>5, <2>1, SameMail DEF EraseData
  <1>6. CASE LeaveAll(w, a, o)
    BY <1>6, <1>t, <1>s, TurnQuiet, SameMail DEF LeaveAll
  <1>7. CASE EraseAccount(w, a, o)
    BY <1>7, DropMail DEF EraseAccount
  <1> QED BY <1>1, <1>2, <1>3, <1>4, <1>5, <1>6, <1>7 DEF PersonStep

\* The second half of an add: the window moves with the row, and the email
\* goes out only if this write moved it.
LEMMA RelistKeeps ==
    ASSUME TypeOK, MailInv, NEW w \in Workers, NEW a \in Accounts, NEW o \in Orgs,
           InviteRelist(w, a, o)
    PROVE  MailInv'
  <1>t. /\ req \in Requests /\ <<a, o>> \in Pairs /\ invite \in [Pairs -> InviteState]
        /\ offerMails \in [Pairs -> 0..2] /\ Asking \subseteq Stages /\ acct' = acct
    BY DEF TypeOK, Requests, Pairs, Asking, Stages, InviteRelist
  <1>q. \A v \in Workers, b \in Accounts, q \in Orgs, s \in Asking :
           At(v, s, b, q)' => At(v, s, b, q)
    BY <1>t, TurnQuiet DEF InviteRelist
  <1>u. acct[a] \in InUse
    BY DEF InviteRelist, MailInv, OffersAreToUsers, Asking
  <1>1. CASE acct[a] = "gone"
    BY <1>1, <1>q, SameMail DEF InviteRelist, mail
  <1>2. CASE acct[a] # "gone"
    <2>1. /\ \A p \in Pairs : invite'[p] = IF p = <<a, o>> THEN "offered" ELSE invite[p]
          /\ recent' = recent \cup {<<a, o>>}
      BY <1>2, <1>t DEF InviteRelist
    <2>2. acct[a] = "active"
      BY <1>2, <1>u DEF InUse
    <2>3. CASE offerMails' = offerMails
      <3>1. SendsNothing
        BY <1>t, <1>q, <2>1, <2>2, <2>3 DEF MailInv, OffersAreToUsers, SendsNothing, Asking, Pairs
      <3> QED BY <3>1, SendsNothingKeeps
    <2>4. CASE <<a, o>> \notin recent /\ SendOfferEmail(a, o)
      <3>1. offerMails[<<a, o>>] = 0
        BY <1>2, <2>4 DEF MailInv, EmailsAreTimed
      <3>2. \A p \in Pairs : offerMails'[p] = IF p = <<a, o>> THEN 1 ELSE offerMails[p]
        BY <1>t, <2>4, <3>1 DEF SendOfferEmail
      <3>3. EmailsAreTimed'
        BY <1>t, <1>u, <2>1, <3>2 DEF MailInv, EmailsAreTimed, Pairs
      <3>4. OffersAreToUsers'
        BY <1>t, <1>q, <2>1, <2>2 DEF MailInv, OffersAreToUsers, Pairs
      <3>5. ResendAlone'
        <4>1. ASSUME NEW v \in Workers, NEW b \in Accounts, NEW q \in Orgs,
                     At(v, "reopen", b, q)', acct[b] # "gone"
              PROVE  /\ <<b, q>> \in recent' /\ offerMails'[<<b, q>>] = 0
                     /\ \A x \in Workers \ {v} : ~At(x, "reopen", b, q)'
          <5>1. At(v, "reopen", b, q)
            BY <1>q, <4>1 DEF Asking
          <5>2. /\ <<b, q>> \in recent /\ offerMails[<<b, q>>] = 0
                /\ \A x \in Workers \ {v} : ~At(x, "reopen", b, q)
            BY <4>1, <5>1 DEF MailInv, ResendAlone
          <5>3. <<b, q>> # <<a, o>> /\ <<b, q>> \in Pairs
            BY <2>4, <5>2 DEF Pairs
          <5> QED BY <1>q, <2>1, <3>2, <5>2, <5>3 DEF Asking
        <4> QED BY <1>t, <4>1 DEF ResendAlone
      <3> QED BY <3>3, <3>4, <3>5 DEF MailInv
    <2> QED BY <1>2, <2>3, <2>4 DEF InviteRelist, mail
  <1> QED BY <1>1, <1>2

\* The first half of a resend: it finds the window open, so no email has
\* gone out and no other resend is under way.
LEMMA TouchKeeps ==
    ASSUME TypeOK, MailInv, NEW w \in Workers, NEW a \in Accounts, NEW o \in Orgs,
           ResendTouch(w, a, o)
    PROVE  MailInv'
  <1>t. /\ req \in Requests /\ <<a, o>> \in Pairs /\ invite \in [Pairs -> InviteState]
        /\ Asking \subseteq Stages /\ "reopen" \in Stages
    BY DEF TypeOK, Requests, Pairs, Asking, Stages
  <1>1. /\ acct' = acct /\ offerMails' = offerMails
        /\ recent' = recent \cup {<<a, o>>} /\ <<a, o>> \notin recent
        /\ \A p \in Pairs : invite'[p] = IF p = <<a, o>> THEN "offered" ELSE invite[p]
    BY <1>t DEF ResendTouch, mail
  <1>2. acct[a] = "active"
    BY DEF ResendTouch, MailInv, OffersAreToUsers
  <1>3. \A v \in Workers, b \in Accounts, q \in Orgs, s \in Stages :
           At(v, s, b, q)' => \/ v # w /\ At(v, s, b, q)
                              \/ v = w /\ s = "reopen" /\ b = a /\ q = o
    BY <1>t, TurnTo DEF ResendTouch
  <1>4. EmailsAreTimed'
    BY <1>1 DEF MailInv, EmailsAreTimed
  <1>5. OffersAreToUsers'
    BY <1>t, <1>1, <1>2, <1>3 DEF MailInv, OffersAreToUsers, Pairs, InUse
  <1>6. offerMails[<<a, o>>] = 0 /\ \A v \in Workers : ~At(v, "reopen", a, o)
    BY <1>1, <1>2 DEF MailInv, EmailsAreTimed, ResendAlone
  <1>7. ASSUME NEW v \in Workers, NEW b \in Accounts, NEW q \in Orgs,
               At(v, "reopen", b, q)', acct[b] # "gone"
        PROVE  /\ <<b, q>> \in recent' /\ offerMails'[<<b, q>>] = 0
               /\ \A x \in Workers \ {v} : ~At(x, "reopen", b, q)'
    <2>1. CASE b = a /\ q = o
      BY <1>t, <1>1, <1>3, <1>6, <1>7, <2>1
    <2>2. CASE ~(b = a /\ q = o)
      <3>1. At(v, "reopen", b, q)
        BY <1>t, <1>3, <1>7, <2>2
      <3>2. /\ <<b, q>> \in recent /\ offerMails[<<b, q>>] = 0
            /\ \A x \in Workers \ {v} : ~At(x, "reopen", b, q)
        BY <1>7, <3>1 DEF MailInv, ResendAlone
      <3> QED BY <1>t, <1>1, <1>3, <2>2, <3>2
    <2> QED BY <2>1, <2>2
  <1> QED BY <1>1, <1>4, <1>5, <1>7 DEF MailInv, ResendAlone

\* The second half of a resend: the day's one email.
LEMMA ReopenKeeps ==
    ASSUME TypeOK, MailInv, NEW w \in Workers, NEW a \in Accounts, NEW o \in Orgs,
           ResendOffer(w, a, o)
    PROVE  MailInv'
  <1>t. /\ req \in Requests /\ <<a, o>> \in Pairs /\ offerMails \in [Pairs -> 0..2]
        /\ Asking \subseteq Stages /\ At(w, "reopen", a, o)
        /\ acct' = acct /\ invite' = invite /\ recent' = recent
    BY DEF TypeOK, Requests, Pairs, Asking, Stages, ResendOffer
  <1>q. \A v \in Workers, b \in Accounts, q \in Orgs, s \in Asking :
           At(v, s, b, q)' => v # w /\ At(v, s, b, q)
    BY <1>t, TurnIdle DEF ResendOffer
  <1>1. CASE acct[a] = "gone"
    BY <1>1, <1>t, <1>q, SameMail DEF ResendOffer, mail
  <1>2. CASE acct[a] # "gone"
    <2>1. /\ <<a, o>> \in recent /\ offerMails[<<a, o>>] = 0 /\ acct[a] \in InUse
          /\ \A v \in Workers \ {w} : ~At(v, "reopen", a, o)
      BY <1>2, <1>t DEF MailInv, ResendAlone, OffersAreToUsers, Asking
    <2>2. \A p \in Pairs : offerMails'[p] = IF p = <<a, o>> THEN 1 ELSE offerMails[p]
      BY <1>2, <1>t, <2>1 DEF ResendOffer, SendOfferEmail
    <2>3. EmailsAreTimed'
      BY <1>t, <2>1, <2>2 DEF MailInv, EmailsAreTimed, Pairs
    <2>4. OffersAreToUsers'
      BY <1>t, <1>q DEF MailInv, OffersAreToUsers
    <2>5. ASSUME NEW v \in Workers, NEW b \in Accounts, NEW q \in Orgs,
                 At(v, "reopen", b, q)', acct[b] # "gone"
          PROVE  /\ <<b, q>> \in recent' /\ offerMails'[<<b, q>>] = 0
                 /\ \A x \in Workers \ {v} : ~At(x, "reopen", b, q)'
      <3>1. v # w /\ At(v, "reopen", b, q)
        BY <1>q, <2>5 DEF Asking
      <3>2. /\ <<b, q>> \in recent /\ offerMails[<<b, q>>] = 0
            /\ \A x \in Workers \ {v} : ~At(x, "reopen", b, q)
        BY <2>5, <3>1 DEF MailInv, ResendAlone
      <3>3. <<b, q>> # <<a, o>> /\ <<b, q>> \in Pairs
        BY <2>1, <3>1 DEF Pairs
      <3> QED BY <1>t, <1>q, <2>2, <3>2, <3>3 DEF Asking
    <2> QED BY <1>t, <2>3, <2>4, <2>5 DEF MailInv, ResendAlone
  <1> QED BY <1>1, <1>2

LEMMA MailStaff ==
    ASSUME TypeOK, MailInv, NEW w \in Workers, NEW a \in Accounts, NEW o \in Orgs,
           StaffStep(w, a, o)
    PROVE  MailInv'
  <1>t. /\ req \in Requests /\ <<a, o>> \in Pairs /\ invite \in [Pairs -> InviteState]
        /\ acct \in [Accounts -> AcctState] /\ Asking \subseteq Stages
    BY DEF TypeOK, Requests, Pairs, Asking, Stages
  <1>s. {"claim", "claimNew", "rollback", "list", "free", "unlist"} \subseteq Stages \ Asking
    BY DEF Stages, Asking
  <1> USE DEF lists, mail
  <1>1. CASE InviteNew(w, a, o)
    <2>1. \A v \in Workers, b \in Accounts, q \in Orgs, s \in Asking :
             At(v, s, b, q)' => At(v, s, b, q)
      BY <1>1, <1>t, <1>s, TurnQuiet DEF InviteNew
    <2>2. acct[a] = "unborn" /\ \A b \in Accounts : b # a => acct'[b] = acct[b]
      BY <1>1, <1>t DEF InviteNew
    <2>3. invite' = invite /\ recent' = recent /\ offerMails' = offerMails
      BY <1>1 DEF InviteNew
    <2>4. SendsNothing
      BY <2>1, <2>2, <2>3 DEF MailInv, OffersAreToUsers, SendsNothing, Asking, InUse
    <2> QED BY <2>4, SendsNothingKeeps
  <1>2. CASE InviteCheck(w, a, o)
    <2>1. CASE acct[a] = "shell" /\ Begin(w, "claim", a, o)
      BY <1>2, <2>1, <1>t, <1>s, TurnQuiet, SameMail DEF InviteCheck
    <2>2. CASE acct[a] = "active" /\ Begin(w, "offer", a, o)
      <3>1. \A v \in Workers, b \in Accounts, q \in Orgs, s \in Stages :
               At(v, s, b, q)' => \/ At(v, s, b, q)
                                  \/ s = "offer" /\ b = a
        BY <2>2, <1>t, TurnTo DEF Stages
      <3>2. SendsNothing
        BY <1>2, <1>t, <2>2, <3>1
           DEF InviteCheck, MailInv, OffersAreToUsers, SendsNothing, Asking, InUse
      <3> QED BY <3>2, SendsNothingKeeps
    <2> QED BY <1>2, <2>1, <2>2 DEF InviteCheck
  <1>3. CASE InviteClaim(w, a, o)
    BY <1>3, <1>t, <1>s, TurnQuiet, SameMail DEF InviteClaim
  <1>4. CASE InviteRollback(w, a, o)
    BY <1>4, DropMail DEF InviteRollback
  <1>5. CASE InviteList(w, a, o)
    <2>1. \A v \in Workers, b \in Accounts, q \in Orgs, s \in Asking :
             At(v, s, b, q)' => At(v, s, b, q)
      BY <1>5, <1>t, TurnQuiet DEF InviteList
    <2>2. \A p \in Pairs : invite'[p] \in {"offered", "declined"} => invite'[p] = invite[p]
      BY <1>5, <1>t DEF InviteList
    <2>3. recent \subseteq recent' /\ acct' = acct /\ offerMails' = offerMails
      BY <1>5 DEF InviteList
    <2>4. SendsNothing
      BY <2>1, <2>2, <2>3 DEF MailInv, OffersAreToUsers, SendsNothing, Asking, Pairs
    <2> QED BY <2>4, SendsNothingKeeps
  <1>6. CASE InviteOffer(w, a, o)
    <2>1. acct[a] \in InUse
      BY <1>6 DEF InviteOffer, MailInv, OffersAreToUsers, Asking
    <2>2. \A v \in Workers, b \in Accounts, q \in Orgs, s \in Stages :
             At(v, s, b, q)' => At(v, s, b, q) \/ (s \in {"relist", "relistFresh"} /\ b = a)
      <3>1. CASE Finish(w)
        BY <3>1, <1>t, TurnIdle
      <3>2. CASE Begin(w, "relist", a, o) \/ Begin(w, "relistFresh", a, o)
        BY <3>2, <1>t, TurnTo DEF Stages
      <3> QED BY <1>6, <3>1, <3>2 DEF InviteOffer
    <2>3. SendsNothing
      BY <1>6, <1>t, <2>1, <2>2
         DEF InviteOffer, MailInv, OffersAreToUsers, SendsNothing, Asking, Stages
    <2> QED BY <2>3, SendsNothingKeeps
  <1>7. CASE RevokeOffer(w, a, o) \/ RevokeUnlist(w, a, o)
    <2>1. \A v \in Workers, b \in Accounts, q \in Orgs, s \in Asking :
             At(v, s, b, q)' => At(v, s, b, q)
      BY <1>7, <1>t, <1>s, TurnQuiet DEF RevokeOffer, RevokeUnlist
    <2>2. \A p \in Pairs : invite'[p] \in {"offered", "declined"} => invite'[p] = invite[p]
      BY <1>7, <1>t DEF RevokeOffer, RevokeUnlist
    <2>3. recent' = recent /\ acct' = acct /\ offerMails' = offerMails
      BY <1>7 DEF RevokeOffer, RevokeUnlist
    <2>4. SendsNothing
      BY <2>1, <2>2, <2>3 DEF MailInv, OffersAreToUsers, SendsNothing, Asking, Pairs
    <2> QED BY <2>4, SendsNothingKeeps
  <1>8. CASE RevokeSees(w, a, o)
    BY <1>8, <1>t, <1>s, TurnQuiet, SameMail DEF RevokeSees
  <1>9. CASE RevokeInvite(w, a, o)
    <2>1. \A v \in Workers, b \in Accounts, q \in Orgs, s \in Asking :
             At(v, s, b, q)' => At(v, s, b, q)
      BY <1>9, <1>t, TurnQuiet DEF RevokeInvite
    <2>2. CASE UNCHANGED <<ledger, invite, recent>>
      BY <1>9, <2>1, <2>2, SameMail DEF RevokeInvite
    <2>3. CASE acct[a] = "shell" /\ FreeSeat(a, o)
      <3>1. \A p \in Pairs : invite'[p] \in {"offered", "declined"} => invite'[p] = invite[p]
        BY <2>3, <1>t DEF FreeSeat
      <3>2. recent' = recent \ {<<a, o>>} /\ acct' = acct /\ offerMails' = offerMails
        BY <1>9, <2>3 DEF RevokeInvite, FreeSeat
      <3>3. SendsNothing
        BY <2>1, <2>3, <3>1, <3>2
           DEF MailInv, OffersAreToUsers, SendsNothing, Asking, InUse, Pairs
      <3> QED BY <3>3, SendsNothingKeeps
    <2> QED BY <1>9, <2>2, <2>3 DEF RevokeInvite
  <1> QED
    BY <1>1, <1>2, <1>3, <1>4, <1>5, <1>6, <1>7, <1>8, <1>9, RelistKeeps, TouchKeeps, ReopenKeeps
       DEF StaffStep

LEMMA MailTransaction ==
    ASSUME TypeOK, MailInv, NEW a \in Accounts, NEW o \in Orgs, OneTransaction(a, o)
    PROVE  MailInv'
  <1>t. <<a, o>> \in Pairs /\ invite \in [Pairs -> InviteState]
    BY DEF TypeOK, Pairs
  <1> USE DEF lists, mail
  <1>1. req' = req /\ acct' = acct /\ offerMails' = offerMails
    BY DEF OneTransaction, redeemAccessCode, AcceptAlreadyIn, Decline, ResendInvite,
           LeaveOrg
  <1>2. \A p \in Pairs : invite'[p] \in {"offered", "declined"} =>
           invite'[p] = invite[p] \/ (p = <<a, o>> /\ invite[p] = "offered")
    BY <1>t DEF OneTransaction, redeemAccessCode, AcceptAlreadyIn, MarkAccepted, Decline,
                ResendInvite, LeaveOrg
  <1>3. recent \subseteq recent'
    BY DEF OneTransaction, redeemAccessCode, AcceptAlreadyIn, MarkAccepted, Decline,
           ResendInvite, LeaveOrg
  <1>4. SendsNothing
    BY <1>1, <1>2, <1>3
       DEF MailInv, OffersAreToUsers, SendsNothing, Asking, InUse, Pairs, At
  <1> QED BY <1>4, SendsNothingKeeps

LEMMA MailStep == TypeOK /\ MailInv /\ [Next]_vars => MailInv'
  <1> SUFFICES ASSUME TypeOK, MailInv, [Next]_vars PROVE MailInv'
    OBVIOUS
  <1> USE DEF lists, mail
  <1>1. ASSUME NEW a \in Accounts, SignIn(a) PROVE MailInv'
    <2>1. \A b \in Accounts : acct'[b] = IF b = a THEN "active" ELSE acct[b]
      BY <1>1 DEF SignIn, TypeOK
    <2>2. acct[a] = "shell" /\ UNCHANGED <<invite, recent, offerMails, req>>
      BY <1>1 DEF SignIn
    <2>3. SendsNothing
      BY <2>1, <2>2 DEF MailInv, OffersAreToUsers, SendsNothing, Asking, InUse, At
    <2> QED BY <2>3, SendsNothingKeeps
  <1>2. ASSUME NEW w \in Workers, Crash(w) PROVE MailInv'
    <2>1. \A v \in Workers, b \in Accounts, q \in Orgs, s \in Asking :
             At(v, s, b, q)' => At(v, s, b, q)
      BY <1>2, TurnIdle DEF Crash, TypeOK, Requests, Asking, Stages
    <2> QED BY <1>2, <2>1, SameMail DEF Crash
  <1>3. CASE DayPasses
    <2>1. \A p \in Pairs : offerMails'[p] = 0
      BY <1>3 DEF DayPasses
    <2>2. \A w \in Workers, a \in Accounts, o \in Orgs, s \in Asking : ~At(w, s, a, o)'
      BY <1>3 DEF DayPasses, Free, At, Idle, Asking
    <2>3. invite' = invite /\ acct' = acct
      BY <1>3 DEF DayPasses
    <2>4. EmailsAreTimed'
      BY <2>1 DEF EmailsAreTimed, Pairs
    <2>5. OffersAreToUsers'
      BY <2>2, <2>3 DEF MailInv, OffersAreToUsers
    <2>6. ResendAlone'
      BY <2>2 DEF ResendAlone, Asking
    <2> QED BY <2>4, <2>5, <2>6 DEF MailInv
  <1>4. CASE UNCHANGED <<acct, invite, recent, offerMails, req>>
    BY <1>4, SameMail DEF At
  <1> QED
    BY <1>1, <1>2, <1>3, <1>4, MailPerson, MailStaff, MailTransaction
       DEF Next, addOrgSeats, CloseOrReopen, vars

LEMMA MailAlways == Spec => []MailInv
  <1>1. Init => MailInv
    BY DEF Init, MailInv, EmailsAreTimed, OffersAreToUsers, ResendAlone, At, Idle,
           Asking, Pairs
  <1> QED BY <1>1, MailStep, TypeCorrect, PTL DEF Spec

(***************************************************************************)
(* A person gets at most one offer email of an organization in a day, with *)
(* any number of staff requests at once: adds, withdrawals and resends     *)
(* (the 24-hour window is tested inside the write that moves the clock).   *)
(***************************************************************************)
THEOREM NoSecondOfferEmail == Spec => []OneOfferEmailADay
  <1>1. MailInv => OneOfferEmailADay
    <2>1. ASSUME MailInv, NEW a \in Accounts, NEW o \in Orgs
          PROVE  offerMails[<<a, o>>] <= 1
      <3>1. offerMails[<<a, o>>] = 0 \/ offerMails[<<a, o>>] = 1
        BY <2>1 DEF MailInv, EmailsAreTimed
      <3> QED BY <3>1
    <2> QED BY <2>1 DEF OneOfferEmailADay, Pairs
  <1> QED BY <1>1, MailAlways, PTL

=============================================================================
