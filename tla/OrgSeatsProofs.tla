--------------------------- MODULE OrgSeatsProofs ---------------------------
(***************************************************************************)
(* Proofs about OrgSeats, for any number of accounts, organizations and    *)
(* requests in flight.                                                     *)
(***************************************************************************)
EXTENDS OrgSeats, FiniteSetTheorems, TLAPS

Requests == [Workers -> Request \cup {Idle}]

LEMMA BeginType ==
    ASSUME req \in Requests, NEW w \in Workers, NEW a \in Accounts, NEW o \in Orgs,
           NEW stage \in Stages, Begin(w, stage, a, o)
    PROVE  req' \in Requests
  BY DEF Begin, Requests, Request

LEMMA FinishType ==
    ASSUME req \in Requests, NEW w \in Workers, Finish(w)
    PROVE  req' \in Requests
  BY DEF Finish, Requests

(***************************************************************************)
(* A redemption keeps the ledger's types.                                  *)
(***************************************************************************)
LedgerType ==
    /\ member \subseteq Pairs /\ departed \subseteq Pairs /\ charged \subseteq Pairs
    /\ claimed \in [Orgs -> Nat]

LEMMA RedeemType ==
    ASSUME LedgerType, NEW a \in Accounts, NEW o \in Orgs,
           RedeemOk(a, o) \/ RedeemRefused(a, o)
    PROVE  LedgerType'
  <1>1. CASE TakeBackSeat(a, o)
    BY <1>1 DEF LedgerType, TakeBackSeat, Pairs
  <1>2. CASE SpendSeat(a, o)
    BY <1>2 DEF LedgerType, SpendSeat, Pairs
  <1>3. CASE RedeemRefused(a, o)
    BY <1>3 DEF LedgerType, RedeemRefused, ledger
  <1> QED BY <1>1, <1>2, <1>3 DEF RedeemOk

LEMMA DropType ==
    ASSUME TypeOK, NEW a \in Accounts, DropAccount(a)
    PROVE  /\ acct' \in [Accounts -> AcctState]
           /\ LedgerType'
           /\ offer' \in [Pairs -> OfferState]
           /\ invite' \in [Pairs -> InviteState]
           /\ recent' \subseteq Pairs
  BY DEF TypeOK, DropAccount, LedgerType, AcctState, OfferState, InviteState

LEMMA InitType == Init => TypeOK
  <1> SUFFICES ASSUME Init PROVE TypeOK
    OBVIOUS
  <1>1. acct \in [Accounts -> AcctState]
    BY DEF Init, AcctState
  <1>2. cap \in [Orgs -> Nat \cup {NoLimit}]
    BY LimitAssumption DEF Init
  <1>3. offer \in [Pairs -> OfferState] /\ invite \in [Pairs -> InviteState]
    BY DEF Init, OfferState, InviteState
  <1>4. /\ offerMails \in [Pairs -> 0..2] /\ day \in 0..MaxDay
        /\ claimed \in [Orgs -> Nat]
    BY LimitAssumption DEF Init
  <1>5. req \in [Workers -> Request \cup {Idle}]
    BY DEF Init
  <1> QED BY <1>1, <1>2, <1>3, <1>4, <1>5 DEF Init, TypeOK

LEMMA PersonStepType ==
    ASSUME TypeOK, NEW w \in Workers, NEW a \in Accounts, NEW o \in Orgs, PersonStep(w, a, o)
    PROVE  TypeOK'
  <1> USE DEF lists, mail, codes
  <1>t. LedgerType /\ req \in Requests /\ <<a, o>> \in Pairs
    BY DEF TypeOK, LedgerType, Requests, Pairs
  <1>1. CASE ensureUserAttribution(w, a, o)
    <2>1. req' \in Requests
      BY <1>1, <1>t, BeginType DEF ensureUserAttribution, Stages
    <2> QED BY <1>1, <2>1 DEF TypeOK, ensureUserAttribution, ledger, Requests
  <1>2. CASE AttributeRedeem(w, a, o)
    <2>1. req' \in Requests
      BY <1>2, <1>t, FinishType DEF AttributeRedeem
    <2>2. LedgerType'
      BY <1>2, <1>t, RedeemType DEF AttributeRedeem
    <2> QED BY <1>2, <2>1, <2>2 DEF TypeOK, AttributeRedeem, LedgerType, Requests
  <1>3. CASE AcceptCheck(w, a, o)
    <2>1. req' \in Requests
      BY <1>3, <1>t, BeginType DEF AcceptCheck, Stages
    <2> QED BY <1>3, <2>1 DEF TypeOK, AcceptCheck, ledger, Requests
  <1>4. CASE AcceptRedeem(w, a, o)
    <2>1. req' \in Requests
      BY <1>4, <1>t, FinishType DEF AcceptRedeem
    <2>2. LedgerType'
      <3>1. CASE UNCHANGED ledger
        BY <3>1, <1>t DEF LedgerType, ledger
      <3> QED BY <1>4, <1>t, <3>1, RedeemType DEF AcceptRedeem
    <2>3. /\ offer' \in [Pairs -> OfferState]
          /\ invite' \in [Pairs -> InviteState]
          /\ recent' \subseteq Pairs
      BY <1>4, <1>t DEF TypeOK, AcceptRedeem, MarkAccepted, OfferState, InviteState
    <2> QED BY <1>4, <2>1, <2>2, <2>3 DEF TypeOK, AcceptRedeem, LedgerType, Requests
  <1>5. CASE EraseData(w, a, o)
    <2>1. req' \in Requests
      BY <1>5, <1>t DEF EraseData, Requests, Request, Stages
    <2> QED BY <1>5, <2>1 DEF TypeOK, EraseData, ledger, Requests
  <1>6. CASE LeaveAll(w, a, o)
    <2>1. req' \in Requests
      BY <1>6, <1>t, BeginType, FinishType DEF LeaveAll, Stages
    <2>2. req[w].left \subseteq Orgs
      BY <1>6, <1>t DEF LeaveAll, At, Requests, Request, Idle
    <2> QED BY <1>6, <2>1, <2>2 DEF TypeOK, LeaveAll, Requests, Pairs
  <1>7. CASE EraseAccount(w, a, o)
    <2>1. req' \in Requests
      BY <1>7, <1>t, FinishType DEF EraseAccount
    <2> QED BY <1>7, <2>1, DropType DEF TypeOK, EraseAccount, LedgerType, Requests
  <1> QED BY <1>1, <1>2, <1>3, <1>4, <1>5, <1>6, <1>7 DEF PersonStep

LEMMA StaffStepType ==
    ASSUME TypeOK, NEW w \in Workers, NEW a \in Accounts, NEW o \in Orgs, StaffStep(w, a, o)
    PROVE  TypeOK'
  <1> USE DEF lists, mail, codes
  <1>t. LedgerType /\ req \in Requests /\ <<a, o>> \in Pairs
    BY DEF TypeOK, LedgerType, Requests, Pairs
  <1>1. CASE InviteNew(w, a, o)
    <2>1. req' \in Requests
      BY <1>1, <1>t, BeginType DEF InviteNew, Stages
    <2> QED BY <1>1, <2>1 DEF TypeOK, InviteNew, AcctState, ledger, Requests
  <1>2. CASE InviteCheck(w, a, o)
    <2>1. req' \in Requests
      BY <1>2, <1>t, BeginType DEF InviteCheck, Stages
    <2> QED BY <1>2, <2>1 DEF TypeOK, InviteCheck, ledger, Requests
  <1>3. CASE InviteClaim(w, a, o)
    <2>1. req' \in Requests
      BY <1>3, <1>t, BeginType, FinishType DEF InviteClaim, Stages
    <2>2. LedgerType'
      BY <1>3, <1>t, RedeemType DEF InviteClaim
    <2> QED BY <1>3, <2>1, <2>2 DEF TypeOK, InviteClaim, LedgerType, Requests
  <1>4. CASE InviteRollback(w, a, o)
    <2>1. req' \in Requests
      BY <1>4, <1>t, FinishType DEF InviteRollback
    <2> QED BY <1>4, <2>1, DropType DEF TypeOK, InviteRollback, LedgerType, Requests
  <1>5. CASE InviteList(w, a, o)
    <2>1. req' \in Requests
      BY <1>5, <1>t, FinishType DEF InviteList
    <2>2. invite' \in [Pairs -> InviteState] /\ recent' \subseteq Pairs
      BY <1>5, <1>t DEF TypeOK, InviteList, InviteState
    <2> QED BY <1>5, <2>1, <2>2 DEF TypeOK, InviteList, ledger, Requests
  <1>6. CASE InviteOffer(w, a, o)
    <2>1. req' \in Requests
      BY <1>6, <1>t, BeginType, FinishType DEF InviteOffer, Stages
    <2>2. offer' \in [Pairs -> OfferState]
      BY <1>6, <1>t DEF TypeOK, InviteOffer, createSeatOffer, OfferState
    <2> QED BY <1>6, <2>1, <2>2 DEF TypeOK, InviteOffer, ledger, Requests
  <1>7. CASE InviteRelist(w, a, o)
    <2>1. req' \in Requests
      BY <1>7, <1>t, FinishType DEF InviteRelist
    <2>2. invite' \in [Pairs -> InviteState] /\ recent' \subseteq Pairs
      BY <1>7, <1>t DEF TypeOK, InviteRelist, InviteState
    <2>3. offerMails' \in [Pairs -> 0..2] /\ day' = day
      BY <1>7, <1>t DEF TypeOK, InviteRelist, SendOfferEmail
    <2> QED BY <1>7, <2>1, <2>2, <2>3 DEF TypeOK, InviteRelist, ledger, Requests
  <1>8. CASE ResendTouch(w, a, o)
    <2>1. req' \in Requests
      BY <1>8, <1>t, BeginType DEF ResendTouch, Stages
    <2> QED BY <1>8, <1>t, <2>1 DEF TypeOK, ResendTouch, InviteState, ledger, Requests
  <1>9. CASE ResendOffer(w, a, o)
    <2>1. req' \in Requests
      BY <1>9, <1>t, FinishType DEF ResendOffer
    <2>2. offer' \in [Pairs -> OfferState]
      BY <1>9, <1>t DEF TypeOK, ResendOffer, createSeatOffer, OfferState
    <2>3. offerMails' \in [Pairs -> 0..2] /\ day' = day
      BY <1>9, <1>t DEF TypeOK, ResendOffer, SendOfferEmail
    <2> QED BY <1>9, <2>1, <2>2, <2>3 DEF TypeOK, ResendOffer, ledger, Requests
  <1>10. CASE RevokeOffer(w, a, o)
    <2>1. req' \in Requests
      BY <1>10, <1>t, BeginType DEF RevokeOffer, Stages
    <2>2. offer' \in [Pairs -> OfferState] /\ invite' \in [Pairs -> InviteState]
      BY <1>10, <1>t DEF TypeOK, RevokeOffer, OfferState, InviteState
    <2> QED BY <1>10, <2>1, <2>2 DEF TypeOK, RevokeOffer, ledger, Requests
  <1>11. CASE RevokeUnlist(w, a, o)
    <2>1. req' \in Requests
      BY <1>11, <1>t, FinishType DEF RevokeUnlist
    <2> QED BY <1>11, <1>t, <2>1 DEF TypeOK, RevokeUnlist, InviteState, ledger, Requests
  <1>12. CASE RevokeSees(w, a, o)
    <2>1. req' \in Requests
      BY <1>12, <1>t, BeginType DEF RevokeSees, Stages
    <2> QED BY <1>12, <2>1 DEF TypeOK, RevokeSees, ledger, Requests
  <1>13. CASE RevokeInvite(w, a, o)
    <2>1. req' \in Requests
      BY <1>13, <1>t, FinishType DEF RevokeInvite
    <2>2. LedgerType' /\ invite' \in [Pairs -> InviteState] /\ recent' \subseteq Pairs
      <3>1. CASE FreeSeat(a, o)
        <4>1. claimed' \in [Orgs -> Nat]
          BY <3>1 DEF TypeOK, FreeSeat
        <4>2. invite' \in [Pairs -> InviteState]
          BY <3>1, <1>t DEF TypeOK, FreeSeat, InviteState
        <4> QED BY <3>1, <4>1, <4>2 DEF TypeOK, LedgerType, FreeSeat
      <3>2. CASE UNCHANGED <<ledger, invite, recent>>
        BY <3>2 DEF TypeOK, LedgerType, ledger
      <3> QED BY <1>13, <3>1, <3>2 DEF RevokeInvite
    <2> QED BY <1>13, <2>1, <2>2 DEF TypeOK, RevokeInvite, LedgerType, Requests
  <1> QED BY <1>1, <1>2, <1>3, <1>4, <1>5, <1>6, <1>7, <1>8, <1>9, <1>10, <1>11, <1>12, <1>13
       DEF StaffStep

LEMMA TransactionType ==
    ASSUME TypeOK, NEW a \in Accounts, NEW o \in Orgs, OneTransaction(a, o)
    PROVE  TypeOK'
  <1> USE DEF lists, mail, codes
  <1>t. LedgerType /\ <<a, o>> \in Pairs
    BY DEF TypeOK, LedgerType, Pairs
  <1>1. CASE redeemAccessCode(a, o)
    <2>1. LedgerType'
      BY <1>1, <1>t, RedeemType DEF redeemAccessCode
    <2> QED BY <1>1, <2>1 DEF TypeOK, redeemAccessCode, LedgerType
  <1>2. CASE AcceptAlreadyIn(a, o)
    <2>1. offer' \in [Pairs -> OfferState] /\ invite' \in [Pairs -> InviteState]
      BY <1>2, <1>t DEF TypeOK, AcceptAlreadyIn, MarkAccepted, OfferState, InviteState
    <2> QED BY <1>2, <2>1 DEF TypeOK, AcceptAlreadyIn, MarkAccepted, ledger
  <1>3. CASE Decline(a, o)
    <2>1. offer' \in [Pairs -> OfferState] /\ invite' \in [Pairs -> InviteState]
      BY <1>3, <1>t DEF TypeOK, Decline, OfferState, InviteState
    <2> QED BY <1>3, <2>1 DEF TypeOK, Decline, ledger
  <1>4. CASE ResendInvite(a, o)
    BY <1>4, <1>t DEF TypeOK, ResendInvite, ledger
  <1>5. CASE LeaveOrg(a, o)
    BY <1>5, <1>t DEF TypeOK, LeaveOrg
  <1> QED BY <1>1, <1>2, <1>3, <1>4, <1>5 DEF OneTransaction

LEMMA TypeStep == TypeOK /\ [Next]_vars => TypeOK'
  <1> SUFFICES ASSUME TypeOK, [Next]_vars PROVE TypeOK'
    OBVIOUS
  <1> USE DEF lists, mail, codes, ledger
  <1>1. ASSUME NEW o \in Orgs, addOrgSeats(o) PROVE TypeOK'
    <2>1. cap' \in [Orgs -> Nat \cup {NoLimit}]
      <3>1. cap[o] \in Nat
        BY <1>1 DEF TypeOK, addOrgSeats
      <3> QED BY <1>1, <3>1 DEF TypeOK, addOrgSeats
    <2> QED BY <1>1, <2>1 DEF TypeOK, addOrgSeats
  <1>2. ASSUME NEW o \in Orgs, CloseOrReopen(o) PROVE TypeOK'
    BY <1>2 DEF TypeOK, CloseOrReopen
  <1>3. ASSUME NEW a \in Accounts, SignIn(a) PROVE TypeOK'
    BY <1>3 DEF TypeOK, SignIn, AcctState
  <1>4. ASSUME NEW w \in Workers, Crash(w) PROVE TypeOK'
    BY <1>4, FinishType DEF TypeOK, Crash, Requests
  <1>5. CASE DayPasses
    BY <1>5, LimitAssumption DEF TypeOK, DayPasses
  <1>6. CASE UNCHANGED vars
    BY <1>6 DEF TypeOK, vars
  <1> QED
    BY <1>1, <1>2, <1>3, <1>4, <1>5, <1>6, PersonStepType, StaffStepType, TransactionType
       DEF Next

(***************************************************************************)
(* Every variable keeps its type, for any accounts, organizations and any  *)
(* number of requests in flight.                                           *)
(***************************************************************************)
THEOREM TypeCorrect == Spec => []TypeOK
  BY InitType, TypeStep, PTL DEF Spec

-----------------------------------------------------------------------------
(***************************************************************************)
(* Which steps touch the ledger.  Every step is one of LedgerMove's; only  *)
(* EraseData starts a leave-all, and an account in use stays in use unless *)
(* it is deleted.                                                          *)
(***************************************************************************)
NoNewLeaver == \A w \in Workers : req'[w].at = "leaveAll" => req'[w] = req[w]
ActiveStays == \A a \in Accounts : acct[a] = "active" => acct'[a] = "active"

LedgerMove ==
    \/ \E a \in Accounts, o \in Orgs :
          \/ RedeemOk(a, o) /\ UNCHANGED <<acct, cap>> /\ NoNewLeaver
          \/ FreeSeat(a, o) /\ acct[a] = "shell" /\ UNCHANGED <<acct, cap>> /\ NoNewLeaver
          \/ LeaveOrg(a, o)
          \/ \E w \in Workers : EraseData(w, a, o) \/ (LeaveAll(w, a, o) /\ NoNewLeaver)
    \/ \E a \in Accounts : DropAccount(a) /\ ~RowPinned(a) /\ UNCHANGED cap /\ NoNewLeaver
    \/ \E o \in Orgs : addOrgSeats(o)
    \/ UNCHANGED <<ledger, cap>> /\ ActiveStays /\ NoNewLeaver

LEMMA BeginNoLeaver ==
    ASSUME req \in Requests, NEW w \in Workers, NEW a \in Accounts, NEW o \in Orgs,
           NEW stage \in Stages, stage # "leaveAll", Begin(w, stage, a, o)
    PROVE  NoNewLeaver
  BY DEF Begin, Requests, NoNewLeaver

LEMMA FinishNoLeaver ==
    ASSUME req \in Requests, NEW w \in Workers, Finish(w)
    PROVE  NoNewLeaver
  BY DEF Finish, Requests, NoNewLeaver, Idle

LEMMA PersonStepMove ==
    ASSUME TypeOK, NEW w \in Workers, NEW a \in Accounts, NEW o \in Orgs, PersonStep(w, a, o)
    PROVE  LedgerMove
  <1> USE DEF codes
  <1>t. req \in Requests
    BY DEF TypeOK, Requests
  <1>1. CASE ensureUserAttribution(w, a, o)
    BY <1>1, <1>t, BeginNoLeaver DEF ensureUserAttribution, LedgerMove, ActiveStays, Stages
  <1>2. CASE AttributeRedeem(w, a, o)
    BY <1>2, <1>t, FinishNoLeaver DEF AttributeRedeem, LedgerMove, ActiveStays, RedeemRefused
  <1>3. CASE AcceptCheck(w, a, o)
    BY <1>3, <1>t, BeginNoLeaver DEF AcceptCheck, LedgerMove, ActiveStays, Stages
  <1>4. CASE AcceptRedeem(w, a, o)
    BY <1>4, <1>t, FinishNoLeaver DEF AcceptRedeem, LedgerMove, ActiveStays, RedeemRefused
  <1>5. CASE EraseData(w, a, o)
    BY <1>5 DEF LedgerMove
  <1>6. CASE LeaveAll(w, a, o)
    BY <1>6, <1>t, FinishNoLeaver, BeginNoLeaver DEF LeaveAll, LedgerMove, Stages
  <1>7. CASE EraseAccount(w, a, o)
    BY <1>7, <1>t, FinishNoLeaver DEF EraseAccount, LedgerMove
  <1> QED BY <1>1, <1>2, <1>3, <1>4, <1>5, <1>6, <1>7 DEF PersonStep

LEMMA StaffStepMove ==
    ASSUME TypeOK, NEW w \in Workers, NEW a \in Accounts, NEW o \in Orgs, StaffStep(w, a, o)
    PROVE  LedgerMove
  <1> USE DEF codes
  <1>t. req \in Requests
    BY DEF TypeOK, Requests
  <1>1. CASE InviteNew(w, a, o)
    <2>1. NoNewLeaver
      BY <1>1, <1>t, BeginNoLeaver DEF InviteNew, Stages
    <2>2. ActiveStays
      BY <1>1 DEF InviteNew, TypeOK, ActiveStays
    <2> QED BY <1>1, <2>1, <2>2 DEF InviteNew, LedgerMove
  <1>2. CASE InviteCheck(w, a, o)
    BY <1>2, <1>t, BeginNoLeaver DEF InviteCheck, LedgerMove, ActiveStays, Stages
  <1>3. CASE InviteClaim(w, a, o)
    <2>1. NoNewLeaver
      BY <1>3, <1>t, BeginNoLeaver, FinishNoLeaver DEF InviteClaim, Stages
    <2> QED BY <1>3, <2>1 DEF InviteClaim, LedgerMove, ActiveStays, RedeemRefused
  <1>4. CASE InviteRollback(w, a, o)
    BY <1>4, <1>t, FinishNoLeaver DEF InviteRollback, LedgerMove
  <1>5. CASE InviteList(w, a, o)
    BY <1>5, <1>t, FinishNoLeaver DEF InviteList, LedgerMove, ActiveStays
  <1>6. CASE InviteOffer(w, a, o)
    <2>1. NoNewLeaver
      BY <1>6, <1>t, BeginNoLeaver, FinishNoLeaver DEF InviteOffer, Stages
    <2> QED BY <1>6, <2>1 DEF InviteOffer, LedgerMove, ActiveStays
  <1>7. CASE InviteRelist(w, a, o)
    BY <1>7, <1>t, FinishNoLeaver DEF InviteRelist, LedgerMove, ActiveStays
  <1>8. CASE ResendTouch(w, a, o)
    BY <1>8, <1>t, BeginNoLeaver DEF ResendTouch, LedgerMove, ActiveStays, Stages
  <1>9. CASE ResendOffer(w, a, o)
    BY <1>9, <1>t, FinishNoLeaver DEF ResendOffer, LedgerMove, ActiveStays
  <1>10. CASE RevokeOffer(w, a, o)
    BY <1>10, <1>t, BeginNoLeaver DEF RevokeOffer, LedgerMove, ActiveStays, Stages
  <1>11. CASE RevokeUnlist(w, a, o)
    BY <1>11, <1>t, FinishNoLeaver DEF RevokeUnlist, LedgerMove, ActiveStays
  <1>12. CASE RevokeSees(w, a, o)
    BY <1>12, <1>t, BeginNoLeaver DEF RevokeSees, LedgerMove, ActiveStays, Stages
  <1>13. CASE RevokeInvite(w, a, o)
    <2>1. NoNewLeaver
      BY <1>13, <1>t, FinishNoLeaver DEF RevokeInvite
    <2> QED BY <1>13, <2>1 DEF RevokeInvite, LedgerMove, ActiveStays
  <1> QED BY <1>1, <1>2, <1>3, <1>4, <1>5, <1>6, <1>7, <1>8, <1>9, <1>10, <1>11, <1>12, <1>13
       DEF StaffStep

LEMMA EveryStepMoves == TypeOK /\ [Next]_vars => LedgerMove
  <1> SUFFICES ASSUME TypeOK, [Next]_vars PROVE LedgerMove
    OBVIOUS
  <1> USE DEF codes, ActiveStays, NoNewLeaver, LedgerMove
  <1>1. ASSUME NEW a \in Accounts, NEW o \in Orgs, OneTransaction(a, o) PROVE LedgerMove
    <2>1. CASE redeemAccessCode(a, o)
      BY <2>1 DEF redeemAccessCode
    <2>2. CASE AcceptAlreadyIn(a, o)
      BY <2>2 DEF AcceptAlreadyIn
    <2>3. CASE Decline(a, o)
      BY <2>3 DEF Decline
    <2>4. CASE ResendInvite(a, o)
      BY <2>4 DEF ResendInvite
    <2> QED BY <1>1, <2>1, <2>2, <2>3, <2>4 DEF OneTransaction
  <1>2. ASSUME NEW o \in Orgs, CloseOrReopen(o) PROVE LedgerMove
    BY <1>2 DEF CloseOrReopen
  <1>3. ASSUME NEW a \in Accounts, SignIn(a) PROVE LedgerMove
    BY <1>3 DEF SignIn, TypeOK
  <1>4. ASSUME NEW w \in Workers, Crash(w) PROVE LedgerMove
    <2>1. NoNewLeaver
      BY <1>4, FinishNoLeaver DEF Crash, TypeOK, Requests
    <2> QED BY <1>4, <2>1 DEF Crash
  <1>5. CASE DayPasses
    BY <1>5 DEF DayPasses
  <1>6. CASE UNCHANGED vars
    BY <1>6 DEF vars
  <1> QED
    BY <1>1, <1>2, <1>3, <1>4, <1>5, <1>6, PersonStepMove, StaffStepMove DEF Next

-----------------------------------------------------------------------------
(***************************************************************************)
(* The inductive invariant: the cap, and the books that keep the counter   *)
(* above the number of holders.                                            *)
(***************************************************************************)
SeatInv == TypeOK /\ SeatCap /\ SeatBooks

LEMMA PeopleFinite ==
    ASSUME NEW S \in SUBSET Accounts
    PROVE  IsFiniteSet(S) /\ Cardinality(S) \in Nat
  BY AccountsFinite, FS_Subset, FS_CardinalityType

LEMMA InitInv == Init => SeatInv
  <1> SUFFICES ASSUME Init PROVE SeatInv
    OBVIOUS
  <1>1. TypeOK
    BY InitType
  <1>2. SeatCap
    <2> SUFFICES ASSUME NEW o \in Orgs, cap[o] # NoLimit PROVE claimed[o] <= cap[o]
      BY DEF SeatCap
    <2>1. cap[o] \in Nat /\ claimed[o] = 0
      BY <1>1 DEF Init, TypeOK
    <2> QED BY <2>1
  <1>3. HoldersPaid
    BY DEF Init, HoldersPaid
  <1>4. CountCoversPayers
    <2> SUFFICES ASSUME NEW o \in Orgs PROVE Cardinality(Payers(o)) <= claimed[o]
      BY DEF CountCoversPayers
    <2>1. Payers(o) = {} /\ claimed[o] = 0
      BY DEF Init, Payers
    <2> QED BY <2>1, FS_EmptySet
  <1>5. LeaversPaid
    BY DEF Init, LeaversPaid, Idle
  <1> QED BY <1>1, <1>2, <1>3, <1>4, <1>5 DEF SeatInv, SeatBooks

\* One person pays: the payers of one organization grow by at most that person.
LEMMA PayersGrow ==
    ASSUME TypeOK, NEW a \in Accounts, NEW o \in Orgs, CountCoversPayers,
           charged' = charged \cup {<<a, o>>},
           claimed' = [claimed EXCEPT ![o] = @ + 1]
    PROVE  CountCoversPayers'
  <1> SUFFICES ASSUME NEW q \in Orgs PROVE Cardinality(Payers(q)') <= claimed'[q]
    BY DEF CountCoversPayers
  <1>1. IsFiniteSet(Payers(q)) /\ Cardinality(Payers(q)) \in Nat
    BY PeopleFinite DEF Payers
  <1>2. Cardinality(Payers(q)) <= claimed[q] /\ claimed[q] \in Nat
    BY DEF CountCoversPayers, TypeOK
  <1>3. CASE q = o
    <2>1. Payers(q)' = Payers(q) \cup {a}
      BY <1>3 DEF Payers
    <2>2. claimed'[q] = claimed[q] + 1
      BY <1>3 DEF TypeOK
    <2>3. \/ Cardinality(Payers(q)') = Cardinality(Payers(q))
          \/ Cardinality(Payers(q)') = Cardinality(Payers(q)) + 1
      BY <2>1, <1>1, FS_AddElement
    <2> QED BY <2>2, <2>3, <1>1, <1>2
  <1>4. CASE q # o
    <2>1. Payers(q)' = Payers(q)
      BY <1>4 DEF Payers
    <2>2. claimed'[q] = claimed[q]
      BY <1>4 DEF TypeOK
    <2> QED BY <2>1, <2>2, <1>2
  <1> QED BY <1>3, <1>4

\* One paid seat is handed back: the payers shrink by exactly that person.
LEMMA PayersShrink ==
    ASSUME TypeOK, NEW a \in Accounts, NEW o \in Orgs, CountCoversPayers,
           <<a, o>> \in charged,
           charged' = charged \ {<<a, o>>},
           claimed' = [claimed EXCEPT ![o] = IF @ >= 1 THEN @ - 1 ELSE 0]
    PROVE  CountCoversPayers' /\ claimed[o] >= 1
  <1>0. IsFiniteSet(Payers(o)) /\ Cardinality(Payers(o)) \in Nat /\ a \in Payers(o)
    BY PeopleFinite DEF Payers
  <1>1. Cardinality(Payers(o)) <= claimed[o] /\ claimed[o] \in Nat
    BY DEF CountCoversPayers, TypeOK
  <1>2. Cardinality(Payers(o) \ {a}) = Cardinality(Payers(o)) - 1
    BY <1>0, FS_RemoveElement
  <1>3. Cardinality(Payers(o) \ {a}) \in Nat
    BY PeopleFinite DEF Payers
  <1>4. claimed[o] >= 1
    BY <1>0, <1>1, <1>2, <1>3
  <1>5. Payers(o)' = Payers(o) \ {a} /\ claimed'[o] = claimed[o] - 1
    BY <1>4 DEF Payers, TypeOK
  <1>6. ASSUME NEW q \in Orgs, q # o PROVE Payers(q)' = Payers(q) /\ claimed'[q] = claimed[q]
    BY <1>6 DEF Payers, TypeOK
  <1>7. ASSUME NEW q \in Orgs PROVE Cardinality(Payers(q)') <= claimed'[q]
    <2>1. CASE q = o
      BY <2>1, <1>0, <1>1, <1>2, <1>5
    <2>2. CASE q # o
      BY <2>2, <1>6 DEF CountCoversPayers
    <2> QED BY <2>1, <2>2
  <1> QED BY <1>4, <1>7 DEF CountCoversPayers

LEMMA PayersSame ==
    ASSUME CountCoversPayers, UNCHANGED <<claimed, charged>>
    PROVE  CountCoversPayers'
  BY DEF CountCoversPayers, Payers

(***************************************************************************)
(* Each way the ledger moves keeps the cap and the books.                  *)
(***************************************************************************)
LEMMA RedeemKeeps ==
    ASSUME SeatInv, NEW a \in Accounts, NEW o \in Orgs,
           RedeemOk(a, o), UNCHANGED <<acct, cap>>, NoNewLeaver
    PROVE  SeatCap' /\ SeatBooks'
  <1> USE DEF SeatInv, SeatBooks
  <1>1. CASE TakeBackSeat(a, o)
    <2>1. SeatCap'
      BY <1>1 DEF TakeBackSeat, SeatCap
    <2>2. HoldersPaid'
      BY <1>1 DEF TakeBackSeat, Returning, HoldersPaid
    <2>3. CountCoversPayers'
      BY <1>1, PayersSame DEF TakeBackSeat
    <2>4. LeaversPaid'
      BY <1>1 DEF TakeBackSeat, LeaversPaid, NoNewLeaver
    <2> QED BY <2>1, <2>2, <2>3, <2>4
  <1>2. CASE SpendSeat(a, o)
    <2>1. SeatCap'
      BY <1>2 DEF SpendSeat, NewSeat, SeatFree, SeatCap, TypeOK, LimitAssumption
    <2>2. HoldersPaid'
      BY <1>2 DEF SpendSeat, NewSeat, Joinable, HoldersPaid
    <2>3. CountCoversPayers'
      BY <1>2, PayersGrow DEF SpendSeat
    <2>4. LeaversPaid'
      BY <1>2 DEF SpendSeat, LeaversPaid, NoNewLeaver
    <2> QED BY <2>1, <2>2, <2>3, <2>4
  <1> QED BY <1>1, <1>2 DEF RedeemOk

LEMMA RevokeKeeps ==
    ASSUME SeatInv, NEW a \in Accounts, NEW o \in Orgs,
           FreeSeat(a, o), acct[a] = "shell", UNCHANGED <<acct, cap>>, NoNewLeaver
    PROVE  SeatCap' /\ SeatBooks'
  <1> USE DEF SeatInv, SeatBooks
  <1>0. UNCHANGED departed
    BY DEF FreeSeat
  <1>1. CASE <<a, o>> \in member
    <2>1. /\ charged' = charged \ {<<a, o>>}
          /\ claimed' = [claimed EXCEPT ![o] = IF @ >= 1 THEN @ - 1 ELSE 0]
          /\ member' = member \ {<<a, o>>}
          /\ <<a, o>> \in charged /\ <<a, o>> \notin departed
      BY <1>1 DEF FreeSeat, HoldersPaid
    <2>2. CountCoversPayers' /\ claimed[o] >= 1
      BY <2>1, PayersShrink
    <2>3. SeatCap'
      <3> SUFFICES ASSUME NEW q \in Orgs, cap[q] # NoLimit PROVE claimed'[q] <= cap[q]
        BY <1>0 DEF SeatCap
      <3>1. claimed[q] <= cap[q] /\ claimed[q] \in Nat /\ cap[q] \in Nat
        BY DEF SeatCap, TypeOK
      <3>2. claimed'[q] = claimed[q] \/ claimed'[q] = claimed[q] - 1
        BY <2>1, <2>2 DEF TypeOK
      <3> QED BY <3>1, <3>2
    <2>4. HoldersPaid'
      BY <1>0, <2>1 DEF HoldersPaid
    <2>5. LeaversPaid'
      <3> SUFFICES ASSUME NEW w \in Workers, req'[w].at = "leaveAll", req'[w].left # {}
                   PROVE  /\ acct[req[w].who] = "active"
                          /\ {req[w].who} \X req[w].left \subseteq charged'
        BY DEF LeaversPaid, NoNewLeaver
      <3>1. acct[req[w].who] = "active" /\ {req[w].who} \X req[w].left \subseteq charged
        BY DEF LeaversPaid, NoNewLeaver
      <3>2. req[w].who # a
        BY <3>1
      <3> QED BY <3>1, <3>2, <2>1
    <2> QED BY <2>2, <2>3, <2>4, <2>5
  <1>2. CASE <<a, o>> \notin member
    <2>1. UNCHANGED <<member, charged, claimed>>
      BY <1>2 DEF FreeSeat, TypeOK
    <2>2. SeatCap' /\ HoldersPaid' /\ LeaversPaid'
      BY <1>0, <2>1 DEF SeatCap, HoldersPaid, LeaversPaid, NoNewLeaver
    <2> QED BY <2>1, <2>2, PayersSame
  <1> QED BY <1>1, <1>2

LEMMA LeaveKeeps ==
    ASSUME SeatInv, NEW a \in Accounts, NEW o \in Orgs, LeaveOrg(a, o)
    PROVE  SeatCap' /\ SeatBooks'
  <1> USE DEF SeatInv, SeatBooks, codes
  <1>1. SeatCap' /\ LeaversPaid'
    BY DEF LeaveOrg, SeatCap, LeaversPaid
  <1>2. HoldersPaid'
    BY DEF LeaveOrg, HoldersPaid
  <1>3. CountCoversPayers'
    BY PayersSame DEF LeaveOrg
  <1> QED BY <1>1, <1>2, <1>3

LEMMA EraseDataKeeps ==
    ASSUME SeatInv, NEW w \in Workers, NEW a \in Accounts, NEW o \in Orgs, EraseData(w, a, o)
    PROVE  SeatCap' /\ SeatBooks'
  <1> USE DEF SeatInv, SeatBooks, codes, ledger
  <1>1. SeatCap' /\ HoldersPaid'
    BY DEF EraseData, SeatCap, HoldersPaid
  <1>2. CountCoversPayers'
    BY PayersSame DEF EraseData
  <1>3. LeaversPaid'
    <2>1. {a} \X {q \in Orgs : <<a, q>> \in member} \subseteq charged
      BY DEF HoldersPaid
    <2> QED BY <2>1 DEF EraseData, LeaversPaid, TypeOK
  <1> QED BY <1>1, <1>2, <1>3

LEMMA LeaveAllKeeps ==
    ASSUME SeatInv, NEW w \in Workers, NEW a \in Accounts, NEW o \in Orgs,
           LeaveAll(w, a, o), NoNewLeaver
    PROVE  SeatCap' /\ SeatBooks'
  <1> USE DEF SeatInv, SeatBooks, codes
  <1>1. {a} \X req[w].left \subseteq charged
    <2>1. CASE req[w].left = {}
      BY <2>1
    <2>2. CASE req[w].left # {}
      BY <2>2 DEF LeaveAll, At, LeaversPaid
    <2> QED BY <2>1, <2>2
  <1>2. SeatCap' /\ LeaversPaid'
    BY DEF LeaveAll, SeatCap, LeaversPaid, NoNewLeaver
  <1>3. HoldersPaid'
    <2>1. req[w].left \subseteq Orgs
      BY DEF LeaveAll, At, TypeOK, Request, Idle
    <2> QED BY <1>1, <2>1 DEF LeaveAll, HoldersPaid
  <1>4. CountCoversPayers'
    BY PayersSame DEF LeaveAll
  <1> QED BY <1>2, <1>3, <1>4

LEMMA DropKeeps ==
    ASSUME SeatInv, NEW a \in Accounts,
           DropAccount(a), ~RowPinned(a), UNCHANGED cap, NoNewLeaver
    PROVE  SeatCap' /\ SeatBooks'
  <1> USE DEF SeatInv, SeatBooks
  <1>1. SeatCap' /\ HoldersPaid'
    BY DEF DropAccount, SeatCap, HoldersPaid
  <1>2. CountCoversPayers'
    BY PayersSame DEF DropAccount
  <1>3. LeaversPaid'
    <2> SUFFICES ASSUME NEW w \in Workers, req'[w].at = "leaveAll", req'[w].left # {}
                 PROVE  /\ acct'[req'[w].who] = "active"
                        /\ {req'[w].who} \X req'[w].left \subseteq charged'
      BY DEF LeaversPaid
    <2>1. req'[w] = req[w] /\ req[w].at = "leaveAll" /\ req[w].left # {}
      BY DEF NoNewLeaver
    <2>2. req[w].who # a
      BY <2>1 DEF RowPinned, Free, Idle
    <2>3. acct[req[w].who] = "active" /\ {req[w].who} \X req[w].left \subseteq charged
      BY <2>1 DEF LeaversPaid
    <2>4. acct'[req[w].who] = acct[req[w].who]
      BY <2>2, <2>3 DEF DropAccount, TypeOK
    <2> QED BY <2>1, <2>3, <2>4 DEF DropAccount
  <1> QED BY <1>1, <1>2, <1>3

LEMMA RaiseKeeps ==
    ASSUME SeatInv, NEW o \in Orgs, addOrgSeats(o)
    PROVE  SeatCap' /\ SeatBooks'
  <1> USE DEF SeatInv, SeatBooks, ledger
  <1>1. SeatCap'
    <2> SUFFICES ASSUME NEW q \in Orgs, cap'[q] # NoLimit PROVE claimed'[q] <= cap'[q]
      BY DEF SeatCap
    <2>1. claimed'[q] = claimed[q] /\ claimed[q] \in Nat
      BY DEF addOrgSeats, TypeOK
    <2>2. CASE q = o
      <3>1. cap[o] \in Nat /\ cap'[o] = cap[o] + 1
        BY DEF addOrgSeats, TypeOK
      <3> QED BY <2>1, <2>2, <3>1 DEF SeatCap, addOrgSeats
    <2>3. CASE q # o
      BY <2>1, <2>3 DEF addOrgSeats, SeatCap, TypeOK
    <2> QED BY <2>2, <2>3
  <1>2. HoldersPaid' /\ LeaversPaid'
    BY DEF addOrgSeats, HoldersPaid, LeaversPaid
  <1>3. CountCoversPayers'
    BY PayersSame DEF addOrgSeats
  <1> QED BY <1>1, <1>2, <1>3

LEMMA IdleKeeps ==
    ASSUME SeatInv, UNCHANGED <<ledger, cap>>, ActiveStays, NoNewLeaver, TypeOK'
    PROVE  SeatCap' /\ SeatBooks'
  <1> USE DEF SeatInv, SeatBooks, ledger
  <1>1. SeatCap' /\ HoldersPaid'
    BY DEF SeatCap, HoldersPaid
  <1>2. CountCoversPayers'
    BY PayersSame
  <1>3. LeaversPaid'
    <2> SUFFICES ASSUME NEW w \in Workers, req'[w].at = "leaveAll", req'[w].left # {}
                 PROVE  /\ acct'[req'[w].who] = "active"
                        /\ {req'[w].who} \X req'[w].left \subseteq charged'
      BY DEF LeaversPaid
    <2>1. req'[w] = req[w] /\ req[w].at = "leaveAll" /\ req[w].left # {}
      BY DEF NoNewLeaver
    <2>2. req[w].who \in Accounts
      BY <2>1 DEF TypeOK, Request, Idle
    <2> QED BY <2>1, <2>2 DEF LeaversPaid, ActiveStays
  <1> QED BY <1>1, <1>2, <1>3

LEMMA InvStep == SeatInv /\ [Next]_vars => SeatInv'
  <1> SUFFICES ASSUME SeatInv, [Next]_vars PROVE SeatInv'
    OBVIOUS
  <1>1. TypeOK'
    BY TypeStep DEF SeatInv
  <1>2. LedgerMove
    BY EveryStepMoves DEF SeatInv
  <1>3. SeatCap' /\ SeatBooks'
    BY <1>1, <1>2, RedeemKeeps, RevokeKeeps, LeaveKeeps, EraseDataKeeps, LeaveAllKeeps,
       DropKeeps, RaiseKeeps, IdleKeeps DEF LedgerMove
  <1> QED BY <1>1, <1>3 DEF SeatInv

LEMMA InvAlways == Spec => []SeatInv
  BY InitInv, InvStep, PTL DEF Spec

(***************************************************************************)
(* No interleaving of joins, invites, accepts, refunds and crashes spends  *)
(* more seats than an organization has bought.                             *)
(***************************************************************************)
THEOREM NeverOverCap == Spec => []SeatCap
  BY InvAlways, PTL DEF SeatInv

(***************************************************************************)
(* Members and the departed each hold a paid seat, including across a      *)
(* leave-all that is still in flight.                                      *)
(***************************************************************************)
THEOREM BooksBalance == Spec => []SeatBooks
  BY InvAlways, PTL DEF SeatInv

(***************************************************************************)
(* The seat counter never says fewer seats are used than people hold one.  *)
(***************************************************************************)
THEOREM CounterCoversHolders == Spec => []LedgerCovers
  <1>1. ASSUME SeatInv PROVE LedgerCovers
    <2> SUFFICES ASSUME NEW o \in Orgs PROVE Cardinality(Holders(o)) <= claimed[o]
      BY DEF LedgerCovers
    <2>1. Holders(o) \subseteq Payers(o)
      BY <1>1 DEF SeatInv, SeatBooks, HoldersPaid, Holders, Payers
    <2>2. IsFiniteSet(Payers(o)) /\ Cardinality(Payers(o)) \in Nat
      BY PeopleFinite DEF Payers
    <2>3. Cardinality(Holders(o)) <= Cardinality(Payers(o)) /\ Cardinality(Holders(o)) \in Nat
      BY <2>1, <2>2, FS_Subset, FS_CardinalityType
    <2>4. Cardinality(Payers(o)) <= claimed[o] /\ claimed[o] \in Nat
      BY <1>1 DEF SeatInv, SeatBooks, CountCoversPayers, TypeOK
    <2> QED BY <2>2, <2>3, <2>4
  <1> QED BY <1>1, InvAlways, PTL

-----------------------------------------------------------------------------
(***************************************************************************)
(* What each step may do to the counter.                                   *)
(***************************************************************************)
LEMMA RevokeFrees ==
    ASSUME SeatInv, NEW a \in Accounts, NEW o \in Orgs, FreeSeat(a, o)
    PROVE  \/ UNCHANGED <<member, claimed, charged>>
           \/ /\ <<a, o>> \in member \ member'
              /\ <<a, o>> \in charged
              /\ claimed' = [claimed EXCEPT ![o] = @ - 1]
              /\ charged' = charged \ {<<a, o>>}
  <1> USE DEF SeatInv, SeatBooks
  <1>1. CASE <<a, o>> \in member
    <2>1. /\ charged' = charged \ {<<a, o>>}
          /\ claimed' = [claimed EXCEPT ![o] = IF @ >= 1 THEN @ - 1 ELSE 0]
          /\ member' = member \ {<<a, o>>}
          /\ <<a, o>> \in charged
      BY <1>1 DEF FreeSeat, HoldersPaid
    <2>2. claimed[o] >= 1
      BY <2>1, PayersShrink
    <2> QED BY <1>1, <2>1, <2>2 DEF FreeSeat
  <1>2. CASE <<a, o>> \notin member
    BY <1>2 DEF FreeSeat, TypeOK
  <1> QED BY <1>1, <1>2

(***************************************************************************)
(* Seats are durable: the counter goes down only with the membership of a  *)
(* person who never signed in, one seat for one person.                    *)
(***************************************************************************)
THEOREM SeatsAreDurable == Spec => DurableSeats
  <1> DEFINE Durable ==
        \A o \in Orgs : claimed'[o] < claimed[o] =>
          /\ claimed'[o] = claimed[o] - 1
          /\ \E a \in Accounts : acct[a] = "shell" /\ <<a, o>> \in member \ member'
  <1>1. ASSUME SeatInv, [Next]_vars PROVE Durable
    <2> SUFFICES ASSUME NEW q \in Orgs, claimed'[q] < claimed[q]
                 PROVE  /\ claimed'[q] = claimed[q] - 1
                        /\ \E a \in Accounts : acct[a] = "shell" /\ <<a, q>> \in member \ member'
      OBVIOUS
    <2>1. LedgerMove /\ claimed[q] \in Nat
      BY <1>1, EveryStepMoves DEF SeatInv, TypeOK
    <2>2. ASSUME NEW a \in Accounts, NEW o \in Orgs, RedeemOk(a, o) PROVE FALSE
      BY <1>1, <2>1, <2>2 DEF RedeemOk, TakeBackSeat, SpendSeat, SeatInv, TypeOK
    <2>3. UNCHANGED claimed => FALSE
      BY <2>1
    <2>4. PICK a \in Accounts, o \in Orgs : FreeSeat(a, o) /\ acct[a] = "shell"
      BY <2>1, <2>2, <2>3 DEF LedgerMove, LeaveOrg, EraseData, LeaveAll, DropAccount, addOrgSeats, ledger
    <2>5. /\ <<a, o>> \in member \ member' /\ acct[a] = "shell"
          /\ claimed' = [claimed EXCEPT ![o] = @ - 1]
      BY <1>1, <2>3, <2>4, RevokeFrees
    <2>6. q = o
      BY <1>1, <2>1, <2>5 DEF SeatInv, TypeOK
    <2> QED BY <1>1, <2>5, <2>6 DEF SeatInv, TypeOK
  <1> QED BY <1>1, InvAlways, PTL DEF Spec, DurableSeats

(***************************************************************************)
(* Coming back costs nothing: a departed person who is a member again did  *)
(* not move the counter, at any door and however full the pool is.         *)
(***************************************************************************)
THEOREM ComingBackIsFree == Spec => ReturnIsFree
  <1> DEFINE FreeReturn ==
        \A a \in Accounts, o \in Orgs :
          <<a, o>> \in departed \cap (member' \ member) => claimed'[o] = claimed[o]
  <1>1. ASSUME SeatInv, [Next]_vars PROVE FreeReturn
    <2> SUFFICES ASSUME NEW b \in Accounts, NEW q \in Orgs,
                        <<b, q>> \in departed, <<b, q>> \in member', <<b, q>> \notin member
                 PROVE  claimed'[q] = claimed[q]
      OBVIOUS
    <2>1. LedgerMove
      BY <1>1, EveryStepMoves DEF SeatInv
    <2>2. ASSUME NEW a \in Accounts, NEW o \in Orgs, RedeemOk(a, o) PROVE claimed'[q] = claimed[q]
      <3>1. CASE TakeBackSeat(a, o)
        BY <3>1 DEF TakeBackSeat
      <3>2. CASE SpendSeat(a, o)
        <4>1. <<a, o>> # <<b, q>>
          BY <3>2 DEF SpendSeat, NewSeat
        <4> QED BY <3>2, <4>1 DEF SpendSeat
      <3> QED BY <2>2, <3>1, <3>2 DEF RedeemOk
    <2>3. member' \subseteq member => FALSE
      OBVIOUS
    <2> QED BY <2>1, <2>2, <2>3
       DEF LedgerMove, FreeSeat, LeaveOrg, EraseData, LeaveAll, DropAccount, addOrgSeats, ledger
  <1> QED BY <1>1, InvAlways, PTL DEF Spec, ReturnIsFree

-----------------------------------------------------------------------------
(***************************************************************************)
(* Refinement.  Each step of the requests is a charge, a refund, a raised  *)
(* cap, or nothing, in the ledger an organization is promised.             *)
(***************************************************************************)
LEMMA LedgerStep ==
    ASSUME SeatInv, [Next]_vars
    PROVE  [Ledger!Next]_(Ledger!ledgerVars)
  <1> DEFINE Quiet == UNCHANGED <<claimed, cap, charged>>
  <1> DEFINE Goal == Quiet \/ Ledger!Next
  <1>1. ASSUME NEW a \in Accounts, NEW o \in Orgs, RedeemOk(a, o), UNCHANGED cap PROVE Goal
    <2>1. CASE TakeBackSeat(a, o)
      BY <1>1, <2>1 DEF TakeBackSeat
    <2>2. CASE SpendSeat(a, o)
      <3>1. Ledger!Charge(a, o)
        BY <1>1, <2>2 DEF SpendSeat, NewSeat, SeatFree, Ledger!Charge
      <3> QED BY <3>1 DEF Ledger!Next
    <2> QED BY <1>1, <2>1, <2>2 DEF RedeemOk
  <1>2. ASSUME NEW a \in Accounts, NEW o \in Orgs, FreeSeat(a, o), UNCHANGED cap PROVE Goal
    <2>2. CASE UNCHANGED <<member, claimed, charged>>
      BY <1>2, <2>2
    <2>3. CASE ~UNCHANGED <<member, claimed, charged>>
      <3>1. Ledger!Refund(a, o)
        BY <1>2, <2>3, RevokeFrees DEF Ledger!Refund
      <3> QED BY <3>1 DEF Ledger!Next
    <2> QED BY <2>2, <2>3
  <1>3. ASSUME NEW o \in Orgs, addOrgSeats(o) PROVE Goal
    <2>1. Ledger!RaiseCap(o)
      BY <1>3 DEF addOrgSeats, ledger, Ledger!RaiseCap
    <2> QED BY <2>1 DEF Ledger!Next
  <1>4. LedgerMove
    BY EveryStepMoves DEF SeatInv
  <1>5. Goal
    BY <1>1, <1>2, <1>3, <1>4
       DEF LedgerMove, LeaveOrg, EraseData, LeaveAll, DropAccount, ledger, codes
  <1> QED BY <1>5 DEF Ledger!ledgerVars

(***************************************************************************)
(* The database's counter implements the ledger, for any organizations and *)
(* any number of requests in flight.                                       *)
(***************************************************************************)
THEOREM ImplementsLedger == Spec => LedgerSpec
  <1>1. Init => Ledger!Init
    BY DEF Init, Ledger!Init
  <1>2. SeatInv /\ [Next]_vars => [Ledger!Next]_(Ledger!ledgerVars)
    BY LedgerStep
  <1> QED BY <1>1, <1>2, InvAlways, PTL DEF Spec, LedgerSpec, Ledger!Spec

-----------------------------------------------------------------------------
(***************************************************************************)
(* When the requests about one person keep apart: while a request is under *)
(* way, no other step changes that person's account or memberships.  One   *)
(* worker alone always keeps apart; so do many, about different people.    *)
(***************************************************************************)
PersonStays(a) ==
    /\ acct'[a] = acct[a]
    /\ \A o \in Orgs : <<a, o>> \in member' <=> <<a, o>> \in member

Undisturbed ==
    \A w \in Workers : ~Free(w) /\ req'[w] = req[w] => PersonStays(req[w].who)
RequestsKeepApart == [][Undisturbed]_vars

\* What a request read when it began is still so when it writes.
Prepared(w) ==
    /\ req[w].at \in {"attribute", "accept"} => acct[req[w].who] = "active"
    /\ req[w].at \in {"claim", "claimNew"} => acct[req[w].who] = "shell"
    /\ req[w].at = "leaveAll" =>
         /\ acct[req[w].who] = "active"
         /\ req[w].left = {q \in Orgs : <<req[w].who, q>> \in member}

\* Whoever paid a seat holds it, as a member or departed, until they are gone.
OnlyTheGone ==
    \A a \in Accounts, o \in Orgs :
        <<a, o>> \in charged \ (member \cup departed) => acct[a] = "gone"

Settled == SeatInv /\ SeatsMatchPeople /\ OnlyTheGone /\ \A w \in Workers : Prepared(w)

LEMMA InitSettled == Init => Settled
  <1> SUFFICES ASSUME Init PROVE Settled
    OBVIOUS
  <1>1. ASSUME NEW o \in Orgs PROVE claimed[o] = Cardinality(Payers(o))
    <2>1. Payers(o) = {} /\ claimed[o] = 0
      BY DEF Init, Payers
    <2> QED BY <2>1, FS_EmptySet
  <1>2. OnlyTheGone
    BY DEF Init, OnlyTheGone
  <1>3. \A w \in Workers : Prepared(w)
    BY DEF Init, Prepared, Idle
  <1> QED BY <1>1, <1>2, <1>3, InitInv DEF Settled, SeatsMatchPeople

(***************************************************************************)
(* A request that waits stays prepared, and one that steps prepares.       *)
(***************************************************************************)
LEMMA WaitingStaysPrepared ==
    ASSUME Settled, [Undisturbed]_vars, NEW w \in Workers, req'[w] = req[w]
    PROVE  Prepared(w)'
  <1>0. Prepared(w) /\ TypeOK
    BY DEF Settled, SeatInv
  <1>1. CASE Free(w)
    BY <1>1 DEF Free, Prepared, Idle
  <1>2. CASE ~Free(w)
    <2>1. req[w].who \in Accounts /\ PersonStays(req[w].who)
      BY <1>0, <1>2 DEF Free, TypeOK, Request, Undisturbed, PersonStays, vars, ledger
    <2> QED BY <1>0, <2>1 DEF Prepared, PersonStays
  <1> QED BY <1>1, <1>2

Prepares(w, a, o) ==
    \/ ensureUserAttribution(w, a, o) \/ AcceptCheck(w, a, o) \/ EraseData(w, a, o)
    \/ InviteNew(w, a, o) \/ InviteCheck(w, a, o)

Unprepared == {"attribute", "accept", "claim", "claimNew", "leaveAll"}

LEMMA BeginsAt ==
    ASSUME TypeOK, NEW v \in Workers, NEW w \in Workers, NEW stage, NEW a, NEW o,
           Begin(v, stage, a, o), req'[w] # req[w]
    PROVE  v = w /\ req'[w].at = stage /\ req'[w].who = a
  BY DEF TypeOK, Begin

LEMMA FinishesAt ==
    ASSUME TypeOK, NEW v \in Workers, NEW w \in Workers, Finish(v), req'[w] # req[w]
    PROVE  v = w /\ req'[w] = Idle
  BY DEF TypeOK, Finish

LEMMA StepPrepares ==
    ASSUME Settled, Next, NEW w \in Workers, req'[w] # req[w]
    PROVE  \/ \E a \in Accounts, o \in Orgs : Prepares(w, a, o)
           \/ req'[w] = Idle
           \/ req'[w].at \notin Unprepared
  <1>0. TypeOK
    BY DEF Settled, SeatInv
  <1>1. ASSUME NEW v \in Workers, NEW a \in Accounts, NEW o \in Orgs, Prepares(v, a, o)
        PROVE  v = w
    BY <1>0, <1>1, BeginsAt DEF Prepares, ensureUserAttribution, AcceptCheck, EraseData, InviteNew,
       InviteCheck, TypeOK
  <1>2. ASSUME NEW v \in Workers, NEW a \in Accounts, NEW o \in Orgs,
               NEW stage \in Stages \ Unprepared, Begin(v, stage, a, o)
        PROVE  req'[w].at \notin Unprepared
    BY <1>0, <1>2, BeginsAt
  <1>3. ASSUME NEW v \in Workers, Finish(v) PROVE req'[w] = Idle
    BY <1>0, <1>3, FinishesAt
  <1>4. {"rollback", "list", "relist", "relistFresh", "free", "unlist", "reopen", "eraseAccount"}
          \subseteq Stages \ Unprepared
    BY DEF Stages, Unprepared
  <1>5. ASSUME NEW v \in Workers, NEW a \in Accounts, NEW o \in Orgs,
               PersonStep(v, a, o), ~Prepares(v, a, o)
        PROVE  req'[w] = Idle \/ req'[w].at \notin Unprepared
    BY <1>2, <1>3, <1>4, <1>5 DEF PersonStep, Prepares, AttributeRedeem, AcceptRedeem, LeaveAll,
       EraseAccount
  <1>6. ASSUME NEW v \in Workers, NEW a \in Accounts, NEW o \in Orgs,
               StaffStep(v, a, o), ~Prepares(v, a, o)
        PROVE  req'[w] = Idle \/ req'[w].at \notin Unprepared
    BY <1>2, <1>3, <1>4, <1>6 DEF StaffStep, Prepares, InviteClaim, InviteRollback, InviteList,
       InviteOffer, InviteRelist, ResendTouch, ResendOffer, RevokeSees, RevokeInvite, RevokeOffer,
       RevokeUnlist
  <1>7. ASSUME NEW a \in Accounts, NEW o \in Orgs, OneTransaction(a, o) PROVE FALSE
    BY <1>7 DEF OneTransaction, redeemAccessCode, AcceptAlreadyIn, Decline, ResendInvite,
       LeaveOrg
  <1> QED BY <1>1, <1>3, <1>5, <1>6, <1>7 DEF Next, addOrgSeats, CloseOrReopen, SignIn, Crash,
       DayPasses

LEMMA PreparesPrepared ==
    ASSUME Settled, NEW w \in Workers, NEW a \in Accounts, NEW o \in Orgs, Prepares(w, a, o),
           req'[w] # req[w]
    PROVE  Prepared(w)'
  <1>0. TypeOK
    BY DEF Settled, SeatInv
  <1>1. CASE ensureUserAttribution(w, a, o)
    BY <1>0, <1>1, BeginsAt DEF ensureUserAttribution, Prepared
  <1>2. CASE AcceptCheck(w, a, o)
    BY <1>0, <1>2, BeginsAt DEF AcceptCheck, CanAnswer, Prepared
  <1>3. CASE EraseData(w, a, o)
    <2>1. req'[w] = [at |-> "leaveAll", who |-> a, org |-> o,
                     left |-> {q \in Orgs : <<a, q>> \in member}]
      BY <1>0, <1>3 DEF EraseData, TypeOK
    <2> QED BY <1>3, <2>1 DEF EraseData, Prepared, ledger
  <1>4. CASE InviteNew(w, a, o)
    <2>1. acct'[a] = "shell"
      BY <1>0, <1>4 DEF InviteNew, TypeOK
    <2> QED BY <1>0, <1>4, <2>1, BeginsAt DEF InviteNew, Prepared
  <1>5. CASE InviteCheck(w, a, o)
    BY <1>0, <1>5, BeginsAt DEF InviteCheck, Prepared
  <1> QED BY <1>1, <1>2, <1>3, <1>4, <1>5 DEF Prepares

LEMMA AllPrepared ==
    ASSUME Settled, [Next]_vars, [Undisturbed]_vars, NEW w \in Workers
    PROVE  Prepared(w)'
  <1>1. CASE req'[w] = req[w]
    BY <1>1, WaitingStaysPrepared
  <1>2. CASE req'[w] # req[w]
    <2>1. Next
      BY <1>2 DEF vars
    <2>2. CASE req'[w] = Idle
      BY <2>2 DEF Prepared, Idle
    <2>3. CASE req'[w].at \notin Unprepared
      BY <2>3 DEF Prepared, Unprepared
    <2> QED BY <1>2, <2>1, <2>2, <2>3, StepPrepares, PreparesPrepared
  <1> QED BY <1>1, <1>2

(***************************************************************************)
(* How the seats move when every writer is prepared.                       *)
(***************************************************************************)
GoneStays == \A a \in Accounts : acct[a] = "gone" => acct'[a] = "gone"
SeatMove ==
    \/ \E a \in Accounts, o \in Orgs :
          \/ SpendSeat(a, o) /\ acct[a] # "gone" /\ UNCHANGED acct
          \/ TakeBackSeat(a, o) /\ UNCHANGED acct
          \/ FreeSeat(a, o) /\ acct[a] = "shell" /\ UNCHANGED acct
          \/ LeaveOrg(a, o)
          \/ \E w \in Workers : LeaveAll(w, a, o)
    \/ \E a \in Accounts : DropAccount(a)
    \/ UNCHANGED ledger /\ GoneStays

LEMMA PreparedMove ==
    ASSUME Settled, [Next]_vars
    PROVE  SeatMove
  <1> USE DEF codes
  <1>0. /\ TypeOK
        /\ \A w \in Workers, a \in Accounts, o \in Orgs, stage \in Unprepared :
              At(w, stage, a, o) => acct[a] # "gone"
    BY DEF Settled, SeatInv, Prepared, At, Unprepared
  <1>1. ASSUME NEW a \in Accounts, NEW o \in Orgs, RedeemOk(a, o), acct[a] # "gone", UNCHANGED acct
        PROVE  SeatMove
    BY <1>1 DEF RedeemOk, SeatMove
  <1>2. ASSUME UNCHANGED <<ledger, acct>> PROVE SeatMove
    BY <1>2 DEF SeatMove, GoneStays
  <1>3. ASSUME NEW w \in Workers, NEW a \in Accounts, NEW o \in Orgs, PersonStep(w, a, o)
        PROVE  SeatMove
    <2>1. CASE AttributeRedeem(w, a, o) \/ AcceptRedeem(w, a, o)
      BY <1>0, <1>1, <1>2, <2>1 DEF AttributeRedeem, AcceptRedeem, RedeemRefused, Unprepared
    <2>2. CASE LeaveAll(w, a, o) \/ EraseAccount(w, a, o)
      BY <2>2 DEF SeatMove, EraseAccount
    <2> QED BY <1>2, <1>3, <2>1, <2>2 DEF PersonStep, ensureUserAttribution, AcceptCheck, EraseData
  <1>4. ASSUME NEW w \in Workers, NEW a \in Accounts, NEW o \in Orgs, StaffStep(w, a, o)
        PROVE  SeatMove
    <2>1. CASE InviteNew(w, a, o)
      BY <1>0, <2>1 DEF InviteNew, SeatMove, GoneStays, TypeOK
    <2>2. CASE InviteClaim(w, a, o)
      BY <1>0, <1>1, <1>2, <2>2 DEF InviteClaim, RedeemRefused, Unprepared
    <2>3. CASE InviteRollback(w, a, o)
      BY <2>3 DEF SeatMove, InviteRollback
    <2>4. CASE RevokeInvite(w, a, o)
      BY <1>2, <2>4 DEF SeatMove, RevokeInvite
    <2> QED BY <1>2, <1>4, <2>1, <2>2, <2>3, <2>4 DEF StaffStep, InviteCheck, InviteList, InviteOffer,
         InviteRelist, ResendTouch, ResendOffer, RevokeSees, RevokeOffer, RevokeUnlist
  <1>5. ASSUME NEW a \in Accounts, NEW o \in Orgs, OneTransaction(a, o) PROVE SeatMove
    <2>1. CASE redeemAccessCode(a, o)
      BY <1>1, <2>1 DEF redeemAccessCode
    <2>2. CASE LeaveOrg(a, o)
      BY <2>2 DEF SeatMove
    <2> QED BY <1>2, <1>5, <2>1, <2>2 DEF OneTransaction, AcceptAlreadyIn, Decline, ResendInvite
  <1>6. ASSUME NEW a \in Accounts, SignIn(a) PROVE SeatMove
    BY <1>0, <1>6 DEF SignIn, SeatMove, GoneStays, TypeOK
  <1> QED BY <1>2, <1>3, <1>4, <1>5, <1>6 DEF Next, addOrgSeats, CloseOrReopen, Crash, DayPasses,
       vars, ledger

LEMMA SpendCounts ==
    ASSUME Settled, NEW a \in Accounts, NEW o \in Orgs, SpendSeat(a, o), acct[a] # "gone"
    PROVE  SeatsMatchPeople'
  <1>0. TypeOK /\ SeatsMatchPeople /\ OnlyTheGone
    BY DEF Settled, SeatInv
  <1>1. a \notin Payers(o) /\ IsFiniteSet(Payers(o)) /\ Cardinality(Payers(o)) \in Nat
    BY <1>0, PeopleFinite DEF SpendSeat, NewSeat, Joinable, OnlyTheGone, Payers
  <1>2. Payers(o)' = Payers(o) \cup {a} /\ claimed'[o] = claimed[o] + 1
    BY <1>0 DEF SpendSeat, Payers, TypeOK
  <1>3. ASSUME NEW q \in Orgs, q # o PROVE Payers(q)' = Payers(q) /\ claimed'[q] = claimed[q]
    BY <1>0, <1>3 DEF SpendSeat, Payers, TypeOK
  <1>4. Cardinality(Payers(o) \cup {a}) = Cardinality(Payers(o)) + 1
    BY <1>1, FS_AddElement
  <1> QED BY <1>0, <1>2, <1>3, <1>4 DEF SeatsMatchPeople

LEMMA RefundCounts ==
    ASSUME Settled, NEW a \in Accounts, NEW o \in Orgs, FreeSeat(a, o)
    PROVE  SeatsMatchPeople'
  <1>0. SeatInv /\ TypeOK /\ SeatsMatchPeople
    BY DEF Settled, SeatInv
  <1>1. CASE UNCHANGED <<member, claimed, charged>>
    BY <1>0, <1>1 DEF SeatsMatchPeople, Payers
  <1>2. CASE ~UNCHANGED <<member, claimed, charged>>
    <2>1. /\ <<a, o>> \in charged
          /\ claimed' = [claimed EXCEPT ![o] = @ - 1]
          /\ charged' = charged \ {<<a, o>>}
      BY <1>0, <1>2, RevokeFrees
    <2>2. a \in Payers(o) /\ IsFiniteSet(Payers(o)) /\ Cardinality(Payers(o)) \in Nat
      BY <2>1, PeopleFinite DEF Payers
    <2>3. Payers(o)' = Payers(o) \ {a} /\ claimed'[o] = claimed[o] - 1
      BY <1>0, <2>1 DEF Payers, TypeOK
    <2>4. ASSUME NEW q \in Orgs, q # o PROVE Payers(q)' = Payers(q) /\ claimed'[q] = claimed[q]
      BY <1>0, <2>1, <2>4 DEF Payers, TypeOK
    <2>5. Cardinality(Payers(o) \ {a}) = Cardinality(Payers(o)) - 1
      BY <2>2, FS_RemoveElement
    <2> QED BY <1>0, <2>3, <2>4, <2>5 DEF SeatsMatchPeople
  <1> QED BY <1>1, <1>2

LEMMA MoveKeepsMatch ==
    ASSUME Settled, SeatMove
    PROVE  SeatsMatchPeople'
  <1>1. ASSUME UNCHANGED <<claimed, charged>> PROVE SeatsMatchPeople'
    BY <1>1 DEF Settled, SeatsMatchPeople, Payers
  <1> QED BY <1>1, SpendCounts, RefundCounts DEF SeatMove, TakeBackSeat, LeaveOrg, LeaveAll,
       DropAccount, ledger

LEMMA MoveKeepsGone ==
    ASSUME Settled, SeatMove
    PROVE  OnlyTheGone'
  <1> USE DEF OnlyTheGone
  <1>0. /\ TypeOK /\ HoldersPaid /\ OnlyTheGone /\ \A w \in Workers : Prepared(w)
    BY DEF Settled, SeatInv, SeatBooks
  <1>1. ASSUME NEW a \in Accounts, NEW o \in Orgs, SpendSeat(a, o), UNCHANGED acct PROVE OnlyTheGone'
    BY <1>0, <1>1 DEF SpendSeat
  <1>2. ASSUME NEW a \in Accounts, NEW o \in Orgs, TakeBackSeat(a, o), UNCHANGED acct PROVE OnlyTheGone'
    BY <1>0, <1>2 DEF TakeBackSeat
  <1>3. ASSUME NEW a \in Accounts, NEW o \in Orgs, FreeSeat(a, o), UNCHANGED acct PROVE OnlyTheGone'
    BY <1>0, <1>3 DEF FreeSeat
  <1>4. ASSUME NEW a \in Accounts, NEW o \in Orgs, LeaveOrg(a, o) PROVE OnlyTheGone'
    BY <1>0, <1>4 DEF LeaveOrg
  <1>5. ASSUME NEW w \in Workers, NEW a \in Accounts, NEW o \in Orgs, LeaveAll(w, a, o) PROVE OnlyTheGone'
    <2>1. req[w].left = {q \in Orgs : <<a, q>> \in member}
      BY <1>0, <1>5 DEF LeaveAll, At, Prepared
    <2> QED BY <1>0, <1>5, <2>1 DEF LeaveAll
  <1>6. ASSUME NEW a \in Accounts, DropAccount(a) PROVE OnlyTheGone'
    BY <1>0, <1>6 DEF DropAccount, TypeOK
  <1>7. CASE UNCHANGED ledger /\ GoneStays
    BY <1>0, <1>7 DEF ledger, GoneStays
  <1> QED BY <1>1, <1>2, <1>3, <1>4, <1>5, <1>6, <1>7 DEF SeatMove

LEMMA SettledStep == Settled /\ [Next]_vars /\ [Undisturbed]_vars => Settled'
  <1> SUFFICES ASSUME Settled, [Next]_vars, [Undisturbed]_vars PROVE Settled'
    OBVIOUS
  <1>1. SeatInv'
    BY InvStep DEF Settled
  <1> QED BY <1>1, AllPrepared, PreparedMove, MoveKeepsMatch, MoveKeepsGone DEF Settled

LEMMA SettledAlways == Spec /\ RequestsKeepApart => []Settled
  BY InitSettled, SettledStep, PTL DEF Spec, RequestsKeepApart

(***************************************************************************)
(* Nobody is charged two seats of one organization (096): the counter is   *)
(* the number of people charged and not refunded, for any number of        *)
(* requests, as long as those about one person keep apart.                 *)
(***************************************************************************)
THEOREM SeatsAlwaysMatchPeople == Spec /\ RequestsKeepApart => []SeatsMatchPeople
  BY SettledAlways, PTL DEF Settled

(***************************************************************************)
(* An account in use joins by its owner's own yes: what staff claim for a  *)
(* person is a shell, and stays one until the claim is made.               *)
(***************************************************************************)
THEOREM NobodyAttachedUnasked == Spec /\ RequestsKeepApart => ConsentOnAttach
  <1> DEFINE Consents ==
        \A a \in Accounts, o \in Orgs :
          <<a, o>> \in member' \ member /\ acct[a] = "active"
             => \/ redeemAccessCode(a, o)
                \/ \E w \in Workers : AttributeRedeem(w, a, o) \/ AcceptRedeem(w, a, o)
  <1>1. ASSUME Settled, Next PROVE Consents
    <2> SUFFICES ASSUME NEW b \in Accounts, NEW q \in Orgs,
                        <<b, q>> \in member', <<b, q>> \notin member, acct[b] = "active"
                 PROVE  \/ redeemAccessCode(b, q)
                        \/ \E w \in Workers : AttributeRedeem(w, b, q) \/ AcceptRedeem(w, b, q)
      OBVIOUS
    <2>1. ASSUME NEW a \in Accounts, NEW o \in Orgs, RedeemOk(a, o) PROVE a = b /\ o = q
      BY <2>1 DEF RedeemOk, TakeBackSeat, SpendSeat
    <2>2. member' \subseteq member => FALSE
      OBVIOUS
    <2>3. ASSUME NEW w \in Workers, NEW a \in Accounts, NEW o \in Orgs, PersonStep(w, a, o)
          PROVE  a = b /\ o = q /\ (AttributeRedeem(w, a, o) \/ AcceptRedeem(w, a, o))
      BY <2>1, <2>2, <2>3 DEF PersonStep, ensureUserAttribution, AttributeRedeem, AcceptCheck,
         AcceptRedeem, EraseData, LeaveAll, EraseAccount, DropAccount, RedeemRefused, ledger
    <2>4. ASSUME NEW w \in Workers, NEW a \in Accounts, NEW o \in Orgs, StaffStep(w, a, o)
          PROVE  FALSE
      <3>1. InviteClaim(w, a, o) /\ RedeemOk(a, o)
        BY <2>2, <2>4 DEF StaffStep, InviteNew, InviteCheck, InviteClaim, InviteRollback, DropAccount,
           InviteList, InviteOffer, InviteRelist, ResendTouch, ResendOffer, RevokeSees, RevokeInvite,
           FreeSeat, RevokeOffer, RevokeUnlist, RedeemRefused, ledger
      <3>2. acct[a] = "shell"
        BY <1>1, <3>1 DEF InviteClaim, At, Settled, Prepared
      <3> QED BY <2>1, <3>1, <3>2
    <2>5. ASSUME NEW a \in Accounts, NEW o \in Orgs, OneTransaction(a, o)
          PROVE  a = b /\ o = q /\ redeemAccessCode(a, o)
      BY <2>1, <2>2, <2>5 DEF OneTransaction, redeemAccessCode, AcceptAlreadyIn, Decline, ResendInvite,
         LeaveOrg, ledger
    <2> QED BY <1>1, <2>2, <2>3, <2>4, <2>5 DEF Next, addOrgSeats, CloseOrReopen, SignIn, Crash,
         DayPasses, ledger
  <1>2. Settled /\ [Next]_vars => [Consents]_vars
    BY <1>1
  <1> QED BY <1>2, SettledAlways, PTL DEF Spec, ConsentOnAttach

OneAtATime == \A v, w \in Workers : v = w

(***************************************************************************)
(* One worker keeps the requests apart: nothing else moves while it works. *)
(***************************************************************************)
THEOREM OneWorkerKeepsApart ==
    OneAtATime => (Spec => RequestsKeepApart)
  <1> SUFFICES ASSUME OneAtATime PROVE Spec => RequestsKeepApart
    OBVIOUS
  <1>1. ASSUME SeatInv, Next PROVE Undisturbed
    <2> SUFFICES ASSUME NEW w \in Workers, ~Free(w), req'[w] = req[w]
                 PROVE  PersonStays(req[w].who)
      BY DEF Undisturbed
    <2>0. ~SomeFree /\ TypeOK
      BY <1>1 DEF OneAtATime, SomeFree, SeatInv
    <2>1. ASSUME NEW v \in Workers, NEW a \in Accounts, NEW o \in Orgs, NEW stage \in Stages,
                 Begin(v, stage, a, o), req[v].at # stage
          PROVE  FALSE
      BY <2>0, <2>1 DEF OneAtATime, Begin, TypeOK
    <2>2. ASSUME NEW v \in Workers, Finish(v) PROVE FALSE
      BY <2>0, <2>2 DEF OneAtATime, Finish, TypeOK, Free
    <2>3. ASSUME NEW v \in Workers, NEW a \in Accounts, NEW o \in Orgs, PersonStep(v, a, o)
          PROVE  FALSE
      <3>1. ~Free(v)
        BY DEF OneAtATime
      <3> QED BY <2>1, <2>2, <2>3, <3>1 DEF PersonStep, ensureUserAttribution, AttributeRedeem,
           AcceptCheck, AcceptRedeem, EraseData, LeaveAll, EraseAccount, At, Stages
    <2>4. ASSUME NEW v \in Workers, NEW a \in Accounts, NEW o \in Orgs, StaffStep(v, a, o)
          PROVE  FALSE
      <3>1. ~Free(v)
        BY DEF OneAtATime
      <3> QED BY <2>1, <2>2, <2>4, <3>1 DEF StaffStep, InviteNew, InviteCheck, InviteClaim,
           InviteRollback, InviteList, InviteOffer, InviteRelist, ResendTouch, ResendOffer,
           RevokeSees, RevokeInvite, RevokeOffer, RevokeUnlist, At, Stages
    <2>5. ASSUME NEW a \in Accounts, NEW o \in Orgs, OneTransaction(a, o) PROVE FALSE
      BY <2>0, <2>5 DEF OneTransaction, redeemAccessCode, AcceptAlreadyIn, Decline, ResendInvite,
         LeaveOrg
    <2> QED BY <1>1, <2>0, <2>2, <2>3, <2>4, <2>5 DEF Next, addOrgSeats, CloseOrReopen, SignIn,
         Crash, DayPasses
  <1>2. SeatInv /\ [Next]_vars => [Undisturbed]_vars
    BY <1>1
  <1> QED BY <1>2, InvAlways, PTL DEF Spec, RequestsKeepApart

(***************************************************************************)
(* Requests that run one at a time, crashes included, never charge a       *)
(* person a second seat of an organization.                                *)
(***************************************************************************)
THEOREM OneAtATimeSeatsMatch ==
    OneAtATime => (Spec => []SeatsMatchPeople)
  BY OneWorkerKeepsApart, SeatsAlwaysMatchPeople, PTL

(***************************************************************************)
(* Nor do they attach an account in use without its owner's yes.           *)
(***************************************************************************)
THEOREM OneAtATimeConsents ==
    OneAtATime => (Spec => ConsentOnAttach)
  BY OneWorkerKeepsApart, NobodyAttachedUnasked, PTL
=============================================================================
