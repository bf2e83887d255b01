--------------------------- MODULE OrgStaffProofs ---------------------------
(***************************************************************************)
(* Theorems about the staff of an organization, for any people, any        *)
(* number of requests in flight and any number of invitations.             *)
(***************************************************************************)
EXTENDS OrgStaff, FiniteSetTheorems, TLAPS

USE PeopleAssumption, StaffBoundsAssumption, WorkersAssumption

(* What a request's fields mean at its stage.  An addition of an admin     *)
(* read that its actor owns the organization; the support path belongs to  *)
(* platform admins.                                                        *)
Asked(w) ==
    /\ At(w, "add") /\ req[w].as = "org_admin" => req[w].owns
    /\ At(w, "adminAdd") => req[w].by \in Platform

(* A person accepting holds the organization's row and an open invitation. *)
Answers(w) == req[w].at \in {"answer", "join", "spend"}
Held(w) ==
    Answers(w) => /\ lock = w /\ active /\ req[w].id \in Ids
                  /\ Open(req[w].id) /\ req[w].as = invites[req[w].id].as

(* What the answer checked still holds when it writes.                     *)
Checked(w) ==
    At(w, "join") =>
        /\ active /\ role[req[w].whom] = "none" /\ Cardinality(Staff) < cap
        /\ req[w].as = "org_admin" => Privileged(invites[req[w].id].by)

IInv == TypeOK /\ \A w \in Workers : Asked(w) /\ Held(w) /\ Checked(w)

-----------------------------------------------------------------------------
(* Type correctness.                                                       *)

LEMMA IdRange == \A i \in Ids : i \in 0..MaxInvites
BY DEF Ids

LEMMA IdleType == Idle \in Request /\ Unwritten \in Invite /\ Ended \in Invite
<1>1. Idle \in Request /\ Unwritten \in Invite
  BY DEF Idle, Request, Stages, Roles, Ids, Unwritten, Invite, Standings
<1>2. Ended \in Invite
  BY <1>1 DEF Ended, Invite, Standings
<1> QED BY <1>1, <1>2

(* A request begins or goes on in its shape.                               *)
LEMMA AskType ==
  ASSUME TypeOK, NEW w \in Workers, Asking(w)
  PROVE  TypeOK'
<1>1. ASSUME NEW r \in Request, Free(w), Begins(w, r)
      PROVE  begun' \in 0..MaxRequests /\ req' \in [Workers -> Request] /\ orderly' \in BOOLEAN
  <2>1. begun < MaxRequests /\ begun \in Nat /\ MaxRequests \in Nat
    BY <1>1 DEF TypeOK, Free
  <2>2. begun' \in 0..MaxRequests
    BY <1>1, <2>1 DEF Begins
  <2>3. orderly \in BOOLEAN /\ (\A v \in Workers : req[v] = Idle) \in BOOLEAN
    BY DEF TypeOK
  <2>4. orderly' \in BOOLEAN
    BY <1>1, <2>3 DEF Begins
  <2> QED BY <1>1, <2>2, <2>4 DEF Begins, TypeOK
<1>2. Free(w)
  BY DEF Asking
<1>3. CASE \E by, whom \in People, as \in Roles : AddSees(w, by, whom, as)
  <2> PICK by, whom \in People, as \in Roles : AddSees(w, by, whom, as)
    BY <1>3
  <2>1. [Idle EXCEPT !.at = "add", !.whom = whom, !.as = as, !.owns = (by = owner)] \in Request
    BY IdleType DEF Request, Stages
  <2> QED BY <1>1, <1>2, <2>1 DEF AddSees, TypeOK, orgVars, teamVars
<1>4. CASE \E by, whom \in People, as \in Roles : AdminAddSees(w, by, whom, as)
  <2> PICK by, whom \in People, as \in Roles : AdminAddSees(w, by, whom, as)
    BY <1>4
  <2>1. [Idle EXCEPT !.at = "adminAdd", !.by = by, !.whom = whom, !.as = as] \in Request
    BY IdleType DEF Request, Stages
  <2> QED BY <1>1, <1>2, <2>1 DEF AdminAddSees, TypeOK, orgVars, teamVars
<1>5. CASE \E by, whom \in People, as \in Roles, v \in BOOLEAN : SetRoleAsks(w, by, whom, as, v)
  <2> PICK by, whom \in People, as \in Roles, v \in BOOLEAN : SetRoleAsks(w, by, whom, as, v)
    BY <1>5
  <2>1. [Idle EXCEPT !.at = "setRole", !.by = by, !.whom = whom, !.as = as, !.support = v] \in Request
    BY IdleType DEF Request, Stages
  <2> QED BY <1>1, <1>2, <2>1 DEF SetRoleAsks, TypeOK, orgVars, teamVars
<1>12. CASE \E by, whom \in People, v \in BOOLEAN : RemoveAsks(w, by, whom, v)
  <2> PICK by, whom \in People, v \in BOOLEAN : RemoveAsks(w, by, whom, v)
    BY <1>12
  <2>1. [Idle EXCEPT !.at = "remove", !.by = by, !.whom = whom, !.support = v] \in Request
    BY IdleType DEF Request, Stages
  <2> QED BY <1>1, <1>2, <2>1 DEF RemoveAsks, TypeOK, orgVars, teamVars
<1>13. CASE \E by, whom \in People, as \in Roles : AdminInviteSees(w, by, whom, as)
  <2> PICK by, whom \in People, as \in Roles : AdminInviteSees(w, by, whom, as)
    BY <1>13
  <2>1. [Idle EXCEPT !.at = "invite", !.by = by, !.whom = whom, !.as = as] \in Request
    BY IdleType DEF Request, Stages
  <2> QED BY <1>1, <1>2, <2>1 DEF AdminInviteSees, TypeOK, orgVars, teamVars
<1>6. CASE \E by, whom \in People, as \in Roles, v \in BOOLEAN : InviteSees(w, by, whom, as, v)
  <2> PICK by, whom \in People, as \in Roles, v \in BOOLEAN : InviteSees(w, by, whom, as, v)
    BY <1>6
  <2>1. [Idle EXCEPT !.at = IF v THEN "volunteer" ELSE "invite", !.by = by, !.whom = whom, !.as = as]
          \in Request
    BY IdleType DEF Request, Stages
  <2>2. \A i \in OpenFor(whom) :
           [Idle EXCEPT !.at = "mark", !.id = i] \in Request
    BY IdleType, IdRange DEF Request, Stages, OpenFor
  <2>3. \E r \in Request : Begins(w, r)
    BY <2>1, <2>2 DEF InviteSees
  <2> QED BY <1>1, <1>2, <2>3 DEF InviteSees, TypeOK, orgVars, teamVars
<1>7. CASE \E whom \in People, stage \in Stages :
             Asks(w, stage, whom)
             /\ UNCHANGED <<orgVars, teamVars, caseload, invites, lock, edits>>
  <2> PICK whom \in People, stage \in Stages :
             Asks(w, stage, whom)
             /\ UNCHANGED <<orgVars, teamVars, caseload, invites, lock, edits>>
    BY <1>7
  <2>1. [Idle EXCEPT !.at = stage, !.whom = whom] \in Request
    BY IdleType DEF Request
  <2> QED BY <1>1, <1>2, <2>1 DEF Asks, TypeOK, orgVars, teamVars
<1>8. CASE \E i \in Ids : AnswerLocks(w, i)
  <2> PICK i \in Ids : AnswerLocks(w, i)
    BY <1>8
  <2>0. invites[i] \in Invite
    BY DEF TypeOK
  <2>1. [Idle EXCEPT !.at = "answer", !.by = invites[i].to, !.whom = invites[i].to,
                     !.as = invites[i].as, !.id = i] \in Request
    BY <2>0, IdleType, IdRange DEF Request, Stages, Invite
  <2> QED BY <1>1, <1>2, <2>1 DEF AnswerLocks, TypeOK, orgVars, teamVars
<1>9. CASE \E i \in Ids, by \in People : ResendSees(w, by, i)
  <2> PICK i \in Ids, by \in People : ResendSees(w, by, i)
    BY <1>9
  <2>1. /\ [Idle EXCEPT !.at = "mark", !.id = i] \in Request
        /\ [Idle EXCEPT !.at = "restamp", !.by = by, !.id = i] \in Request
    BY IdleType, IdRange DEF Request, Stages
  <2> QED BY <1>1, <1>2, <2>1 DEF ResendSees, TypeOK, orgVars, teamVars
<1>10. CASE \E i \in Ids, by \in People : RevokeSees(w, by, i)
  <2> PICK i \in Ids, by \in People : RevokeSees(w, by, i)
    BY <1>10
  <2>1. [Idle EXCEPT !.at = "revoke", !.id = i] \in Request
    BY IdleType, IdRange DEF Request, Stages
  <2> QED BY <1>1, <1>2, <2>1 DEF RevokeSees, TypeOK, orgVars, teamVars
<1>11. \A by, whom \in People :
          AssignSees(w, by, whom) \/ UnassignSees(w, by)
          \/ (\E stage \in {"except", "clear"} : ExceptSees(w, by, whom, stage))
          => \E p \in People, stage \in Stages : Asks(w, stage, p)
                /\ UNCHANGED <<orgVars, teamVars, caseload, invites, lock, edits>>
  BY DEF AssignSees, UnassignSees, ExceptSees, Stages
<1> QED BY <1>3, <1>4, <1>5, <1>6, <1>7, <1>8, <1>9, <1>10, <1>11, <1>12, <1>13 DEF Asking

(* So does every write, and what the people, the platform and the clock do. *)
LEMMA GoType ==
  ASSUME TypeOK, NEW w \in Workers, NEW stage \in Stages, Goes(w, stage)
  PROVE  req' \in [Workers -> Request]
<1>1. req[w] \in Request
  BY DEF TypeOK
<1>2. [req[w] EXCEPT !.at = stage] \in Request
  BY <1>1 DEF Request
<1>3. req' = [req EXCEPT ![w] = [req[w] EXCEPT !.at = stage]]
  BY DEF Goes
<1> QED BY <1>2, <1>3 DEF TypeOK

LEMMA TurnType ==
  ASSUME TypeOK, NEW w \in Workers, NEW r \in Request, Turns(w, r)
  PROVE  req' \in [Workers -> Request] /\ req'[w] = r
BY DEF TypeOK, Turns

LEMMA EndType ==
  ASSUME TypeOK, NEW w \in Workers, Ends(w)
  PROVE  req' \in [Workers -> Request]
BY IdleType DEF TypeOK, Ends

LEMMA TeamWriteType ==
  ASSUME TypeOK, NEW w \in Workers,
         \/ AddWrites(w) \/ AdminAddWrites(w) \/ SetRoleWrites(w) \/ RemoveWrites(w)
         \/ Releases(w) \/ AssignWrites(w) \/ Unassigns(w) \/ ExceptWrites(w)
  PROVE  TypeOK'
<1>1. req[w].whom \in People /\ req[w].as \in Roles
  BY DEF TypeOK, Request
<1>2. req' \in [Workers -> Request]
  <2>1. [Idle EXCEPT !.at = "release", !.whom = req[w].whom] \in Request
    BY <1>1, IdleType DEF Request, Stages
  <2> QED BY <2>1, EndType, TurnType DEF AddWrites, AdminAddWrites, SetRoleWrites, RemoveWrites,
             Releases, AssignWrites, Unassigns, ExceptWrites
<1>3. CASE AddWrites(w)
  BY <1>1, <1>2, <1>3 DEF AddWrites, TypeOK, orgVars, teamVars, boundVars
<1>4. CASE AdminAddWrites(w)
  BY <1>1, <1>2, <1>4 DEF AdminAddWrites, TypeOK, orgVars, teamVars, boundVars
<1>5. CASE SetRoleWrites(w)
  BY <1>1, <1>2, <1>5 DEF SetRoleWrites, TypeOK, orgVars, teamVars, boundVars
<1>6. CASE RemoveWrites(w)
  BY <1>1, <1>2, <1>6 DEF RemoveWrites, ClearsExceptions, TypeOK, orgVars, teamVars, boundVars
<1>7. CASE Releases(w)
  BY <1>1, <1>2, <1>7 DEF Releases, TypeOK, orgVars, teamVars, boundVars
<1>8. CASE AssignWrites(w)
  BY <1>1, <1>2, <1>8 DEF AssignWrites, TypeOK, orgVars, teamVars, boundVars
<1>9. CASE ExceptWrites(w)
  BY <1>1, <1>2, <1>9 DEF ExceptWrites, TypeOK, orgVars, teamVars, boundVars
<1>10. CASE Unassigns(w)
  BY <1>1, <1>2, <1>10 DEF Unassigns, TypeOK, orgVars, teamVars, boundVars
<1> QED BY <1>3, <1>4, <1>5, <1>6, <1>7, <1>8, <1>9, <1>10

(* An invitation that ends or changes in one field stays an invitation.    *)
LEMMA EndingEdit ==
  ASSUME TypeOK, NEW i
  PROVE  [invites EXCEPT ![i] = Ended] \in [Ids -> Invite]
BY IdleType DEF TypeOK

LEMMA InviterEdit ==
  ASSUME TypeOK, NEW i \in 0..MaxInvites, NEW p \in People
  PROVE  [invites EXCEPT ![i].by = p] \in [Ids -> Invite]
<1>1. ASSUME i \in Ids PROVE [invites[i] EXCEPT !.by = p] \in Invite
  BY <1>1 DEF TypeOK, Invite
<1> QED BY <1>1 DEF TypeOK

LEMMA ExpiryEdit ==
  ASSUME TypeOK, NEW i \in 0..MaxInvites, NEW x \in BOOLEAN
  PROVE  [invites EXCEPT ![i].expired = x] \in [Ids -> Invite]
<1>1. ASSUME i \in Ids PROVE [invites[i] EXCEPT !.expired = x] \in Invite
  BY <1>1 DEF TypeOK, Invite
<1> QED BY <1>1 DEF TypeOK

LEMMA InviteWriteType ==
  ASSUME TypeOK, NEW w \in Workers,
         \/ InviteWrites(w) \/ MarkSent(w) \/ Restamps(w)
         \/ RevokeWrites(w) \/ AnswerReads(w) \/ AnswerCommits(w)
  PROVE  TypeOK'
<1>0. /\ req[w] \in Request
      /\ req[w].id \in 0..MaxInvites /\ req[w].by \in People /\ req[w].whom \in People
      /\ req[w].as \in Roles
  BY DEF TypeOK, Request
<1>1. CASE InviteWrites(w)
  <2>1. CASE Ends(w) /\ UNCHANGED invites
    BY <1>1, <2>1, EndType DEF InviteWrites, TypeOK, orgVars, teamVars, boundVars
  <2>2. ASSUME NEW i \in Ids, invites' = [invites EXCEPT ![i] = InviteRow(w)],
               Turns(w, [Idle EXCEPT !.at = "mark", !.id = i])
        PROVE  TypeOK'
    <3>1. InviteRow(w) \in Invite
      BY <1>0 DEF InviteRow, At, Invite, Standings
    <3>2. [Idle EXCEPT !.at = "mark", !.id = i] \in Request
      BY IdleType, IdRange DEF Request, Stages
    <3>3. req' \in [Workers -> Request]
      BY <2>2, <3>2, TurnType
    <3> QED BY <1>1, <2>2, <3>1, <3>3 DEF InviteWrites, TypeOK, orgVars, teamVars, boundVars
  <2> QED BY <1>1, <2>1, <2>2 DEF InviteWrites
<1>2. CASE MarkSent(w)
  <2>1. FALSE \in BOOLEAN
    OBVIOUS
  <2>2. invites' \in [Ids -> Invite]
    <3>1. [invites EXCEPT ![req[w].id].expired = FALSE] \in [Ids -> Invite]
      BY <1>0, <2>1, ExpiryEdit
    <3> QED BY <1>2, <3>1 DEF MarkSent, TypeOK
  <2> QED BY <1>2, <2>2, EndType DEF MarkSent, TypeOK, orgVars, teamVars, boundVars
<1>3. CASE Restamps(w)
  <2>0. [Idle EXCEPT !.at = "mark", !.id = req[w].id] \in Request
    BY <1>0, IdleType DEF Request, Stages
  <2>1. req' \in [Workers -> Request]
    BY <1>3, <2>0, EndType, TurnType DEF Restamps
  <2>2. invites' \in [Ids -> Invite]
    BY <1>0, <1>3, InviterEdit DEF Restamps, TypeOK
  <2> QED BY <1>3, <2>1, <2>2 DEF Restamps, TypeOK, orgVars, teamVars, boundVars
<1>4. CASE RevokeWrites(w)
  <2>2. invites' \in [Ids -> Invite]
    BY <1>4, IdleType DEF RevokeWrites, TypeOK
  <2> QED BY <1>4, <2>2, EndType DEF RevokeWrites, TypeOK, orgVars, teamVars, boundVars
<1>5. CASE AnswerReads(w)
  <2>1. req' \in [Workers -> Request]
    BY <1>5, EndType, GoType DEF AnswerReads, Stages
  <2> QED BY <1>5, <2>1 DEF AnswerReads, Unlocks, TypeOK, orgVars, teamVars, boundVars
<1>6. CASE AnswerCommits(w)
  <2>1. invites' \in [Ids -> Invite]
    BY <1>6, EndingEdit DEF AnswerCommits
  <2> QED BY <1>0, <1>6, <2>1, EndType DEF AnswerCommits, Unlocks, TypeOK, orgVars, teamVars, boundVars
<1> QED BY <1>1, <1>2, <1>3, <1>4, <1>5, <1>6

LEMMA OtherType ==
  ASSUME TypeOK,
         \/ \E w \in Workers : Crashes(w)
         \/ \E i \in Ids : Declines(i) \/ Expires(i)
         \/ \E p \in People : setOrgOwner(p)
         \/ \E n \in 0..MaxCap : setOrgStaffCap(n)
         \/ closeOrReopen
         \/ UNCHANGED vars
  PROVE  TypeOK'
<1>0. edits \in Nat /\ MaxEdits \in Nat /\ (edits < MaxEdits => edits + 1 \in 0..MaxEdits)
  BY DEF TypeOK
<1>1. CASE \E w \in Workers : Crashes(w)
  BY <1>0, <1>1, EndType DEF Crashes, Unlocks, TypeOK, orgVars, teamVars
<1>2. CASE \E i \in Ids : Declines(i) \/ Expires(i)
  <2>2. invites' \in [Ids -> Invite]
    <3>1. ASSUME NEW i \in Ids
          PROVE  /\ [invites EXCEPT ![i] = Ended] \in [Ids -> Invite]
                 /\ [invites EXCEPT ![i].expired = TRUE] \in [Ids -> Invite]
      BY EndingEdit, ExpiryEdit, IdRange
    <3> QED BY <1>2, <3>1 DEF Declines, Expires
  <2> QED BY <1>2, <2>2 DEF Declines, Expires, TypeOK, orgVars, teamVars, boundVars
<1>3. ASSUME Edits
      PROVE  /\ edits' \in 0..MaxEdits /\ orderly' \in BOOLEAN
             /\ UNCHANGED <<role, exceptions, caseload, invites, req, lock, begun>>
  <2>1. orderly \in BOOLEAN /\ (\A v \in Workers : req[v] = Idle) \in BOOLEAN
    BY DEF TypeOK
  <2>2. orderly' \in BOOLEAN
    BY <1>3, <2>1 DEF Edits
  <2> QED BY <1>0, <1>3, <2>2 DEF Edits, teamVars
<1>4. CASE \E p \in People : setOrgOwner(p)
  BY <1>3, <1>4 DEF setOrgOwner, TypeOK
<1>5. CASE \E n \in 0..MaxCap : setOrgStaffCap(n)
  BY <1>3, <1>5 DEF setOrgStaffCap, TypeOK
<1>6. CASE closeOrReopen
  BY <1>3, <1>6 DEF closeOrReopen, TypeOK
<1>7. CASE UNCHANGED vars
  BY <1>7 DEF vars, orgVars, teamVars, boundVars, TypeOK
<1> QED BY <1>1, <1>2, <1>4, <1>5, <1>6, <1>7

LEMMA StepType == TypeOK /\ [Next]_vars => TypeOK'
<1> SUFFICES ASSUME TypeOK, [Next]_vars PROVE TypeOK'
  OBVIOUS
<1>1. ASSUME NEW w \in Workers, Asking(w) \/ Writing(w)
      PROVE  TypeOK'
  BY <1>1, AskType, TeamWriteType, InviteWriteType DEF Writing
<1> QED BY <1>1, OtherType DEF Next

LEMMA InitType == Init => TypeOK
<1> SUFFICES ASSUME Init PROVE TypeOK
  OBVIOUS
<1> QED BY IdleType DEF Init, TypeOK

(* The rows and the requests keep their shapes: no step writes a role the  *)
(* columns do not allow (the checks of 023 and 100).                       *)
THEOREM StaffTypeCorrect == Spec => []TypeOK
BY InitType, StepType, PTL DEF Spec
-----------------------------------------------------------------------------
(* The row locks.                                                          *)

(* Whoever has no staff row gains none, so the staff does not grow.        *)
Shrinks == \A p \in People : role[p] = "none" => role'[p] = "none"

(* What a step of somebody else leaves alone while v answers.              *)
Quiet(v) ==
    Answers(v) =>
        /\ lock' = lock /\ owner' = owner /\ active' = active /\ cap' = cap
        /\ Shrinks
        /\ invites'[req[v].id].is = "open"
        /\ invites'[req[v].id].as = invites[req[v].id].as
        /\ invites'[req[v].id].by = invites[req[v].id].by

LEMMA StaffFinite == TypeOK => IsFiniteSet(Staff) /\ Cardinality(Staff) \in Nat
BY FS_Subset, FS_CardinalityType DEF Staff

LEMMA ShrinkKeepsPlaces ==
  ASSUME TypeOK, TypeOK', Shrinks
  PROVE  Cardinality(Staff') <= Cardinality(Staff)
<1>1. Staff' \subseteq Staff
  BY DEF Shrinks, Staff
<1>2. IsFiniteSet(Staff) /\ IsFiniteSet(Staff')
  BY FS_Subset DEF Staff
<1> QED BY <1>1, <1>2, FS_Subset

(* A request nobody stepped keeps its part of the invariant.               *)
LEMMA OthersKeep ==
  ASSUME IInv, TypeOK', NEW v \in Workers, req'[v] = req[v], Quiet(v)
  PROVE  Asked(v)' /\ Held(v)' /\ Checked(v)'
<1>0. Asked(v) /\ Held(v) /\ Checked(v) /\ TypeOK
  BY DEF IInv
<1>1. Asked(v)'
  BY <1>0 DEF Asked, At
<1>2. Held(v)'
  BY <1>0 DEF Held, Answers, Quiet, Open
<1>3. Checked(v)'
  <2> SUFFICES ASSUME At(v, "join")
               PROVE  /\ active' /\ role'[req[v].whom] = "none" /\ Cardinality(Staff') < cap'
                      /\ req[v].as = "org_admin" =>
                           invites'[req[v].id].by = owner' \/ invites'[req[v].id].by \in Platform
    BY DEF Checked, At, Privileged
  <2>1. Answers(v)
    BY DEF Answers, At
  <2>2. req[v].whom \in People /\ cap \in Nat
    BY <1>0 DEF TypeOK, Request
  <2>3. Cardinality(Staff') <= Cardinality(Staff)
    BY <1>0, <2>1, ShrinkKeepsPlaces DEF Quiet
  <2>4. Cardinality(Staff) \in Nat /\ Cardinality(Staff') \in Nat
    BY <1>0, StaffFinite, FS_Subset, FS_CardinalityType DEF Staff
  <2>5. Cardinality(Staff) < cap
    BY <1>0 DEF Checked
  <2>6. Cardinality(Staff') < cap'
    <3>1. cap' = cap
      BY <2>1 DEF Quiet
    <3> QED BY <2>2, <2>3, <2>4, <2>5, <3>1
  <2>7. active' /\ role'[req[v].whom] = "none"
    BY <1>0, <2>1, <2>2 DEF Checked, Quiet, Shrinks
  <2>8. req[v].as = "org_admin" =>
          invites'[req[v].id].by = owner' \/ invites'[req[v].id].by \in Platform
    BY <1>0, <2>1 DEF Checked, Quiet, Privileged
  <2> QED BY <2>6, <2>7, <2>8
<1> QED BY <1>1, <1>2, <1>3

(* Whoever answers holds the lock: it is not free, and nobody else         *)
(* answers, that invitation or another.                                    *)
LEMMA AnswererLocks ==
  ASSUME IInv, NEW v \in Workers, Answers(v)
  PROVE  /\ lock = v /\ ~OrgRowFree
         /\ Answering(req[v].id)
         /\ \A w \in Workers : Answers(w) => w = v
BY DEF IInv, Held, OrgRowFree, Answering, Answers

(* A request that is over, or at a stage that neither adds nor answers,    *)
(* owes nothing.                                                           *)
LEMMA NothingOwed ==
  ASSUME NEW w \in Workers, req'[w].at \in Stages \ {"add", "adminAdd", "answer", "join", "spend"}
  PROVE  Asked(w)' /\ Held(w)' /\ Checked(w)'
BY DEF Asked, Held, Checked, Answers, At

LEMMA EndOwes ==
  ASSUME IInv, NEW w \in Workers, Ends(w)
  PROVE  req'[w] = Idle /\ Asked(w)' /\ Held(w)' /\ Checked(w)'
<1>1. req'[w] = Idle
  BY DEF IInv, TypeOK, Ends
<1>2. Idle.at = "idle"
  BY DEF Idle
<1> QED BY <1>1, <1>2, NothingOwed DEF Stages

(* Asking only reads, and takes the lock at most.                          *)
LEMMA AskReads ==
  ASSUME NEW w \in Workers, Asking(w)
  PROVE  /\ UNCHANGED <<orgVars, teamVars, caseload, invites, edits>>
         /\ UNCHANGED lock \/ OrgRowFree
         /\ Free(w) /\ \E r : Begins(w, r)
<1>0. Free(w)
  BY DEF Asking
<1>1. ASSUME NEW by \in People, NEW whom \in People, NEW as \in Roles,
             AddSees(w, by, whom, as) \/ AdminAddSees(w, by, whom, as)
             \/ AdminInviteSees(w, by, whom, as)
      PROVE  /\ UNCHANGED <<orgVars, teamVars, caseload, invites, lock, edits>>
             /\ \E r : Begins(w, r)
  BY <1>1 DEF AddSees, AdminAddSees, AdminInviteSees
<1>2. ASSUME NEW by \in People, NEW whom \in People, NEW as \in Roles, NEW x \in BOOLEAN,
             \/ InviteSees(w, by, whom, as, x) \/ SetRoleAsks(w, by, whom, as, x)
             \/ RemoveAsks(w, by, whom, x)
      PROVE  /\ UNCHANGED <<orgVars, teamVars, caseload, invites, lock, edits>>
             /\ \E r : Begins(w, r)
  BY <1>2 DEF InviteSees, SetRoleAsks, RemoveAsks
<1>3. ASSUME NEW by \in People, NEW whom \in People, NEW stage \in Stages,
             AssignSees(w, by, whom) \/ UnassignSees(w, by) \/ ExceptSees(w, by, whom, stage)
      PROVE  /\ UNCHANGED <<orgVars, teamVars, caseload, invites, lock, edits>>
             /\ \E r : Begins(w, r)
  BY <1>3 DEF AssignSees, UnassignSees, ExceptSees, Asks
<1>4. ASSUME NEW i \in Ids, AnswerLocks(w, i)
      PROVE  /\ UNCHANGED <<orgVars, teamVars, caseload, invites, edits>> /\ OrgRowFree
             /\ \E r : Begins(w, r)
  BY <1>4 DEF AnswerLocks
<1>5. ASSUME NEW i \in Ids, NEW by \in People, ResendSees(w, by, i) \/ RevokeSees(w, by, i)
      PROVE  /\ UNCHANGED <<orgVars, teamVars, caseload, invites, lock, edits>>
             /\ \E r : Begins(w, r)
  BY <1>5 DEF ResendSees, RevokeSees
<1>6. {"except", "clear"} \subseteq Stages /\ "staff" \in Roles
  BY DEF Stages, Roles
<1> QED BY <1>0, <1>1, <1>2, <1>3, <1>4, <1>5, <1>6 DEF Asking

(* The rest of the requests, whatever w does.                              *)
LEMMA OthersStand ==
  ASSUME IInv, NEW w \in Workers, NEW v \in Workers, v # w, Asking(w) \/ Writing(w) \/ Crashes(w)
  PROVE  req'[v] = req[v]
<1>0. req \in [Workers -> Request]
  BY DEF IInv, TypeOK
<1>1. CASE Asking(w)
  BY <1>0, <1>1, AskReads DEF Begins
<1>2. CASE Writing(w)
  BY <1>0, <1>2 DEF Writing, AddWrites, AdminAddWrites, SetRoleWrites, RemoveWrites, Releases,
     AssignWrites, Unassigns, ExceptWrites, InviteWrites, MarkSent, Restamps, RevokeWrites, AnswerReads,
     AnswerCommits, Goes, Turns, Ends
<1>3. CASE Crashes(w)
  BY <1>0, <1>3 DEF Crashes, Ends
<1> QED BY <1>1, <1>2, <1>3

(* The organization's row does not move under an answer: every write that  *)
(* could disturb it waits for the lock or leaves what was checked alone.   *)
LEMMA QuietAsking ==
  ASSUME IInv, NEW w \in Workers, NEW v \in Workers, v # w, Asking(w)
  PROVE  Quiet(v)
<1> SUFFICES ASSUME Answers(v) PROVE Quiet(v)
  BY DEF Quiet
<1>1. Open(req[v].id) /\ ~OrgRowFree
  BY AnswererLocks DEF IInv, Held
<1>2. UNCHANGED <<owner, active, cap, role, invites, lock>>
  BY <1>1, AskReads DEF orgVars, teamVars
<1> QED BY <1>1, <1>2 DEF Quiet, Shrinks, Open

LEMMA QuietWriting ==
  ASSUME IInv, NEW w \in Workers, NEW v \in Workers, v # w, Writing(w)
  PROVE  Quiet(v)
<1> SUFFICES ASSUME Answers(v) PROVE Quiet(v)
  BY DEF Quiet
<1>0. /\ Open(req[v].id) /\ ~OrgRowFree /\ lock = v /\ Answering(req[v].id)
      /\ ~Answers(w) /\ req[v].id \in Ids /\ invites \in [Ids -> Invite]
      /\ role \in [People -> Roles \cup {"none"}]
      /\ req[w].whom \in People /\ req[w].as \in Roles /\ req[w].id \in 0..MaxInvites
  BY AnswererLocks DEF IInv, Held, TypeOK, Request
<1>1. UNCHANGED <<owner, active, cap, lock>>
  BY <1>0 DEF Writing, AddWrites, AdminAddWrites, SetRoleWrites, RemoveWrites, Releases,
     AssignWrites, Unassigns, ExceptWrites, InviteWrites, MarkSent, Restamps, RevokeWrites, AnswerReads,
     AnswerCommits, Answers, At, orgVars
<1>2. Shrinks
  BY <1>0 DEF Shrinks, Roles, Writing, AddWrites, AdminAddWrites, SetRoleWrites, RemoveWrites, Releases,
     AssignWrites, Unassigns, ExceptWrites, InviteWrites, MarkSent, Restamps, RevokeWrites, AnswerReads,
     AnswerCommits, Answers, At, teamVars
<1>3. invites'[req[v].id] = invites[req[v].id]
  <2>1. CASE InviteWrites(w)
    BY <1>0, <2>1 DEF InviteWrites
  <2>2. CASE MarkSent(w)
    <3>1. req[w].id # req[v].id \/ invites' = invites
      BY <1>0, <2>2 DEF MarkSent
    <3> QED BY <1>0, <2>2, <3>1 DEF MarkSent
  <2>3. CASE Restamps(w)
    <3>1. req[w].id # req[v].id
      BY <1>0, <2>3 DEF Restamps
    <3> QED BY <1>0, <2>3, <3>1 DEF Restamps
  <2>4. CASE RevokeWrites(w)
    <3>1. req[w].id # req[v].id
      BY <1>0, <2>4 DEF RevokeWrites
    <3> QED BY <1>0, <2>4, <3>1 DEF RevokeWrites
  <2>5. CASE ~(InviteWrites(w) \/ MarkSent(w) \/ Restamps(w) \/ RevokeWrites(w))
    BY <1>0, <2>5 DEF Writing, AddWrites, AdminAddWrites, SetRoleWrites, RemoveWrites, Releases,
       AssignWrites, Unassigns, ExceptWrites, AnswerReads, AnswerCommits, Answers, At
  <2> QED BY <2>1, <2>2, <2>3, <2>4, <2>5
<1> QED BY <1>0, <1>1, <1>2, <1>3 DEF Quiet, Open

LEMMA QuietRest ==
  ASSUME IInv, NEW v \in Workers,
         \/ \E w \in Workers : v # w /\ Crashes(w)
         \/ \E i \in Ids : Declines(i) \/ Expires(i)
         \/ \E p \in People : setOrgOwner(p)
         \/ \E n \in 0..MaxCap : setOrgStaffCap(n)
         \/ closeOrReopen
         \/ UNCHANGED vars
  PROVE  Quiet(v)
<1> SUFFICES ASSUME Answers(v) PROVE Quiet(v)
  BY DEF Quiet
<1>0. /\ Open(req[v].id) /\ ~OrgRowFree /\ lock = v /\ Answering(req[v].id)
      /\ req[v].id \in Ids /\ invites \in [Ids -> Invite]
  BY AnswererLocks DEF IInv, Held, TypeOK
<1>1. CASE \E w \in Workers : v # w /\ Crashes(w)
  <2>1. UNCHANGED <<owner, active, cap, role, invites, lock>>
    BY <1>0, <1>1 DEF Crashes, Unlocks, orgVars, teamVars
  <2> QED BY <1>0, <2>1 DEF Quiet, Shrinks, Open
<1>2. CASE \E i \in Ids : Declines(i) \/ Expires(i)
  <2>1. PICK i \in Ids : Declines(i) \/ Expires(i)
    BY <1>2
  <2>2. UNCHANGED <<owner, active, cap, role, lock>>
    BY <2>1 DEF Declines, Expires, orgVars, teamVars
  <2>3. /\ invites'[req[v].id].is = "open" /\ invites'[req[v].id].as = invites[req[v].id].as
        /\ invites'[req[v].id].by = invites[req[v].id].by
    <3>1. CASE Declines(i)
      <4>1. i # req[v].id
        BY <1>0, <3>1 DEF Declines
      <4> QED BY <1>0, <3>1, <4>1 DEF Declines, Open
    <3>2. CASE Expires(i)
      <4>1. invites'[req[v].id] = invites[req[v].id]
            \/ invites'[req[v].id] = [invites[req[v].id] EXCEPT !.expired = TRUE]
        BY <1>0, <3>2 DEF Expires
      <4>2. invites[req[v].id] \in Invite
        BY <1>0
      <4>3. ASSUME NEW r \in Invite
            PROVE  LET s == [r EXCEPT !.expired = TRUE]
                   IN  s.is = r.is /\ s.as = r.as /\ s.by = r.by
        BY DEF Invite
      <4> QED BY <1>0, <4>1, <4>2, <4>3 DEF Open
    <3> QED BY <2>1, <3>1, <3>2
  <2> QED BY <2>2, <2>3 DEF Quiet, Shrinks
<1>3. CASE \/ \E p \in People : setOrgOwner(p)
           \/ \E n \in 0..MaxCap : setOrgStaffCap(n)
           \/ closeOrReopen
  BY <1>0, <1>3 DEF setOrgOwner, setOrgStaffCap, closeOrReopen, Edits
<1>4. CASE UNCHANGED vars
  BY <1>0, <1>4 DEF Quiet, Shrinks, Open, vars, orgVars, teamVars
<1> QED BY <1>1, <1>2, <1>3, <1>4
-----------------------------------------------------------------------------
(* The invariant holds of the request that steps.                          *)

LEMMA BegunIs ==
  ASSUME TypeOK, NEW w \in Workers, NEW r, Begins(w, r)
  PROVE  req'[w] = r
BY DEF TypeOK, Begins

LEMMA AskKeeps ==
  ASSUME IInv, TypeOK', NEW w \in Workers, Asking(w)
  PROVE  Asked(w)' /\ Held(w)' /\ Checked(w)'
<1>0. TypeOK
  BY DEF IInv
<1>1. ASSUME NEW by \in People, NEW whom \in People, NEW as \in Roles, AddSees(w, by, whom, as)
      PROVE  Asked(w)' /\ Held(w)' /\ Checked(w)'
  <2> DEFINE r == [Idle EXCEPT !.at = "add", !.whom = whom, !.as = as, !.owns = (by = owner)]
  <2>1. req'[w] = r /\ (as = "org_admin" => by = owner)
    BY <1>0, <1>1, BegunIs DEF AddSees
  <2>2. r.at = "add" /\ r.as = as /\ r.owns = (by = owner)
    BY DEF Idle
  <2> HIDE DEF r
  <2> QED BY <2>1, <2>2 DEF Asked, Held, Checked, Answers, At
<1>2. ASSUME NEW by \in People, NEW whom \in People, NEW as \in Roles, AdminAddSees(w, by, whom, as)
      PROVE  Asked(w)' /\ Held(w)' /\ Checked(w)'
  <2> DEFINE r == [Idle EXCEPT !.at = "adminAdd", !.by = by, !.whom = whom, !.as = as]
  <2>1. req'[w] = r /\ by \in Platform
    BY <1>0, <1>2, BegunIs DEF AdminAddSees
  <2>2. r.at = "adminAdd" /\ r.by = by
    BY DEF Idle
  <2> HIDE DEF r
  <2> QED BY <2>1, <2>2 DEF Asked, Held, Checked, Answers, At
<1>3. ASSUME NEW by \in People, NEW whom \in People, NEW as \in Roles, NEW x \in BOOLEAN,
             SetRoleAsks(w, by, whom, as, x) \/ RemoveAsks(w, by, whom, x)
      PROVE  Asked(w)' /\ Held(w)' /\ Checked(w)'
  <2>1. \/ req'[w] = [Idle EXCEPT !.at = "setRole", !.by = by, !.whom = whom, !.as = as, !.support = x]
        \/ req'[w] = [Idle EXCEPT !.at = "remove", !.by = by, !.whom = whom, !.support = x]
    BY <1>0, <1>3, BegunIs DEF SetRoleAsks, RemoveAsks
  <2>2. req'[w].at \in {"setRole", "remove"}
    BY <2>1 DEF Idle
  <2> QED BY <2>2, NothingOwed DEF Stages
<1>10. ASSUME NEW by \in People, NEW whom \in People, NEW as \in Roles, AdminInviteSees(w, by, whom, as)
      PROVE  Asked(w)' /\ Held(w)' /\ Checked(w)'
  <2>1. req'[w] = [Idle EXCEPT !.at = "invite", !.by = by, !.whom = whom, !.as = as]
    BY <1>0, <1>10, BegunIs DEF AdminInviteSees
  <2>2. req'[w].at = "invite"
    BY <2>1 DEF Idle
  <2> QED BY <2>2, NothingOwed DEF Stages
<1>4. ASSUME NEW by \in People, NEW whom \in People, NEW as \in Roles, NEW x \in BOOLEAN,
             InviteSees(w, by, whom, as, x)
      PROVE  Asked(w)' /\ Held(w)' /\ Checked(w)'
  <2>1. \/ req'[w] = [Idle EXCEPT !.at = IF x THEN "volunteer" ELSE "invite",
                                  !.by = by, !.whom = whom, !.as = as]
        \/ \E i \in OpenFor(whom) :
             req'[w] = [Idle EXCEPT !.at = "mark", !.id = i]
    BY <1>0, <1>4, BegunIs DEF InviteSees
  <2>2. req'[w].at \in {"volunteer", "invite", "mark"}
    BY <2>1 DEF Idle
  <2> QED BY <2>2, NothingOwed DEF Stages
<1>5. ASSUME NEW whom \in People,
             NEW stage \in {"assign", "unassign", "except", "clear"}, Asks(w, stage, whom)
      PROVE  Asked(w)' /\ Held(w)' /\ Checked(w)'
  <2>1. req'[w] = [Idle EXCEPT !.at = stage, !.whom = whom]
    BY <1>0, <1>5, BegunIs DEF Asks
  <2>2. req'[w].at = stage
    BY <2>1 DEF Idle
  <2> QED BY <2>2, NothingOwed DEF Stages
<1>6. ASSUME NEW i \in Ids, AnswerLocks(w, i)
      PROVE  Asked(w)' /\ Held(w)' /\ Checked(w)'
  <2> DEFINE r == [Idle EXCEPT !.at = "answer", !.by = invites[i].to, !.whom = invites[i].to,
                               !.as = invites[i].as, !.id = i]
  <2>1. req'[w] = r /\ lock' = w /\ invites' = invites /\ Open(i) /\ active'
    BY <1>0, <1>6, BegunIs DEF AnswerLocks, orgVars
  <2>2. r.at = "answer" /\ r.id = i /\ r.as = invites[i].as
    BY DEF Idle
  <2> HIDE DEF r
  <2> QED BY <2>1, <2>2 DEF Asked, Held, Checked, Answers, At, Open
<1>7. ASSUME NEW i \in Ids, NEW by \in People, ResendSees(w, by, i)
      PROVE  Asked(w)' /\ Held(w)' /\ Checked(w)'
  <2>1. \/ req'[w] = [Idle EXCEPT !.at = "mark", !.id = i]
        \/ req'[w] = [Idle EXCEPT !.at = "restamp", !.by = by, !.id = i]
    BY <1>0, <1>7, BegunIs DEF ResendSees
  <2>2. req'[w].at \in {"mark", "restamp"}
    BY <2>1 DEF Idle
  <2> QED BY <2>2, NothingOwed DEF Stages
<1>8. ASSUME NEW i \in Ids, NEW by \in People, RevokeSees(w, by, i)
      PROVE  Asked(w)' /\ Held(w)' /\ Checked(w)'
  <2>1. req'[w] = [Idle EXCEPT !.at = "revoke", !.id = i]
    BY <1>0, <1>8, BegunIs DEF RevokeSees
  <2>2. req'[w].at = "revoke"
    BY <2>1 DEF Idle
  <2> QED BY <2>2, NothingOwed DEF Stages
<1>9. \A by, whom \in People :
          AssignSees(w, by, whom) \/ UnassignSees(w, by)
          \/ (\E stage \in {"except", "clear"} : ExceptSees(w, by, whom, stage))
          => \E p \in People, stage \in {"assign", "unassign", "except", "clear"} : Asks(w, stage, p)
  BY DEF AssignSees, UnassignSees, ExceptSees
<1>11. "staff" \in Roles
  BY DEF Roles
<1> QED BY <1>1, <1>2, <1>3, <1>4, <1>5, <1>6, <1>7, <1>8, <1>9, <1>10, <1>11 DEF Asking

LEMMA GoesTo ==
  ASSUME TypeOK, NEW w \in Workers, NEW stage, Goes(w, stage)
  PROVE  req'[w] = [req[w] EXCEPT !.at = stage] /\ req'[w].at = stage
<1>1. req[w] \in Request
  BY DEF TypeOK
<1>2. req'[w] = [req[w] EXCEPT !.at = stage]
  BY DEF TypeOK, Goes
<1> QED BY <1>1, <1>2 DEF Request

LEMMA TurnsTo ==
  ASSUME TypeOK, NEW w \in Workers
  PROVE  /\ Turns(w, [Idle EXCEPT !.at = "release", !.whom = req[w].whom]) =>
              req'[w].at = "release" /\ req'[w].whom = req[w].whom
         /\ \A i : Turns(w, [Idle EXCEPT !.at = "mark", !.id = i]) => req'[w].at = "mark"
<1>1. ASSUME NEW r, Turns(w, r) PROVE req'[w] = r
  BY <1>1 DEF TypeOK, Turns
<1>2. \A p : LET r == [Idle EXCEPT !.at = "release", !.whom = p]
            IN  r.at = "release" /\ r.whom = p
  BY DEF Idle
<1>3. \A i : [Idle EXCEPT !.at = "mark", !.id = i].at = "mark"
  BY DEF Idle
<1> QED BY <1>1, <1>2, <1>3

LEMMA WriteKeeps ==
  ASSUME IInv, TypeOK', NEW w \in Workers, Writing(w)
  PROVE  Asked(w)' /\ Held(w)' /\ Checked(w)'
<1>0. TypeOK /\ Held(w) /\ req[w] \in Request
  BY DEF IInv, TypeOK
<1>1. CASE Ends(w)
  BY <1>1, EndOwes
<1>2. CASE RemoveWrites(w) \/ Restamps(w)
  <2>1. Ends(w) \/ req'[w].at = "release" \/ req'[w].at = "mark"
    BY <1>0, <1>2, TurnsTo DEF RemoveWrites, Restamps
  <2> QED BY <2>1, EndOwes, NothingOwed DEF Stages
<1>3. CASE InviteWrites(w)
  <2>1. Ends(w) \/ req'[w].at = "mark"
    BY <1>0, <1>3, TurnsTo DEF InviteWrites
  <2> QED BY <2>1, EndOwes, NothingOwed DEF Stages
<1>4. CASE AnswerReads(w) /\ ~Ends(w)
  <2>0. /\ At(w, "answer") /\ UNCHANGED <<owner, active, cap, role, invites, lock>>
        /\ \/ Goes(w, "spend")
           \/ /\ Goes(w, "join") /\ InviterStands(req[w].id)
              /\ ~OnTeam(req[w].whom) /\ PlaceFree
    BY <1>4 DEF AnswerReads, orgVars, teamVars
  <2>1. /\ req'[w].id = req[w].id /\ req'[w].as = req[w].as /\ req'[w].whom = req[w].whom
        /\ req'[w].at \in {"spend", "join"}
    <3>1. \/ req'[w] = [req[w] EXCEPT !.at = "spend"]
          \/ req'[w] = [req[w] EXCEPT !.at = "join"]
      BY <1>0, <2>0, GoesTo
    <3> QED BY <1>0, <3>1 DEF Request
  <2>2. Answers(w)
    BY <2>0 DEF Answers, At
  <2>3. Held(w)' /\ Asked(w)'
    BY <1>0, <2>0, <2>1, <2>2 DEF Held, Asked, Answers, At, Open
  <2>4. ASSUME req'[w].at = "join"
        PROVE  /\ role[req[w].whom] = "none" /\ InviterStands(req[w].id)
               /\ Cardinality(Staff) < cap
    <3>1. Goes(w, "spend") => req'[w].at = "spend"
      BY <1>0, GoesTo
    <3> QED BY <2>0, <2>4, <3>1 DEF OnTeam, PlaceFree
  <2>5. Checked(w)'
    <3> SUFFICES ASSUME req'[w].at = "join"
                 PROVE  /\ active' /\ role'[req'[w].whom] = "none" /\ Cardinality(Staff') < cap'
                        /\ req'[w].as = "org_admin" =>
                             invites'[req'[w].id].by = owner' \/ invites'[req'[w].id].by \in Platform
      BY DEF Checked, At, Privileged
    <3>1. Staff' = Staff
      BY <2>0 DEF Staff
    <3>2. active
      BY <1>0, <2>2 DEF Held
    <3> QED BY <2>0, <2>1, <2>2, <2>4, <3>1, <3>2, <1>0 DEF InviterStands, Privileged, Held
  <2> QED BY <2>3, <2>5
<1> QED BY <1>1, <1>2, <1>3, <1>4 DEF Writing, AddWrites, AdminAddWrites, SetRoleWrites,
     RemoveWrites, Releases, AssignWrites, Unassigns, ExceptWrites, MarkSent, Restamps, RevokeWrites,
     AnswerReads, AnswerCommits
LEMMA CrashKeeps ==
  ASSUME IInv, TypeOK', NEW w \in Workers, Crashes(w)
  PROVE  Asked(w)' /\ Held(w)' /\ Checked(w)'
BY EndOwes DEF Crashes

LEMMA StepInv == IInv /\ [Next]_vars => IInv'
<1> SUFFICES ASSUME IInv, [Next]_vars PROVE IInv'
  OBVIOUS
<1>1. TypeOK'
  BY StepType DEF IInv
<1>2. ASSUME NEW w \in Workers, Asking(w) \/ Writing(w) \/ Crashes(w), NEW v \in Workers
      PROVE  Asked(v)' /\ Held(v)' /\ Checked(v)'
  <2>1. CASE v = w
    BY <1>1, <1>2, <2>1, AskKeeps, WriteKeeps, CrashKeeps
  <2>2. CASE v # w
    <3>1. req'[v] = req[v]
      BY <1>2, <2>2, OthersStand
    <3>2. Quiet(v)
      BY <1>2, <2>2, QuietAsking, QuietWriting, QuietRest
    <3> QED BY <1>1, <3>1, <3>2, OthersKeep
  <2> QED BY <2>1, <2>2
<1>3. ASSUME \/ \E i \in Ids : Declines(i) \/ Expires(i)
             \/ \E p \in People : setOrgOwner(p)
             \/ \E n \in 0..MaxCap : setOrgStaffCap(n)
             \/ closeOrReopen
             \/ UNCHANGED vars,
             NEW v \in Workers
      PROVE  Asked(v)' /\ Held(v)' /\ Checked(v)'
  <2>1. Quiet(v)
    BY <1>3, QuietRest
  <2>2. req' = req
    BY <1>3 DEF Declines, Expires, setOrgOwner, setOrgStaffCap, closeOrReopen, Edits, vars
  <2> QED BY <1>1, <2>1, <2>2, OthersKeep
<1> QED BY <1>1, <1>2, <1>3 DEF Next, IInv

LEMMA InitInv == Init => IInv
<1> SUFFICES ASSUME Init PROVE IInv
  OBVIOUS
<1>1. \A w \in Workers : req[w] = Idle
  BY DEF Init
<1>2. Idle.at = "idle"
  BY DEF Idle
<1> QED BY <1>1, <1>2, InitType DEF IInv, Asked, Held, Checked, Answers, At

-----------------------------------------------------------------------------
(* Who makes and unmakes admins.                                           *)

(* A role moves only in these five writes, and only the written person's.  *)
RoleWrite(w) ==
    AddWrites(w) \/ AdminAddWrites(w) \/ SetRoleWrites(w) \/ RemoveWrites(w)
    \/ (AnswerCommits(w) /\ At(w, "join"))

LEMMA RolesMoveByWrites ==
  ASSUME IInv, [Next]_vars, role' # role
  PROVE  \E w \in Workers : RoleWrite(w)
<1>1. ASSUME NEW w \in Workers, Asking(w) PROVE FALSE
  BY <1>1, AskReads DEF teamVars
<1>2. ASSUME NEW w \in Workers, Writing(w) PROVE RoleWrite(w)
  BY <1>2 DEF Writing, RoleWrite, Releases, AssignWrites, Unassigns, ExceptWrites, InviteWrites, MarkSent,
     Restamps, RevokeWrites, AnswerReads, AnswerCommits, teamVars
<1> QED BY <1>1, <1>2 DEF Next, Crashes, Declines, Expires, setOrgOwner, setOrgStaffCap,
     closeOrReopen, Edits, vars, teamVars

LEMMA AdminWrite ==
  ASSUME IInv, NEW w \in Workers, RoleWrite(w), NEW p \in People, role'[p] # role[p],
         "org_admin" \in {role[p], role'[p]}
  PROVE  req[w].whom = p /\ req'[w] # req[w] /\ Authority(w)
<1>0. /\ TypeOK /\ Asked(w) /\ Checked(w) /\ role \in [People -> Roles \cup {"none"}]
      /\ req[w] \in Request
  BY DEF IInv, TypeOK
<1>1. req'[w] # req[w]
  <2>1. CASE Ends(w)
    BY <1>0, <2>1, EndOwes DEF RoleWrite, AddWrites, AdminAddWrites, SetRoleWrites, RemoveWrites,
       AnswerCommits, At, Idle
  <2>2. CASE RemoveWrites(w) /\ ~Ends(w)
    BY <1>0, <2>2, TurnsTo DEF RemoveWrites, At
  <2> QED BY <2>1, <2>2 DEF RoleWrite, AddWrites, AdminAddWrites, SetRoleWrites, RemoveWrites,
       AnswerCommits
<1>2. CASE AddWrites(w)
  <2>1. req[w].whom = p /\ (req[w].as = "org_admin" \/ req[w].owns)
    BY <1>0, <1>2 DEF AddWrites
  <2> QED BY <1>0, <1>1, <1>2, <2>1 DEF AddWrites, Asked, Authority
<1>3. CASE AdminAddWrites(w)
  BY <1>0, <1>1, <1>3 DEF AdminAddWrites, Asked, At, Authority
<1>4. CASE SetRoleWrites(w)
  BY <1>0, <1>1, <1>4 DEF SetRoleWrites, At, Authority
<1>5. CASE RemoveWrites(w)
  BY <1>0, <1>1, <1>5 DEF RemoveWrites, At, Authority, teamVars
<1>6. CASE AnswerCommits(w) /\ At(w, "join")
  <2>1. req[w].whom = p /\ role'[p] = req[w].as /\ role[p] = "none"
    BY <1>0, <1>6 DEF AnswerCommits, Checked, At
  <2> QED BY <1>0, <1>1, <1>6, <2>1 DEF Checked, At, Authority
<1> QED BY <1>2, <1>3, <1>4, <1>5, <1>6 DEF RoleWrite

(* Nobody becomes, or stops being, an admin but by the owner, a platform   *)
(* admin, or an invitation of one of them accepted while they still were   *)
(* (orgStaffAdmin.ts:69, 100:378), however many requests overlap.          *)
THEOREM AdminsAlwaysByAuthority == Spec => AdminsByAuthority
<1>1. IInv /\ [Next]_vars =>
        [\A p \in People :
           role[p] # role'[p] /\ "org_admin" \in {role[p], role'[p]} =>
             \E w \in Workers : req[w].whom = p /\ req'[w] # req[w] /\ Authority(w)]_vars
  <2> SUFFICES ASSUME IInv, [Next]_vars, NEW p \in People,
                      role'[p] # role[p], "org_admin" \in {role[p], role'[p]}
               PROVE  \E w \in Workers : req[w].whom = p /\ req'[w] # req[w] /\ Authority(w)
    OBVIOUS
  <2>1. PICK w \in Workers : RoleWrite(w)
    BY RolesMoveByWrites
  <2> QED BY <2>1, AdminWrite
<1> QED BY <1>1, InitInv, StepInv, PTL DEF Spec, AdminsByAuthority

-----------------------------------------------------------------------------
(* The cap at an answer.                                                   *)

LEMMA AnswerIsItsOwn ==
  ASSUME IInv, [Next]_vars, NEW w \in Workers, req[w].at = "join",
         role'[req[w].whom] # role[req[w].whom], req'[w] = Idle
  PROVE  AnswerCommits(w)
<1>1. PICK v \in Workers : RoleWrite(v)
  BY RolesMoveByWrites
<1>2. v = w
  <2>1. Writing(v)
    BY <1>1 DEF RoleWrite, Writing
  <2>2. req[w] # Idle
    BY DEF Idle
  <2> QED BY <2>1, <2>2, OthersStand
<1> QED BY <1>1, <1>2 DEF RoleWrite, AddWrites, AdminAddWrites, SetRoleWrites, RemoveWrites, At

(* An accepted invitation fits the cap as it is when the row is written    *)
(* and joins an open organization (100:378): the lock it holds since it    *)
(* counted keeps out every other new row, lower cap and close.             *)
THEOREM AnswersAlwaysKeepCap == Spec => AnswersKeepCap
<1>1. IInv /\ [Next]_vars =>
        [\A w \in Workers :
           req[w].at = "join" /\ role'[req[w].whom] # role[req[w].whom] /\ req'[w] = Idle =>
             active /\ Cardinality(Staff') <= cap]_vars
  <2> SUFFICES ASSUME IInv, [Next]_vars, NEW w \in Workers, req[w].at = "join",
                      role'[req[w].whom] # role[req[w].whom], req'[w] = Idle
               PROVE  active /\ Cardinality(Staff') <= cap
    OBVIOUS
  <2>1. AnswerCommits(w)
    BY AnswerIsItsOwn
  <2>2. TypeOK /\ Checked(w) /\ req[w].whom \in People /\ req[w].as \in Roles
    BY DEF IInv, TypeOK, Request
  <2>3. active /\ role[req[w].whom] = "none" /\ Cardinality(Staff) < cap
    BY <2>2 DEF Checked, At
  <2>4. role' = [role EXCEPT ![req[w].whom] = req[w].as]
    BY <2>1 DEF AnswerCommits, At
  <2>5. Staff' = Staff \cup {req[w].whom} /\ req[w].whom \notin Staff
    BY <2>2, <2>3, <2>4 DEF Staff, TypeOK, Roles
  <2>6. IsFiniteSet(Staff) /\ Cardinality(Staff) \in Nat /\ cap \in Nat
    BY <2>2, StaffFinite DEF TypeOK
  <2>7. Cardinality(Staff') = Cardinality(Staff) + 1
    BY <2>5, <2>6, FS_AddElement
  <2> QED BY <2>3, <2>6, <2>7
<1> QED BY <1>1, InitInv, StepInv, PTL DEF Spec, AnswersKeepCap

-----------------------------------------------------------------------------
(* One request at a time.                                                  *)

(* While nothing overlapped, at most one request is under way, and whom it *)
(* is about to except or assign is still on the team.                      *)
Alone == \A v, w \in Workers : req[v] # Idle /\ req[w] # Idle => v = w
Current(w) ==
    /\ At(w, "except") => role[req[w].whom] # "none"
    /\ At(w, "assign") => OnTeam(req[w].whom)
Tidy ==
    /\ TypeOK
    /\ orderly => Alone /\ \A w \in Workers : Current(w)
    /\ NoForgottenGrant /\ CaseloadIsHeld

LEMMA IdleAt == Idle.at = "idle"
BY DEF Idle

(* A request that is over owes the team nothing.                           *)
LEMMA IdleIsCurrent ==
  ASSUME NEW w \in Workers
  PROVE  /\ req[w] = Idle => Current(w) /\ ~At(w, "release")
         /\ req'[w] = Idle => Current(w)' /\ ~At(w, "release")'
BY IdleAt DEF Current, At

(* Whoever writes is alone, and stays the only one.                        *)
LEMMA WritersAlone ==
  ASSUME Tidy, orderly, NEW w \in Workers, Writing(w)
  PROVE  /\ orderly' = orderly
         /\ \A v \in Workers \ {w} : req[v] = Idle /\ req'[v] = Idle
<1>0. TypeOK /\ Alone
  BY DEF Tidy
<1>1. req[w] # Idle
  BY IdleAt DEF Writing, AddWrites, AdminAddWrites, SetRoleWrites, RemoveWrites, Releases,
     AssignWrites, Unassigns, ExceptWrites, InviteWrites, MarkSent, Restamps, RevokeWrites, AnswerReads,
     AnswerCommits, At
<1>2. \A v \in Workers \ {w} : req'[v] = req[v]
  BY <1>0 DEF TypeOK, Writing, AddWrites, AdminAddWrites, SetRoleWrites, RemoveWrites, Releases,
     AssignWrites, Unassigns, ExceptWrites, InviteWrites, MarkSent, Restamps, RevokeWrites, AnswerReads,
     AnswerCommits, Goes, Turns, Ends
<1>3. orderly' = orderly
  BY DEF Writing, AddWrites, AdminAddWrites, SetRoleWrites, RemoveWrites, Releases,
     AssignWrites, Unassigns, ExceptWrites, InviteWrites, MarkSent, Restamps, RevokeWrites, AnswerReads,
     AnswerCommits
<1> QED BY <1>0, <1>1, <1>2, <1>3 DEF Alone

(* What it turns to next is neither an exception nor an assignment.        *)
LEMMA WriterTurns ==
  ASSUME TypeOK, NEW w \in Workers, Writing(w)
  PROVE  req'[w] = Idle \/ req'[w].at \in {"release", "mark", "spend", "join"}
<1>1. CASE Ends(w)
  BY <1>1 DEF TypeOK, Ends
<1>2. CASE \E stage \in {"spend", "join"} : Goes(w, stage)
  BY <1>2, GoesTo
<1>3. CASE ~Ends(w) /\ (RemoveWrites(w) \/ Restamps(w) \/ InviteWrites(w))
  BY <1>3, TurnsTo DEF RemoveWrites, Restamps, InviteWrites
<1> QED BY <1>1, <1>2, <1>3 DEF Writing, AddWrites, AdminAddWrites, SetRoleWrites,
     RemoveWrites, Releases, AssignWrites, Unassigns, ExceptWrites, MarkSent, Restamps, RevokeWrites,
     AnswerReads, AnswerCommits

(* Asking first finds everybody else idle, and the team as it is.          *)
LEMMA AskTidy ==
  ASSUME Tidy, TypeOK', NEW w \in Workers, Asking(w)
  PROVE  Tidy'
<1>0. /\ TypeOK /\ UNCHANGED <<owner, parted, role, exceptions, caseload>>
      /\ \E r : Begins(w, r)
  BY AskReads DEF Tidy, orgVars, teamVars
<1> SUFFICES ASSUME orderly'
             PROVE  /\ Alone' /\ \A v \in Workers : Current(v)'
                    /\ NoForgottenGrant' /\ CaseloadIsHeld'
  BY <1>0 DEF Tidy, NoForgottenGrant, CaseloadIsHeld
<1>1. /\ orderly /\ \A v \in Workers : req[v] = Idle
      /\ \A v \in Workers \ {w} : req'[v] = Idle
  BY <1>0 DEF Begins, TypeOK
<1>2. Alone'
  BY <1>1 DEF Alone
<1>3. Current(w)'
  <2> SUFFICES ASSUME req'[w].at \in {"except", "assign"}
               PROVE  /\ req'[w].at = "except" => role[req'[w].whom] # "none"
                      /\ req'[w].at = "assign" => OnTeam(req'[w].whom)
    BY <1>0 DEF Current, At, OnTeam
  <2>1. ASSUME NEW whom \in People,
               NEW stage \in {"assign", "unassign", "except", "clear"}, Asks(w, stage, whom)
        PROVE  req'[w].at = stage /\ req'[w].whom = whom
    <3>1. req'[w] = [Idle EXCEPT !.at = stage, !.whom = whom]
      BY <1>0, <2>1, BegunIs DEF Asks
    <3> QED BY <3>1 DEF Idle
  <2>2. CASE \E by, whom \in People : AssignSees(w, by, whom)
    BY <2>1, <2>2 DEF AssignSees
  <2>3. CASE \E by, whom \in People, stage \in {"except", "clear"} : ExceptSees(w, by, whom, stage)
    BY <2>1, <2>3 DEF ExceptSees
  <2>4. ASSUME NEW r, Begins(w, r), r.at \in Stages \ {"except", "assign"}
        PROVE  FALSE
    BY <1>0, <2>4, BegunIs
  <2>5. ASSUME NEW by \in People, UnassignSees(w, by)
        PROVE  FALSE
    BY <2>1, <2>5 DEF UnassignSees
  <2>6. ASSUME NEW by \in People, NEW whom \in People, NEW as \in Roles, NEW v \in BOOLEAN,
               \/ AddSees(w, by, whom, as) \/ AdminAddSees(w, by, whom, as)
               \/ AdminInviteSees(w, by, whom, as) \/ InviteSees(w, by, whom, as, v)
        PROVE  FALSE
    BY <2>4, <2>6 DEF AddSees, AdminAddSees, AdminInviteSees, InviteSees, Idle, Stages
  <2>8. ASSUME NEW by \in People, NEW whom \in People, NEW as \in Roles, NEW v \in BOOLEAN,
               SetRoleAsks(w, by, whom, as, v) \/ RemoveAsks(w, by, whom, v)
        PROVE  FALSE
    BY <2>4, <2>8 DEF SetRoleAsks, RemoveAsks, Idle, Stages
  <2>7. ASSUME NEW i \in Ids,
               AnswerLocks(w, i) \/ \E by \in People : ResendSees(w, by, i) \/ RevokeSees(w, by, i)
        PROVE  FALSE
    BY <2>4, <2>7 DEF AnswerLocks, ResendSees, RevokeSees, Idle, Stages
  <2>9. "staff" \in Roles
    BY DEF Roles
  <2> QED BY <2>2, <2>3, <2>5, <2>6, <2>7, <2>8, <2>9 DEF Asking
<1>4. \A v \in Workers : Current(v)'
  BY <1>1, <1>3, IdleIsCurrent
<1>5. NoForgottenGrant'
  BY <1>0, <1>1 DEF Tidy, NoForgottenGrant, Staff
<1>6. CaseloadIsHeld'
  BY <1>0, <1>1, IdleIsCurrent DEF Tidy, CaseloadIsHeld, OnTeam
<1> QED BY <1>2, <1>4, <1>5, <1>6

(* A staff row goes in one place only, and takes its exceptions with it.   *)
LEMMA OnlyRemovalsLeave ==
  ASSUME TypeOK, NEW w \in Workers, Writing(w), NEW p \in People, role[p] # "none", role'[p] = "none"
  PROVE  /\ RemoveWrites(w) /\ req[w].whom = p /\ UNCHANGED caseload
         /\ Turns(w, [Idle EXCEPT !.at = "release", !.whom = p])
<1>1. role \in [People -> Roles \cup {"none"}] /\ req[w].as \in Roles /\ "none" \notin Roles
  BY DEF TypeOK, Request, Roles
<1> QED BY <1>1 DEF Writing, AddWrites, AdminAddWrites, SetRoleWrites, RemoveWrites, Releases,
     AssignWrites, Unassigns, ExceptWrites, InviteWrites, MarkSent, Restamps, RevokeWrites, AnswerReads,
     AnswerCommits, teamVars

(* What a write adds belongs to somebody it finds, or puts, on the team.   *)
LEMMA WriteKeepsGrants ==
  ASSUME Tidy, orderly, NEW w \in Workers, Writing(w)
  PROVE  exceptions' \subseteq Staff'
<1>0. /\ TypeOK /\ exceptions \subseteq Staff /\ Current(w) /\ exceptions \subseteq People
      /\ req[w].whom \in People /\ req[w].as \in Roles /\ "none" \notin Roles
      /\ role \in [People -> Roles \cup {"none"}]
  BY DEF Tidy, NoForgottenGrant, TypeOK, Request, Roles
<1>1. CASE RemoveWrites(w)
  BY <1>0, <1>1 DEF RemoveWrites, ClearsExceptions, Staff, teamVars
<1>2. CASE ExceptWrites(w)
  BY <1>0, <1>2 DEF ExceptWrites, Current, Staff
<1>3. CASE AnswerCommits(w)
  BY <1>0, <1>3 DEF AnswerCommits, Staff, teamVars
<1>4. CASE ~(RemoveWrites(w) \/ ExceptWrites(w) \/ AnswerCommits(w))
  <2>1. exceptions' = exceptions
    BY <1>4 DEF Writing, AddWrites, AdminAddWrites, SetRoleWrites, Releases, AssignWrites, Unassigns,
       InviteWrites, MarkSent, Restamps, RevokeWrites, AnswerReads, teamVars
  <2>2. \A p \in People : role[p] # "none" => role'[p] # "none"
    BY <1>0, <1>4, OnlyRemovalsLeave
  <2> QED BY <1>0, <2>1, <2>2 DEF Staff
<1> QED BY <1>1, <1>2, <1>3, <1>4

(* A caseload changes hands to the team, or is about to be released.       *)
Placed(c) ==
    \/ caseload[c] = "nobody" \/ OnTeam(caseload[c]) \/ caseload[c] \in parted
    \/ \E w \in Workers : At(w, "release") /\ req[w].whom = caseload[c]

LEMMA WriteKeepsCaseload ==
  ASSUME Tidy, orderly, NEW w \in Workers, Writing(w), NEW c \in Clients
  PROVE  Placed(c)'
<1>0. /\ TypeOK /\ Current(w) /\ req[w] \in Request
      /\ req[w].whom \in People
      /\ caseload \in [Clients -> People \cup {"nobody"}]
      /\ Placed(c)
  BY DEF Tidy, CaseloadIsHeld, Placed, TypeOK, Request
<1>1. owner' = owner /\ (parted' = parted \/ Releases(w))
  BY DEF Writing, AddWrites, AdminAddWrites, SetRoleWrites, RemoveWrites, Releases,
     AssignWrites, Unassigns, ExceptWrites, InviteWrites, MarkSent, Restamps, RevokeWrites, AnswerReads,
     AnswerCommits, orgVars
<1>2. \A v \in Workers \ {w} : ~At(v, "release")
  BY WritersAlone, IdleIsCurrent
<1>3. CASE Releases(w)
  <2>1. /\ caseload'[c] = "nobody" \/ (caseload'[c] = caseload[c] /\ caseload[c] # req[w].whom)
        /\ parted' = parted \ {req[w].whom}
    BY <1>3 DEF Releases
  <2>2. role' = role
    BY <1>3 DEF Releases, teamVars
  <2> QED BY <1>0, <1>1, <1>2, <2>1, <2>2 DEF Placed, OnTeam
<1>4. CASE AssignWrites(w)
  <2>1. /\ OnTeam(req[w].whom) /\ role' = role /\ ~At(w, "release")
        /\ caseload'[c] = req[w].whom \/ caseload'[c] = caseload[c]
        /\ parted' = parted
    BY <1>0, <1>4 DEF AssignWrites, Current, At, orgVars, teamVars
  <2> QED BY <1>0, <1>1, <1>2, <2>1 DEF Placed, OnTeam
<1>6. CASE Unassigns(w)
  <2>1. /\ role' = role /\ parted' = parted /\ ~At(w, "release")
        /\ caseload'[c] = "nobody" \/ caseload'[c] = caseload[c]
    BY <1>0, <1>6 DEF Unassigns, At, orgVars, teamVars
  <2> QED BY <1>0, <1>1, <1>2, <2>1 DEF Placed, OnTeam
<1>5. CASE ~(Releases(w) \/ AssignWrites(w) \/ Unassigns(w))
  <2>1. caseload' = caseload /\ ~At(w, "release")
    BY <1>5 DEF Writing, AddWrites, AdminAddWrites, SetRoleWrites, RemoveWrites, ExceptWrites,
       InviteWrites, MarkSent, Restamps, RevokeWrites, AnswerReads, AnswerCommits, At
  <2>2. CASE caseload[c] = "nobody" \/ caseload[c] \in parted
    BY <1>1, <1>5, <2>1, <2>2 DEF Placed
  <2>3. CASE OnTeam(caseload[c]) /\ caseload[c] # "nobody"
    <3>1. caseload[c] \in People
      BY <1>0, <2>3
    <3>2. CASE caseload[c] = owner \/ role'[caseload[c]] # "none"
      BY <1>1, <2>1, <3>2 DEF Placed, OnTeam
    <3>3. CASE role[caseload[c]] # "none" /\ role'[caseload[c]] = "none"
      <4>1. /\ req[w].whom = caseload[c]
            /\ Turns(w, [Idle EXCEPT !.at = "release", !.whom = req[w].whom])
        BY <1>0, <3>1, <3>3, OnlyRemovalsLeave
      <4>3. req'[w].at = "release" /\ req'[w].whom = req[w].whom
        BY <1>0, <4>1, TurnsTo
      <4> QED BY <2>1, <4>1, <4>3 DEF Placed, At
    <3> QED BY <2>3, <3>2, <3>3 DEF Placed, OnTeam
  <2> QED BY <1>0, <1>2, <2>1, <2>2, <2>3 DEF Placed
<1> QED BY <1>3, <1>4, <1>5, <1>6

LEMMA WriteTidy ==
  ASSUME Tidy, TypeOK', NEW w \in Workers, Writing(w)
  PROVE  Tidy'
<1>0. TypeOK /\ orderly' = orderly
  BY DEF Tidy, Writing, AddWrites, AdminAddWrites, SetRoleWrites, RemoveWrites, Releases,
     AssignWrites, Unassigns, ExceptWrites, InviteWrites, MarkSent, Restamps, RevokeWrites, AnswerReads,
     AnswerCommits, orgVars
<1>1. ASSUME orderly PROVE Alone' /\ \A v \in Workers : Current(v)'
  <2>1. \A v \in Workers \ {w} : req'[v] = Idle
    BY <1>1, WritersAlone
  <2>2. Current(w)'
    BY <1>0, WriterTurns, IdleIsCurrent DEF Current, At
  <2> QED BY <2>1, <2>2, IdleIsCurrent DEF Alone
<1>2. NoForgottenGrant'
  BY <1>0, WriteKeepsGrants DEF NoForgottenGrant
<1>3. CaseloadIsHeld'
  BY <1>0, WriteKeepsCaseload DEF CaseloadIsHeld, Placed
<1> QED BY <1>0, <1>1, <1>2, <1>3 DEF Tidy

(* The platform's changes wait for everybody; an owner replaced has parted. *)
LEMMA RestTidy ==
  ASSUME Tidy, TypeOK',
         \/ \E w \in Workers : Crashes(w)
         \/ \E i \in Ids : Declines(i) \/ Expires(i)
         \/ \E p \in People : setOrgOwner(p)
         \/ \E n \in 0..MaxCap : setOrgStaffCap(n)
         \/ closeOrReopen
         \/ UNCHANGED vars
  PROVE  Tidy'
<1>0. TypeOK
  BY DEF Tidy
<1>1. UNCHANGED <<role, exceptions, caseload>>
  BY DEF Crashes, Declines, Expires, setOrgOwner, setOrgStaffCap, closeOrReopen, Edits, vars, teamVars
<1>2. parted \subseteq parted' \cup {owner'} /\ owner \in parted' \cup {owner'}
  BY <1>0 DEF Crashes, Declines, Expires, setOrgOwner, setOrgStaffCap, closeOrReopen, Edits, vars, orgVars
<1>3. orderly' => orderly /\ req' = req /\ (owner' = owner \/ \A v \in Workers : req[v] = Idle)
  BY DEF Crashes, Declines, Expires, setOrgOwner, setOrgStaffCap, closeOrReopen, Edits, vars, orgVars
<1>4. ASSUME orderly' PROVE Alone' /\ \A w \in Workers : Current(w)'
  <2>1. Alone'
    BY <1>3, <1>4 DEF Tidy, Alone
  <2>2. ASSUME NEW w \in Workers PROVE Current(w)'
    <3>1. CASE req[w] = Idle
      BY <1>3, <1>4, <3>1, IdleIsCurrent
    <3>2. CASE owner' = owner
      BY <1>1, <1>3, <1>4, <3>2 DEF Tidy, Current, At, OnTeam
    <3> QED BY <1>3, <1>4, <3>1, <3>2
  <2> QED BY <2>1, <2>2
<1>5. NoForgottenGrant'
  BY <1>1, <1>3 DEF Tidy, NoForgottenGrant, Staff
<1>6. CaseloadIsHeld'
  <2> SUFFICES ASSUME orderly', NEW c \in Clients
               PROVE  \/ caseload[c] = "nobody" \/ caseload[c] = owner' \/ role[caseload[c]] # "none"
                      \/ caseload[c] \in parted'
                      \/ \E v \in Workers : req'[v].at = "release" /\ req'[v].whom = caseload[c]
    BY <1>1 DEF CaseloadIsHeld, OnTeam, At
  <2> QED BY <1>2, <1>3 DEF Tidy, CaseloadIsHeld, OnTeam, At
<1> QED BY <1>2, <1>4, <1>5, <1>6 DEF Tidy

LEMMA InitTidy == Init => Tidy
<1> SUFFICES ASSUME Init PROVE Tidy
  OBVIOUS
<1>1. \A w \in Workers : req[w] = Idle
  BY DEF Init
<1> QED BY <1>1, InitType, IdleIsCurrent DEF Init, Tidy, Alone, NoForgottenGrant, CaseloadIsHeld

LEMMA StepTidy == Tidy /\ [Next]_vars => Tidy'
<1> SUFFICES ASSUME Tidy, [Next]_vars PROVE Tidy'
  OBVIOUS
<1>1. TypeOK'
  BY StepType DEF Tidy
<1> QED BY <1>1, AskTidy, WriteTidy, RestTidy DEF Next

(* Exceptions belong to people with a staff row (053:73), as long as no    *)
(* request overlaps another: the removal's trigger is the only thing that  *)
(* takes them, and everything that adds one just found the row there.      *)
THEOREM GrantsNeverForgotten == Spec => []NoForgottenGrant
<1>1. Tidy => NoForgottenGrant
  BY DEF Tidy
<1> QED BY <1>1, InitTidy, StepTidy, PTL DEF Spec

(* No participant stays with someone off the team, but for a former owner  *)
(* not removed since, or one whose release is the removal's next statement      *)
(* (orgStaffAdmin.ts:303).                                                 *)
THEOREM CaseloadAlwaysHeld == Spec => []CaseloadIsHeld
<1>1. Tidy => CaseloadIsHeld
  BY DEF Tidy
<1> QED BY <1>1, InitTidy, StepTidy, PTL DEF Spec
=============================================================================
