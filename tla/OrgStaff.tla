------------------------------ MODULE OrgStaff ------------------------------
(***************************************************************************)
(* The staff of one organization: who is on it and as what (orgStaffAdmin, *)
(* orgAccess), the invitations that lead there (staffInvites and migration *)
(* 100), the exceptions to a role's capabilities (053), the cap on staff   *)
(* places, and the caseload a removal releases.                            *)
(*                                                                         *)
(* A worker is one request.  Its first step takes the route's guard and    *)
(* the reads it decides by, the later ones are its writes: what was read   *)
(* may be stale by then.  The statements that repeat a check of the first  *)
(* step are modelled by the check that binds.  Accepting an invitation is  *)
(* one transaction that locks the organization's row; inserting a staff    *)
(* row or an assignment needs a share of that lock (the foreign key).      *)
(***************************************************************************)
EXTENDS Naturals, FiniteSets

CONSTANTS
    People,       \* accounts
    Founder,      \* the first owner
    Platform,     \* platform_admin
    Members,      \* accounts that redeemed the organization's code
    Clients,      \* participants on someone's caseload
    Workers,      \* requests in flight
    StartCap,     \* the staff cap at first
    MaxCap,       \* largest staff cap tried
    MaxInvites,   \* invitations written
    MaxEdits,     \* platform changes of owner, cap or status, and crashes
    MaxRequests,  \* requests begun
    CanCrash      \* an instance may die between two writes

ASSUME PeopleAssumption ==
    /\ IsFiniteSet(People) /\ Founder \in People
    /\ Platform \subseteq People /\ Members \subseteq People
    /\ "nobody" \notin People
ASSUME StaffBoundsAssumption ==
    /\ {MaxCap, MaxInvites, MaxEdits, MaxRequests} \subseteq Nat
    /\ StartCap \in 0..MaxCap /\ CanCrash \in BOOLEAN
ASSUME WorkersAssumption == "free" \notin Workers

VARIABLES
    owner,       \* access_code.partner_user_id
    active,      \* access_code.is_active
    cap,         \* access_code.max_staff
    role,        \* org_staff: the role of each person, or "none"
    exceptions,  \* org_capability_override: who has any
    caseload,    \* client_staff_assignment: who works with each participant
    invites,     \* org_staff_invite: the rows, by id
    req,         \* the requests in flight
    lock,        \* who holds the organization's row
    orderly,     \* no two requests overlapped and no instance died so far
    parted,      \* former owners whose caseload no removal has released since
    edits, begun \* bounds

orgVars == <<owner, active, cap, parted>>
teamVars == <<role, exceptions>>
boundVars == <<edits, begun>>
vars == <<orgVars, teamVars, caseload, invites, req, lock, orderly, boundVars>>

Ids == 1..MaxInvites
Roles == {"org_admin", "staff"}
Standings == {"unwritten", "open", "ended"}
Invite == [to : People, as : Roles, volunteer : BOOLEAN, by : People,
           expired : BOOLEAN, is : Standings]
Unwritten == [to |-> Founder, as |-> "staff", volunteer |-> FALSE, by |-> Founder,
              expired |-> FALSE, is |-> "unwritten"]

(* An invitation accepted, declined or revoked: its row stays, but nothing *)
(* reads what it said or how it ended.                                     *)
Ended == [Unwritten EXCEPT !.is = "ended"]

(* A request: its next step, who acts, on whom, with which role, on which  *)
(* invitation; owns is what the statement's snapshot said of the actor,    *)
(* support that it came by the platform's route and not the console.       *)
Idle == [at |-> "idle", by |-> Founder, whom |-> Founder, as |-> "staff", id |-> 0,
         owns |-> FALSE, support |-> FALSE]
Stages == {"idle", "add", "adminAdd", "setRole", "remove", "release", "assign", "unassign",
           "except", "clear", "invite", "volunteer", "mark", "restamp", "revoke",
           "answer", "join", "spend"}
Request == [at : Stages, by : People, whom : People, as : Roles, id : 0..MaxInvites,
            owns : BOOLEAN, support : BOOLEAN]

Init ==
    /\ owner = Founder /\ active = TRUE /\ cap = StartCap
    /\ role = [p \in People |-> "none"] /\ exceptions = {}
    /\ caseload = [c \in Clients |-> "nobody"]
    /\ invites = [i \in Ids |-> Unwritten]
    /\ req = [w \in Workers |-> Idle] /\ lock = "free"
    /\ orderly = TRUE /\ parted = {} /\ edits = 0 /\ begun = 0

-----------------------------------------------------------------------------
(* Who may do what.                                                        *)

Staff == {p \in People : role[p] # "none"}
OnTeam(p) == p = owner \/ role[p] # "none"
Privileged(p) == p = owner \/ p \in Platform

(* requireOrgCapability("org.staff.manage"): the owner and the admins of   *)
(* an open organization.                                                   *)
Manages(p) == active /\ (p = owner \/ role[p] = "org_admin")

(* The two ways to a colleague's role or invitation, and who may touch an  *)
(* admin's: the console belongs to the team and there only the owner may,  *)
(* the support path to the platform (ACTOR_IS_OWNER_OR_PLATFORM_ADMIN).    *)
ComesBy(p, support) == IF support THEN p \in Platform ELSE Manages(p)
OverAdmins(p, support) == p = owner \/ (support /\ p \in Platform)

(* org.client.assign: the same people, or staff with an exception for it.  *)
MayAssign(p) == Manages(p) \/ (active /\ role[p] = "staff" /\ p \in exceptions)

(* A new staff row needs a free staff place.                               *)
PlaceFree == Cardinality(Staff) < cap

(* Whom addOrgStaff may add: they redeemed the code, or are staff already. *)
Connected(p) == p \in Members \/ role[p] # "none"

Open(i) == invites[i].is = "open"
OpenFor(p) == {i \in Ids : Open(i) /\ invites[i].to = p}

(* STAFF_PLACES_SQL: staff rows, and every open invitation holds one more. *)
Places == Cardinality(Staff) + Cardinality({i \in Ids : Open(i) /\ ~invites[i].expired})

(* smr_answer_staff_invite's v_inviter_ok, which the list also shows.      *)
InviterStands(i) ==
    \/ Privileged(invites[i].by)
    \/ invites[i].as # "org_admin" /\ role[invites[i].by] = "org_admin"

(* The staff row being accepted is locked, with the organization's.        *)
Answering(i) == \E w \in Workers : req[w].at \in {"answer", "join", "spend"} /\ req[w].id = i
OrgRowFree == lock = "free"

-----------------------------------------------------------------------------
(* Requests.                                                               *)

Turns(w, r) == req' = [req EXCEPT ![w] = r]
Goes(w, stage) == req' = [req EXCEPT ![w].at = stage]
Ends(w) == req' = [req EXCEPT ![w] = Idle]
At(w, stage) == req[w].at = stage

Free(w) == req[w] = Idle /\ begun < MaxRequests
Begins(w, r) ==
    /\ begun' = begun + 1
    /\ req' = [req EXCEPT ![w] = r]
    /\ orderly' = (orderly /\ \A v \in Workers : req[v] = Idle)

(* A request whose write no longer asks who acts.                          *)
Asks(w, stage, whom) == Begins(w, [Idle EXCEPT !.at = stage, !.whom = whom])

(* addOrgStaff: the guard, and the snapshot STAFF_SQL.add is evaluated in. *)
AddSees(w, by, whom, as) ==
    /\ Manages(by)
    /\ as = "org_admin" => by = owner
    /\ role[whom] # "none" \/ PlaceFree
    /\ Connected(whom)
    /\ Begins(w, [Idle EXCEPT !.at = "add", !.whom = whom, !.as = as, !.owns = (by = owner)])
    /\ UNCHANGED <<orgVars, teamVars, caseload, invites, lock, edits>>

(* Its insert, or the re-role on conflict.                                 *)
AddWrites(w) ==
    /\ At(w, "add")
    /\ LET p == req[w].whom
       IN  \/ /\ role[p] = "none" /\ OrgRowFree
              /\ role' = [role EXCEPT ![p] = req[w].as]
           \/ /\ role[p] # "none"
              /\ (role[p] # "org_admin" /\ req[w].as # "org_admin") \/ req[w].owns
              /\ role' = [role EXCEPT ![p] = req[w].as]
           \/ /\ role[p] = "org_admin" /\ ~req[w].owns
              /\ UNCHANGED role
    /\ Ends(w)
    /\ UNCHANGED <<orgVars, exceptions, caseload, invites, lock, orderly, boundVars>>

(* adminAddStaff, the support path: an existing account, at once.          *)
AdminAddSees(w, by, whom, as) ==
    /\ by \in Platform /\ active /\ ~OnTeam(whom) /\ Places < cap
    /\ Begins(w, [Idle EXCEPT !.at = "adminAdd", !.by = by, !.whom = whom, !.as = as])
    /\ UNCHANGED <<orgVars, teamVars, caseload, invites, lock, edits>>

(* Someone who got there first fails the unique key and saves nothing.     *)
AdminAddWrites(w) ==
    /\ At(w, "adminAdd") /\ OrgRowFree
    /\ role' = [role EXCEPT ![req[w].whom] = IF @ = "none" THEN req[w].as ELSE @]
    /\ Ends(w)
    /\ UNCHANGED <<orgVars, exceptions, caseload, invites, lock, orderly, boundVars>>

(* setOrgStaffRole.                                                        *)
SetRoleAsks(w, by, whom, as, support) ==
    /\ ComesBy(by, support)
    /\ by # whom /\ role[whom] # "none"
    /\ role[whom] = "org_admin" \/ as = "org_admin" => OverAdmins(by, support)
    /\ Begins(w, [Idle EXCEPT !.at = "setRole", !.by = by, !.whom = whom, !.as = as,
                             !.support = support])
    /\ UNCHANGED <<orgVars, teamVars, caseload, invites, lock, edits>>

(* Mutated form: the statement trusts the check before it.                 *)
SetRoleTrusting(w) ==
    /\ At(w, "setRole")
    /\ role' = [role EXCEPT ![req[w].whom] = IF @ = "none" THEN @ ELSE req[w].as]
    /\ Ends(w)
    /\ UNCHANGED <<orgVars, exceptions, caseload, invites, lock, orderly, boundVars>>

SetRoleWrites(w) ==
    /\ At(w, "setRole")
    /\ LET p == req[w].whom
           may == /\ role[p] # "none"
                  /\ \/ role[p] # "org_admin" /\ req[w].as # "org_admin"
                     \/ OverAdmins(req[w].by, req[w].support)
       IN  role' = [role EXCEPT ![p] = IF may THEN req[w].as ELSE @]
    /\ Ends(w)
    /\ UNCHANGED <<orgVars, exceptions, caseload, invites, lock, orderly, boundVars>>

(* removeOrgStaff: nobody removes themselves or the owner.                 *)
RemoveAsks(w, by, whom, support) ==
    /\ ComesBy(by, support)
    /\ by # whom /\ whom # owner /\ role[whom] # "none"
    /\ role[whom] = "org_admin" => OverAdmins(by, support)
    /\ Begins(w, [Idle EXCEPT !.at = "remove", !.by = by, !.whom = whom, !.support = support])
    /\ UNCHANGED <<orgVars, teamVars, caseload, invites, lock, edits>>

(* Mutated form: the exceptions stay when the row goes.                    *)
KeepsExceptions(p) == exceptions

(* org_staff_clear_overrides: what is left when p's staff row goes.        *)
ClearsExceptions(p) == exceptions \ {p}

(* STAFF_SQL.remove and its trigger.                                       *)
RemoveWrites(w) ==
    /\ At(w, "remove")
    /\ LET p == req[w].whom
           may == /\ role[p] # "none"
                  /\ role[p] # "org_admin" \/ OverAdmins(req[w].by, req[w].support)
       IN  \/ /\ may
              /\ role' = [role EXCEPT ![p] = "none"]
              /\ exceptions' = ClearsExceptions(p)
              /\ Turns(w, [Idle EXCEPT !.at = "release", !.whom = p])
           \/ ~may /\ Ends(w) /\ UNCHANGED teamVars
    /\ UNCHANGED <<orgVars, caseload, invites, lock, orderly, boundVars>>

(* Mutated form: a removal leaves the caseload with the one removed.       *)
ReleasesNobody(w) ==
    /\ At(w, "release") /\ Ends(w)
    /\ UNCHANGED <<orgVars, teamVars, caseload, invites, lock, orderly, boundVars>>

(* In a transaction of its own, their caseload.                            *)
Releases(w) ==
    /\ At(w, "release")
    /\ caseload' = [c \in Clients |-> IF caseload[c] = req[w].whom THEN "nobody" ELSE caseload[c]]
    /\ parted' = parted \ {req[w].whom}
    /\ Ends(w)
    /\ UNCHANGED <<owner, active, cap, teamVars, invites, lock, orderly, boundVars>>

(* assignClientStaff: the staff member is looked up in the statement.      *)
AssignSees(w, by, whom) ==
    /\ MayAssign(by) /\ OnTeam(whom)
    /\ Asks(w, "assign", whom)
    /\ UNCHANGED <<orgVars, teamVars, caseload, invites, lock, edits>>

(* A new row takes a share of the organization's lock; handing over one    *)
(* that is there does not.                                                 *)
AssignWrites(w) ==
    /\ At(w, "assign")
    /\ \E c \in Clients :
         /\ caseload[c] = "nobody" => OrgRowFree
         /\ caseload' = [caseload EXCEPT ![c] = req[w].whom]
    /\ Ends(w)
    /\ UNCHANGED <<orgVars, teamVars, invites, lock, orderly, boundVars>>

(* Nobody named: the assignment is deleted.                                *)
UnassignSees(w, by) ==
    /\ MayAssign(by)
    /\ Asks(w, "unassign", Founder)
    /\ UNCHANGED <<orgVars, teamVars, caseload, invites, lock, edits>>

Unassigns(w) ==
    /\ At(w, "unassign")
    /\ \E c \in Clients : caseload' = [caseload EXCEPT ![c] = "nobody"]
    /\ Ends(w)
    /\ UNCHANGED <<orgVars, teamVars, invites, lock, orderly, boundVars>>

(* smr_set_capability_override, one call or a preset's several: never on   *)
(* yourself, the owner, or an admin unless you are the owner.              *)
ExceptSees(w, by, whom, stage) ==
    /\ stage \in {"except", "clear"}
    /\ Manages(by) /\ by # whom /\ whom # owner /\ role[whom] # "none"
    /\ role[whom] = "org_admin" => by = owner
    /\ Asks(w, stage, whom)
    /\ UNCHANGED <<orgVars, teamVars, caseload, invites, lock, edits>>

(* Clearing one capability leaves the person with the others, if any.      *)
ExceptWrites(w) ==
    /\ \/ At(w, "except") /\ OrgRowFree /\ exceptions' = exceptions \cup {req[w].whom}
       \/ At(w, "clear") /\ exceptions' \in {exceptions, exceptions \ {req[w].whom}}
    /\ Ends(w)
    /\ UNCHANGED <<orgVars, role, caseload, invites, lock, orderly, boundVars>>

-----------------------------------------------------------------------------
(* Invitations.                                                            *)

(* inviteOrgStaff: one open invitation per person; pressing Send again     *)
(* renews it.  A new account and an existing one are treated alike.        *)
InviteSees(w, by, whom, as, volunteer) ==
    /\ Manages(by) /\ ~OnTeam(whom)
    /\ as = "org_admin" => by = owner /\ ~volunteer
    /\ \/ /\ OpenFor(whom) = {} /\ Places < cap
          /\ Begins(w, [Idle EXCEPT !.at = IF volunteer THEN "volunteer" ELSE "invite",
                                   !.by = by, !.whom = whom, !.as = as])
       \/ \E i \in OpenFor(whom) :
            Begins(w, [Idle EXCEPT !.at = "mark", !.id = i])
    /\ UNCHANGED <<orgVars, teamVars, caseload, invites, lock, edits>>

(* adminAddStaff, an address without an account: an invitation likewise.   *)
AdminInviteSees(w, by, whom, as) ==
    /\ by \in Platform /\ active /\ ~OnTeam(whom) /\ OpenFor(whom) = {} /\ Places < cap
    /\ Begins(w, [Idle EXCEPT !.at = "invite", !.by = by, !.whom = whom, !.as = as])
    /\ UNCHANGED <<orgVars, teamVars, caseload, invites, lock, edits>>

NextId(i) == invites[i].is = "unwritten" /\ \A j \in Ids : j < i => invites[j].is # "unwritten"

(* Mutated form: the preset's name is stored as the role.                  *)
InviteRowOfPreset(w) ==
    [to |-> req[w].whom, as |-> IF At(w, "volunteer") THEN "volunteer" ELSE req[w].as,
     volunteer |-> At(w, "volunteer"), by |-> req[w].by, expired |-> FALSE, is |-> "open"]

InviteRow(w) ==
    [to |-> req[w].whom, as |-> req[w].as,
     volunteer |-> At(w, "volunteer"), by |-> req[w].by, expired |-> FALSE, is |-> "open"]

(* The row, through the guard trigger and the unique index.                *)
InviteWrites(w) ==
    /\ At(w, "invite") \/ At(w, "volunteer")
    /\ \/ /\ active /\ OrgRowFree /\ OpenFor(req[w].whom) = {}
          /\ req[w].as = "org_admin" => Privileged(req[w].by)
          /\ \E i \in Ids :
               /\ NextId(i)
               /\ invites' = [invites EXCEPT ![i] = InviteRow(w)]
               /\ Turns(w, [Idle EXCEPT !.at = "mark", !.id = i])
       \/ /\ ~active \/ OpenFor(req[w].whom) # {}
             \/ (req[w].as = "org_admin" /\ ~Privileged(req[w].by))
          /\ Ends(w) /\ UNCHANGED invites
    /\ UNCHANGED <<orgVars, teamVars, caseload, lock, orderly, boundVars>>

(* markStaffInviteSent: an invitation still open starts its days anew,     *)
(* unless the email failed.                                                *)
MarkSent(w) ==
    /\ At(w, "mark")
    /\ \/ /\ Open(req[w].id) /\ ~Answering(req[w].id)
          /\ invites' = [invites EXCEPT ![req[w].id].expired = FALSE]
       \/ UNCHANGED invites
    /\ Ends(w)
    /\ UNCHANGED <<orgVars, teamVars, caseload, lock, orderly, boundVars>>

(* actorMayActOnAdminInvite, after the route's own guard.                  *)
MayActOn(by, i, support) ==
    /\ ComesBy(by, support)
    /\ invites[i].as = "org_admin" => OverAdmins(by, support)

(* prepareStaffInviteResend: when the inviter can invite no more, the      *)
(* resender takes the invitation over.                                     *)
ResendSees(w, by, i) ==
    /\ Open(i) /\ \E support \in BOOLEAN : MayActOn(by, i, support)
    /\ \/ /\ InviterStands(i) \/ invites[i].by = by
          /\ Begins(w, [Idle EXCEPT !.at = "mark", !.id = i])
       \/ /\ ~InviterStands(i) /\ invites[i].by # by
          /\ Begins(w, [Idle EXCEPT !.at = "restamp", !.by = by, !.id = i])
    /\ UNCHANGED <<orgVars, teamVars, caseload, invites, lock, edits>>

Restamps(w) ==
    /\ At(w, "restamp") /\ ~Answering(req[w].id)
    /\ LET i == req[w].id
           may == Open(i) /\ (invites[i].as = "org_admin" => Privileged(req[w].by))
       IN  \/ /\ may
              /\ invites' = [invites EXCEPT ![i].by = req[w].by]
              /\ Turns(w, [Idle EXCEPT !.at = "mark", !.id = i])
           \/ ~may /\ Ends(w) /\ UNCHANGED invites
    /\ UNCHANGED <<orgVars, teamVars, caseload, lock, orderly, boundVars>>

(* revokeStaffInvite.                                                      *)
RevokeSees(w, by, i) ==
    /\ Open(i) /\ \E support \in BOOLEAN : MayActOn(by, i, support)
    /\ Begins(w, [Idle EXCEPT !.at = "revoke", !.id = i])
    /\ UNCHANGED <<orgVars, teamVars, caseload, invites, lock, edits>>

RevokeWrites(w) ==
    /\ At(w, "revoke") /\ ~Answering(req[w].id)
    /\ invites' = [invites EXCEPT ![req[w].id] = IF Open(req[w].id) THEN Ended ELSE @]
    /\ Ends(w)
    /\ UNCHANGED <<orgVars, teamVars, caseload, lock, orderly, boundVars>>

-----------------------------------------------------------------------------
(* smr_answer_staff_invite, by the invited person.                         *)

Declines(i) ==
    /\ Open(i) /\ ~invites[i].expired /\ ~Answering(i)
    /\ invites' = [invites EXCEPT ![i] = Ended]
    /\ UNCHANGED <<orgVars, teamVars, caseload, req, lock, orderly, boundVars>>

(* Mutated form: the organization's row is read without a lock.            *)
AnswerLocksNothing(w, i) ==
    /\ Open(i) /\ ~invites[i].expired /\ ~Answering(i)
    /\ OrgRowFree /\ active
    /\ Begins(w, [Idle EXCEPT !.at = "answer", !.by = invites[i].to, !.whom = invites[i].to,
                             !.as = invites[i].as, !.id = i])
    /\ UNCHANGED <<orgVars, teamVars, caseload, invites, lock, edits>>

(* Yes: both rows are locked, the invitation first.                        *)
AnswerLocks(w, i) ==
    /\ Open(i) /\ ~invites[i].expired /\ ~Answering(i)
    /\ OrgRowFree /\ active
    /\ Begins(w, [Idle EXCEPT !.at = "answer", !.by = invites[i].to, !.whom = invites[i].to,
                             !.as = invites[i].as, !.id = i])
    /\ lock' = w
    /\ UNCHANGED <<orgVars, teamVars, caseload, invites, edits>>

Unlocks(w) == lock' = IF lock = w THEN "free" ELSE lock

(* The inviter must still be able to invite, and a place must be free;     *)
(* someone already on the team only spends the invitation.                 *)
AnswerReads(w) ==
    /\ At(w, "answer")
    /\ LET i == req[w].id
       IN  \/ /\ InviterStands(i) /\ OnTeam(req[w].whom)
              /\ Goes(w, "spend") /\ UNCHANGED lock
           \/ /\ InviterStands(i) /\ ~OnTeam(req[w].whom) /\ PlaceFree
              /\ Goes(w, "join") /\ UNCHANGED lock
           \/ /\ ~InviterStands(i) \/ (~OnTeam(req[w].whom) /\ ~PlaceFree)
              /\ Ends(w) /\ Unlocks(w)
    /\ UNCHANGED <<orgVars, teamVars, caseload, invites, orderly, boundVars>>

(* The staff row, the invitation's restrictions and its ending, at once.   *)
AnswerCommits(w) ==
    /\ \/ /\ At(w, "join")
          /\ role' = [role EXCEPT ![req[w].whom] = req[w].as]
          /\ exceptions' = IF invites[req[w].id].volunteer
                           THEN exceptions \cup {req[w].whom} ELSE exceptions
       \/ At(w, "spend") /\ UNCHANGED teamVars
    /\ invites' = [invites EXCEPT ![req[w].id] = Ended]
    /\ Ends(w) /\ Unlocks(w)
    /\ UNCHANGED <<orgVars, caseload, orderly, boundVars>>

Expires(i) ==
    /\ Open(i) /\ ~invites[i].expired
    /\ invites' = [invites EXCEPT ![i].expired = TRUE]
    /\ UNCHANGED <<orgVars, teamVars, caseload, req, lock, orderly, boundVars>>

-----------------------------------------------------------------------------
(* The platform: setOrgOwner, setOrgStaffCap, closeOrganization and        *)
(* reopenOrganization, each an update of the organization's row.           *)
Edits ==
    /\ edits < MaxEdits /\ edits' = edits + 1
    /\ OrgRowFree
    /\ orderly' = (orderly /\ \A v \in Workers : req[v] = Idle)
    /\ UNCHANGED <<teamVars, caseload, invites, req, lock, begun>>

setOrgOwner(p) ==
    /\ Edits
    /\ owner' = p /\ parted' = (parted \cup {owner}) \ {p}
    /\ UNCHANGED <<active, cap>>
setOrgStaffCap(n) == Edits /\ cap' = n /\ UNCHANGED <<owner, active, parted>>
closeOrReopen == Edits /\ active' = ~active /\ UNCHANGED <<owner, cap, parted>>

(* The instance dies; a transaction under way is undone.                   *)
Crashes(w) ==
    /\ CanCrash /\ req[w] # Idle
    /\ edits < MaxEdits /\ edits' = edits + 1
    /\ Ends(w) /\ Unlocks(w) /\ orderly' = FALSE
    /\ UNCHANGED <<orgVars, teamVars, caseload, invites, begun>>

-----------------------------------------------------------------------------
Asking(w) == Free(w) /\
    \/ \E by, whom \in People :
         \/ \E as \in Roles : \/ AddSees(w, by, whom, as) \/ AdminAddSees(w, by, whom, as)
                              \/ AdminInviteSees(w, by, whom, as)
                              \/ \E support \in BOOLEAN : SetRoleAsks(w, by, whom, as, support)
                              \/ \E v \in BOOLEAN : InviteSees(w, by, whom, as, v)
         \/ \E support \in BOOLEAN : RemoveAsks(w, by, whom, support)
         \/ AssignSees(w, by, whom) \/ UnassignSees(w, by)
         \/ \E stage \in {"except", "clear"} : ExceptSees(w, by, whom, stage)
    \/ \E i \in Ids : \/ AnswerLocks(w, i)
                      \/ \E by \in People : ResendSees(w, by, i) \/ RevokeSees(w, by, i)

Writing(w) ==
    \/ AddWrites(w) \/ AdminAddWrites(w) \/ SetRoleWrites(w) \/ RemoveWrites(w) \/ Releases(w)
    \/ AssignWrites(w) \/ Unassigns(w) \/ ExceptWrites(w) \/ InviteWrites(w) \/ MarkSent(w)
    \/ Restamps(w) \/ RevokeWrites(w) \/ AnswerReads(w) \/ AnswerCommits(w)

Next ==
    \/ \E w \in Workers : Asking(w) \/ Writing(w) \/ Crashes(w)
    \/ \E i \in Ids : Declines(i) \/ Expires(i)
    \/ \E p \in People : setOrgOwner(p)
    \/ \E n \in 0..MaxCap : setOrgStaffCap(n)
    \/ closeOrReopen

Spec == Init /\ [][Next]_vars

-----------------------------------------------------------------------------
TypeOK ==
    /\ owner \in People /\ active \in BOOLEAN /\ cap \in 0..MaxCap
    /\ role \in [People -> Roles \cup {"none"}] /\ exceptions \subseteq People
    /\ caseload \in [Clients -> People \cup {"nobody"}]
    /\ invites \in [Ids -> Invite] /\ req \in [Workers -> Request]
    /\ lock \in Workers \cup {"free"} /\ orderly \in BOOLEAN /\ parted \subseteq People
    /\ edits \in 0..MaxEdits /\ begun \in 0..MaxRequests

(* "ONLY THE OWNER MAKES, CHANGES OR REMOVES AN ADMIN" (orgStaffAdmin.ts:69) *)
(* or, on the support path and by an invitation of theirs that was         *)
(* accepted, a platform admin, never one at the console of an organization *)
(* they do not own: whatever demotions, changes of owner,                  *)
(* resends and answers overlap.                                            *)
Authority(w) ==
    \/ req[w].owns
    \/ req[w].at = "adminAdd" /\ req[w].by \in Platform
    \/ req[w].at \in {"setRole", "remove"} /\ OverAdmins(req[w].by, req[w].support)
    \/ req[w].at = "join" /\ Privileged(invites[req[w].id].by)
AdminsByAuthority ==
    [][\A p \in People :
         role[p] # role'[p] /\ "org_admin" \in {role[p], role'[p]} =>
           \E w \in Workers : req[w].whom = p /\ req'[w] # req[w] /\ Authority(w)]_vars

(* An accepted invitation takes a place that is free, "so a close or       *)
(* delete cannot pass this" (100:378) and neither can another answer, an   *)
(* addition or a lower cap: the row lock and the foreign key order them.   *)
AnswersKeepCap ==
    [][\A w \in Workers :
         req[w].at = "join" /\ role'[req[w].whom] # role[req[w].whom] /\ req'[w] = Idle =>
           active /\ Cardinality(Staff') <= cap]_vars

(* The rest holds while requests do not overlap and no instance dies; each *)
(* of these fails when two overlap.                                        *)

(* "A person re-added later starts from their role, not from a forgotten   *)
(* grant" (053:73): exceptions belong to people who have a staff row.      *)
NoForgottenGrant == orderly => exceptions \subseteq Staff

(* "Their client assignments are cleared in the same breath"               *)
(* (orgStaffAdmin.ts:303): no participant is left with someone who is off  *)
(* the team, except with a former owner: a change of owner releases        *)
(* nothing, a later removal of theirs does.                                *)
CaseloadIsHeld ==
    orderly => \A c \in Clients :
        \/ caseload[c] = "nobody" \/ OnTeam(caseload[c]) \/ caseload[c] \in parted
        \/ \E w \in Workers : At(w, "release") /\ req[w].whom = caseload[c]
=============================================================================
