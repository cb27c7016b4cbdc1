----------------------------- MODULE TeamAccess -----------------------------
(***************************************************************************)
(* Who belongs to an organization and in which role: Google sign-up and    *)
(* sign-in, invitations and their acceptance, role changes, removal and    *)
(* onboarding.  A request passes the session guard, which reads the        *)
(* caller's row, reads what it checks, and writes: every one of these is a *)
(* step of its own, and requests of several people interleave.             *)
(*                                                                         *)
(* A session cookie names a row of users; whoever has a row is taken to    *)
(* hold one, so signing in to an existing row changes nothing here.        *)
(***************************************************************************)

CONSTANTS
    Orgs,       \* organizations, by short id, there or not
    Seeded,     \* the one prisma/seed.ts creates, without users, for TENANT_ID
    People,     \* e-mail addresses
    Invites,    \* rows of invitations, used or not
    Clients,    \* requests handled at a time
    Offers,     \* bound: the roles asked for in invitations,
    Changes,    \* bound: and those asked for in role changes
    None        \* null

ASSUME NoneAssumption == None \notin Orgs \cup People \cup Invites \cup {"owner", "admin", "member", "viewer"}
ASSUME SeededAssumption == Seeded \subseteq Orgs
ASSUME RolesAssumption == Offers \cup Changes \subseteq {"owner", "admin", "member", "viewer"}

VARIABLES
    user,       \* user[o][p], the row of person p in organization o
    orgs,       \* organizations that exist
    onboarded,  \* those with onboardingCompletedAt
    invite,     \* the invitations
    req,        \* requests in flight
    tenant      \* TENANT_ID in single-tenant mode (AUTH_ALLOWED_DOMAINS set), None in open mode

vars == <<user, orgs, onboarded, invite, req, tenant>>

Roles == {"owner", "admin", "member", "viewer"}

\* Broken: the list of roles an invitation may carry is the list of all roles.
BrokenGivenRoles == Roles

\* ALLOWED_INVITATION_ROLES, ALLOWED_CHANGE_ROLES: nobody is made an owner.
GivenRoles == {"admin", "member", "viewer"}

NoRow    == [status |-> "none", role |-> None]
Row      == [status : {"none", "active", "removed"}, role : Roles \cup {None}]
Active(r) == [status |-> "active", role |-> r]

NoInvite == [status |-> "none", org |-> None, person |-> None, role |-> None]
Deleted  == [NoInvite EXCEPT !.status = "deleted"]
Invitation ==   \* "expired": pending in the database, and past expiresAt
    [status : {"none", "pending", "expired", "accepted", "deleted"}, org : Orgs \cup {None},
     person : People \cup {None}, role : Roles \cup {None}]
Exists(i) == invite[i].status \in {"pending", "expired", "accepted"}

Idle == [at |-> "idle", org |-> None, by |-> None, held |-> None, person |-> None,
         role |-> None, invite |-> None, seen |-> None, missed |-> {}]
Request ==
    [at : {"idle", "admitted", "unlisted", "inviting", "cancelling", "changing", "removing",
           "onboarding", "newcomer", "accepting", "joining"},
     org : Orgs \cup {None},        \* the session's or the invitation's organization
     by : People \cup {None},       \* the session's user,
     held : Roles \cup {None},      \* and the role the guard read
     person : People \cup {None},   \* who the request is about
     role : Roles \cup {None},      \* the role it gives
     invite : Invites \cup {None},
     seen : {None, "none", "removed"},          \* the row acceptInvite() found
     missed : SUBSET (Orgs \X (People \cup {None}))]
        \* history: whose row or invitation another request wrote since this one read it

Init ==
    /\ user = [o \in Orgs |-> [p \in People |-> NoRow]]
    /\ orgs = {}
    /\ onboarded = {}
    /\ invite = [i \in Invites |-> NoInvite]
    /\ req = [c \in Clients |-> Idle]
    /\ tenant = None

------------------------------------------------------------------------------
(* Requests                                                                  *)

Begin(c, r) == req' = [req EXCEPT ![c] = r]

\* What a request has read about: <<o, p>> for person p in organization o, <<o, None>> for o.
About(r) ==
    (IF r.by # None THEN {<<r.org, r.by>>} ELSE {})
    \cup (IF r.org # None /\ r.person # None THEN {<<r.org, r.person>>} ELSE {})
    \cup (IF r.at = "newcomer" THEN Orgs \X {r.person} ELSE {})
    \cup (IF r.at = "onboarding" THEN {<<r.org, None>>} ELSE {})

\* Request c ends with a write about x; the others that had read about x have missed it.
EndWriting(c, x) ==
    req' = [d \in Clients |->
                IF d = c THEN Idle
                ELSE IF x \in About(req[d]) THEN [req[d] EXCEPT !.missed = @ \cup {x}]
                ELSE req[d]]

\* Broken: a removed user's cookie opens a session as long as it has not run out.
BrokenAdmitted(o, p) == user[o][p].status # "none"

\* The row the guard insists on.
Admitted(o, p) == user[o][p].status = "active"

\* SessionGuard: role and organization are read from the database, not from the cookie.
Admit(c, o, p) ==
    /\ req[c] = Idle
    /\ Admitted(o, p)
    /\ Begin(c, [Idle EXCEPT !.at = "admitted", !.org = o, !.by = p, !.held = user[o][p].role])
    /\ UNCHANGED <<user, orgs, onboarded, invite, tenant>>

\* A check that fails, an error, the client gone: the request ends and has written nothing.
Refuse(c) ==
    /\ req[c] # Idle
    /\ Begin(c, Idle)
    /\ UNCHANGED <<user, orgs, onboarded, invite, tenant>>

\* apiEnvSchema: the process does not start with allowed domains and no TENANT_ID.
Configurations == orgs \cup {None}

\* The API process restarts, perhaps configured for another mode.
Restart ==
    /\ req' = [c \in Clients |-> Idle]
    /\ tenant' \in Configurations
    /\ UNCHANGED <<user, orgs, onboarded, invite>>

\* prisma/seed.ts is run, once or again, the API up or not.  It makes nobody a user, and
\* throws when a sign-up has taken its short id.
Seed(o) ==
    /\ o \in Seeded \ orgs
    /\ orgs' = orgs \cup {o}
    /\ UNCHANGED <<user, onboarded, invite, req, tenant>>

------------------------------------------------------------------------------
(* createInvitation(), cancelInvitation()                                    *)

CheckMember(c, p, r) ==
    /\ req[c].at = "admitted"
    /\ req[c].held \in {"owner", "admin"}
    /\ r \in GivenRoles
    /\ user[req[c].org][p].status # "active"
    /\ Begin(c, [req[c] EXCEPT !.at = "unlisted", !.person = p, !.role = r])
    /\ UNCHANGED <<user, orgs, onboarded, invite, tenant>>

Open(o, p) ==
    {i \in Invites : invite[i].status = "pending" /\ invite[i].org = o /\ invite[i].person = p}

\* Broken: only the membership is checked.
BrokenUninvited(o, p) == TRUE

Uninvited(o, p) == Open(o, p) = {}

CheckPending(c) ==
    /\ req[c].at = "unlisted"
    /\ Uninvited(req[c].org, req[c].person)
    /\ Begin(c, [req[c] EXCEPT !.at = "inviting"])
    /\ UNCHANGED <<user, orgs, onboarded, invite, tenant>>

InsertInvite(c, i) ==
    /\ req[c].at = "inviting"
    /\ invite[i] = NoInvite
    /\ invite' = [invite EXCEPT ![i] = [status |-> "pending", org |-> req[c].org,
                     person |-> req[c].person, role |-> req[c].role]]
    /\ EndWriting(c, <<req[c].org, req[c].person>>)
    /\ UNCHANGED <<user, orgs, onboarded, tenant>>

CheckCancel(c, i) ==
    /\ req[c].at = "admitted"
    /\ req[c].held \in {"owner", "admin"}
    /\ Exists(i)
    /\ invite[i].org = req[c].org
    /\ Begin(c, [req[c] EXCEPT !.at = "cancelling", !.invite = i])
    /\ UNCHANGED <<user, orgs, onboarded, invite, tenant>>

\* Deleting a row that is gone by now throws.
DeleteInvite(c) ==
    /\ req[c].at = "cancelling"
    /\ LET i == req[c].invite IN
           /\ Exists(i)
           /\ invite' = [invite EXCEPT ![i] = Deleted]
           /\ EndWriting(c, <<invite[i].org, invite[i].person>>)
    /\ UNCHANGED <<user, orgs, onboarded, tenant>>

\* Seven days pass.
Expire(i) ==
    /\ invite[i].status = "pending"
    /\ invite' = [invite EXCEPT ![i].status = "expired"]
    /\ UNCHANGED <<user, orgs, onboarded, req, tenant>>

------------------------------------------------------------------------------
(* changeRole(), removeMember()                                              *)

\* Broken: an owner is a member like any other.
BrokenTarget(o, p) == user[o][p].status = "active"

\* The row both look for and the one they refuse.
Target(o, p) == user[o][p].status = "active" /\ user[o][p].role # "owner"

CheckRole(c, p, r) ==
    /\ req[c].at = "admitted"
    /\ req[c].held = "owner"
    /\ r \in GivenRoles
    /\ Target(req[c].org, p)
    /\ Begin(c, [req[c] EXCEPT !.at = "changing", !.person = p, !.role = r])
    /\ UNCHANGED <<user, orgs, onboarded, invite, tenant>>

\* The update is by id: whatever the row has become.
ChangeRole(c) ==
    /\ req[c].at = "changing"
    /\ user' = [user EXCEPT ![req[c].org][req[c].person].role = req[c].role]
    /\ EndWriting(c, <<req[c].org, req[c].person>>)
    /\ UNCHANGED <<orgs, onboarded, invite, tenant>>

CheckRemoval(c, p) ==
    /\ req[c].at = "admitted"
    /\ req[c].held = "owner"
    /\ p # req[c].by
    /\ Target(req[c].org, p)
    /\ Begin(c, [req[c] EXCEPT !.at = "removing", !.person = p])
    /\ UNCHANGED <<user, orgs, onboarded, invite, tenant>>

\* A soft delete: the role stays on the row, and open invitations stay open.
RemoveMember(c) ==
    /\ req[c].at = "removing"
    /\ user' = [user EXCEPT ![req[c].org][req[c].person].status = "removed"]
    /\ EndWriting(c, <<req[c].org, req[c].person>>)
    /\ UNCHANGED <<orgs, onboarded, invite, tenant>>

------------------------------------------------------------------------------
(* completeOnboarding()                                                      *)

\* Broken: onboarding may be completed again.
BrokenNotOnboarded(o) == TRUE

NotOnboarded(o) == o \notin onboarded

CheckOnboarding(c) ==
    /\ req[c].at = "admitted"
    /\ NotOnboarded(req[c].org)
    /\ Begin(c, [req[c] EXCEPT !.at = "onboarding"])
    /\ UNCHANGED <<user, orgs, onboarded, invite, tenant>>

CompleteOnboarding(c) ==
    /\ req[c].at = "onboarding"
    /\ onboarded' = onboarded \cup {req[c].org}
    /\ EndWriting(c, <<req[c].org, None>>)
    /\ UNCHANGED <<user, orgs, invite, tenant>>

------------------------------------------------------------------------------
(* googleVerify()                                                            *)

\* No row anywhere has this address; with a row, a removed one too, it is a sign-in.
GoogleVerify(c, p) ==
    /\ req[c] = Idle
    /\ \A o \in Orgs : user[o][p] = NoRow
    /\ Begin(c, [Idle EXCEPT !.at = "newcomer", !.person = p])
    /\ UNCHANGED <<user, orgs, onboarded, invite, tenant>>

\* Single-tenant mode: the newcomer becomes a member.  A second row for one address in one
\* organization violates idx_users_org_email.
JoinTenant(c) ==
    /\ req[c].at = "newcomer"
    /\ tenant # None
    /\ user[tenant][req[c].person] = NoRow
    /\ user' = [user EXCEPT ![tenant][req[c].person] = Active("member")]
    /\ EndWriting(c, <<tenant, req[c].person>>)
    /\ UNCHANGED <<orgs, onboarded, invite, tenant>>

\* generateOrgShortId() takes the first of ten short ids for the name that no organization
\* has; when all are taken it throws, and the sign-up with it.
ShortIdFree(o) == o \notin orgs

\* Open mode: a new organization with the newcomer as its owner, in one transaction.
SignUp(c, o) ==
    /\ req[c].at = "newcomer"
    /\ tenant = None
    /\ ShortIdFree(o)
    /\ orgs' = orgs \cup {o}
    /\ user' = [user EXCEPT ![o][req[c].person] = Active("owner")]
    /\ EndWriting(c, <<o, req[c].person>>)
    /\ UNCHANGED <<onboarded, invite, tenant>>

------------------------------------------------------------------------------
(* acceptInvite()                                                            *)

ReadInvite(c, i) ==
    /\ req[c] = Idle
    /\ invite[i].status = "pending"
    /\ Begin(c, [Idle EXCEPT !.at = "accepting", !.invite = i, !.org = invite[i].org,
                             !.person = invite[i].person, !.role = invite[i].role])
    /\ UNCHANGED <<user, orgs, onboarded, invite, tenant>>

\* The transaction begins with the row of the invited person; an active one refuses.
ReadMember(c) ==
    /\ req[c].at = "accepting"
    /\ user[req[c].org][req[c].person].status # "active"
    /\ Begin(c, [req[c] EXCEPT !.at = "joining",
                               !.seen = user[req[c].org][req[c].person].status])
    /\ UNCHANGED <<user, orgs, onboarded, invite, tenant>>

\* Broken: marking an invitation that was cancelled marks none, and nobody looks.
BrokenMarks(i) == TRUE

\* Marking it accepted fails, and the transaction with it, when the row is gone.
Marks(i) == Exists(i)

\* A row that was not there is created, unless it is there now; one that was removed is
\* written by id, whatever it is now.
Join(c) ==
    /\ req[c].at = "joining"
    /\ LET o == req[c].org  p == req[c].person  i == req[c].invite IN
           /\ req[c].seen = "none" => user[o][p] = NoRow
           /\ Marks(i)
           /\ user' = [user EXCEPT ![o][p] = Active(req[c].role)]
           /\ invite' = [invite EXCEPT ![i].status = "accepted"]
           /\ EndWriting(c, <<o, p>>)
    /\ UNCHANGED <<orgs, onboarded, tenant>>

------------------------------------------------------------------------------
Team(c) ==
    \/ \E p \in People, r \in Offers : CheckMember(c, p, r)
    \/ \E p \in People, r \in Changes : CheckRole(c, p, r)
    \/ \E i \in Invites : InsertInvite(c, i) \/ CheckCancel(c, i)
    \/ \E p \in People : CheckRemoval(c, p)
    \/ CheckPending(c) \/ DeleteInvite(c) \/ ChangeRole(c) \/ RemoveMember(c)

Entry(c) ==
    \/ \E o \in Orgs, p \in People : Admit(c, o, p)
    \/ \E p \in People : GoogleVerify(c, p)
    \/ \E o \in Orgs : SignUp(c, o)
    \/ \E i \in Invites : ReadInvite(c, i)
    \/ JoinTenant(c) \/ ReadMember(c) \/ Join(c)
    \/ CheckOnboarding(c) \/ CompleteOnboarding(c) \/ Refuse(c)

Next ==
    \/ \E c \in Clients : Team(c) \/ Entry(c)
    \/ \E i \in Invites : Expire(i)
    \/ \E o \in Orgs : Seed(o)
    \/ Restart

Spec == Init /\ [][Next]_vars

------------------------------------------------------------------------------
(* Properties                                                                *)

\* Rows, invitations and requests are well formed: a member is a member of an organization that
\* exists, and neither an invitation nor a request in flight carries the role of owner.
TypeOK ==
    /\ user \in [Orgs -> [People -> Row]]
    /\ orgs \subseteq Orgs
    /\ onboarded \subseteq orgs
    /\ invite \in [Invites -> Invitation]
    /\ req \in [Clients -> Request]
    /\ tenant \in orgs \cup {None}
    /\ \A o \in Orgs, p \in People : user[o][p] # NoRow => o \in orgs /\ user[o][p].role # None
    /\ \A i \in Invites : /\ invite[i].status \in {"pending", "expired"} => invite[i].org \in orgs
                          /\ invite[i].role # "owner"
    /\ \A c \in Clients : req[c].role # "owner"

\* A founded organization has exactly one owner for as long as it exists: no interleaving of
\* role changes, removals and acceptances takes the owner away or makes a second one.  Only the
\* seeded organization begins without, and none of those requests makes one of its people owner.
OneOwner(o) ==
    \E p \in People : /\ user[o][p] = Active("owner")
                      /\ \A q \in People \ {p} : user[o][q].role # "owner"
Ownerless(o) == \A p \in People : user[o][p].role # "owner"
OwnerStep ==
    \A o \in orgs' :
        IF o \in orgs
        THEN (OneOwner(o) /\ OneOwner(o)') \/ (Ownerless(o) /\ Ownerless(o)')
        ELSE OneOwner(o)' \/ (o \in Seeded /\ Ownerless(o)')
OrgKeepsItsOwner == [][OwnerStep]_vars

\* Nobody becomes a member but as the owner of a new organization, by signing in to the single
\* tenant, or by an invitation of that organization to that person, in the role it names.  It
\* is still pending then, or has run out, or another acceptance of it came in, since it was
\* read; it is never one that was cancelled.
Joins(o, p) == user[o][p].status # "active" /\ user'[o][p].status = "active"
Invited(o, p) ==
    \E c \in Clients :
        LET i == req[c].invite IN
        /\ req[c].at = "joining"
        /\ i \in Invites
        /\ invite[i].org = o /\ invite[i].person = p /\ invite[i].role = user'[o][p].role
        /\ \/ invite[i].status \in {"pending", "expired"}
           \/ invite[i].status = "accepted" /\ <<o, p>> \in req[c].missed
        /\ invite'[i].status = "accepted"
JoinsByRule ==
    \A o \in Orgs, p \in People :
        Joins(o, p) =>
            \/ o \notin orgs /\ user'[o][p].role = "owner"
            \/ tenant = o /\ user[o][p] = NoRow /\ user'[o][p].role = "member"
            \/ Invited(o, p)
JoinsOnlyByInvitation == [][JoinsByRule]_vars

\* What takes a member's access or role takes it at once: an invitation is made or cancelled,
\* and a member's role or membership changed, by somebody who may do so at that moment, or
\* could when the request came in and lost it while it was handled.
Acts(c) == req[c].at \in {"inviting", "cancelling", "changing", "removing"} /\ req'[c] = Idle
             /\ (user' # user \/ invite' # invite)
MayAct(c) ==
    LET row == user[req[c].org][req[c].by] IN
    /\ row.status = "active"
    /\ row.role \in IF req[c].at \in {"inviting", "cancelling"} THEN {"owner", "admin"} ELSE {"owner"}
RevokedAtOnceStep ==
    \A c \in Clients : Acts(c) => MayAct(c) \/ <<req[c].org, req[c].by>> \in req[c].missed
RevokedAtOnce == [][RevokedAtOnceStep]_vars

\* What each check is there to prevent happens only when another request wrote between the
\* check and the write: a second open invitation, one for a member, a second row for an address
\* that signs up, a second onboarding.
InvitesTwice(c) ==
    /\ req[c].at = "inviting" /\ invite' # invite
    /\ \/ Open(req[c].org, req[c].person) # {}
       \/ user[req[c].org][req[c].person].status = "active"
SignsUpTwice(c) ==
    req[c].at = "newcomer" /\ user' # user /\ \E o \in Orgs : user[o][req[c].person] # NoRow
OnboardsTwice(c) ==
    req[c].at = "onboarding" /\ req[c].org \in onboarded
RacesExplainStep ==
    \A c \in Clients : req'[c] = Idle =>
        /\ InvitesTwice(c) => <<req[c].org, req[c].person>> \in req[c].missed
        /\ SignsUpTwice(c) => \E o \in Orgs : <<o, req[c].person>> \in req[c].missed
        /\ OnboardsTwice(c) => <<req[c].org, None>> \in req[c].missed
RacesExplainDuplicates == [][RacesExplainStep]_vars

=============================================================================
