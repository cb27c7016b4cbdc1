-------------------------- MODULE TeamAccessProofs --------------------------
(***************************************************************************)
(* Proofs about TeamAccess, for any number of organizations, people,       *)
(* invitations and requests, and any roles asked for.                      *)
(*                                                                         *)
(* The inductive invariant says what a request in flight may rely on.      *)
(* Shape is what it carries, Fresh that what it read is still so or the    *)
(* request has missed a write, Bound what no write takes from it.  Every   *)
(* step either moves one request or is a write about one pair x, and       *)
(* WriteStep shows that such a write keeps all the other requests sound.   *)
(***************************************************************************)
EXTENDS TeamAccess, TLAPS

Session == {"admitted", "unlisted", "inviting", "cancelling", "changing", "removing", "onboarding"}
Pairs   == Orgs \X (People \cup {None})

Shape(r) ==
    /\ r.at \in Session => r.org \in orgs /\ r.by \in People /\ r.held \in Roles
    /\ r.at \in {"unlisted", "inviting", "changing"} => r.person \in People /\ r.role \in GivenRoles
    /\ r.at \in {"removing", "newcomer"} => r.person \in People
    /\ r.at = "cancelling" => r.invite \in Invites
    /\ r.at \in {"accepting", "joining"} =>
           r.org \in orgs /\ r.person \in People /\ r.role \in GivenRoles /\ r.invite \in Invites
    /\ r.at = "joining" => r.seen \in {"none", "removed"}
    /\ r.at \in {"unlisted", "inviting", "cancelling"} => r.held \in {"owner", "admin"}
    /\ r.at \in {"changing", "removing"} => r.held = "owner"

Fresh(r) ==
    /\ r.at \in Session =>
           \/ user[r.org][r.by].status = "active" /\ user[r.org][r.by].role = r.held
           \/ <<r.org, r.by>> \in r.missed
    /\ r.at \in {"unlisted", "inviting"} =>
           \/ user[r.org][r.person].status # "active"
           \/ <<r.org, r.person>> \in r.missed
    /\ r.at = "inviting" =>
           \/ \A i \in Invites : ~(/\ invite[i].status = "pending"
                                   /\ invite[i].org = r.org
                                   /\ invite[i].person = r.person)
           \/ <<r.org, r.person>> \in r.missed
    /\ r.at = "newcomer" =>
           \/ \A o \in Orgs : user[o][r.person] = NoRow
           \/ \E o \in Orgs : <<o, r.person>> \in r.missed
    /\ r.at = "onboarding" => r.org \notin onboarded \/ <<r.org, None>> \in r.missed

Match(r) == /\ invite[r.invite].org = r.org
            /\ invite[r.invite].person = r.person
            /\ invite[r.invite].role = r.role

Bound(r) ==
    /\ r.at \in {"changing", "removing"} =>
           user[r.org][r.person] # NoRow /\ user[r.org][r.person].role # "owner"
    /\ r.at = "joining" /\ r.seen = "removed" =>
           user[r.org][r.person] # NoRow /\ user[r.org][r.person].role # "owner"
    /\ r.at \in {"accepting", "joining"} =>
           \/ invite[r.invite].status = "deleted"
           \/ invite[r.invite].status \in {"pending", "expired"} /\ Match(r)
           \/ invite[r.invite].status = "accepted" /\ Match(r) /\ <<r.org, r.person>> \in r.missed

Sound(r) == r \in Request /\ r.role # "owner" /\ Shape(r) /\ Fresh(r) /\ Bound(r)

Tables ==
    /\ user \in [Orgs -> [People -> Row]]
    /\ orgs \subseteq Orgs
    /\ onboarded \subseteq orgs
    /\ invite \in [Invites -> Invitation]
    /\ tenant \in orgs \cup {None}
    /\ \A o \in Orgs, p \in People : user[o][p] # NoRow => o \in orgs /\ user[o][p].role # None
    /\ \A i \in Invites : /\ Exists(i) => /\ invite[i].org \in orgs
                                          /\ invite[i].person \in People
                                          /\ invite[i].role \in GivenRoles
                          /\ invite[i].role # "owner"

Owned == \A o \in orgs : OneOwner(o) \/ Ownerless(o)

Inv ==
    /\ Tables
    /\ Owned
    /\ req \in [Clients -> Request]
    /\ \A c \in Clients : Sound(req[c])

\* What a write about x does to the tables, for the requests that look on.
WritesAbout(x) ==
    /\ \A o \in Orgs, p \in People : <<o, p>> # x => user'[o][p] = user[o][p]
    /\ \A o \in Orgs, p \in People : user[o][p] # NoRow => user'[o][p] # NoRow
    /\ \A o \in orgs, p \in People : user[o][p].role # "owner" => user'[o][p].role # "owner"
    /\ \A i \in Invites :
           \/ invite'[i] = invite[i]
           \/ invite'[i].status = "deleted"
           \/ /\ invite[i].status = "none"
              /\ <<invite'[i].org, invite'[i].person>> = x
           \/ /\ invite'[i] = [invite[i] EXCEPT !.status = "accepted"]
              /\ <<invite[i].org, invite[i].person>> = x
              /\ Exists(i)
    /\ \A o \in Orgs : o \in onboarded' => o \in onboarded \/ x = <<o, None>>
    /\ orgs \subseteq orgs'

------------------------------------------------------------------------------
LEMMA IdleIsSound ==
    ASSUME NoneAssumption
    PROVE  Sound(Idle)
<1>1. Idle \in Request  BY DEF Idle, Request
<1>2. Idle.role # "owner"  BY NoneAssumption DEF Idle
<1>3. Shape(Idle) /\ Fresh(Idle) /\ Bound(Idle)  BY DEF Idle, Shape, Fresh, Bound, Session
<1> QED BY <1>1, <1>2, <1>3 DEF Sound

\* A request in flight stays sound through another's write about x, which it misses if it
\* had read about x.
LEMMA LooksOn ==
    ASSUME NoneAssumption, Tables, Tables', NEW r, Sound(r), NEW x \in Pairs, WritesAbout(x),
           NEW s, s = IF x \in About(r) THEN [r EXCEPT !.missed = @ \cup {x}] ELSE r
    PROVE  Sound(s)'
<1> USE DEF Pairs
<1>t. r \in Request /\ r.role # "owner" /\ Shape(r) /\ Fresh(r) /\ Bound(r)  BY DEF Sound
<1>1. /\ s \in Request
      /\ s.at = r.at /\ s.org = r.org /\ s.by = r.by /\ s.held = r.held /\ s.person = r.person
      /\ s.role = r.role /\ s.invite = r.invite /\ s.seen = r.seen
      /\ r.missed \subseteq s.missed
      /\ x \in About(r) => x \in s.missed
  <2>1. CASE x \in About(r)
    <3>1. s = [r EXCEPT !.missed = @ \cup {x}]  BY <2>1
    <3> QED BY <3>1, <1>t DEF Request
  <2>2. CASE x \notin About(r)
    BY <2>2, <1>t
  <2> QED BY <2>1, <2>2
<1>o. /\ orgs \subseteq Orgs /\ orgs \subseteq orgs'
      /\ invite \in [Invites -> Invitation] /\ invite' \in [Invites -> Invitation]
  BY DEF Tables, WritesAbout
<1>2. Shape(s)'
  BY <1>1, <1>t, <1>o DEF Shape
<1>by. r.at \in Session => <<r.org, r.by>> \in About(r)
  BY <1>t, NoneAssumption DEF About, Shape
<1>person. r.at \in {"unlisted", "inviting", "accepting", "joining"} => <<r.org, r.person>> \in About(r)
  BY <1>t, <1>o, NoneAssumption DEF About, Shape, Session
<1>new. r.at = "newcomer" => \A o \in Orgs : <<o, r.person>> \in About(r)
  BY DEF About
<1>on. r.at = "onboarding" => <<r.org, None>> \in About(r)
  BY DEF About
<1>3. Fresh(s)'
  <2>1. s.at \in Session =>
           \/ user'[s.org][s.by].status = "active" /\ user'[s.org][s.by].role = s.held
           \/ <<s.org, s.by>> \in s.missed
    <3> SUFFICES ASSUME r.at \in Session, <<r.org, r.by>> \notin s.missed
                 PROVE  user'[r.org][r.by].status = "active" /\ user'[r.org][r.by].role = r.held
      BY <1>1
    <3>1. r.org \in Orgs /\ r.by \in People  BY <1>t, <1>o DEF Shape
    <3>2. <<r.org, r.by>> # x  BY <1>1, <1>by
    <3>3. user'[r.org][r.by] = user[r.org][r.by]  BY <3>1, <3>2 DEF WritesAbout
    <3>4. <<r.org, r.by>> \notin r.missed  BY <1>1
    <3> QED BY <3>3, <3>4, <1>t DEF Fresh
  <2>2. s.at \in {"unlisted", "inviting"} =>
           \/ user'[s.org][s.person].status # "active"
           \/ <<s.org, s.person>> \in s.missed
    <3> SUFFICES ASSUME r.at \in {"unlisted", "inviting"}, <<r.org, r.person>> \notin s.missed
                 PROVE  user'[r.org][r.person].status # "active"
      BY <1>1
    <3>1. r.org \in Orgs /\ r.person \in People  BY <1>t, <1>o DEF Shape, Session
    <3>2. <<r.org, r.person>> # x  BY <1>1, <1>person
    <3>3. user'[r.org][r.person] = user[r.org][r.person]  BY <3>1, <3>2 DEF WritesAbout
    <3>4. <<r.org, r.person>> \notin r.missed  BY <1>1
    <3> QED BY <3>3, <3>4, <1>t DEF Fresh
  <2>3. s.at = "inviting" =>
           \/ \A i \in Invites : ~(/\ invite'[i].status = "pending"
                                   /\ invite'[i].org = s.org
                                   /\ invite'[i].person = s.person)
           \/ <<s.org, s.person>> \in s.missed
    <3> SUFFICES ASSUME r.at = "inviting", <<r.org, r.person>> \notin s.missed, NEW i \in Invites,
                        invite'[i].status = "pending",
                        invite'[i].org = r.org, invite'[i].person = r.person
                 PROVE  FALSE
      BY <1>1
    <3>2. <<r.org, r.person>> # x  BY <1>1, <1>person
    <3>4. <<r.org, r.person>> \notin r.missed  BY <1>1
    <3>5. invite'[i] # invite[i]  BY <3>4, <1>t DEF Fresh
    <3>6. invite[i] \in Invitation  BY <1>o
    <3>7. invite'[i] # [invite[i] EXCEPT !.status = "accepted"]  BY <3>6 DEF Invitation
    <3> QED BY <3>2, <3>5, <3>7 DEF WritesAbout
  <2>4. s.at = "newcomer" =>
           \/ \A o \in Orgs : user'[o][s.person] = NoRow
           \/ \E o \in Orgs : <<o, s.person>> \in s.missed
    <3> SUFFICES ASSUME r.at = "newcomer", \A o \in Orgs : <<o, r.person>> \notin s.missed, NEW o \in Orgs
                 PROVE  user'[o][r.person] = NoRow
      BY <1>1
    <3>1. r.person \in People  BY <1>t DEF Shape
    <3>2. <<o, r.person>> # x  BY <1>1, <1>new
    <3>3. user'[o][r.person] = user[o][r.person]  BY <3>1, <3>2 DEF WritesAbout
    <3>4. \A q \in Orgs : <<q, r.person>> \notin r.missed  BY <1>1
    <3> QED BY <3>3, <3>4, <1>t DEF Fresh
  <2>5. s.at = "onboarding" => s.org \notin onboarded' \/ <<s.org, None>> \in s.missed
    <3> SUFFICES ASSUME r.at = "onboarding", <<r.org, None>> \notin s.missed
                 PROVE  r.org \notin onboarded'
      BY <1>1
    <3>1. r.org \in Orgs  BY <1>t, <1>o DEF Shape, Session
    <3>2. <<r.org, None>> # x  BY <1>1, <1>on
    <3>4. <<r.org, None>> \notin r.missed  BY <1>1
    <3> QED BY <3>1, <3>2, <3>4, <1>t DEF Fresh, WritesAbout
  <2> QED BY <2>1, <2>2, <2>3, <2>4, <2>5 DEF Fresh
<1>4. Bound(s)'
  <2>1. /\ r.at \in {"changing", "removing"} \/ (r.at = "joining" /\ r.seen = "removed")
        => user'[r.org][r.person] # NoRow /\ user'[r.org][r.person].role # "owner"
    <3> SUFFICES ASSUME r.at \in {"changing", "removing"} \/ (r.at = "joining" /\ r.seen = "removed")
                 PROVE  user'[r.org][r.person] # NoRow /\ user'[r.org][r.person].role # "owner"
      OBVIOUS
    <3>1. r.org \in orgs /\ r.org \in Orgs /\ r.person \in People  BY <1>t, <1>o DEF Shape, Session
    <3>2. user[r.org][r.person] # NoRow /\ user[r.org][r.person].role # "owner"  BY <1>t DEF Bound
    <3> QED BY <3>1, <3>2 DEF WritesAbout
  <2>2. r.at \in {"accepting", "joining"} =>
           \/ invite'[r.invite].status = "deleted"
           \/ invite'[r.invite].status \in {"pending", "expired"} /\ Match(s)'
           \/ invite'[r.invite].status = "accepted" /\ Match(s)' /\ <<r.org, r.person>> \in s.missed
    <3> SUFFICES ASSUME r.at \in {"accepting", "joining"}, invite'[r.invite].status # "deleted"
                 PROVE  \/ invite'[r.invite].status \in {"pending", "expired"} /\ Match(s)'
                        \/ invite'[r.invite].status = "accepted" /\ Match(s)' /\ <<r.org, r.person>> \in s.missed
      OBVIOUS
    <3>1. r.invite \in Invites /\ invite[r.invite] \in Invitation  BY <1>t, <1>o DEF Shape
    <3>2. invite[r.invite].status # "none"  BY <1>t DEF Bound
    <3>3. CASE invite'[r.invite] = invite[r.invite]
      BY <3>3, <1>1, <1>t DEF Bound, Match
    <3>4. CASE /\ invite'[r.invite] = [invite[r.invite] EXCEPT !.status = "accepted"]
               /\ Exists(r.invite)
               /\ <<invite[r.invite].org, invite[r.invite].person>> = x
      <4>0. invite[r.invite].status # "deleted"  BY <3>4 DEF Exists
      <4>1. Match(r)  BY <3>4, <4>0, <1>t DEF Bound
      <4>2. <<r.org, r.person>> = x  BY <4>1, <3>4 DEF Match
      <4>3. x \in s.missed  BY <4>2, <1>person, <1>1
      <4>4. Match(s)'  BY <4>1, <3>4, <3>1, <1>1 DEF Match, Invitation
      <4> QED BY <3>1, <3>4, <4>2, <4>3, <4>4 DEF Invitation
    <3> QED BY <3>1, <3>2, <3>3, <3>4 DEF WritesAbout
  <2> QED BY <2>1, <2>2, <1>1 DEF Bound
<1> QED BY <1>1, <1>2, <1>3, <1>4, <1>t DEF Sound

------------------------------------------------------------------------------
\* A step of request c that only reads.
LEMMA ReadStep ==
    ASSUME NoneAssumption, Inv, NEW c \in Clients, NEW r, Sound(r), Begin(c, r),
           UNCHANGED <<user, orgs, onboarded, invite, tenant>>
    PROVE  Inv' /\ OwnerStep
<1>1. req' = [req EXCEPT ![c] = r]  BY DEF Begin
<1>2. Tables' /\ OwnerStep /\ Owned'
  BY DEF Inv, Tables, Owned, OwnerStep, OneOwner, Ownerless, Exists
<1>3. req' \in [Clients -> Request]
  BY <1>1 DEF Inv, Sound
<1>4. ASSUME NEW d \in Clients PROVE Sound(req[d])'
  <2>1. req'[d] = r \/ req'[d] = req[d]  BY <1>1 DEF Inv
  <2>2. Sound(req'[d])  BY <2>1 DEF Inv
  <2> HIDE <2>1
  <2>3. PICK s : s = req'[d]  OBVIOUS
  <2>4. Sound(s)  BY <2>2, <2>3
  <2>5. s \in Request /\ s.role # "owner" /\ Shape(s) /\ Fresh(s) /\ Bound(s)  BY <2>4 DEF Sound
  <2>6. Shape(s)'  BY <2>5 DEF Shape
  <2>7. Fresh(s)'  BY <2>5 DEF Fresh
  <2>8. Bound(s)'  BY <2>5 DEF Bound, Match
  <2>9. Sound(s)'  BY <2>5, <2>6, <2>7, <2>8 DEF Sound
  <2> QED BY <2>9, <2>3
<1> QED BY <1>2, <1>3, <1>4 DEF Inv

\* A step of request c that ends it with a write about x.
LEMMA WriteStep ==
    ASSUME NoneAssumption, Inv, NEW c \in Clients, NEW x \in Pairs, EndWriting(c, x),
           WritesAbout(x), Tables', OwnerStep
    PROVE  Inv' /\ OwnerStep
<1>1. ASSUME NEW d \in Clients
      PROVE  req'[d] = IF d = c THEN Idle
                       ELSE IF x \in About(req[d]) THEN [req[d] EXCEPT !.missed = @ \cup {x}]
                       ELSE req[d]
  BY DEF EndWriting
<1>2. ASSUME NEW d \in Clients PROVE Sound(req[d])'
  <2>1. CASE d = c
    <3>1. Sound(Idle)'
      <4>1. Idle \in Request /\ Idle.role # "owner"  BY IdleIsSound DEF Sound
      <4>2. Shape(Idle)' /\ Fresh(Idle)' /\ Bound(Idle)'  BY DEF Idle, Shape, Fresh, Bound, Session
      <4> QED BY <4>1, <4>2 DEF Sound
    <3>2. req'[d] = Idle  BY <1>1, <2>1
    <3> QED BY <3>1, <3>2
  <2>2. CASE d # c
    <3>1. PICK r : r = req[d]  OBVIOUS
    <3>2. PICK s : s = IF x \in About(r) THEN [r EXCEPT !.missed = @ \cup {x}] ELSE r  OBVIOUS
    <3>3. Sound(r) /\ Tables  BY <3>1 DEF Inv
    <3>4. Sound(s)'  BY <3>2, <3>3, LooksOn
    <3>5. req'[d] = s  BY <1>1, <2>2, <3>1, <3>2
    <3> QED BY <3>4, <3>5
  <2> QED BY <2>1, <2>2
<1>3. req' \in [Clients -> Request]
  <2>1. \A d \in Clients : req'[d] \in Request  BY <1>2 DEF Sound
  <2> QED BY <2>1 DEF EndWriting
<1>4. Owned'  BY DEF OwnerStep, Owned
<1> QED BY <1>2, <1>3, <1>4 DEF Inv

RowWritten(o, p) ==
    /\ user' \in [Orgs -> [People -> Row]]
    /\ \A q \in Orgs, s \in People : <<q, s>> # <<o, p>> => user'[q][s] = user[q][s]
    /\ \A q \in Orgs, s \in People : user[q][s] # NoRow => user'[q][s] # NoRow
    /\ \A q \in orgs, s \in People : user[q][s].role # "owner" => user'[q][s].role # "owner"
    /\ \A q \in Orgs, s \in People : user'[q][s] # NoRow => q \in orgs' /\ user'[q][s].role # None
    /\ OwnerStep

\* A row of a member that is not, and does not become, an owner is written.
LEMMA RowStep ==
    ASSUME NoneAssumption, Tables, Owned,
           NEW o \in orgs, NEW p \in People, NEW row \in Row,
           user[o][p].role # "owner", row # NoRow, row.role # "owner", row.role # None,
           user' = [user EXCEPT ![o][p] = row], orgs' = orgs
    PROVE  RowWritten(o, p)
<1>1. user \in [Orgs -> [People -> Row]] /\ orgs \subseteq Orgs  BY DEF Tables
<1>2. user' \in [Orgs -> [People -> Row]]  BY <1>1
<1>3. \A q \in Orgs, s \in People : <<q, s>> # <<o, p>> => user'[q][s] = user[q][s]  BY <1>1
<1>4. user'[o][p] = row  BY <1>1
<1>5. \A q \in Orgs, s \in People : user[q][s] # NoRow => user'[q][s] # NoRow
  BY <1>3, <1>4
<1>6. \A q \in orgs, s \in People : user[q][s].role # "owner" => user'[q][s].role # "owner"
  BY <1>1, <1>3, <1>4
<1>7. \A q \in Orgs, s \in People : user'[q][s] # NoRow => q \in orgs' /\ user'[q][s].role # None
  BY <1>3, <1>4 DEF Tables
<1>8. ASSUME NEW q \in orgs PROVE (OneOwner(q) /\ OneOwner(q)') \/ (Ownerless(q) /\ Ownerless(q)')
  <2>1. CASE OneOwner(q)
    <3>1. PICK w \in People : user[q][w] = Active("owner")
                              /\ \A s \in People \ {w} : user[q][s].role # "owner"
      BY <2>1 DEF OneOwner
    <3>2. user[q][w].role = "owner"  BY <3>1 DEF Active
    <3>3. <<q, w>> # <<o, p>>  BY <3>2
    <3>4. user'[q][w] = Active("owner")  BY <1>1, <1>3, <3>1, <3>3
    <3>5. \A s \in People \ {w} : user'[q][s].role # "owner"  BY <1>6, <3>1
    <3>6. OneOwner(q)'  BY <3>4, <3>5 DEF OneOwner, Active
    <3> QED BY <2>1, <3>6
  <2>2. CASE Ownerless(q)
    BY <2>2, <1>6 DEF Ownerless
  <2> QED BY <2>1, <2>2 DEF Owned
<1>9. OwnerStep  BY <1>8 DEF OwnerStep
<1> QED BY <1>2, <1>3, <1>5, <1>6, <1>7, <1>9 DEF RowWritten

------------------------------------------------------------------------------
(* Steps that read                                                           *)

LEMMA SoundRequests == ASSUME Inv, NEW c \in Clients PROVE Sound(req[c])
BY DEF Inv

LEMMA InitInv == ASSUME NoneAssumption, Init PROVE Inv
<1>1. Tables
  BY NoneAssumption DEF Init, Tables, Row, NoRow, Invitation, NoInvite, Exists
<1>2. Owned
  BY DEF Init, Owned
<1>3. \A c \in Clients : Sound(req[c])
  BY IdleIsSound DEF Init
<1>4. req \in [Clients -> Request]
  BY <1>3, IdleIsSound DEF Init, Sound
<1> QED BY <1>1, <1>2, <1>3, <1>4 DEF Inv

LEMMA AdmitInv ==
    ASSUME NoneAssumption, Inv, NEW c \in Clients, NEW o \in Orgs, NEW p \in People, Admit(c, o, p)
    PROVE  Inv' /\ OwnerStep
<1> DEFINE r == [Idle EXCEPT !.at = "admitted", !.org = o, !.by = p, !.held = user[o][p].role]
<1>1. user[o][p] \in Row /\ user[o][p].status = "active" /\ orgs \subseteq Orgs
  BY DEF Inv, Tables, Admit, Admitted
<1>2. o \in orgs /\ user[o][p].role \in Roles
  BY <1>1 DEF Inv, Tables, NoRow, Row
<1>3. r \in Request /\ r.role # "owner"
  BY <1>1, <1>2, NoneAssumption DEF Request, Idle
<1>4. r.at = "admitted" /\ r.org = o /\ r.by = p /\ r.held = user[o][p].role
  BY DEF Idle
<1>5. Shape(r) /\ Fresh(r) /\ Bound(r)
  BY <1>1, <1>2, <1>4 DEF Shape, Fresh, Bound
<1>6. Sound(r)  BY <1>3, <1>5 DEF Sound
<1>7. Begin(c, r) /\ UNCHANGED <<user, orgs, onboarded, invite, tenant>>  BY DEF Admit
<1> HIDE DEF r
<1> QED BY <1>6, <1>7, ReadStep

LEMMA RefuseInv ==
    ASSUME NoneAssumption, Inv, NEW c \in Clients, Refuse(c)
    PROVE  Inv' /\ OwnerStep
BY IdleIsSound, ReadStep DEF Refuse

LEMMA CheckMemberInv ==
    ASSUME NoneAssumption, Inv, NEW c \in Clients, NEW p \in People, NEW g, CheckMember(c, p, g)
    PROVE  Inv' /\ OwnerStep
<1>0. PICK q : q = req[c]  OBVIOUS
<1> DEFINE r == [q EXCEPT !.at = "unlisted", !.person = p, !.role = g]
<1>1. Sound(q) /\ q \in Request /\ Shape(q) /\ Fresh(q) /\ q.at = "admitted" /\ q.held \in {"owner", "admin"}
      /\ g \in GivenRoles /\ user[q.org][p].status # "active"
  BY <1>0, SoundRequests DEF CheckMember, Sound
<1>2. r \in Request /\ r.role # "owner"
  BY <1>1 DEF Request, GivenRoles, Roles
<1>3. r.at = "unlisted" /\ r.org = q.org /\ r.by = q.by /\ r.held = q.held /\ r.person = p /\ r.role = g
      /\ r.missed = q.missed
  BY <1>1 DEF Request
<1>4. Shape(r) /\ Fresh(r) /\ Bound(r)
  BY <1>1, <1>3 DEF Shape, Fresh, Bound, Session
<1>5. Sound(r)  BY <1>2, <1>4 DEF Sound
<1>6. Begin(c, r) /\ UNCHANGED <<user, orgs, onboarded, invite, tenant>>  BY <1>0 DEF CheckMember
<1> HIDE DEF r
<1> QED BY <1>5, <1>6, ReadStep

LEMMA CheckPendingInv ==
    ASSUME NoneAssumption, Inv, NEW c \in Clients, CheckPending(c)
    PROVE  Inv' /\ OwnerStep
<1>0. PICK q : q = req[c]  OBVIOUS
<1> DEFINE r == [q EXCEPT !.at = "inviting"]
<1>1. Sound(q) /\ q \in Request /\ Shape(q) /\ Fresh(q) /\ q.at = "unlisted" /\ q.role # "owner"
      /\ Open(q.org, q.person) = {}
  BY <1>0, SoundRequests DEF CheckPending, Uninvited, Sound
<1>2. r \in Request
  BY <1>1 DEF Request
<1>3. r.at = "inviting" /\ r.org = q.org /\ r.by = q.by /\ r.held = q.held /\ r.person = q.person
      /\ r.role = q.role /\ r.missed = q.missed
  BY <1>1 DEF Request
<1>4. Shape(r) /\ Fresh(r) /\ Bound(r)
  BY <1>1, <1>3 DEF Shape, Fresh, Bound, Session, Open
<1>5. Sound(r)  BY <1>1, <1>2, <1>3, <1>4 DEF Sound
<1>6. Begin(c, r) /\ UNCHANGED <<user, orgs, onboarded, invite, tenant>>  BY <1>0 DEF CheckPending
<1> HIDE DEF r
<1> QED BY <1>5, <1>6, ReadStep

LEMMA CheckCancelInv ==
    ASSUME NoneAssumption, Inv, NEW c \in Clients, NEW i \in Invites, CheckCancel(c, i)
    PROVE  Inv' /\ OwnerStep
<1>0. PICK q : q = req[c]  OBVIOUS
<1> DEFINE r == [q EXCEPT !.at = "cancelling", !.invite = i]
<1>1. Sound(q) /\ q \in Request /\ Shape(q) /\ Fresh(q) /\ q.at = "admitted" /\ q.role # "owner"
      /\ q.held \in {"owner", "admin"}
  BY <1>0, SoundRequests DEF CheckCancel, Sound
<1>2. r \in Request
  BY <1>1 DEF Request
<1>3. r.at = "cancelling" /\ r.org = q.org /\ r.by = q.by /\ r.held = q.held /\ r.invite = i
      /\ r.role = q.role /\ r.missed = q.missed
  BY <1>1 DEF Request
<1>4. Shape(r) /\ Fresh(r) /\ Bound(r)
  BY <1>1, <1>3 DEF Shape, Fresh, Bound, Session
<1>5. Sound(r)  BY <1>1, <1>2, <1>3, <1>4 DEF Sound
<1>6. Begin(c, r) /\ UNCHANGED <<user, orgs, onboarded, invite, tenant>>  BY <1>0 DEF CheckCancel
<1> HIDE DEF r
<1> QED BY <1>5, <1>6, ReadStep

LEMMA CheckRoleInv ==
    ASSUME NoneAssumption, Inv, NEW c \in Clients, NEW p \in People, NEW g, CheckRole(c, p, g)
    PROVE  Inv' /\ OwnerStep
<1>0. PICK q : q = req[c]  OBVIOUS
<1> DEFINE r == [q EXCEPT !.at = "changing", !.person = p, !.role = g]
<1>1. Sound(q) /\ q \in Request /\ Shape(q) /\ Fresh(q) /\ q.at = "admitted" /\ q.held = "owner"
      /\ g \in GivenRoles /\ user[q.org][p].status = "active" /\ user[q.org][p].role # "owner"
  BY <1>0, SoundRequests DEF CheckRole, Target, Sound
<1>2. r \in Request /\ r.role # "owner"
  BY <1>1 DEF Request, GivenRoles, Roles
<1>3. r.at = "changing" /\ r.org = q.org /\ r.by = q.by /\ r.held = q.held /\ r.person = p /\ r.role = g
      /\ r.missed = q.missed
  BY <1>1 DEF Request
<1>4. Shape(r) /\ Fresh(r) /\ Bound(r)
  BY <1>1, <1>3 DEF Shape, Fresh, Bound, Session, NoRow
<1>5. Sound(r)  BY <1>2, <1>4 DEF Sound
<1>6. Begin(c, r) /\ UNCHANGED <<user, orgs, onboarded, invite, tenant>>  BY <1>0 DEF CheckRole
<1> HIDE DEF r
<1> QED BY <1>5, <1>6, ReadStep

LEMMA CheckRemovalInv ==
    ASSUME NoneAssumption, Inv, NEW c \in Clients, NEW p \in People, CheckRemoval(c, p)
    PROVE  Inv' /\ OwnerStep
<1>0. PICK q : q = req[c]  OBVIOUS
<1> DEFINE r == [q EXCEPT !.at = "removing", !.person = p]
<1>1. Sound(q) /\ q \in Request /\ Shape(q) /\ Fresh(q) /\ q.at = "admitted" /\ q.held = "owner"
      /\ q.role # "owner" /\ user[q.org][p].status = "active" /\ user[q.org][p].role # "owner"
  BY <1>0, SoundRequests DEF CheckRemoval, Target, Sound
<1>2. r \in Request
  BY <1>1 DEF Request
<1>3. r.at = "removing" /\ r.org = q.org /\ r.by = q.by /\ r.held = q.held /\ r.person = p /\ r.role = q.role
      /\ r.missed = q.missed
  BY <1>1 DEF Request
<1>4. Shape(r) /\ Fresh(r) /\ Bound(r)
  BY <1>1, <1>3 DEF Shape, Fresh, Bound, Session, NoRow
<1>5. Sound(r)  BY <1>1, <1>2, <1>3, <1>4 DEF Sound
<1>6. Begin(c, r) /\ UNCHANGED <<user, orgs, onboarded, invite, tenant>>  BY <1>0 DEF CheckRemoval
<1> HIDE DEF r
<1> QED BY <1>5, <1>6, ReadStep

LEMMA CheckOnboardingInv ==
    ASSUME NoneAssumption, Inv, NEW c \in Clients, CheckOnboarding(c)
    PROVE  Inv' /\ OwnerStep
<1>0. PICK q : q = req[c]  OBVIOUS
<1> DEFINE r == [q EXCEPT !.at = "onboarding"]
<1>1. Sound(q) /\ q \in Request /\ Shape(q) /\ Fresh(q) /\ q.at = "admitted" /\ q.role # "owner"
      /\ q.org \notin onboarded
  BY <1>0, SoundRequests DEF CheckOnboarding, NotOnboarded, Sound
<1>2. r \in Request
  BY <1>1 DEF Request
<1>3. r.at = "onboarding" /\ r.org = q.org /\ r.by = q.by /\ r.held = q.held /\ r.role = q.role
      /\ r.missed = q.missed
  BY <1>1 DEF Request
<1>4. Shape(r) /\ Fresh(r) /\ Bound(r)
  BY <1>1, <1>3 DEF Shape, Fresh, Bound, Session
<1>5. Sound(r)  BY <1>1, <1>2, <1>3, <1>4 DEF Sound
<1>6. Begin(c, r) /\ UNCHANGED <<user, orgs, onboarded, invite, tenant>>  BY <1>0 DEF CheckOnboarding
<1> HIDE DEF r
<1> QED BY <1>5, <1>6, ReadStep

LEMMA GoogleVerifyInv ==
    ASSUME NoneAssumption, Inv, NEW c \in Clients, NEW p \in People, GoogleVerify(c, p)
    PROVE  Inv' /\ OwnerStep
<1> DEFINE r == [Idle EXCEPT !.at = "newcomer", !.person = p]
<1>1. r \in Request /\ r.role # "owner" /\ r.at = "newcomer" /\ r.person = p
  BY NoneAssumption DEF Request, Idle
<1>2. \A o \in Orgs : user[o][p] = NoRow  BY DEF GoogleVerify
<1>3. Shape(r) /\ Fresh(r) /\ Bound(r)
  BY <1>1, <1>2 DEF Shape, Fresh, Bound, Session
<1>4. Sound(r)  BY <1>1, <1>3 DEF Sound
<1>5. Begin(c, r) /\ UNCHANGED <<user, orgs, onboarded, invite, tenant>>  BY DEF GoogleVerify
<1> HIDE DEF r
<1> QED BY <1>4, <1>5, ReadStep

LEMMA ReadInviteInv ==
    ASSUME NoneAssumption, Inv, NEW c \in Clients, NEW i \in Invites, ReadInvite(c, i)
    PROVE  Inv' /\ OwnerStep
<1> DEFINE r == [Idle EXCEPT !.at = "accepting", !.invite = i, !.org = invite[i].org,
                             !.person = invite[i].person, !.role = invite[i].role]
<1>1. /\ invite[i].status = "pending" /\ invite[i].org \in orgs /\ orgs \subseteq Orgs
      /\ invite[i].person \in People /\ invite[i].role \in GivenRoles
  BY DEF ReadInvite, Inv, Tables, Exists
<1>2. /\ r \in Request /\ r.role # "owner" /\ r.at = "accepting" /\ r.invite = i
      /\ r.org = invite[i].org /\ r.person = invite[i].person /\ r.role = invite[i].role
  BY <1>1 DEF Request, Idle, GivenRoles, Roles
<1>3. Shape(r) /\ Fresh(r) /\ Bound(r)
  BY <1>1, <1>2 DEF Shape, Fresh, Bound, Session, Match
<1>4. Sound(r)  BY <1>2, <1>3 DEF Sound
<1>5. Begin(c, r) /\ UNCHANGED <<user, orgs, onboarded, invite, tenant>>  BY DEF ReadInvite
<1> HIDE DEF r
<1> QED BY <1>4, <1>5, ReadStep

\* A row that is not active is not an owner's.
LEMMA ReadMemberInv ==
    ASSUME NoneAssumption, Inv, NEW c \in Clients, ReadMember(c)
    PROVE  Inv' /\ OwnerStep
<1>0. PICK q : q = req[c]  OBVIOUS
<1> DEFINE row == user[q.org][q.person]
           r   == [q EXCEPT !.at = "joining", !.seen = row.status]
<1>1. Sound(q) /\ q \in Request /\ Shape(q) /\ Fresh(q) /\ Bound(q) /\ q.at = "accepting"
      /\ q.role # "owner" /\ row.status # "active"
  BY <1>0, SoundRequests DEF ReadMember, Sound
<1>2. q.org \in orgs /\ q.org \in Orgs /\ q.person \in People  BY <1>1 DEF Shape, Inv, Tables
<1>3. row \in Row  BY <1>2 DEF Inv, Tables
<1>4. row.status \in {"none", "removed"}  BY <1>1, <1>3 DEF Row
<1>5. row.role # "owner"
  <2>1. CASE OneOwner(q.org)
    <3>1. PICK w \in People : user[q.org][w] = Active("owner")
                              /\ \A s \in People \ {w} : user[q.org][s].role # "owner"
      BY <2>1 DEF OneOwner
    <3>2. q.person # w  BY <3>1, <1>1 DEF Active
    <3> QED BY <3>1, <3>2, <1>2
  <2>2. CASE Ownerless(q.org)
    BY <2>2, <1>2 DEF Ownerless
  <2> QED BY <1>2, <2>1, <2>2 DEF Inv, Owned
<1>6. row.status = "removed" => row # NoRow  BY DEF NoRow
<1>7. r \in Request
  BY <1>1, <1>4 DEF Request
<1>8. /\ r.at = "joining" /\ r.org = q.org /\ r.person = q.person /\ r.role = q.role
      /\ r.invite = q.invite /\ r.seen = row.status /\ r.missed = q.missed
  BY <1>1 DEF Request
<1>9. Shape(r)
  BY <1>1, <1>4, <1>8 DEF Shape, Session
<1>10. Fresh(r)
  BY <1>8 DEF Fresh, Session
<1>11. Bound(r)
  BY <1>1, <1>5, <1>6, <1>8 DEF Bound, Match
<1>12. Sound(r)  BY <1>1, <1>7, <1>8, <1>9, <1>10, <1>11 DEF Sound
<1>13. Begin(c, r) /\ UNCHANGED <<user, orgs, onboarded, invite, tenant>>  BY <1>0 DEF ReadMember
<1> HIDE DEF r
<1> QED BY <1>12, <1>13, ReadStep

------------------------------------------------------------------------------
(* Steps that write                                                          *)

LEMMA InsertInviteInv ==
    ASSUME NoneAssumption, Inv, NEW c \in Clients, NEW i \in Invites, InsertInvite(c, i)
    PROVE  Inv' /\ OwnerStep
<1>0. PICK q : q = req[c]  OBVIOUS
<1> DEFINE x == <<q.org, q.person>>
           n == [status |-> "pending", org |-> q.org, person |-> q.person, role |-> q.role]
<1>1. Sound(q) /\ Shape(q) /\ q.at = "inviting" /\ q.role # "owner"
  BY <1>0, SoundRequests DEF InsertInvite, Sound
<1>2. q.org \in orgs /\ orgs \subseteq Orgs /\ q.person \in People /\ q.role \in GivenRoles
  BY <1>1 DEF Shape, Session, Inv, Tables
<1>3. x \in Pairs  BY <1>2 DEF Pairs
<1>4. invite[i].status = "none" /\ invite' = [invite EXCEPT ![i] = n] /\ n \in Invitation
  BY <1>0, <1>2 DEF InsertInvite, NoInvite, Invitation, GivenRoles, Roles
<1>5. \A j \in Invites : invite'[j] = IF j = i THEN n ELSE invite[j]
  BY <1>4 DEF Inv, Tables
<1>6. UNCHANGED <<user, orgs, onboarded, tenant>>  BY DEF InsertInvite
<1>7. WritesAbout(x)
  BY <1>4, <1>5, <1>6 DEF WritesAbout
<1>8. Tables'
  BY <1>1, <1>2, <1>4, <1>5, <1>6 DEF Inv, Tables, Exists
<1>9. OwnerStep
  BY <1>6 DEF Inv, Owned, OwnerStep, OneOwner, Ownerless
<1>10. EndWriting(c, x)  BY <1>0 DEF InsertInvite
<1> HIDE DEF x, n
<1> QED BY <1>3, <1>7, <1>8, <1>9, <1>10, WriteStep

LEMMA DeleteInviteInv ==
    ASSUME NoneAssumption, Inv, NEW c \in Clients, DeleteInvite(c)
    PROVE  Inv' /\ OwnerStep
<1>0. PICK i : i = req[c].invite  OBVIOUS
<1> DEFINE x == <<invite[i].org, invite[i].person>>
<1>1. Sound(req[c]) /\ Shape(req[c]) /\ req[c].at = "cancelling"
  BY SoundRequests DEF DeleteInvite, Sound
<1>2. i \in Invites /\ Exists(i)  BY <1>0, <1>1 DEF Shape, DeleteInvite
<1>3. x \in Pairs  BY <1>2 DEF Pairs, Inv, Tables
<1>4. invite' = [invite EXCEPT ![i] = Deleted] /\ EndWriting(c, x)
  BY <1>0 DEF DeleteInvite
<1>5. Deleted \in Invitation /\ Deleted.status = "deleted" /\ Deleted.role # "owner"
  BY NoneAssumption DEF Deleted, NoInvite, Invitation
<1>6. \A j \in Invites : invite'[j] = IF j = i THEN Deleted ELSE invite[j]
  BY <1>4 DEF Inv, Tables
<1>7. UNCHANGED <<user, orgs, onboarded, tenant>>  BY DEF DeleteInvite
<1>8. WritesAbout(x)
  BY <1>5, <1>6, <1>7 DEF WritesAbout, RowWritten
<1>9. Tables'
  BY <1>4, <1>5, <1>6, <1>7 DEF Inv, Tables, Exists
<1>10. OwnerStep
  BY <1>7 DEF Inv, Owned, OwnerStep, OneOwner, Ownerless
<1> HIDE DEF x
<1> QED BY <1>3, <1>4, <1>8, <1>9, <1>10, WriteStep

\* Nobody is told that an invitation ran out: it matches whatever it matched before.
LEMMA ExpireInv ==
    ASSUME NoneAssumption, Inv, NEW i \in Invites, Expire(i)
    PROVE  Inv' /\ OwnerStep
<1>1. invite' = [invite EXCEPT ![i].status = "expired"] /\ invite[i].status = "pending"
      /\ UNCHANGED <<user, orgs, onboarded, req, tenant>>
  BY DEF Expire
<1>2. \A j \in Invites : /\ invite'[j] \in Invitation
                          /\ invite'[j].org = invite[j].org /\ invite'[j].person = invite[j].person
                          /\ invite'[j].role = invite[j].role
                          /\ invite'[j].status = IF j = i THEN "expired" ELSE invite[j].status
  BY <1>1 DEF Inv, Tables, Invitation
<1>3. Tables'
  BY <1>1, <1>2 DEF Inv, Tables, Exists
<1>4. OwnerStep
  BY <1>1 DEF Inv, Owned, OwnerStep, OneOwner, Ownerless
<1>5. ASSUME NEW d \in Clients PROVE Sound(req[d])'
  <2>1. PICK s : s = req[d] /\ s = req'[d]  BY <1>1
  <2>2. Sound(s)  BY <2>1, SoundRequests
  <2>3. s \in Request /\ s.role # "owner" /\ Shape(s) /\ Fresh(s) /\ Bound(s)  BY <2>2 DEF Sound
  <2>4. Shape(s)'  BY <2>3, <1>1 DEF Shape
  <2>5. Fresh(s)'  BY <2>3, <1>1, <1>2 DEF Fresh
  <2>6. Bound(s)'
    <3>1. s.at \in {"accepting", "joining"} => s.invite \in Invites  BY <2>3 DEF Shape
    <3> QED BY <2>3, <1>1, <1>2, <3>1 DEF Bound, Match
  <2>7. Sound(s)'  BY <2>3, <2>4, <2>5, <2>6 DEF Sound
  <2> QED BY <2>7, <2>1
<1>6. Owned'  BY <1>4 DEF OwnerStep, Owned
<1> QED BY <1>1, <1>3, <1>4, <1>5, <1>6 DEF Inv

LEMMA ChangeRoleInv ==
    ASSUME NoneAssumption, Inv, NEW c \in Clients, ChangeRole(c)
    PROVE  Inv' /\ OwnerStep
<1>0. PICK q, o, p : q = req[c] /\ o = q.org /\ p = q.person  OBVIOUS
<1> DEFINE row == [user[o][p] EXCEPT !.role = q.role]
<1>1. Shape(q) /\ Bound(q) /\ q.at = "changing" /\ q.role # "owner"
  BY <1>0, SoundRequests DEF ChangeRole, Sound
<1>2. o \in orgs /\ o \in Orgs /\ p \in People /\ q.role \in GivenRoles
      /\ user[o][p] # NoRow /\ user[o][p].role # "owner"
  BY <1>0, <1>1 DEF Shape, Bound, Session, Inv, Tables
<1>3. user[o][p] \in Row  BY <1>2 DEF Inv, Tables
<1>4. row \in Row /\ row # NoRow /\ row.role # "owner" /\ row.role # None
  BY <1>1, <1>2, <1>3, NoneAssumption DEF Row, NoRow, GivenRoles, Roles
<1>5. user' = [user EXCEPT ![o][p] = row] /\ EndWriting(c, <<o, p>>)
      /\ UNCHANGED <<orgs, onboarded, invite, tenant>>
  BY <1>0, <1>2 DEF ChangeRole, Inv, Tables
<1> HIDE DEF row
<1>6. Tables /\ Owned  BY DEF Inv
<1>7. RowWritten(o, p)
  BY <1>2, <1>4, <1>5, <1>6, RowStep
<1>8. WritesAbout(<<o, p>>)  BY <1>5, <1>7 DEF WritesAbout, RowWritten
<1>9. Tables'  BY <1>5, <1>6, <1>7 DEF Tables, Exists, RowWritten
<1>10. <<o, p>> \in Pairs  BY <1>2 DEF Pairs
<1> QED BY <1>5, <1>7, <1>8, <1>9, <1>10, WriteStep DEF RowWritten

LEMMA RemoveMemberInv ==
    ASSUME NoneAssumption, Inv, NEW c \in Clients, RemoveMember(c)
    PROVE  Inv' /\ OwnerStep
<1>0. PICK q, o, p : q = req[c] /\ o = q.org /\ p = q.person  OBVIOUS
<1> DEFINE row == [user[o][p] EXCEPT !.status = "removed"]
<1>1. Shape(q) /\ Bound(q) /\ q.at = "removing"
  BY <1>0, SoundRequests DEF RemoveMember, Sound
<1>2. o \in orgs /\ o \in Orgs /\ p \in People
      /\ user[o][p] # NoRow /\ user[o][p].role # "owner"
  BY <1>0, <1>1 DEF Shape, Bound, Session, Inv, Tables
<1>3. user[o][p] \in Row /\ user[o][p].role # None  BY <1>2 DEF Inv, Tables
<1>4. row \in Row /\ row # NoRow /\ row.role # "owner" /\ row.role # None
  BY <1>2, <1>3 DEF Row, NoRow
<1>5. user' = [user EXCEPT ![o][p] = row] /\ EndWriting(c, <<o, p>>)
      /\ UNCHANGED <<orgs, onboarded, invite, tenant>>
  BY <1>0, <1>2 DEF RemoveMember, Inv, Tables
<1> HIDE DEF row
<1>6. Tables /\ Owned  BY DEF Inv
<1>7. RowWritten(o, p)
  BY <1>2, <1>4, <1>5, <1>6, RowStep
<1>8. WritesAbout(<<o, p>>)  BY <1>5, <1>7 DEF WritesAbout, RowWritten
<1>9. Tables'  BY <1>5, <1>6, <1>7 DEF Tables, Exists, RowWritten
<1>10. <<o, p>> \in Pairs  BY <1>2 DEF Pairs
<1> QED BY <1>5, <1>7, <1>8, <1>9, <1>10, WriteStep DEF RowWritten

LEMMA CompleteOnboardingInv ==
    ASSUME NoneAssumption, Inv, NEW c \in Clients, CompleteOnboarding(c)
    PROVE  Inv' /\ OwnerStep
<1>0. PICK o : o = req[c].org  OBVIOUS
<1>1. o \in orgs /\ orgs \subseteq Orgs
  BY <1>0, SoundRequests DEF CompleteOnboarding, Sound, Shape, Session, Inv, Tables
<1>2. onboarded' = onboarded \cup {o} /\ EndWriting(c, <<o, None>>)
      /\ UNCHANGED <<user, orgs, invite, tenant>>
  BY <1>0 DEF CompleteOnboarding
<1>3. WritesAbout(<<o, None>>)  BY <1>2 DEF WritesAbout
<1>4. Tables'  BY <1>1, <1>2 DEF Inv, Tables, Exists
<1>5. OwnerStep  BY <1>2 DEF Inv, Owned, OwnerStep, OneOwner, Ownerless
<1>6. <<o, None>> \in Pairs  BY <1>1 DEF Pairs
<1> QED BY <1>2, <1>3, <1>4, <1>5, <1>6, WriteStep

LEMMA JoinTenantInv ==
    ASSUME NoneAssumption, Inv, NEW c \in Clients, JoinTenant(c)
    PROVE  Inv' /\ OwnerStep
<1>0. PICK p, row : p = req[c].person /\ row = Active("member")  OBVIOUS
<1>1. p \in People /\ tenant \in orgs /\ orgs \subseteq Orgs /\ user[tenant][p] = NoRow
  BY <1>0, SoundRequests DEF JoinTenant, Sound, Shape, Inv, Tables
<1>2. row \in Row /\ row # NoRow /\ row.role # "owner" /\ row.role # None
      /\ user[tenant][p].role # "owner"
  BY <1>0, <1>1, NoneAssumption DEF Active, Row, Roles, NoRow
<1>3. user' = [user EXCEPT ![tenant][p] = row] /\ EndWriting(c, <<tenant, p>>)
      /\ UNCHANGED <<orgs, onboarded, invite, tenant>>
  BY <1>0 DEF JoinTenant
<1>4. PICK o : o = tenant  OBVIOUS
<1>6. Tables /\ Owned  BY DEF Inv
<1>7. RowWritten(o, p)
  BY <1>1, <1>2, <1>3, <1>4, <1>6, RowStep
<1>8. WritesAbout(<<o, p>>)  BY <1>3, <1>7 DEF WritesAbout, RowWritten
<1>9. Tables'  BY <1>3, <1>6, <1>7 DEF Tables, Exists, RowWritten
<1>10. <<o, p>> \in Pairs  BY <1>1, <1>4 DEF Pairs
<1> QED BY <1>3, <1>4, <1>7, <1>8, <1>9, <1>10, WriteStep DEF RowWritten

\* The new organization had no rows, so its first is its only owner.
LEMMA SignUpInv ==
    ASSUME NoneAssumption, Inv, NEW c \in Clients, NEW o \in Orgs, SignUp(c, o)
    PROVE  Inv' /\ OwnerStep
<1>0. PICK p, row : p = req[c].person /\ row = Active("owner")  OBVIOUS
<1>1. p \in People /\ o \notin orgs /\ Tables /\ Owned
  BY <1>0, SoundRequests DEF SignUp, ShortIdFree, Sound, Shape, Inv
<1>2. row \in Row /\ row # NoRow /\ row.role # None
  BY <1>0, NoneAssumption DEF Active, Row, Roles, NoRow
<1>3. user' = [user EXCEPT ![o][p] = row] /\ orgs' = orgs \cup {o} /\ EndWriting(c, <<o, p>>)
      /\ UNCHANGED <<onboarded, invite, tenant>>
  BY <1>0 DEF SignUp, ShortIdFree
<1>4. \A s \in Orgs, t \in People : user'[s][t] = IF <<s, t>> = <<o, p>> THEN row ELSE user[s][t]
  BY <1>1, <1>3 DEF Tables
<1>5. user' \in [Orgs -> [People -> Row]]  BY <1>1, <1>2, <1>3 DEF Tables
<1>6. \A t \in People : user[o][t] = NoRow  BY <1>1 DEF Tables
<1>7. Tables'
  <2>1. orgs' \subseteq Orgs /\ onboarded' \subseteq orgs' /\ invite' \in [Invites -> Invitation]
        /\ tenant' \in orgs' \cup {None}
    BY <1>1, <1>3 DEF Tables
  <2>2. \A s \in Orgs, t \in People : user'[s][t] # NoRow => s \in orgs' /\ user'[s][t].role # None
    BY <1>1, <1>2, <1>3, <1>4 DEF Tables
  <2>3. \A i \in Invites : /\ Exists(i)' => /\ invite'[i].org \in orgs'
                                            /\ invite'[i].person \in People
                                            /\ invite'[i].role \in GivenRoles
                           /\ invite'[i].role # "owner"
    BY <1>1, <1>3 DEF Tables, Exists
  <2> QED BY <1>5, <2>1, <2>2, <2>3 DEF Tables
<1>8. WritesAbout(<<o, p>>)
  BY <1>1, <1>2, <1>3, <1>4 DEF WritesAbout, Tables
<1>9. ASSUME NEW s \in orgs'
      PROVE  IF s \in orgs
             THEN (OneOwner(s) /\ OneOwner(s)') \/ (Ownerless(s) /\ Ownerless(s)')
             ELSE OneOwner(s)' \/ (s \in Seeded /\ Ownerless(s)')
  <2>1. CASE s = o
    <3>1. user'[o][p] = Active("owner")  BY <1>0, <1>1, <1>4
    <3>2. \A t \in People \ {p} : user'[o][t].role # "owner"
      BY <1>4, <1>6, NoneAssumption DEF NoRow
    <3> QED BY <1>1, <2>1, <3>1, <3>2 DEF OneOwner, Active
  <2>2. CASE s # o
    <3>1. s \in orgs /\ s \in Orgs  BY <1>1, <1>3, <2>2 DEF Tables
    <3>2. \A t \in People : user'[s][t] = user[s][t]  BY <1>4, <2>2, <3>1
    <3>3. OneOwner(s) \/ Ownerless(s)  BY <1>1, <3>1 DEF Owned
    <3>4. (OneOwner(s)' <=> OneOwner(s)) /\ (Ownerless(s)' <=> Ownerless(s))
      BY <3>2 DEF OneOwner, Ownerless, Active
    <3> QED BY <3>1, <3>3, <3>4
  <2> QED BY <2>1, <2>2
<1>10. OwnerStep  BY <1>9 DEF OwnerStep
<1>11. <<o, p>> \in Pairs  BY <1>1 DEF Pairs
<1> QED BY <1>3, <1>7, <1>8, <1>10, <1>11, WriteStep

LEMMA JoinInv ==
    ASSUME NoneAssumption, Inv, NEW c \in Clients, Join(c)
    PROVE  Inv' /\ OwnerStep
<1>0. PICK q, o, p, i, row :
          q = req[c] /\ o = q.org /\ p = q.person /\ i = q.invite /\ row = Active(q.role)
  OBVIOUS
<1>1. Shape(q) /\ Bound(q) /\ q.at = "joining"
  BY <1>0, SoundRequests DEF Join, Sound
<1>2. o \in orgs /\ o \in Orgs /\ p \in People /\ q.role \in GivenRoles /\ i \in Invites
      /\ q.seen \in {"none", "removed"}
  BY <1>0, <1>1 DEF Shape, Session, Inv, Tables
<1>3. /\ q.seen = "none" => user[o][p] = NoRow
      /\ Exists(i)
      /\ user' = [user EXCEPT ![o][p] = row]
      /\ invite' = [invite EXCEPT ![i].status = "accepted"]
      /\ EndWriting(c, <<o, p>>)
      /\ UNCHANGED <<orgs, onboarded, tenant>>
  BY <1>0 DEF Join, Marks
<1>4. row \in Row /\ row # NoRow /\ row.role # "owner" /\ row.role # None
  BY <1>0, <1>2, NoneAssumption DEF Active, Row, GivenRoles, Roles, NoRow
<1>5. user[o][p].role # "owner"
  BY <1>0, <1>1, <1>2, <1>3, NoneAssumption DEF Bound, NoRow
<1>6. Tables /\ Owned  BY DEF Inv
<1>7. RowWritten(o, p)
  BY <1>2, <1>3, <1>4, <1>5, <1>6, RowStep
<1>8. Match(q) /\ invite[i] \in Invitation
  BY <1>0, <1>1, <1>2, <1>3, <1>6 DEF Bound, Exists, Tables
<1>9. \A j \in Invites : invite'[j] = IF j = i THEN [invite[i] EXCEPT !.status = "accepted"] ELSE invite[j]
  BY <1>2, <1>3, <1>6 DEF Tables
<1>10. WritesAbout(<<o, p>>)
  BY <1>0, <1>3, <1>7, <1>8, <1>9 DEF WritesAbout, Match, RowWritten
<1>11. Tables'
  <2>1. invite' \in [Invites -> Invitation]
    BY <1>2, <1>3, <1>6, <1>8 DEF Tables, Invitation
  <2>2. ASSUME NEW j \in Invites
        PROVE  /\ Exists(j)' => /\ invite'[j].org \in orgs'
                                /\ invite'[j].person \in People
                                /\ invite'[j].role \in GivenRoles
               /\ invite'[j].role # "owner"
    <3>1. /\ invite'[j].org = invite[j].org /\ invite'[j].person = invite[j].person
          /\ invite'[j].role = invite[j].role
          /\ invite'[j].status = IF j = i THEN "accepted" ELSE invite[j].status
      BY <1>8, <1>9 DEF Invitation
    <3>2. Exists(j)' => Exists(j)  BY <1>3, <3>1 DEF Exists
    <3> QED BY <1>3, <1>6, <3>1, <3>2 DEF Tables
  <2> QED BY <1>3, <1>6, <1>7, <2>1, <2>2 DEF Tables, RowWritten
<1>12. <<o, p>> \in Pairs  BY <1>2 DEF Pairs
<1> QED BY <1>3, <1>7, <1>10, <1>11, <1>12, WriteStep DEF RowWritten

LEMMA RestartInv == ASSUME NoneAssumption, Inv, Restart PROVE Inv' /\ OwnerStep
<1>1. req' = [c \in Clients |-> Idle] /\ tenant' \in orgs \cup {None}
      /\ UNCHANGED <<user, orgs, onboarded, invite>>
  BY DEF Restart, Configurations
<1>2. Tables' /\ OwnerStep /\ Owned'
  BY <1>1 DEF Inv, Tables, Owned, OwnerStep, OneOwner, Ownerless, Exists
<1>3. Idle \in Request /\ Idle.role # "owner"  BY IdleIsSound DEF Sound
<1>4. Shape(Idle)' /\ Fresh(Idle)' /\ Bound(Idle)'
  BY DEF Idle, Shape, Fresh, Bound, Session
<1>5. Sound(Idle)'  BY <1>3, <1>4 DEF Sound
<1>6. ASSUME NEW d \in Clients PROVE Sound(req[d])'
  <2>1. req'[d] = Idle  BY <1>1
  <2> QED BY <2>1, <1>5
<1> QED BY <1>1, <1>2, <1>3, <1>6 DEF Inv

\* The seeded organization has no rows, so it has no owner.
LEMMA SeedInv == ASSUME NoneAssumption, Inv, NEW o \in Orgs, Seed(o) PROVE Inv' /\ OwnerStep
<1>1. o \in Seeded /\ o \notin orgs /\ orgs' = orgs \cup {o} /\ orgs \subseteq Orgs
      /\ UNCHANGED <<user, onboarded, invite, req, tenant>>
  BY DEF Seed, Inv, Tables
<1>2. Tables'  BY <1>1 DEF Inv, Tables, Exists
<1>3. OwnerStep
  <2>1. \A p \in People : user[o][p] = NoRow  BY <1>1 DEF Inv, Tables
  <2>2. Ownerless(o)'  BY <1>1, <2>1, NoneAssumption DEF Ownerless, NoRow
  <2>3. \A s \in orgs : (OneOwner(s)' <=> OneOwner(s)) /\ (Ownerless(s)' <=> Ownerless(s))
    BY <1>1 DEF OneOwner, Ownerless, Active
  <2> QED BY <1>1, <2>2, <2>3 DEF OwnerStep, Inv, Owned
<1>4. Owned'  BY <1>3 DEF OwnerStep, Owned
<1>5. ASSUME NEW d \in Clients PROVE Sound(req[d])'
  <2>1. PICK s : s = req[d] /\ s = req'[d]  BY <1>1
  <2>2. s \in Request /\ s.role # "owner" /\ Shape(s) /\ Fresh(s) /\ Bound(s)
    BY <2>1, SoundRequests DEF Sound
  <2>3. Shape(s)' /\ Fresh(s)' /\ Bound(s)'  BY <2>2, <1>1 DEF Shape, Fresh, Bound, Match
  <2>4. Sound(s)'  BY <2>2, <2>3 DEF Sound
  <2> QED BY <2>4, <2>1
<1> QED BY <1>1, <1>2, <1>3, <1>4, <1>5 DEF Inv

------------------------------------------------------------------------------
(* Theorems                                                                  *)

LEMMA NextInv == ASSUME NoneAssumption, Inv, [Next]_vars PROVE Inv' /\ OwnerStep
<1>1. ASSUME NEW c \in Clients, Team(c) PROVE Inv' /\ OwnerStep
  <2>1. ASSUME NEW p \in People, NEW g, CheckMember(c, p, g) PROVE Inv' /\ OwnerStep
    BY <2>1, CheckMemberInv
  <2>2. ASSUME NEW p \in People, NEW g, CheckRole(c, p, g) PROVE Inv' /\ OwnerStep
    BY <2>2, CheckRoleInv
  <2>3. ASSUME NEW i \in Invites, InsertInvite(c, i) \/ CheckCancel(c, i) PROVE Inv' /\ OwnerStep
    BY <2>3, InsertInviteInv, CheckCancelInv
  <2>4. ASSUME NEW p \in People, CheckRemoval(c, p) PROVE Inv' /\ OwnerStep
    BY <2>4, CheckRemovalInv
  <2>5. ASSUME CheckPending(c) \/ DeleteInvite(c) \/ ChangeRole(c) \/ RemoveMember(c) PROVE Inv' /\ OwnerStep
    BY <2>5, CheckPendingInv, DeleteInviteInv, ChangeRoleInv, RemoveMemberInv
  <2> QED BY <1>1, <2>1, <2>2, <2>3, <2>4, <2>5 DEF Team
<1>2. ASSUME NEW c \in Clients, Entry(c) PROVE Inv' /\ OwnerStep
  <2>1. ASSUME NEW o \in Orgs, NEW p \in People, Admit(c, o, p) PROVE Inv' /\ OwnerStep
    BY <2>1, AdmitInv
  <2>2. ASSUME NEW p \in People, GoogleVerify(c, p) PROVE Inv' /\ OwnerStep
    BY <2>2, GoogleVerifyInv
  <2>3. ASSUME NEW o \in Orgs, SignUp(c, o) PROVE Inv' /\ OwnerStep
    BY <2>3, SignUpInv
  <2>4. ASSUME NEW i \in Invites, ReadInvite(c, i) PROVE Inv' /\ OwnerStep
    BY <2>4, ReadInviteInv
  <2>5. ASSUME JoinTenant(c) \/ ReadMember(c) \/ Join(c) PROVE Inv' /\ OwnerStep
    BY <2>5, JoinTenantInv, ReadMemberInv, JoinInv
  <2>6. ASSUME CheckOnboarding(c) \/ CompleteOnboarding(c) \/ Refuse(c) PROVE Inv' /\ OwnerStep
    BY <2>6, CheckOnboardingInv, CompleteOnboardingInv, RefuseInv
  <2> QED BY <1>2, <2>1, <2>2, <2>3, <2>4, <2>5, <2>6 DEF Entry
<1>3. CASE UNCHANGED vars
  <2>1. Tables' /\ OwnerStep /\ Owned' /\ req' \in [Clients -> Request]
    BY <1>3 DEF vars, Inv, Tables, Owned, OwnerStep, OneOwner, Ownerless, Exists
  <2>2. ASSUME NEW d \in Clients PROVE Sound(req[d])'
    BY <1>3, SoundRequests DEF vars, Sound, Shape, Fresh, Bound, Match
  <2> QED BY <2>1, <2>2 DEF Inv
<1> QED BY <1>1, <1>2, <1>3, ExpireInv, SeedInv, RestartInv DEF Next

LEMMA AlwaysInv == Spec => []Inv
<1>1. Init => Inv  BY NoneAssumption, InitInv
<1>2. Inv /\ [Next]_vars => Inv'  BY NoneAssumption, NextInv
<1> QED BY <1>1, <1>2, PTL DEF Spec

\* Whatever the interleaving, a member's organization exists and no invitation or request in
\* flight carries the role of owner (ALLOWED_INVITATION_ROLES, ALLOWED_CHANGE_ROLES).
THEOREM TeamTypes == Spec => []TypeOK
<1>1. Inv => TypeOK
  BY DEF Inv, Tables, TypeOK, Sound, Exists
<1> QED BY <1>1, AlwaysInv, PTL

\* changeRole(), removeMember() and acceptInvite() check a row and write it later by id; still
\* no interleaving of them takes a founded organization's only owner away or makes a second
\* one, or makes an owner of a member of the seeded organization, which has none.
THEOREM OwnersStay == Spec => OrgKeepsItsOwner
<1>1. Inv /\ [Next]_vars => [OwnerStep]_vars  BY NoneAssumption, NextInv
<1> QED BY <1>1, AlwaysInv, PTL DEF Spec, OrgKeepsItsOwner

LEMMA SameUsersJoinNobody == ASSUME user' = user PROVE JoinsByRule
BY DEF JoinsByRule, Joins

LEMMA ChangeRoleJoinsNobody ==
    ASSUME Inv, NEW c \in Clients, ChangeRole(c) \/ RemoveMember(c) PROVE JoinsByRule
<1>1. PICK q, p : q = req[c].org /\ p = req[c].person  OBVIOUS
<1>2. q \in Orgs /\ p \in People
  BY <1>1, SoundRequests DEF ChangeRole, RemoveMember, Sound, Shape, Session, Inv, Tables
<1>3. \/ user' = [user EXCEPT ![q][p].role = req[c].role]
      \/ user' = [user EXCEPT ![q][p].status = "removed"]
  BY <1>1 DEF ChangeRole, RemoveMember
<1>4. \A s \in Orgs, t \in People : user'[s][t].status \in {user[s][t].status, "removed"}
  <2>1. PICK row \in Row : row = user[q][p]
    BY <1>2 DEF Inv, Tables
  <2>2. user'[q][p] \in {[row EXCEPT !.role = req[c].role], [row EXCEPT !.status = "removed"]}
    BY <1>2, <1>3, <2>1 DEF Inv, Tables
  <2>3. user'[q][p].status \in {row.status, "removed"}
    <3>1. [row EXCEPT !.role = req[c].role].status = row.status
      BY <2>1 DEF Row
    <3>2. [row EXCEPT !.status = "removed"].status = "removed"
      BY <2>1 DEF Row
    <3> QED BY <2>2, <3>1, <3>2
  <2>4. ASSUME NEW s \in Orgs, NEW t \in People, ~(s = q /\ t = p)
        PROVE  user'[s][t] = user[s][t]
    BY <1>2, <1>3, <2>4 DEF Inv, Tables
  <2> QED BY <2>1, <2>3, <2>4
<1> QED BY <1>4 DEF JoinsByRule, Joins

LEMMA JoinTenantJoinsByRule ==
    ASSUME NoneAssumption, Inv, NEW c \in Clients, JoinTenant(c) PROVE JoinsByRule
<1>1. PICK p : p = req[c].person  OBVIOUS
<1>2. tenant \in Orgs /\ p \in People /\ user[tenant][p] = NoRow
  BY <1>1, SoundRequests DEF JoinTenant, Sound, Shape, Inv, Tables
<1>3. user' = [user EXCEPT ![tenant][p] = Active("member")]
  BY <1>1 DEF JoinTenant
<1>4. \A s \in Orgs, t \in People :
          user'[s][t] = IF s = tenant /\ t = p THEN Active("member") ELSE user[s][t]
  BY <1>2, <1>3 DEF Inv, Tables
<1> QED BY <1>2, <1>4 DEF JoinsByRule, Joins, Active

LEMMA SignUpJoinsByRule ==
    ASSUME Inv, NEW c \in Clients, NEW o \in Orgs, SignUp(c, o) PROVE JoinsByRule
<1>1. PICK p : p = req[c].person  OBVIOUS
<1>2. p \in People  BY <1>1, SoundRequests DEF SignUp, ShortIdFree, Sound, Shape
<1>3. user' = [user EXCEPT ![o][p] = Active("owner")] /\ o \notin orgs
  BY <1>1 DEF SignUp, ShortIdFree
<1>4. \A s \in Orgs, t \in People :
          user'[s][t] = IF s = o /\ t = p THEN Active("owner") ELSE user[s][t]
  BY <1>2, <1>3 DEF Inv, Tables
<1> QED BY <1>3, <1>4 DEF JoinsByRule, Joins, Active

\* The request's own copy of the invitation is the invitation, as long as it is there.
LEMMA JoinJoinsByRule ==
    ASSUME Inv, NEW c \in Clients, Join(c) PROVE JoinsByRule
<1>0. PICK q, o, p, i : q = req[c] /\ o = q.org /\ p = q.person /\ i = q.invite  OBVIOUS
<1>1. Shape(q) /\ Bound(q) /\ q.at = "joining"
  BY <1>0, SoundRequests DEF Join, Sound
<1>2. o \in Orgs /\ p \in People /\ i \in Invites
  BY <1>0, <1>1 DEF Shape, Session, Inv, Tables
<1>3. /\ Exists(i)
      /\ user' = [user EXCEPT ![o][p] = Active(q.role)]
      /\ invite' = [invite EXCEPT ![i].status = "accepted"]
  BY <1>0 DEF Join, Marks
<1>4. \A s \in Orgs, t \in People :
          user'[s][t] = IF s = o /\ t = p THEN Active(q.role) ELSE user[s][t]
  BY <1>2, <1>3 DEF Inv, Tables
<1>5. /\ invite[i].org = o /\ invite[i].person = p /\ invite[i].role = q.role
      /\ \/ invite[i].status \in {"pending", "expired"}
         \/ invite[i].status = "accepted" /\ <<o, p>> \in q.missed
  BY <1>0, <1>1, <1>3 DEF Bound, Match, Exists
<1>6. user'[o][p].role = q.role  BY <1>2, <1>4 DEF Active
<1>7. invite'[i].status = "accepted"
  BY <1>2, <1>3 DEF Inv, Tables, Invitation
<1>8. Invited(o, p)
  BY <1>0, <1>1, <1>2, <1>5, <1>6, <1>7 DEF Invited
<1>9. ASSUME NEW s \in Orgs, NEW t \in People, Joins(s, t) PROVE s = o /\ t = p
  BY <1>4, <1>9 DEF Joins
<1> QED BY <1>8, <1>9 DEF JoinsByRule

\* Across concurrent acceptances, cancellations, removals and sign-ins, somebody becomes a
\* member only as the founder of an organization, by signing in to the single tenant, or by an
\* invitation to just that, which is never one that was cancelled.
THEOREM MembersWereInvited == Spec => JoinsOnlyByInvitation
<1>1. ASSUME Inv, Next PROVE JoinsByRule
  <2>1. ASSUME NEW c \in Clients, Team(c) PROVE JoinsByRule
    <3>1. CASE ChangeRole(c) \/ RemoveMember(c)
      BY <1>1, <3>1, ChangeRoleJoinsNobody
    <3>2. CASE ~(ChangeRole(c) \/ RemoveMember(c))
      <4>1. user' = user
        BY <2>1, <3>2 DEF Team, CheckMember, CheckRole, InsertInvite, CheckCancel, CheckRemoval,
              CheckPending, DeleteInvite
      <4> QED BY <4>1, SameUsersJoinNobody
    <3> QED BY <3>1, <3>2
  <2>2. ASSUME NEW c \in Clients, Entry(c) PROVE JoinsByRule
    <3>1. CASE JoinTenant(c)
      BY <1>1, <3>1, NoneAssumption, JoinTenantJoinsByRule
    <3>2. CASE \E o \in Orgs : SignUp(c, o)
      BY <1>1, <3>2, SignUpJoinsByRule
    <3>3. CASE Join(c)
      BY <1>1, <3>3, JoinJoinsByRule
    <3>4. CASE ~(JoinTenant(c) \/ (\E o \in Orgs : SignUp(c, o)) \/ Join(c))
      <4>1. user' = user
        BY <2>2, <3>4 DEF Entry, Admit, GoogleVerify, ReadInvite, ReadMember, CheckOnboarding,
              CompleteOnboarding, Refuse
      <4> QED BY <4>1, SameUsersJoinNobody
    <3> QED BY <3>1, <3>2, <3>3, <3>4
  <2>3. ASSUME (\E i \in Invites : Expire(i)) \/ (\E o \in Orgs : Seed(o)) \/ Restart
        PROVE  JoinsByRule
    BY <2>3, SameUsersJoinNobody DEF Expire, Seed, Restart, Configurations
  <2> QED BY <1>1, <2>1, <2>2, <2>3 DEF Next
<1>2. Inv /\ [Next]_vars => [JoinsByRule]_vars  BY <1>1
<1> QED BY <1>2, AlwaysInv, PTL DEF Spec, JoinsOnlyByInvitation

\* The session guard reads the caller's row for every request, so whoever changes a team may do
\* so at that moment or lost the right while that very request was handled.
THEOREM RevocationIsImmediate == Spec => RevokedAtOnce
<1>1. Inv => RevokedAtOnceStep
  <2> SUFFICES ASSUME Inv, NEW c \in Clients, Acts(c), <<req[c].org, req[c].by>> \notin req[c].missed
               PROVE  MayAct(c)
    BY DEF RevokedAtOnceStep
  <2>1. PICK q : q = req[c]  OBVIOUS
  <2>2. Shape(q) /\ Fresh(q)  BY <2>1, SoundRequests DEF Sound
  <2>3. q.at \in {"inviting", "cancelling", "changing", "removing"}  BY <2>1 DEF Acts
  <2>4. q.at \in Session  BY <2>3 DEF Session
  <2>5. user[q.org][q.by].status = "active" /\ user[q.org][q.by].role = q.held
    BY <2>1, <2>2, <2>4 DEF Fresh
  <2>6. /\ q.at \in {"inviting", "cancelling"} => q.held \in {"owner", "admin"}
        /\ q.at \in {"changing", "removing"} => q.held = "owner"
    BY <2>2 DEF Shape
  <2> QED BY <2>1, <2>3, <2>5, <2>6 DEF MayAct
<1>2. Inv /\ [Next]_vars => [RevokedAtOnceStep]_vars  BY <1>1
<1> QED BY <1>1, AlwaysInv, PTL DEF Spec, RevokedAtOnce

\* The checks before an insert or an onboarding are not in its transaction; a duplicate still
\* takes another request that writes in between.
THEOREM DuplicatesTakeARace == Spec => RacesExplainDuplicates
<1>1. Inv => RacesExplainStep
  <2> SUFFICES ASSUME Inv, NEW c \in Clients
               PROVE  /\ InvitesTwice(c) => <<req[c].org, req[c].person>> \in req[c].missed
                      /\ SignsUpTwice(c) => \E o \in Orgs : <<o, req[c].person>> \in req[c].missed
                      /\ OnboardsTwice(c) => <<req[c].org, None>> \in req[c].missed
    BY DEF RacesExplainStep
  <2>1. PICK q : q = req[c]  OBVIOUS
  <2>2. Fresh(q)  BY <2>1, SoundRequests DEF Sound
  <2>3. InvitesTwice(c) => <<q.org, q.person>> \in q.missed
    BY <2>1, <2>2 DEF InvitesTwice, Fresh, Open
  <2>4. SignsUpTwice(c) => \E o \in Orgs : <<o, q.person>> \in q.missed
    BY <2>1, <2>2 DEF SignsUpTwice, Fresh
  <2>5. OnboardsTwice(c) => <<q.org, None>> \in q.missed
    BY <2>1, <2>2 DEF OnboardsTwice, Fresh
  <2> QED BY <2>1, <2>3, <2>4, <2>5
<1>2. Inv /\ [Next]_vars => [RacesExplainStep]_vars  BY <1>1
<1> QED BY <1>1, AlwaysInv, PTL DEF Spec, RacesExplainDuplicates

=============================================================================
