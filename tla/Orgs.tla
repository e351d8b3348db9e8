--------------------------------- MODULE Orgs ---------------------------------
(***************************************************************************)
(* Teams, their members and invites (executor-host/src/orgs.rs).  Every    *)
(* request works through single operations on the key-value store, each of *)
(* which may fail and end the request; other requests run in between.  All *)
(* teams belong to the local subject.                                      *)
(***************************************************************************)
EXTENDS Integers, FiniteSets

CONSTANTS
    OrgRequest,      \* requests under way
    Team, LocalTeam,
    Person, LocalSubject,
    Role,
    MaxOwnedOrgs,    \* (10)
    MaxOrgRequests   \* bound: requests made, and so codes handed out

ASSUME OrgsAssumption ==
    /\ LocalTeam \in Team /\ LocalSubject \in Person /\ "owner" \in Role
    /\ MaxOwnedOrgs \in Nat \ {0} /\ MaxOrgRequests \in Nat
    /\ IsFiniteSet(OrgRequest)

VARIABLES
    teams,           \* slugs in the store
    memberships,     \* [org, subject, role], one of an org and a subject
    invites,         \* [code, org, email, role]
    handling,        \* each request: [op, stage, row]
    made,            \* requests so far
    \* history, read by properties only
    crowded,         \* two requests were between their count and their put
    unfinished,      \* teams whose owner's membership was not put
    conferred        \* invites that were ever handed out

orgVars == <<teams, memberships, invites, handling, made, crowded, unfinished, conferred>>

NoRow == [code |-> 0, org |-> LocalTeam, email |-> LocalSubject, role |-> "owner"]
Served == [op |-> "none", stage |-> "idle", row |-> NoRow]

OrgsInit ==
    /\ teams = {} /\ memberships = {} /\ invites = {}
    /\ handling = [r \in OrgRequest |-> Served]
    /\ made = 0
    /\ crowded = FALSE /\ unfinished = {} /\ conferred = {}

At(r, op, stage) == handling[r].op = op /\ handling[r].stage = stage
GoesTo(r, stage) == handling' = [handling EXCEPT ![r].stage = stage]
Answers(r) == handling' = [handling EXCEPT ![r] = Served]

(* put_kv of "<org>:<subject>". *)
PutMembership(org, subject, role) ==
    memberships' = {m \in memberships : m.org # org \/ m.subject # subject}
                   \cup {[org |-> org, subject |-> subject, role |-> role]}
-----------------------------------------------------------------------------
(* What a request asks for.  A new invite's code is random, here the       *)
(* number of its request; a join names a code that was ever handed out or  *)
(* one that was not.                                                       *)
OrgRequestComes(r) ==
    /\ handling[r] = Served
    /\ made < MaxOrgRequests
    /\ \E op \in {"create", "invite", "join", "list"}, org \in Team,
          email \in Person, role \in Role, code \in 0..made :
        /\ op # "invite" => email = LocalSubject /\ role = "owner"
        /\ op \in {"join", "list"} => org = LocalTeam
        /\ op = "join" <=> code # 0
        /\ handling' = [handling EXCEPT ![r] =
              [op |-> op, stage |-> "local",
               row |-> [code |-> IF op = "invite" THEN made + 1 ELSE code,
                        org |-> org, email |-> email, role |-> role]]]
    /\ made' = made + 1
    /\ UNCHANGED <<teams, memberships, invites, crowded, unfinished, conferred>>

(* ensure_local, at the head of every handler. *)
EnsureLocal(r) ==
    /\ handling[r].stage = "local"
    /\ IF LocalTeam \in teams
       THEN IF handling[r].op = "list" THEN Answers(r) ELSE GoesTo(r, "look up")
       ELSE GoesTo(r, "put local")
    /\ UNCHANGED <<teams, memberships, invites, made, crowded, unfinished, conferred>>

PutLocal(r) ==
    /\ handling[r].stage = "put local"
    /\ teams' = teams \cup {LocalTeam}
    /\ GoesTo(r, "put local owner")
    /\ UNCHANGED <<memberships, invites, made, crowded, unfinished, conferred>>

PutLocalOwner(r) ==
    /\ handling[r].stage = "put local owner"
    /\ PutMembership(LocalTeam, LocalSubject, "owner")
    /\ IF handling[r].op = "list" THEN Answers(r) ELSE GoesTo(r, "look up")
    /\ UNCHANGED <<teams, invites, made, crowded, unfinished, conferred>>

(* create_org: 409 for a slug that is there. *)
LookUpSlug(r) ==
    /\ At(r, "create", "look up")
    /\ IF handling[r].row.org \in teams THEN Answers(r) ELSE GoesTo(r, "count")
    /\ UNCHANGED <<teams, memberships, invites, made, crowded, unfinished, conferred>>

(* Faulty: one team too many. *)
CountOneMore(r) ==
    /\ At(r, "create", "count")
    /\ IF Cardinality(teams) > MaxOwnedOrgs
       THEN Answers(r) /\ UNCHANGED crowded
       ELSE /\ GoesTo(r, "put team")
            /\ crowded' = (crowded \/ \E s \in OrgRequest : At(s, "create", "put team"))
    /\ UNCHANGED <<teams, memberships, invites, made, unfinished, conferred>>

CountOwned(r) ==
    /\ At(r, "create", "count")
    /\ IF Cardinality(teams) >= MaxOwnedOrgs
       THEN Answers(r) /\ UNCHANGED crowded
       ELSE /\ GoesTo(r, "put team")
            /\ crowded' = (crowded \/ \E s \in OrgRequest : At(s, "create", "put team"))
    /\ UNCHANGED <<teams, memberships, invites, made, unfinished, conferred>>

PutTeam(r) ==
    /\ At(r, "create", "put team")
    /\ teams' = teams \cup {handling[r].row.org}
    /\ GoesTo(r, "put owner")
    /\ UNCHANGED <<memberships, invites, made, crowded, unfinished, conferred>>

PutOwner(r) ==
    /\ At(r, "create", "put owner")
    /\ PutMembership(handling[r].row.org, LocalSubject, "owner")
    /\ Answers(r)
    /\ UNCHANGED <<teams, invites, made, crowded, unfinished, conferred>>

(* invite_member. *)
LookUpTeam(r) ==
    /\ At(r, "invite", "look up")
    /\ IF handling[r].row.org \in teams THEN GoesTo(r, "put invite") ELSE Answers(r)
    /\ UNCHANGED <<teams, memberships, invites, made, crowded, unfinished, conferred>>

PutInvite(r) ==
    LET row == handling[r].row IN
    /\ At(r, "invite", "put invite")
    /\ invites' = {i \in invites : i.code # row.code} \cup {row}
    /\ conferred' = conferred \cup {row}
    /\ Answers(r)
    /\ UNCHANGED <<teams, memberships, made, crowded, unfinished>>

(* join_org: whoever has the code joins as the e-mail of the invite. *)
LookUpInvite(r) ==
    /\ At(r, "join", "look up")
    /\ \/ /\ ~\E i \in invites : i.code = handling[r].row.code
          /\ Answers(r)
       \/ \E i \in invites :
             /\ i.code = handling[r].row.code
             /\ handling' = [handling EXCEPT ![r] = [@ EXCEPT !.stage = "put member", !.row = i]]
    /\ UNCHANGED <<teams, memberships, invites, made, crowded, unfinished, conferred>>

(* Faulty: every new member may do what an owner may. *)
JoinAsOwner(r) ==
    LET row == handling[r].row IN
    /\ At(r, "join", "put member")
    /\ PutMembership(row.org, row.email, "owner")
    /\ GoesTo(r, "delete invite")
    /\ UNCHANGED <<teams, invites, made, crowded, unfinished, conferred>>

PutMember(r) ==
    LET row == handling[r].row IN
    /\ At(r, "join", "put member")
    /\ PutMembership(row.org, row.email, row.role)
    /\ GoesTo(r, "delete invite")
    /\ UNCHANGED <<teams, invites, made, crowded, unfinished, conferred>>

(* An error of this one operation is ignored, and the invite stays. *)
DeleteInvite(r) ==
    /\ At(r, "join", "delete invite")
    /\ \/ invites' = {i \in invites : i.code # handling[r].row.code}
       \/ UNCHANGED invites
    /\ Answers(r)
    /\ UNCHANGED <<teams, memberships, made, crowded, unfinished, conferred>>

(* A store operation fails, or the host dies. *)
OrgRequestFails(r) ==
    /\ handling[r] # Served
    /\ Answers(r)
    /\ unfinished' = CASE handling[r].stage = "put local owner" -> unfinished \cup {LocalTeam}
                       [] handling[r].stage = "put owner" -> unfinished \cup {handling[r].row.org}
                       [] OTHER -> unfinished
    /\ UNCHANGED <<teams, memberships, invites, made, crowded, conferred>>

OrgsNext == \E r \in OrgRequest :
    \/ OrgRequestComes(r) \/ EnsureLocal(r) \/ PutLocal(r) \/ PutLocalOwner(r)
    \/ LookUpSlug(r) \/ CountOwned(r) \/ PutTeam(r) \/ PutOwner(r)
    \/ LookUpTeam(r) \/ PutInvite(r)
    \/ LookUpInvite(r) \/ PutMember(r) \/ DeleteInvite(r)
    \/ OrgRequestFails(r)

OrgsSpec == OrgsInit /\ [][OrgsNext]_orgVars
-----------------------------------------------------------------------------
(* The limit of teams one subject owns (orgs.rs, MAX_OWNED_ORGS): the      *)
(* count and the put are two operations, so requests that run together     *)
(* overshoot it, each by one; a lone one never does.                       *)
TeamsKeepTheirLimit ==
    /\ Cardinality(teams) <= MaxOwnedOrgs + Cardinality(OrgRequest) - 1
    /\ ~crowded => Cardinality(teams) <= MaxOwnedOrgs

OwnerOf(org) == {m \in memberships : m.org = org /\ m.subject = LocalSubject}

BetweenPuts(org) == \E r \in OrgRequest :
    \/ At(r, "create", "put owner") /\ handling[r].row.org = org
    \/ handling[r].stage = "put local owner" /\ org = LocalTeam

(* Every team has its owner among its members, unless the request that     *)
(* made it was cut between the two puts, or still is between them: no      *)
(* later request repairs it.  The owner has another role only by an        *)
(* invite, and so has everybody else the role of an invite to a team that  *)
(* exists.  And the limit of owned teams is kept.                          *)
TeamsAreKept ==
    /\ TeamsKeepTheirLimit
    /\ \A org \in teams \ unfinished : OwnerOf(org) # {} \/ BetweenPuts(org)
    /\ \A m \in memberships :
          /\ m.org \in teams
          /\ \/ m.subject = LocalSubject /\ m.role = "owner"
             \/ \E i \in conferred : i.org = m.org /\ i.email = m.subject /\ i.role = m.role
=============================================================================
