------------------------------ MODULE Policies ------------------------------
(***************************************************************************)
(* Tool policies: the rules users and organisations write, their order,    *)
(* and the verdict of the gate.  An editor is one request; policies.create *)
(* and policies.update first list the rules and then put one, and other    *)
(* requests run between the two.  A pattern and a tool path are sequences  *)
(* of the segments between the dots.                                       *)
(***************************************************************************)
EXTENDS PolicyKeys

CONSTANTS
    Editor,          \* concurrent requests that edit rules
    NewRule,         \* what a request may ask for: [owner, pattern, action]
    Edit,            \* what an update may ask for: [pattern, action]
    Keep,            \* an Edit's field that is not given
    ToolPath,        \* tool paths
    Dynamic,         \* those of tools of a connection
    AsksByDefault,   \* those whose plugin says requiresApproval
    MaxClock,        \* bound: milliseconds that pass
    MaxEdits         \* bound: edits that begin

VARIABLES
    policies,        \* the stored rules
    approvals,       \* paths with a session approval
    editing,         \* each editor's put, worked out and not yet made
    clock,           \* unix_now_ms
    edits,           \* edits begun so far, for the bound only
    \* history, read by properties only
    promised,        \* [id, pattern, action] last acknowledged for an id
    raced,           \* ids put over something the editor had not read
    unsorted,        \* owners whose order was disturbed
    accepted         \* tools a user has approved for good

policyVars == <<policies, approvals, editing, clock, edits>>
policyHistory == <<promised, raced, unsorted, accepted>>
allPolicyVars == <<policyVars, policyHistory>>

PolicyAction == {"approve", "require_approval", "block"}
PolicyOwner == {"user", "org"}

Wild == "*"
AnyTool == <<Wild>>
NoPut == [kind |-> "none"]

RestrictionRank(action) ==
    CASE action = "approve" -> 1
      [] action = "require_approval" -> 2
      [] action = "block" -> 3

OuterRank(owner) == IF owner = "user" THEN 0 ELSE 1

IsWild(pattern) == pattern[Len(pattern)] = Wild

(* A segment "p*" stands for a partial wildcard. *)
IsValidPattern(pattern) ==
    \/ pattern = AnyTool
    \/ /\ pattern # <<>>
       /\ pattern[1] # Wild
       /\ \A i \in DOMAIN pattern : pattern[i] \notin {"", "p*"}

MatchPattern(pattern, path) ==
    \/ pattern = AnyTool
    \/ /\ \A i \in DOMAIN pattern :
            \/ i <= Len(path) /\ pattern[i] \in {Wild, path[i]}
            \/ i = Len(pattern) /\ pattern[i] = Wild
       /\ IsWild(pattern) \/ Len(pattern) = Len(path)

PatternSpecificity(pattern) ==
    IF pattern = AnyTool THEN 0
    ELSE IF IsWild(pattern) THEN 2 * (Len(pattern) - 1)
    ELSE 2 * Len(pattern) + 1

(* Ids are pol_<ms> and pol_persist_<ms>: digits sort before letters. *)
IdLess(a, b) ==
    \/ a.kind = "pol" /\ b.kind = "pol_persist"
    \/ a.kind = b.kind /\ a.ms < b.ms

ComparePolicyRow(a, b) ==
    \/ KeyLess(a.position, b.position)
    \/ a.position = b.position /\ IdLess(a.id, b.id)

Foremost(rows) == CHOOSE r \in rows : \A s \in rows \ {r} : ComparePolicyRow(r, s)
Hindmost(rows) == CHOOSE r \in rows : \A s \in rows \ {r} : ComparePolicyRow(s, r)

(* Faulty: a new rule goes behind all others. *)
NeighboursBehind(pattern, rows) ==
    [prev |-> IF rows = {} THEN NoKey ELSE Hindmost(rows).position, next |-> NoKey]

(* The neighbours a new rule of this pattern goes between. *)
Neighbours(pattern, rows) ==
    LET atMost == {r \in rows : PatternSpecificity(r.pattern) <= PatternSpecificity(pattern)}
        ahead == IF atMost = {} THEN rows
                 ELSE {r \in rows : ComparePolicyRow(r, Foremost(atMost))}
    IN [prev |-> IF ahead = {} THEN NoKey ELSE Hindmost(ahead).position,
        next |-> IF atMost = {} THEN NoKey ELSE Foremost(atMost).position]

PositionForNewPattern(pattern, rows) ==
    LET n == Neighbours(pattern, rows) IN GenerateKeyBetween(n.prev, n.next)

FirstByOwner(path, rows) ==
    {r \in rows : /\ MatchPattern(r.pattern, path)
                  /\ \A s \in rows : /\ s.owner = r.owner
                                     /\ MatchPattern(s.pattern, path)
                                     => s = r \/ ComparePolicyRow(r, s)}

(* Faulty: the first owner's match wins whatever the next one says. *)
InnermostWins(matches) ==
    CHOOSE m \in matches : \A n \in matches : OuterRank(m.owner) <= OuterRank(n.owner)

MoreRestrictive(matches) ==
    CHOOSE m \in matches : \A n \in matches :
        \/ RestrictionRank(n.action) < RestrictionRank(m.action)
        \/ /\ RestrictionRank(n.action) = RestrictionRank(m.action)
           /\ OuterRank(m.owner) <= OuterRank(n.owner)

EffectivePolicy(path, rows) ==
    LET matches == FirstByOwner(path, rows)
    IN IF matches # {} THEN MoreRestrictive(matches).action
       ELSE IF path \in AsksByDefault THEN "require_approval"
       ELSE "approve"

(* A dynamic tool's address, as pause_for_approval writes it.              *)
InvokePath(path) == IF path \in Dynamic THEN <<"tools">> \o path ELSE path

(* What resume passes to apply_persist is the path in the row it takes:    *)
(* the tool's cli path, which persist_outcome puts over the address; a     *)
(* resume between the two writes of a pause still finds the address.       *)
PausedPaths(path) == {path, InvokePath(path)}

(* Patterns and paths are dotted names; a field that is not given is none. *)
ASSUME PoliciesAssumption ==
    /\ \A r \in NewRule : /\ r.owner \in PolicyOwner /\ r.action \in PolicyAction
                          /\ r.pattern \in Seq(STRING) /\ r.pattern # Keep
    /\ \A u \in Edit : /\ u.pattern # Keep => u.pattern \in Seq(STRING)
                       /\ u.action # Keep => u.action \in PolicyAction
    /\ Keep \notin PolicyAction
    /\ \A path \in ToolPath : \A stored \in PausedPaths(path) :
            stored \in Seq(STRING) /\ stored # Keep

(* Faulty: only the address is looked up. *)
ApprovedByAddress(path) == InvokePath(path) \in approvals

SessionApproved(path) == path \in approvals \/ InvokePath(path) \in approvals

Verdict(path) ==
    LET action == EffectivePolicy(path, policies)
    IN CASE action = "block" -> "blocked"
         [] action = "require_approval" /\ ~SessionApproved(path) -> "paused"
         [] OTHER -> "runs"

-----------------------------------------------------------------------------
PoliciesInit ==
    /\ policies = {}
    /\ approvals = {}
    /\ editing = [e \in Editor |-> NoPut]
    /\ clock = 0
    /\ edits = 0
    /\ promised = {}
    /\ raced = {}
    /\ unsorted = {}
    /\ accepted = {}

RulesOf(owner, rows) == {r \in rows : r.owner = owner}

(* What an editor is about to put, with the rules it has read. *)
NewPut(kind, owner, pattern, action) ==
    LET rows == RulesOf(owner, policies) IN
    [kind |-> "create",
     row |-> [id |-> [kind |-> kind, ms |-> clock], owner |-> owner, pattern |-> pattern,
              action |-> action, position |-> PositionForNewPattern(pattern, rows)],
     edit |-> [pattern |-> pattern, action |-> action],
     seen |-> policies,
     between |-> Neighbours(pattern, rows)]

Begin(e) ==
    /\ editing[e] = NoPut
    /\ edits < MaxEdits
    /\ edits' = edits + 1

PoliciesCreate(e) == \E r \in NewRule :
    /\ Begin(e)
    /\ IsValidPattern(r.pattern)
    /\ editing' = [editing EXCEPT ![e] = NewPut("pol", r.owner, r.pattern, r.action)]
    /\ UNCHANGED <<policies, approvals, clock, policyHistory>>

(* Faulty: a field that is not given goes back to its default. *)
EditedAfresh(row, edit) ==
    [row EXCEPT !.pattern = IF edit.pattern = Keep THEN @ ELSE edit.pattern,
                !.action = IF edit.action = Keep THEN "approve" ELSE edit.action]

Edited(row, edit) ==
    [row EXCEPT !.pattern = IF edit.pattern = Keep THEN @ ELSE edit.pattern,
                !.action = IF edit.action = Keep THEN @ ELSE edit.action]

PoliciesUpdate(e) == \E row \in policies, edit \in Edit :
    /\ Begin(e)
    /\ edit.pattern # Keep => IsValidPattern(edit.pattern)
    /\ editing' = [editing EXCEPT ![e] =
            [kind |-> "update", row |-> Edited(row, edit), edit |-> edit, seen |-> policies]]
    /\ UNCHANGED <<policies, approvals, clock, policyHistory>>

(* resume with persist = always: the approval is stored, then the rule is  *)
(* created like any other, of the organisation.  It matches the tool, and  *)
(* goes ahead of the organisation's broader rules, if it is the cli path.  *)
PersistAlways(e) == \E path \in ToolPath : \E stored \in PausedPaths(path) :
    /\ Begin(e)
    /\ approvals' = approvals \cup {stored}
    /\ editing' = [editing EXCEPT ![e] = NewPut("pol_persist", "org", stored, "approve")]
    /\ accepted' = accepted \cup {path}
    /\ UNCHANGED <<policies, clock, promised, raced, unsorted>>

PersistSession == \E path \in ToolPath : \E stored \in PausedPaths(path) :
    /\ approvals' = approvals \cup {stored}
    /\ accepted' = accepted \cup {path}
    /\ UNCHANGED <<policies, editing, clock, edits, promised, raced, unsorted>>

WithId(id, rows) == {r \in rows : r.id = id}

(* The rules an edit did not read, or read otherwise than they are now. *)
Stale(put) == WithId(put.row.id, policies) # WithId(put.row.id, put.seen)

(* A second create within one millisecond. *)
Reuses(put) == put.kind = "create" /\ WithId(put.row.id, put.seen) # {}

Disturbs(put) ==
    \/ put.kind = "update" /\ (put.edit.pattern # Keep \/ Stale(put))
    \/ put.kind = "create" /\
         \/ ~(RulesOf(put.row.owner, policies) \subseteq put.seen)
         \/ ~StrictlyBetween(put.between.prev, put.row.position, put.between.next)

Promise(put) ==
    LET id == put.row.id
        old == {p \in promised : p.id = id}
        field(name) == IF put.edit[name] # Keep THEN {put.edit[name]}
                       ELSE {p[name] : p \in old}
    IN (promised \ old) \cup
       [id : {id}, pattern : field("pattern"), action : field("action")]

(* put_policy replaces the row of the same id. *)
PutPolicy(e) ==
    LET put == editing[e] IN
    /\ put # NoPut
    /\ policies' = (policies \ WithId(put.row.id, policies)) \cup {put.row}
    /\ editing' = [editing EXCEPT ![e] = NoPut]
    /\ promised' = Promise(put)
    /\ raced' = IF Stale(put) \/ Reuses(put)
                THEN raced \cup {put.row.id} ELSE raced
    /\ unsorted' = IF Disturbs(put) THEN unsorted \cup {put.row.owner} ELSE unsorted
    /\ UNCHANGED <<approvals, clock, edits, accepted>>

(* Faulty: clears the rules of the same pattern with it. *)
RemoveLike == \E row \in policies :
    /\ policies' = {r \in policies : r.pattern # row.pattern}
    /\ promised' = {p \in promised : p.id # row.id}
    /\ UNCHANGED <<approvals, editing, clock, edits, raced, unsorted, accepted>>

PoliciesRemove == \E row \in policies :
    /\ policies' = policies \ WithId(row.id, policies)
    /\ promised' = {p \in promised : p.id # row.id}
    /\ UNCHANGED <<approvals, editing, clock, edits, raced, unsorted, accepted>>

PoliciesTick ==
    /\ clock < MaxClock
    /\ clock' = clock + 1
    /\ UNCHANGED <<policies, approvals, editing, edits, policyHistory>>

PoliciesNext ==
    \/ \E e \in Editor : \/ PoliciesCreate(e) \/ PoliciesUpdate(e)
                         \/ PersistAlways(e) \/ PutPolicy(e)
    \/ PersistSession \/ PoliciesRemove \/ PoliciesTick

PoliciesSpec == PoliciesInit /\ [][PoliciesNext]_allPolicyVars
-----------------------------------------------------------------------------
(* An outer Block cannot be weakened inward (policy.rs, PolicyAction): no   *)
(* step that leaves the organisation's rules as they were makes a tool      *)
(* less restricted than those rules alone have it, whatever users write.    *)
OuterBlockStands ==
    [][\A path \in ToolPath :
         (/\ RulesOf("org", policies') = RulesOf("org", policies)
          /\ EffectivePolicy(path, RulesOf("org", policies)) = "block")
         => EffectivePolicy(path, policies') = "block"]_allPolicyVars

(* Rules of one owner take effect most specific first, the order           *)
(* position_for_new_pattern gives them: as long as no create worked from   *)
(* a stale list, no update changed a pattern and each key fell between its *)
(* neighbours, a tool's first match is the most specific one, whatever was *)
(* removed in between.                                                     *)
MostSpecificFirst ==
    \A r, s \in policies :
        /\ r.owner = s.owner /\ r.owner \notin unsorted
        /\ PatternSpecificity(r.pattern) > PatternSpecificity(s.pattern)
        => ComparePolicyRow(r, s)

(* What policies.create, update and remove acknowledged is what is stored, *)
(* field by field, unless two edits of one id overlapped or two creates    *)
(* fell into one millisecond: an update keeps the fields it was not given, *)
(* a removal takes nothing else along.                                     *)
AckedEditsStand ==
    {p \in promised : p.id \notin raced} =
    {[id |-> r.id, pattern |-> r.pattern, action |-> r.action] :
        r \in {q \in policies : q.id \notin raced}}

(* Edits of policies stand, and in the order of their patterns.            *)
EditsStandInOrder == MostSpecificFirst /\ AckedEditsStand

(* A user who accepted a tool for the session or for good is not asked     *)
(* again, whatever rules come later, at whichever of a pause's two writes  *)
(* the answer found it.                                                    *)
AcceptedIsNotAskedAgain ==
    \A path \in accepted : Verdict(path) # "paused"
=============================================================================
