------------------------------ MODULE Documents ------------------------------
(***************************************************************************)
(* Documents kept under a key: put_kv and delete_kv of the two stores, the *)
(* SQL tables in which SQLite repeats clients, sessions and subjects, and  *)
(* the arena's votes, which are read, counted and written back.  Pooled    *)
(* connections let the statements of two requests alternate.               *)
(***************************************************************************)
EXTENDS Integers

CONSTANTS
    Writer,          \* requests in flight
    Body,            \* what a document may say
    Candidate,        \* what may win a vote
    NoDocument,
    MaxVotes         \* bound: votes that are counted

VARIABLES
    store,           \* "memory" or "sqlite"
    document,        \* one client, session or subject in the table kv
    mirror,          \* its row in the table of its own
    votes,           \* the votes for one capability: [winner_id, count]
    writing,         \* per request: what is to follow its first statement
    \* history, read by properties only
    cast,            \* the votes that were acknowledged, counted
    apart,           \* requests that overlapped with another of their kind
    spoiled        \* kinds that a race, a failure or a crash has left so

documentVars == <<store, document, mirror, votes, writing, cast, apart, spoiled>>

Resting == [kind |-> "idle"]
NoVotes == [winner_id |-> NoDocument, count |-> 0]

DocumentsInit ==
    /\ store \in {"memory", "sqlite"}
    /\ document = NoDocument /\ mirror = NoDocument
    /\ votes = NoVotes /\ cast = NoVotes
    /\ writing = [w \in Writer |-> Resting]
    /\ apart = {} /\ spoiled = {}

Others(w, kind) == {u \in Writer \ {w} : writing[u].kind = kind}

(* A request has its second half to do; others may be in theirs.           *)
Proceed(w, next) ==
    LET others == Others(w, next.kind) IN
    /\ writing' = [writing EXCEPT ![w] = next]
    /\ apart' = IF others = {} THEN apart \ {w} ELSE apart \cup {w} \cup others

Overlaps(w, kind) == IF Others(w, kind) = {} THEN {} ELSE {kind}

End(w) == writing' = [writing EXCEPT ![w] = Resting] /\ apart' = apart \ {w}
-----------------------------------------------------------------------------
MemoryPut(b) ==
    /\ store = "memory"
    /\ document' = b
    /\ UNCHANGED <<store, mirror, votes, writing, cast, apart, spoiled>>

MemoryDelete ==
    /\ store = "memory"
    /\ document' = NoDocument
    /\ UNCHANGED <<store, mirror, votes, writing, cast, apart, spoiled>>

(* The first of the two statements, *)
PutKv(w, b) ==
    /\ store = "sqlite" /\ writing[w] = Resting
    /\ document' = b
    /\ Proceed(w, [kind |-> "mirror", row |-> b])
    /\ spoiled' = spoiled \cup Overlaps(w, "mirror")
    /\ UNCHANGED <<store, mirror, votes, cast>>

DeleteKv(w) ==
    /\ store = "sqlite" /\ writing[w] = Resting
    /\ document' = NoDocument
    /\ Proceed(w, [kind |-> "mirror", row |-> NoDocument])
    /\ spoiled' = spoiled \cup Overlaps(w, "mirror")
    /\ UNCHANGED <<store, mirror, votes, cast>>

Mirrored(w) ==
    /\ End(w)
    /\ spoiled' = IF w \in apart THEN spoiled ELSE spoiled \ {"mirror"}
    /\ UNCHANGED <<store, document, votes, cast>>

(* Faulty: a row that is there stays as it is. *)
DualInsert(w) ==
    /\ writing[w].kind = "mirror" /\ writing[w].row # NoDocument
    /\ mirror' = IF mirror = NoDocument THEN writing[w].row ELSE mirror
    /\ Mirrored(w)

(* and the second. *)
DualWrite(w) ==
    /\ writing[w].kind = "mirror" /\ writing[w].row # NoDocument
    /\ mirror' = writing[w].row
    /\ Mirrored(w)

DualDelete(w) ==
    /\ writing[w].kind = "mirror" /\ writing[w].row = NoDocument
    /\ mirror' = NoDocument
    /\ Mirrored(w)

(* The database is busy for more than five seconds: the caller is told of  *)
(* an error, and the document stays as the first statement has it.         *)
DualFails(w) ==
    /\ writing[w].kind = "mirror"
    /\ End(w)
    /\ spoiled' = spoiled \cup {"mirror"}
    /\ UNCHANGED <<store, document, mirror, votes, cast>>
-----------------------------------------------------------------------------
(* A vote for the present winner adds one, any other starts over.          *)
Counted(row, e) ==
    [winner_id |-> e, count |-> IF row.winner_id = e THEN row.count + 1 ELSE 1]

(* arena_vote takes a row that it cannot read for none. *)
ReadVotes(w) == \E e \in Candidate, read \in BOOLEAN :
    LET seen == IF read THEN votes ELSE NoVotes
        lost == IF read THEN {} ELSE {"vote"}
    IN /\ writing[w] = Resting
       /\ ~read => store = "sqlite"
       /\ Counted(votes, e).count <= MaxVotes /\ Counted(cast, e).count <= MaxVotes
       /\ Proceed(w, [kind |-> "vote", row |-> Counted(seen, e)])
       /\ spoiled' = spoiled \cup Overlaps(w, "vote") \cup lost
       /\ UNCHANGED <<store, document, mirror, votes, cast>>

(* A lone vote for a new winner is right whatever came before. *)
WriteVotes(w) ==
    LET row == writing[w].row IN
    /\ writing[w].kind = "vote"
    /\ votes' = row
    /\ cast' = Counted(cast, row.winner_id)
    /\ End(w)
    /\ spoiled' = IF w \notin apart /\ row.winner_id \notin {votes.winner_id, cast.winner_id}
                    THEN spoiled \ {"vote"} ELSE spoiled
    /\ UNCHANGED <<store, document, mirror>>

VoteFails(w) ==
    /\ writing[w].kind = "vote" /\ store = "sqlite"
    /\ End(w)
    /\ UNCHANGED <<store, document, mirror, votes, cast, spoiled>>

(* SQLite keeps the statements that were executed. *)
DocumentsCrash ==
    /\ IF store = "sqlite"
         THEN /\ spoiled' = IF \E w \in Writer : writing[w].kind = "mirror"
                              THEN spoiled \cup {"mirror"} ELSE spoiled
              /\ UNCHANGED <<document, mirror, votes, cast>>
         ELSE /\ document' = NoDocument /\ mirror' = NoDocument
              /\ votes' = NoVotes /\ cast' = NoVotes /\ spoiled' = {}
    /\ writing' = [w \in Writer |-> Resting] /\ apart' = {}
    /\ UNCHANGED store

DocumentsNext ==
    \/ \E b \in Body : MemoryPut(b)
    \/ MemoryDelete
    \/ \E w \in Writer :
         \/ \E b \in Body : PutKv(w, b)
         \/ DeleteKv(w) \/ DualWrite(w) \/ DualDelete(w) \/ DualFails(w)
         \/ ReadVotes(w) \/ WriteVotes(w) \/ VoteFails(w)
    \/ DocumentsCrash

DocumentsSpec == DocumentsInit /\ [][DocumentsNext]_documentVars
-----------------------------------------------------------------------------
Kept(kind) == kind \notin spoiled /\ \A w \in Writer : writing[w].kind # kind

(* When its writers are done, the row that repeats a document says what    *)
(* the document says, and a vote that was acknowledged is counted: unless  *)
(* two writers of the same thing overlapped, a second statement failed or  *)
(* the process ended between the two (storage lib.rs, put_kv; catalog_api, *)
(* arena_vote).  The next lone write repairs the row.                      *)
UndisturbedEditsStand ==
    /\ store = "sqlite" /\ Kept("mirror") => mirror = document
    /\ Kept("vote") => votes = cast
=============================================================================
