-------------------------------- MODULE Search --------------------------------
(***************************************************************************)
(* tools.search: the rank of a tool for a query (executor-core/src/        *)
(* search.rs) and a client that reads the ranking page by page while the   *)
(* catalog changes.  A text is the sequence of its words; how the letters  *)
(* of two words relate is given by three relations.                        *)
(***************************************************************************)
EXTENDS Integers, SequencesExt, FiniteSetsExt

CONSTANTS
    Discoverable,    \* tools: [id, path, name, integration, description]
    Query,           \* [words, namespace]
    Starts, Ends,    \* <<a, b>>: the longer word b starts, ends with a
    Inside,          \* <<a, b>>: b has a somewhere
    PageSize,        \* the limit the client asks for
    MaxChanges       \* bound: changes of the catalog

ASSUME SearchAssumption ==
    /\ PageSize \in Nat /\ MaxChanges \in Nat
    /\ Starts \cup Ends \subseteq Inside

VARIABLES
    searchable,      \* the tools a search may find
    query,
    offset,          \* where the client goes on
    hits,            \* what it has read so far
    pages,           \* "new", "more", "all"
    changes,
    \* history, read by properties only
    moved            \* the catalog changed between two pages

searchVars == <<searchable, query, offset, hits, pages, changes, moved>>

SearchInit ==
    /\ searchable = Discoverable
    /\ query \in Query
    /\ offset = 0 /\ hits = <<>> /\ pages = "new"
    /\ changes = 0 /\ moved = FALSE

StartsWith(word, a) == word = a \/ <<a, word>> \in Starts
EndsWith(word, a) == word = a \/ <<a, word>> \in Ends
Has(word, a) == word = a \/ <<a, word>> \in Inside

(* The text has the phrase, beginning at its i-th word. *)
PhraseAt(text, phrase, i) ==
    LET n == Len(phrase) IN
    /\ i + n - 1 <= Len(text)
    /\ IF n = 1 THEN Has(text[i], phrase[1])
       ELSE /\ EndsWith(text[i], phrase[1])
            /\ StartsWith(text[i + n - 1], phrase[n])
            /\ \A k \in 2..(n - 1) : text[i + k - 1] = phrase[k]

(* The text begins with the phrase, letter by letter. *)
BeginsWith(text, phrase) ==
    /\ Len(phrase) <= Len(text)
    /\ \A k \in 1..(Len(phrase) - 1) : text[k] = phrase[k]
    /\ StartsWith(text[Len(phrase)], Last(phrase))

Phrase(text, phrase) == \E i \in DOMAIN text : PhraseAt(text, phrase, i)

WordPoints(text, word) ==
    IF \E i \in DOMAIN text : text[i] = word THEN 4
    ELSE IF \E i \in DOMAIN text : StartsWith(text[i], word) \/ StartsWith(word, text[i]) THEN 2
    ELSE IF \E i \in DOMAIN text : Has(text[i], word) THEN 1
    ELSE 0

ScoreField(words, text, weight) ==
    LET phrase == IF text = words THEN 14
                  ELSE IF BeginsWith(text, words) THEN 9
                  ELSE IF Phrase(text, words) THEN 6
                  ELSE 0
    IN [score |-> IF text = <<>> THEN 0
                  ELSE weight * (phrase + FoldFunction(+, 0,
                                    [k \in DOMAIN words |-> WordPoints(text, words[k])])),
        exact |-> text # <<>> /\ Phrase(text, words),
        matched |-> {w \in Range(words) : WordPoints(text, w) > 0}]

Fields(tool, words) ==
    {<<1, ScoreField(words, tool.path, 12)>>, <<2, ScoreField(words, tool.integration, 8)>>,
     <<3, ScoreField(words, tool.name, 10)>>, <<4, ScoreField(words, tool.description, 5)>>}

(* Faulty: a tool is a hit if it has any of the words. *)
MatchesAnyWord(tool, words) ==
    \E f \in Fields(tool, words) : f[2].matched # {}

Matched(tool, words) == UNION {f[2].matched : f \in Fields(tool, words)}

(* Every word of a query of two, three of five of a longer one, or the     *)
(* phrase.  A word said twice counts twice below and once above.           *)
MatchesQuery(tool, words) ==
    /\ Matched(tool, words) # {}
    /\ \/ \E f \in Fields(tool, words) : f[2].exact
       \/ IF Len(words) <= 2 THEN Cardinality(Matched(tool, words)) = Len(words)
          ELSE 5 * Cardinality(Matched(tool, words)) >= 3 * Len(words)

(* Tenths of the words, rounded half up. *)
CoverageBonus(tool, words) ==
    LET m == Cardinality(Matched(tool, words))
    IN IF m = Len(words) THEN 25 ELSE (20 * m + Len(words)) \div (2 * Len(words))

ScoreToolMatch(tool, words) ==
    MapThenSumSet(LAMBDA f : f[2].score, Fields(tool, words))
    + CoverageBonus(tool, words)
    + (IF words[1] \in {tool.path[1], tool.name[1]} THEN 8 ELSE 0)
    + (IF words \in {tool.path, tool.name} THEN 20 ELSE 0)

IsPrefixMatch(text, prefix) == IsPrefix(prefix, text)

MatchesNamespace(tool, ns) ==
    IsPrefixMatch(tool.integration, ns) \/ IsPrefixMatch(tool.path, ns)

(* Without words a search lists a namespace, and without both, nothing.    *)
Found(q, tools) ==
    IF q.words = <<>>
    THEN {t \in tools : q.namespace # <<>> /\ t.integration = q.namespace}
    ELSE {t \in tools : MatchesNamespace(t, q.namespace) /\ MatchesQuery(t, q.words)}

Score(q, tool) == IF q.words = <<>> THEN 0 ELSE ScoreToolMatch(tool, q.words)

(* Ids are in the order of the paths. *)
SearchTools(q, tools) ==
    SetToSortSeq(Found(q, tools),
                 LAMBDA a, b : \/ Score(q, a) > Score(q, b)
                               \/ Score(q, a) = Score(q, b) /\ a.id < b.id)

(* No page is empty, none has more than a hundred tools. *)
Limit == IF PageSize < 1 THEN 1 ELSE IF PageSize > 100 THEN 100 ELSE PageSize

Paginate(items, from) ==
    LET page == SubSeq(items, from + 1, IF from + Limit <= Len(items) THEN from + Limit
                                        ELSE Len(items))
    IN [page |-> page, hasMore |-> from + Len(page) < Len(items),
        nextOffset |-> from + Len(page)]

-----------------------------------------------------------------------------
(* search_ranked: each page is cut from a ranking of its own. *)
SearchRanked ==
    LET p == Paginate(SearchTools(query, searchable), offset) IN
    /\ pages # "all"
    /\ hits' = hits \o p.page
    /\ pages' = IF p.hasMore THEN "more" ELSE "all"
    /\ offset' = p.nextOffset
    /\ UNCHANGED <<searchable, query, changes, moved>>

(* A refresh, or a rule that blocks a tool, takes tools away or adds them. *)
CatalogChanges == \E tools \in SUBSET Discoverable :
    /\ pages # "all"
    /\ changes < MaxChanges /\ tools # searchable
    /\ searchable' = tools
    /\ changes' = changes + 1
    /\ moved' = (moved \/ pages # "new")
    /\ UNCHANGED <<query, offset, hits, pages>>

SearchNext == SearchRanked \/ CatalogChanges
SearchSpec == SearchInit /\ [][SearchNext]_searchVars
-----------------------------------------------------------------------------
Repeats(words) == \E i, j \in DOMAIN words : i # j /\ words[i] = words[j]

(* A word of the query stands in one of the tool's texts. *)
Mentions(tool, word) ==
    \E text \in {tool.path, tool.integration, tool.name, tool.description} :
        word \in Range(text)

(* A client that reads to the end has every tool that mentions all its     *)
(* words, each once and best first (search.rs, search_tools): provided     *)
(* that no word is said twice and that the catalog did not change between  *)
(* two pages.  No page is past the end in any case.                        *)
PagesAreTheRanking ==
    /\ offset = Len(hits) /\ (pages = "more" => hits # <<>>)
    /\ ~moved => IsPrefix(hits, SearchTools(query, searchable))
    /\ ~moved /\ pages = "all" /\ query.words # <<>> /\ ~Repeats(query.words) =>
         \A t \in searchable :
             /\ MatchesNamespace(t, query.namespace)
             /\ \A w \in Range(query.words) : Mentions(t, w)
             => t \in Range(hits)
    /\ ~moved => \A i, j \in DOMAIN hits : i < j =>
         hits[i] # hits[j] /\ Score(query, hits[i]) >= Score(query, hits[j])
    /\ ~moved /\ Len(query.words) \in {1, 2} => \A i \in DOMAIN hits : \A w \in Range(query.words) :
         \E text \in {hits[i].path, hits[i].integration, hits[i].name, hits[i].description} :
             \E k \in DOMAIN text : Has(text[k], w) \/ StartsWith(w, text[k])
=============================================================================
