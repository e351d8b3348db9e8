---------------------------- MODULE TypeStripping ----------------------------
(***************************************************************************)
(* strip_typescript: the pass that takes TypeScript's types out of a       *)
(* script before QuickJS reads it.  It works on characters and knows no    *)
(* grammar; here a script is a sequence of lexemes, white space left out.  *)
(* A script is put together from statements in which it is known what is   *)
(* a type.                                                                 *)
(***************************************************************************)
EXTENDS Integers, SequencesExt, FiniteSetsExt

CONSTANTS
    Regular,         \* statements the pass is made for, sequences of [lexeme, type];
                     \* type: it is part of a type
    Word,            \* lexemes that are words or numbers
    Quoted,          \* lexemes that are strings
    MaxStatements    \* bound: statements of a script

ASSUME LexemesAssumption ==
    /\ {"as", "satisfies", "type", "interface", "typeof"} \subseteq Word
    /\ MaxStatements \in Nat

VARIABLES
    statements,      \* the script
    stripped,        \* what is left of it: lexemes, or Unclosed
    isStripped

stripVars == <<statements, stripped, isStripped>>

Unclosed == <<"unclosed">>
StripInit == statements = <<>> /\ stripped = <<>> /\ isStripped = FALSE
-----------------------------------------------------------------------------
(* prev_code: the lexeme before the i-th; a comment hides what is before   *)
(* it, and so does a string.                                               *)
At(s, i) == IF i \in DOMAIN s THEN s[i] ELSE "end"
PrevIn(s, i, others) == At(s, i - 1) \in Word \cup others

(* skip_balanced: past the bracket that closes the one at i.  Only this    *)
(* kind counts, and "=>" closes a "<".  0: it is never closed.             *)
ClosedBy(open) ==
    CASE open = "{" -> {"}"} [] open = "[" -> {"]"} [] open = "(" -> {")"}
      [] open = "<" -> {">", "=>"}
After(ends) == IF ends = {} THEN 0 ELSE Min(ends) + 1
SkipBalanced(s, i, open) ==
    LET count(j, set) == Cardinality({k \in i..j : s[k] \in set})
    IN IF At(s, i) # open THEN 0
       ELSE After({j \in i..Len(s) : count(j, {open}) = count(j, ClosedBy(open))})
AfterTypeArgs(s, i) == IF At(s, i) = "<" THEN SkipBalanced(s, i, "<") ELSE i

(* Past a name with its dots. *)
SkipName(s, i) ==
    LET stops == {j \in (i + 1)..(Len(s) + 1) :
                    ~ \/ At(s, j) = "." \/ (At(s, j) \in Word /\ At(s, j - 1) = ".")}
    IN Min(stops)

(* Past a type: its first part, what is after an arrow, a list's brackets, *)
(* and the other members of a union.  0: a bracket in it is never closed.  *)
SkipType(s, start) ==
    LET first(i) ==
            CASE At(s, i) \in {"{", "[", "(", "<"} -> SkipBalanced(s, i, At(s, i))
              [] At(s, i) \in Quoted -> i + 1
              [] At(s, i) \in Word -> AfterTypeArgs(s, SkipName(s, i))
              [] OTHER -> i
        list(i) == IF At(s, i) = "[" /\ At(s, i + 1) = "]" THEN i + 2 ELSE i
        skip[i \in 1..(Len(s) + 2)] ==
            LET from == IF At(s, i) = "typeof" THEN i + 1 ELSE i
                arrow(j) == IF At(s, from) = "(" /\ At(s, j) = "=>" THEN skip[j + 1] ELSE j
                union(j) == IF At(s, j) \in {"|", "&"} THEN skip[j + 1] ELSE j
            IN IF i > Len(s) THEN i ELSE union(list(arrow(first(from))))
    IN skip[start]

-----------------------------------------------------------------------------
(* What stands at i is taken for a type: where it ends.                    *)
IsDeclStart(s, i) == At(s, i - 1) \in {"end", ";", "{", "}", "("}

SkipDeclaration(s, i) ==
    LET body == AfterTypeArgs(s, IF At(s, i + 1) \in Word THEN i + 2 ELSE i + 1)
    IN SkipBalanced(s, body, "{")

LooksLikeTypeAlias(s, i) == At(s, i + 1) \in Word /\ At(s, i + 2) \in {"=", "<"}
SkipTypeAlias(s, i) ==
    LET equals == AfterTypeArgs(s, i + 2)
        semicolon(end) == IF At(s, end) = ";" THEN end + 1 ELSE end
    IN IF At(s, equals) = "=" THEN semicolon(SkipType(s, equals + 1)) ELSE 0

IsTypeOperator(s, i) ==
    PrevIn(s, i, {")", "]", ">", "=>", "?"}) /\ At(s, i + 1) \in Word \cup {"{", "("}

(* Faulty: only the first key of an object is a key. *)
IsFirstPropColon(s, i) == At(s, i - 1) \in Word \cup Quoted /\ At(s, i - 2) = "{"

IsObjectPropColon(s, i) == At(s, i - 1) \in Word \cup Quoted /\ At(s, i - 2) \in {"{", ","}

LooksLikeCallGeneric(s, i) ==
    PrevIn(s, i, {}) /\ At(s, SkipBalanced(s, i, "<")) = "("

(* i: it is no type; 0: it is one that does not end. *)
SkipAt(s, i) ==
    CASE s[i] = "interface" /\ IsDeclStart(s, i) -> SkipDeclaration(s, i)
      [] s[i] = "type" /\ IsDeclStart(s, i) /\ LooksLikeTypeAlias(s, i) -> SkipTypeAlias(s, i)
      [] s[i] \in {"as", "satisfies"} /\ IsTypeOperator(s, i) -> SkipType(s, i + 1)
      [] s[i] = ":" /\ ~IsObjectPropColon(s, i) /\ PrevIn(s, i, {")", "?", "]"}) -> SkipType(s, i + 1)
      [] s[i] = "<" /\ LooksLikeCallGeneric(s, i) -> SkipBalanced(s, i, "<")
      [] OTHER -> i

LooksLikeBareAssignment(s) == At(s, 1) \in {"const", "let", "var"} /\ At(s, 2) = "="

StripTypescript(s) ==
    LET rest[i \in 1..(Len(s) + 1)] ==
            LET from(next) ==
                    CASE next = 0 -> Unclosed
                      [] next > i -> rest[next]
                      [] OTHER -> <<s[i]>> \o rest[i + 1]
            IN IF i > Len(s) THEN <<>> ELSE from(SkipAt(s, i))
        whole(left) == IF IsSuffix(Unclosed, left) THEN Unclosed ELSE left
    IN IF LooksLikeBareAssignment(s) THEN Unclosed ELSE whole(rest[1])
-----------------------------------------------------------------------------
Script == FlattenSeq(statements)
Lexemes(script) == [i \in DOMAIN script |-> script[i].lexeme]

WriteStatement == \E statement \in Regular :
    /\ ~isStripped /\ Len(statements) < MaxStatements
    /\ statements' = Append(statements, statement)
    /\ UNCHANGED <<stripped, isStripped>>

Strip ==
    /\ ~isStripped
    /\ stripped' = StripTypescript(Lexemes(Script))
    /\ isStripped' = TRUE
    /\ UNCHANGED statements

StripNext == WriteStatement \/ Strip
StripSpec == StripInit /\ [][StripNext]_stripVars
-----------------------------------------------------------------------------
WithoutTypes == SelectSeq(Script, LAMBDA l : ~l.type)

(* Types are taken out and nothing else is (strip.rs:3-5), in scripts of   *)
(* statements the pass is made for: annotations of variables, of first     *)
(* parameters and of results, casts, type arguments of calls, interfaces   *)
(* and aliases, among objects, texts, comments and comparisons.            *)
TypesAreErased == isStripped => stripped = Lexemes(WithoutTypes)
=============================================================================
