------------------------------ MODULE MCInputs ------------------------------
(* What people and models type: the call command and its help, and the     *)
(* ways of a script to a kernel.  Each behaviour is about one of them.     *)
EXTENDS CallCommand, CodeRecovery, TypeStripping, ScriptSubset

VARIABLE input

inputVars == <<input, callVars, recoveryVars, stripVars, subsetVars>>

InputsInit ==
    /\ input \in {"command", "reply", "types", "statements"}
    /\ CallInit /\ RecoveryInit /\ StripInit /\ SubsetInit

About(i, next) == input = i /\ next /\ UNCHANGED input

InputsNext ==
    \/ About("command", CallNext) /\ UNCHANGED <<recoveryVars, stripVars, subsetVars>>
    \/ About("reply", RecoveryNext) /\ UNCHANGED <<callVars, stripVars, subsetVars>>
    \/ About("types", StripNext) /\ UNCHANGED <<callVars, recoveryVars, subsetVars>>
    \/ About("statements", SubsetNext) /\ UNCHANGED <<callVars, recoveryVars, stripVars>>

InputsSpec == InputsInit /\ [][InputsNext]_inputVars
-----------------------------------------------------------------------------
(* A built-in tool, and tools of connections: one whose name begins like   *)
(* another's, one with an empty segment and one that cannot be typed.      *)
MCBuiltIn == {<<"executor", "graphql", "addIntegration">>}
MCInstallable == {
    <<"github", "org", "work", "issues">>, <<"github", "org", "work", "issues", "create">>,
    <<"github", "user", "home", "pulls", "", "list">>, <<"github", "user", "home", "say!">> }
MCHelpWords == {
    <<>>, <<<<"github">>>>, <<<<"tools", "github">>>>, <<<<"github">>, <<"org">>, <<"typo">>>>,
    <<<<"github">>, <<"org">>, <<"work">>>>, <<<<"executor", "org", "core", "executor", "graphql">>>> }
MCCallWords == {
    <<>>, <<<<"github", "org">>, <<"work">>>>, <<<<"github">>, <<"org">>, <<"work">>, <<"issues">>>>,
    <<<<"tools", "github", "org", "work", "issues">>>>, <<<<"people", "find">>>>, <<<<"github">>, <<"-v">>>>,
    <<<<"executor", "graphql">>, <<"addIntegration">>>> }
MCPricedId == {<<"people", "find">>}

(* Statements, written as alternating pieces of code and of types.         *)
Statement_(pieces) ==
    FlattenSeq([i \in DOMAIN pieces |->
        [j \in DOMAIN pieces[i] |-> [lexeme |-> pieces[i][j], type |-> i % 2 = 0]]])

MCQuoted == {"'a'"}
MCWord == {"as", "satisfies", "type", "interface", "typeof", "let", "x", "y", "fn", "return",
           "async", "T", "Array", "key", "1", "if"}
AType == {<<"T">>, <<"T", "[", "]">>, <<"{", "key", ":", "T", "}">>, <<"'a'", "|", "T">>,
          <<"(", "x", ":", "T", ")", "=>", "T">>, <<"Array", "<", "Array", "<", "T", ">", ">">>,
          <<"x", ".", "T">>, <<"typeof", "x">>}
MCRegular ==
    {Statement_(<<<<"let", "x">>, <<":">> \o t, <<"=", "x", ";">>>>) : t \in AType}
    \cup {Statement_(<<<<"fn", "(", "x">>, <<":">> \o t, <<")">>, <<":">> \o u, <<"{", "return", "x", ";", "}", ";">>>>) :
            t \in AType, u \in {<<"T">>, <<"{", "key", ":", "T", "}">>}}
    \cup {Statement_(<<<<"x", "=", "(", "y">>, <<"as">> \o t, <<")", ";">>>>) :
            t \in AType \ {<<"'a'", "|", "T">>}}
    \cup {Statement_(p) : p \in {
        <<<<"x", "=", "fn">>, <<"<", "Array", "<", "T", ">", ">">>, <<"(", "{", "key", ":", "1", "}", ")", ";">>>>,
        <<<<>>, <<"type", "T", "=", "Array", "<", "T", ">", ";">>>>,
        <<<<>>, <<"interface", "T", "{", "key", ":", "T", ";", "}">>>>,
        <<<<"x", "=", "{", "'a'", ":", "1", ",", "key", ":", "y">>, <<"satisfies", "T">>, <<"}", ";">>>>,
        <<<<"x", "=", "'a'", "/* */", ";">>>>,
        <<<<"if", "(", "x", "<", "y", ")", "{", "x", "=", "y", "[", "1", "]", ";", "}">>>> }}
MCNone == {}
-----------------------------------------------------------------------------
(* However a script reaches a kernel, what runs is what was written: what  *)
(* recovery wraps (recover.rs:11-55), what is left without its types       *)
(* (strip.rs:3-5) and what either kernel makes of it (lib.rs:129-135).     *)
ScriptsRunAsWritten == ScriptsRunOnce /\ TypesAreErased /\ KernelsAgreeOnPlainScripts
=============================================================================
