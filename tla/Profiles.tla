------------------------------- MODULE Profiles -------------------------------
(***************************************************************************)
(* The CLI's named servers, server-connections.json (executor-cli/src/     *)
(* profiles.rs): each command loads the file, edits the store and saves it *)
(* through one temporary file that all commands share.  There is no lock,  *)
(* and a command may be killed anywhere.  An open file is written where it *)
(* is now: a rename moves it under the commands that have it open.         *)
(***************************************************************************)
EXTENDS Integers, FiniteSets

CONSTANTS
    Command,         \* commands under way
    ProfileName,
    Origin,
    NoProfile,       \* no name, no profile
    Missing, Empty, Torn,   \* what a file may be instead of a store
    MaxCommands      \* bound: commands ever run

ProfileRecord == [origin : Origin, token : Nat]
ProfileStore == [default : ProfileName \cup {NoProfile},
                 profiles : [ProfileName -> ProfileRecord \cup {NoProfile}]]

ASSUME ProfilesAssumption ==
    /\ MaxCommands \in Nat
    /\ NoProfile \notin ProfileName \cup ProfileRecord
    /\ Missing \notin {Empty, Torn}
    /\ \A content \in {Missing, Empty, Torn} : content \notin ProfileStore

VARIABLES
    saved, tmp,      \* the two files
    editor,          \* each command: [op, stage, name, profile, default, store]
    open,            \* the file each has open: "none", "tmp", "saved", "gone"
    ran,             \* commands run so far, the tokens they make
    \* history, read by properties only
    acked,           \* each name's profile by the last command that succeeded
    together,        \* two commands ran at a time
    crossed          \* two commands were saving at a time

profileVars == <<saved, tmp, editor, open, ran, acked, together, crossed>>

NoStore == [default |-> NoProfile, profiles |-> [n \in ProfileName |-> NoProfile]]
Unreadable == {Empty, Torn}
AnyOrigin == CHOOSE o \in Origin : TRUE
Idle == [op |-> "none", stage |-> "idle"]

ProfilesInit ==
    /\ saved = Missing /\ tmp = Missing
    /\ editor = [c \in Command |-> Idle]
    /\ open = [c \in Command |-> "none"]
    /\ ran = 0
    /\ acked = [n \in ProfileName |-> NoProfile]
    /\ together = FALSE /\ crossed = FALSE

Moves(c, stage) == editor' = [editor EXCEPT ![c].stage = stage]
Gone(c) == editor' = [editor EXCEPT ![c] = Idle] /\ open' = [open EXCEPT ![c] = "none"]
Saving(c) == editor[c].stage \in {"write", "permissions", "rename"}

-----------------------------------------------------------------------------
(* upsert, set_default and remove, on a loaded store. *)

Upsert(store, e) ==
    [default |-> IF e.default \/ store.default = NoProfile THEN e.name ELSE store.default,
     profiles |-> [store.profiles EXCEPT ![e.name] = e.profile]]

(* Faulty: the default stays. *)
RemoveOnly(store, e) == [store EXCEPT !.profiles[e.name] = NoProfile]

Remove(store, e) ==
    [default |-> IF store.default = e.name THEN NoProfile ELSE store.default,
     profiles |-> [store.profiles EXCEPT ![e.name] = NoProfile]]

EditStore(store, e) ==
    CASE e.op \in {"add", "rotate"} -> Upsert(store, e)
      [] e.op = "use" -> [store EXCEPT !.default = e.name]
      [] e.op = "remove" -> Remove(store, e)

-----------------------------------------------------------------------------
(* server add, use, remove and rotate-token; login adds and makes default, *)
(* logout removes.                                                         *)
RunCommand(c) ==
    /\ editor[c] = Idle
    /\ ran < MaxCommands
    /\ \E op \in {"add", "use", "remove", "rotate"}, n \in ProfileName,
          origin \in Origin, default \in BOOLEAN :
        /\ op # "add" => ~default /\ origin = AnyOrigin
        /\ editor' = [editor EXCEPT ![c] =
              [op |-> op, stage |-> IF op = "rotate" THEN "look up" ELSE "load", name |-> n,
               profile |-> [origin |-> origin, token |-> ran], default |-> default,
               store |-> NoStore]]
    /\ ran' = ran + 1
    /\ together' = (together \/ \E d \in Command : editor[d] # Idle)
    /\ UNCHANGED <<saved, tmp, open, acked, crossed>>

Loaded == IF saved = Missing THEN NoStore ELSE saved

(* cmd_server, RotateToken: the origin is read before upsert loads again.  *)
LookUpOrigin(c) ==
    /\ editor[c].stage = "look up"
    /\ IF saved \in Unreadable THEN Gone(c)
       ELSE IF Loaded.profiles[editor[c].name] = NoProfile THEN Gone(c)
       ELSE /\ editor' = [editor EXCEPT ![c].stage = "load",
                            ![c].profile.origin = Loaded.profiles[editor[c].name].origin]
            /\ UNCHANGED open
    /\ UNCHANGED <<saved, tmp, ran, acked, together, crossed>>

(* A file that is no JSON ends every command; so does an unknown name.     *)
LoadStore(c) ==
    /\ editor[c].stage = "load"
    /\ IF saved \in Unreadable THEN Gone(c)
       ELSE IF editor[c].op = "use" /\ Loaded.profiles[editor[c].name] = NoProfile THEN Gone(c)
       ELSE /\ editor' = [editor EXCEPT ![c].stage = "open",
                                        ![c].store = EditStore(Loaded, editor[c])]
            /\ UNCHANGED open
    /\ UNCHANGED <<saved, tmp, ran, acked, together, crossed>>

(* Faulty: writes the file itself. *)
OpenInPlace(c) ==
    /\ editor[c].stage = "open"
    /\ saved' = Empty
    /\ open' = [open EXCEPT ![c] = "saved"]
    /\ Moves(c, "write")
    /\ crossed' = (crossed \/ \E d \in Command : Saving(d))
    /\ UNCHANGED <<tmp, ran, acked, together>>

(* save: fs::write makes or truncates the temporary file, *)
OpenTmp(c) ==
    /\ editor[c].stage = "open"
    /\ tmp' = Empty
    /\ open' = [open EXCEPT ![c] = "tmp"]
    /\ Moves(c, "write")
    /\ crossed' = (crossed \/ \E d \in Command : Saving(d))
    /\ UNCHANGED <<saved, ran, acked, together>>

(* What a file may hold once a store is written over what is in it: the    *)
(* end of something longer stays behind it.                                *)
Overwritten(old, store) == IF old \in {Empty, store} THEN {store} ELSE {store, Torn}

(* and fills it, wherever it is by now; *)
WriteStore(c) ==
    /\ editor[c].stage = "write"
    /\ CASE open[c] = "tmp" -> tmp' \in Overwritten(tmp, editor[c].store) /\ UNCHANGED saved
         [] open[c] = "saved" -> saved' \in Overwritten(saved, editor[c].store) /\ UNCHANGED tmp
         [] open[c] = "gone" -> UNCHANGED <<saved, tmp>>
    /\ open' = [open EXCEPT ![c] = "none"]
    /\ Moves(c, "permissions")
    /\ UNCHANGED <<ran, acked, together, crossed>>

(* its permissions are set by its name, *)
SetPermissions(c) ==
    /\ editor[c].stage = "permissions"
    /\ IF tmp = Missing THEN Gone(c) ELSE Moves(c, "rename") /\ UNCHANGED open
    /\ UNCHANGED <<saved, tmp, ran, acked, together, crossed>>

(* and it takes the place of the old one.  The command reports success.    *)
RenameTmp(c) ==
    /\ editor[c].stage = "rename"
    /\ editor' = [editor EXCEPT ![c] = Idle]
    /\ IF tmp = Missing THEN UNCHANGED <<saved, tmp, open, acked>>
       ELSE /\ saved' = tmp
            /\ tmp' = Missing
            /\ open' = [d \in Command |-> CASE open[d] = "tmp" -> "saved"
                                            [] open[d] = "saved" -> "gone"
                                            [] OTHER -> open[d]]
            /\ acked' = CASE editor[c].op \in {"add", "rotate"} ->
                              [acked EXCEPT ![editor[c].name] = editor[c].profile]
                          [] editor[c].op = "remove" ->
                              [acked EXCEPT ![editor[c].name] = NoProfile]
                          [] OTHER -> acked
    /\ UNCHANGED <<ran, together, crossed>>

CommandKilled(c) ==
    /\ editor[c] # Idle
    /\ Gone(c)
    /\ UNCHANGED <<saved, tmp, ran, acked, together, crossed>>

ProfilesNext == \E c \in Command :
    \/ RunCommand(c) \/ LookUpOrigin(c) \/ LoadStore(c)
    \/ OpenTmp(c) \/ WriteStore(c) \/ SetPermissions(c) \/ RenameTmp(c)
    \/ CommandKilled(c)

ProfilesSpec == ProfilesInit /\ [][ProfilesNext]_profileVars
-----------------------------------------------------------------------------
(* The file is whole unless two commands were saving at a time (the        *)
(* temporary file has one name), so a killed command never damages it; a   *)
(* file that can be read never has a default that is not one of its        *)
(* profiles, whoever saved it; and as long as commands run one after the   *)
(* other, killed or not, it has exactly what they have reported.           *)
ProfilesAreKept ==
    /\ ~crossed => saved \notin Unreadable
    /\ saved \notin Unreadable /\ Loaded.default # NoProfile =>
         Loaded.profiles[Loaded.default] # NoProfile
    /\ ~together => Loaded.profiles = acked
=============================================================================
