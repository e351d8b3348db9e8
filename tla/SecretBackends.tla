---------------------------- MODULE SecretBackends ----------------------------
(***************************************************************************)
(* Secrets are resolved under the read lock of the item map, those of      *)
(* 1Password, the keychain and WorkOS by a command that runs meanwhile;    *)
(* store_default takes the write lock.  The lock keeps new readers out     *)
(* while a writer waits.  A command's output goes into a pipe that is read *)
(* only when the command has ended; what the command leaves running may    *)
(* hold the pipe open.                                                     *)
(***************************************************************************)
EXTENDS Integers

CONSTANTS
    Resolver,        \* concurrent users of the secrets
    MaxOutput,       \* bound: output of a command, of which a pipe holds 1
    CommandTimeout   \* 15 s, in ticks

VARIABLES
    want,            \* what each user is doing, or waits to do
    command,         \* the state of its command
    unread,          \* output that its command has not written yet
    inPipe,          \* output in the pipe
    leftBehind,      \* a descendant of the command holds the pipe
    slept            \* ticks since the command was started

backendVars == <<want, command, unread, inPipe, leftBehind, slept>>

BackendsInit ==
    /\ want = [r \in Resolver |-> "nothing"]
    /\ command = [r \in Resolver |-> "none"]
    /\ unread = [r \in Resolver |-> 0] /\ inPipe = [r \in Resolver |-> 0]
    /\ leftBehind = [r \in Resolver |-> FALSE]
    /\ slept = [r \in Resolver |-> 0]

ReadLocked(r) == want[r] \in {"poll", "collect"}
CanRead == \A r \in Resolver : want[r] # "store"
CanWrite == \A r \in Resolver : ~ReadLocked(r)

Becomes(r, next) == want' = [want EXCEPT ![r] = next]

(* One command of a user at a time, with what it left behind.              *)
UseSecret(r) == \E next \in {"item", "command", "store"} :
    /\ want[r] = "nothing" /\ ~leftBehind[r] /\ command[r] # "running"
    /\ Becomes(r, next)
    /\ UNCHANGED <<command, unread, inPipe, leftBehind, slept>>

(* An item of the default store, the environment or a file.                *)
ResolveRef(r) ==
    /\ want[r] = "item" /\ CanRead
    /\ Becomes(r, "nothing")
    /\ UNCHANGED <<command, unread, inPipe, leftBehind, slept>>

StoreDefault(r) ==
    /\ want[r] = "store" /\ CanWrite
    /\ Becomes(r, "nothing")
    /\ UNCHANGED <<command, unread, inPipe, leftBehind, slept>>

(* op, secret-tool or curl is not there, or WORKOS_API_KEY is not set; or  *)
(* the keychain's variable is.                                             *)
NoCommand(r) ==
    /\ want[r] = "command" /\ CanRead
    /\ Becomes(r, "nothing")
    /\ UNCHANGED <<command, unread, inPipe, leftBehind, slept>>

Spawn(r) ==
    /\ want[r] = "command" /\ CanRead
    /\ Becomes(r, "poll")
    /\ command' = [command EXCEPT ![r] = "running"]
    /\ \E n \in 0..MaxOutput : unread' = [unread EXCEPT ![r] = n]
    /\ inPipe' = [inPipe EXCEPT ![r] = 0]
    /\ slept' = [slept EXCEPT ![r] = 0]
    /\ UNCHANGED leftBehind

CommandWrites(r) ==
    /\ command[r] = "running" /\ unread[r] > 0 /\ inPipe[r] = 0
    /\ unread' = [unread EXCEPT ![r] = @ - 1]
    /\ inPipe' = [inPipe EXCEPT ![r] = 1]
    /\ UNCHANGED <<want, command, leftBehind, slept>>

CommandEnds(r) == \E leaves \in BOOLEAN :
    /\ command[r] = "running" /\ unread[r] = 0
    /\ command' = [command EXCEPT ![r] = "exited"]
    /\ leftBehind' = [leftBehind EXCEPT ![r] = leaves]
    /\ UNCHANGED <<want, unread, inPipe, slept>>

DescendantEnds(r) ==
    /\ leftBehind[r]
    /\ leftBehind' = [leftBehind EXCEPT ![r] = FALSE]
    /\ UNCHANGED <<want, command, unread, inPipe, slept>>
-----------------------------------------------------------------------------
(* timed_command: ask every 20 ms whether it has ended.                    *)
TryWait(r) ==
    /\ want[r] = "poll" /\ command[r] = "exited"
    /\ Becomes(r, "collect")
    /\ UNCHANGED <<command, unread, inPipe, leftBehind, slept>>

Sleep(r) ==
    /\ want[r] = "poll" /\ command[r] = "running" /\ slept[r] <= CommandTimeout
    /\ slept' = [slept EXCEPT ![r] = @ + 1]
    /\ UNCHANGED <<want, command, unread, inPipe, leftBehind>>

(* Faulty: waits for the command, however long it takes.                   *)
KillNothing(r) ==
    /\ want[r] = "poll" /\ slept[r] > CommandTimeout /\ command[r] = "exited"
    /\ Becomes(r, "nothing")
    /\ UNCHANGED <<command, unread, inPipe, leftBehind, slept>>

(* The command is killed, and its exit not waited for.                     *)
Kill(r) ==
    /\ want[r] = "poll" /\ command[r] = "running" /\ slept[r] > CommandTimeout
    /\ command' = [command EXCEPT ![r] = "killed"]
    /\ Becomes(r, "nothing")
    /\ UNCHANGED <<unread, inPipe, leftBehind, slept>>

(* wait_with_output reads to the end of the pipe.                          *)
WaitWithOutput(r) ==
    /\ want[r] = "collect" /\ ~leftBehind[r]
    /\ inPipe' = [inPipe EXCEPT ![r] = 0]
    /\ Becomes(r, "nothing")
    /\ UNCHANGED <<command, unread, leftBehind, slept>>

GetsLock(r) == ResolveRef(r) \/ StoreDefault(r) \/ NoCommand(r) \/ Spawn(r)
Waits(r) == TryWait(r) \/ Sleep(r) \/ Kill(r) \/ WaitWithOutput(r)

BackendsNext == \E r \in Resolver :
    \/ UseSecret(r) \/ GetsLock(r) \/ Waits(r)
    \/ CommandWrites(r) \/ CommandEnds(r) \/ DescendantEnds(r)

(* The lock is fair in the end to readers too (parking_lot's fair unlock); *)
(* nothing is assumed of commands and what they leave behind.              *)
BackendsFairness == \A r \in Resolver : SF_backendVars(GetsLock(r)) /\ WF_backendVars(Waits(r))

BackendsSpec == BackendsInit /\ [][BackendsNext]_backendVars /\ BackendsFairness
-----------------------------------------------------------------------------
(* providers.rs:3: "Each call is bounded".  A lookup or a store ends, for  *)
(* all users of the lock, whatever the commands do -- also one that does   *)
(* not end because the pipe is full -- unless a command left a process     *)
(* behind that holds its output open: wait_with_output has no timeout, and *)
(* every other secret then waits behind the first that is to be stored.    *)
BackendCallsEnd ==
  \A r \in Resolver :
    want[r] # "nothing" ~> want[r] = "nothing" \/ \E s \in Resolver : leftBehind[s]
=============================================================================
