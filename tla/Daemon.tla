------------------------------- MODULE Daemon -------------------------------
(***************************************************************************)
(* The local daemon of one data directory: commands that make sure it runs *)
(* (executor-cli/src/daemon.rs, ensure_daemon), the processes they spawn,  *)
(* the owner lock, and the files in between: the bearer token              *)
(* server-control/auth.json, the pointer daemon.json and daemon.pid.       *)
(* Files are written without a lock and the token file is truncated        *)
(* before it is written.                                                   *)
(***************************************************************************)
EXTENDS Integers, FiniteSets

CONSTANTS
    Cli,             \* commands
    Pid,             \* daemon processes, numbered as they are started
    Port, DefaultPort,
    MaxAttempts,     \* ensure_daemon spawns this often (5 in the code); the first one
                     \* may lose the default port
    None, Neighbour  \* Neighbour: a daemon of another data directory

ASSUME DaemonAssumption ==
    /\ DefaultPort \in Port /\ Pid \subseteq Nat
    /\ None \notin Cli \cup Pid \cup Port \cup {Neighbour} \cup [port : Port, pid : Pid]
    /\ Neighbour \notin Pid
    /\ Cli \cap Pid = {}
    /\ MaxAttempts \in Nat \ {0, 1}

VARIABLES
    tokenFile,       \* the token in auth.json, named by who minted it
    pointer,         \* daemon.json: [port, pid]
    pidFile,         \* daemon.pid
    lock,            \* the process that has the data directory
    listener,        \* who listens on each port
    proc,            \* each process's stage
    procPort, procToken,
    cli,             \* each command's stage
    token,           \* the token it uses,
    port, child,     \* the port and the process it waits for,
    attempts,        \* and how often it has spawned
    \* history, read by properties only
    starters,        \* commands and processes that were starting together
    disturbed,       \* two starters overlapped, or a daemon was run beside one
    cut              \* commands since whose begin a process was killed or crashed

files == <<tokenFile, pointer, pidFile>>
processes == <<lock, listener, proc, procPort, procToken>>
commands == <<cli, token, port, child, attempts>>
daemonHistory == <<starters, disturbed, cut>>
daemonVars == <<files, processes, commands, daemonHistory>>

Actor == Cli \cup Pid
AnyPort == CHOOSE p \in Port : TRUE

Live(p) == proc[p] \notin {"unused", "dead"}
Serving(p) == proc[p] = "serving"
Fresh(p) == proc[p] = "unused" /\ \A q \in Pid : proc[q] = "unused" => p <= q
UnderWay(c) == cli[c] \notin {"idle", "done", "failed"}

DaemonTypeOK ==
    /\ tokenFile \in Actor \cup {None}
    /\ pointer \in [port : Port, pid : Pid] \cup {None}
    /\ pidFile \in Pid \cup {None}
    /\ lock \in Pid \cup {None}
    /\ listener \in [Port -> Pid \cup {None, Neighbour}]
    /\ proc \in [Pid -> {"unused", "started", "owner", "truncate", "write", "opened",
                         "ready", "serving", "dead"}]
    /\ procPort \in [Pid -> Port]
    /\ procToken \in [Pid -> Actor \cup {None}]
    /\ cli \in [Cli -> {"idle", "token", "truncate", "write", "pointer", "probe", "spawn",
                        "poll", "done", "failed"}]
    /\ token \in [Cli -> Actor \cup {None}]
    /\ port \in [Cli -> Port]
    /\ child \in [Cli -> Pid \cup {None}]
    /\ attempts \in [Cli -> 0..MaxAttempts]
    /\ starters \subseteq Actor /\ disturbed \in BOOLEAN /\ cut \subseteq Cli

DaemonInit ==
    /\ tokenFile = None /\ pointer = None /\ pidFile = None
    /\ lock = None
    /\ listener = [p \in Port |-> None]
    /\ proc = [p \in Pid |-> "unused"]
    /\ procPort = [p \in Pid |-> AnyPort]
    /\ procToken = [p \in Pid |-> None]
    /\ cli = [c \in Cli |-> "idle"]
    /\ token = [c \in Cli |-> None]
    /\ port = [c \in Cli |-> AnyPort]
    /\ child = [c \in Cli |-> None]
    /\ attempts = [c \in Cli |-> 0]
    /\ starters = {} /\ disturbed = FALSE /\ cut = {}

(* Someone begins to start a daemon; a command and its child are one. *)
Starts(a) ==
    /\ starters' = starters \cup {a}
    /\ disturbed' = (disturbed \/ starters # {})
    /\ UNCHANGED cut

Ends(a) ==
    /\ starters' = starters \ {a}
    /\ UNCHANGED <<disturbed, cut>>

(* /api/health answers, and /metrics accepts this directory's bearer. *)
IsOurs(at, tok) ==
    /\ listener[at] \in Pid
    /\ Serving(listener[at])
    /\ procToken[listener[at]] = tok

Goes(c, stage) == cli' = [cli EXCEPT ![c] = stage]
Returns(c, stage) ==
    /\ Goes(c, stage)
    /\ port' = [port EXCEPT ![c] = AnyPort]
    /\ child' = [child EXCEPT ![c] = None]
    /\ attempts' = [attempts EXCEPT ![c] = 0]
-----------------------------------------------------------------------------
(* ensure_daemon. *)

EnsureDaemon(c) ==
    /\ ~UnderWay(c)
    /\ Goes(c, "token")
    /\ starters' = starters \cup {c}
    /\ disturbed' = (disturbed \/ starters # {})
    /\ cut' = cut \ {c}
    /\ UNCHANGED <<files, processes, token, port, child, attempts>>

(* bearer_token, then load_or_mint_auth. *)
ReadToken(c) ==
    /\ cli[c] = "token"
    /\ token' = [token EXCEPT ![c] = tokenFile]
    /\ Goes(c, IF tokenFile = None THEN "truncate" ELSE "pointer")
    /\ UNCHANGED <<files, processes, port, child, attempts, daemonHistory>>

TruncateToken(c) ==
    /\ cli[c] = "truncate"
    /\ tokenFile' = None
    /\ Goes(c, "write")
    /\ UNCHANGED <<pointer, pidFile, processes, token, port, child, attempts, daemonHistory>>

WriteToken(c) ==
    /\ cli[c] = "write"
    /\ tokenFile' = c
    /\ token' = [token EXCEPT ![c] = c]
    /\ Goes(c, "pointer")
    /\ UNCHANGED <<pointer, pidFile, processes, port, child, attempts, daemonHistory>>

ReadPointer(c) ==
    /\ cli[c] = "pointer"
    /\ IF pointer = None
       THEN Goes(c, "spawn") /\ UNCHANGED port
       ELSE Goes(c, "probe") /\ port' = [port EXCEPT ![c] = pointer.port]
    /\ UNCHANGED <<files, processes, token, child, attempts, daemonHistory>>

Probe(c) ==
    /\ cli[c] = "probe"
    /\ IF IsOurs(port[c], token[c])
       THEN Returns(c, "done") /\ Ends(c)
       ELSE Goes(c, "spawn") /\ UNCHANGED <<port, child, attempts, daemonHistory>>
    /\ UNCHANGED <<files, processes, token>>

(* The default port if it can be bound at this moment, at the first        *)
(* attempt; else one that is free.                                         *)
PreferredPort(c, p) ==
    IF attempts[c] = 0 /\ listener[DefaultPort] = None THEN p = DefaultPort
    ELSE p # DefaultPort /\ listener[p] = None

SpawnDaemon(c) == \E pid \in Pid, p \in Port :
    /\ cli[c] = "spawn"
    /\ Fresh(pid)
    /\ PreferredPort(c, p)
    /\ proc' = [proc EXCEPT ![pid] = "started"]
    /\ procPort' = [procPort EXCEPT ![pid] = p]
    /\ pointer' = [port |-> p, pid |-> pid]
    /\ port' = [port EXCEPT ![c] = p]
    /\ child' = [child EXCEPT ![c] = pid]
    /\ attempts' = [attempts EXCEPT ![c] = @ + 1]
    /\ Goes(c, "poll")
    /\ UNCHANGED <<tokenFile, pidFile, lock, listener, procToken, token, daemonHistory>>

(* Faulty: any healthy daemon on the port will do. *)
PollHealth(c) ==
    /\ cli[c] = "poll"
    /\ listener[port[c]] # None
    /\ pointer' = [port |-> port[c], pid |-> child[c]]
    /\ Returns(c, "done")
    /\ Ends(c)
    /\ UNCHANGED <<tokenFile, pidFile, processes, token>>

PollDaemon(c) ==
    /\ cli[c] = "poll"
    /\ IsOurs(port[c], token[c])
    /\ pointer' = [port |-> port[c], pid |-> child[c]]
    /\ Returns(c, "done")
    /\ Ends(c)
    /\ UNCHANGED <<tokenFile, pidFile, processes, token>>

(* A killed process gives back its port and the lock; its files stay. *)
Dies(gone) ==
    /\ proc' = [p \in Pid |-> IF p \in gone /\ Live(p) THEN "dead" ELSE proc[p]]
    /\ lock' = IF lock \in gone THEN None ELSE lock
    /\ listener' = [p \in Port |-> IF listener[p] \in gone THEN None ELSE listener[p]]
    /\ procPort' = [p \in Pid |-> IF p \in gone THEN AnyPort ELSE procPort[p]]
    /\ procToken' = [p \in Pid |-> IF p \in gone THEN None ELSE procToken[p]]

(* 80 polls were in vain: the child is dead, serves with another token, or *)
(* is slow.  It is killed.                                                 *)
GiveUp(c) ==
    /\ cli[c] = "poll" /\ ~IsOurs(port[c], token[c])
    /\ Dies({child[c]})
    /\ cut' = IF proc[child[c]] \in {"dead", "serving"} THEN cut ELSE cut \cup {c}
    /\ IF attempts[c] = MaxAttempts
       THEN Returns(c, "failed") /\ starters' = starters \ {c}
       ELSE Goes(c, "spawn") /\ UNCHANGED <<port, child, attempts, starters>>
    /\ UNCHANGED <<files, token, disturbed>>
-----------------------------------------------------------------------------
(* daemon run. *)

Advances(p, stage) == proc' = [proc EXCEPT ![p] = stage]

(* Started by hand or by the service manager, on the default port. *)
StartForeground == \E p \in Pid :
    /\ Fresh(p)
    /\ Advances(p, "started")
    /\ procPort' = [procPort EXCEPT ![p] = DefaultPort]
    /\ Starts(p)
    /\ UNCHANGED <<files, lock, listener, procToken, commands>>

(* daemon run without --foreground: unless any daemon is healthy there. *)
StartBackground == \E p \in Pid :
    /\ listener[DefaultPort] = None
    /\ Fresh(p)
    /\ Advances(p, "started")
    /\ procPort' = [procPort EXCEPT ![p] = DefaultPort]
    /\ pointer' = [port |-> DefaultPort, pid |-> p]
    /\ starters' = starters \cup {p}
    /\ disturbed' = (disturbed \/ starters # {} \/ \E q \in Pid : Live(q))
    /\ UNCHANGED <<tokenFile, pidFile, lock, listener, procToken, commands, cut>>

(* Faulty: goes on without the lock when another process has it. *)
AcquireAnyway(p) ==
    /\ proc[p] = "started"
    /\ lock' = IF lock = None THEN p ELSE lock
    /\ Advances(p, "owner")
    /\ UNCHANGED <<files, listener, procPort, procToken, commands, daemonHistory>>

(* DataDirLock::acquire fails fast. *)
Acquire(p) ==
    /\ proc[p] = "started"
    /\ IF lock = None
       THEN Advances(p, "owner") /\ lock' = p
            /\ UNCHANGED <<listener, procPort, procToken, daemonHistory>>
       ELSE Dies({p}) /\ Ends(p)
    /\ UNCHANGED <<files, commands>>

LoadToken(p) ==
    /\ proc[p] = "owner"
    /\ procToken' = [procToken EXCEPT ![p] = tokenFile]
    /\ Advances(p, IF tokenFile = None THEN "truncate" ELSE "opened")
    /\ UNCHANGED <<files, lock, listener, procPort, commands, daemonHistory>>

MintTruncates(p) ==
    /\ proc[p] = "truncate"
    /\ tokenFile' = None
    /\ Advances(p, "write")
    /\ UNCHANGED <<pointer, pidFile, lock, listener, procPort, procToken, commands,
                   daemonHistory>>

MintWrites(p) ==
    /\ proc[p] = "write"
    /\ tokenFile' = p
    /\ procToken' = [procToken EXCEPT ![p] = p]
    /\ Advances(p, "opened")
    /\ UNCHANGED <<pointer, pidFile, lock, listener, procPort, commands, daemonHistory>>

(* The pid file and the pointer are written before the port is bound. *)
Publish(p) ==
    /\ proc[p] = "opened"
    /\ pidFile' = p
    /\ pointer' = [port |-> procPort[p], pid |-> p]
    /\ Advances(p, "ready")
    /\ UNCHANGED <<tokenFile, lock, listener, procPort, procToken, commands, daemonHistory>>

Bind(p) ==
    /\ proc[p] = "ready"
    /\ Ends(p)
    /\ IF listener[procPort[p]] = None
       THEN /\ Advances(p, "serving")
            /\ listener' = [listener EXCEPT ![procPort[p]] = p]
            /\ UNCHANGED <<pidFile, lock, procPort, procToken>>
       ELSE /\ Dies({p})
            /\ pidFile' = None
    /\ UNCHANGED <<tokenFile, pointer, commands>>

CutBy(gone) ==
    /\ cut' = {c \in Cli : cli[c] # "idle"}
    /\ starters' = starters \ gone
    /\ UNCHANGED disturbed

CtrlC(p) ==
    /\ Serving(p)
    /\ Dies({p})
    /\ pidFile' = None
    /\ CutBy({p})
    /\ UNCHANGED <<tokenFile, pointer, commands>>

DaemonCrash(p) ==
    /\ Live(p)
    /\ Dies({p})
    /\ CutBy({p})
    /\ UNCHANGED <<files, commands>>

(* daemon stop: both pids are killed, both files removed. *)
DaemonStop ==
    LET gone == (IF pointer = None THEN {} ELSE {pointer.pid}) \cup ({pidFile} \ {None}) IN
    /\ gone # {}
    /\ Dies(gone)
    /\ pidFile' = None
    /\ pointer' = None
    /\ CutBy(gone)
    /\ UNCHANGED <<tokenFile, commands>>

(* The daemon of another directory takes the default port, as it may at    *)
(* any time between preferred_port and the child's bind.                   *)
NeighbourBinds ==
    /\ listener[DefaultPort] = None
    /\ listener' = [listener EXCEPT ![DefaultPort] = Neighbour]
    /\ UNCHANGED <<files, lock, proc, procPort, procToken, commands, daemonHistory>>

DaemonNext ==
    \/ \E c \in Cli : \/ EnsureDaemon(c) \/ ReadToken(c) \/ TruncateToken(c) \/ WriteToken(c)
                      \/ ReadPointer(c) \/ Probe(c) \/ SpawnDaemon(c) \/ PollDaemon(c)
                      \/ GiveUp(c)
    \/ StartForeground \/ StartBackground \/ NeighbourBinds
    \/ \E p \in Pid : \/ Acquire(p) \/ LoadToken(p) \/ MintTruncates(p) \/ MintWrites(p)
                      \/ Publish(p) \/ Bind(p) \/ CtrlC(p) \/ DaemonCrash(p)
    \/ DaemonStop

DaemonSpec == DaemonInit /\ [][DaemonNext]_daemonVars
-----------------------------------------------------------------------------
(* The data directory has one owner: no two processes that got past the    *)
(* lock (storage/lock.rs) are alive together, and who serves has the lock. *)
OneOwner ==
    \A p \in Pid : Live(p) /\ proc[p] # "started" => lock = p

(* ensure_daemon does not steal a neighbour's listener: while no other     *)
(* command or process starts in between and none is killed, a command does *)
(* not fail, and when it is done the pointer leads to a daemon that takes  *)
(* its token, the owner of the data directory.                             *)
LoneCommandsGetTheirDaemon ==
    /\ DaemonTypeOK /\ OneOwner
    /\ ~disturbed => \A c \in Cli \ cut :
          /\ cli[c] # "failed"
          /\ cli[c] = "done" => pointer # None /\ IsOurs(pointer.port, token[c])
=============================================================================
