----------------------------- MODULE SecretStore -----------------------------
(***************************************************************************)
(* FileSecrets, the default secret store: a map in memory and its copy in  *)
(* secrets.json, which every store_default rewrites through the one file   *)
(* secrets.json.tmp.  Nothing orders the writers: each is a request of its *)
(* own on a thread of the runtime.  A restart reads the file back.         *)
(***************************************************************************)
EXTENDS Integers, FiniteSets

CONSTANTS
    Caller,    \* concurrent store_default calls
    Value,     \* pasted secrets
    MaxId      \* bound on the ids taken from ITEM_SEQ

ASSUME SecretsAssumption ==
    /\ MaxId \in Nat
    /\ IsFiniteSet(Value) /\ Value # {}

VARIABLES
    up,        \* the process runs
    seq,       \* ITEM_SEQ
    items,     \* MemorySecrets.items, as id-value pairs
    disk,      \* what the two paths lead to
    point,     \* each call's point in store_default
    item,      \* what it stores,
    dump,      \* the snapshot it writes,
    at,        \* and where the file it opened is linked now
    \* history, read by properties only
    alone,     \* calls that have overlapped no other
    refs,      \* items whose reference was handed out, for a connection row
    lone,      \* those of them that were stored alone
    mixed      \* two calls have overlapped since the process started

locals == <<point, item, dump, at, alone>>
secretVars == <<up, seq, items, disk, locals, refs, lone, mixed>>

Id == 1..MaxId
Item == Id \X Value
NoItem == <<>>
Path == {"tmp", "json"}
Points == {"idle", "dump", "create", "write", "chmod", "rename"}

(* A file's text, and the length of what is in it counted in items.  A map *)
(* that only grows has longer texts the more it holds, and two texts of    *)
(* one length are of the same map.                                         *)
File == [text : SUBSET Item, len : Nat]
NoFile == [text |-> {}, len |-> -1]
Truncated == [text |-> {}, len |-> 0]

Exists(f) == f # NoFile
(* from_slice, or decrypt: an empty text or one with a tail of another     *)
(* fails.                                                                  *)
Readable(f) == f.len > 0 /\ f.len = Cardinality(f.text)

(* A write at offset 0 of a file that may have grown under another handle. *)
Overwritten(f, text) ==
    [text |-> text,
     len  |-> IF f.len > Cardinality(text) THEN f.len ELSE Cardinality(text)]

Active == {c \in Caller : point[c] # "idle"}

SecretsTypeOK ==
    /\ up \in BOOLEAN
    /\ seq \in 1..(MaxId + 1)
    /\ items \subseteq Item
    /\ disk \in [Path -> File \cup {NoFile}]
    /\ point \in [Caller -> Points]
    /\ item \in [Caller -> Item \cup {NoItem}]
    /\ dump \in [Caller -> SUBSET Item]
    /\ at \in [Caller -> Path \cup {"gone"}]
    /\ alone \in [Caller -> BOOLEAN]
    /\ lone \subseteq refs /\ refs \subseteq Item
    /\ mixed \in BOOLEAN

SecretsInit ==
    /\ up = TRUE
    /\ seq = 1
    /\ items = {}
    /\ disk = [p \in Path |-> NoFile]
    /\ point = [c \in Caller |-> "idle"]
    /\ item = [c \in Caller |-> NoItem]
    /\ dump = [c \in Caller |-> {}]
    /\ at = [c \in Caller |-> "gone"]
    /\ alone = [c \in Caller |-> FALSE]
    /\ refs = {}
    /\ lone = {}
    /\ mixed = FALSE

-----------------------------------------------------------------------------
(* store_default *)

(* MemorySecrets::store_default: an id, then the insert under the lock.    *)
(* One step: until the insert nothing but the counter knows of the id.     *)
Insert(c, v) ==
    /\ up /\ point[c] = "idle" /\ seq \in Id
    /\ seq' = seq + 1
    /\ items' = items \cup {<<seq, v>>}
    /\ point' = [point EXCEPT ![c] = "dump"]
    /\ item' = [item EXCEPT ![c] = <<seq, v>>]
    /\ alone' = [d \in Caller |-> d = c /\ Active = {}]
    /\ mixed' = (mixed \/ Active # {})
    /\ UNCHANGED <<up, disk, dump, at, refs, lone>>

(* Faulty: the snapshot misses the value being stored.                     *)
StaleDump(c) ==
    /\ point[c] = "dump"
    /\ point' = [point EXCEPT ![c] = "create"]
    /\ dump' = [dump EXCEPT ![c] = items \ {item[c]}]
    /\ UNCHANGED <<up, seq, items, disk, item, at, alone, refs, lone, mixed>>

(* persist: the snapshot, taken under the read lock and used outside it.   *)
Dump(c) ==
    /\ point[c] = "dump"
    /\ point' = [point EXCEPT ![c] = "create"]
    /\ dump' = [dump EXCEPT ![c] = items]
    /\ UNCHANGED <<up, seq, items, disk, item, at, alone, refs, lone, mixed>>

(* Faulty: secrets.json is rewritten in place.                             *)
CreateInPlace(c) ==
    /\ point[c] = "create"
    /\ disk' = [disk EXCEPT !["json"] = Truncated]
    /\ point' = [point EXCEPT ![c] = "write"]
    /\ at' = [at EXCEPT ![c] = "json"]
    /\ UNCHANGED <<up, seq, items, item, dump, alone, refs, lone, mixed>>

(* fs::write, first half: File::create truncates what is there.            *)
Create(c) ==
    /\ point[c] = "create"
    /\ disk' = [disk EXCEPT !["tmp"] = Truncated]
    /\ point' = [point EXCEPT ![c] = "write"]
    /\ at' = [at EXCEPT ![c] = "tmp"]
    /\ UNCHANGED <<up, seq, items, item, dump, alone, refs, lone, mixed>>

(* fs::write, second half: write_all goes where the opened file now is.    *)
Write(c) ==
    /\ point[c] = "write"
    /\ disk' = [p \in Path |-> IF p = at[c] THEN Overwritten(disk[p], dump[c])
                               ELSE disk[p]]
    /\ point' = [point EXCEPT ![c] = "chmod"]
    /\ UNCHANGED <<up, seq, items, item, dump, at, alone, refs, lone, mixed>>

(* metadata and set_permissions look the path up again.                    *)
Chmod(c) ==
    /\ point[c] = "chmod"
    /\ Exists(disk["tmp"])
    /\ point' = [point EXCEPT ![c] = "rename"]
    /\ UNCHANGED <<up, seq, items, disk, item, dump, at, alone, refs, lone, mixed>>

(* The call is over. *)
HandOut(c) ==
    /\ point' = [point EXCEPT ![c] = "idle"]
    /\ item' = [item EXCEPT ![c] = NoItem]
    /\ dump' = [dump EXCEPT ![c] = {}]
    /\ alone' = [alone EXCEPT ![c] = FALSE]

(* fs::rename, and the reference goes to the caller.  The file linked as   *)
(* tmp becomes secrets.json; the old secrets.json has no name any more.    *)
Rename(c) ==
    /\ point[c] = "rename"
    /\ Exists(disk["tmp"])
    /\ disk' = [p \in Path |-> IF p = "json" THEN disk["tmp"] ELSE NoFile]
    /\ at' = [d \in Caller |-> IF d # c /\ at[d] = "tmp" THEN "json" ELSE "gone"]
    /\ HandOut(c)
    /\ refs' = refs \cup {item[c]}
    /\ lone' = IF alone[c] THEN lone \cup {item[c]} ELSE lone
    /\ UNCHANGED <<up, seq, items, mixed>>

(* An I/O error, or a path that another call has renamed away: the caller  *)
(* gets an error, the value stays in memory.                               *)
Fail(c) ==
    /\ point[c] \in {"create", "write", "chmod", "rename"}
    /\ at' = [at EXCEPT ![c] = "gone"]
    /\ HandOut(c)
    /\ UNCHANGED <<up, seq, items, disk, refs, lone, mixed>>

-----------------------------------------------------------------------------
(* Restart *)

(* The process ends, at any point of any call.                             *)
SecretsCrash ==
    /\ up
    /\ up' = FALSE
    /\ seq' = 1
    /\ items' = {}
    /\ point' = [c \in Caller |-> "idle"]
    /\ item' = [c \in Caller |-> NoItem]
    /\ dump' = [c \in Caller |-> {}]
    /\ at' = [c \in Caller |-> "gone"]
    /\ alone' = [c \in Caller |-> FALSE]
    /\ UNCHANGED <<disk, refs, lone, mixed>>

(* Faulty: load_map without the fetch_max on ITEM_SEQ.                     *)
OpenFromOne ==
    /\ ~up
    /\ Exists(disk["json"]) => Readable(disk["json"])
    /\ up' = TRUE
    /\ items' = disk["json"].text
    /\ seq' = 1
    /\ mixed' = FALSE
    /\ UNCHANGED <<disk, locals, refs, lone>>

(* open_encrypted and load_map: no file is an empty store, an unreadable   *)
(* one an error that keeps the process from starting.  Ids go on after the *)
(* greatest one in the file.                                               *)
Open ==
    /\ ~up
    /\ Exists(disk["json"]) => Readable(disk["json"])
    /\ up' = TRUE
    /\ items' = disk["json"].text
    /\ \E n \in 1..(MaxId + 1) :
         /\ \A i \in items' : i[1] < n
         /\ n = 1 \/ \E i \in items' : i[1] = n - 1
         /\ seq' = n
    /\ mixed' = FALSE
    /\ UNCHANGED <<disk, locals, refs, lone>>

StoreDefault(c) ==
    \/ \E v \in Value : Insert(c, v)
    \/ Dump(c) \/ Create(c) \/ Write(c) \/ Chmod(c) \/ Rename(c) \/ Fail(c)

SecretsNext ==
    \/ \E c \in Caller : StoreDefault(c)
    \/ SecretsCrash
    \/ Open

SecretsSpec == SecretsInit /\ [][SecretsNext]_secretVars

-----------------------------------------------------------------------------
(* A reference whose store_default overlapped no other call resolves to    *)
(* the value that was pasted, in this process and after any restart,       *)
(* whatever calls race after it: their snapshots all contain it and no     *)
(* later id equals its own.                                                *)
LoneRefsResolve ==
    up => \A ref \in lone : {i \in items : i[1] = ref[1]} = {ref}

(* The file is never ahead of the map it is a copy of, and an id has one   *)
(* value in both.                                                          *)
DiskIsPastOfMemory ==
    up => /\ disk["json"].text \subseteq items
          /\ \A i, j \in items : i[1] = j[1] => i = j

(* Write, then rename: as long as no two calls overlap, a crash or an I/O  *)
(* error at any point leaves secrets.json whole or absent.                 *)
AtomicReplace ==
    ~mixed => (Exists(disk["json"]) => Readable(disk["json"]))

(* Violated by the code: every reference handed out resolves to its own    *)
(* value, also after a restart.                                            *)
StoredSecretsSurvive == up => refs \subseteq items
==============================================================================
