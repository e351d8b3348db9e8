-------------------------- MODULE SecretStoreProofs --------------------------
(***************************************************************************)
(* What holds of FileSecrets for every number of concurrent calls, however *)
(* many ids are taken and wherever the process ends.                       *)
(***************************************************************************)
EXTENDS SecretStore, FiniteSetTheorems, TLAPS

Busy == {"create", "write", "chmod", "rename"}
Writing(c) == point[c] \in {"write", "chmod", "rename"}
OneValuePerId(S) == \A i, j \in S : i[1] = j[1] => i = j

(* What each point of store_default has established.                       *)
PointOK ==
    \A c \in Caller :
        /\ point[c] = "idle" => dump[c] = {}
        /\ point[c] # "idle" => up /\ item[c] \in items
        /\ dump[c] \subseteq items
        /\ point[c] \in Busy => item[c] \in dump[c]

(* The map, and the file as a past state of it.                            *)
MapOK ==
    /\ up => /\ \A i \in items : i[1] < seq
             /\ disk["json"].text \subseteq items
    /\ OneValuePerId(items)
    /\ OneValuePerId(disk["json"].text)
    /\ \A c \in Caller : Writing(c) => disk["tmp"].text \subseteq items

(* A call that overlaps no other has the temporary file to itself.         *)
LoneOK ==
    \A c \in Caller : point[c] # "idle" /\ alone[c] =>
        /\ \A d \in Caller : point[d] # "idle" => d = c
        /\ point[c] = "write" => disk["tmp"] = Truncated /\ at[c] = "tmp"
        /\ point[c] \in {"chmod", "rename"} =>
             disk["tmp"] = [text |-> dump[c], len |-> Cardinality(dump[c])]

(* Wherever the map could be read back from, a lone item is in it.         *)
RefOK ==
    \A i \in lone :
        /\ Exists(disk["json"])
        /\ Readable(disk["json"]) => i \in disk["json"].text
        /\ up => i \in items
        /\ \A c \in Caller : point[c] \in Busy => i \in dump[c]
        /\ \A c \in Caller : Writing(c) /\ Readable(disk["tmp"])
              => i \in disk["tmp"].text

MixedOK ==
    ~mixed => /\ \A c \in Caller : point[c] # "idle" => alone[c]
              /\ Exists(disk["json"]) => Readable(disk["json"])

IInv == SecretsTypeOK /\ PointOK /\ MapOK /\ LoneOK /\ RefOK /\ MixedOK

-----------------------------------------------------------------------------
(* A snapshot is finite, so it has a length, zero only if it is empty.     *)
LEMMA SizeOfText ==
    ASSUME NEW S \in SUBSET Item
    PROVE  /\ Cardinality(S) \in Nat
           /\ S # {} => Cardinality(S) > 0
<1>1. IsFiniteSet(Id)
  BY FS_Interval, SecretsAssumption DEF Id
<1>2. IsFiniteSet(Item)
  BY <1>1, FS_Product, SecretsAssumption DEF Item
<1>3. IsFiniteSet(S)
  BY <1>2, FS_Subset
<1>4. Cardinality(S) \in Nat
  BY <1>3, FS_CardinalityType
<1>5. S # {} => Cardinality(S) # 0
  BY <1>3, FS_EmptySet
<1> QED BY <1>4, <1>5

(* Every initial state satisfies the inductive invariant.                  *)
LEMMA InitIInv == SecretsInit => IInv
<1> SUFFICES ASSUME SecretsInit PROVE IInv
  OBVIOUS
<1>1. SecretsTypeOK
  <2>1. seq \in 1..(MaxId + 1)
    BY SecretsAssumption DEF SecretsInit
  <2>2. NoItem \in Item \cup {NoItem} /\ "gone" \in Path \cup {"gone"}
    OBVIOUS
  <2> QED BY <2>1, <2>2 DEF SecretsInit, SecretsTypeOK, Points
<1>2. PointOK
  BY DEF SecretsInit, PointOK, Busy
<1>3. disk["json"] = NoFile /\ disk["json"].text = {}
  BY DEF SecretsInit, Path, NoFile
<1>4. MapOK
  BY <1>3 DEF SecretsInit, MapOK, OneValuePerId, Writing
<1>5. LoneOK /\ RefOK /\ MixedOK
  BY <1>3 DEF SecretsInit, LoneOK, RefOK, MixedOK, Exists
<1> QED BY <1>1, <1>2, <1>4, <1>5 DEF IInv

(* Insert: the new item has an id of its own, and every overlap is noticed. *)
LEMMA InsertStep ==
    ASSUME IInv, NEW c \in Caller, NEW v \in Value, Insert(c, v)
    PROVE  IInv'
<1> USE SecretsAssumption DEF IInv
<1>1. SecretsTypeOK'
  BY DEF SecretsTypeOK, Insert, Points, Path, Id, Item
<1>2. PointOK'
  BY DEF SecretsTypeOK, PointOK, Insert, Busy, Path
<1>3. MapOK'
  BY DEF SecretsTypeOK, PointOK, MapOK, Insert, OneValuePerId, Writing, Busy, Item, Id, Path
<1>4. LoneOK'
  BY ZenonT(60) DEF SecretsTypeOK, PointOK, LoneOK, Insert, Active, Path
<1>5. RefOK'
  BY DEF SecretsTypeOK, PointOK, LoneOK, RefOK, MapOK, Insert, Writing, Busy, Exists, Readable, Path
<1>6. MixedOK'
  BY DEF SecretsTypeOK, PointOK, LoneOK, MixedOK, Insert, Active, Exists, Readable, Path
<1> QED BY <1>1, <1>2, <1>3, <1>4, <1>5, <1>6 DEF IInv

(* Dump: the snapshot has everything stored so far. *)
LEMMA DumpStep ==
    ASSUME IInv, NEW c \in Caller, Dump(c)
    PROVE  IInv'
<1> USE SecretsAssumption DEF IInv
<1>1. SecretsTypeOK'
  BY DEF SecretsTypeOK, Dump, Points, Path, Id
<1>2. PointOK'
  BY DEF SecretsTypeOK, PointOK, Dump, Busy, Path
<1>3. MapOK'
  BY DEF SecretsTypeOK, PointOK, MapOK, Dump, OneValuePerId, Writing, Busy, Item, Id, Path
<1>4. LoneOK'
  BY DEF SecretsTypeOK, PointOK, LoneOK, Dump, Active, Path
<1>5. RefOK'
  BY DEF SecretsTypeOK, PointOK, LoneOK, RefOK, MapOK, Dump, Writing, Busy, Exists, Readable, Path
<1>6. MixedOK'
  BY DEF SecretsTypeOK, PointOK, LoneOK, MixedOK, Dump, Active, Exists, Readable, Path
<1> QED BY <1>1, <1>2, <1>3, <1>4, <1>5, <1>6 DEF IInv

(* Create: an empty file cannot be read. *)
LEMMA CreateStep ==
    ASSUME IInv, NEW c \in Caller, Create(c)
    PROVE  IInv'
<1> USE SecretsAssumption DEF IInv
<1>1. SecretsTypeOK'
  BY DEF SecretsTypeOK, Create, Points, Path, Id, File, Truncated
<1>2. PointOK'
  BY DEF SecretsTypeOK, PointOK, Create, Busy, Path
<1>3. MapOK'
  BY DEF SecretsTypeOK, PointOK, MapOK, Create, Truncated, OneValuePerId, Writing, Busy, Item, Id, Path
<1>4. LoneOK'
  BY DEF SecretsTypeOK, PointOK, LoneOK, Create, Truncated, Active, Path
<1>5. RefOK'
  BY DEF SecretsTypeOK, PointOK, LoneOK, RefOK, MapOK, Create, Truncated, Writing, Busy, Exists, Readable, Path, NoFile
<1>6. MixedOK'
  BY DEF SecretsTypeOK, PointOK, LoneOK, MixedOK, Create, Active, Exists, Readable, Path
<1> QED BY <1>1, <1>2, <1>3, <1>4, <1>5, <1>6 DEF IInv

(* Write: what is written has every lone item. *)
LEMMA WriteStep ==
    ASSUME IInv, NEW c \in Caller, Write(c)
    PROVE  IInv'
<1> USE SecretsAssumption DEF IInv
<1>1. SecretsTypeOK'
  <2>1. disk' \in [Path -> File \cup {NoFile}]
    <3> SUFFICES ASSUME NEW p \in Path, p = at[c]
                 PROVE  Overwritten(disk[p], dump[c]) \in File
      BY DEF SecretsTypeOK, Write
    <3>1. dump[c] \in SUBSET Item /\ Cardinality(dump[c]) \in Nat
      BY SizeOfText DEF SecretsTypeOK
    <3>2. disk[p].len \in Int
      BY DEF SecretsTypeOK, File, NoFile
    <3> QED BY <3>1, <3>2 DEF Overwritten, File
  <2> QED BY <2>1 DEF SecretsTypeOK, Write, Points
<1>2. PointOK'
  BY DEF SecretsTypeOK, PointOK, Write, Busy, Path
<1>3. MapOK'
  BY DEF SecretsTypeOK, PointOK, MapOK, Write, Overwritten, OneValuePerId, Writing, Busy, Item, Id, Path
<1>4. LoneOK'
  <2> SUFFICES ASSUME NEW d \in Caller, point'[d] # "idle", alone'[d]
               PROVE  /\ d = c /\ \A e \in Caller : point'[e] # "idle" => e = c
                      /\ disk'["tmp"] = [text |-> dump[c], len |-> Cardinality(dump[c])]
    BY DEF LoneOK, SecretsTypeOK, Write
  <2>1. d = c /\ \A e \in Caller : point'[e] # "idle" => e = c
    BY DEF LoneOK, SecretsTypeOK, Write
  <2>2. disk["tmp"] = Truncated /\ at[c] = "tmp"
    BY <2>1 DEF LoneOK, SecretsTypeOK, Write
  <2>3. Cardinality(dump[c]) \in Nat
    BY SizeOfText DEF SecretsTypeOK
  <2> QED BY <2>1, <2>2, <2>3 DEF Write, Overwritten, Truncated, Path
<1>5. RefOK'
  BY DEF SecretsTypeOK, PointOK, LoneOK, RefOK, MapOK, Write, Overwritten, Writing, Busy, Exists, Readable, Path, NoFile
<1>6. MixedOK'
  BY DEF SecretsTypeOK, PointOK, LoneOK, MixedOK, Write, Active, Exists, Readable, Path
<1> QED BY <1>1, <1>2, <1>3, <1>4, <1>5, <1>6 DEF IInv

(* Chmod: nothing but the point changes. *)
LEMMA ChmodStep ==
    ASSUME IInv, NEW c \in Caller, Chmod(c)
    PROVE  IInv'
<1> USE SecretsAssumption DEF IInv
<1>1. SecretsTypeOK'
  BY DEF SecretsTypeOK, Chmod, Points, Path, Id
<1>2. PointOK'
  BY DEF SecretsTypeOK, PointOK, Chmod, Busy, Path
<1>3. MapOK'
  BY DEF SecretsTypeOK, PointOK, MapOK, Chmod, OneValuePerId, Writing, Busy, Item, Id, Path
<1>4. LoneOK'
  BY DEF SecretsTypeOK, PointOK, LoneOK, Chmod, Active, Path
<1>5. RefOK'
  BY DEF SecretsTypeOK, PointOK, LoneOK, RefOK, MapOK, Chmod, Writing, Busy, Exists, Readable, Path
<1>6. MixedOK'
  BY DEF SecretsTypeOK, PointOK, LoneOK, MixedOK, Chmod, Active, Exists, Readable, Path
<1> QED BY <1>1, <1>2, <1>3, <1>4, <1>5, <1>6 DEF IInv

(* A call that overlapped no other renames a whole file of its own.        *)
LEMMA LoneRename ==
    ASSUME IInv, NEW c \in Caller, Rename(c), alone[c]
    PROVE  /\ \A d \in Caller : point'[d] = "idle"
           /\ item[c] \in disk'["json"].text
           /\ Readable(disk'["json"])
<1> USE DEF IInv
<1>1. disk'["json"] = [text |-> dump[c], len |-> Cardinality(dump[c])]
  BY DEF LoneOK, Rename, Path
<1>2. item[c] \in dump[c]
  BY DEF PointOK, Rename, Busy
<1>3. Cardinality(dump[c]) > 0
  BY <1>2, SizeOfText DEF SecretsTypeOK
<1>4. \A d \in Caller : point'[d] = "idle"
  BY DEF LoneOK, Rename, HandOut, SecretsTypeOK
<1> QED BY <1>1, <1>2, <1>3, <1>4 DEF Readable

(* Rename: secrets.json is what the temporary file was. *)
LEMMA RenameStep ==
    ASSUME IInv, NEW c \in Caller, Rename(c)
    PROVE  IInv'
<1> USE SecretsAssumption DEF IInv
<1>1. SecretsTypeOK'
  <2>1. item[c] \in Item
    BY DEF SecretsTypeOK, PointOK, Rename
  <2>2. disk' \in [Path -> File \cup {NoFile}]
    BY DEF SecretsTypeOK, Rename, Path
  <2>3. at' \in [Caller -> Path \cup {"gone"}]
    BY DEF SecretsTypeOK, Rename, Path
  <2>4. /\ point' \in [Caller -> Points] /\ item' \in [Caller -> Item \cup {NoItem}]
        /\ dump' \in [Caller -> SUBSET Item] /\ alone' \in [Caller -> BOOLEAN]
    BY DEF SecretsTypeOK, Rename, HandOut, Points
  <2>5. lone' \subseteq refs' /\ refs' \subseteq Item
    BY <2>1 DEF SecretsTypeOK, Rename
  <2> QED BY <2>2, <2>3, <2>4, <2>5 DEF SecretsTypeOK, Rename
<1>2. PointOK'
  BY DEF SecretsTypeOK, PointOK, Rename, HandOut, Busy, Path
<1>3. MapOK'
  BY DEF SecretsTypeOK, PointOK, MapOK, Rename, HandOut, OneValuePerId, Writing, Busy, Item, Id, Path, NoFile
<1>4. LoneOK'
  BY DEF SecretsTypeOK, PointOK, LoneOK, Rename, HandOut, Active, Path
<1>5. RefOK'
  <2>2. Exists(disk'["json"])
    BY DEF Rename, Path
  <2>3. ASSUME NEW i \in lone
        PROVE  /\ Readable(disk'["json"]) => i \in disk'["json"].text
               /\ i \in items
               /\ \A d \in Caller : point'[d] \in Busy => i \in dump'[d]
    BY DEF RefOK, PointOK, SecretsTypeOK, Rename, HandOut, Path, Busy, Writing
  <2>4. ASSUME alone[c]
        PROVE  /\ item[c] \in disk'["json"].text /\ item[c] \in items
               /\ \A d \in Caller : point'[d] \notin Busy
    BY <2>4, LoneRename DEF PointOK, Rename, Busy
  <2>5. ~Readable(disk'["tmp"])
    BY DEF Rename, Path, Readable, NoFile
  <2>6. \A i \in lone' : i \in lone \/ (alone[c] /\ i = item[c])
    BY DEF Rename
  <2>7. items' = items
    BY DEF Rename
  <2> QED BY <2>2, <2>3, <2>4, <2>5, <2>6, <2>7 DEF RefOK
<1>6. MixedOK'
  <2>1. ASSUME ~mixed
        PROVE  alone[c]
    BY <2>1 DEF MixedOK, Rename
  <2>2. ASSUME alone[c]
        PROVE  Readable(disk'["json"]) /\ \A d \in Caller : point'[d] = "idle"
    BY <2>2, LoneRename
  <2>3. mixed' = mixed
    BY DEF Rename
  <2> QED BY <2>1, <2>2, <2>3 DEF MixedOK
<1> QED BY <1>1, <1>2, <1>3, <1>4, <1>5, <1>6 DEF IInv

(* Fail: the files stay as they are. *)
LEMMA FailStep ==
    ASSUME IInv, NEW c \in Caller, Fail(c)
    PROVE  IInv'
<1> USE SecretsAssumption DEF IInv
<1>1. SecretsTypeOK'
  BY DEF SecretsTypeOK, Fail, HandOut, Points, Path, Id
<1>2. PointOK'
  BY DEF SecretsTypeOK, PointOK, Fail, HandOut, Busy, Path
<1>3. MapOK'
  BY DEF SecretsTypeOK, PointOK, MapOK, Fail, HandOut, OneValuePerId, Writing, Busy, Item, Id, Path
<1>4. LoneOK'
  BY DEF SecretsTypeOK, PointOK, LoneOK, Fail, HandOut, Active, Path
<1>5. RefOK'
  BY DEF SecretsTypeOK, PointOK, LoneOK, RefOK, MapOK, Fail, HandOut, Writing, Busy, Exists, Readable, Path
<1>6. MixedOK'
  BY DEF SecretsTypeOK, PointOK, LoneOK, MixedOK, Fail, HandOut, Active, Exists, Readable, Path
<1> QED BY <1>1, <1>2, <1>3, <1>4, <1>5, <1>6 DEF IInv

(* SecretsCrash: the files stay as they are, the rest is gone. *)
LEMMA CrashStep ==
    ASSUME IInv, SecretsCrash
    PROVE  IInv'
<1> USE SecretsAssumption DEF IInv
<1>1. SecretsTypeOK'
  <2>1. seq' \in 1..(MaxId + 1)
    BY DEF SecretsCrash
  <2>2. /\ point' \in [Caller -> Points] /\ at' \in [Caller -> Path \cup {"gone"}]
        /\ item' \in [Caller -> Item \cup {NoItem}]
    BY DEF SecretsCrash, Points
  <2>3. dump' \in [Caller -> SUBSET Item] /\ alone' \in [Caller -> BOOLEAN]
    BY DEF SecretsCrash
  <2> QED BY <2>1, <2>2, <2>3 DEF SecretsTypeOK, SecretsCrash
<1>2. PointOK'
  BY DEF SecretsTypeOK, PointOK, SecretsCrash, Busy, Path
<1>3. MapOK'
  BY DEF SecretsTypeOK, PointOK, MapOK, SecretsCrash, OneValuePerId, Writing, Busy, Item, Id, Path
<1>4. LoneOK'
  BY DEF SecretsTypeOK, PointOK, LoneOK, SecretsCrash, Active, Path
<1>5. RefOK'
  BY DEF SecretsTypeOK, PointOK, LoneOK, RefOK, MapOK, SecretsCrash, Writing, Busy, Exists, Readable, Path
<1>6. MixedOK'
  BY DEF SecretsTypeOK, PointOK, LoneOK, MixedOK, SecretsCrash, Active, Exists, Readable, Path
<1> QED BY <1>1, <1>2, <1>3, <1>4, <1>5, <1>6 DEF IInv

(* Open: the map is the file. *)
LEMMA OpenStep ==
    ASSUME IInv, Open
    PROVE  IInv'
<1> USE SecretsAssumption DEF IInv
<1>1. SecretsTypeOK'
  <2>1. items' \subseteq Item
    BY DEF SecretsTypeOK, Open, Path, File, NoFile
  <2> QED BY <2>1 DEF SecretsTypeOK, Open, locals
<1>2. PointOK'
  BY DEF SecretsTypeOK, PointOK, Open, locals, Busy, Path
<1>3. MapOK'
  BY DEF SecretsTypeOK, PointOK, MapOK, Open, locals, OneValuePerId, Writing, Busy, Item, Id, Path
<1>4. LoneOK'
  BY DEF SecretsTypeOK, PointOK, LoneOK, Open, locals, Active, Path
<1>5. RefOK'
  BY DEF SecretsTypeOK, PointOK, LoneOK, RefOK, MapOK, Open, locals, Writing, Busy, Exists, Readable, Path
<1>6. MixedOK'
  BY DEF SecretsTypeOK, PointOK, LoneOK, MixedOK, Open, locals, Active, Exists, Readable, Path
<1> QED BY <1>1, <1>2, <1>3, <1>4, <1>5, <1>6 DEF IInv

-----------------------------------------------------------------------------
(* One step of any call, a crash or a restart keeps the invariant.         *)
LEMMA NextIInv == IInv /\ [SecretsNext]_secretVars => IInv'
<1> SUFFICES ASSUME IInv, [SecretsNext]_secretVars PROVE IInv'
  OBVIOUS
<1>1. ASSUME NEW c \in Caller, StoreDefault(c) PROVE IInv'
  BY <1>1, InsertStep, DumpStep, CreateStep, WriteStep, ChmodStep, RenameStep, FailStep
     DEF StoreDefault
<1>2. CASE SecretsCrash
  BY <1>2, CrashStep
<1>3. CASE Open
  BY <1>3, OpenStep
<1>4. CASE UNCHANGED secretVars
  BY <1>4 DEF secretVars, locals, IInv, SecretsTypeOK, PointOK, MapOK, LoneOK, RefOK, MixedOK, Writing
<1> QED BY <1>1, <1>2, <1>3, <1>4 DEF SecretsNext

(* The inductive invariant of FileSecrets.                                 *)
LEMMA Invariant == SecretsSpec => []IInv
<1> QED BY InitIInv, NextIInv, PTL DEF SecretsSpec

(* Secrets stored one at a time are never lost and never change hands,     *)
(* whatever store_default calls race later and wherever the process ends.  *)
THEOREM LoneRefsHold == SecretsSpec => []LoneRefsResolve
<1>1. IInv => LoneRefsResolve
  BY DEF IInv, RefOK, MapOK, OneValuePerId, LoneRefsResolve
<1> QED BY <1>1, Invariant, PTL

(* secrets.json never holds what the process does not, and no id is given  *)
(* to two values that are both still there.                                *)
THEOREM DiskNeverAhead == SecretsSpec => []DiskIsPastOfMemory
<1>1. IInv => DiskIsPastOfMemory
  BY DEF IInv, MapOK, OneValuePerId, DiskIsPastOfMemory
<1> QED BY <1>1, Invariant, PTL

(* persist replaces the file atomically while calls do not overlap.        *)
THEOREM ReplaceIsAtomic == SecretsSpec => []AtomicReplace
<1>1. IInv => AtomicReplace
  BY DEF IInv, MixedOK, AtomicReplace
<1> QED BY <1>1, Invariant, PTL
==============================================================================
