------------------------------ MODULE MCStores ------------------------------
(* Execution over either store.  A behaviour is about one of them: about   *)
(* MemoryCatalog with the constants of the configuration, or about a       *)
(* SqliteCatalog that survives restarts, behind an executor that admits    *)
(* one call at a time and whose tool asks, also for authorization.         *)
EXTENDS MCExecution

VARIABLE onDisk

Sqlite == INSTANCE Execution WITH
    SqliteStore <- TRUE, MaxInFlight <- 1, OauthTool <- TRUE, MaxCrashes <- 1,
    Policies <- {"require"}, Choices <- {"none"}

StoresInit == onDisk \in BOOLEAN /\ IF onDisk THEN Sqlite!Init ELSE Init

StoresNext ==
    /\ IF onDisk THEN Sqlite!Next ELSE Next
    /\ UNCHANGED onDisk

StoresSpec == StoresInit /\ [][StoresNext]_<<vars, onDisk>>
=============================================================================
