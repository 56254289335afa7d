----------------------------- MODULE ConfigReload -----------------------------
(***************************************************************************)
(* The configuration file between the engine and everyone else: load(),    *)
(* save() and atomic_write() of src/src/config.rs, and file_version(),     *)
(* reload_changed_config(), save_config() of src/src/engine.rs.            *)
(*                                                                         *)
(* The engine's one thread stats, opens, renames and syncs in separate     *)
(* steps; other programs write, remove or move the file between any two of *)
(* them, and the machine may lose its power.  What apply_config() does to  *)
(* a connection is in the module Engine.                                   *)
(***************************************************************************)
EXTENDS Naturals

CONSTANTS
  Values,     \* valid configurations
  Default,    \* Config::default(), what load() returns for a missing file
  Broken,     \* content that does not parse or validate
  Edits,      \* what other programs leave in the file
  None,       \* no file, no version, nothing read or acknowledged
  ReadFails,  \* whether the file may be impossible to open for a while
  MaxStamp    \* bound: how often the file is written

ASSUME ConfigAssumption ==
  /\ Default \notin Values /\ Broken \notin Values /\ None \notin Values
  /\ Default # Broken /\ None # Default /\ None # Broken /\ None \notin Nat
  /\ Edits \subseteq Values \cup {Broken}
  /\ ReadFails \in BOOLEAN /\ MaxStamp \in Nat \ {0}

VARIABLES
  file,    \* the configuration file: its value, its version, whether it is synced
  disk,    \* the directory entry that a loss of power may bring back
  tmp,     \* the file of an atomic_write() under way
  clock,   \* the newest version
  config,  \* Engine.config
  version, \* Engine.config_version
  error,   \* Engine.config_error
  pc,      \* the next step of the engine's thread
  job,     \* what is loading: the start, the periodic reload or a call
  look,    \* the version seen before the load
  got,     \* what was read, None if that failed
  acked    \* the last configuration acknowledged to a client, if no one else wrote since

files == <<file, disk, clock>>
fields == <<config, version, error>>
loading == <<job, look, got>>
vars == <<files, tmp, fields, pc, loading, acked>>

\* A write never gives the file a version it had before.
File == [value : Values \cup {Broken}, stamp : 1..MaxStamp, synced : BOOLEAN]

\* file_version(): the time of the last write and the length.
FileVersion == IF file = None THEN None ELSE file.stamp

-----------------------------------------------------------------------------
(* load()                                                                  *)

\* Engine::new() and reload_changed_config() look at the version first.
Boot ==
  /\ pc = "boot"
  /\ job' = "boot" /\ look' = FileVersion /\ got' = None /\ pc' = "exists"
  /\ UNCHANGED <<files, tmp, fields, acked>>

Reload ==
  /\ pc = "idle" /\ file # None /\ (error \/ version # FileVersion)
  /\ job' = "reload" /\ look' = FileVersion /\ got' = None /\ pc' = "exists"
  /\ UNCHANGED <<files, tmp, fields, acked>>

ReloadCall ==
  /\ pc = "idle"
  /\ job' = "call" /\ look' = None /\ got' = None /\ pc' = "exists"
  /\ UNCHANGED <<files, tmp, fields, acked>>

Exists ==
  /\ pc = "exists"
  /\ IF file = None THEN got' = Default /\ pc' = "apply" ELSE got' = got /\ pc' = "open"
  /\ UNCHANGED <<files, tmp, fields, job, look, acked>>

\* What read() and validate() accept.
Readable == IF file = None THEN {} ELSE {file.value} \cap Values

\* The file is opened and read as a whole.
OpenReads ==
  /\ pc = "open" /\ got' \in Readable /\ pc' = "apply"
  /\ UNCHANGED <<files, tmp, fields, job, look, acked>>

OpenFails ==
  /\ pc = "open" /\ (ReadFails \/ Readable = {})
  /\ pc' = "apply"
  /\ UNCHANGED <<files, tmp, fields, loading, acked>>

\* Mutants: the version is that of the file after the read; a failure is recorded as
\* if the version had been read.
Apply_PostVersion ==
  /\ pc = "apply" /\ pc' = "idle"
  /\ IF got # None
     THEN /\ config' = got
          /\ IF job = "call" THEN UNCHANGED <<version, error>>
             ELSE version' = FileVersion /\ error' = FALSE
     ELSE UNCHANGED fields
  /\ UNCHANGED <<files, tmp, loading, acked>>

Apply_RecordsFailed ==
  /\ pc = "apply" /\ pc' = "idle"
  /\ config' = IF got # None THEN got ELSE config
  /\ IF job = "call" THEN UNCHANGED <<version, error>> ELSE version' = look /\ error' = FALSE
  /\ UNCHANGED <<files, tmp, loading, acked>>

\* A call that fails changes nothing.
Apply ==
  /\ pc = "apply" /\ pc' = "idle"
  /\ IF got # None
     THEN /\ config' = got
          /\ IF job = "call" THEN UNCHANGED <<version, error>>
             ELSE version' = look /\ error' = FALSE
     ELSE /\ config' = config /\ version' = version
          /\ error' = (job # "call" \/ error)
  /\ UNCHANGED <<files, tmp, loading, acked>>

-----------------------------------------------------------------------------
(* save_config() and atomic_write()                                        *)

Write(v) ==
  /\ pc = "idle" /\ clock < MaxStamp
  /\ clock' = clock + 1
  /\ tmp' = [value |-> v, stamp |-> clock', synced |-> FALSE]
  /\ pc' = "sync"
  /\ UNCHANGED <<file, disk, fields, loading, acked>>

\* Mutant: the content is not synced before the rename.
Sync_Skipped ==
  /\ pc = "sync" /\ pc' = "rename"
  /\ UNCHANGED <<files, tmp, fields, loading, acked>>

Sync ==
  /\ pc = "sync" /\ pc' = "rename"
  /\ tmp' = [tmp EXCEPT !.synced = TRUE]
  /\ UNCHANGED <<files, fields, loading, acked>>

Rename ==
  /\ pc = "rename" /\ pc' = "syncdir"
  /\ file' = tmp /\ tmp' = None
  /\ acked' = None
  /\ got' = file'.value
  /\ UNCHANGED <<disk, clock, fields, job, look>>

\* Mutant: the directory is not synced.
SyncDir_Skipped ==
  /\ pc = "syncdir" /\ pc' = "saved"
  /\ UNCHANGED <<files, tmp, fields, loading, acked>>

SyncDir ==
  /\ pc = "syncdir" /\ pc' = "saved"
  /\ disk' = file
  /\ UNCHANGED <<file, clock, tmp, fields, loading, acked>>

\* Applied and acknowledged; the version last read is left as it is.
Saved ==
  /\ pc = "saved" /\ pc' = "idle"
  /\ config' = got
  /\ acked' = IF file # None /\ file.value = got THEN got ELSE None
  /\ UNCHANGED <<files, tmp, version, error, loading>>

\* Any of these steps may fail, on Windows also the service's start mode after the
\* save: the temporary file is removed, nothing is applied, the client is told.
SaveFails ==
  /\ pc \in {"sync", "rename", "syncdir", "saved"} /\ pc' = "idle"
  /\ tmp' = None
  /\ UNCHANGED <<files, fields, loading, acked>>

-----------------------------------------------------------------------------
(* The rest of the machine.                                                *)

\* Another program writes: by a rename, or in place and then Broken for a while.
Edit(v) ==
  /\ clock < MaxStamp /\ clock' = clock + 1
  /\ file' = [value |-> v, stamp |-> clock', synced |-> TRUE]
  /\ disk' = file' /\ acked' = None
  /\ UNCHANGED <<tmp, fields, pc, loading>>

Remove ==
  /\ file # None /\ file' = None /\ disk' = None /\ acked' = None
  /\ UNCHANGED <<clock, tmp, fields, pc, loading>>

\* Content that was never synced may be gone, although the name is there.
AfterCrash(f) ==
  IF f # None /\ ~f.synced THEN [f EXCEPT !.value = Broken, !.synced = TRUE] ELSE f

\* The process or the machine stops; what was not synced may be lost.
Crash ==
  /\ \E f \in {file, disk} : file' = AfterCrash(f) /\ disk' = file'
  /\ tmp' = None
  /\ config' = Default /\ version' = None /\ error' = FALSE /\ pc' = "boot"
  /\ job' = "boot" /\ look' = None /\ got' = None
  /\ UNCHANGED <<clock, acked>>

Init ==
  /\ clock = 1
  /\ \E v \in Values : file = [value |-> v, stamp |-> 1, synced |-> TRUE]
  /\ disk = file /\ tmp = None /\ acked = None
  /\ config = Default /\ version = None /\ error = FALSE /\ pc = "boot"
  /\ job = "boot" /\ look = None /\ got = None

Loading == Boot \/ Exists \/ OpenFails \/ Apply
Saving == Sync \/ Rename \/ SyncDir \/ Saved \/ SaveFails

Next ==
  \/ Loading \/ OpenReads \/ Reload \/ ReloadCall
  \/ \E v \in Values : Write(v)
  \/ Saving
  \/ \E v \in Edits : Edit(v)
  \/ Remove \/ Crash

Spec == Init /\ [][Next]_vars

\* The thread goes on; every tick after the reload's deadline has passed looks at
\* the file, whatever calls are served between; a file is not held for ever.
FairSpec ==
  Spec /\ WF_vars(Loading \/ Saving) /\ SF_vars(Reload) /\ SF_vars(OpenReads)

-----------------------------------------------------------------------------
(* Properties.                                                             *)

TypeOK ==
  /\ {file, disk, tmp} \subseteq File \cup {None}
  /\ clock \in 1..MaxStamp
  /\ config \in Values \cup {Default} /\ version \in 1..MaxStamp \cup {None}
  /\ error \in BOOLEAN
  /\ pc \in {"boot", "idle", "exists", "open", "apply", "sync", "rename", "syncdir", "saved"}
  /\ job \in {"boot", "reload", "call"} /\ look \in 1..MaxStamp \cup {None}
  /\ got \in Values \cup {Default, None} /\ acked \in Values \cup {None}

\* Whatever fails and whenever the power is lost, only another program that writes
\* in place breaks the file: the program itself leaves an old or a new configuration,
\* never a part of one (docs/ARCHITECTURE.md:47).
IsBroken(f) == f # None /\ f.value = Broken
OthersBreakIt ==
  [][IsBroken(file') => IsBroken(file) \/ IsBroken(disk) \/ \E v \in Edits : Edit(v)]_vars

\* A configuration that a client was told is saved is there, also after a crash,
\* until someone writes another.
AckedSurvives == acked # None => file # None /\ file.value = acked

\* A version the engine takes for read was read: a write that raced the read is
\* noticed by the next reload (engine.rs:234).
VersionIsRead ==
  pc = "idle" /\ ~error /\ file # None /\ version = file.stamp => config = file.value

\* A file that others or a half-failed save left for good becomes the configuration.
FileIsFollowed ==
  <>[][~Crash]_vars =>
    \A v \in Values : <>[](file # None /\ file.value = v) => <>[](config = v)
=============================================================================
