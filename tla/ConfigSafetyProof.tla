-------------------------- MODULE ConfigSafetyProof --------------------------
(***************************************************************************)
(* Theorems about ConfigReload.                                            *)
(***************************************************************************)
EXTENDS ConfigReload, TLAPS

Saves == {"sync", "rename", "syncdir", "saved"}

\* What the thread holds between two of its steps.
Step ==
  /\ pc \in {"exists", "open"} => got = None
  /\ pc \in {"sync", "rename"} => tmp \in File /\ tmp.value \in Values
  /\ pc = "rename" => tmp.synced
  /\ pc \in {"syncdir", "saved"} => got \in Values
  /\ pc = "saved" => disk = file

\* No version is newer than the clock, and a file about to be renamed is newer
\* than what was looked at.
Stamps ==
  /\ version # None => version <= clock
  /\ look # None => look <= clock
  /\ file # None => file.stamp <= clock
  /\ disk # None => disk.stamp <= clock
  /\ pc \in {"sync", "rename"} =>
       /\ tmp.stamp <= clock
       /\ version # None => version < tmp.stamp
       /\ look # None => look < tmp.stamp

\* What is known of a file of the version read: the configuration is its content,
\* and what is about to be applied as that version is, too.
Reads ==
  file # None =>
    /\ version = file.stamp => config = file.value
    /\ pc = "apply" /\ got # None /\ file.stamp \in {version, look} => got = file.value
    /\ pc \in {"syncdir", "saved"} => version # file.stamp

\* Everything that has a name was synced before.
Synced ==
  /\ file # None => file.synced
  /\ disk # None => disk.synced

Acked == acked # None => disk = file /\ file # None /\ file.value = acked

IInv == TypeOK /\ Step /\ Stamps /\ Reads /\ Synced /\ Acked

LEMMA InitIInv == Init => IInv
<1> SUFFICES ASSUME Init PROVE IInv OBVIOUS
<1>1. PICK v \in Values : file = [value |-> v, stamp |-> 1, synced |-> TRUE]
  BY DEF Init
<1>2. file \in File /\ 1 \in 1..MaxStamp
  BY <1>1, ConfigAssumption DEF File
<1>3. {file, disk, tmp} \subseteq File \cup {None}
  BY <1>2 DEF Init
<1>4. TypeOK
  BY <1>2, <1>3 DEF Init, TypeOK
<1>5. Step /\ Stamps /\ Reads /\ Synced /\ Acked
  BY <1>1, ConfigAssumption DEF Init, Step, Stamps, Reads, Synced, Acked
<1> QED BY <1>4, <1>5 DEF IInv

LEMMA StepIInv == IInv /\ [Next]_vars => IInv'
<1> SUFFICES ASSUME IInv, [Next]_vars PROVE IInv' OBVIOUS
<1> USE ConfigAssumption
<1> USE DEF IInv, TypeOK, Step, Stamps, Reads, Synced, Acked, FileVersion
<1>1. CASE Boot
  BY <1>1 DEF Boot, files, fields, File
<1>2. CASE Exists
  BY <1>2 DEF Exists, files, fields, File
<1>3. CASE OpenFails
  BY <1>3 DEF OpenFails, files, fields, loading, File
<1>4. CASE Apply
  <2>1. UNCHANGED <<file, disk, clock, tmp, job, look, got, acked>> /\ pc = "apply" /\ pc' = "idle"
    BY <1>4 DEF Apply, files, loading
  <2>2. /\ config' = IF got # None THEN got ELSE config
        /\ version' \in {version, look} /\ error' \in BOOLEAN
        /\ got = None => version' = version
    BY <1>4 DEF Apply
  <2>3. TypeOK'
    BY <2>1, <2>2
  <2>4. Reads'
    BY <2>1, <2>2
  <2> QED BY <2>1, <2>2, <2>3, <2>4
<1>5. CASE OpenReads
  BY <1>5 DEF OpenReads, Readable, files, fields, File
<1>6. CASE Reload
  BY <1>6 DEF Reload, files, fields, File
<1>7. CASE ReloadCall
  BY <1>7 DEF ReloadCall, files, fields, File
<1>8. ASSUME NEW v \in Values, Write(v) PROVE IInv'
  BY <1>8 DEF Write, fields, loading, File
<1>9. CASE Sync
  <2>1. /\ tmp' \in File /\ tmp'.value = tmp.value /\ tmp'.stamp = tmp.stamp /\ tmp'.synced
        /\ pc = "sync" /\ pc' = "rename"
    BY <1>9 DEF Sync, File
  <2>2. UNCHANGED <<file, disk, clock, config, version, error, job, look, got, acked>>
    BY <1>9 DEF Sync, files, fields, loading
  <2>3. TypeOK'
    BY <2>1, <2>2
  <2> QED BY <2>1, <2>2, <2>3
<1>10. CASE Rename
  BY <1>10 DEF Rename, fields, File
<1>11. CASE SyncDir
  BY <1>11 DEF SyncDir, fields, loading, File
<1>12. CASE Saved
  BY <1>12 DEF Saved, files, loading, File
<1>13. CASE SaveFails
  BY <1>13 DEF SaveFails, files, fields, loading, File
<1>14. ASSUME NEW v \in Edits, Edit(v) PROVE IInv'
  BY <1>14 DEF Edit, fields, loading, File
<1>15. CASE Remove
  BY <1>15 DEF Remove, fields, loading, File
<1>16. CASE Crash
  <2>1. /\ file' \in {file, disk} /\ disk' = file' /\ tmp' = None
        /\ UNCHANGED <<clock, acked>>
        /\ config' = Default /\ version' = None /\ error' = FALSE /\ pc' = "boot"
        /\ job' = "boot" /\ look' = None /\ got' = None
    BY <1>16 DEF Crash, AfterCrash
  <2>2. TypeOK'
    BY <2>1
  <2>3. Reads'
    BY <2>1 DEF File
  <2> QED BY <2>1, <2>2, <2>3
<1>17. CASE UNCHANGED vars
  BY <1>17 DEF vars, files, fields, loading
<1> QED
  BY <1>1, <1>2, <1>3, <1>4, <1>5, <1>6, <1>7, <1>8, <1>9, <1>10, <1>11, <1>12,
     <1>13, <1>14, <1>15, <1>16, <1>17 DEF Next, Loading, Saving

\* What every step of the program, of other programs and of a crash keeps.
THEOREM Inductive == Spec => []IInv
  BY InitIInv, StepIInv, PTL DEF Spec

\* For any values, edits and number of writes, the variables keep their types.
THEOREM TypeCorrect == Spec => []TypeOK
  BY Inductive, PTL DEF IInv

\* The program itself never leaves a part of a configuration.
THEOREM OnlyOthersBreakIt == Spec => OthersBreakIt
<1>1. IInv /\ [Next]_vars
        => [IsBroken(file') => IsBroken(file) \/ IsBroken(disk) \/ \E v \in Edits : Edit(v)]_vars
  <2> SUFFICES ASSUME IInv, Next, IsBroken(file'), ~IsBroken(file), ~IsBroken(disk)
               PROVE  \E v \in Edits : Edit(v)
    OBVIOUS
  <2>1. file' # file /\ file' # None
    BY DEF IsBroken
  <2>2. ~Rename
    BY ConfigAssumption DEF Rename, IsBroken, IInv, Step
  <2>3. ~Crash
    BY DEF Crash, AfterCrash, IsBroken, IInv, Synced
  <2> QED
    BY <2>1, <2>2, <2>3 DEF Next, Loading, Saving, Boot, Exists, OpenFails, Apply, OpenReads,
       Reload, ReloadCall, Write, Sync, SyncDir, Saved, SaveFails, Remove, files
<1> QED BY <1>1, Inductive, PTL DEF Spec, OthersBreakIt

\* What was acknowledged is in the file, also after a loss of power.
THEOREM AckedStays == Spec => []AckedSurvives
<1>1. IInv => AckedSurvives
  BY DEF IInv, Acked, AckedSurvives
<1> QED BY <1>1, Inductive, PTL

\* A version that counts as read was read, whoever wrote in between.
THEOREM VersionWasRead == Spec => []VersionIsRead
<1>1. IInv => VersionIsRead
  BY DEF IInv, Reads, VersionIsRead
<1> QED BY <1>1, Inductive, PTL
=============================================================================
