-------------------------- MODULE HashStoreProofs --------------------------
(***************************************************************************)
(* Proofs that HashStore.save is atomic (src/indexing/hashStore.ts): for   *)
(* any set of maps, whatever fails, as long as writeSync writes all it is  *)
(* given.                                                                  *)
(***************************************************************************)
EXTENDS HashStore, TLAPS

\* The inductive invariant: FileIsWhole alone is not kept by a rename unless
\* tmp is known to be whole then, nor by a power failure unless the directory
\* states it may bring back are known to hold whole, synced files.
IInv == TypeOK /\ (short \/ (TmpIsWhole /\ FilesArePromised))

\* load returns an index.
LEMMA RecoverType == ASSUME TypeOK PROVE Recover \in Index
  BY StoreAssumption DEF TypeOK, Recover, Data

\* Where the file was promised, it is what load returns.
LEMMA PromisedFileIsLoaded ==
  ASSUME TypeOK, Promised(file, promise), file # NoFile
  PROVE  file.text \in promise /\ Recover = file.text
  BY DEF TypeOK, Promised, Recover

\* The files the code makes are files.
LEMMA DataType ==
  /\ NoFile \in Data /\ \A x \in Index \cup {Torn} : Fresh(x) \in Data
  /\ \A x \in Data : /\ [x EXCEPT !.synced = TRUE] \in Data
                     /\ Survivors(x) \subseteq Data
<1>1. NoFile \in Data
  BY DEF NoFile, Data
<1>2. \A x \in Index \cup {Torn} : Fresh(x) \in Data
  BY DEF Fresh, Data
<1>3. \A x \in Data : [x EXCEPT !.synced = TRUE] \in Data
  BY DEF Data
<1>4. ASSUME NEW x \in Data PROVE Survivors(x) \subseteq Data
  <2>1. {x.text, Torn, Absent} \subseteq Index \cup {Absent, Torn} BY DEF Data
  <2>2. \A y \in Index \cup {Absent, Torn} : [text |-> y, synced |-> TRUE] \in Data
    BY DEF Data
  <2> QED BY <2>1, <2>2 DEF Survivors
<1> QED BY <1>1, <1>2, <1>3, <1>4

\* The invariant holds of the first file.
LEMMA InitIInv == Init => IInv
<1> SUFFICES ASSUME Init PROVE IInv
  OBVIOUS
<1>1. TypeOK
  BY DataType, StoreAssumption DEF Init, TypeOK
<1> QED BY <1>1 DEF Init, IInv, TmpIsWhole, FilesArePromised, Promised

\* Every action keeps the types.
LEMMA NextType == TypeOK /\ [Next]_vars => TypeOK'
<1> SUFFICES ASSUME TypeOK, [Next]_vars PROVE TypeOK'
  OBVIOUS
<1> USE StoreAssumption DEF TypeOK
<1>0. Here \in [file : Data, tmp : Data]
  BY DEF Here
<1>1. CASE Load
  <2>1. Recover \in Index BY RecoverType
  <2>2. tmp' \in Data /\ undo' \subseteq [file : Data, tmp : Data]
    BY <1>0, <1>1, DataType DEF Load, Unlink
  <2> QED BY <1>1, <2>1, <2>2 DEF Load
<1>2. CASE SaveOpen
  <2>1. tmp' \in Data BY <1>2, DataType DEF SaveOpen
  <2> QED BY <1>2, <2>1 DEF SaveOpen, mem
<1>3. CASE SaveWrite
  <2>1. tmp' \in Data BY <1>3, DataType DEF SaveWrite
  <2> QED BY <1>3, <2>1 DEF SaveWrite, mem, hist
<1>4. CASE SaveFsync
  <2>1. tmp' \in Data BY <1>4, DataType DEF SaveFsync
  <2> QED BY <1>4, <2>1 DEF SaveFsync, mem
<1>5. CASE SaveRename
  <2>1. /\ file' \in Data /\ tmp' \in Data
        /\ undo' \subseteq [file : Data, tmp : Data]
    BY <1>0, <1>5, DataType DEF SaveRename
  <2> QED BY <1>5, <2>1 DEF SaveRename, mem, hist
<1>6. CASE Commit
  BY <1>6 DEF Commit, mem
<1>7. CASE Crash
  BY <1>7 DEF Crash, Killed, fs, hist
<1>8. CASE PowerLoss
  <2>1. PICK d \in undo \cup {Here} :
          file' \in Survivors(d.file) /\ tmp' \in Survivors(d.tmp)
    BY <1>8 DEF PowerLoss
  <2>2. d.file \in Data /\ d.tmp \in Data BY <1>0
  <2>3. file' \in Data /\ tmp' \in Data BY <2>1, <2>2, DataType
  <2> QED BY <1>8, <2>3 DEF PowerLoss, Killed
<1>9. CASE \E v \in Index : Change(v)
  BY <1>9 DEF Change, fs, hist
<1>10. CASE UNCHANGED vars
  BY <1>10 DEF vars, mem, fs, hist
<1> QED BY <1>1, <1>2, <1>3, <1>4, <1>5, <1>6, <1>7, <1>8, <1>9, <1>10 DEF Next

\* Every action keeps the rest of the invariant unless a write is short.
LEMMA NextPromised ==
  ASSUME ~short', IInv, TypeOK', [Next]_vars
  PROVE  TmpIsWhole' /\ FilesArePromised'
<1>s. ~short
  BY DEF IInv, TypeOK, Next, vars, Load, SaveOpen, SaveWrite, SaveFsync, SaveRename,
         Commit, Crash, PowerLoss, Change
<1>0. TypeOK /\ TmpIsWhole /\ FilesArePromised
  BY <1>s DEF IInv
<1> USE DEF Promised
<1>1. CASE Load
  <2>1. file' = file /\ pc' = pc /\ previous' = previous
        /\ entries' = Recover /\ promise' = {Recover}
    BY <1>1 DEF Load
  <2>2. file = NoFile \/ (Recover = file.text /\ file.synced)
    BY <1>0, PromisedFileIsLoaded DEF FilesArePromised
  <2>3. \A d \in undo' : d \in undo \/ d.file = file
    BY <1>1 DEF Load, Unlink, Here
  <2>4. FilesArePromised'
    BY <1>0, <2>1, <2>2, <2>3 DEF FilesArePromised
  <2>5. pc = "idle" BY <1>0, <1>1 DEF Load, TmpIsWhole
  <2> QED BY <2>1, <2>4, <2>5 DEF TmpIsWhole
<1>2. CASE SaveOpen
  BY <1>0, <1>2 DEF SaveOpen, TmpIsWhole, FilesArePromised, mem
<1>3. CASE SaveWrite
  BY <1>0, <1>3 DEF SaveWrite, TmpIsWhole, FilesArePromised, mem, hist, Fresh
<1>4. CASE SaveFsync
  <2>1. tmp'.text = tmp.text /\ (pc' = "rename" => tmp'.synced) /\ pc' \in {"rename", "idle"}
    BY <1>0, <1>4 DEF SaveFsync, TypeOK, Data
  <2> QED BY <1>0, <1>4, <2>1 DEF SaveFsync, TmpIsWhole, FilesArePromised, mem
<1>5. CASE SaveRename
  <2>1. CASE UNCHANGED <<file, tmp, undo, hist>>
    BY <1>0, <1>5, <2>1 DEF SaveRename, TmpIsWhole, FilesArePromised, mem, hist
  <2>2. CASE /\ file' = tmp /\ undo' = undo \cup {Here}
             /\ promise' = {entries} /\ previous' = previous \cup promise
    <3>1. Promised(file', promise') /\ pc' = "idle"
      BY <1>0, <1>5, <2>2 DEF SaveRename, TmpIsWhole
    <3>2. \A d \in undo' : Promised(d.file, previous')
      BY <1>0, <2>2 DEF FilesArePromised, Here
    <3> QED BY <3>1, <3>2 DEF TmpIsWhole, FilesArePromised
  <2> QED BY <1>5, <2>1, <2>2 DEF SaveRename
<1>6. CASE Commit
  BY <1>0, <1>6 DEF Commit, TmpIsWhole, FilesArePromised, mem
<1>7. CASE Crash
  BY <1>0, <1>7 DEF Crash, Killed, TmpIsWhole, FilesArePromised, fs, hist
<1>8. CASE PowerLoss
  <2>1. PICK d \in undo \cup {Here} : file' \in Survivors(d.file)
    BY <1>8 DEF PowerLoss
  <2>2. Promised(d.file, promise \cup previous)
    BY <1>0, <2>1 DEF FilesArePromised, Here
  <2>3. file' = d.file
    BY <2>1, <2>2 DEF Survivors, NoFile
  <2> QED BY <1>8, <2>2, <2>3 DEF PowerLoss, Killed, TmpIsWhole, FilesArePromised
<1>9. CASE \E v \in Index : Change(v)
  BY <1>0, <1>9 DEF Change, TmpIsWhole, FilesArePromised, fs, hist
<1>10. CASE UNCHANGED vars
  BY <1>0, <1>10 DEF vars, mem, fs, hist, TmpIsWhole, FilesArePromised
<1> QED BY <1>1, <1>2, <1>3, <1>4, <1>5, <1>6, <1>7, <1>8, <1>9, <1>10 DEF Next

\* What the invariant gives the reader of index-state.json
LEMMA IInvIsAtomic == IInv => FileIsWhole /\ LoadIsOldOrNew
  BY StoreAssumption, PromisedFileIsLoaded
  DEF IInv, TypeOK, FilesArePromised, Promised, FileIsWhole, LoadIsOldOrNew, NoFile

\* Type correctness of the store, short writes or not.
THEOREM StoreTypeCorrectness == Spec => []TypeOK
<1>1. Init => TypeOK BY InitIInv DEF IInv
<1> QED BY <1>1, NextType, PTL DEF Spec

\* The invariant holds of every history.
LEMMA IInvHolds == Spec => []IInv
<1>1. IInv /\ [Next]_vars => IInv'
  BY NextType, NextPromised DEF IInv
<1> QED BY <1>1, InitIInv, PTL DEF Spec

\* No crash, power failure or error leaves half a state file under its name -
\* as long as writeSync writes everything.
THEOREM FileStaysWhole == Spec => []FileIsWhole
  BY IInvHolds, IInvIsAtomic, PTL

\* HashStore.save is atomic for every crash, power failure and error, as
\* hashStore.ts:86-88 says - as long as writeSync writes everything: what a load
\* finds is the index last saved or, the rename not yet committed, one before.
THEOREM SavesAreAtomic == Spec => []LoadIsOldOrNew
  BY IInvHolds, IInvIsAtomic, PTL

\* A state file whose rename has been committed never goes missing again.
THEOREM CommittedFilesStay == Spec => CommittedFileStays
<1>1. IInv /\ [Next]_vars => IInv'
  BY NextType, NextPromised DEF IInv
<1>2. IInv /\ [Next]_vars => [~short /\ file # NoFile /\ undo = {} => file' # NoFile]_vars
  <2> SUFFICES ASSUME IInv, Next, ~short, file # NoFile, undo = {} PROVE file' # NoFile
    BY DEF vars
  <2>1. CASE SaveRename
    BY <2>1, StoreAssumption DEF SaveRename, IInv, TmpIsWhole, TypeOK, NoFile
  <2>2. CASE PowerLoss
    BY <2>2 DEF PowerLoss, Survivors, Here, IInv, FilesArePromised, Promised
  <2> QED BY <2>1, <2>2 DEF Next, Load, SaveOpen, SaveWrite, SaveFsync, Commit, Crash, Change, fs
<1> QED BY <1>1, <1>2, InitIInv, PTL DEF Spec, CommittedFileStays
=============================================================================
