----------------------------- MODULE HashStore -----------------------------
(***************************************************************************)
(* index-state.json on disk: HashStore.load and HashStore.save             *)
(* (src/indexing/hashStore.ts), system call by system call.                *)
(*                                                                         *)
(* The code is synchronous, so nothing of the plugin runs between two      *)
(* calls of one save - but the process can be killed there, the power can  *)
(* fail there, and each call can throw.  An index map is one value; a file *)
(* holds a whole map, or is absent, or is torn (JSON.parse throws).        *)
(* The file system is a journaling one (external): directory changes       *)
(* survive a power failure in the order they were made, up to some moment  *)
(* after the last fsync; data that was not fsynced may be lost.            *)
(***************************************************************************)
CONSTANTS
  Index,       \* the {path -> entry} maps
  Empty,       \* the map without entries
  Absent,      \* no such file
  Torn         \* a file that does not parse

ASSUME StoreAssumption ==
  Empty \in Index /\ Absent \notin Index /\ Torn \notin Index /\ Absent # Torn

VARIABLES
  entries, loaded,  \* the HashStore object
  pc,               \* the next system call of save
  file, tmp,        \* index-state.json and index-state.json.tmp
  undo,             \* directory states that a power failure may bring back
  promise,          \* history: what the next load may return
  previous,         \* history: what it may return if the rename is undone
  short             \* history: some writeSync stored less than it was given

fs   == <<file, tmp, undo>>
mem  == <<entries, loaded>>
hist == <<promise, previous>>
vars == <<mem, pc, fs, hist, short>>

\* What a name stands for, and whether its data is on the device
Data     == [text : Index \cup {Absent, Torn}, synced : BOOLEAN]
NoFile   == [text |-> Absent, synced |-> TRUE]
Fresh(x) == [text |-> x, synced |-> FALSE]
Here     == [file |-> file, tmp |-> tmp]

TypeOK ==
  /\ entries \in Index /\ loaded \in BOOLEAN
  /\ pc \in {"idle", "write", "fsync", "rename"}
  /\ file \in Data /\ tmp \in Data /\ undo \subseteq [file : Data, tmp : Data]
  /\ promise \subseteq Index /\ previous \subseteq Index /\ short \in BOOLEAN

----------------------------------------------------------------------------
\* Mutant: the temporary file is tried first.
RecoverNewest ==
  IF tmp.text \in Index THEN tmp.text
  ELSE IF file.text \in Index THEN file.text ELSE Empty

\* readIfValid(path) ?? readIfValid(tmp) ?? {}
Recover ==
  IF file.text \in Index THEN file.text
  ELSE IF tmp.text \in Index THEN tmp.text ELSE Empty

\* The temporary file is removed, if it is there and the unlink works.
Unlink ==
  \/ tmp' = NoFile /\ undo' = (IF tmp = NoFile THEN undo ELSE undo \cup {Here})
  \/ tmp # NoFile /\ UNCHANGED <<tmp, undo>>

Load ==
  /\ ~loaded /\ loaded' = TRUE
  /\ entries' = Recover
  /\ Unlink
  /\ promise' = {Recover}
  /\ UNCHANGED <<pc, file, previous, short>>

\* set and delete, any number of them
Change(v) ==
  /\ loaded /\ pc = "idle"
  /\ entries' = v
  /\ UNCHANGED <<loaded, pc, fs, hist, short>>

\* save: openSync(tmp, "w") creates or truncates; nothing before load.
SaveOpen ==
  /\ loaded /\ pc = "idle" /\ pc' = "write"
  /\ tmp' = Fresh(Torn)
  /\ promise' = promise \cup {entries}
  /\ UNCHANGED <<mem, file, undo, previous, short>>

\* writeSync stores the map, part of it unnoticed, or throws
\* (closeSync in "finally"; the exception leaves save).
SaveWrite ==
  /\ pc = "write"
  /\ \/ tmp' = Fresh(entries) /\ pc' = "fsync" /\ UNCHANGED short
     \/ UNCHANGED tmp /\ pc' = "fsync" /\ short' = TRUE
     \/ UNCHANGED <<tmp, short>> /\ pc' = "idle"
  /\ UNCHANGED <<mem, file, undo, hist>>

\* Mutant: no fsync before the rename.
SaveFsyncSkipped ==
  /\ pc = "fsync" /\ pc' = "rename"
  /\ UNCHANGED <<mem, fs, hist, short>>

\* fsyncSync: the data, and the directory changes up to here, are durable.
SaveFsync ==
  /\ pc = "fsync"
  /\ \/ /\ tmp' = [tmp EXCEPT !.synced = TRUE] /\ pc' = "rename"
        /\ undo' = {} /\ previous' = {}
     \/ pc' = "idle" /\ UNCHANGED <<tmp, undo, previous>>
  /\ UNCHANGED <<mem, file, promise, short>>

\* Mutant: the target is removed first, for systems whose rename refuses to
\* replace a file.
SaveRenameUnlinking ==
  /\ pc = "rename"
  /\ \/ /\ file # NoFile /\ file' = NoFile
        /\ UNCHANGED <<pc, tmp, undo, hist>>
     \/ /\ file = NoFile /\ pc' = "idle"
        /\ file' = tmp /\ tmp' = NoFile /\ undo' = undo \cup {Here}
        /\ promise' = {entries} /\ previous' = previous \cup promise
  /\ UNCHANGED <<mem, short>>

\* renameSync replaces the target at once, or throws.
SaveRename ==
  /\ pc = "rename" /\ pc' = "idle"
  /\ \/ /\ file' = tmp /\ tmp' = NoFile /\ undo' = undo \cup {Here}
        /\ promise' = {entries} /\ previous' = previous \cup promise
     \/ UNCHANGED <<file, tmp, undo, hist>>
  /\ UNCHANGED <<mem, short>>

\* The operating system commits its journal (external).
Commit ==
  /\ undo # {} /\ undo' = {} /\ previous' = {}
  /\ UNCHANGED <<mem, pc, file, tmp, promise, short>>

\* Obsidian quits or is killed, between any two system calls.
Killed == loaded' = FALSE /\ entries' = Empty /\ pc' = "idle"

Crash ==
  /\ Killed
  /\ UNCHANGED <<fs, hist, short>>

\* After a power failure, data that was not synced is whole, torn or nameless.
Survivors(x) ==
  IF x.synced THEN {x}
  ELSE {[text |-> y, synced |-> TRUE] : y \in {x.text, Torn, Absent}}

\* The machine stops: the directory is as it was at some moment since the last
\* commit.
PowerLoss ==
  /\ Killed
  /\ \E d \in undo \cup {Here} : file' \in Survivors(d.file) /\ tmp' \in Survivors(d.tmp)
  /\ undo' = {}
  /\ promise' = promise \cup previous /\ previous' = {}
  /\ UNCHANGED short

----------------------------------------------------------------------------
Init ==
  /\ entries = Empty /\ loaded = FALSE /\ pc = "idle"
  /\ file = NoFile /\ tmp = NoFile /\ undo = {}
  /\ promise = {Empty} /\ previous = {} /\ short = FALSE

Next ==
  \/ Load \/ SaveOpen \/ SaveWrite \/ SaveFsync \/ SaveRename
  \/ Commit \/ Crash \/ PowerLoss
  \/ \E v \in Index : Change(v)

Spec == Init /\ [][Next]_vars

----------------------------------------------------------------------------
(* Properties.  save ignores what writeSync returns (hashStore.ts:92), so    *)
(* that all of them are lost with the first write that comes up short.      *)

\* hashStore.ts:87 "never a torn one": index-state.json always parses,
\* whichever system call of save failed or was the last before a crash or a
\* power failure.
FileIsWhole == short \/ file.text # Torn

\* hashStore.ts:86 "either the old or the new complete file": once a file is
\* there, a restart loads the map of the last save that returned, or of one
\* begun since, or - if a power failure undid the last rename - of the one
\* before; never an older one, never nothing.  (Before the first rename it
\* may be nothing: load unlinks the temporary file it recovered from.)
LoadIsOldOrNew == short \/ (file # NoFile => Recover \in promise)

\* A state file whose rename has reached the disk is never lost again, so
\* "the sole path that forces a full re-index" (hashStore.ts:35) is closed.
CommittedFileStays == [][~short /\ file # NoFile /\ undo = {} => file' # NoFile]_vars

----------------------------------------------------------------------------
(* What makes these inductive (module HashStoreProofs) *)

\* save runs on a loaded store, and reaches rename only with the whole map,
\* on the device, in tmp.
TmpIsWhole ==
  /\ pc # "idle" => loaded
  /\ pc = "fsync" => tmp.text = entries
  /\ pc = "rename" => tmp.text = entries /\ tmp.synced

\* A file that was promised: whole and on the device, or not there at all
Promised(x, maps) == x = NoFile \/ (x.text \in maps /\ x.synced)

\* The file that is there was promised, and so was what a power failure may
\* bring back, and the map that is being saved.
FilesArePromised ==
  /\ Promised(file, promise)
  /\ \A d \in undo : d.file = file \/ Promised(d.file, previous)
  /\ pc # "idle" => entries \in promise
=============================================================================
