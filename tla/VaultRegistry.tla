--------------------------- MODULE VaultRegistry ---------------------------
(***************************************************************************)
(* The registry of vaults that share Uru's runtime, and the cleanup that   *)
(* relies on it.                                                           *)
(*                                                                         *)
(*   src/vaultRegistry.ts  applyTouch, computeOtherActiveVaults,           *)
(*                         touchVault, removeVault, pruneOrphanVaultData   *)
(*   main.ts               doRunBackend, persistBackend, deleteData        *)
(*   src/settings.ts       the preflight behind the Uninstall button       *)
(*                                                                         *)
(* Every open vault is a window, that is a process, of its own: between    *)
(* two file operations of one window those of the others may come.         *)
(* vaults.json is written in place, so for a while it does not parse.      *)
(***************************************************************************)
CONSTANTS
  Vaults,     \* vault directories; a vault is known by its resolved path
  Keys,       \* vaultKeys: random UUIDs, never minted twice
  None, Torn, \* no value; a vaults.json that does not parse
  Modes       \* the kinds of history: the vaults that are opened, whether the
              \* file operations of two windows never interleave, and whether
              \* windows are killed midway and writes fail

ASSUME RegistryAssumption ==
  /\ None \notin Vaults /\ None \notin Keys
  /\ Torn \notin [Keys -> Vaults \cup {None}]
  /\ Modes \subseteq [vaults : SUBSET Vaults, exclusive : BOOLEAN, faults : BOOLEAN]

VARIABLES
  mode,     \* the kind of this history
  reg,      \* vaults.json
  dirs,     \* vaults/<key>: none, empty, or holding a database
  runtime,  \* the shared runtime directory is there
  key,      \* settings.vaultKey of each vault
  minted,   \* the keys in use so far
  pc, snap, \* where each window is; the registry it is about to write
  doomed,   \* the directories pruneOrphanVaultData has yet to remove
  asked     \* the uninstall button was enabled and clicked

vars == <<mode, reg, dirs, runtime, key, minted, pc, snap, doomed, asked>>

Registry == [Keys -> Vaults \cup {None}]
NoVaults == [k \in Keys |-> None]

TypeOK ==
  /\ reg \in Registry \cup {Torn} /\ dirs \in [Keys -> {"none", "empty", "data"}]
  /\ runtime \in BOOLEAN /\ key \in [Vaults -> Keys \cup {None}] /\ minted \subseteq Keys
  /\ pc \in [Vaults -> {"closed", "setup", "touch", "touchWrite", "touchWriting", "up",
                        "remove", "removeWrite", "removeWriting", "check", "prune", "pruning"}]
  /\ snap \in [Vaults -> Registry] /\ doomed \in [Vaults -> SUBSET Keys]
  /\ asked \in [Vaults -> BOOLEAN]

----------------------------------------------------------------------------
(* The pure parts *)

\* Mutant: the same vault's older entry is left.
ApplyTouchKeeping(r, k, v) == [r EXCEPT ![k] = v]

\* applyTouch: record the entry, evict the same vault under another key.
ApplyTouch(r, k, v) ==
  [x \in Keys |-> IF x = k THEN v ELSE IF r[x] = v THEN None ELSE r[x]]

\* computeOtherActiveVaults: neither this vault's key nor its path.
OtherActive(r, k, v) == {x \in Keys : r[x] # None /\ x # k /\ r[x] # v}

----------------------------------------------------------------------------
(* Windows *)

Critical == {"touch", "touchWrite", "touchWriting", "remove", "removeWrite",
             "removeWriting", "check", "prune", "pruning"}
Alone(v) == mode.exclusive => \A u \in Vaults \ {v} : pc[u] \notin Critical
Go(v, l) == pc' = [pc EXCEPT ![v] = l]

\* doRunBackend: a key is minted if there is none; the vault's directory.
BootBegin(v) ==
  /\ pc[v] = "closed" /\ v \in mode.vaults
  /\ \E k \in Keys :
       /\ k = key[v] \/ (key[v] = None /\ k \notin minted)
       /\ key' = [key EXCEPT ![v] = k] /\ minted' = minted \cup {k}
       /\ dirs' = [dirs EXCEPT ![k] = IF @ = "none" THEN "empty" ELSE @]
  /\ Go(v, "setup")
  /\ UNCHANGED <<reg, runtime, snap, doomed, asked>>

\* ensureBackend has installed what was missing of the runtime.
BootReady(v) ==
  /\ pc[v] = "setup" /\ Alone(v)
  /\ runtime' = TRUE
  /\ Go(v, "touch")
  /\ UNCHANGED <<reg, dirs, key, minted, snap, doomed, asked>>

\* ensureBackend throws, or the plugin was disabled meanwhile.
BootFails(v) ==
  /\ pc[v] = "setup"
  /\ Go(v, "closed")
  /\ UNCHANGED <<reg, dirs, runtime, key, minted, snap, doomed, asked>>

\* startSidecar: the vault's database is created where there is none.
Start(v) == Go(v, "up") /\ dirs' = [dirs EXCEPT ![key[v]] = "data"]

\* touchVault: a registry that cannot be read is left alone.
TouchRead(v) ==
  /\ pc[v] = "touch"
  /\ IF reg = Torn
       THEN Start(v) /\ UNCHANGED snap
       ELSE /\ snap' = [snap EXCEPT ![v] = ApplyTouch(reg, key[v], v)]
            /\ Go(v, "touchWrite") /\ UNCHANGED dirs
  /\ UNCHANGED <<reg, runtime, key, minted, doomed, asked>>

\* writeRegistry: writeFileSync truncates the file, then fills it.
WriteBegin(v) ==
  /\ \/ pc[v] = "touchWrite" /\ Go(v, "touchWriting")
     \/ pc[v] = "removeWrite" /\ Go(v, "removeWriting")
  /\ reg' = Torn
  /\ UNCHANGED <<dirs, runtime, key, minted, snap, doomed, asked>>

\* The write is over, done or (best effort) failed.
WriteEnd(v) ==
  /\ \/ pc[v] = "touchWriting" /\ Start(v)
     \/ pc[v] = "removeWriting" /\ Go(v, "check") /\ UNCHANGED dirs
  /\ reg' \in {snap[v]} \cup IF mode.faults THEN {Torn} ELSE {}
  /\ UNCHANGED <<runtime, key, minted, snap, doomed, asked>>

\* otherActiveVaults returns "unknown" or no vault.
NoneSeen(v) == reg # Torn => OtherActive(reg, key[v], v) = {}

\* deleteDataPreflight: the button and the dialog; disabled if others are seen.
Preflight(v) ==
  /\ pc[v] \in {"closed", "up"} /\ NoneSeen(v)
  /\ asked' = [asked EXCEPT ![v] = TRUE]
  /\ UNCHANGED <<reg, dirs, runtime, key, minted, pc, snap, doomed>>

\* Mutant: no check for an empty key, so that the path is that of all vaults.
DeleteDataUnkeyed(v) ==
  /\ pc[v] \in {"closed", "up"} /\ asked[v] /\ Alone(v)
  /\ dirs' = [k \in Keys |-> IF key[v] \in {k, None} THEN "none" ELSE dirs[k]]
  /\ Go(v, "remove")
  /\ UNCHANGED <<reg, runtime, key, minted, snap, doomed, asked>>

\* deleteData, once confirmed and once the sidecar is stopped: this vault's
\* directory first.
DeleteData(v) ==
  /\ pc[v] \in {"closed", "up"} /\ asked[v] /\ key[v] # None /\ Alone(v)
  /\ dirs' = [dirs EXCEPT ![key[v]] = "none"]
  /\ Go(v, "remove")
  /\ UNCHANGED <<reg, runtime, key, minted, snap, doomed, asked>>

\* removeVault
RemoveRead(v) ==
  /\ pc[v] = "remove"
  /\ IF reg = Torn
       THEN Go(v, "check") /\ UNCHANGED snap
       ELSE /\ snap' = [snap EXCEPT ![v] = [reg EXCEPT ![key[v]] = None]]
            /\ Go(v, "removeWrite")
  /\ UNCHANGED <<reg, dirs, runtime, key, minted, doomed, asked>>

\* Mutant: the answer of the preflight is trusted.
CheckOnce(v) ==
  /\ pc[v] = "check"
  /\ runtime' = FALSE /\ Go(v, "prune")
  /\ UNCHANGED <<reg, dirs, key, minted, snap, doomed, asked>>

\* otherActiveVaults again: the runtime goes if none is seen, or "unknown".
Check(v) ==
  /\ pc[v] = "check"
  /\ IF NoneSeen(v)
       THEN runtime' = FALSE /\ Go(v, "prune") /\ UNCHANGED asked
       ELSE Go(v, "closed") /\ asked' = [asked EXCEPT ![v] = FALSE] /\ UNCHANGED runtime
  /\ UNCHANGED <<reg, dirs, key, minted, snap, doomed>>

\* pruneOrphanVaultData: directories that no entry names.
PruneRead(v) ==
  /\ pc[v] = "prune"
  /\ doomed' = [doomed EXCEPT ![v] =
       IF reg = Torn THEN {} ELSE {k \in Keys : dirs[k] # "none" /\ reg[k] = None}]
  /\ Go(v, "pruning")
  /\ UNCHANGED <<reg, dirs, runtime, key, minted, snap, asked>>

PruneOne(v, k) ==
  /\ pc[v] = "pruning" /\ k \in doomed[v]
  /\ dirs' = [dirs EXCEPT ![k] = "none"]
  /\ doomed' = [doomed EXCEPT ![v] = @ \ {k}]
  /\ UNCHANGED <<reg, runtime, key, minted, pc, snap, asked>>

DeleteEnd(v) ==
  /\ pc[v] = "pruning" /\ doomed[v] = {}
  /\ Go(v, "closed") /\ asked' = [asked EXCEPT ![v] = FALSE]
  /\ UNCHANGED <<reg, dirs, runtime, key, minted, snap, doomed>>

\* The window is closed.
Quit(v) ==
  /\ pc[v] = "up"
  /\ Go(v, "closed") /\ asked' = [asked EXCEPT ![v] = FALSE]
  /\ UNCHANGED <<reg, dirs, runtime, key, minted, snap, doomed>>

\* Obsidian is killed in the middle of something.
Killed(v) ==
  /\ mode.faults /\ pc[v] \notin {"closed", "up"}
  /\ Go(v, "closed") /\ asked' = [asked EXCEPT ![v] = FALSE]
  /\ doomed' = [doomed EXCEPT ![v] = {}]
  /\ UNCHANGED <<reg, dirs, runtime, key, minted, snap>>

\* The plugin is removed and installed again: its data.json is gone.
Reinstall(v) ==
  /\ pc[v] = "closed" /\ key[v] # None
  /\ key' = [key EXCEPT ![v] = None] /\ asked' = [asked EXCEPT ![v] = FALSE]
  /\ UNCHANGED <<reg, dirs, runtime, minted, pc, snap, doomed>>

----------------------------------------------------------------------------
Init ==
  /\ mode \in Modes
  /\ reg = NoVaults /\ dirs = [k \in Keys |-> "none"] /\ runtime = FALSE
  /\ key = [v \in Vaults |-> None] /\ minted = {}
  /\ pc = [v \in Vaults |-> "closed"] /\ snap = [v \in Vaults |-> NoVaults]
  /\ doomed = [v \in Vaults |-> {}] /\ asked = [v \in Vaults |-> FALSE]

BootStep(v) ==
  BootBegin(v) \/ BootReady(v) \/ BootFails(v) \/ TouchRead(v) \/ WriteBegin(v) \/ WriteEnd(v)

DeleteStep(v) ==
  \/ Preflight(v) \/ DeleteData(v) \/ RemoveRead(v) \/ Check(v) \/ PruneRead(v)
  \/ DeleteEnd(v) \/ \E k \in Keys : PruneOne(v, k)

Next ==
  /\ \E v \in Vaults :
       BootStep(v) \/ DeleteStep(v) \/ Quit(v) \/ Killed(v) \/ Reinstall(v)
  /\ UNCHANGED mode

Spec == Init /\ [][Next]_vars

----------------------------------------------------------------------------
(* Properties *)

Orderly == mode.exclusive /\ ~mode.faults

\* vaultRegistry.ts:43 "the registry converges to one entry per physical
\* vault": it never has two, however reinstalls mint new keys and the windows'
\* reads and writes of vaults.json interleave or are cut short.
OneEntry(r) == \A j, k \in Keys : r[j] = r[k] /\ r[j] # None => j = k
OneEntryPerVault == reg # Torn => OneEntry(reg)

\* README.md:55 "cleanup never deletes another vault's data out from under it":
\* a directory that holds a vault's database goes only when that very vault is
\* uninstalled, where windows take turns at the files and none is killed.
CleanupSparesOthers ==
  [][Orderly => \A v \in Vaults, k \in Keys :
       key[v] = k /\ dirs[k] = "data" /\ dirs'[k] = "none" => pc'[v] = "remove"]_vars

\* CHANGELOG.md:91 cleanup never deletes "a shared backend it still needs": a
\* vault that is up has its runtime, where windows take turns at the files and
\* none is killed.
RuntimeIsThere == Orderly => \A v \in Vaults : pc[v] = "up" => runtime

----------------------------------------------------------------------------
(* What makes OneEntryPerVault inductive (module VaultRegistryProofs) *)
SnapshotsHaveOneEntry == \A v \in Vaults : OneEntry(snap[v])
KeyWhileRunning == \A v \in Vaults : pc[v] # "closed" => key[v] \in Keys
=============================================================================
