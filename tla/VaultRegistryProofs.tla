------------------------ MODULE VaultRegistryProofs ------------------------
(***************************************************************************)
(* Proof that vaults.json never lists a vault twice, for any number of     *)
(* vaults, windows, reinstalls, interleavings, kills and failed writes;    *)
(* and that, where windows take turns at the files and none is killed, the *)
(* cleanup of one vault takes neither the runtime nor the database of      *)
(* another.                                                                *)
(***************************************************************************)
EXTENDS VaultRegistry, TLAPS

\* The file alone is not inductive: a window writes a snapshot it took earlier,
\* so the snapshots must have one entry per vault as well, and a window that
\* records its vault must have a key.
IInv == TypeOK /\ OneEntryPerVault /\ SnapshotsHaveOneEntry /\ KeyWhileRunning

\* applyTouch evicts the vault under any other key.
LEMMA ApplyTouchOneEntry ==
  ASSUME NEW r \in Registry, OneEntry(r), NEW k \in Keys, NEW v \in Vaults
  PROVE  ApplyTouch(r, k, v) \in Registry /\ OneEntry(ApplyTouch(r, k, v))
<1>1. ApplyTouch(r, k, v) \in Registry
  BY DEF ApplyTouch, Registry
<1>2. OneEntry(ApplyTouch(r, k, v))
  BY DEF ApplyTouch, OneEntry, Registry
<1> QED BY <1>1, <1>2

\* removeVault drops one entry.
LEMMA RemoveOneEntry ==
  ASSUME NEW r \in Registry, OneEntry(r), NEW k \in Keys
  PROVE  [r EXCEPT ![k] = None] \in Registry /\ OneEntry([r EXCEPT ![k] = None])
  BY DEF OneEntry, Registry

\* No vault, no snapshot.
LEMMA InitIInv == Init => IInv
<1> SUFFICES ASSUME Init PROVE IInv
  OBVIOUS
<1>1. NoVaults \in Registry /\ OneEntry(NoVaults)
  BY DEF NoVaults, Registry, OneEntry
<1>2. TypeOK
  BY <1>1 DEF Init, TypeOK
<1> QED BY <1>1, <1>2 DEF Init, IInv, OneEntryPerVault, SnapshotsHaveOneEntry, KeyWhileRunning

\* A step that changes neither the file nor a snapshot keeps their parts.
LEMMA RegistryUntouched ==
  ASSUME OneEntryPerVault, SnapshotsHaveOneEntry, UNCHANGED <<reg, snap>>
  PROVE  OneEntryPerVault' /\ SnapshotsHaveOneEntry'
  BY DEF OneEntryPerVault, SnapshotsHaveOneEntry

\* The steps of booting
LEMMA BootIInv == ASSUME IInv, NEW v \in Vaults, BootStep(v) PROVE IInv'
<1>0. TypeOK /\ OneEntryPerVault /\ SnapshotsHaveOneEntry /\ KeyWhileRunning
  BY DEF IInv
<1>1. CASE BootBegin(v)
  <2>1. OneEntryPerVault' /\ SnapshotsHaveOneEntry'
    BY <1>0, <1>1, RegistryUntouched DEF BootBegin
  <2>2. PICK k \in Keys : /\ key' = [key EXCEPT ![v] = k] /\ minted' = minted \cup {k}
                          /\ dirs' = [dirs EXCEPT ![k] = IF @ = "none" THEN "empty" ELSE @]
    BY <1>1 DEF BootBegin
  <2>3. KeyWhileRunning'
    BY <1>0, <1>1, <2>2 DEF BootBegin, Go, KeyWhileRunning, TypeOK
  <2>4. TypeOK'
    BY <1>0, <1>1, <2>2 DEF BootBegin, Go, TypeOK
  <2> QED BY <2>1, <2>3, <2>4 DEF IInv
<1>2. CASE BootReady(v) \/ BootFails(v)
  <2>1. OneEntryPerVault' /\ SnapshotsHaveOneEntry'
    BY <1>0, <1>2, RegistryUntouched DEF BootReady, BootFails
  <2>2. TypeOK' /\ KeyWhileRunning'
    BY <1>0, <1>2 DEF BootReady, BootFails, Go, TypeOK, KeyWhileRunning
  <2> QED BY <2>1, <2>2 DEF IInv
<1>3. CASE TouchRead(v)
  <2>1. key[v] \in Keys
    BY <1>0, <1>3 DEF TouchRead, KeyWhileRunning
  <2>2. CASE reg = Torn
    <3>1. OneEntryPerVault' /\ SnapshotsHaveOneEntry'
      BY <1>0, <1>3, <2>2, RegistryUntouched DEF TouchRead
    <3>2. TypeOK' /\ KeyWhileRunning'
      BY <1>0, <1>3, <2>1, <2>2 DEF TouchRead, Start, Go, TypeOK, KeyWhileRunning
    <3> QED BY <3>1, <3>2 DEF IInv
  <2>3. CASE reg # Torn
    <3> DEFINE r == ApplyTouch(reg, key[v], v)
    <3>1. r \in Registry /\ OneEntry(r)
      BY <1>0, <2>1, <2>3, ApplyTouchOneEntry DEF TypeOK, OneEntryPerVault
    <3>2. snap' = [snap EXCEPT ![v] = r] /\ UNCHANGED reg
      BY <1>3, <2>3 DEF TouchRead
    <3> HIDE DEF r
    <3>3. OneEntryPerVault' /\ SnapshotsHaveOneEntry'
      BY <1>0, <3>1, <3>2 DEF OneEntryPerVault, SnapshotsHaveOneEntry, TypeOK
    <3>4. TypeOK' /\ KeyWhileRunning'
      BY <1>0, <1>3, <2>3, <3>1, <3>2 DEF TouchRead, Go, TypeOK, KeyWhileRunning
    <3> QED BY <3>3, <3>4 DEF IInv
  <2> QED BY <2>2, <2>3
<1>4. CASE WriteBegin(v)
  <2>1. OneEntryPerVault' /\ SnapshotsHaveOneEntry'
    BY <1>0, <1>4 DEF WriteBegin, OneEntryPerVault, SnapshotsHaveOneEntry
  <2>2. TypeOK' /\ KeyWhileRunning'
    BY <1>0, <1>4 DEF WriteBegin, Go, TypeOK, KeyWhileRunning
  <2> QED BY <2>1, <2>2 DEF IInv
<1>5. CASE WriteEnd(v)
  <2>1. UNCHANGED <<snap, runtime, key, minted, doomed, asked>> /\ reg' \in {snap[v], Torn}
    BY <1>5 DEF WriteEnd
  <2>2. OneEntryPerVault' /\ SnapshotsHaveOneEntry'
    BY <1>0, <2>1 DEF OneEntryPerVault, SnapshotsHaveOneEntry
  <2>3. key[v] \in Keys
    BY <1>0, <1>5 DEF WriteEnd, KeyWhileRunning
  <2>4. /\ dirs' \in [Keys -> {"none", "empty", "data"}]
        /\ \E l \in {"up", "check"} : pc' = [pc EXCEPT ![v] = l]
    BY <1>0, <1>5, <2>3 DEF WriteEnd, Start, Go, TypeOK
  <2>5. TypeOK' /\ KeyWhileRunning'
    BY <1>0, <2>1, <2>3, <2>4 DEF TypeOK, KeyWhileRunning
  <2> QED BY <2>2, <2>5 DEF IInv
<1> QED BY <1>1, <1>2, <1>3, <1>4, <1>5 DEF BootStep

\* The steps of an uninstall
LEMMA DeleteIInv == ASSUME IInv, NEW v \in Vaults, DeleteStep(v) PROVE IInv'
<1>0. TypeOK /\ OneEntryPerVault /\ SnapshotsHaveOneEntry /\ KeyWhileRunning
  BY DEF IInv
<1>1. CASE RemoveRead(v) /\ reg # Torn
  <2> DEFINE r == [reg EXCEPT ![key[v]] = None]
  <2>1. key[v] \in Keys
    BY <1>0, <1>1 DEF RemoveRead, KeyWhileRunning
  <2>2. r \in Registry /\ OneEntry(r)
    BY <1>0, <1>1, <2>1, RemoveOneEntry DEF TypeOK, OneEntryPerVault
  <2>3. snap' = [snap EXCEPT ![v] = r] /\ UNCHANGED reg
    BY <1>1 DEF RemoveRead
  <2> HIDE DEF r
  <2>4. OneEntryPerVault' /\ SnapshotsHaveOneEntry'
    BY <1>0, <2>2, <2>3 DEF OneEntryPerVault, SnapshotsHaveOneEntry, TypeOK
  <2>5. TypeOK' /\ KeyWhileRunning'
    BY <1>0, <1>1, <2>2, <2>3 DEF RemoveRead, Go, TypeOK, KeyWhileRunning
  <2> QED BY <2>4, <2>5 DEF IInv
<1>2. ASSUME ~(RemoveRead(v) /\ reg # Torn) PROVE IInv'
  <2>1. UNCHANGED <<reg, snap, key>>
    BY <1>2 DEF DeleteStep, Preflight, DeleteData, RemoveRead, Check, PruneRead, PruneOne, DeleteEnd
  <2>2. OneEntryPerVault' /\ SnapshotsHaveOneEntry'
    BY <1>0, <2>1, RegistryUntouched
  <2>3. CASE Preflight(v)
    BY <1>0, <2>2, <2>3 DEF Preflight, IInv, TypeOK, KeyWhileRunning
  <2>4. CASE DeleteData(v)
    BY <1>0, <2>2, <2>4 DEF DeleteData, Go, IInv, TypeOK, KeyWhileRunning
  <2>5. CASE RemoveRead(v)
    BY <1>0, <1>2, <2>2, <2>5 DEF RemoveRead, Go, IInv, TypeOK, KeyWhileRunning
  <2>6. CASE Check(v)
    BY <1>0, <2>2, <2>6 DEF Check, Go, IInv, TypeOK, KeyWhileRunning
  <2>7. CASE PruneRead(v)
    BY <1>0, <2>2, <2>7 DEF PruneRead, Go, IInv, TypeOK, KeyWhileRunning
  <2>8. CASE DeleteEnd(v)
    BY <1>0, <2>2, <2>8 DEF DeleteEnd, Go, IInv, TypeOK, KeyWhileRunning
  <2>9. CASE \E k \in Keys : PruneOne(v, k)
    BY <1>0, <2>2, <2>9 DEF PruneOne, IInv, TypeOK, KeyWhileRunning
  <2> QED BY <2>3, <2>4, <2>5, <2>6, <2>7, <2>8, <2>9 DEF DeleteStep
<1> QED BY <1>1, <1>2

\* Windows that close, are killed, or lose their settings
LEMMA WindowIInv ==
  ASSUME IInv, NEW v \in Vaults, Quit(v) \/ Killed(v) \/ Reinstall(v) PROVE IInv'
<1>0. TypeOK /\ OneEntryPerVault /\ SnapshotsHaveOneEntry /\ KeyWhileRunning
  BY DEF IInv
<1>1. OneEntryPerVault' /\ SnapshotsHaveOneEntry'
  BY <1>0, RegistryUntouched DEF Quit, Killed, Reinstall
<1>2. TypeOK' /\ KeyWhileRunning'
  BY <1>0 DEF Quit, Killed, Reinstall, Go, TypeOK, KeyWhileRunning
<1> QED BY <1>1, <1>2 DEF IInv

\* Every step keeps the invariant.
LEMMA NextIInv == IInv /\ [Next]_vars => IInv'
<1> SUFFICES ASSUME IInv, [Next]_vars PROVE IInv'
  OBVIOUS
<1>1. CASE UNCHANGED vars
  BY <1>1 DEF vars, IInv, TypeOK, OneEntryPerVault, SnapshotsHaveOneEntry, KeyWhileRunning
<1>2. CASE Next
  BY <1>2, BootIInv, DeleteIInv, WindowIInv DEF Next
<1> QED BY <1>1, <1>2

\* The registry lists every physical vault at most once (vaultRegistry.ts:43),
\* although vaults.json is read and written without a lock.
THEOREM RegistryHasOneEntry == Spec => [](TypeOK /\ OneEntryPerVault)
<1>1. IInv => TypeOK /\ OneEntryPerVault
  BY DEF IInv
<1> QED BY <1>1, InitIInv, NextIInv, PTL DEF Spec

----------------------------------------------------------------------------
(* Histories in which the windows take turns at the files *)

\* Where a window is about to write vaults.json, or has begun to.
Writing == {"touchWrite", "touchWriting", "removeWrite", "removeWriting"}

\* A registry that names every vault with a database under that vault's key.
Kept(r) == \A v \in Vaults : key[v] # None /\ dirs[key[v]] = "data" => r[key[v]] = v

\* One window at a time is at the files, and the registry does not parse only
\* while that window writes it.
OneAtATime ==
  /\ \A u, v \in Vaults : pc[u] \in Critical /\ pc[v] \in Critical => u = v
  /\ reg = Torn => \E v \in Vaults : pc[v] \in {"touchWriting", "removeWriting"}

\* No two vaults have the same key, and a key that names a directory was minted.
KeysApart ==
  /\ \A u, v \in Vaults : key[u] = key[v] /\ key[u] # None => u = v
  /\ \A v \in Vaults : key[v] # None => key[v] \in minted
  /\ \A k \in Keys : dirs[k] # "none" => k \in minted

\* The registry, and what a window is about to make of it, are complete.
Complete ==
  /\ reg # Torn => Kept(reg)
  /\ \A v \in Vaults : pc[v] \in Writing => Kept(snap[v])
  /\ \A v \in Vaults : pc[v] \in {"touchWrite", "touchWriting"} => snap[v][key[v]] = v

\* What a window relies on at each place.
Places ==
  \A v \in Vaults :
    /\ pc[v] \in {"touch", "touchWrite", "touchWriting", "up"} => runtime
    /\ pc[v] = "up" => dirs[key[v]] = "data"
    /\ pc[v] \in {"remove", "removeWrite", "removeWriting"} => dirs[key[v]] = "none"

\* A directory that is about to be pruned is no vault's database.
DoomedAreOrphans ==
  \A w \in Vaults : \A k \in doomed[w] :
    pc[w] = "pruning" /\ \A v \in Vaults : key[v] = k => dirs[k] # "data"

\* The invariant: that a vault which is up has its runtime is kept by the check
\* before the cleanup only if that vault is in the registry the check reads,
\* hence in the snapshot written before, hence was never dropped by another.
Turns == OneAtATime /\ KeysApart /\ Complete /\ Places /\ DoomedAreOrphans
TurnInv == Orderly => Turns

\* A step that leaves the files, the keys and the windows alone, as far as the
\* invariant sees them.
LEMMA TurnsKept ==
  ASSUME Turns, UNCHANGED <<reg, dirs, runtime, key, minted, pc, snap, doomed>>
  PROVE  Turns'
  BY DEF Turns, OneAtATime, KeysApart, Complete, Kept, Places, DoomedAreOrphans

\* The boot of a window, up to the registry
LEMMA BootTurns ==
  ASSUME IInv, Orderly, Turns, NEW v \in Vaults,
         BootBegin(v) \/ BootReady(v) \/ BootFails(v) PROVE Turns'
<1>0. /\ TypeOK /\ KeyWhileRunning
      /\ OneAtATime /\ KeysApart /\ Complete /\ Places /\ DoomedAreOrphans
  BY DEF IInv, Turns
<1>1. CASE BootBegin(v)
  <2>1. PICK k \in Keys : /\ k = key[v] \/ (key[v] = None /\ k \notin minted)
                          /\ key' = [key EXCEPT ![v] = k] /\ minted' = minted \cup {k}
                          /\ dirs' = [dirs EXCEPT ![k] = IF @ = "none" THEN "empty" ELSE @]
    BY <1>1 DEF BootBegin
  <2>2. /\ pc[v] = "closed" /\ pc' = [pc EXCEPT ![v] = "setup"]
        /\ UNCHANGED <<reg, runtime, snap, doomed, asked>>
    BY <1>1 DEF BootBegin, Go
  <2>3. OneAtATime'
    BY <1>0, <2>2 DEF OneAtATime, Critical, TypeOK
  <2>4. KeysApart'
    BY <1>0, <2>1, RegistryAssumption DEF KeysApart, TypeOK
  <2>5. ASSUME NEW u \in Vaults, key'[u] # None, dirs'[key'[u]] = "data"
        PROVE  key[u] = key'[u] /\ dirs[key[u]] = "data"
    BY <1>0, <2>1, <2>5, RegistryAssumption DEF KeysApart, TypeOK
  <2>6. \A r : Kept(r) => Kept(r)'
    BY <2>5 DEF Kept
  <2>7. Complete'
    <3>1. reg # Torn => Kept(reg)'
      BY <1>0, <2>2, <2>6 DEF Complete
    <3>2. ASSUME NEW u \in Vaults, pc'[u] \in Writing PROVE pc[u] = pc'[u] /\ u # v
      BY <1>0, <2>2, <3>2 DEF Writing, TypeOK
    <3>3. ASSUME NEW u \in Vaults, pc'[u] \in Writing PROVE Kept(snap[u])'
      <4> DEFINE r == snap[u]
      <4>1. Kept(r) /\ r' = r
        BY <1>0, <2>2, <3>2, <3>3 DEF Complete
      <4> QED BY <4>1, <2>5 DEF Kept
    <3>4. ASSUME NEW u \in Vaults, pc'[u] \in {"touchWrite", "touchWriting"}
          PROVE  snap'[u][key'[u]] = u
      BY <1>0, <2>1, <2>2, <3>2, <3>4 DEF Complete, Writing, TypeOK
    <3> QED BY <2>2, <3>1, <3>3, <3>4 DEF Complete, Kept
  <2>8. Places'
    <3>1. ASSUME NEW u \in Vaults, u # v
          PROVE  pc'[u] = pc[u] /\ key'[u] = key[u]
      BY <1>0, <2>1, <2>2, <3>1 DEF TypeOK
    <3>2. ASSUME NEW u \in Vaults, u # v, pc[u] # "closed"
          PROVE  dirs'[key[u]] = dirs[key[u]]
      BY <1>0, <2>1, <3>2, RegistryAssumption DEF KeysApart, TypeOK, KeyWhileRunning
    <3> QED BY <1>0, <2>2, <3>1, <3>2 DEF Places, TypeOK
  <2>9. DoomedAreOrphans'
    BY <1>0, <2>1, <2>2, <2>5, RegistryAssumption DEF DoomedAreOrphans, TypeOK
  <2> QED BY <2>3, <2>4, <2>7, <2>8, <2>9 DEF Turns
<1>2. CASE BootReady(v) \/ BootFails(v)
  <2>1. /\ \/ pc' = [pc EXCEPT ![v] = "touch"] /\ runtime' /\ Alone(v)
           \/ pc' = [pc EXCEPT ![v] = "closed"] /\ runtime' = runtime
        /\ pc[v] = "setup"
        /\ UNCHANGED <<reg, dirs, key, minted, snap, doomed>>
    BY <1>2 DEF BootReady, BootFails, Go
  <2>2. OneAtATime'
    BY <1>0, <2>1 DEF OneAtATime, Alone, Critical, TypeOK, Orderly
  <2>3. KeysApart'
    BY <1>0, <2>1 DEF KeysApart
  <2>4. Complete'
    BY <1>0, <2>1 DEF Complete, Kept, Writing, TypeOK
  <2>5. Places'
    BY <1>0, <2>1 DEF Places, TypeOK
  <2>6. DoomedAreOrphans'
    BY <1>0, <2>1 DEF DoomedAreOrphans, TypeOK
  <2> QED BY <2>2, <2>3, <2>4, <2>5, <2>6 DEF Turns
<1> QED BY <1>1, <1>2

\* A window at the files is alone there: the registry parses, unless it is the
\* window's own write that is under way.
LEMMA ReaderSeesAll ==
  ASSUME OneAtATime, NEW v \in Vaults, pc[v] \in Critical \ {"touchWriting", "removeWriting"}
  PROVE  reg # Torn
  BY DEF OneAtATime, Critical

\* applyTouch drops no other vault with a database.
LEMMA TouchKeeps ==
  ASSUME TypeOK, KeysApart, reg # Torn, Kept(reg), NEW v \in Vaults, key[v] \in Keys
  PROVE  /\ Kept(ApplyTouch(reg, key[v], v))
         /\ ApplyTouch(reg, key[v], v)[key[v]] = v
<1>1. \A u \in Vaults : key[u] # None => key[u] \in Keys
  BY DEF TypeOK
<1> QED BY <1>1, RegistryAssumption DEF Kept, KeysApart, ApplyTouch

\* removeVault drops no other vault with a database.
LEMMA RemoveKeeps ==
  ASSUME TypeOK, KeysApart, reg # Torn, Kept(reg), NEW v \in Vaults, key[v] \in Keys,
         dirs[key[v]] = "none"
  PROVE  Kept([reg EXCEPT ![key[v]] = None])
<1>1. \A u \in Vaults : key[u] # None => key[u] \in Keys
  BY DEF TypeOK
<1>2. reg \in Registry
  BY DEF TypeOK
<1> QED BY <1>1, <1>2 DEF Kept, KeysApart, Registry

\* touchVault and removeVault: the read, and the first half of the write
LEMMA WriteTurns ==
  ASSUME IInv, Orderly, Turns, NEW v \in Vaults,
         TouchRead(v) \/ RemoveRead(v) \/ WriteBegin(v) PROVE Turns'
<1>0. /\ TypeOK /\ KeyWhileRunning
      /\ OneAtATime /\ KeysApart /\ Complete /\ Places /\ DoomedAreOrphans
  BY DEF IInv, Turns
<1>1. CASE TouchRead(v) \/ RemoveRead(v)
  <2>1. key[v] \in Keys /\ pc[v] \in {"touch", "remove"}
    BY <1>0, <1>1 DEF TouchRead, RemoveRead, KeyWhileRunning
  <2>2. reg # Torn /\ Kept(reg)
    BY <1>0, <2>1, ReaderSeesAll DEF Critical, Complete
  <2>3. PICK r \in Registry, l \in {"touchWrite", "removeWrite"} :
          /\ Kept(r) /\ (l = "touchWrite" => r[key[v]] = v)
          /\ pc[v] = IF l = "touchWrite" THEN "touch" ELSE "remove"
          /\ snap' = [snap EXCEPT ![v] = r] /\ pc' = [pc EXCEPT ![v] = l]
          /\ UNCHANGED <<reg, dirs, runtime, key, minted, doomed>>
    <3>1. CASE TouchRead(v)
      <4> DEFINE r == ApplyTouch(reg, key[v], v)
      <4>1. r \in Registry
        BY <1>0, <2>1, <2>2, ApplyTouchOneEntry DEF IInv, TypeOK, OneEntryPerVault
      <4>2. Kept(r) /\ r[key[v]] = v
        BY <1>0, <2>1, <2>2, TouchKeeps
      <4>3. /\ snap' = [snap EXCEPT ![v] = r] /\ pc' = [pc EXCEPT ![v] = "touchWrite"]
            /\ pc[v] = "touch" /\ UNCHANGED <<reg, dirs, runtime, key, minted, doomed>>
        BY <2>2, <3>1 DEF TouchRead, Go
      <4> HIDE DEF r
      <4> QED BY <4>1, <4>2, <4>3
    <3>2. CASE RemoveRead(v)
      <4> DEFINE r == [reg EXCEPT ![key[v]] = None]
      <4>1. r \in Registry
        BY <1>0, <2>1, <2>2 DEF TypeOK, Registry
      <4>2. Kept(r)
        BY <1>0, <2>1, <2>2, <3>2, RemoveKeeps DEF Places, RemoveRead
      <4>3. /\ snap' = [snap EXCEPT ![v] = r] /\ pc' = [pc EXCEPT ![v] = "removeWrite"]
            /\ pc[v] = "remove" /\ UNCHANGED <<reg, dirs, runtime, key, minted, doomed>>
        BY <2>2, <3>2 DEF RemoveRead, Go
      <4> HIDE DEF r
      <4> QED BY <4>1, <4>2, <4>3
    <3> QED BY <1>1, <3>1, <3>2
  <2>4. OneAtATime'
    BY <1>0, <2>1, <2>2, <2>3 DEF OneAtATime, Critical, TypeOK
  <2>5. KeysApart'
    BY <1>0, <2>3 DEF KeysApart
  <2>6. Complete'
    <3>1. \A x : Kept(x)' <=> Kept(x)
      BY <2>3 DEF Kept
    <3>2. ASSUME NEW u \in Vaults, pc'[u] \in Writing, NEW x, x = snap'[u] PROVE Kept(x)
      BY <1>0, <2>1, <2>3, <3>2 DEF Complete, Writing, TypeOK
    <3>3. ASSUME NEW u \in Vaults, pc'[u] \in {"touchWrite", "touchWriting"}
          PROVE  snap'[u][key'[u]] = u
      BY <1>0, <2>1, <2>3, <3>3 DEF Complete, TypeOK
    <3>4. ASSUME NEW u \in Vaults, pc'[u] \in Writing PROVE Kept(snap[u])'
      <4> DEFINE x == snap'[u]
      <4>1. Kept(x)
        BY <3>2, <3>4
      <4> QED BY <2>3, <4>1 DEF Kept
    <3>5. reg' # Torn => Kept(reg)'
      BY <1>0, <2>3 DEF Complete, Kept
    <3> QED BY <3>3, <3>4, <3>5 DEF Complete
  <2>7. Places'
    BY <1>0, <2>1, <2>3 DEF Places, TypeOK
  <2>8. DoomedAreOrphans'
    BY <1>0, <2>1, <2>3 DEF DoomedAreOrphans, TypeOK
  <2> QED BY <2>4, <2>5, <2>6, <2>7, <2>8 DEF Turns
<1>2. CASE WriteBegin(v)
  <2>1. PICK l \in {"touchWriting", "removeWriting"} :
          /\ pc[v] = IF l = "touchWriting" THEN "touchWrite" ELSE "removeWrite"
          /\ pc' = [pc EXCEPT ![v] = l] /\ reg' = Torn
          /\ UNCHANGED <<dirs, runtime, key, minted, snap, doomed>>
    BY <1>2 DEF WriteBegin, Go
  <2>2. OneAtATime'
    BY <1>0, <2>1 DEF OneAtATime, Critical, TypeOK
  <2>3. KeysApart'
    BY <1>0, <2>1 DEF KeysApart
  <2>4. Complete'
    BY <1>0, <2>1 DEF Complete, Kept, Writing, TypeOK
  <2>5. Places'
    BY <1>0, <2>1 DEF Places, TypeOK
  <2>6. DoomedAreOrphans'
    BY <1>0, <2>1 DEF DoomedAreOrphans, TypeOK
  <2> QED BY <2>2, <2>3, <2>4, <2>5, <2>6 DEF Turns
<1> QED BY <1>1, <1>2

\* The end of the write: the vault is up and registered, or its entry is gone
LEMMA WrittenTurns ==
  ASSUME IInv, Orderly, Turns, NEW v \in Vaults, WriteEnd(v) PROVE Turns'
<1>0. /\ TypeOK /\ KeyWhileRunning
      /\ OneAtATime /\ KeysApart /\ Complete /\ Places /\ DoomedAreOrphans
  BY DEF IInv, Turns
<1>1. /\ reg' = snap[v] /\ snap[v] \in Registry /\ reg' # Torn
      /\ UNCHANGED <<runtime, key, minted, snap, doomed>>
  BY <1>0, RegistryAssumption DEF WriteEnd, Orderly, TypeOK, Registry
<1>2. key[v] \in Keys /\ pc[v] \in {"touchWriting", "removeWriting"}
  BY <1>0 DEF WriteEnd, KeyWhileRunning
<1>3. \/ /\ pc[v] = "touchWriting" /\ pc' = [pc EXCEPT ![v] = "up"]
         /\ dirs' = [dirs EXCEPT ![key[v]] = "data"]
      \/ /\ pc[v] = "removeWriting" /\ pc' = [pc EXCEPT ![v] = "check"] /\ dirs' = dirs
  BY DEF WriteEnd, Start, Go
<1>4. \A u \in Vaults : u # v => pc[u] \notin Critical /\ pc'[u] = pc[u]
  BY <1>0, <1>2, <1>3 DEF OneAtATime, Critical, TypeOK
<1>5. OneAtATime'
  BY <1>1, <1>4 DEF OneAtATime
<1>6. KeysApart'
  BY <1>0, <1>1, <1>2, <1>3, RegistryAssumption DEF KeysApart, TypeOK
<1>7. \A u \in Vaults : key[u] # None => key[u] \in Keys
  BY <1>0 DEF TypeOK
<1>8. Kept(reg)'
  <2>1. Kept(snap[v])
    BY <1>0, <1>2 DEF Complete, Writing
  <2>2. pc[v] = "touchWriting" => snap[v][key[v]] = v
    BY <1>0 DEF Complete
  <2> QED BY <1>0, <1>1, <1>2, <1>3, <1>7, <2>1, <2>2 DEF Kept, KeysApart, TypeOK
<1>9. Complete'
  BY <1>3, <1>4, <1>8, <1>0 DEF Complete, Writing, Critical, TypeOK
<1>10. Places'
  <2>1. ASSUME NEW u \in Vaults, u # v, pc'[u] # "closed" PROVE dirs'[key[u]] = dirs[key[u]]
    BY <1>0, <1>2, <1>3, <1>4, <2>1, RegistryAssumption DEF KeysApart, KeyWhileRunning, TypeOK
  <2> QED BY <1>0, <1>1, <1>2, <1>3, <1>4, <2>1 DEF Places, TypeOK
<1>11. DoomedAreOrphans'
  <2>1. \A w \in Vaults : doomed[w] = {}
    BY <1>0, <1>2, <1>4 DEF DoomedAreOrphans, Critical, TypeOK
  <2> QED BY <1>1, <2>1 DEF DoomedAreOrphans
<1> QED BY <1>5, <1>6, <1>9, <1>10, <1>11 DEF Turns

\* The uninstall: the vault's directory, the check, the pruning
LEMMA DeleteTurns ==
  ASSUME IInv, Orderly, Turns, NEW v \in Vaults,
         DeleteData(v) \/ Check(v) \/ PruneRead(v) \/ DeleteEnd(v)
           \/ \E k \in Keys : PruneOne(v, k) PROVE Turns'
<1>0. /\ TypeOK /\ KeyWhileRunning
      /\ OneAtATime /\ KeysApart /\ Complete /\ Places /\ DoomedAreOrphans
  BY DEF IInv, Turns
<1>k. \A u \in Vaults : key[u] # None => key[u] \in Keys
  BY <1>0 DEF TypeOK
<1>1. CASE DeleteData(v)
  <2>1. /\ key[v] \in Keys /\ pc[v] \in {"closed", "up"} /\ Alone(v)
        /\ dirs' = [dirs EXCEPT ![key[v]] = "none"] /\ pc' = [pc EXCEPT ![v] = "remove"]
        /\ UNCHANGED <<reg, runtime, key, minted, snap, doomed>>
    BY <1>1, <1>k DEF DeleteData, Go
  <2>2. OneAtATime'
    BY <1>0, <2>1 DEF OneAtATime, Alone, Critical, TypeOK, Orderly
  <2>3. KeysApart'
    BY <1>0, <2>1 DEF KeysApart, TypeOK
  <2>4. \A u \in Vaults : key[u] # None /\ dirs'[key[u]] = "data" => dirs[key[u]] = "data"
    BY <1>0, <1>k, <2>1 DEF TypeOK
  <2>5. Complete'
    BY <1>0, <2>1, <2>4 DEF Complete, Kept, Writing, TypeOK
  <2>6. Places'
    <3>1. ASSUME NEW u \in Vaults, u # v, pc[u] # "closed" PROVE dirs'[key[u]] = dirs[key[u]]
      BY <1>0, <2>1, <3>1, RegistryAssumption DEF KeysApart, KeyWhileRunning, TypeOK
    <3> QED BY <1>0, <2>1, <3>1 DEF Places, TypeOK
  <2>7. DoomedAreOrphans'
    BY <1>0, <2>1 DEF DoomedAreOrphans, TypeOK
  <2> QED BY <2>2, <2>3, <2>5, <2>6, <2>7 DEF Turns
<1>2. CASE Check(v)
  <2>1. /\ pc[v] = "check" /\ key[v] \in Keys
        /\ UNCHANGED <<reg, dirs, key, minted, snap, doomed>>
        /\ \/ pc' = [pc EXCEPT ![v] = "prune"] /\ NoneSeen(v)
           \/ pc' = [pc EXCEPT ![v] = "closed"] /\ runtime' = runtime
    BY <1>0, <1>2 DEF Check, Go, KeyWhileRunning
  <2>2. OneAtATime'
    BY <1>0, <2>1 DEF OneAtATime, Critical, TypeOK
  <2>3. KeysApart'
    BY <1>0, <2>1 DEF KeysApart
  <2>4. Complete'
    BY <1>0, <2>1 DEF Complete, Kept, Writing, TypeOK
  <2>5. ASSUME NEW u \in Vaults, NoneSeen(v), pc'[u] \in {"touch", "touchWrite", "touchWriting", "up"},
               pc' = [pc EXCEPT ![v] = "prune"]
        PROVE  FALSE
    <3>1. u # v /\ pc[u] = pc'[u]
      BY <1>0, <2>1, <2>5 DEF TypeOK
    <3>2. pc[u] = "up"
      BY <1>0, <2>1, <2>5, <3>1 DEF OneAtATime, Critical
    <3>3. reg # Torn /\ Kept(reg)
      BY <1>0, <2>1, ReaderSeesAll DEF Critical, Complete
    <3>4. key[u] \in Keys /\ key[u] # None /\ key[u] # key[v] /\ dirs[key[u]] = "data"
      BY <1>0, <3>1, <3>2, RegistryAssumption DEF KeysApart, KeyWhileRunning, Places
    <3>5. reg[key[u]] = u
      BY <3>3, <3>4 DEF Kept
    <3>6. key[u] \in OtherActive(reg, key[v], v)
      BY <3>1, <3>4, <3>5, RegistryAssumption DEF OtherActive
    <3> QED BY <2>5, <3>3, <3>6 DEF NoneSeen
  <2>6. Places'
    BY <1>0, <2>1, <2>5 DEF Places, TypeOK
  <2>7. DoomedAreOrphans'
    BY <1>0, <2>1 DEF DoomedAreOrphans, TypeOK
  <2> QED BY <2>2, <2>3, <2>4, <2>6, <2>7 DEF Turns
<1>3. CASE PruneRead(v)
  <2>1. /\ pc[v] = "prune" /\ pc' = [pc EXCEPT ![v] = "pruning"]
        /\ UNCHANGED <<reg, dirs, runtime, key, minted, snap>>
    BY <1>3 DEF PruneRead, Go
  <2>2. reg # Torn /\ Kept(reg)
    BY <1>0, <2>1, ReaderSeesAll DEF Critical, Complete
  <2>3. doomed' = [doomed EXCEPT ![v] = {k \in Keys : dirs[k] # "none" /\ reg[k] = None}]
    BY <1>3, <2>2 DEF PruneRead
  <2>4. OneAtATime'
    BY <1>0, <2>1 DEF OneAtATime, Critical, TypeOK
  <2>5. KeysApart'
    BY <1>0, <2>1 DEF KeysApart
  <2>6. Complete'
    BY <1>0, <2>1 DEF Complete, Kept, Writing, TypeOK
  <2>7. Places'
    BY <1>0, <2>1 DEF Places, TypeOK
  <2>8. ASSUME NEW k \in Keys, reg[k] = None, NEW u \in Vaults, key[u] = k PROVE dirs[k] # "data"
    BY <2>2, <2>8, RegistryAssumption DEF Kept
  <2>9. DoomedAreOrphans'
    <3>1. ASSUME NEW w \in Vaults, NEW k \in doomed'[w], w # v
          PROVE  pc'[w] = "pruning" /\ \A u \in Vaults : key'[u] = k => dirs'[k] # "data"
      BY <1>0, <2>1, <2>3, <3>1 DEF DoomedAreOrphans, TypeOK
    <3>2. ASSUME NEW k \in doomed'[v]
          PROVE  pc'[v] = "pruning" /\ \A u \in Vaults : key'[u] = k => dirs'[k] # "data"
      BY <1>0, <2>1, <2>3, <2>8, <3>2 DEF TypeOK
    <3> QED BY <3>1, <3>2 DEF DoomedAreOrphans
  <2> QED BY <2>4, <2>5, <2>6, <2>7, <2>9 DEF Turns
<1>4. CASE DeleteEnd(v)
  <2>1. /\ pc[v] = "pruning" /\ doomed[v] = {} /\ pc' = [pc EXCEPT ![v] = "closed"]
        /\ UNCHANGED <<reg, dirs, runtime, key, minted, snap, doomed>>
    BY <1>4 DEF DeleteEnd, Go
  <2>2. OneAtATime' /\ KeysApart'
    BY <1>0, <2>1 DEF OneAtATime, KeysApart, Critical, TypeOK
  <2>3. Complete'
    BY <1>0, <2>1 DEF Complete, Kept, Writing, TypeOK
  <2>4. Places' /\ DoomedAreOrphans'
    BY <1>0, <2>1 DEF Places, DoomedAreOrphans, TypeOK
  <2> QED BY <2>2, <2>3, <2>4 DEF Turns
<1>5. ASSUME NEW k \in Keys, PruneOne(v, k) PROVE Turns'
  <2>1. /\ k \in doomed[v] /\ dirs' = [dirs EXCEPT ![k] = "none"]
        /\ doomed' = [doomed EXCEPT ![v] = @ \ {k}]
        /\ UNCHANGED <<reg, runtime, key, minted, pc, snap>>
    BY <1>5 DEF PruneOne
  <2>2. \A u \in Vaults : key[u] = k => dirs[k] # "data"
    BY <1>0, <2>1 DEF DoomedAreOrphans
  <2>3. \A u \in Vaults : key[u] # None => /\ dirs'[key[u]] = "data" <=> dirs[key[u]] = "data"
                                           /\ dirs[key[u]] = "none" => dirs'[key[u]] = "none"
    BY <1>0, <1>k, <2>1, <2>2 DEF TypeOK
  <2>4. OneAtATime' /\ KeysApart'
    BY <1>0, <2>1 DEF OneAtATime, KeysApart, TypeOK
  <2>5. Complete'
    BY <1>0, <2>1, <2>3 DEF Complete, Kept
  <2>6. \A u \in Vaults : pc[u] # "closed" => key[u] # None
    BY <1>0, RegistryAssumption DEF KeyWhileRunning
  <2>7. Places'
    BY <1>0, <2>1, <2>3, <2>6 DEF Places
  <2>8. DoomedAreOrphans'
    BY <1>0, <2>1 DEF DoomedAreOrphans, TypeOK
  <2> QED BY <2>4, <2>5, <2>7, <2>8 DEF Turns
<1> QED BY <1>1, <1>2, <1>3, <1>4, <1>5

\* Windows that close or lose their settings
LEMMA WindowTurns ==
  ASSUME IInv, Orderly, Turns, NEW v \in Vaults, Quit(v) \/ Reinstall(v) PROVE Turns'
<1>0. /\ TypeOK /\ OneAtATime /\ KeysApart /\ Complete /\ Places /\ DoomedAreOrphans
  BY DEF IInv, Turns
<1>1. CASE Quit(v)
  <2>1. /\ pc[v] = "up" /\ pc' = [pc EXCEPT ![v] = "closed"]
        /\ UNCHANGED <<reg, dirs, runtime, key, minted, snap, doomed>>
    BY <1>1 DEF Quit, Go
  <2>2. OneAtATime' /\ KeysApart'
    BY <1>0, <2>1 DEF OneAtATime, KeysApart, Critical, TypeOK
  <2>3. Complete'
    BY <1>0, <2>1 DEF Complete, Kept, Writing, TypeOK
  <2>4. Places' /\ DoomedAreOrphans'
    BY <1>0, <2>1 DEF Places, DoomedAreOrphans, TypeOK
  <2> QED BY <2>2, <2>3, <2>4 DEF Turns
<1>2. CASE Reinstall(v)
  <2>1. /\ pc[v] = "closed" /\ key' = [key EXCEPT ![v] = None]
        /\ UNCHANGED <<reg, dirs, runtime, minted, pc, snap, doomed>>
    BY <1>2 DEF Reinstall
  <2>2. OneAtATime' /\ KeysApart'
    BY <1>0, <2>1 DEF OneAtATime, KeysApart, TypeOK
  <2>3. Complete'
    BY <1>0, <2>1 DEF Complete, Kept, Writing, TypeOK
  <2>4. Places'
    BY <1>0, <2>1 DEF Places, TypeOK
  <2>5. DoomedAreOrphans'
    <3>1. ASSUME NEW w \in Vaults, NEW k \in doomed[w] PROVE k \in Keys /\ k # None
      BY <1>0, RegistryAssumption DEF TypeOK
    <3> QED BY <1>0, <2>1, <3>1 DEF DoomedAreOrphans, TypeOK
  <2> QED BY <2>2, <2>3, <2>4, <2>5 DEF Turns
<1> QED BY <1>1, <1>2

\* The invariant holds of every orderly history.
LEMMA TurnsHold == Spec => [](IInv /\ TurnInv)
<1>1. Init => TurnInv
  BY RegistryAssumption
  DEF Init, TurnInv, Turns, OneAtATime, KeysApart, Complete, Kept, Places, DoomedAreOrphans,
      Writing, Critical, NoVaults
<1>2. IInv /\ TurnInv /\ [Next]_vars => TurnInv'
  <2> SUFFICES ASSUME IInv, TurnInv, [Next]_vars, Orderly' PROVE Turns'
    BY DEF TurnInv
  <2>1. Orderly /\ Turns
    BY DEF Next, vars, Orderly, TurnInv
  <2>2. CASE UNCHANGED vars
    BY <2>1, <2>2, TurnsKept DEF vars
  <2>3. ASSUME NEW v \in Vaults, BootStep(v) PROVE Turns'
    BY <2>1, <2>3, BootTurns, WriteTurns, WrittenTurns DEF BootStep
  <2>4. ASSUME NEW v \in Vaults, DeleteStep(v) PROVE Turns'
    BY <2>1, <2>4, DeleteTurns, WriteTurns, TurnsKept DEF DeleteStep, Preflight
  <2>5. ASSUME NEW v \in Vaults, Quit(v) \/ Killed(v) \/ Reinstall(v) PROVE Turns'
    BY <2>1, <2>5, WindowTurns DEF Killed, Orderly
  <2> QED BY <2>2, <2>3, <2>4, <2>5 DEF Next
<1> QED BY <1>1, <1>2, InitIInv, NextIInv, PTL DEF Spec

\* CHANGELOG.md:91: the cleanup of one vault takes away no runtime that another
\* vault is using, where windows take turns at the files and none is killed.
THEOREM RuntimeStays == Spec => []RuntimeIsThere
<1>1. TurnInv => RuntimeIsThere
  BY DEF TurnInv, Turns, Places, RuntimeIsThere
<1> QED BY <1>1, TurnsHold, PTL

\* README.md:55: neither the uninstall of another vault nor its pruning removes
\* a vault's database.
THEOREM DatabasesAreSpared == Spec => CleanupSparesOthers
<1> DEFINE Spared == \A v \in Vaults, k \in Keys :
             key[v] = k /\ dirs[k] = "data" /\ dirs'[k] = "none" => pc'[v] = "remove"
<1>1. IInv /\ TurnInv /\ [Next]_vars => [Orderly => Spared]_vars
  <2> SUFFICES ASSUME IInv, TurnInv, Next, Orderly, NEW v \in Vaults, NEW k \in Keys,
                      key[v] = k, dirs[k] = "data", dirs'[k] = "none"
               PROVE  pc'[v] = "remove"
    OBVIOUS
  <2>1. /\ TypeOK /\ KeyWhileRunning /\ KeysApart /\ DoomedAreOrphans
    BY DEF TurnInv, Turns, IInv
  <2>2. PICK w \in Vaults :
          BootStep(w) \/ DeleteStep(w) \/ Quit(w) \/ Killed(w) \/ Reinstall(w)
    BY DEF Next
  <2>3. CASE DeleteData(w)
    BY <2>1, <2>3, RegistryAssumption DEF DeleteData, Go, KeysApart, TypeOK
  <2>4. CASE \E j \in Keys : PruneOne(w, j)
    BY <2>1, <2>4 DEF PruneOne, DoomedAreOrphans, TypeOK
  <2>5. CASE BootBegin(w)
    BY <2>1, <2>5 DEF BootBegin, TypeOK
  <2>6. CASE TouchRead(w) \/ WriteEnd(w)
    BY <2>1, <2>6 DEF TouchRead, WriteEnd, Start, KeyWhileRunning, TypeOK
  <2>7. CASE UNCHANGED dirs
    BY <2>7
  <2> QED BY <2>2, <2>3, <2>4, <2>5, <2>6, <2>7
    DEF BootStep, DeleteStep, BootReady, BootFails, WriteBegin, Preflight, RemoveRead,
        Check, PruneRead, DeleteEnd, Quit, Killed, Reinstall
<1> QED BY <1>1, TurnsHold, PTL DEF Spec, CleanupSparesOthers
=============================================================================
