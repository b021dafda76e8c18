----------------------------- MODULE LocalVault -----------------------------
(***************************************************************************)
(* One device without a network: the vault file, state.json, and the CLI   *)
(* processes that load, change and rewrite them with no lock between them  *)
(* (src/zkvault/cli.py, VaultFile.save and UnlockedVault.save in           *)
(* src/zkvault/vault.py, src/zkvault/state.py).                            *)
(*                                                                         *)
(* A process may be killed at any step, the machine may lose power, and    *)
(* the user may put a backup of the vault file back.                       *)
(***************************************************************************)
EXTENDS StateFile

CONSTANTS VaultId,      \* the vault's id
          Passphrase,   \* passphrases the user may choose
          Contents,     \* payloads an edit may produce; EmptyVault is one
          EmptyVault,
          MaxVersion,   \* bound: no file beyond this vault_version is written
          MaxDrawn,     \* bound: salts and keys drawn
          MaxFaults     \* bound: kills, power failures and restores

VARIABLES vaultFile,    \* what a reader of the vault path sees
          backup,       \* a copy of it taken by `export --format encrypted`
          onDisk,       \* both files as a power failure now would leave them
          drawn,        \* salts and keys drawn so far
          pc, cmd, phase,   \* per process: next step, command, why state.json is written
          mem,          \* per process: its VaultFile object
          contents,     \* per process: its VaultContents object
          dirty,        \* per process: an interactive session has unsaved changes
          marks,        \* per process: its DeviceState object
          acked,        \* history: the last vault file reported as saved
          solo,         \* history: no process ever started while another was active
          unsettledBase,\* history: a process started from a renamed vault file that no
                        \* directory fsync or power failure has settled since
          baseLost,     \* history: a power failure undid such a rename
          restored,     \* history: a backup has been put back
          faults        \* kills, power failures and restores so far

procVars == <<pc, cmd, phase, mem, contents, dirty, marks>>
fileVars == <<vaultFile, backup, onDisk, drawn>>
histVars == <<acked, solo, unsettledBase, baseLost, restored, faults>>
vars == <<stateVars, fileVars, procVars, histVars>>

(***************************************************************************)
(* What the two files can hold.                                            *)
(***************************************************************************)
VaultFiles ==
    [vault_id : {VaultId}, kdf : 1 .. MaxDrawn, vault_version : Nat, payload_seq : Nat,
     wrapped_vek : [key : Passphrase \X (1 .. MaxDrawn), aad : {VaultId} \X (1 .. MaxDrawn),
                    plaintext : 1 .. MaxDrawn],
     payload : [key : 1 .. MaxDrawn, aad : {VaultId} \X Nat, plaintext : Contents]]

Marks == [vault_version : Nat, payload_seq : Nat, server_version : Nat]

ASSUME ContentsAssumption == EmptyVault \in Contents
ASSUME BoundsAssumption == MaxVersion \in Nat /\ MaxDrawn \in Nat /\ MaxFaults \in Nat
ASSUME NoFileAssumption == NoFile \notin VaultFiles \union Marks
ASSUME TornAssumption == Torn \notin Marks \union {NoFile}

Commands == {"list", "edit", "session", "passwd", "rotate"}

Steps == {"idle", "loadState", "prompt", "opened", "replace", "dirSync", "reload",
          "jsonOpen", "jsonWrite", "jsonReplace"}

Idle(p) == pc[p] = "idle"

Goto(p, step) == pc' = [pc EXCEPT ![p] = step]

Init ==
    /\ StateFileInit
    /\ vaultFile = NoFile
    /\ backup = NoFile
    /\ onDisk = [vault |-> NoFile, json |-> NoFile]
    /\ drawn = 0
    /\ pc = [p \in Proc |-> "idle"]
    /\ cmd = [p \in Proc |-> "list"]
    /\ phase = [p \in Proc |-> "opening"]
    /\ mem = [p \in Proc |-> NoFile]
    /\ contents = [p \in Proc |-> EmptyVault]
    /\ dirty = [p \in Proc |-> FALSE]
    /\ marks = [p \in Proc |-> NothingSeen]
    /\ acked = NoFile
    /\ solo = TRUE
    /\ unsettledBase = FALSE
    /\ baseLost = FALSE
    /\ restored = FALSE
    /\ faults = 0

(***************************************************************************)
(* A process ends: a normal return, an error exit, or a kill.              *)
(***************************************************************************)
Forget(f, p, initial) == f' = [f EXCEPT ![p] = initial]

Exit(p) ==
    /\ Goto(p, "idle")
    /\ Forget(cmd, p, "list")
    /\ Forget(phase, p, "opening")
    /\ Forget(mem, p, NoFile)
    /\ Forget(contents, p, EmptyVault)
    /\ Forget(dirty, p, FALSE)
    /\ Forget(marks, p, NothingSeen)

Begin(p, c, step) ==
    /\ Idle(p)
    /\ Goto(p, step)
    /\ cmd' = [cmd EXCEPT ![p] = c]
    /\ solo' = (solo /\ \A q \in Proc : Idle(q))
    /\ unsettledBase' = (unsettledBase \/ vaultFile # onDisk.vault)
    /\ UNCHANGED <<contents, dirty, marks, acked, baseLost, restored, faults>>

\* cmd_init: refused when the file exists (bound: nothing else runs, so there
\* is one vault id).
CmdInit(p) ==
    /\ vaultFile = NoFile
    /\ \A q \in Proc : Idle(q)
    /\ Begin(p, "edit", "replace")
    /\ \E pass \in Passphrase :
           mem' = [mem EXCEPT ![p] = Create(VaultId, pass, drawn + 1, drawn + 2, EmptyVault)]
    /\ phase' = [phase EXCEPT ![p] = "saving"]
    /\ drawn + 2 <= MaxDrawn
    /\ drawn' = drawn + 2
    /\ UNCHANGED <<vaultFile, backup, onDisk, stateVars>>

\* load_locked, for the commands that go through open_vault and for the two that do not.
LoadVault(p) ==
    /\ vaultFile # NoFile
    /\ \E c \in Commands :
           Begin(p, c, IF c \in {"passwd", "rotate"} THEN "prompt" ELSE "loadState")
    /\ mem' = [mem EXCEPT ![p] = vaultFile]
    /\ UNCHANGED <<phase, fileVars, stateVars>>

\* open_vault: the rollback check, and --allow-rollback.
LoadState(p) ==
    /\ pc[p] = "loadState"
    /\ \/ /\ ~RolledBack(Loaded(stateJson), mem[p])
          /\ Goto(p, "prompt")
          /\ marks' = [marks EXCEPT ![p] = Loaded(stateJson)]
          /\ UNCHANGED <<cmd, phase, mem, contents, dirty>>
       \/ /\ RolledBack(Loaded(stateJson), mem[p])   \* RollbackDetected
          /\ Exit(p)
       \/ /\ RolledBack(Loaded(stateJson), mem[p])   \* --allow-rollback
          /\ Goto(p, "prompt")
          /\ marks' = [marks EXCEPT ![p] = Loaded(stateJson)]
          /\ UNCHANGED <<cmd, phase, mem, contents, dirty>>
    /\ UNCHANGED <<fileVars, stateVars, histVars>>

\* open_vault once the passphrase is typed: unlock, then record into the marks loaded before.
Unlock(p) ==
    /\ pc[p] = "prompt" /\ cmd[p] \notin {"passwd", "rotate"}
    /\ \E pass \in Passphrase : Opens(mem[p], pass)
    /\ contents' = [contents EXCEPT ![p] = ContentsOf(mem[p])]
    /\ marks' = [marks EXCEPT ![p] = Record(@, mem[p])]
    /\ Goto(p, "jsonOpen")
    /\ UNCHANGED <<cmd, phase, mem, dirty, fileVars, stateVars, histVars>>

\* A mistyped passphrase: CryptoFailure.
WrongPassphrase(p) ==
    /\ pc[p] = "prompt"
    /\ \E pass \in Passphrase : ~Unwraps(mem[p], pass)
    /\ Exit(p)
    /\ UNCHANGED <<fileVars, stateVars, histVars>>

(***************************************************************************)
(* Changing the VaultFile in memory; each leads to VaultFile.save.         *)
(***************************************************************************)
ToSave(p, vf, ph) ==
    /\ vf.vault_version <= MaxVersion
    /\ mem' = [mem EXCEPT ![p] = vf]
    /\ phase' = [phase EXCEPT ![p] = ph]
    /\ Goto(p, "replace")
    /\ UNCHANGED <<cmd, marks, vaultFile, backup, onDisk, stateVars, histVars>>

CmdPasswd(p) ==
    /\ pc[p] = "prompt" /\ cmd[p] = "passwd"
    /\ \E old, new \in Passphrase :
           /\ Unwraps(mem[p], old)
           /\ ToSave(p, ChangePassphrase(mem[p], new, drawn + 1), "saving")
    /\ drawn + 1 <= MaxDrawn
    /\ drawn' = drawn + 1
    /\ UNCHANGED <<contents, dirty>>

CmdRotateKey(p) ==
    /\ pc[p] = "prompt" /\ cmd[p] = "rotate"
    /\ \E pass \in Passphrase :
           /\ Opens(mem[p], pass)
           /\ ToSave(p, RotateVek(mem[p], pass, drawn + 1), "saving")
    /\ drawn + 1 <= MaxDrawn
    /\ drawn' = drawn + 1
    /\ UNCHANGED <<contents, dirty>>

\* cmd_add, cmd_edit, cmd_rm, cmd_import: change the contents and save at once.
CmdEdit(p) ==
    /\ pc[p] = "opened" /\ cmd[p] = "edit"
    /\ \E c \in Contents :
           /\ contents' = [contents EXCEPT ![p] = c]
           /\ ToSave(p, Seal(mem[p], Vek(mem[p]), c), "saving")
    /\ UNCHANGED <<dirty, drawn>>

SessionEdit(p) ==
    /\ pc[p] = "opened" /\ cmd[p] = "session"
    /\ \E c \in Contents : contents' = [contents EXCEPT ![p] = c]
    /\ dirty' = [dirty EXCEPT ![p] = TRUE]
    /\ UNCHANGED <<pc, cmd, phase, mem, marks, fileVars, stateVars, histVars>>

SessionSave(p) ==
    /\ pc[p] = "opened" /\ cmd[p] = "session"
    /\ ToSave(p, Seal(mem[p], Vek(mem[p]), contents[p]), "saving")
    /\ UNCHANGED <<contents, dirty, drawn>>

\* The finally block of cmd_unlock: an unsaved session may save once more, and records nothing.
SessionQuitSaving(p) ==
    /\ pc[p] = "opened" /\ cmd[p] = "session" /\ dirty[p]
    /\ ToSave(p, Seal(mem[p], Vek(mem[p]), contents[p]), "closing")
    /\ UNCHANGED <<contents, dirty, drawn>>

Quit(p) ==
    /\ pc[p] = "opened"
    /\ Exit(p)
    /\ UNCHANGED <<fileVars, stateVars, histVars>>

(***************************************************************************)
(* VaultFile.save: a private temporary file, renamed, then the directory.  *)
(***************************************************************************)
ReplaceVault(p) ==
    /\ pc[p] = "replace"
    /\ vaultFile' = mem[p]
    /\ Goto(p, "dirSync")
    /\ UNCHANGED <<cmd, phase, mem, contents, dirty, marks, backup, onDisk, drawn,
                   stateVars, histVars>>

\* An exception the command does not catch ends it; the finally block of a dirty
\* session first offers to save.
Raise(p) ==
    \/ /\ phase[p] = "saving" /\ dirty[p]
       /\ ToSave(p, Seal(mem[p], Vek(mem[p]), contents[p]), "closing")
       /\ UNCHANGED <<contents, dirty, drawn>>
    \/ /\ Exit(p)
       /\ UNCHANGED <<fileVars, stateVars, histVars>>

\* The write fails (disk full): the temporary file is unlinked.
SaveFails(p) == pc[p] = "replace" /\ Raise(p)

\* Opening or syncing the directory fails: the new file is in place all the same.
SyncFails(p) == pc[p] = "dirSync" /\ Raise(p)

\* Mutant: the directory is never synced.
SyncDirSkipped(p) ==
    /\ pc[p] = "dirSync"
    /\ \/ /\ phase[p] = "saving"
          /\ Goto(p, "reload")
          /\ UNCHANGED <<cmd, phase, mem, contents, dirty, marks, acked>>
       \/ /\ phase[p] = "closing"
          /\ Exit(p)
          /\ acked' = mem[p]
    /\ UNCHANGED <<vaultFile, backup, onDisk, drawn, stateVars, solo, unsettledBase, baseLost,
                   restored, faults>>

\* The vault and state.json share a directory, so its fsync settles both renames.
SyncDir(p) ==
    /\ pc[p] = "dirSync"
    /\ onDisk' = [vault |-> vaultFile, json |-> stateJson]
    /\ unsettledBase' = FALSE
    /\ \/ /\ phase[p] = "saving"
          /\ Goto(p, "reload")
          /\ UNCHANGED <<cmd, phase, mem, contents, dirty, marks, acked>>
       \/ /\ phase[p] = "closing"
          /\ Exit(p)
          /\ acked' = mem[p]
    /\ UNCHANGED <<vaultFile, backup, drawn, stateVars, solo, baseLost, restored, faults>>

(***************************************************************************)
(* DeviceState.record: merge, then rewrite state.json.                     *)
(***************************************************************************)
\* DeviceState.load().record(...) after a save.
ReloadState(p) ==
    /\ pc[p] = "reload"
    /\ marks' = [marks EXCEPT ![p] = Record(Loaded(stateJson), mem[p])]
    /\ Goto(p, "jsonOpen")
    /\ UNCHANGED <<cmd, phase, mem, contents, dirty, fileVars, stateVars, histVars>>

JsonOpen(p) ==
    /\ pc[p] = "jsonOpen"
    /\ OpenTmp(p)
    /\ Goto(p, "jsonWrite")
    /\ UNCHANGED <<cmd, phase, mem, contents, dirty, marks, fileVars, histVars>>

JsonWrite(p) ==
    /\ pc[p] = "jsonWrite"
    /\ WriteTmp(p, marks[p])
    /\ Goto(p, "jsonReplace")
    /\ UNCHANGED <<cmd, phase, mem, contents, dirty, marks, fileVars, histVars>>

\* A command that has saved is reported done here; a session goes back to its prompt.
JsonReplace(p) ==
    /\ pc[p] = "jsonReplace"
    /\ ReplaceState(p)
    /\ acked' = IF phase[p] = "saving" THEN mem[p] ELSE acked
    /\ \/ /\ cmd[p] = "session" \/ (cmd[p] = "edit" /\ phase[p] = "opening")
          /\ Goto(p, "opened")
          /\ dirty' = [dirty EXCEPT ![p] = FALSE]
          /\ phase' = [phase EXCEPT ![p] = "opening"]
          /\ UNCHANGED <<cmd, mem, contents, marks>>
       \/ /\ cmd[p] # "session" /\ ~(cmd[p] = "edit" /\ phase[p] = "opening")
          /\ Exit(p)
    /\ UNCHANGED <<fileVars, solo, unsettledBase, baseLost, restored, faults>>

\* Another process renamed the shared temporary file first: FileNotFoundError.
JsonReplaceFails(p) == pc[p] = "jsonReplace" /\ stateTmp = NoFile /\ Raise(p)

(***************************************************************************)
(* The environment.                                                        *)
(***************************************************************************)
Fault == faults < MaxFaults /\ faults' = faults + 1

Kill(p) ==
    /\ Fault
    /\ ~Idle(p)
    /\ Exit(p)
    /\ stateFd' = [stateFd EXCEPT ![p] = "none"]
    /\ UNCHANGED <<stateJson, stateTmp, fileVars, acked, solo, unsettledBase, baseLost,
                   restored>>

\* At any time, also between two commands.  Renames not yet settled by a directory
\* fsync may be lost; torn temporaries may remain.
PowerLoss ==
    /\ Fault
    /\ vaultFile' \in {vaultFile, onDisk.vault}
    /\ stateJson' \in {stateJson, onDisk.json}
    /\ onDisk' = [vault |-> vaultFile', json |-> stateJson']
    /\ baseLost' = (baseLost \/ (unsettledBase /\ vaultFile' # vaultFile))
    /\ unsettledBase' = FALSE
    /\ pc' = [p \in Proc |-> "idle"]
    /\ cmd' = [p \in Proc |-> "list"]
    /\ phase' = [p \in Proc |-> "opening"]
    /\ mem' = [p \in Proc |-> NoFile]
    /\ contents' = [p \in Proc |-> EmptyVault]
    /\ dirty' = [p \in Proc |-> FALSE]
    /\ marks' = [p \in Proc |-> NothingSeen]
    /\ stateFd' = [p \in Proc |-> "none"]
    /\ UNCHANGED <<stateTmp, backup, drawn, acked, solo, restored>>

\* cmd_export --format encrypted: a byte copy (bound: one is taken).
Export ==
    /\ vaultFile # NoFile /\ backup = NoFile
    /\ backup' = vaultFile
    /\ UNCHANGED <<vaultFile, onDisk, drawn, procVars, stateVars, histVars>>

\* The user copies a backup over the vault file.
RestoreBackup ==
    /\ Fault
    /\ backup \notin {NoFile, vaultFile}
    /\ vaultFile' = backup
    /\ onDisk' = [onDisk EXCEPT !.vault = backup]
    /\ restored' = TRUE
    /\ UNCHANGED <<backup, drawn, procVars, stateVars, acked, solo, unsettledBase, baseLost>>

Open(p) == LoadVault(p) \/ LoadState(p) \/ Unlock(p) \/ WrongPassphrase(p)

Change(p) == \/ CmdInit(p) \/ CmdPasswd(p) \/ CmdRotateKey(p) \/ CmdEdit(p)
             \/ SessionEdit(p) \/ SessionSave(p) \/ SessionQuitSaving(p) \/ Quit(p)

Save(p) == ReplaceVault(p) \/ SaveFails(p) \/ SyncDir(p) \/ SyncFails(p)

RecordState(p) ==
    ReloadState(p) \/ JsonOpen(p) \/ JsonWrite(p) \/ JsonReplace(p) \/ JsonReplaceFails(p)

Next ==
    \/ \E p \in Proc : Open(p) \/ Change(p) \/ Save(p) \/ RecordState(p) \/ Kill(p)
    \/ PowerLoss \/ Export \/ RestoreBackup

Spec == Init /\ [][Next]_vars

(***************************************************************************)
(* Properties.                                                             *)
(***************************************************************************)
\* Types of the whole state: files, process-local objects and history.
TypeOK ==
    /\ stateJson \in Marks \union {Torn, NoFile}
    /\ stateTmp \in Marks \union {Torn, NoFile}
    /\ stateFd \in [Proc -> {"none", "tmp", "json", "orphan"}]
    /\ vaultFile \in VaultFiles \union {NoFile}
    /\ backup \in VaultFiles \union {NoFile}
    /\ onDisk \in [vault : VaultFiles \union {NoFile}, json : Marks \union {Torn, NoFile}]
    /\ drawn \in 0 .. MaxDrawn
    /\ pc \in [Proc -> Steps]
    /\ cmd \in [Proc -> Commands]
    /\ phase \in [Proc -> {"opening", "saving", "closing"}]
    /\ mem \in [Proc -> VaultFiles \union {NoFile}]
    /\ contents \in [Proc -> Contents]
    /\ dirty \in [Proc -> BOOLEAN]
    /\ marks \in [Proc -> Marks]
    /\ acked \in VaultFiles \union {NoFile}
    /\ solo \in BOOLEAN
    /\ unsettledBase \in BOOLEAN
    /\ baseLost \in BOOLEAN
    /\ restored \in BOOLEAN
    /\ faults \in 0 .. MaxFaults

\* Every vault file a user could be left with.
Stored == {vaultFile, backup, onDisk.vault} \ {NoFile}

\* Whatever is interleaved, killed or lost, a stored vault file opens, all of
\* it, under exactly one passphrase: no mixture of an old header and a new
\* payload is ever written (VaultFile.save, change_passphrase, rotate_vek).
VaultAlwaysOpens ==
    \A vf \in Stored :
        \E pass \in Passphrase :
            /\ Opens(vf, pass)
            /\ \A other \in Passphrase \ {pass} : ~Unwraps(vf, other)

\* A payload moved under the header of another stored file is rejected unless
\* both files stand at the same payload_seq (_payload_binding).
SplicedPayloadRejected ==
    \A f, g \in Stored, pass \in Passphrase :
        Opens([f EXCEPT !.payload = g.payload], pass) => f.payload_seq = g.payload_seq

\* One process at a time and no backup put back: through failed saves, kills and
\* power failures the device never refuses its own vault as rolled back, since a
\* save syncs the directory before its marks are recorded (VaultFile.save, then
\* DeviceState.record).  Starting over a rename that a killed process left
\* unsettled breaks that order, so one case is excepted and the code does refuse
\* there: a power failure that undoes a rename a later command has started from.
OwnVaultNeverRefused ==
    solo /\ ~restored /\ ~baseLost /\ vaultFile # NoFile =>
        ~RolledBack(Loaded(stateJson), vaultFile)

\* One process at a time and no backup put back: what a command reported as saved
\* is durable, exactly or superseded by a later save of the same device, also
\* when commands start over a rename that a killed process left unsettled.
AckedSurvives ==
    solo /\ ~restored /\ acked # NoFile =>
        /\ onDisk.vault # NoFile
        /\ onDisk.vault = acked \/ acked.vault_version < onDisk.vault.vault_version

NotLowered == NotAhead(Loaded(stateJson), Loaded(stateJson'))

\* One process at a time: no step but a power failure lowers the recorded
\* marks, not even opening an old backup with --allow-rollback.
HighWaterNeverFalls == [][solo' => PowerLoss \/ NotLowered]_vars
=============================================================================
