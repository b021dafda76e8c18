----------------------------- MODULE DeviceSync -----------------------------
(***************************************************************************)
(* Several devices of one user and the server that holds their vault       *)
(* (sync commands and the interactive session of src/zkvault/cli.py,       *)
(* SyncClient in src/zkvault/syncclient.py).                               *)
(*                                                                         *)
(* A device runs one command at a time and may be killed between any two   *)
(* steps of it; the answer to an upload may be lost, and an upload nobody  *)
(* waits for any more may still reach the server.  The server is the       *)
(* register of CasRegister, which BlobServer implements while its handlers *)
(* do not overlap.  A vault is its two counters and the set of changes     *)
(* that led to it, new passphrases and keys included; what they are, and   *)
(* the login, are left out.                                                *)
(***************************************************************************)
EXTENDS VaultFormat, FiniteSets

CONSTANTS Device,
          Edit,        \* identities of saved changes: each is made once, on one device
          NoVault,
          MaxPushes,   \* bound: uploads the server accepts
          MaxFaults    \* bound: kills and lost answers

VARIABLES file,      \* per device: the vault file
          seen,      \* per device: its marks in state.json
          pc,        \* per device: next step of the running command
          held,      \* per device: the VaultFile the command loaded or downloaded
          base,      \* per device: base_version of the upload under way
          mode,      \* per device: which command uploads or downloads
          reply,     \* per device: version in the server's answer
          session,   \* per device: the vault an interactive session holds in memory
          server,    \* what the server stores: version and vault
          made,      \* edits made so far
          stale,     \* history, per device: whether a session has saved over a file it had
                     \* not loaded since the last pull, and whether a record followed
          late,      \* uploads under way whose sender has died; one that the server has
                     \* to refuse changes nothing whenever it comes, so it is left out
          faults     \* kills and lost answers so far

vars == <<file, seen, pc, held, base, mode, reply, session, server, made, stale, late, faults>>
local == <<held, base, mode, reply>>

Vaults == [vault_version : Nat, payload_seq : Nat, edits : SUBSET Edit]

ASSUME NoVaultAssumption == NoVault \notin Vaults
ASSUME BoundsAssumption == MaxPushes \in Nat /\ MaxFaults \in Nat

Steps == {"idle", "record", "meta", "upload", "uploaded", "download", "replace", "pulled",
          "version"}

NoBlob == [version |-> 0, vault |-> NoVault]

FirstVault == [vault_version |-> 1, payload_seq |-> 1, edits |-> {}]

NewEdit(e) == e \notin made /\ made' = made \union {e}

\* UnlockedVault.save after one edit.
Edited(vault, e) == [vault_version |-> vault.vault_version + 1,
                     payload_seq |-> vault.payload_seq + 1,
                     edits |-> vault.edits \union {e}]

\* change_passphrase moves only one of the counters.
Rewrapped(vault, e) == [vault_version |-> vault.vault_version + 1,
                        payload_seq |-> vault.payload_seq,
                        edits |-> vault.edits \union {e}]

\* A vault made on one device and copied to the others, which have opened it.
Init ==
    /\ file = [d \in Device |-> FirstVault]
    /\ seen = [d \in Device |-> Record(NothingSeen, FirstVault)]
    /\ pc = [d \in Device |-> "idle"]
    /\ held = [d \in Device |-> NoVault]
    /\ base = [d \in Device |-> 0]
    /\ mode = [d \in Device |-> "none"]
    /\ reply = [d \in Device |-> 0]
    /\ session = [d \in Device |-> NoVault]
    /\ server = NoBlob
    /\ made = {}
    /\ stale = [d \in Device |-> "no"]
    /\ late = {}
    /\ faults = 0

Goto(d, step) == pc' = [pc EXCEPT ![d] = step]

Set(f, d, value) == [f EXCEPT ![d] = value]

\* The command returns, to the shell or to the session's prompt.
Finish(d) ==
    /\ Goto(d, "idle")
    /\ held' = Set(held, d, NoVault)
    /\ base' = Set(base, d, 0)
    /\ mode' = Set(mode, d, "none")
    /\ reply' = Set(reply, d, 0)

AtShell(d) == pc[d] = "idle" /\ session[d] = NoVault
InSession(d) == pc[d] = "idle" /\ session[d] # NoVault

\* DeviceState.record: raises the marks, and drops the server version.
RecordMarks(d, vault) ==
    /\ seen' = Set(seen, d, Record(seen[d], vault))
    /\ stale' = Set(stale, d, IF stale[d] = "no" THEN "no" ELSE "recorded")

\* A session writes its vault, one edit later, over whatever the file holds now.
SaveFromMemory(d) ==
    /\ \E e \in Edit : NewEdit(e) /\ file' = Set(file, d, Edited(session[d], e))
    /\ stale' = IF session[d] = file[d] THEN stale ELSE Set(stale, d, "unrecorded")

(***************************************************************************)
(* Local commands.                                                         *)
(***************************************************************************)
\* open_vault as `list` and `get` run it, and as a session starts.  A file that is
\* RolledBack is refused without --allow-rollback, and a refusal changes nothing;
\* with it the command goes on, so the check guards neither this nor EditVault.
OpenVault(d) ==
    /\ AtShell(d)
    /\ RecordMarks(d, file[d])
    /\ session' \in {session, Set(session, d, file[d])}
    /\ UNCHANGED <<file, pc, local, server, made, late, faults>>

\* cmd_add, cmd_edit, cmd_rm: open, change, save; the second record follows.
EditVault(d) ==
    /\ AtShell(d)
    /\ RecordMarks(d, file[d])
    /\ \E e \in Edit : NewEdit(e) /\ file' = Set(file, d, Edited(file[d], e))
    /\ Goto(d, "record")
    /\ UNCHANGED <<local, session, server, late, faults>>

\* cmd_passwd and cmd_rotate_key: neither checks the marks first.
RekeyVault(d) ==
    /\ AtShell(d)
    /\ \E e \in Edit :
           /\ NewEdit(e)
           /\ file' \in {Set(file, d, Rewrapped(file[d], e)), Set(file, d, Edited(file[d], e))}
    /\ Goto(d, "record")
    /\ UNCHANGED <<seen, local, session, server, stale, late, faults>>

SaveSession(d) ==
    /\ InSession(d)
    /\ SaveFromMemory(d)
    /\ session' = Set(session, d, file'[d])
    /\ Goto(d, "record")
    /\ UNCHANGED <<seen, local, server, late, faults>>

\* DeviceState.load().record(...) after a save.
RecordSave(d) ==
    /\ pc[d] = "record"
    /\ RecordMarks(d, file[d])
    /\ Goto(d, "idle")
    /\ UNCHANGED <<file, local, session, server, made, late, faults>>

\* Leaving a session, with a last save of unsaved changes or not; nothing is recorded.
QuitSession(d) ==
    /\ InSession(d)
    /\ SaveFromMemory(d) \/ UNCHANGED <<file, made, stale>>
    /\ session' = Set(session, d, NoVault)
    /\ UNCHANGED <<seen, pc, local, server, late, faults>>

(***************************************************************************)
(* sync push, push --force, pull, and sync from a session.                 *)
(***************************************************************************)
\* The file and state.json are read before the login and are what the command works from.
Start(d, m, step) ==
    /\ held' = Set(held, d, file[d])
    /\ mode' = Set(mode, d, m)
    /\ Goto(d, step)
    /\ UNCHANGED <<file, seen, reply, session, server, made, stale, late, faults>>

StartPush(d) ==
    /\ AtShell(d)
    /\ Start(d, "push", "upload")
    /\ base' = Set(base, d, seen[d].server_version)

StartMeta(d) ==
    /\ \/ AtShell(d) /\ Start(d, "force", "meta")
       \/ InSession(d) /\ Start(d, "sync", "meta")
    /\ UNCHANGED base

StartPull(d) ==
    /\ AtShell(d)
    /\ Start(d, "pull", "download")
    /\ UNCHANGED base

\* Mutant: a session's sync always pushes, over whatever version is stored.
MetaAlwaysPush(d) ==
    /\ pc[d] = "meta"
    /\ base' = Set(base, d, server.version)
    /\ Goto(d, "upload")
    /\ UNCHANGED <<file, seen, held, mode, reply, session, server, made, stale, late, faults>>

\* GET /vault/meta. A session's sync pulls when the server is ahead of what it knows.
Meta(d) ==
    /\ pc[d] = "meta"
    /\ base' = Set(base, d, server.version)
    /\ Goto(d, IF mode[d] = "sync" /\ server.version > seen[d].server_version
               THEN "download" ELSE "upload")
    /\ UNCHANGED <<file, seen, held, mode, reply, session, server, made, stale, late, faults>>

\* PUT /vault reaches the server: the register's Accept and Refuse.
Accept(b, vault) ==
    /\ b = server.version
    /\ server.version < MaxPushes
    /\ server' = [version |-> server.version + 1, vault |-> vault]
    /\ late' = {u \in late : u.base = server'.version}

UploadAccepted(d) ==
    /\ pc[d] = "upload"
    /\ Accept(base[d], held[d])
    /\ reply' = Set(reply, d, server.version + 1)
    /\ Goto(d, "uploaded")
    /\ UNCHANGED <<file, seen, held, base, mode, session, made, stale, faults>>

UploadRefused(d) ==
    /\ pc[d] = "upload" /\ base[d] # server.version
    /\ Finish(d)
    /\ UNCHANGED <<file, seen, session, server, made, stale, late, faults>>

\* The answer arrives: remember the new server version.
Uploaded(d) ==
    /\ pc[d] = "uploaded"
    /\ seen' = Set(seen, d, [seen[d] EXCEPT !.server_version = reply[d]])
    /\ Finish(d)
    /\ UNCHANGED <<file, session, server, made, stale, late, faults>>

\* There is a blob, and it is not older than the marks.
Acceptable(d) == server # NoBlob /\ ~RolledBack(seen[d], server.vault)

\* Mutant: whatever the server returns is taken, nothing at all included.
DownloadUnconditionally(d) ==
    /\ pc[d] = "download"
    /\ held' = Set(held, d, server.vault)
    /\ reply' = Set(reply, d, server.version)
    /\ Goto(d, "replace")
    /\ UNCHANGED <<base, mode, file, seen, session, server, made, stale, late, faults>>

\* Mutant: the downloaded vault is not compared with the marks.
DownloadUnchecked(d) == server # NoBlob /\ DownloadUnconditionally(d)

\* Mutant: the server version is saved as soon as it is known.
DownloadRecordsVersion(d) ==
    /\ pc[d] = "download"
    /\ Acceptable(d)
    /\ held' = Set(held, d, server.vault)
    /\ reply' = Set(reply, d, server.version)
    /\ seen' = Set(seen, d, [seen[d] EXCEPT !.server_version = server.version])
    /\ Goto(d, "replace")
    /\ UNCHANGED <<base, mode, file, session, server, made, stale, late, faults>>

\* _pull_into: download, then refuse an older vault, which ends a session too.
Download(d) ==
    /\ pc[d] = "download"
    /\ \/ /\ Acceptable(d)
          /\ held' = Set(held, d, server.vault)
          /\ reply' = Set(reply, d, server.version)
          /\ Goto(d, "replace")
          /\ UNCHANGED <<base, mode, session>>
       \/ /\ server # NoBlob /\ ~Acceptable(d)
          /\ Finish(d)
          /\ session' = Set(session, d, NoVault)
       \/ /\ Finish(d)   \* no vault there, or not one this passphrase opens
          /\ UNCHANGED session
    /\ UNCHANGED <<file, seen, server, made, stale, late, faults>>

\* remote.save(path)
PullReplace(d) ==
    /\ pc[d] = "replace"
    /\ file' = Set(file, d, held[d])
    /\ stale' = Set(stale, d, "no")
    /\ Goto(d, "pulled")
    /\ UNCHANGED <<seen, local, session, server, made, late, faults>>

\* state.record(...), which forgets the server version until the next step.
PullRecord(d) ==
    /\ pc[d] = "pulled"
    /\ RecordMarks(d, held[d])
    /\ Goto(d, "version")
    /\ UNCHANGED <<file, local, session, server, made, late, faults>>

PullVersion(d) ==
    /\ pc[d] = "version"
    /\ seen' = Set(seen, d, [seen[d] EXCEPT !.server_version = reply[d]])
    /\ Finish(d)
    /\ UNCHANGED <<file, session, server, made, stale, late, faults>>

(***************************************************************************)
(* Faults.                                                                 *)
(***************************************************************************)
\* What PushKeepsServerEdits does not speak of: a forced push, and a vault that
\* a session has saved over a pulled file.
Exempt(d) == mode[d] = "force" \/ stale[d] = "unrecorded"

UploadOf(d) == [base |-> base[d], vault |-> held[d], exempt |-> Exempt(d)]

\* The process is killed, or ended by the timeout of a request.  An upload it
\* was waiting for is lost, or still on its way to the server.
Die(d) ==
    /\ faults < MaxFaults
    /\ faults' = faults + 1
    /\ pc[d] # "idle" \/ session[d] # NoVault
    /\ \/ UNCHANGED late
       \/ /\ pc[d] = "upload" /\ base[d] = server.version
          /\ late' = late \union {UploadOf(d)}
    /\ Finish(d)
    /\ session' = Set(session, d, NoVault)
    /\ UNCHANGED <<file, seen, server, made, stale>>

\* The server handles an upload nobody waits for any more.
UploadLate(u) ==
    /\ Accept(u.base, u.vault)
    /\ UNCHANGED <<file, seen, pc, local, session, made, stale, faults>>

Local(d) == \/ OpenVault(d) \/ EditVault(d) \/ RekeyVault(d) \/ SaveSession(d) \/ RecordSave(d)
            \/ QuitSession(d)

Push(d) == StartPush(d) \/ StartMeta(d) \/ Meta(d) \/ UploadAccepted(d) \/ UploadRefused(d)
           \/ Uploaded(d)

Pull(d) == StartPull(d) \/ Download(d) \/ PullReplace(d) \/ PullRecord(d) \/ PullVersion(d)

Next == \/ \E d \in Device : Local(d) \/ Push(d) \/ Pull(d) \/ Die(d)
        \/ \E u \in late : UploadLate(u)

Spec == Init /\ [][Next]_vars

(***************************************************************************)
(* Properties.                                                             *)
(***************************************************************************)
\* Types of the devices, of the server and of what travels between them.
TypeOK ==
    /\ file \in [Device -> Vaults]
    /\ seen \in [Device -> [vault_version : Nat, payload_seq : Nat, server_version : 0 .. MaxPushes]]
    /\ pc \in [Device -> Steps]
    /\ held \in [Device -> Vaults \union {NoVault}]
    /\ base \in [Device -> 0 .. MaxPushes]
    /\ mode \in [Device -> {"none", "push", "force", "sync", "pull"}]
    /\ reply \in [Device -> 0 .. MaxPushes]
    /\ session \in [Device -> Vaults \union {NoVault}]
    /\ server = NoBlob \/ server \in [version : 1 .. MaxPushes, vault : Vaults]
    /\ made \subseteq Edit
    /\ stale \in [Device -> {"no", "recorded", "unrecorded"}]
    /\ late \subseteq [base : 0 .. MaxPushes, vault : Vaults, exempt : BOOLEAN]
    /\ faults \in 0 .. MaxFaults

\* The server version a device remembers is one its file contains: while the
\* server still holds it, none of its edits is missing from the file. It is
\* what makes base_version a sound test; only a session's save over a pulled
\* file breaks it, until the next record (DeviceState.record, _pull_into).
KnownVersionIsContained ==
    \A d \in Device :
        /\ stale[d] # "unrecorded"
        /\ server # NoBlob
        /\ seen[d].server_version = server.version
        => server.vault.edits \subseteq file[d].edits

Overwrites(d) == pc[d] = "upload" /\ pc'[d] = "uploaded" /\ ~Exempt(d) /\ server # NoBlob

OverwritesLate(u) == UploadLate(u) /\ ~u.exempt /\ server # NoBlob

KeepsServerEdits == server.vault.edits \subseteq server'.vault.edits

\* An accepted push that was not forced contains every edit of the vault it
\* replaces, through kills, lost answers, uploads that arrive after their
\* sender has died and any order of commands, unless a session's save over a
\* pulled file was still unrecorded.
PushKeepsServerEdits ==
    [][(\E d \in Device : Overwrites(d)) \/ (\E u \in late : OverwritesLate(u)) => KeepsServerEdits]_vars

\* A device whose sessions have not saved over a pulled file never finds its
\* own vault below its marks, so it is never asked for --allow-rollback.
NeverLockedOut ==
    \A d \in Device : stale[d] = "no" => ~RolledBack(seen[d], file[d])

\* A pull never lowers the counters of a vault file whose last save was
\* recorded (_pull_into, DeviceState.record).  A save on leaving a session, and
\* one killed before its record, are not; and equal counters are no refusal, so
\* edits made on two devices since they last synced are lost on the one that pulls.
PullNeverLowers ==
    [][\A d \in Device :
           pc[d] = "replace" /\ pc'[d] = "pulled" /\ NotAhead(file[d], seen[d])
           => NotAhead(file[d], file'[d])]_vars
=============================================================================
