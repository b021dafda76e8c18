------------------------------- MODULE Access -------------------------------
(***************************************************************************)
(* How a device gets at the account: registration, login and the vault     *)
(* header they depend on (the commands that save, and the sync commands of *)
(* src/zkvault/cli.py, SyncClient in src/zkvault/syncclient.py, register,  *)
(* kdf_params and login in src/server/app/routers/auth.py).                *)
(*                                                                         *)
(* There is one email address.  The server keeps the auth secret derived   *)
(* from a passphrase and a salt when the account was made; a device        *)
(* derives its own from the salt in the header of its vault file.  Nothing *)
(* is locked: any number of processes of a device load the file, and each  *)
(* saves, registers or logs in with what it loaded, however late.  Whether *)
(* an upload finds its version current, and a pull its counters advanced,  *)
(* is left open here (DeviceSync), as are second factors (Account).        *)
(***************************************************************************)
EXTENDS VaultFormat, FiniteSets

CONSTANTS Device, Passphrase, Contents,
          NoFile, NoAccount, NoPassphrase,
          MaxVersion,  \* bound: no file beyond this vault_version is written
          MaxDrawn,    \* bound: salts and keys drawn
          MaxRunning   \* bound: commands and registrations in progress at a time

VARIABLES file,      \* per device: the vault file
          loaded,    \* <<device, VaultFile>> that a running process loaded a while ago
          account,   \* the users row, or NoAccount
          blob,      \* the vault file the server stores
          request,   \* per device: its POST /auth/register at the server
          pc,        \* per device: next step of its sync command that has to log in
          held,      \* per device: the VaultFile this command has in memory
          kdf,       \* per device: the salt it logs in with
          typed,     \* per device: the passphrase it was given
          drawn,     \* salts and keys drawn so far
          chosen     \* history: per salt, the passphrase it was drawn for

command == <<pc, held, kdf, typed>>
vars == <<file, loaded, account, blob, request, command, drawn, chosen>>

Draw == 1 .. MaxDrawn

VaultFiles ==
    [vault_id : Draw, kdf : Draw, vault_version : Nat, payload_seq : Nat,
     wrapped_vek : [key : Passphrase \X Draw, aad : Draw \X Draw, plaintext : Draw],
     payload : [key : Draw, aad : Draw \X Nat, plaintext : {Contents}]]

\* derive_auth_secret: the other subkey of the same derivation.
AuthSecret(passphrase, salt) == <<passphrase, salt>>

Accounts == [auth : Passphrase \X Draw, kdf : Draw]

\* The salt decoy_kdf_params makes up; nobody draws it.
Decoy == 0

NoRequest == [auth |-> <<NoPassphrase, Decoy>>, kdf |-> Decoy, step |-> "none"]

ASSUME BoundsAssumption == MaxVersion \in Nat /\ MaxDrawn \in Nat /\ MaxRunning \in Nat
ASSUME NoFileAssumption == NoFile \notin VaultFiles
ASSUME NoAccountAssumption == NoAccount \notin Accounts
ASSUME NoPassphraseAssumption == NoPassphrase \notin Passphrase

Init ==
    /\ file = [d \in Device |-> NoFile]
    /\ loaded = {}
    /\ account = NoAccount
    /\ blob = NoFile
    /\ request = [d \in Device |-> NoRequest]
    /\ pc = [d \in Device |-> "idle"]
    /\ held = [d \in Device |-> NoFile]
    /\ kdf = [d \in Device |-> Decoy]
    /\ typed = [d \in Device |-> NoPassphrase]
    /\ drawn = 0
    /\ chosen = [s \in Draw |-> NoPassphrase]

(***************************************************************************)
(* The vault file of a device.                                             *)
(***************************************************************************)
Set(f, d, value) == [f EXCEPT ![d] = value]

Write(d, vf) == vf.vault_version <= MaxVersion /\ file' = Set(file, d, vf)

\* cmd_init: a file that exists is destroyed under --force, and so is one that
\* came after the check.  One number stands for the id and the salt, drawn together.
CmdInit(d) ==
    /\ drawn + 2 <= MaxDrawn
    /\ \E pass \in Passphrase :
           /\ Write(d, Create(drawn + 1, pass, drawn + 1, drawn + 2, Contents))
           /\ chosen' = Set(chosen, drawn + 1, pass)
    /\ drawn' = drawn + 2
    /\ UNCHANGED <<loaded, account, blob, request, command>>

\* The user carries the file to a device that has none.
CopyVault(d) ==
    /\ file[d] = NoFile
    /\ \E e \in Device : file[e] # NoFile /\ file' = Set(file, d, file[e])
    /\ UNCHANGED <<loaded, account, blob, request, command, drawn, chosen>>

\* What counts against MaxRunning, with these objects in memory.
Running(objects) ==
    Cardinality(objects) + Cardinality({d \in Device : request[d] # NoRequest})
                         + Cardinality({d \in Device : pc[d] # "idle"})

\* load_locked, with which every command but init begins, and a session that goes
\* on with what it saved.  Processes that have ended take their objects with them.
LoadVault(d) ==
    /\ file[d] # NoFile
    /\ \E running \in SUBSET loaded :
           /\ Running(running \union {<<d, file[d]>>}) <= MaxRunning
           /\ loaded' = running \union {<<d, file[d]>>}
    /\ UNCHANGED <<file, account, blob, request, command, drawn, chosen>>

\* What a command may go on with: the file as it is, or as it was when loaded.
AtHand(d) == ({file[d]} \ {NoFile}) \union {l[2] : l \in {m \in loaded : m[1] = d}}

\* The commands that save: the vault they have loaded, changed, whatever the file
\* holds by now.  Prompts, and whole sessions, lie between the two.
CmdPasswd(d) ==
    /\ drawn + 1 <= MaxDrawn
    /\ \E vf \in AtHand(d), old, new \in Passphrase :
           /\ Unwraps(vf, old)
           /\ Write(d, ChangePassphrase(vf, new, drawn + 1))
           /\ chosen' = Set(chosen, drawn + 1, new)
    /\ drawn' = drawn + 1
    /\ UNCHANGED <<loaded, account, blob, request, command>>

CmdRotateKey(d) ==
    /\ drawn + 1 <= MaxDrawn
    /\ \E vf \in AtHand(d), pass \in Passphrase :
           /\ Opens(vf, pass)
           /\ Write(d, RotateVek(vf, pass, drawn + 1))
    /\ drawn' = drawn + 1
    /\ UNCHANGED <<loaded, account, blob, request, command, chosen>>

\* cmd_add, cmd_edit, cmd_rm, cmd_import, and the saves of a session.
CmdEdit(d) ==
    /\ \E vf \in AtHand(d), pass \in Passphrase :
           Opens(vf, pass) /\ Write(d, Seal(vf, Vek(vf), Contents))
    /\ UNCHANGED <<loaded, account, blob, request, command, drawn, chosen>>

(***************************************************************************)
(* `sync register`, and the two statements of its handler.                 *)
(***************************************************************************)
Finish(d) ==
    /\ pc' = Set(pc, d, "idle")
    /\ held' = Set(held, d, NoFile)
    /\ kdf' = Set(kdf, d, Decoy)
    /\ typed' = Set(typed, d, NoPassphrase)

\* Mutant: the passphrase is not tried on the vault first.
TypedAnything(vf, pass) == TRUE

\* unwrap_vek: fail fast on a typo, before the network.
TypedRight(vf, pass) == Unwraps(vf, pass)

\* Bound: a device has one registration at the server at a time.
Register(d) ==
    /\ request[d] = NoRequest /\ Running(loaded) < MaxRunning
    /\ \E vf \in AtHand(d), pass \in Passphrase :
           /\ TypedRight(vf, pass)
           /\ request' = Set(request, d, [auth |-> AuthSecret(pass, vf.kdf),
                                          kdf |-> vf.kdf, step |-> "select"])
    /\ UNCHANGED <<file, loaded, account, blob, command, drawn, chosen>>

Answered(d) == request' = Set(request, d, NoRequest) /\ UNCHANGED command

\* 409: there is an account of this address.
RegisterDuplicate(d) ==
    /\ request[d].step = "select" /\ account # NoAccount
    /\ Answered(d)
    /\ UNCHANGED <<file, loaded, account, blob, drawn, chosen>>

RegisterSelect(d) ==
    /\ request[d].step = "select" /\ account = NoAccount
    /\ request' = Set(request, d, [request[d] EXCEPT !.step = "insert"])
    /\ UNCHANGED <<file, loaded, account, blob, command, drawn, chosen>>

\* Mutant: the column is not unique, and login finds the later row.
RegisterInsertAgain(d) ==
    /\ request[d].step = "insert"
    /\ account' = [auth |-> request[d].auth, kdf |-> request[d].kdf]
    /\ Answered(d)
    /\ UNCHANGED <<file, loaded, blob, drawn, chosen>>

\* The column is unique: 500 if another registration has got there first.
RegisterInsert(d) ==
    /\ request[d].step = "insert"
    /\ account' = IF account = NoAccount THEN [auth |-> request[d].auth, kdf |-> request[d].kdf]
                  ELSE account
    /\ Answered(d)
    /\ UNCHANGED <<file, loaded, blob, drawn, chosen>>

(***************************************************************************)
(* Logging in, and what a device may do once it has.                       *)
(***************************************************************************)
LogsIn(passphrase, salt) == account # NoAccount /\ account.auth = AuthSecret(passphrase, salt)

\* The CLI: the salt comes from the vault it loaded.  A refused login ends the command.
Login(d) ==
    /\ pc[d] = "idle" /\ Running(loaded) < MaxRunning
    /\ \E vf \in AtHand(d), pass \in Passphrase :
           /\ LogsIn(pass, vf.kdf)
           /\ typed' = Set(typed, d, pass)
           /\ held' = Set(held, d, vf)
           /\ kdf' = Set(kdf, d, vf.kdf)
    /\ pc' = Set(pc, d, "in")
    /\ UNCHANGED <<file, loaded, account, blob, request, drawn, chosen>>

\* A device without a vault file asks for the salt, and gets a decoy before
\* there is an account (SyncClient.fetch_kdf_params; the CLI has no command for it).
FetchKdfParams(d) ==
    /\ pc[d] = "idle" /\ file[d] = NoFile /\ Running(loaded) < MaxRunning
    /\ kdf' = Set(kdf, d, IF account = NoAccount THEN Decoy ELSE account.kdf)
    /\ pc' = Set(pc, d, "fetched")
    /\ UNCHANGED <<file, loaded, account, blob, request, held, typed, drawn, chosen>>

LoginFetched(d) ==
    /\ pc[d] = "fetched"
    /\ \E pass \in Passphrase :
           /\ LogsIn(pass, kdf[d])
           /\ typed' = Set(typed, d, pass)
    /\ pc' = Set(pc, d, "in")
    /\ UNCHANGED <<file, loaded, account, blob, request, held, kdf, drawn, chosen>>

Upload(d) ==
    /\ pc[d] = "in" /\ held[d] # NoFile
    /\ blob' = held[d]
    /\ Finish(d)
    /\ UNCHANGED <<file, loaded, account, request, drawn, chosen>>

DeleteBlob(d) ==
    /\ pc[d] = "in"
    /\ blob' = NoFile
    /\ Finish(d)
    /\ UNCHANGED <<file, loaded, account, request, drawn, chosen>>

\* _pull_into: another vault is refused, and one the passphrase does not open.
Download(d) ==
    /\ pc[d] = "in" /\ blob # NoFile
    /\ held[d] # NoFile => held[d].vault_id = blob.vault_id
    /\ Opens(blob, typed[d])
    /\ held' = Set(held, d, blob)
    /\ pc' = Set(pc, d, "replace")
    /\ UNCHANGED <<file, loaded, account, blob, request, kdf, typed, drawn, chosen>>

Replace(d) ==
    /\ pc[d] = "replace"
    /\ file' = Set(file, d, held[d])
    /\ Finish(d)
    /\ UNCHANGED <<loaded, account, blob, request, drawn, chosen>>

\* The command ends early: refused by the server or by its own checks, timed
\* out or killed.  A registration it has sent goes on.
Abandon(d) ==
    /\ pc[d] # "idle"
    /\ Finish(d)
    /\ UNCHANGED <<file, loaded, account, blob, request, drawn, chosen>>

Local(d) == \/ CmdInit(d) \/ CopyVault(d) \/ LoadVault(d)
            \/ CmdPasswd(d) \/ CmdRotateKey(d) \/ CmdEdit(d)

Registration(d) ==
    Register(d) \/ RegisterDuplicate(d) \/ RegisterSelect(d) \/ RegisterInsert(d)

Sync(d) == \/ Login(d) \/ FetchKdfParams(d) \/ LoginFetched(d) \/ Upload(d) \/ DeleteBlob(d)
           \/ Download(d) \/ Replace(d) \/ Abandon(d)

Next == \E d \in Device : Local(d) \/ Registration(d) \/ Sync(d)

Spec == Init /\ [][Next]_vars

(***************************************************************************)
(* Properties.                                                             *)
(***************************************************************************)
\* Types.
TypeOK ==
    /\ file \in [Device -> VaultFiles \union {NoFile}]
    /\ loaded \subseteq Device \X VaultFiles
    /\ account \in Accounts \union {NoAccount}
    /\ blob \in VaultFiles \union {NoFile}
    /\ request \in [Device -> [auth : Passphrase \X Draw, kdf : Draw, step : {"select", "insert"}]
                              \union {NoRequest}]
    /\ pc \in [Device -> {"idle", "fetched", "in", "replace"}]
    /\ held \in [Device -> VaultFiles \union {NoFile}]
    /\ kdf \in [Device -> Draw \union {Decoy}]
    /\ typed \in [Device -> Passphrase \union {NoPassphrase}]
    /\ drawn \in 0 .. MaxDrawn
    /\ chosen \in [Draw -> Passphrase \union {NoPassphrase}]

\* A passphrase opens this vault file exactly when it logs in.
SameDoor(vf) ==
    \A pass \in Passphrase : Opens(vf, pass) <=> LogsIn(pass, vf.kdf)

\* What the server stores opens with the passphrase that logs in, and with no
\* other, although the server can check neither: so a device that has logged in
\* can always use what it downloads.  Passphrase changes, key rotations,
\* registrations that race and devices of several vaults included.
BlobBehindLogin == blob # NoFile => account # NoAccount /\ SameDoor(blob)

\* On a device whose vault carries the registered salt, the passphrase that
\* opens the vault is the one that logs in: a mistyped passphrase is never
\* registered, and a copy, a pull or a key rotation never separates the two.
LoginMatchesVault ==
    \A d \in Device :
        file[d] # NoFile /\ account # NoAccount =>
            (file[d].kdf = account.kdf => SameDoor(file[d]))

CanLogIn(d) ==
    file[d] # NoFile /\ \E pass \in Passphrase : Opens(file[d], pass) /\ LogsIn(pass, file[d].kdf)

\* A save, later than a passphrase change, of what was loaded before it.
PutsOldSaltBack(d) ==
    (CmdRotateKey(d) \/ CmdEdit(d)) /\ file'[d].kdf # file[d].kdf

\* A device that can log in loses that only by a save of its own that changes the
\* salt of its vault: a passphrase change, a new vault over the old one, or an
\* edit, session or key rotation that loaded the vault before the salt changed.
\* No pull, no other device and no registration takes it away, however late.
LockedOutByOwnSaveOnly ==
    [][\A d \in Device :
           CanLogIn(d) => CanLogIn(d)' \/ CmdPasswd(d) \/ CmdInit(d) \/ PutsOldSaltBack(d)]_vars

\* After a passphrase change `sync register` is to be run again, so that the
\* account takes the new auth secret (src/zkvault/cli.py:382): once a device whose
\* vault the account holds has had its registration answered, it can log in.
RegisterAgainRefreshes ==
    [][\A d \in Device :
           /\ request[d] # NoRequest /\ request'[d] = NoRequest
           /\ file[d] # NoFile /\ request[d].kdf = file[d].kdf
           /\ blob # NoFile /\ blob.vault_id = file[d].vault_id
           => CanLogIn(d)']_vars
=============================================================================
