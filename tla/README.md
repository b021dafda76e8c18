# zkvault in TLA+

Models, model-checking runs and machine-checked proofs for zkvault, a local-first password
manager with an optional blind sync server (`zkvault/`, `server/app/`). Paths below are
relative to the repository.

## The system

| Part | Code | State it keeps | Operations |
|---|---|---|---|
| Vault format and keys | `zkvault/vault.py`, `zkvault/crypto.py` | one file: header (vault id, KDF salt, `vault_version`, `payload_seq`), wrapped vault key, encrypted payload | create, seal, unlock, change passphrase, rotate key, atomic save |
| Device state | `zkvault/state.py` | `state.json`: per vault the highest counters seen and the server version | load, rollback check, record |
| CLI and session | `zkvault/cli.py` | objects of one process; an interactive session keeps them for long | one-shot commands, session commands, sync commands |
| Sync client | `zkvault/syncclient.py` | tokens of one login | login, meta, download, upload |
| Blob endpoints | `server/app/routers/vault.py`, `models.py` | one versioned row per user | upload with `base_version`, download, meta, delete |
| Accounts, tokens, MFA | `server/app/routers/auth.py`, `security.py`, `deps.py` | users, refresh-token families, TOTP secrets | register, login, refresh, logout, enrol, activate |
| Rate limiter | `server/app/ratelimit.py` | one deque of times per key | check |
| Idle lock, clipboard | `zkvault/session.py` | last activity; the clipboard | touch, expire, copy, clear |
| Entries, generator | `zkvault/model.py`, `generator.py` | the document inside a vault file | add, edit, rm, import, export; lookup by id or title |
| HTTP shell, Kotlin port, legacy, tools | `server/app/main.py` and others, `kmp/`, `legacy/`, `tools/` | none of its own | wiring, a port of the format, superseded code |

How they interact. A CLI process loads the vault file, compares its counters with
`state.json`, asks for the passphrase, changes the vault in memory, replaces the file (private
temporary file, fsync, rename, fsync of the directory) and then rewrites `state.json` (shared
temporary file, fsync, rename). Nothing locks either file against another process. A sync
command reads both files, logs in, and then uploads the file with a base version or downloads
one over it. The server runs each handler on a thread of its own; a handler is several SQL
statements tied together by Python tests.

What is hard: processes interleaving on two files, a crash between two renames, marks loaded
before a prompt and used after it, a session whose memory outlives the file it came from,
answers lost after the server has acted, and handlers that read, decide and write. Every such
place is listed in `PROJECT.json` under "hazards", with the properties that watch it.

What makes each part correct:

* the vault file always opens, all of it, under exactly one passphrase; its payload cannot be
  moved to another header or position;
* the marks never make a device refuse its own vault, and never fall;
* what was reported as saved is still there after a power failure;
* the blob endpoints are a compare-and-swap register;
* no sequence of edits, pushes, pulls and failures drops an edit silently;
* an account is reached with the passphrase that opens the vault, and only a save of its own that
  changes the salt locks a device out;
* a vault that is saved opens again, at every size up to the limit, and a command touches the
  entry it names and no other;
* the limiter admits exactly its limit per window, and a client that obeys its answer gets in;
* a refresh-token family has one live token at most, and none once it was revoked; MFA is only
  ever enabled with a secret the user has proved to hold;
* a session ends when its user goes away, with nothing left on the clipboard, and one that ends
  by itself has stored every edit.

## Modules

| Module | Models | Correspondence |
|---|---|---|
| `VaultFormat` | `vault.py`, `crypto.py`, counters of `state.py` | Operators. An AEAD box is a record of key, associated data and plaintext, and opens only under the same key and data; `KeyBinding` and `PayloadBinding` are what the code puts in the associated data. Salts and keys are numbers, fresh ones not drawn before. |
| `StateFile` | `_write_private_json`, `DeviceState.load` | `state.json`, its one shared `.tmp`, and where the descriptor of each writer leads: after a rename a descriptor follows its inode, so a slow writer may write into the live file. |
| `LocalVault` | `cli.py`, `VaultFile.save`, `DeviceState.record` | One device without a network. `pc` is the step of each process; `mem`, `contents`, `marks` are its `VaultFile`, `VaultContents` and `DeviceState` objects; `onDisk` is what a power failure leaves. A save may fail before the rename (`SaveFails`) or in the fsync of the directory after it (`SyncFails`), and power may fail at any step. One action per step between two system calls another process can see. |
| `CasRegister` | docstring of `upload`, `VaultBlob` | The abstract register: a request takes effect in one step between call and answer. |
| `BlobServer` | `upload`, `delete_vault` | One action per SQL statement: first SELECT with the test on it, INSERT/UPDATE/DELETE with its commit, the refresh, the read of the expired row for the answer. |
| `DeviceSync` | sync commands, session, `SyncClient` | Several devices and the server as the register. A vault is its two counters and the set of changes that led to it, which is what the properties about lost edits compare. A request that times out ends its process, and an upload may be accepted after that (`late`; one that has to be refused changes nothing, so it is left out). |
| `Account` | `routers/auth.py`, `SyncClient` | One account: rows of `refresh_tokens`, the TOTP columns, handlers in flight, and what each client object holds. One action per SELECT, commit or bulk UPDATE; a client may give up on an answer while its handler goes on. |
| `TokenFamily` | docstrings of `refresh` and `logout`, `RefreshToken` | The abstract family of refresh tokens: one token at a time, each used up before the next is issued, none once the family has ended. |
| `Access` | `sync register`, login, `register`, `kdf_params`, and every command that saves a vault header (`init`, `init --force`, `passwd`, `rotate-key`, edits and session saves, pulls) | How a device gets at the account. The auth secret is the pair of passphrase and salt it was derived from; the handler of a registration is its SELECT and its INSERT. `loaded` holds the `VaultFile` objects of running processes; a command that saves, registers or logs in goes on with one of them or with the file as it is (`AtHand`), so the load of `rotate-key`, of an edit or of a session may lie before a `passwd` and its save after it. |
| `RateLimiter` | `ratelimit.py`, `rate_limit` of `deps.py` | Reading the clock is a step, and everything under the lock another: eviction, pruning, the decision, the record and the Retry-After header. An absent bucket and an empty one are the same. |
| `Payload` | `model.py`, `pad_payload`, `padme` and the limits of `vault.py`, KDF costs of `crypto.py`, the entry commands of `cli.py` | The document in the vault: entries with ids, titles (a word and its spelling) and a size, and the fields a newer client adds. Padding is computed with the program's numbers; every command opens, changes and saves. |
| `Session` | `cmd_unlock`, `session.py`, `Secret` | The main thread of an interactive session, the idle watchdog and the clipboard threads, one action per point where another thread can get in between; a second is a step. |

`LocalVault` extends `StateFile`, which extends `VaultFormat`; `DeviceSync` takes the rollback
check and `Record` from `VaultFormat`, and `Access` takes create, change of passphrase, rotation
and unlocking from it, so the same operators are used where a device is alone, where it logs in
and where it syncs. `DeviceSync` uses the server as one step per request; `BlobServer` is shown
to implement exactly that register while its handlers do not overlap, which is the assumption
`DeviceSync` makes and `blob_race` shows to be needed. In the same way each family of `Account` is
shown to implement `TokenFamily` until a second handler uses it during a rotation. `Account` starts where `Access` ends,
with the right auth secret.

The `MC...` modules add symmetry and constant values that a `.cfg` cannot write; the other values
are in the `.cfg` files. The `..._proofs` modules hold the theorems.

## Runs

Each passing run names, in `PROJECT.json`, one mutant of the code per property that breaks it.

| Run | Question | Instance | Outcome |
|---|---|---|---|
| `local_faults` | Crashes, power failures and restored backups, one process at a time: `OwnVaultNeverRefused`, `AckedSurvives`, `HighWaterNeverFalls` | 1 process, 2 passphrases, 2 payloads, versions to 3, 3 salts and keys, 2 faults | holds |
| `local_concurrent` | Two processes at once: `VaultAlwaysOpens`, `SplicedPayloadRejected` | 2 processes, versions to 2, no faults | holds |
| `blob` | Are the endpoints the register? `ImplementsRegister` | 3 requests, 2 ciphertexts, bases to 2, restarts | holds |
| `blob_race` | Is a write accepted only on a matching base? | the same | violated |
| `device_sync` | Edits, pushes and pulls of two devices: `KnownVersionIsContained`, `PushKeepsServerEdits`, `PullNeverLowers`, `NeverLockedOut` | 2 devices, 2 changes, 3 accepted uploads, 1 fault | holds |
| `account` | Rotation, revocation and enrolment: `OneLivePerFamily`, `EndedStaysEnded`, `NoFalseReuse`, `EnabledIsProved`, `ImplementsFamily` | 2 clients, 2 threads, 3 tokens, 2 TOTP secrets, 1 lost answer or crash | holds |
| `session` | `EndedStored`, and the liveness properties `CopiedSecretCleared` and `IdleSessionEnds` | 2 edits, 2 copies of 2 passwords, 2 idle seconds | holds |
| `access` | Who gets in? `BlobBehindLogin`, `LoginMatchesVault`, `LockedOutByOwnSaveOnly` | 2 devices, 2 passphrases, versions to 3, 4 salts and keys, 2 commands in progress | holds |
| `access_register_again` | Does registering again after `passwd` help? | the same | violated |
| `rate_limiter` | An exact window? `ExactWindow`, `RetryAfterSuffices` | 2 requests in flight, 2 keys with limits 1 and 2, 6 ticks of half a second, a window of 2, eviction above 1 bucket | holds |
| `payload` | `ReadsBack`, `PaddingBounded`, `OneEntryAtATime`, `RemovedIsGone`, `UnknownKept` | 3 entries, 2 ids drawn and 1 foreign, an import file of 3 rows, 2 spellings of a title, entries of 2 sizes, the program's limits | holds |
| `session_wipe` | Is what a session stores always under the vault key? | 1 edit, 1 idle second | violated |

Why the bounds are enough for what is asked. A rollback needs two versions of one file, and a
third to be restored over: versions to 3 and one backup. Two faults allow a crash during the
recovery from a crash. Two processes are enough to lose a rename, to write into the live
`state.json` and to save over each other; version 2 is the one both write. A third request in the
server adds a delete between two uploads. Two devices with one change each reach every order of
edit, push and pull between them; three accepted uploads are one of each device and one whose
sender has died. Three tokens are one family rotated twice, or two families one
of which is rotated; the two handlers in flight are what every race here needs, and the lost
answer makes a client replay a token. In `Access` four draws are two vaults, or one vault
whose salt and key change twice, on two devices that both may register; two things in progress at
a time are two racing registrations, or a vault loaded before a passphrase change beside a
registration after it, which with `passwd` in between puts an old salt back under a new account. In
`RateLimiter` two requests are enough to overtake each other, two keys with one bucket allowed let
eviction run, and six ticks are two windows and more; a tick is half a second, so that times
between whole seconds occur. In `Payload` the sizes are those of `vault.py`, and entries are sized
so that documents come to the padding floor, one prefix below it, and to the limit, one entry
below and above it; padding itself is also checked at each length up to 9000. Three entries hold
an id twice and another one; the import file has a row without an id, a row whose title another
entry has in another spelling, and a row that brings an id again. In `Session` the second copy may start while the thread of the first
still sleeps. The theorems below then remove the bounds for the properties they cover.

Bounds, all of them named constants or notes at the guard: `MaxVersion`, `MaxDrawn`, `MaxFaults`
and one backup and one vault id (`CmdInit` waits until nothing else runs) in `LocalVault`;
`MaxVersion` for bases in `BlobServer`; `MaxPushes`, `MaxFaults` and each change made once in
`DeviceSync`; `MaxTokens`, `MaxSecrets` and `MaxFaults` in `Account`; `MaxEdits` and `MaxCopies`
in `Session`; `MaxVersion`, `MaxDrawn` and `MaxRunning` (vaults in memory, registrations and sync
commands in progress, all together) in `Access`; `MaxTime` in `RateLimiter`; `MaxIds`,
`MaxEntries`, `Lengths` and at most one row without an id per import file in `Payload`. In `Session`, `AutoLock` and `ClearAfter` are the
settings of the program; `idle` counts up to `AutoLock`, which stands for that many seconds or
more, since the code only asks whether it has been reached (`session.py:106`). Deadlock is not checked where such a bound can stop everything (the
`.cfg` says which); it is checked for the server.

Fairness is assumed in `Session` only: weak fairness of the main thread while it is not waiting
for its user, of the watchdog, of each clearing thread, and of time. Python threads that can run
do run, and `time.sleep` returns. The user owes nothing: `IdleSessionEnds` says that the process
ends unless the user acts again and again. Everything else is safety.

The run with two processes has a `VIEW` without the history variables of `LocalVault`, which its
two properties do not read and no action tests.

Some properties carry a history variable that names the overlap they exclude, because the code
does not hold without it: `solo` (no two processes have overlapped), `restored` (a backup was put
back) and `baseLost` (a power failure undid a rename that a later command had started from, which
`unsettledBase` records) in `LocalVault`, `raced` (families another handler used during a rotation), `enrolRace`,
`lost` (clients that missed an answer) in `Account`, `late` in `Session` (the main thread moved
after the watchdog had cleared the clipboard and before it ended the process), `stale` in
`DeviceSync`, `overtaken` (keys checked with a stamp older than one already used) in
`RateLimiter`, `duplicated` (an import brought an id again) in `Payload`. What the code does
inside the overlap is below, or in a note of the hazards.

### What the violated runs show

* `blob_race`: `upload` reads the version and writes in separate statements, with no condition
  on the write (`routers/vault.py:123-143`); two uploads with one base are both accepted.
* `access_register_again`: after `passwd` the program advises to register again (`cli.py:381-382`),
  but a registered address is answered 409 (`auth.py:81-85`) and nothing replaces the auth
  secret of an account; the device stays out.
* `session_wipe`: `Secret.wipe` zeroes the buffer before it marks it (`crypto.py:124-127`), on the
  watchdog's thread. A save that has passed its test of `locked` encrypts under zeros and
  replaces the vault; the watchdog ends the process after a clipboard command, later.

### What the properties except

No property claims these cases; a reader should know of them.

* A process killed between the rename of the vault and the fsync of the directory
  (`vault.py:415-424`) leaves a file that is not settled. The next command starts from it and
  records marks for it; a power failure may then bring the older file back under the newer marks,
  and the device refuses its own vault (`baseLost`, `OwnVaultNeverRefused`). What was reported as
  saved is not lost even so (`AckedSurvives`).
* Every save writes back the header its process loaded, prompts or a whole session earlier. If
  `passwd` and `sync register` ran in between, the save puts the salt from before them back, and
  the device can no longer log in; such a save is the disjunct `PutsOldSaltBack` of
  `LockedOutByOwnSaveOnly`. The restored header is a consistent one, so the vault still opens.
* Two processes can lower the recorded marks (`state.py:126`, `cli.py:109`), and write into each
  other's `state.json`; the properties about the marks claim one process at a time.

* The save offered on leaving a session (`cli.py:550-552`) is the only one without a record in
  `state.json`; a backup older than it passes the rollback check, and `PullNeverLowers` asks for
  recorded files.
* A session keeps its memory across a pull, so its closing save puts the old vault back over the
  pulled one, and the next push carries the new base version (`stale`). The server accepts it, so
  edits of another device are lost without a 409, which `docs/RELEASE_NOTES.md:83-85` and
  `docs/SECURITY_CHECKLIST.md:87` do not foresee.
* `sync` pulls whenever the server is ahead of what this device remembers, and equal counters
  pass the rollback check: edits saved on two devices since they last synced are lost on the one
  that pulls. `docs/ARCHITECTURE.md:155-157` rejects such a silent overwrite; the server prevents
  it, the pull does not.
* `refresh` commits the spent token and only then inserts its successor (`auth.py:276-279`); a
  logout or a reuse detection between the two misses the one to come (`raced`, `EndedStaysEnded`),
  although `docs/SECURITY_CHECKLIST.md:68` says that a logout revokes every refresh token.
* An enrolment between the check of a code and the commit of its activation leaves MFA enabled
  with a secret nobody verified (`auth.py:206`, `enrolRace`); the docstring at `auth.py:199` says
  such a secret is inert.
* The clipboard is read and then cleared (`session.py:62-65`): what the user copies in between is
  lost, which `session.py:58-59` and `docs/SECURITY_CHECKLIST.md:107` mean to prevent. No property
  is about the user's own text.
* Sealing looks at no limit (`vault.py:301`), reading does (`vault.py:380`): a vault over
  `MAX_PAYLOAD_BYTES` is saved and never opened again. `ReadsBack` states the boundary.
* `import` keeps the ids it reads (`cli.py:362`). An export imported where it came from doubles
  them; `edit` then changes the first and `rm` removes every copy (`model.py:118`).
* A field of an entry that this version does not know is dropped, as a comment says
  (`model.py:48-50`); `docs/VAULT_FORMAT.md:278-279` may be read more broadly. `UnknownKept` is
  about the fields of the document, which are kept.
* A limit of 0 makes `check` read an empty deque (`ratelimit.py:33`); `LimitAssumption` excludes it.

## Proofs

All theorems hold for every value of the constants that satisfies the named assumptions
(`EmptyVault` is a payload, bounds are naturals, and the values that stand for a missing or torn
file, row or vault are none of the real ones).

* `LocalVault_proofs`: `TypeCorrect`, `AlwaysOpens`, `SplicesRejected`. The inductive invariant
  `IInv` says that every file a process holds and every file stored is complete, that is, opens
  under some passphrase. Types alone are not inductive: what is stored comes from memory, and
  what is in memory must have been sealed whole. Lemmas show that create, seal, change of
  passphrase and rotation keep a file complete; each action then only moves complete files.
  That no second passphrase opens it follows because a box remembers the key it was made with.
* `LocalVault_proofs` also has `OwnVaultAccepted`, `AckedDurable`, `MarksNeverFall`, for any number
  of processes that do not overlap. A save has three files on two sides of a power failure, and
  the invariant `Alone` orders them. Its half `SoloOK` says that the one active process owns
  the temporary `state.json` and still holds the marks it loaded; it lasts until two processes overlap.
  `DurableOK` says that the vault file and what a power failure would leave of it differ only
  by a rename not yet settled, that the stored marks are covered by both, or only by the vault
  file while a command that started from an unsettled rename has not settled it
  (`unsettledBase`), and that nothing newer than the durable file was reported; it lasts until a
  backup is put back, after which only the marks can be relied on. Lemmas show that every operation on a
  vault raises its counters.
* `BlobServer_proofs`: `TypeCorrect` and `Refines`. `Alone` is the strengthening: until two
  writing handlers have overlapped, at most one is between its SELECT and its answer, and what
  it read is still what is stored. With it each statement maps to one step of the register (the
  commit decides; the refresh and the answer repeat it) or to a stutter.
* `DeviceSync_proofs`: `TypeCorrect`, `VersionContained`, `NotLockedOut`,
  `PushesKeepServerEdits`, `PullsNeverLower`. The invariant adds, for each device, what the command under way
  still holds (`TransferOK`: the file it uploads, the vault it has downloaded and the version
  that goes with it), that a remembered server version is never above the server's, and that
  the vault of an equal version is contained in the file. The exception, a session that saved
  over a pulled file, is carried by the history variable `stale`. An upload that outlives its
  sender contains what it would replace as long as the server can still accept it (`LateOK`).
* `Account_proofs`: `TypeCorrect`, `RotationKeepsOneLive`, `EndedForGood`, `EnabledOnlyProved`,
  `OnlyReplaysDetected`. `OneLivePerFamily` alone is not inductive, since a handler that has
  spent a token is about to issue another. `Rotation` adds what makes that safe: until its family
  is in `raced`, a handler between the two finds no live token in it, its family is not ended,
  and no other handler rotates it; `Typed` adds that families and tokens in use were issued.
  `Enrolment` says that, until the two overlap, an activation finds the secret it verified and an
  enrolment finds MFA disabled. `Owned` says whom a token belongs to: a token is held by one
  client, is asked about by the handler that client waits for, and one in an answer is nobody
  else's; so what a client that missed nothing holds is live, or its family has ended, until its
  own handler has spent it. `RefinesFamily` shows, from `Rotation`, that every step of a handler
  is a step or a stutter of the family it works on and leaves every other family alone: issuing a
  successor needs that its family has not ended and has no live token, spending is its one
  update, a logout and a reuse detection end families.
* `Access_proofs`: `TypeCorrect`, `BlobOpens`, `LoginMatches`, `OnlyOwnSavesLockOut`. A history
  variable remembers the passphrase each salt was drawn for. The invariant says that every file,
  every vault a process has loaded (`LoadedOK`), registration under way and account agrees with
  it, however old, and that a file which is or may be uploaded carries the salt of the account.
  The last theorem follows because a step that keeps the salt of a file keeps its passphrase. So the three properties follow although neither the server nor
  the device ever compares the two secrets.
* `RateLimiter_proofs`: `TypeCorrect`, `HeaderSuffices`, `WindowIsExact`, for any limits, window and
  number of requests in flight. The invariant of the second is that a promised time lies beyond the expiry of the head
  of the bucket. It holds even when stamps overtake each other, because the loop only looks at
  the head, and the head only changes by leaving or when a request is admitted. For the third the
  invariant says, until a key is overtaken, that its bucket is the end of its history of admitted
  stamps, that the history is in order, and that whatever precedes the bucket had expired by the
  latest stamp. So the bucket, which is all the code counts, holds every admission of the window,
  also after an eviction has dropped it and an empty one took its place.
* `Payload_proofs`: `TypeCorrect`, `PaddingHolds`, `SavedReadsBack`, `UnknownFieldsKept`,
  `OthersAreLeftAlone`, `RemovalIsComplete`, and `PadmeForEveryLength`, which no run states: for
  every length, padding reaches it, is monotone and idempotent, and above the floor adds at most 12 %. The
  recursive functions are not taken on trust: powers of two, bit lengths and the loop of a list
  comprehension are shown to exist, and what they compute is shown by the least counterexample of
  a set of naturals. `LimitsAssumption` (the payload limit is itself a padded length, whose file
  fits the file limit) is what makes the writer's padding and the reader's limits meet; TLC
  checks it for the program's numbers. The invariant for the entries says that ids drawn here are
  below the counter and, until an import brings one twice, that no id occurs twice; each command
  is then a lemma on what it does to the list of entries.
* `Session_proofs`: `TypeCorrect`, `EndsStored`. The invariant says what `dirty` promises
  (contents not marked unsaved are those of the file), that a payload on its way to the file is
  the contents of memory, and that past the last question every edit is stored or declined.

Only model-checked: `CopiedSecretCleared` and `IdleSessionEnds` (liveness under fairness and ENABLED are
beyond the prover), the violated runs and the mutants.

## What is left out

* Cryptography is symbolic: a box opens under its own key and data and no other. Nonces, base64
  and JSON parsing (`from_bytes` beyond its limits, `_as_int`) are not modelled.
* `config` with its `config.json`, `gen`, `benchmark`, and a Ctrl-C in the middle
  of a save. In `LocalVault`, `import` takes the steps of `add`; what it does to the entries is in `Payload`. Disk-full is modelled for the vault file, not for `state.json`.
* In `DeviceSync` a device runs one command at a time, every command may go past a rollback warning
  (`--allow-rollback`; a refusal changes nothing), and login always succeeds. After `passwd`
  the real program can no longer log in (`Access`), so it allows fewer of these behaviours than
  the model.
* In `BlobServer` an UPDATE writes the ciphertext even when it equals the one read, which
  SQLAlchemy would leave out of the statement. This matters only after two handlers overlapped.
* In `Account` the auth secret is right, the user is active, and registration, `kdf-params` and the
  decoys for unknown addresses are in `Access`; a code stands for the secret it was computed from,
  and every token or challenge may be found expired at any use.
* In `Session` a Ctrl-C arrives only while the main thread is blocked, the clipboard tool works,
  and the record after a save and the sync commands are left to the other modules. Without a
  terminal the question on leaving is not asked and the edits are dropped (`exit = "unasked"`). Reading the
  key is one step, so a key zeroed in part counts as zeroed.
* In `Access` there is one address, uploads and pulls do not look at versions and counters
  (`DeviceSync` does), and a device has one registration at the server at a time. The CLI never
  asks for the KDF parameters; the client library does, and a device without a file uses them.
* `RateLimiter` is one process of the server; `reset` is called by tests only. The address a key
  is made of (`client_ip`) is taken as given.
* In `Payload` one command runs at a time, other text fields of an entry count as their size, the largest
  memory cost is 2047 MiB (4 GiB is beyond TLC's integers), and what tuning measures is left
  open. A title that is no string, which `from_dict` lets through, is only listed as a hazard.
* No module covers the generator, the HTTP shell, the Kotlin port, or legacy code and tools: the
  first draws random text, the second is wiring without state that operations depend on, the
  third ports the file format and is kept equal by shared test vectors, the last is superseded.

## Plan

Done: every module above and its proofs. Worth doing next:

1. Two processes on one device in `DeviceSync`, and `config.json` beside `state.json`.
2. The server part of `DeviceSync` as a `CasRegister` by refinement: today the two agree by the
   way their actions are written, request by request.
