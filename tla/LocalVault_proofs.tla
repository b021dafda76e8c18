------------------------- MODULE LocalVault_proofs -------------------------
(***************************************************************************)
(* LocalVault for any number of processes and faults: its types, that      *)
(* every stored vault file opens under exactly one passphrase, and that a  *)
(* payload cannot be moved between files of different payload_seq.  Then   *)
(* what holds as long as one process runs at a time.                       *)
(***************************************************************************)
EXTENDS LocalVault, TLAPS

\* A complete vault file: one passphrase opens all of it.
Complete(vf) == vf \in VaultFiles /\ \E pass \in Passphrase : Opens(vf, pass)

CompleteOrMissing(f) == f = NoFile \/ Complete(f)

StateOK ==
    /\ stateJson \in Marks \union {Torn, NoFile}
    /\ stateTmp \in Marks \union {Torn, NoFile}
    /\ stateFd \in [Proc -> {"none", "tmp", "json", "orphan"}]

FilesOK ==
    /\ CompleteOrMissing(vaultFile)
    /\ CompleteOrMissing(backup)
    /\ onDisk \in [vault : VaultFiles \union {NoFile}, json : Marks \union {Torn, NoFile}]
    /\ CompleteOrMissing(onDisk.vault)
    /\ drawn \in 0 .. MaxDrawn

\* A process that runs a command holds a complete vault file.
MemOK(p) == IF Idle(p) THEN mem[p] = NoFile ELSE Complete(mem[p])

ProcOK ==
    /\ pc \in [Proc -> Steps]
    /\ cmd \in [Proc -> Commands]
    /\ phase \in [Proc -> {"opening", "saving", "closing"}]
    /\ mem \in [Proc -> VaultFiles \union {NoFile}]
    /\ contents \in [Proc -> Contents]
    /\ dirty \in [Proc -> BOOLEAN]
    /\ marks \in [Proc -> Marks]
    /\ \A p \in Proc : MemOK(p)

HistOK ==
    /\ acked \in VaultFiles \union {NoFile}
    /\ solo \in BOOLEAN
    /\ unsettledBase \in BOOLEAN
    /\ baseLost \in BOOLEAN
    /\ restored \in BOOLEAN
    /\ faults \in 0 .. MaxFaults

\* The inductive invariant: what is stored comes from what a process holds.
IInv == StateOK /\ FilesOK /\ ProcOK /\ HistOK

(***************************************************************************)
(* Operations on a vault file keep it complete.                            *)
(***************************************************************************)
\* Encrypting replaces the payload, bound to the file's id and payload_seq.
LEMMA EncryptedIs ==
    ASSUME NEW vf \in VaultFiles, NEW vek \in 1 .. MaxDrawn, NEW c \in Contents
    PROVE  Encrypted(vf, vek, c) =
               [vault_id |-> vf.vault_id, kdf |-> vf.kdf, vault_version |-> vf.vault_version,
                payload_seq |-> vf.payload_seq, wrapped_vek |-> vf.wrapped_vek,
                payload |-> [key |-> vek, aad |-> <<vf.vault_id, vf.payload_seq>>, plaintext |-> c]]
  BY DEF Encrypted, AeadEncrypt, PayloadBinding, VaultFiles

\* Sealing does so one position further.
LEMMA SealIs ==
    ASSUME NEW vf \in VaultFiles, NEW vek \in 1 .. MaxDrawn, NEW c \in Contents
    PROVE  Seal(vf, vek, c) =
               [vault_id |-> vf.vault_id, kdf |-> vf.kdf, vault_version |-> vf.vault_version + 1,
                payload_seq |-> vf.payload_seq + 1, wrapped_vek |-> vf.wrapped_vek,
                payload |-> [key |-> vek, aad |-> <<vf.vault_id, vf.payload_seq + 1>>,
                             plaintext |-> c]]
<1> DEFINE raised == [vf EXCEPT !.vault_version = @ + 1, !.payload_seq = @ + 1]
           half == [vf EXCEPT !.vault_version = @ + 1]
<1>1. raised = [vault_id |-> vf.vault_id, kdf |-> vf.kdf, vault_version |-> vf.vault_version + 1,
                payload_seq |-> vf.payload_seq + 1, wrapped_vek |-> vf.wrapped_vek,
                payload |-> vf.payload]
  <2>1. half = [vault_id |-> vf.vault_id, kdf |-> vf.kdf, vault_version |-> vf.vault_version + 1,
                payload_seq |-> vf.payload_seq, wrapped_vek |-> vf.wrapped_vek,
                payload |-> vf.payload]
    BY DEF VaultFiles
  <2>2. raised = [half EXCEPT !.payload_seq = @ + 1]
    OBVIOUS
  <2> HIDE DEF half, raised
  <2> QED
    BY <2>1, <2>2
<1>2. Seal(vf, vek, c) = Encrypted(raised, vek, c)
  BY DEF Seal
<1> HIDE DEF raised
<1>3. raised \in VaultFiles
  BY <1>1 DEF VaultFiles
<1> QED
  BY <1>1, <1>2, <1>3, EncryptedIs

\* Wrapping replaces the wrapped key, bound to the file's id and salt.
LEMMA WrapIs ==
    ASSUME NEW vf \in VaultFiles, NEW pass \in Passphrase, NEW vek \in 1 .. MaxDrawn
    PROVE  Wrap(vf, pass, vek) =
               [vault_id |-> vf.vault_id, kdf |-> vf.kdf, vault_version |-> vf.vault_version,
                payload_seq |-> vf.payload_seq,
                wrapped_vek |-> [key |-> <<pass, vf.kdf>>, aad |-> <<vf.vault_id, vf.kdf>>,
                                 plaintext |-> vek],
                payload |-> vf.payload]
  BY DEF Wrap, AeadEncrypt, KeyBinding, Kek, VaultFiles

\* Sealing under the file's own key keeps the passphrase.
LEMMA SealComplete ==
    ASSUME NEW vf, Complete(vf), NEW c \in Contents
    PROVE  Complete(Seal(vf, Vek(vf), c))
<1>1. PICK pass \in Passphrase : Opens(vf, pass)
  BY DEF Complete
<1>2. vf \in VaultFiles /\ Vek(vf) \in 1 .. MaxDrawn
  BY DEF Complete, VaultFiles, Vek
<1> DEFINE new == Seal(vf, Vek(vf), c)
<1>3. new = [vault_id |-> vf.vault_id, kdf |-> vf.kdf, vault_version |-> vf.vault_version + 1,
             payload_seq |-> vf.payload_seq + 1, wrapped_vek |-> vf.wrapped_vek,
             payload |-> [key |-> Vek(vf), aad |-> <<vf.vault_id, vf.payload_seq + 1>>,
                          plaintext |-> c]]
  BY <1>2, SealIs
<1> HIDE DEF new
<1>4. new \in VaultFiles
  BY <1>2, <1>3 DEF VaultFiles
<1>5. Opens(new, pass)
  BY <1>1, <1>3 DEF Opens, Unwraps, AeadOpens, Vek, KeyBinding, PayloadBinding, Kek
<1> QED
  BY <1>4, <1>5 DEF Complete, new

\* A new vault.
LEMMA CreateComplete ==
    ASSUME NEW pass \in Passphrase, NEW kdf \in 1 .. MaxDrawn, NEW vek \in 1 .. MaxDrawn
    PROVE  Complete(Create(VaultId, pass, kdf, vek, EmptyVault))
<1> DEFINE new == Create(VaultId, pass, kdf, vek, EmptyVault)
           empty == [vault_id |-> VaultId, kdf |-> kdf, vault_version |-> 0, payload_seq |-> 0,
                     wrapped_vek |-> [key |-> <<pass, kdf>>, aad |-> <<VaultId, kdf>>,
                                      plaintext |-> vek],
                     payload |-> [key |-> vek, aad |-> <<VaultId, 0>>, plaintext |-> EmptyVault]]
<1>1. new = Seal(empty, vek, EmptyVault)
  BY DEF Create, AeadEncrypt, Kek
<1>2. empty \in VaultFiles
  BY ContentsAssumption DEF VaultFiles
<1> HIDE DEF new
<1>3. new = [vault_id |-> VaultId, kdf |-> kdf, vault_version |-> 0 + 1, payload_seq |-> 0 + 1,
             wrapped_vek |-> [key |-> <<pass, kdf>>, aad |-> <<VaultId, kdf>>, plaintext |-> vek],
             payload |-> [key |-> vek, aad |-> <<VaultId, 0 + 1>>, plaintext |-> EmptyVault]]
  BY <1>1, <1>2, SealIs, ContentsAssumption
<1>4. new \in VaultFiles
  BY <1>3, ContentsAssumption DEF VaultFiles
<1>5. Opens(new, pass)
  BY <1>3 DEF Opens, Unwraps, AeadOpens, Vek, KeyBinding, PayloadBinding, Kek
<1> QED
  BY <1>4, <1>5 DEF Complete, new

\* A new passphrase with a new salt: the key moves, the payload stays.
LEMMA ChangePassphraseComplete ==
    ASSUME NEW vf, Complete(vf), NEW pass \in Passphrase, NEW kdf \in 1 .. MaxDrawn
    PROVE  Complete(ChangePassphrase(vf, pass, kdf))
<1>1. PICK old \in Passphrase : Opens(vf, old)
  BY DEF Complete
<1>2. vf \in VaultFiles /\ Vek(vf) \in 1 .. MaxDrawn
  BY DEF Complete, VaultFiles, Vek
<1> DEFINE new == ChangePassphrase(vf, pass, kdf)
           salted == [vf EXCEPT !.kdf = kdf]
           wrapped == Wrap(salted, pass, Vek(vf))
<1>3. salted \in VaultFiles /\ salted.kdf = kdf /\ salted.vault_id = vf.vault_id
      /\ salted.vault_version = vf.vault_version /\ salted.payload_seq = vf.payload_seq
      /\ salted.payload = vf.payload
  BY <1>2 DEF VaultFiles
<1>4. new = [wrapped EXCEPT !.vault_version = @ + 1]
  BY DEF ChangePassphrase
<1> HIDE DEF salted
<1>5. wrapped = [vault_id |-> vf.vault_id, kdf |-> kdf, vault_version |-> vf.vault_version,
                 payload_seq |-> vf.payload_seq,
                 wrapped_vek |-> [key |-> <<pass, kdf>>, aad |-> <<vf.vault_id, kdf>>,
                                  plaintext |-> Vek(vf)],
                 payload |-> vf.payload]
  BY <1>2, <1>3, WrapIs
<1> HIDE DEF new, wrapped
<1>6. new = [vault_id |-> vf.vault_id, kdf |-> kdf, vault_version |-> vf.vault_version + 1,
             payload_seq |-> vf.payload_seq,
             wrapped_vek |-> [key |-> <<pass, kdf>>, aad |-> <<vf.vault_id, kdf>>,
                              plaintext |-> Vek(vf)],
             payload |-> vf.payload]
  BY <1>4, <1>5
<1>7. new \in VaultFiles
  BY <1>2, <1>6 DEF VaultFiles
<1>8. Opens(new, pass)
  BY <1>1, <1>6 DEF Opens, Unwraps, AeadOpens, Vek, KeyBinding, PayloadBinding, Kek
<1> QED
  BY <1>7, <1>8 DEF Complete, new

\* A new vault key: wrapped under the passphrase given, payload sealed under it.
LEMMA RotateVekComplete ==
    ASSUME NEW vf, Complete(vf), NEW pass \in Passphrase, NEW vek \in 1 .. MaxDrawn
    PROVE  Complete(RotateVek(vf, pass, vek))
<1>1. vf \in VaultFiles /\ ContentsOf(vf) \in Contents
  BY DEF Complete, VaultFiles, ContentsOf
<1> DEFINE new == RotateVek(vf, pass, vek)
           wrapped == Wrap(vf, pass, vek)
<1>2. wrapped = [vault_id |-> vf.vault_id, kdf |-> vf.kdf, vault_version |-> vf.vault_version,
                 payload_seq |-> vf.payload_seq,
                 wrapped_vek |-> [key |-> <<pass, vf.kdf>>, aad |-> <<vf.vault_id, vf.kdf>>,
                                  plaintext |-> vek],
                 payload |-> vf.payload]
  BY <1>1, WrapIs
<1>3. new = Seal(wrapped, vek, ContentsOf(vf))
  BY DEF RotateVek
<1> HIDE DEF new, wrapped
<1>4. wrapped \in VaultFiles
  BY <1>1, <1>2 DEF VaultFiles
<1>5. new = [vault_id |-> vf.vault_id, kdf |-> vf.kdf, vault_version |-> vf.vault_version + 1,
             payload_seq |-> vf.payload_seq + 1,
             wrapped_vek |-> [key |-> <<pass, vf.kdf>>, aad |-> <<vf.vault_id, vf.kdf>>,
                              plaintext |-> vek],
             payload |-> [key |-> vek, aad |-> <<vf.vault_id, vf.payload_seq + 1>>,
                          plaintext |-> ContentsOf(vf)]]
  BY <1>1, <1>2, <1>3, <1>4, SealIs
<1>6. new \in VaultFiles
  BY <1>1, <1>5 DEF VaultFiles
<1>7. Opens(new, pass)
  BY <1>5 DEF Opens, Unwraps, AeadOpens, Vek, KeyBinding, PayloadBinding, Kek
<1> QED
  BY <1>6, <1>7 DEF Complete, new

\* Two passphrases never unwrap the same file.
LEMMA OnePassphrase ==
    ASSUME NEW vf, NEW p \in Passphrase, NEW q \in Passphrase, Unwraps(vf, p), Unwraps(vf, q)
    PROVE  p = q
  BY DEF Unwraps, AeadOpens, Kek

\* record() makes marks of marks.
LEMMA RecordType ==
    ASSUME NEW m \in Marks, NEW vf \in VaultFiles
    PROVE  Record(m, vf) \in Marks
  BY DEF Record, Larger, Marks, VaultFiles

\* load() makes marks of whatever state.json holds.
LEMMA LoadedType ==
    ASSUME NEW j \in Marks \union {Torn, NoFile}
    PROVE  Loaded(j) \in Marks
  BY DEF Loaded, NothingSeen, Marks

(***************************************************************************)
(* The invariant implies the two properties.                               *)
(***************************************************************************)
\* Complete files open under exactly one passphrase.
LEMMA FilesOpen == FilesOK => VaultAlwaysOpens
<1> SUFFICES ASSUME FilesOK, NEW vf \in Stored
             PROVE  \E pass \in Passphrase :
                        /\ Opens(vf, pass)
                        /\ \A other \in Passphrase \ {pass} : ~Unwraps(vf, other)
  BY DEF VaultAlwaysOpens
<1>1. PICK pass \in Passphrase : Opens(vf, pass)
  BY DEF FilesOK, CompleteOrMissing, Complete, Stored
<1>2. \A other \in Passphrase \ {pass} : ~Unwraps(vf, other)
  BY <1>1, OnePassphrase DEF Opens
<1> QED
  BY <1>1, <1>2

\* Complete files reject each other's payloads.
LEMMA FilesBound == FilesOK => SplicedPayloadRejected
<1> SUFFICES ASSUME FilesOK, NEW f \in Stored, NEW g \in Stored, NEW pass \in Passphrase,
                    Opens([f EXCEPT !.payload = g.payload], pass)
             PROVE  f.payload_seq = g.payload_seq
  BY DEF SplicedPayloadRejected
<1>1. f \in VaultFiles /\ g \in VaultFiles /\ \E q \in Passphrase : Opens(g, q)
  BY DEF FilesOK, CompleteOrMissing, Complete, Stored
<1>2. g.payload.aad = <<g.vault_id, g.payload_seq>>
  BY <1>1 DEF Opens, AeadOpens, PayloadBinding
<1> DEFINE h == [f EXCEPT !.payload = g.payload]
<1>3. h.payload = g.payload /\ h.vault_id = f.vault_id /\ h.payload_seq = f.payload_seq
  BY <1>1 DEF VaultFiles
<1> HIDE DEF h
<1>4. g.payload.aad = <<f.vault_id, f.payload_seq>>
  BY <1>3 DEF Opens, AeadOpens, PayloadBinding, h
<1> QED
  BY <1>2, <1>4

\* The inductive invariant carries the types.
LEMMA TypesHold == IInv => TypeOK
  BY DEF IInv, StateOK, FilesOK, ProcOK, HistOK, TypeOK, CompleteOrMissing, Complete

(***************************************************************************)
(* What the steps of several actions have in common.                       *)
(***************************************************************************)
\* A process that ends holds nothing.
LEMMA ExitOK ==
    ASSUME ProcOK, NEW p \in Proc, Exit(p)
    PROVE  ProcOK'
<1>1. NothingSeen \in Marks
  BY DEF NothingSeen, Marks
<1> QED
  BY <1>1, ContentsAssumption DEF ProcOK, MemOK, Idle, Exit, Goto, Forget, Steps, Commands

\* So do all processes after a power failure.
LEMMA AllExitOK ==
    ASSUME pc' = [p \in Proc |-> "idle"], cmd' = [p \in Proc |-> "list"],
           phase' = [p \in Proc |-> "opening"], mem' = [p \in Proc |-> NoFile],
           contents' = [p \in Proc |-> EmptyVault], dirty' = [p \in Proc |-> FALSE],
           marks' = [p \in Proc |-> NothingSeen]
    PROVE  ProcOK'
<1>1. NothingSeen \in Marks
  BY DEF NothingSeen, Marks
<1>2. marks' \in [Proc -> Marks]
  BY <1>1
<1>3. contents' \in [Proc -> Contents] /\ dirty' \in [Proc -> BOOLEAN]
  BY ContentsAssumption
<1>4. \A p \in Proc : MemOK(p)'
  BY DEF MemOK, Idle
<1> QED
  BY <1>2, <1>3, <1>4 DEF ProcOK, Steps, Commands

\* A process moves on with the vault file it holds, or with another complete one.
LEMMA MoveOK ==
    ASSUME ProcOK, NEW p \in Proc, NEW step \in Steps \ {"idle"}, NEW vf, Complete(vf),
           pc' = [pc EXCEPT ![p] = step], mem' = [mem EXCEPT ![p] = vf],
           cmd' \in [Proc -> Commands], phase' \in [Proc -> {"opening", "saving", "closing"}],
           contents' \in [Proc -> Contents], dirty' \in [Proc -> BOOLEAN],
           marks' \in [Proc -> Marks]
    PROVE  ProcOK'
<1>1. vf \in VaultFiles
  BY DEF Complete
<1>2. pc' \in [Proc -> Steps] /\ mem' \in [Proc -> VaultFiles \union {NoFile}]
  BY <1>1 DEF ProcOK
<1>3. \A q \in Proc : MemOK(q)'
  BY DEF ProcOK, MemOK, Idle
<1> QED
  BY <1>2, <1>3 DEF ProcOK

\* The same when it keeps the vault file.
LEMMA StayOK ==
    ASSUME ProcOK, NEW p \in Proc, NEW step \in Steps \ {"idle"}, ~Idle(p),
           pc' = [pc EXCEPT ![p] = step], UNCHANGED mem,
           cmd' \in [Proc -> Commands], phase' \in [Proc -> {"opening", "saving", "closing"}],
           contents' \in [Proc -> Contents], dirty' \in [Proc -> BOOLEAN],
           marks' \in [Proc -> Marks]
    PROVE  ProcOK'
<1>1. Complete(mem[p]) /\ mem' = [mem EXCEPT ![p] = mem[p]]
  BY DEF ProcOK, MemOK
<1> QED
  BY <1>1, MoveOK

\* A changed vault file is on its way to VaultFile.save.
LEMMA ToSaveOK ==
    ASSUME IInv, NEW p \in Proc, NEW vf, Complete(vf), NEW ph \in {"saving", "closing"},
           ToSave(p, vf, ph), contents' \in [Proc -> Contents], UNCHANGED dirty,
           drawn' \in 0 .. MaxDrawn
    PROVE  IInv'
<1>1. StateOK' /\ HistOK'
  BY DEF IInv, StateOK, HistOK, ToSave, stateVars, histVars
<1>2. FilesOK'
  BY DEF IInv, FilesOK, ToSave, CompleteOrMissing
<1>3. pc' = [pc EXCEPT ![p] = "replace"] /\ mem' = [mem EXCEPT ![p] = vf]
      /\ phase' = [phase EXCEPT ![p] = ph] /\ UNCHANGED <<cmd, marks>>
  BY DEF ToSave, Goto
<1>4. ProcOK
  BY DEF IInv
<1>5. /\ cmd' \in [Proc -> Commands] /\ phase' \in [Proc -> {"opening", "saving", "closing"}]
      /\ dirty' \in [Proc -> BOOLEAN] /\ marks' \in [Proc -> Marks]
  BY <1>3, <1>4 DEF ProcOK
<1>6. ProcOK'
  BY <1>3, <1>4, <1>5, MoveOK DEF Steps
<1> QED
  BY <1>1, <1>2, <1>6 DEF IInv

\* A command that fails ends, or saves once more what its session holds.
LEMMA RaiseOK ==
    ASSUME IInv, NEW p \in Proc, ~Idle(p), Raise(p)
    PROVE  IInv'
<1> USE DEF IInv
<1>1. CASE Exit(p) /\ UNCHANGED <<fileVars, stateVars, histVars>>
  <2>1. StateOK' /\ FilesOK' /\ HistOK'
    BY <1>1 DEF StateOK, FilesOK, HistOK, CompleteOrMissing, fileVars, stateVars, histVars
  <2> QED
    BY <1>1, <2>1, ExitOK
<1>2. CASE /\ ToSave(p, Seal(mem[p], Vek(mem[p]), contents[p]), "closing")
           /\ UNCHANGED <<contents, dirty, drawn>>
  <2>1. Complete(mem[p]) /\ contents[p] \in Contents
    BY DEF ProcOK, MemOK, Complete
  <2>2. Complete(Seal(mem[p], Vek(mem[p]), contents[p]))
    BY <2>1, SealComplete
  <2> QED
    BY <1>2, <2>2, ToSaveOK DEF ProcOK, FilesOK
<1> QED
  BY <1>1, <1>2 DEF Raise

(***************************************************************************)
(* The invariant, action by action.                                        *)
(***************************************************************************)
\* The inductive invariant holds initially.
LEMMA InvInit == Init => IInv
<1> SUFFICES ASSUME Init PROVE IInv
  OBVIOUS
<1>1. StateOK /\ FilesOK /\ HistOK
  <2>1. StateOK
    BY DEF Init, StateFileInit, StateOK
  <2>2. FilesOK
    <3>1. 0 \in 0 .. MaxDrawn
      BY BoundsAssumption
    <3> QED
      BY <3>1 DEF Init, FilesOK, CompleteOrMissing
  <2>3. /\ solo \in BOOLEAN /\ unsettledBase \in BOOLEAN /\ baseLost \in BOOLEAN
        /\ restored \in BOOLEAN /\ acked \in VaultFiles \union {NoFile}
    BY DEF Init
  <2>4. faults \in 0 .. MaxFaults
    BY BoundsAssumption DEF Init
  <2> QED
    BY <2>1, <2>2, <2>3, <2>4 DEF HistOK
<1>2. NothingSeen \in Marks
  BY DEF NothingSeen, Marks
<1>3. marks \in [Proc -> Marks] /\ contents \in [Proc -> Contents]
  BY <1>2, ContentsAssumption DEF Init
<1>4. ProcOK
  BY <1>3 DEF Init, ProcOK, MemOK, Idle, Steps, Commands
<1> QED
  BY <1>1, <1>4 DEF IInv

\* Starting a command, and the rollback check.
LEMMA OpenStep ==
    ASSUME IInv, NEW p \in Proc, Open(p)
    PROVE  IInv'
<1> USE DEF IInv
<1>1. CASE LoadVault(p)
  <2>1. StateOK' /\ FilesOK'
    BY <1>1 DEF LoadVault, StateOK, FilesOK, CompleteOrMissing, fileVars, stateVars
  <2>2. PICK c \in Commands : Begin(p, c, IF c \in {"passwd", "rotate"} THEN "prompt" ELSE "loadState")
    BY <1>1 DEF LoadVault
  <2>3. HistOK'
    BY <2>2 DEF Begin, HistOK
  <2>4. Complete(vaultFile) /\ mem' = [mem EXCEPT ![p] = vaultFile] /\ UNCHANGED phase
    BY <1>1 DEF LoadVault, FilesOK, CompleteOrMissing
  <2>5. PICK step \in {"prompt", "loadState"} : pc' = [pc EXCEPT ![p] = step]
    BY <2>2 DEF Begin, Goto
  <2>6. cmd' \in [Proc -> Commands] /\ UNCHANGED <<contents, dirty, marks>>
    BY <2>2 DEF Begin, ProcOK
  <2>7. ProcOK'
    BY <2>4, <2>5, <2>6, MoveOK DEF ProcOK, Steps
  <2> QED
    BY <2>1, <2>3, <2>7
<1>2. CASE LoadState(p)
  <2>1. StateOK' /\ FilesOK' /\ HistOK'
    BY <1>2 DEF LoadState, StateOK, FilesOK, HistOK, CompleteOrMissing, fileVars, stateVars, histVars
  <2>2. CASE Exit(p)
    BY <2>1, <2>2, ExitOK
  <2>3. CASE ~Exit(p)
    <3>1. /\ ~Idle(p) /\ pc' = [pc EXCEPT ![p] = "prompt"]
          /\ marks' = [marks EXCEPT ![p] = Loaded(stateJson)]
          /\ UNCHANGED <<cmd, phase, mem, contents, dirty>>
      BY <1>2, <2>3 DEF LoadState, Idle, Goto
    <3>2. marks' \in [Proc -> Marks]
      BY <3>1, LoadedType DEF StateOK, ProcOK
    <3>3. ProcOK'
      BY <3>1, <3>2, StayOK DEF ProcOK, Steps
    <3> QED
      BY <2>1, <3>3
  <2> QED
    BY <2>2, <2>3
<1>3. CASE Unlock(p)
  <2>1. StateOK' /\ FilesOK' /\ HistOK'
    BY <1>3 DEF Unlock, StateOK, FilesOK, HistOK, CompleteOrMissing, fileVars, stateVars, histVars
  <2>2. ~Idle(p) /\ mem[p] \in VaultFiles
    BY <1>3 DEF Unlock, Idle, ProcOK, MemOK, Complete
  <2>3. contents' \in [Proc -> Contents]
    BY <1>3, <2>2 DEF Unlock, ContentsOf, VaultFiles, ProcOK
  <2>4. marks' \in [Proc -> Marks]
    BY <1>3, <2>2, RecordType DEF Unlock, ProcOK
  <2>5. pc' = [pc EXCEPT ![p] = "jsonOpen"] /\ UNCHANGED <<cmd, phase, mem, dirty>>
    BY <1>3 DEF Unlock, Goto
  <2>6. ProcOK'
    BY <2>2, <2>3, <2>4, <2>5, StayOK DEF ProcOK, Steps
  <2> QED
    BY <2>1, <2>6
<1>4. CASE WrongPassphrase(p)
  <2>1. StateOK' /\ FilesOK' /\ HistOK'
    BY <1>4 DEF WrongPassphrase, StateOK, FilesOK, HistOK, CompleteOrMissing, fileVars, stateVars, histVars
  <2> QED
    BY <1>4, <2>1, ExitOK DEF WrongPassphrase
<1> QED
  BY <1>1, <1>2, <1>3, <1>4 DEF Open

\* Changing the vault file in memory.
LEMMA ChangeStep ==
    ASSUME IInv, NEW p \in Proc, Change(p)
    PROVE  IInv'
<1> USE DEF IInv
<1>0. pc[p] # "idle" => Complete(mem[p])
  BY DEF ProcOK, MemOK, Idle
<1>1. CASE CmdInit(p)
  <2>1. StateOK'
    BY <1>1 DEF CmdInit, StateOK, stateVars
  <2>2. FilesOK'
    BY <1>1, BoundsAssumption DEF CmdInit, FilesOK, CompleteOrMissing
  <2>3. HistOK'
    BY <1>1 DEF CmdInit, Begin, HistOK
  <2>4. PICK pass \in Passphrase :
            mem' = [mem EXCEPT ![p] = Create(VaultId, pass, drawn + 1, drawn + 2, EmptyVault)]
    BY <1>1 DEF CmdInit
  <2>5. drawn + 1 \in 1 .. MaxDrawn /\ drawn + 2 \in 1 .. MaxDrawn
    BY <1>1, BoundsAssumption DEF CmdInit, FilesOK
  <2>6. Complete(Create(VaultId, pass, drawn + 1, drawn + 2, EmptyVault))
    BY <2>5, CreateComplete
  <2>7. /\ pc' = [pc EXCEPT ![p] = "replace"] /\ phase' = [phase EXCEPT ![p] = "saving"]
        /\ cmd' = [cmd EXCEPT ![p] = "edit"] /\ UNCHANGED <<contents, dirty, marks>>
    BY <1>1 DEF CmdInit, Begin, Goto
  <2>8. cmd' \in [Proc -> Commands] /\ phase' \in [Proc -> {"opening", "saving", "closing"}]
    BY <2>7 DEF ProcOK, Commands
  <2>9. ProcOK'
    BY <2>4, <2>6, <2>7, <2>8, MoveOK DEF ProcOK, Steps
  <2> QED
    BY <2>1, <2>2, <2>3, <2>9
<1>2. CASE CmdPasswd(p)
  <2>1. PICK new \in Passphrase : ToSave(p, ChangePassphrase(mem[p], new, drawn + 1), "saving")
    BY <1>2 DEF CmdPasswd
  <2>2. drawn + 1 \in 1 .. MaxDrawn /\ drawn' \in 0 .. MaxDrawn
    BY <1>2, BoundsAssumption DEF CmdPasswd, FilesOK
  <2>3. Complete(mem[p])
    BY <1>0, <1>2 DEF CmdPasswd
  <2>4. Complete(ChangePassphrase(mem[p], new, drawn + 1))
    BY <2>2, <2>3, ChangePassphraseComplete
  <2> QED
    BY <1>2, <2>1, <2>2, <2>4, ToSaveOK DEF CmdPasswd, ProcOK
<1>3. CASE CmdRotateKey(p)
  <2>1. PICK pass \in Passphrase : ToSave(p, RotateVek(mem[p], pass, drawn + 1), "saving")
    BY <1>3 DEF CmdRotateKey
  <2>2. drawn + 1 \in 1 .. MaxDrawn /\ drawn' \in 0 .. MaxDrawn
    BY <1>3, BoundsAssumption DEF CmdRotateKey, FilesOK
  <2>3. Complete(mem[p])
    BY <1>0, <1>3 DEF CmdRotateKey
  <2>4. Complete(RotateVek(mem[p], pass, drawn + 1))
    BY <2>2, <2>3, RotateVekComplete
  <2> QED
    BY <1>3, <2>1, <2>2, <2>4, ToSaveOK DEF CmdRotateKey, ProcOK
<1>4. CASE CmdEdit(p)
  <2>1. PICK c \in Contents : /\ contents' = [contents EXCEPT ![p] = c]
                              /\ ToSave(p, Seal(mem[p], Vek(mem[p]), c), "saving")
    BY <1>4 DEF CmdEdit
  <2>2. Complete(Seal(mem[p], Vek(mem[p]), c))
    BY <1>0, <1>4, SealComplete DEF CmdEdit
  <2>3. contents' \in [Proc -> Contents]
    BY <2>1 DEF ProcOK
  <2> QED
    BY <1>4, <2>1, <2>2, <2>3, ToSaveOK DEF CmdEdit, FilesOK
<1>5. CASE SessionEdit(p)
  <2>1. StateOK' /\ FilesOK' /\ HistOK'
    BY <1>5 DEF SessionEdit, StateOK, FilesOK, HistOK, CompleteOrMissing, fileVars, stateVars, histVars
  <2>2. contents' \in [Proc -> Contents] /\ dirty' \in [Proc -> BOOLEAN]
    BY <1>5 DEF SessionEdit, ProcOK
  <2>3. ProcOK'
    BY <1>5, <2>2 DEF SessionEdit, ProcOK, MemOK, Idle
  <2> QED
    BY <2>1, <2>3
<1>6. ASSUME pc[p] = "opened", NEW ph \in {"saving", "closing"},
             ToSave(p, Seal(mem[p], Vek(mem[p]), contents[p]), ph),
             UNCHANGED <<contents, dirty, drawn>>
      PROVE  IInv'
  <2>1. contents[p] \in Contents
    BY DEF ProcOK
  <2>2. Complete(Seal(mem[p], Vek(mem[p]), contents[p]))
    BY <1>0, <1>6, <2>1, SealComplete
  <2> QED
    BY <1>6, <2>2, ToSaveOK DEF ProcOK, FilesOK
<1>7. CASE SessionSave(p)
  BY <1>6, <1>7 DEF SessionSave
<1>8. CASE SessionQuitSaving(p)
  BY <1>6, <1>8 DEF SessionQuitSaving
<1>9. CASE Quit(p)
  <2>1. StateOK' /\ FilesOK' /\ HistOK'
    BY <1>9 DEF Quit, StateOK, FilesOK, HistOK, CompleteOrMissing, fileVars, stateVars, histVars
  <2> QED
    BY <1>9, <2>1, ExitOK DEF Quit
<1> QED
  BY <1>1, <1>2, <1>3, <1>4, <1>5, <1>7, <1>8, <1>9 DEF Change

\* Writing the vault file.
LEMMA SaveStep ==
    ASSUME IInv, NEW p \in Proc, Save(p)
    PROVE  IInv'
<1> USE DEF IInv
<1>0. pc[p] # "idle" => Complete(mem[p]) /\ mem[p] \in VaultFiles
  BY DEF ProcOK, MemOK, Idle, Complete
<1>1. CASE ReplaceVault(p)
  <2>1. StateOK' /\ HistOK'
    BY <1>1 DEF ReplaceVault, StateOK, HistOK, stateVars, histVars
  <2>2. FilesOK'
    BY <1>0, <1>1 DEF ReplaceVault, FilesOK, CompleteOrMissing
  <2>3. ~Idle(p) /\ pc' = [pc EXCEPT ![p] = "dirSync"]
        /\ UNCHANGED <<cmd, phase, mem, contents, dirty, marks>>
    BY <1>1 DEF ReplaceVault, Goto, Idle
  <2>4. ProcOK'
    BY <2>3, StayOK DEF ProcOK, Steps
  <2> QED
    BY <2>1, <2>2, <2>4
<1>2. CASE SaveFails(p) \/ SyncFails(p)
  BY <1>2, RaiseOK DEF SaveFails, SyncFails, Idle
<1>3. CASE SyncDir(p)
  <2>1. StateOK'
    BY <1>3 DEF SyncDir, StateOK, stateVars
  <2>2. FilesOK'
    BY <1>3 DEF SyncDir, FilesOK, StateOK, CompleteOrMissing, Complete
  <2>3. HistOK'
    BY <1>0, <1>3 DEF SyncDir, HistOK
  <2>4. CASE Exit(p)
    BY <2>1, <2>2, <2>3, <2>4, ExitOK
  <2>5. CASE ~Exit(p)
    <3>1. ~Idle(p) /\ pc' = [pc EXCEPT ![p] = "reload"]
          /\ UNCHANGED <<cmd, phase, mem, contents, dirty, marks>>
      BY <1>3, <2>5 DEF SyncDir, Goto, Idle
    <3>2. ProcOK'
      BY <3>1, StayOK DEF ProcOK, Steps
    <3> QED
      BY <2>1, <2>2, <2>3, <3>2
  <2> QED
    BY <2>4, <2>5
<1> QED
  BY <1>1, <1>2, <1>3 DEF Save

\* Writing state.json.
LEMMA RecordStep ==
    ASSUME IInv, NEW p \in Proc, RecordState(p)
    PROVE  IInv'
<1> USE DEF IInv
<1>0. pc[p] # "idle" => Complete(mem[p]) /\ mem[p] \in VaultFiles
  BY DEF ProcOK, MemOK, Idle, Complete
<1>1. CASE ReloadState(p)
  <2>1. StateOK' /\ FilesOK' /\ HistOK'
    BY <1>1 DEF ReloadState, StateOK, FilesOK, HistOK, CompleteOrMissing, fileVars, stateVars, histVars
  <2>2. Record(Loaded(stateJson), mem[p]) \in Marks
    BY <1>0, <1>1, LoadedType, RecordType DEF ReloadState, StateOK
  <2>3. marks' \in [Proc -> Marks]
    BY <1>1, <2>2 DEF ReloadState, ProcOK
  <2>4. ~Idle(p) /\ pc' = [pc EXCEPT ![p] = "jsonOpen"] /\ UNCHANGED <<cmd, phase, mem, contents, dirty>>
    BY <1>1 DEF ReloadState, Goto, Idle
  <2>5. ProcOK'
    BY <2>3, <2>4, StayOK DEF ProcOK, Steps
  <2> QED
    BY <2>1, <2>5
<1>2. CASE JsonOpen(p)
  <2>1. FilesOK' /\ HistOK'
    BY <1>2 DEF JsonOpen, FilesOK, HistOK, CompleteOrMissing, fileVars, histVars
  <2>2. StateOK'
    BY <1>2 DEF JsonOpen, OpenTmp, StateOK
  <2>3. ~Idle(p) /\ pc' = [pc EXCEPT ![p] = "jsonWrite"]
        /\ UNCHANGED <<cmd, phase, mem, contents, dirty, marks>>
    BY <1>2 DEF JsonOpen, Goto, Idle
  <2>4. ProcOK'
    BY <2>3, StayOK DEF ProcOK, Steps
  <2> QED
    BY <2>1, <2>2, <2>4
<1>3. CASE JsonWrite(p)
  <2>1. FilesOK' /\ HistOK'
    BY <1>3 DEF JsonWrite, FilesOK, HistOK, CompleteOrMissing, fileVars, histVars
  <2>2. marks[p] \in Marks
    BY DEF ProcOK
  <2>3. StateOK'
    BY <1>3, <2>2 DEF JsonWrite, WriteTmp, Written, StateOK
  <2>4. ~Idle(p) /\ pc' = [pc EXCEPT ![p] = "jsonReplace"]
        /\ UNCHANGED <<cmd, phase, mem, contents, dirty, marks>>
    BY <1>3 DEF JsonWrite, Goto, Idle
  <2>5. ProcOK'
    BY <2>4, StayOK DEF ProcOK, Steps
  <2> QED
    BY <2>1, <2>3, <2>5
<1>4. CASE JsonReplace(p)
  <2>1. FilesOK'
    BY <1>4 DEF JsonReplace, FilesOK, CompleteOrMissing, fileVars
  <2>2. HistOK'
    BY <1>0, <1>4 DEF JsonReplace, HistOK
  <2>3. StateOK'
    BY <1>4 DEF JsonReplace, ReplaceState, FollowRename, StateOK
  <2>4. CASE Exit(p)
    BY <2>1, <2>2, <2>3, <2>4, ExitOK
  <2>5. CASE ~Exit(p)
    <3>1. ~Idle(p) /\ pc' = [pc EXCEPT ![p] = "opened"] /\ dirty' = [dirty EXCEPT ![p] = FALSE]
          /\ phase' = [phase EXCEPT ![p] = "opening"] /\ UNCHANGED <<cmd, mem, contents, marks>>
      BY <1>4, <2>5 DEF JsonReplace, Goto, Idle
    <3>2. dirty' \in [Proc -> BOOLEAN] /\ phase' \in [Proc -> {"opening", "saving", "closing"}]
      BY <3>1 DEF ProcOK
    <3>3. ProcOK'
      BY <3>1, <3>2, StayOK DEF ProcOK, Steps
    <3> QED
      BY <2>1, <2>2, <2>3, <3>3
  <2> QED
    BY <2>4, <2>5
<1>5. CASE JsonReplaceFails(p)
  BY <1>5, RaiseOK DEF JsonReplaceFails, Idle
<1> QED
  BY <1>1, <1>2, <1>3, <1>4, <1>5 DEF RecordState

\* Kills, power failures and backups.
LEMMA EnvironmentStep ==
    ASSUME IInv, (\E p \in Proc : Kill(p)) \/ PowerLoss \/ Export \/ RestoreBackup
    PROVE  IInv'
<1> USE DEF IInv
<1>1. ASSUME NEW p \in Proc, Kill(p) PROVE IInv'
  <2>1. StateOK' /\ FilesOK'
    BY <1>1 DEF Kill, StateOK, FilesOK, CompleteOrMissing, fileVars
  <2>2. HistOK'
    BY <1>1, BoundsAssumption DEF Kill, Fault, HistOK
  <2> QED
    BY <1>1, <2>1, <2>2, ExitOK DEF Kill
<1>2. CASE PowerLoss
  <2>1. StateOK'
    BY <1>2 DEF PowerLoss, StateOK, FilesOK
  <2>2. CompleteOrMissing(vaultFile') /\ stateJson' \in Marks \union {Torn, NoFile}
    BY <1>2 DEF PowerLoss, StateOK, FilesOK
  <2>3. FilesOK'
    BY <1>2, <2>2 DEF PowerLoss, FilesOK, CompleteOrMissing, Complete
  <2>4. HistOK'
    <3>1. faults' \in 0 .. MaxFaults
      BY <1>2, BoundsAssumption DEF PowerLoss, Fault, HistOK
    <3>2. baseLost' \in BOOLEAN /\ unsettledBase' \in BOOLEAN
      BY <1>2 DEF PowerLoss
    <3>3. UNCHANGED <<acked, solo, restored>>
      BY <1>2 DEF PowerLoss
    <3> QED
      BY <3>1, <3>2, <3>3 DEF HistOK
  <2>5. ProcOK'
    BY <1>2, AllExitOK DEF PowerLoss
  <2> QED
    BY <2>1, <2>3, <2>4, <2>5
<1>3. CASE Export
  <2>1. StateOK' /\ HistOK' /\ ProcOK'
    BY <1>3 DEF Export, StateOK, HistOK, ProcOK, MemOK, Idle, stateVars, histVars, procVars
  <2>2. FilesOK'
    BY <1>3 DEF Export, FilesOK, CompleteOrMissing
  <2> QED
    BY <2>1, <2>2
<1>4. CASE RestoreBackup
  <2>1. StateOK' /\ ProcOK'
    BY <1>4 DEF RestoreBackup, StateOK, ProcOK, MemOK, Idle, stateVars, procVars
  <2>2. FilesOK'
    BY <1>4 DEF RestoreBackup, FilesOK, CompleteOrMissing, Complete
  <2>3. HistOK'
    BY <1>4, BoundsAssumption DEF RestoreBackup, Fault, HistOK
  <2> QED
    BY <2>1, <2>2, <2>3
<1> QED
  BY <1>1, <1>2, <1>3, <1>4

\* Every step keeps the inductive invariant.
LEMMA InvStep == IInv /\ [Next]_vars => IInv'
<1> SUFFICES ASSUME IInv, [Next]_vars PROVE IInv'
  OBVIOUS
<1>1. CASE UNCHANGED vars
  BY <1>1 DEF vars, stateVars, fileVars, procVars, histVars, IInv, StateOK, FilesOK, HistOK, ProcOK,
     MemOK, Idle, CompleteOrMissing
<1>2. CASE Next
  BY <1>2, OpenStep, ChangeStep, SaveStep, RecordStep, EnvironmentStep DEF Next
<1> QED
  BY <1>1, <1>2

\* So it holds in every reachable state.
LEMMA Invariance == Spec => []IInv
  BY InvInit, InvStep, PTL DEF Spec

\* Every reachable state has its types (src/zkvault/cli.py, vault.py, state.py).
THEOREM TypeCorrect == Spec => []TypeOK
  BY Invariance, TypesHold, PTL

\* Any number of processes, kills, power failures and restores: every stored
\* vault file opens under exactly one passphrase (VaultFile.save).
THEOREM AlwaysOpens == Spec => []VaultAlwaysOpens
<1>1. IInv => VaultAlwaysOpens
  BY FilesOpen DEF IInv
<1> QED
  BY <1>1, Invariance, PTL

\* A payload is bound to its payload_seq, whatever files there are
\* (_payload_binding).
THEOREM SplicesRejected == Spec => []SplicedPayloadRejected
<1>1. IInv => SplicedPayloadRejected
  BY FilesBound DEF IInv
<1> QED
  BY <1>1, Invariance, PTL

(***************************************************************************)
(* When one process runs at a time, for any number of processes, kills and *)
(* power failures: the device accepts its own vault, what was reported as  *)
(* saved is durable, and the recorded marks never fall.                    *)
(*                                                                         *)
(* The invariant has two halves.  SoloOK is about state.json and the       *)
(* process that rewrites it and holds as long as nothing overlapped.       *)
(* DurableOK relates state.json to the vault file on both sides of a       *)
(* power failure and holds until a backup is put back.                     *)
(***************************************************************************)
\* The counters of a file, 0 where there is none.
VersionOf(f) == IF f = NoFile THEN 0 ELSE f.vault_version
SeqOf(f) == IF f = NoFile THEN 0 ELSE f.payload_seq

\* The file f would not be refused under the marks m.
Covers(m, f) == m.vault_version <= VersionOf(f) /\ m.payload_seq <= SeqOf(f)

\* g is a later file than f.
Behind(f, g) == VersionOf(f) < VersionOf(g) /\ SeqOf(f) <= SeqOf(g)

Recording(p) == pc[p] \in {"jsonOpen", "jsonWrite", "jsonReplace"}

OneActive == \A p, q \in Proc : ~Idle(p) /\ ~Idle(q) => p = q

\* The temporary file is the process's own, and its marks include those recorded.
RecordOK(p) ==
    /\ IF pc[p] = "jsonWrite" THEN stateFd[p] = "tmp" /\ stateTmp = Torn ELSE stateFd[p] = "none"
    /\ pc[p] = "jsonReplace" => stateTmp = marks[p]
    /\ pc[p] = "prompt" /\ cmd[p] \notin {"passwd", "rotate"} => marks[p] = Loaded(stateJson)
    /\ Recording(p) => NotAhead(Loaded(stateJson), marks[p])

SoloOK == OneActive /\ stateJson # Torn /\ onDisk.json # Torn /\ \A p \in Proc : RecordOK(p)

\* What a process records after a save is durable; what it records on opening is,
\* unless it started from an unsettled rename.
HoldsOK(p) ==
    /\ pc[p] \notin {"idle", "replace", "dirSync"} => unsettledBase \/ vaultFile = onDisk.vault
    /\ pc[p] \notin {"idle", "replace"} => mem[p] = vaultFile
    /\ pc[p] = "replace" => Behind(vaultFile, mem[p])
    /\ pc[p] \in {"idle", "loadState", "prompt"} => phase[p] = "opening"
    /\ pc[p] = "reload" \/ (Recording(p) /\ phase[p] = "saving") => vaultFile = onDisk.vault
    /\ Recording(p) /\ ~baseLost => Covers(marks[p], vaultFile)

\* The marks cover the file a power failure would leave, too, unless a process
\* started from an unsettled rename.
MarksCovered ==
    ~baseLost =>
        \A j \in {stateJson, onDisk.json} :
            /\ Covers(Loaded(j), vaultFile)
            /\ ~unsettledBase => Covers(Loaded(j), onDisk.vault)

Settling == vaultFile = onDisk.vault \/ Behind(onDisk.vault, vaultFile)

AckedOK ==
    acked # NoFile =>
        /\ onDisk.vault # NoFile
        /\ onDisk.vault = acked \/ acked.vault_version < onDisk.vault.vault_version

DurableOK == MarksCovered /\ Settling /\ (\A p \in Proc : HoldsOK(p)) /\ AckedOK

\* What holds while one process at a time has run.
Alone == (solo => SoloOK) /\ (solo /\ ~restored => DurableOK)

(***************************************************************************)
(* Operations on a vault file raise its counters; recording raises marks.  *)
(***************************************************************************)
LEMMA SealBehind ==
    ASSUME NEW vf, Complete(vf), NEW c \in Contents
    PROVE  Behind(vf, Seal(vf, Vek(vf), c))
<1>1. vf \in VaultFiles /\ Vek(vf) \in 1 .. MaxDrawn
  BY DEF Complete, VaultFiles, Vek
<1> DEFINE new == Seal(vf, Vek(vf), c)
<1>2. new.vault_version = vf.vault_version + 1 /\ new.payload_seq = vf.payload_seq + 1
  BY <1>1, SealIs
<1>3. new \in VaultFiles
  BY SealComplete DEF Complete
<1>4. vf # NoFile /\ new # NoFile
  BY <1>1, <1>3, NoFileAssumption
<1>5. vf.vault_version \in Nat /\ vf.payload_seq \in Nat
  BY <1>1 DEF VaultFiles
<1> HIDE DEF new
<1>6. Behind(vf, new)
  BY <1>2, <1>4, <1>5 DEF Behind, VersionOf, SeqOf
<1> QED
  BY <1>6 DEF new

LEMMA CreateBehind ==
    ASSUME NEW pass \in Passphrase, NEW kdf \in 1 .. MaxDrawn, NEW vek \in 1 .. MaxDrawn
    PROVE  Behind(NoFile, Create(VaultId, pass, kdf, vek, EmptyVault))
<1> DEFINE new == Create(VaultId, pass, kdf, vek, EmptyVault)
           empty == [vault_id |-> VaultId, kdf |-> kdf, vault_version |-> 0, payload_seq |-> 0,
                     wrapped_vek |-> [key |-> <<pass, kdf>>, aad |-> <<VaultId, kdf>>,
                                      plaintext |-> vek],
                     payload |-> [key |-> vek, aad |-> <<VaultId, 0>>, plaintext |-> EmptyVault]]
<1>1. new = Seal(empty, vek, EmptyVault)
  BY DEF Create, AeadEncrypt, Kek
<1>2. empty \in VaultFiles
  BY ContentsAssumption DEF VaultFiles
<1>3. new \in VaultFiles
  BY CreateComplete DEF Complete
<1> HIDE DEF new
<1>4. new.vault_version = 0 + 1 /\ new.payload_seq = 0 + 1
  BY <1>1, <1>2, SealIs, ContentsAssumption
<1>5. Behind(NoFile, new)
  BY <1>3, <1>4, NoFileAssumption DEF Behind, VersionOf, SeqOf
<1> QED
  BY <1>5 DEF new

LEMMA ChangePassphraseBehind ==
    ASSUME NEW vf, Complete(vf), NEW pass \in Passphrase, NEW kdf \in 1 .. MaxDrawn
    PROVE  Behind(vf, ChangePassphrase(vf, pass, kdf))
<1>1. vf \in VaultFiles /\ Vek(vf) \in 1 .. MaxDrawn
  BY DEF Complete, VaultFiles, Vek
<1> DEFINE new == ChangePassphrase(vf, pass, kdf)
           salted == [vf EXCEPT !.kdf = kdf]
           wrapped == Wrap(salted, pass, Vek(vf))
<1>2. salted \in VaultFiles /\ salted.vault_version = vf.vault_version
      /\ salted.payload_seq = vf.payload_seq
  BY <1>1 DEF VaultFiles
<1>3. new = [wrapped EXCEPT !.vault_version = @ + 1]
  BY DEF ChangePassphrase
<1>4. new \in VaultFiles
  BY ChangePassphraseComplete DEF Complete
<1> HIDE DEF salted
<1>5. wrapped = [vault_id |-> salted.vault_id, kdf |-> salted.kdf,
                 vault_version |-> salted.vault_version, payload_seq |-> salted.payload_seq,
                 wrapped_vek |-> [key |-> <<pass, salted.kdf>>,
                                  aad |-> <<salted.vault_id, salted.kdf>>, plaintext |-> Vek(vf)],
                 payload |-> salted.payload]
  BY <1>1, <1>2, WrapIs
<1> HIDE DEF new, wrapped
<1>6. new.vault_version = vf.vault_version + 1 /\ new.payload_seq = vf.payload_seq
  BY <1>2, <1>3, <1>5
<1>7. vf # NoFile /\ new # NoFile /\ vf.vault_version \in Nat /\ vf.payload_seq \in Nat
  BY <1>1, <1>4, NoFileAssumption DEF VaultFiles
<1>8. Behind(vf, new)
  BY <1>6, <1>7 DEF Behind, VersionOf, SeqOf
<1> QED
  BY <1>8 DEF new

LEMMA RotateVekBehind ==
    ASSUME NEW vf, Complete(vf), NEW pass \in Passphrase, NEW vek \in 1 .. MaxDrawn
    PROVE  Behind(vf, RotateVek(vf, pass, vek))
<1>1. vf \in VaultFiles /\ ContentsOf(vf) \in Contents
  BY DEF Complete, VaultFiles, ContentsOf
<1> DEFINE new == RotateVek(vf, pass, vek)
           wrapped == Wrap(vf, pass, vek)
<1>2. wrapped = [vault_id |-> vf.vault_id, kdf |-> vf.kdf, vault_version |-> vf.vault_version,
                 payload_seq |-> vf.payload_seq,
                 wrapped_vek |-> [key |-> <<pass, vf.kdf>>, aad |-> <<vf.vault_id, vf.kdf>>,
                                  plaintext |-> vek],
                 payload |-> vf.payload]
  BY <1>1, WrapIs
<1>3. new = Seal(wrapped, vek, ContentsOf(vf))
  BY DEF RotateVek
<1>4. new \in VaultFiles
  BY RotateVekComplete DEF Complete
<1> HIDE DEF new, wrapped
<1>5. wrapped \in VaultFiles
  BY <1>1, <1>2 DEF VaultFiles
<1>6. new.vault_version = wrapped.vault_version + 1 /\ new.payload_seq = wrapped.payload_seq + 1
  BY <1>1, <1>3, <1>5, SealIs
<1>7. new.vault_version = vf.vault_version + 1 /\ new.payload_seq = vf.payload_seq + 1
  BY <1>2, <1>6
<1>8. vf # NoFile /\ new # NoFile /\ vf.vault_version \in Nat /\ vf.payload_seq \in Nat
  BY <1>1, <1>4, NoFileAssumption DEF VaultFiles
<1>9. Behind(vf, new)
  BY <1>7, <1>8 DEF Behind, VersionOf, SeqOf
<1> QED
  BY <1>9 DEF new

\* record() keeps what was recorded, and covers no more than the file it records.
LEMMA RecordRaises ==
    ASSUME NEW m \in Marks, NEW vf \in VaultFiles
    PROVE  /\ NotAhead(m, Record(m, vf))
           /\ Covers(m, vf) => Covers(Record(m, vf), vf)
<1>1. m.vault_version \in Nat /\ m.payload_seq \in Nat
      /\ vf.vault_version \in Nat /\ vf.payload_seq \in Nat
  BY DEF Marks, VaultFiles
<1>2. vf # NoFile
  BY NoFileAssumption
<1> QED
  BY <1>1, <1>2 DEF NotAhead, Record, Larger, Covers, VersionOf, SeqOf

\* Counters are natural numbers.
LEMMA CountersType ==
    ASSUME NEW f \in VaultFiles \union {NoFile}
    PROVE  VersionOf(f) \in Nat /\ SeqOf(f) \in Nat
  BY DEF VersionOf, SeqOf, VaultFiles

\* A later file is covered by the same marks.
LEMMA CoversLater ==
    ASSUME NEW m \in Marks, NEW f \in VaultFiles \union {NoFile},
           NEW g \in VaultFiles \union {NoFile}, Covers(m, f), Behind(f, g)
    PROVE  Covers(m, g)
<1>1. m.vault_version \in Nat /\ m.payload_seq \in Nat
  BY DEF Marks
<1> QED
  BY <1>1, CountersType DEF Covers, Behind

\* A file that is behind another is a different one, and the other exists.
LEMMA BehindLater ==
    ASSUME NEW f \in VaultFiles \union {NoFile}, NEW g \in VaultFiles \union {NoFile}, Behind(f, g)
    PROVE  g # NoFile /\ (f # NoFile => f.vault_version < g.vault_version)
  BY CountersType DEF Behind, VersionOf

\* Marks that were written are read back.
LEMMA MarksLoaded ==
    ASSUME NEW m \in Marks
    PROVE  m # Torn /\ m # NoFile /\ Loaded(m) = m
  BY NoFileAssumption, TornAssumption DEF Loaded

(***************************************************************************)
(* What the steps of several actions have in common.                       *)
(***************************************************************************)
\* Nobody else is active, so nobody else has the temporary file open.
LEMMA OthersIdle ==
    ASSUME SoloOK, NEW p \in Proc, ~Idle(p), NEW q \in Proc \ {p}
    PROVE  pc[q] = "idle" /\ stateFd[q] = "none"
<1>1. pc[q] = "idle"
  BY DEF SoloOK, OneActive, Idle
<1> QED
  BY <1>1 DEF SoloOK, RecordOK

\* A step of the one active process.
LEMMA SoloMove ==
    ASSUME NEW p \in Proc, \A q \in Proc \ {p} : pc[q]' = "idle" /\ stateFd[q]' = "none",
           RecordOK(p)', stateJson' # Torn, (onDisk.json)' # Torn
    PROVE  SoloOK'
<1>1. \A q \in Proc : RecordOK(q)'
  <2> SUFFICES ASSUME NEW q \in Proc \ {p} PROVE RecordOK(q)'
    OBVIOUS
  <2>1. pc[q]' = "idle" /\ stateFd[q]' = "none"
    OBVIOUS
  <2> QED
    BY <2>1 DEF RecordOK, Recording
<1>2. OneActive'
  BY DEF OneActive, Idle
<1> QED
  BY <1>1, <1>2 DEF SoloOK

\* A step that stores nothing.
LEMMA DurableMove ==
    ASSUME DurableOK, NEW p \in Proc, UNCHANGED <<vaultFile, onDisk, stateJson, acked, baseLost>>,
           unsettledBase => unsettledBase',
           \A q \in Proc \ {p} : /\ pc[q]' = pc[q] /\ phase[q]' = phase[q]
                               /\ mem[q]' = mem[q] /\ marks[q]' = marks[q],
           HoldsOK(p)'
    PROVE  DurableOK'
<1>1. ASSUME NEW q \in Proc \ {p} PROVE HoldsOK(q)'
  <2>1. HoldsOK(q)
    BY DEF DurableOK
  <2>2. pc[q]' = pc[q] /\ phase[q]' = phase[q] /\ mem[q]' = mem[q] /\ marks[q]' = marks[q]
    OBVIOUS
  <2> QED
    BY <2>1, <2>2 DEF HoldsOK, Recording
<1>2. MarksCovered' /\ Settling' /\ AckedOK'
  BY DEF DurableOK, MarksCovered, Settling, AckedOK
<1> QED
  BY <1>1, <1>2 DEF DurableOK

\* The process ends and nothing is stored.
LEMMA ExitAlone ==
    ASSUME IInv, Alone, NEW p \in Proc, Exit(p),
           ~Idle(p), pc[p] # "jsonWrite" \/ stateFd' = [stateFd EXCEPT ![p] = "none"],
           UNCHANGED stateFd \/ stateFd' = [stateFd EXCEPT ![p] = "none"],
           UNCHANGED <<vaultFile, onDisk, stateJson, acked, solo, unsettledBase, baseLost, restored>>
    PROVE  Alone'
<1>1. pc' = [pc EXCEPT ![p] = "idle"] /\ mem' = [mem EXCEPT ![p] = NoFile]
      /\ phase' = [phase EXCEPT ![p] = "opening"] /\ marks' = [marks EXCEPT ![p] = NothingSeen]
  BY DEF Exit, Goto, Forget
<1>2. pc' = [pc EXCEPT ![p] = "idle"] /\ pc[p]' = "idle" /\ phase[p]' = "opening"
      /\ \A q \in Proc \ {p} : /\ pc[q]' = pc[q] /\ phase[q]' = phase[q]
                              /\ mem[q]' = mem[q] /\ marks[q]' = marks[q]
  BY <1>1 DEF IInv, ProcOK
<1>3. solo' => SoloOK'
  <2> SUFFICES ASSUME solo' PROVE SoloOK'
    OBVIOUS
  <2>1. SoloOK
    BY DEF Alone
  <2>2. \A q \in Proc \ {p} : pc[q]' = "idle" /\ stateFd[q]' = "none"
    BY <1>2, <2>1, OthersIdle DEF IInv, StateOK
  <2>3. stateFd[p]' = "none"
    BY <2>1 DEF SoloOK, RecordOK, IInv, StateOK
  <2>4. RecordOK(p)'
    BY <1>2, <2>3 DEF RecordOK, Recording
  <2> QED
    BY <2>1, <2>2, <2>4, SoloMove DEF SoloOK
<1>4. solo' /\ ~restored' => DurableOK'
  <2>1. HoldsOK(p)'
    BY <1>2 DEF HoldsOK, Recording
  <2> QED
    BY <1>2, <2>1, DurableMove DEF Alone
<1> QED
  BY <1>3, <1>4 DEF Alone

\* A process goes on, with the temporary file closed, to a step that records nothing.
LEMMA StepAlone ==
    ASSUME IInv, Alone, NEW p \in Proc, ~Idle(p), pc[p] # "jsonWrite",
           NEW step \in {"prompt", "opened", "replace"}, pc' = [pc EXCEPT ![p] = step],
           solo' /\ step = "prompt" /\ cmd'[p] \notin {"passwd", "rotate"}
               => marks'[p] = Loaded(stateJson),
           solo' /\ ~restored' /\ step # "replace" =>
               mem[p]' = mem[p] /\ phase[p]' = phase[p] /\ pc[p] \in {"loadState", "prompt"},
           solo' /\ ~restored' /\ step = "replace" => Behind(vaultFile, mem[p]'),
           \A q \in Proc \ {p} : mem[q]' = mem[q] /\ marks[q]' = marks[q] /\ phase[q]' = phase[q],
           UNCHANGED <<vaultFile, onDisk, stateVars, acked, solo, unsettledBase, baseLost, restored>>
    PROVE  Alone'
<1>1. pc[p]' = step /\ \A q \in Proc \ {p} : pc[q]' = pc[q]
  BY DEF IInv, ProcOK
<1>2. UNCHANGED <<stateJson, stateTmp, stateFd>>
  BY DEF stateVars
<1>3. solo' => SoloOK'
  <2> SUFFICES ASSUME solo' PROVE SoloOK'
    OBVIOUS
  <2>1. SoloOK
    BY DEF Alone
  <2>2. \A q \in Proc \ {p} : pc[q]' = "idle" /\ stateFd[q]' = "none"
    BY <1>1, <1>2, <2>1, OthersIdle
  <2>3. RecordOK(p)'
    BY <1>1, <1>2, <2>1 DEF SoloOK, RecordOK, Recording
  <2> QED
    BY <1>2, <2>1, <2>2, <2>3, SoloMove DEF SoloOK
<1>4. solo' /\ ~restored' => DurableOK'
  <2> SUFFICES ASSUME solo', ~restored' PROVE DurableOK'
    OBVIOUS
  <2>1. DurableOK /\ HoldsOK(p)
    BY DEF Alone, DurableOK
  <2>2. HoldsOK(p)'
    BY <1>1, <2>1 DEF HoldsOK, Recording, Idle
  <2> QED
    BY <1>1, <1>2, <2>1, <2>2, DurableMove
<1> QED
  BY <1>3, <1>4 DEF Alone

\* A changed vault file, later than the stored one, is on its way to VaultFile.save.
LEMMA ToSaveAlone ==
    ASSUME IInv, Alone, NEW p \in Proc, ~Idle(p), pc[p] # "jsonWrite",
           NEW vf, NEW ph, ToSave(p, vf, ph), Behind(mem[p], vf), Complete(vf)
    PROVE  Alone'
<1>1. pc' = [pc EXCEPT ![p] = "replace"] /\ mem' = [mem EXCEPT ![p] = vf]
      /\ phase' = [phase EXCEPT ![p] = ph]
      /\ UNCHANGED <<marks, vaultFile, onDisk, stateVars, acked, solo, unsettledBase, baseLost, restored>>
  BY DEF ToSave, Goto, histVars
<1>2. mem[p]' = vf
      /\ \A q \in Proc \ {p} : mem[q]' = mem[q] /\ marks[q]' = marks[q] /\ phase[q]' = phase[q]
  BY <1>1 DEF IInv, ProcOK
<1>3. ASSUME solo', ~restored' PROVE Behind(vaultFile, mem[p]')
  <2>1. HoldsOK(p)
    BY <1>1, <1>3 DEF Alone, DurableOK
  <2>2. CASE pc[p] = "replace"
    <3>1. Behind(vaultFile, mem[p])
      BY <2>1, <2>2 DEF HoldsOK
    <3>2. /\ vaultFile \in VaultFiles \union {NoFile} /\ mem[p] \in VaultFiles \union {NoFile}
          /\ vf \in VaultFiles \union {NoFile}
      BY DEF IInv, FilesOK, ProcOK, CompleteOrMissing, Complete
    <3>3. Behind(vaultFile, vf)
      BY <3>1, <3>2, CountersType DEF Behind
    <3> QED
      BY <1>2, <3>3
  <2>3. CASE pc[p] # "replace"
    BY <1>2, <2>1, <2>3 DEF HoldsOK, Idle
  <2> QED
    BY <2>2, <2>3
<1> QED
  BY <1>1, <1>2, <1>3, StepAlone

\* A command starts: alone, or solo ends.
LEMMA BeginAlone ==
    ASSUME IInv, Alone, NEW p \in Proc, NEW c \in Commands, NEW step \in Steps \ {"idle"},
           Begin(p, c, step), NEW vf, mem' = [mem EXCEPT ![p] = vf],
           \/ step \in {"loadState", "prompt"} /\ vf = vaultFile
              /\ (step = "prompt" => c \in {"passwd", "rotate"})
           \/ step = "replace" /\ Behind(vaultFile, vf),
           step # "replace" => UNCHANGED phase, \A q \in Proc \ {p} : phase[q]' = phase[q],
           UNCHANGED <<vaultFile, onDisk, stateVars>>
    PROVE  Alone'
<1>1. /\ Idle(p) /\ pc' = [pc EXCEPT ![p] = step] /\ cmd' = [cmd EXCEPT ![p] = c]
      /\ solo' => solo /\ \A q \in Proc : Idle(q)
      /\ unsettledBase' = (unsettledBase \/ vaultFile # onDisk.vault)
      /\ UNCHANGED <<marks, acked, baseLost, restored, stateJson, stateTmp, stateFd>>
  BY DEF Begin, Goto, stateVars
<1>2. pc[p]' = step /\ cmd[p]' = c /\ mem[p]' = vf
      /\ \A q \in Proc \ {p} : pc[q]' = pc[q] /\ mem[q]' = mem[q] /\ marks[q]' = marks[q]
  BY <1>1 DEF IInv, ProcOK
<1>3. solo' => SoloOK'
  <2> SUFFICES ASSUME solo' PROVE SoloOK'
    OBVIOUS
  <2>1. SoloOK
    BY <1>1 DEF Alone
  <2>2. \A q \in Proc : pc[q] = "idle" /\ stateFd[q] = "none"
    BY <1>1, <2>1 DEF SoloOK, RecordOK, Idle
  <2>3. \A q \in Proc \ {p} : pc[q]' = "idle" /\ stateFd[q]' = "none"
    BY <1>1, <1>2, <2>2
  <2>4. RecordOK(p)'
    BY <1>1, <1>2, <2>2 DEF RecordOK, Recording
  <2>5. stateJson' # Torn /\ (onDisk.json)' # Torn
    BY <1>1, <2>1 DEF SoloOK
  <2> QED
    BY <2>3, <2>4, <2>5, SoloMove
<1>4. solo' /\ ~restored' => DurableOK'
  <2> SUFFICES ASSUME solo', ~restored' PROVE DurableOK'
    OBVIOUS
  <2>1. DurableOK /\ HoldsOK(p)
    BY <1>1 DEF Alone, DurableOK
  <2>2. phase[p] = "opening"
    BY <1>1, <2>1 DEF HoldsOK, Idle
  <2>3. HoldsOK(p)'
    <3>1. CASE step = "replace"
      BY <1>1, <1>2, <3>1 DEF HoldsOK, Recording
    <3>2. CASE step \in {"loadState", "prompt"}
      BY <1>1, <1>2, <2>2, <3>2 DEF HoldsOK, Recording
    <3> QED
      BY <3>1, <3>2
  <2> QED
    BY <1>1, <1>2, <2>1, <2>3, DurableMove
<1> QED
  BY <1>3, <1>4 DEF Alone

\* A command that fails ends, or saves once more what its session holds.
LEMMA RaiseAlone ==
    ASSUME IInv, Alone, NEW p \in Proc, ~Idle(p), pc[p] # "jsonWrite", Raise(p)
    PROVE  Alone'
<1>1. CASE Exit(p) /\ UNCHANGED <<fileVars, stateVars, histVars>>
  BY <1>1, ExitAlone DEF fileVars, stateVars, histVars
<1>2. CASE ToSave(p, Seal(mem[p], Vek(mem[p]), contents[p]), "closing")
  <2>1. Complete(mem[p]) /\ contents[p] \in Contents
    BY DEF IInv, ProcOK, MemOK
  <2>2. /\ Complete(Seal(mem[p], Vek(mem[p]), contents[p]))
        /\ Behind(mem[p], Seal(mem[p], Vek(mem[p]), contents[p]))
    BY <2>1, SealComplete, SealBehind
  <2> QED
    BY <1>2, <2>2, ToSaveAlone
<1> QED
  BY <1>1, <1>2 DEF Raise

(***************************************************************************)
(* The invariant, action by action.                                        *)
(***************************************************************************)
LEMMA AloneInit == Init => Alone
<1> SUFFICES ASSUME Init PROVE Alone
  OBVIOUS
<1>1. stateJson = NoFile /\ vaultFile = NoFile /\ onDisk.vault = NoFile /\ onDisk.json = NoFile
      /\ acked = NoFile
  BY DEF Init, StateFileInit
<1>2. \A p \in Proc : pc[p] = "idle" /\ stateFd[p] = "none"
  BY DEF Init, StateFileInit
<1>3. SoloOK
  BY <1>1, <1>2, TornAssumption DEF SoloOK, OneActive, Idle, RecordOK, Recording
<1>4. \A p \in Proc : phase[p] = "opening"
  BY DEF Init
<1>5. Covers(Loaded(NoFile), NoFile)
  BY DEF Covers, Loaded, NothingSeen, VersionOf, SeqOf
<1>6. DurableOK
  BY <1>1, <1>2, <1>4, <1>5 DEF DurableOK, MarksCovered, Settling, HoldsOK, Recording, AckedOK
<1> QED
  BY <1>3, <1>6 DEF Alone

\* Starting a command, the rollback check, and unlocking.
LEMMA OpenAlone ==
    ASSUME IInv, Alone, NEW p \in Proc, Open(p)
    PROVE  Alone'
<1>1. CASE LoadVault(p)
  <2>1. PICK c \in Commands : Begin(p, c, IF c \in {"passwd", "rotate"} THEN "prompt" ELSE "loadState")
    BY <1>1 DEF LoadVault
  <2>2. CASE c \in {"passwd", "rotate"}
    <3>1. Begin(p, c, "prompt")
      BY <2>1, <2>2
    <3> QED
      BY <1>1, <2>2, <3>1, BeginAlone DEF LoadVault, Steps, fileVars
  <2>3. CASE c \notin {"passwd", "rotate"}
    <3>1. Begin(p, c, "loadState")
      BY <2>1, <2>3
    <3>2. mem' = [mem EXCEPT ![p] = vaultFile] /\ UNCHANGED <<vaultFile, onDisk, stateVars>>
          /\ UNCHANGED phase /\ \A q \in Proc \ {p} : phase[q]' = phase[q]
      BY <1>1 DEF LoadVault, fileVars
    <3>3. "loadState" \in Steps \ {"idle"} /\ "loadState" # "prompt"
      BY DEF Steps
    <3> QED
      BY <3>1, <3>2, <3>3, BeginAlone
  <2> QED
    BY <2>2, <2>3
<1>2. CASE LoadState(p)
  <2>1. ~Idle(p) /\ pc[p] = "loadState"
        /\ UNCHANGED <<vaultFile, onDisk, stateVars, stateFd, stateJson, acked, solo,
                       unsettledBase, baseLost, restored>>
    BY <1>2 DEF LoadState, Idle, fileVars, stateVars, histVars
  <2>2. CASE Exit(p)
    BY <2>1, <2>2, ExitAlone
  <2>3. CASE ~Exit(p)
    <3>1. pc' = [pc EXCEPT ![p] = "prompt"] /\ UNCHANGED <<mem, phase>>
          /\ marks' = [marks EXCEPT ![p] = Loaded(stateJson)]
      BY <1>2, <2>3 DEF LoadState, Goto
    <3>2. marks'[p] = Loaded(stateJson) /\ \A q \in Proc \ {p} : marks[q]' = marks[q]
      BY <3>1 DEF IInv, ProcOK
    <3> QED
      BY <2>1, <3>1, <3>2, StepAlone
  <2> QED
    BY <2>2, <2>3
<1>3. CASE WrongPassphrase(p)
  BY <1>3, ExitAlone DEF WrongPassphrase, Idle, fileVars, stateVars, histVars
<1>4. CASE Unlock(p)
  <2>1. /\ pc[p] = "prompt" /\ cmd[p] \notin {"passwd", "rotate"}
        /\ pc' = [pc EXCEPT ![p] = "jsonOpen"] /\ UNCHANGED <<mem, phase>>
        /\ marks' = [marks EXCEPT ![p] = Record(@, mem[p])]
        /\ UNCHANGED <<vaultFile, onDisk, stateVars, stateJson, stateTmp, stateFd,
                       acked, solo, unsettledBase, baseLost, restored>>
    BY <1>4 DEF Unlock, Goto, fileVars, stateVars, histVars
  <2>2. pc[p]' = "jsonOpen" /\ marks[p]' = Record(marks[p], mem[p])
        /\ \A q \in Proc \ {p} : pc[q]' = pc[q] /\ mem[q]' = mem[q] /\ marks[q]' = marks[q]
    BY <2>1 DEF IInv, ProcOK
  <2>3. marks[p] \in Marks /\ mem[p] \in VaultFiles
    BY <2>1 DEF IInv, ProcOK, MemOK, Complete, Idle
  <2>4. solo' => SoloOK'
    <3> SUFFICES ASSUME solo' PROVE SoloOK'
      OBVIOUS
    <3>1. SoloOK /\ RecordOK(p)
      BY <2>1 DEF Alone, SoloOK
    <3>2. \A q \in Proc \ {p} : pc[q]' = "idle" /\ stateFd[q]' = "none"
      BY <2>1, <2>2, <3>1, OthersIdle DEF Idle
    <3>3. NotAhead(Loaded(stateJson), marks[p]')
      BY <2>1, <2>2, <2>3, <3>1, RecordRaises DEF RecordOK
    <3>4. RecordOK(p)'
      BY <2>1, <2>2, <3>1, <3>3 DEF RecordOK, Recording
    <3>5. stateJson' # Torn /\ (onDisk.json)' # Torn
      BY <2>1, <3>1 DEF SoloOK
    <3> QED
      BY <3>2, <3>4, <3>5, SoloMove
  <2>5. solo' /\ ~restored' => DurableOK'
    <3> SUFFICES ASSUME solo', ~restored' PROVE DurableOK'
      OBVIOUS
    <3>1. SoloOK /\ RecordOK(p) /\ DurableOK /\ HoldsOK(p)
      BY <2>1 DEF Alone, SoloOK, DurableOK
    <3>2. vaultFile = mem[p] /\ (unsettledBase \/ vaultFile = onDisk.vault) /\ phase[p] = "opening"
          /\ marks[p] = Loaded(stateJson)
      BY <2>1, <3>1 DEF HoldsOK, RecordOK
    <3>3. ~baseLost => Covers(marks[p], mem[p])
      BY <3>1, <3>2 DEF DurableOK, MarksCovered
    <3>4. ~baseLost => Covers(marks[p]', vaultFile)
      BY <2>2, <2>3, <3>2, <3>3, RecordRaises
    <3>5. HoldsOK(p)'
      BY <2>1, <2>2, <3>2, <3>4 DEF HoldsOK, Recording
    <3> QED
      BY <2>1, <2>2, <3>1, <3>5, DurableMove
  <2> QED
    BY <2>4, <2>5 DEF Alone
<1> QED
  BY <1>1, <1>2, <1>3, <1>4 DEF Open

\* Changing the vault file in memory.
LEMMA ChangeAlone ==
    ASSUME IInv, Alone, NEW p \in Proc, Change(p)
    PROVE  Alone'
<1>0. ~Idle(p) => Complete(mem[p]) /\ contents[p] \in Contents
  BY DEF IInv, ProcOK, MemOK
<1>1. CASE CmdInit(p)
  <2>1. PICK pass \in Passphrase :
            mem' = [mem EXCEPT ![p] = Create(VaultId, pass, drawn + 1, drawn + 2, EmptyVault)]
    BY <1>1 DEF CmdInit
  <2>2. drawn + 1 \in 1 .. MaxDrawn /\ drawn + 2 \in 1 .. MaxDrawn
    BY <1>1, BoundsAssumption DEF CmdInit, IInv, FilesOK
  <2> DEFINE vf == Create(VaultId, pass, drawn + 1, drawn + 2, EmptyVault)
  <2>3. Behind(NoFile, vf)
    BY <2>2, CreateBehind
  <2>4. vaultFile = NoFile /\ Begin(p, "edit", "replace") /\ UNCHANGED <<vaultFile, onDisk, stateVars>>
    BY <1>1 DEF CmdInit
  <2>5. mem' = [mem EXCEPT ![p] = vf]
    BY <2>1
  <2> HIDE DEF vf
  <2>6. "edit" \in Commands /\ "replace" \in Steps \ {"idle"}
    BY DEF Commands, Steps
  <2>7. \A q \in Proc \ {p} : phase[q]' = phase[q]
    BY <1>1 DEF CmdInit, IInv, ProcOK
  <2> QED
    BY <2>3, <2>4, <2>5, <2>6, <2>7, BeginAlone
<1>2. CASE CmdPasswd(p)
  <2>1. ~Idle(p) /\ pc[p] = "prompt"
    BY <1>2 DEF CmdPasswd, Idle
  <2>2. PICK new \in Passphrase : ToSave(p, ChangePassphrase(mem[p], new, drawn + 1), "saving")
    BY <1>2 DEF CmdPasswd
  <2>3. drawn + 1 \in 1 .. MaxDrawn
    BY <1>2, BoundsAssumption DEF CmdPasswd, IInv, FilesOK
  <2>4. /\ Complete(ChangePassphrase(mem[p], new, drawn + 1))
        /\ Behind(mem[p], ChangePassphrase(mem[p], new, drawn + 1))
    BY <1>0, <2>1, <2>3, ChangePassphraseComplete, ChangePassphraseBehind
  <2> QED
    BY <2>1, <2>2, <2>4, ToSaveAlone
<1>3. CASE CmdRotateKey(p)
  <2>1. ~Idle(p) /\ pc[p] = "prompt"
    BY <1>3 DEF CmdRotateKey, Idle
  <2>2. PICK pass \in Passphrase : ToSave(p, RotateVek(mem[p], pass, drawn + 1), "saving")
    BY <1>3 DEF CmdRotateKey
  <2>3. drawn + 1 \in 1 .. MaxDrawn
    BY <1>3, BoundsAssumption DEF CmdRotateKey, IInv, FilesOK
  <2>4. /\ Complete(RotateVek(mem[p], pass, drawn + 1))
        /\ Behind(mem[p], RotateVek(mem[p], pass, drawn + 1))
    BY <1>0, <2>1, <2>3, RotateVekComplete, RotateVekBehind
  <2> QED
    BY <2>1, <2>2, <2>4, ToSaveAlone
<1>4. ASSUME pc[p] = "opened", NEW c \in Contents, NEW ph,
             ToSave(p, Seal(mem[p], Vek(mem[p]), c), ph)
      PROVE  Alone'
  <2>1. ~Idle(p)
    BY <1>4 DEF Idle
  <2>2. Complete(Seal(mem[p], Vek(mem[p]), c)) /\ Behind(mem[p], Seal(mem[p], Vek(mem[p]), c))
    BY <1>0, <2>1, SealComplete, SealBehind
  <2> QED
    BY <1>4, <2>1, <2>2, ToSaveAlone
<1>5. CASE CmdEdit(p)
  BY <1>4, <1>5 DEF CmdEdit
<1>6. CASE SessionSave(p) \/ SessionQuitSaving(p)
  <2>1. pc[p] = "opened" /\ contents[p] \in Contents
    BY <1>0, <1>6 DEF SessionSave, SessionQuitSaving, Idle
  <2> QED
    BY <1>4, <1>6, <2>1 DEF SessionSave, SessionQuitSaving
<1>7. CASE SessionEdit(p)
  BY <1>7 DEF SessionEdit, Alone, SoloOK, OneActive, RecordOK, Recording, DurableOK, HoldsOK,
     MarksCovered, Settling, AckedOK, Idle, fileVars, stateVars, histVars
<1>8. CASE Quit(p)
  BY <1>8, ExitAlone DEF Quit, Idle, fileVars, stateVars, histVars
<1> QED
  BY <1>1, <1>2, <1>3, <1>5, <1>6, <1>7, <1>8 DEF Change

\* Writing the vault file: the rename comes before the directory fsync, which
\* comes before the report.
LEMMA SaveAlone ==
    ASSUME IInv, Alone, NEW p \in Proc, Save(p)
    PROVE  Alone'
<1>0. ~Idle(p) => mem[p] \in VaultFiles /\ mem[p] # NoFile
  BY NoFileAssumption DEF IInv, ProcOK, MemOK, Complete
<1>1. CASE ReplaceVault(p)
  <2>1. /\ pc[p] = "replace" /\ ~Idle(p) /\ vaultFile' = mem[p]
        /\ pc' = [pc EXCEPT ![p] = "dirSync"]
        /\ UNCHANGED <<cmd, phase, mem, marks, onDisk, stateVars, stateJson, stateTmp, stateFd,
                       acked, solo, unsettledBase, baseLost, restored>>
    BY <1>1 DEF ReplaceVault, Goto, Idle, stateVars, histVars
  <2>2. pc[p]' = "dirSync" /\ \A q \in Proc \ {p} : pc[q]' = pc[q]
    BY <2>1 DEF IInv, ProcOK
  <2>3. ASSUME solo' PROVE SoloOK' /\ \A q \in Proc \ {p} : pc[q]' = "idle"
    <3>1. SoloOK
      BY <2>1, <2>3 DEF Alone
    <3>2. \A q \in Proc \ {p} : pc[q]' = "idle" /\ stateFd[q]' = "none"
      BY <2>1, <2>2, <3>1, OthersIdle
    <3>3. RecordOK(p)'
      BY <2>1, <2>2, <3>1 DEF SoloOK, RecordOK, Recording
    <3> QED
      BY <2>1, <3>1, <3>2, <3>3, SoloMove DEF SoloOK
  <2>4. ASSUME solo', ~restored' PROVE DurableOK'
    <3>1. DurableOK /\ HoldsOK(p)
      BY <2>1, <2>4 DEF Alone, DurableOK
    <3>2. Behind(vaultFile, mem[p])
      BY <2>1, <3>1 DEF HoldsOK
    <3>3. /\ Loaded(stateJson) \in Marks /\ Loaded(onDisk.json) \in Marks
          /\ vaultFile \in VaultFiles \union {NoFile} /\ mem[p] \in VaultFiles \union {NoFile}
          /\ onDisk.vault \in VaultFiles \union {NoFile}
      BY LoadedType DEF IInv, StateOK, FilesOK, CompleteOrMissing, Complete, ProcOK
    <3>4. MarksCovered'
      <4> SUFFICES ASSUME ~baseLost, NEW j \in {stateJson, onDisk.json}
                   PROVE  Covers(Loaded(j), mem[p])
                          /\ (~unsettledBase => Covers(Loaded(j), onDisk.vault))
        BY <2>1 DEF MarksCovered
      <4>1. Covers(Loaded(j), vaultFile) /\ (~unsettledBase => Covers(Loaded(j), onDisk.vault))
        BY <3>1 DEF DurableOK, MarksCovered
      <4> QED
        BY <3>2, <3>3, <4>1, CoversLater
    <3>5. Settling'
      <4>1. Behind(onDisk.vault, mem[p])
        BY <3>1, <3>2, <3>3, CountersType DEF DurableOK, Settling, Behind
      <4> QED
        BY <2>1, <4>1 DEF Settling
    <3>6. \A q \in Proc : HoldsOK(q)'
      <4>1. HoldsOK(p)'
        BY <2>1, <2>2 DEF HoldsOK, Recording
      <4>2. ASSUME NEW q \in Proc \ {p} PROVE HoldsOK(q)'
        <5>1. pc[q]' = "idle" /\ pc[q] = "idle" /\ phase[q]' = phase[q] /\ HoldsOK(q)
          BY <2>1, <2>2, <2>3, <2>4, <3>1 DEF DurableOK
        <5> QED
          BY <5>1 DEF HoldsOK, Recording
      <4> QED
        BY <4>1, <4>2
    <3> QED
      BY <2>1, <3>1, <3>4, <3>5, <3>6 DEF DurableOK, AckedOK
  <2> QED
    BY <2>3, <2>4 DEF Alone
<1>2. CASE SaveFails(p) \/ SyncFails(p)
  BY <1>2, RaiseAlone DEF SaveFails, SyncFails, Idle
<1>3. CASE SyncDir(p)
  <2>1. /\ pc[p] = "dirSync" /\ ~Idle(p) /\ onDisk' = [vault |-> vaultFile, json |-> stateJson]
        /\ unsettledBase' = FALSE
        /\ UNCHANGED <<vaultFile, stateVars, stateJson, stateTmp, stateFd, solo, baseLost, restored>>
    BY <1>3 DEF SyncDir, Idle, stateVars
  <2>2. \/ /\ pc' = [pc EXCEPT ![p] = "reload"] /\ UNCHANGED <<phase, mem, marks, acked>>
        \/ /\ pc' = [pc EXCEPT ![p] = "idle"] /\ acked' = mem[p]
           /\ phase' = [phase EXCEPT ![p] = "opening"]
           /\ mem' = [mem EXCEPT ![p] = NoFile] /\ marks' = [marks EXCEPT ![p] = NothingSeen]
    BY <1>3 DEF SyncDir, Exit, Goto, Forget
  <2>3. /\ pc[p]' \in {"reload", "idle"} /\ (pc[p]' = "reload" => mem[p]' = mem[p])
        /\ (pc[p]' = "idle" => phase[p]' = "opening")
        /\ \A q \in Proc \ {p} : pc[q]' = pc[q] /\ phase[q]' = phase[q]
    BY <2>2 DEF IInv, ProcOK
  <2>4. (onDisk.vault)' = vaultFile /\ (onDisk.json)' = stateJson
    BY <2>1
  <2>5. ASSUME solo' PROVE SoloOK' /\ \A q \in Proc \ {p} : pc[q]' = "idle"
    <3>1. SoloOK
      BY <2>1, <2>5 DEF Alone
    <3>2. \A q \in Proc \ {p} : pc[q]' = "idle" /\ stateFd[q]' = "none"
      BY <2>1, <2>3, <3>1, OthersIdle
    <3>3. RecordOK(p)'
      BY <2>1, <2>3, <3>1 DEF SoloOK, RecordOK, Recording
    <3> QED
      BY <2>1, <2>4, <3>1, <3>2, <3>3, SoloMove DEF SoloOK
  <2>6. ASSUME solo', ~restored' PROVE DurableOK'
    <3>1. DurableOK /\ HoldsOK(p)
      BY <2>1, <2>6 DEF Alone, DurableOK
    <3>2. mem[p] = vaultFile
      BY <2>1, <3>1 DEF HoldsOK
    <3>3. MarksCovered' /\ Settling'
      BY <2>1, <2>4, <3>1 DEF DurableOK, MarksCovered, Settling
    <3>4. \A q \in Proc : HoldsOK(q)'
      <4>1. HoldsOK(p)'
        BY <2>1, <2>3, <2>4, <3>2 DEF HoldsOK, Recording
      <4>2. ASSUME NEW q \in Proc \ {p} PROVE HoldsOK(q)'
        <5>1. pc[q]' = "idle" /\ pc[q] = "idle" /\ phase[q]' = phase[q] /\ HoldsOK(q)
          BY <2>3, <2>5, <2>6, <3>1 DEF DurableOK
        <5> QED
          BY <5>1 DEF HoldsOK, Recording
      <4> QED
        BY <4>1, <4>2
    <3>5. AckedOK'
      <4>1. CASE acked' = mem[p]
        BY <1>0, <2>1, <2>4, <3>2, <4>1 DEF AckedOK
      <4>2. CASE acked' = acked
        <5>1. AckedOK /\ Settling
          BY <3>1 DEF DurableOK
        <5>2. /\ onDisk.vault \in VaultFiles \union {NoFile}
              /\ vaultFile \in VaultFiles \union {NoFile}
              /\ acked \in VaultFiles \union {NoFile}
          BY DEF IInv, FilesOK, HistOK, CompleteOrMissing, Complete
        <5>3. CASE vaultFile = onDisk.vault
          BY <2>4, <4>2, <5>1, <5>3 DEF AckedOK
        <5>4. CASE Behind(onDisk.vault, vaultFile)
          <6>1. vaultFile # NoFile
                /\ (onDisk.vault # NoFile => onDisk.vault.vault_version < vaultFile.vault_version)
            BY <5>2, <5>4, BehindLater
          <6> SUFFICES ASSUME acked # NoFile PROVE acked.vault_version < vaultFile.vault_version
            BY <2>4, <4>2, <6>1 DEF AckedOK
          <6>2. onDisk.vault # NoFile
                /\ (onDisk.vault = acked \/ acked.vault_version < onDisk.vault.vault_version)
            BY <5>1 DEF AckedOK
          <6>3. /\ acked.vault_version \in Nat /\ onDisk.vault.vault_version \in Nat
                /\ vaultFile.vault_version \in Nat
            BY <5>2, <6>1, <6>2 DEF VaultFiles
          <6> QED
            BY <6>1, <6>2, <6>3
        <5> QED
          BY <5>1, <5>3, <5>4 DEF Settling
      <4> QED
        BY <2>2, <4>1, <4>2
    <3> QED
      BY <3>3, <3>4, <3>5 DEF DurableOK
  <2> QED
    BY <2>5, <2>6 DEF Alone
<1> QED
  BY <1>1, <1>2, <1>3 DEF Save

\* Writing state.json: into the process's own temporary file, which then
\* replaces a file whose marks it includes.
LEMMA RecordAlone ==
    ASSUME IInv, Alone, NEW p \in Proc, RecordState(p)
    PROVE  Alone'
<1>0. ~Idle(p) => mem[p] \in VaultFiles /\ mem[p] # NoFile
  BY NoFileAssumption DEF IInv, ProcOK, MemOK, Complete
<1>1. CASE ReloadState(p)
  <2>1. /\ pc[p] = "reload" /\ ~Idle(p)
        /\ pc' = [pc EXCEPT ![p] = "jsonOpen"] /\ UNCHANGED <<mem, phase>>
        /\ marks' = [marks EXCEPT ![p] = Record(Loaded(stateJson), mem[p])]
        /\ UNCHANGED <<vaultFile, onDisk, stateJson, stateTmp, stateFd, acked, solo,
                       unsettledBase, baseLost, restored>>
    BY <1>1 DEF ReloadState, Goto, Idle, fileVars, stateVars, histVars
  <2>2. pc[p]' = "jsonOpen" /\ marks[p]' = Record(Loaded(stateJson), mem[p])
        /\ \A q \in Proc \ {p} : pc[q]' = pc[q] /\ mem[q]' = mem[q] /\ marks[q]' = marks[q]
    BY <2>1 DEF IInv, ProcOK
  <2>3. Loaded(stateJson) \in Marks /\ mem[p] \in VaultFiles
    BY <1>0, <2>1, LoadedType DEF IInv, StateOK
  <2>4. solo' => SoloOK'
    <3> SUFFICES ASSUME solo' PROVE SoloOK'
      OBVIOUS
    <3>1. SoloOK
      BY <2>1 DEF Alone
    <3>2. \A q \in Proc \ {p} : pc[q]' = "idle" /\ stateFd[q]' = "none"
      BY <2>1, <2>2, <3>1, OthersIdle
    <3>3. NotAhead(Loaded(stateJson), marks[p]')
      BY <2>2, <2>3, RecordRaises
    <3>4. RecordOK(p)'
      BY <2>1, <2>2, <3>1, <3>3 DEF SoloOK, RecordOK, Recording
    <3> QED
      BY <2>1, <3>1, <3>2, <3>4, SoloMove DEF SoloOK
  <2>5. solo' /\ ~restored' => DurableOK'
    <3> SUFFICES ASSUME solo', ~restored' PROVE DurableOK'
      OBVIOUS
    <3>1. DurableOK /\ HoldsOK(p)
      BY <2>1 DEF Alone, DurableOK
    <3>2. vaultFile = mem[p] /\ vaultFile = onDisk.vault
      BY <2>1, <3>1 DEF HoldsOK
    <3>3. ~baseLost => Covers(Loaded(stateJson), mem[p])
      BY <3>1, <3>2 DEF DurableOK, MarksCovered
    <3>4. ~baseLost => Covers(marks[p]', vaultFile)
      BY <2>2, <2>3, <3>2, <3>3, RecordRaises
    <3>5. HoldsOK(p)'
      BY <2>1, <2>2, <3>2, <3>4 DEF HoldsOK, Recording
    <3> QED
      BY <2>1, <2>2, <3>1, <3>5, DurableMove
  <2> QED
    BY <2>4, <2>5 DEF Alone
<1>2. ASSUME Recording(p), NEW next \in {"jsonWrite", "jsonReplace"},
             pc' = [pc EXCEPT ![p] = next],
             solo' => /\ UNCHANGED stateJson
                      /\ \A q \in Proc \ {p} : stateFd[q]' = stateFd[q]
                      /\ IF next = "jsonWrite" THEN stateFd[p]' = "tmp" /\ stateTmp' = Torn
                         ELSE stateFd[p]' = "none" /\ stateTmp' = marks[p],
             UNCHANGED <<cmd, phase, mem, marks, vaultFile, onDisk, acked, solo, unsettledBase, baseLost,
                         restored>>
      PROVE  Alone'
  <2>1. pc[p]' = next /\ \A q \in Proc \ {p} : pc[q]' = pc[q]
    BY <1>2 DEF IInv, ProcOK
  <2>2. ~Idle(p)
    BY <1>2 DEF Recording, Idle
  <2>3. solo' => SoloOK'
    <3> SUFFICES ASSUME solo' PROVE SoloOK'
      OBVIOUS
    <3>1. SoloOK
      BY <1>2 DEF Alone
    <3>2. \A q \in Proc \ {p} : pc[q]' = "idle" /\ stateFd[q]' = "none"
      BY <1>2, <2>1, <2>2, <3>1, OthersIdle
    <3>3. RecordOK(p)'
      BY <1>2, <2>1, <3>1 DEF SoloOK, RecordOK, Recording
    <3> QED
      BY <1>2, <3>1, <3>2, <3>3, SoloMove DEF SoloOK
  <2>4. solo' /\ ~restored' => DurableOK'
    <3> SUFFICES ASSUME solo', ~restored' PROVE DurableOK'
      OBVIOUS
    <3>1. DurableOK /\ HoldsOK(p)
      BY <1>2 DEF Alone, DurableOK
    <3>2. HoldsOK(p)'
      BY <1>2, <2>1, <3>1 DEF HoldsOK, Recording
    <3> QED
      BY <1>2, <2>1, <3>1, <3>2, DurableMove
  <2> QED
    BY <2>3, <2>4 DEF Alone
<1>3. CASE JsonOpen(p)
  <2>1. Recording(p) /\ pc' = [pc EXCEPT ![p] = "jsonWrite"] /\ stateTmp' = Torn
        /\ stateFd' = [stateFd EXCEPT ![p] = "tmp"] /\ UNCHANGED stateJson
        /\ UNCHANGED <<cmd, phase, mem, marks, vaultFile, onDisk, acked, solo, unsettledBase, baseLost,
                       restored>>
    BY <1>3 DEF JsonOpen, OpenTmp, Goto, Recording, fileVars, histVars
  <2>2. stateFd[p]' = "tmp" /\ \A q \in Proc \ {p} : stateFd[q]' = stateFd[q]
    BY <2>1 DEF IInv, StateOK
  <2> QED
    BY <1>2, <2>1, <2>2
<1>4. CASE JsonWrite(p)
  <2>1. pc[p] = "jsonWrite" /\ Recording(p) /\ pc' = [pc EXCEPT ![p] = "jsonReplace"]
        /\ WriteTmp(p, marks[p])
        /\ UNCHANGED <<cmd, phase, mem, marks, vaultFile, onDisk, acked, solo, unsettledBase, baseLost,
                       restored>>
    BY <1>4 DEF JsonWrite, Goto, Recording, fileVars, histVars
  <2>2. stateFd[p]' = "none" /\ \A q \in Proc \ {p} : stateFd[q]' = stateFd[q]
    BY <2>1 DEF WriteTmp, IInv, StateOK
  <2>3. ASSUME solo' PROVE stateTmp' = marks[p] /\ UNCHANGED stateJson
    <3>1. stateFd[p] = "tmp" /\ stateTmp = Torn
      BY <2>1, <2>3 DEF Alone, SoloOK, RecordOK
    <3> QED
      BY <2>1, <3>1 DEF WriteTmp, Written
  <2> QED
    BY <1>2, <2>1, <2>2, <2>3
<1>5. CASE JsonReplace(p)
  <2>1. /\ pc[p] = "jsonReplace" /\ Recording(p) /\ ~Idle(p) /\ stateJson' = stateTmp
        /\ stateFd' = [q \in Proc |-> FollowRename(stateFd[q])]
        /\ acked' = IF phase[p] = "saving" THEN mem[p] ELSE acked
        /\ UNCHANGED <<vaultFile, onDisk, solo, unsettledBase, baseLost, restored>>
    BY <1>5 DEF JsonReplace, ReplaceState, Recording, Idle, fileVars
  <2>2. /\ phase' = [phase EXCEPT ![p] = "opening"]
        /\ \/ pc' = [pc EXCEPT ![p] = "opened"] /\ UNCHANGED <<mem, marks>>
           \/ pc' = [pc EXCEPT ![p] = "idle"]
    BY <1>5 DEF JsonReplace, Exit, Goto, Forget
  <2>3. /\ pc[p]' \in {"opened", "idle"} /\ (pc[p]' = "opened" => mem[p]' = mem[p])
        /\ phase[p]' = "opening"
        /\ \A q \in Proc \ {p} : pc[q]' = pc[q] /\ phase[q]' = phase[q]
    BY <2>2 DEF IInv, ProcOK
  <2>4. marks[p] \in Marks
    BY DEF IInv, ProcOK
  <2>5. ASSUME solo'
        PROVE  SoloOK' /\ stateJson' = marks[p] /\ \A q \in Proc \ {p} : pc[q]' = "idle"
    <3>1. SoloOK
      BY <2>1, <2>5 DEF Alone
    <3>2. \A q \in Proc : stateFd[q] = "none"
      <4>1. stateFd[p] = "none"
        BY <2>1, <3>1 DEF SoloOK, RecordOK
      <4> QED
        BY <2>1, <3>1, <4>1, OthersIdle
    <3>3. \A q \in Proc : stateFd[q]' = "none"
      BY <2>1, <3>2 DEF FollowRename
    <3>4. \A q \in Proc \ {p} : pc[q]' = "idle"
      BY <2>1, <2>3, <3>1, OthersIdle
    <3>5. stateJson' = marks[p] /\ stateJson' # Torn
      BY <2>1, <2>4, <3>1, MarksLoaded DEF SoloOK, RecordOK
    <3>6. RecordOK(p)'
      BY <2>3, <3>3 DEF RecordOK, Recording
    <3>7. (onDisk.json)' # Torn
      BY <2>1, <3>1 DEF SoloOK
    <3> QED
      BY <3>3, <3>4, <3>5, <3>6, <3>7, SoloMove
  <2>6. ASSUME solo', ~restored' PROVE DurableOK'
    <3>1. DurableOK /\ HoldsOK(p)
      BY <2>1, <2>6 DEF Alone, DurableOK
    <3>2. /\ mem[p] = vaultFile /\ (unsettledBase \/ vaultFile = onDisk.vault)
          /\ ~baseLost => Covers(marks[p], vaultFile)
          /\ phase[p] = "saving" => vaultFile = onDisk.vault
      BY <2>1, <3>1 DEF HoldsOK
    <3>3. Loaded(stateJson') = marks[p]
      BY <2>4, <2>5, <2>6, MarksLoaded
    <3>4. MarksCovered'
      <4> SUFFICES ASSUME ~baseLost, NEW j \in {stateJson', onDisk.json}
                   PROVE  Covers(Loaded(j), vaultFile)
                          /\ (~unsettledBase => Covers(Loaded(j), onDisk.vault))
        BY <2>1 DEF MarksCovered
      <4>1. CASE j = stateJson'
        BY <3>2, <3>3, <4>1
      <4>2. CASE j = onDisk.json
        BY <3>1, <4>2 DEF DurableOK, MarksCovered
      <4> QED
        BY <4>1, <4>2
    <3>5. \A q \in Proc : HoldsOK(q)'
      <4>1. HoldsOK(p)'
        BY <2>1, <2>3, <3>2 DEF HoldsOK, Recording
      <4>2. ASSUME NEW q \in Proc \ {p} PROVE HoldsOK(q)'
        <5>1. pc[q]' = "idle" /\ pc[q] = "idle" /\ phase[q]' = phase[q] /\ HoldsOK(q)
          BY <2>3, <2>5, <2>6, <3>1 DEF DurableOK
        <5> QED
          BY <5>1 DEF HoldsOK, Recording
      <4> QED
        BY <4>1, <4>2
    <3>6. AckedOK'
      BY <1>0, <2>1, <3>1, <3>2 DEF DurableOK, AckedOK
    <3> QED
      BY <2>1, <3>1, <3>4, <3>5, <3>6 DEF DurableOK, Settling
  <2> QED
    BY <2>5, <2>6 DEF Alone
<1>6. CASE JsonReplaceFails(p)
  BY <1>6, RaiseAlone DEF JsonReplaceFails, Idle
<1> QED
  BY <1>1, <1>3, <1>4, <1>5, <1>6 DEF RecordState

\* A power failure leaves either side of the last rename.
LEMMA PowerLossAlone ==
    ASSUME IInv, Alone, PowerLoss
    PROVE  Alone'
<1>1. /\ vaultFile' \in {vaultFile, onDisk.vault} /\ stateJson' \in {stateJson, onDisk.json}
      /\ (onDisk.vault)' = vaultFile' /\ (onDisk.json)' = stateJson'
      /\ baseLost' = (baseLost \/ (unsettledBase /\ vaultFile' # vaultFile))
      /\ UNCHANGED <<acked, solo, restored>>
      /\ \A p \in Proc : pc[p]' = "idle" /\ phase[p]' = "opening" /\ stateFd[p]' = "none"
  BY DEF PowerLoss
<1>2. solo' => SoloOK'
  <2>1. \A p \in Proc : RecordOK(p)'
    BY <1>1 DEF RecordOK, Recording
  <2> QED
    BY <1>1, <2>1 DEF Alone, SoloOK, OneActive, Idle
<1>3. ASSUME solo', ~restored' PROVE DurableOK'
  <2>1. DurableOK
    BY <1>1, <1>3 DEF Alone
  <2>2. MarksCovered' /\ Settling'
    <3>1. Settling'
      BY <1>1 DEF Settling
    <3> SUFFICES ASSUME ~baseLost', NEW j \in {stateJson, onDisk.json}
                 PROVE  Covers(Loaded(j), vaultFile')
      BY <1>1, <3>1 DEF MarksCovered
    <3>2. Covers(Loaded(j), vaultFile) /\ (~unsettledBase => Covers(Loaded(j), onDisk.vault))
      BY <1>1, <2>1 DEF DurableOK, MarksCovered
    <3>3. ~unsettledBase \/ vaultFile' = vaultFile
      BY <1>1
    <3> QED
      BY <1>1, <3>2, <3>3
  <2>3. \A p \in Proc : HoldsOK(p)'
    BY <1>1 DEF HoldsOK, Recording
  <2>4. AckedOK'
    <3>1. /\ onDisk.vault \in VaultFiles \union {NoFile}
          /\ vaultFile \in VaultFiles \union {NoFile} /\ acked \in VaultFiles \union {NoFile}
      BY DEF IInv, FilesOK, HistOK, CompleteOrMissing, Complete
    <3>2. CASE vaultFile' = onDisk.vault
      BY <1>1, <2>1, <3>2 DEF DurableOK, AckedOK
    <3>3. CASE vaultFile' = vaultFile /\ vaultFile # onDisk.vault
      <4>1. vaultFile # NoFile
            /\ (onDisk.vault # NoFile => onDisk.vault.vault_version < vaultFile.vault_version)
        BY <2>1, <3>1, <3>3, BehindLater DEF DurableOK, Settling
      <4> SUFFICES ASSUME acked # NoFile PROVE acked.vault_version < vaultFile.vault_version
        BY <1>1, <3>3, <4>1 DEF AckedOK
      <4>2. onDisk.vault # NoFile
            /\ (onDisk.vault = acked \/ acked.vault_version < onDisk.vault.vault_version)
        BY <2>1 DEF DurableOK, AckedOK
      <4>3. /\ acked.vault_version \in Nat /\ onDisk.vault.vault_version \in Nat
            /\ vaultFile.vault_version \in Nat
        BY <3>1, <4>1, <4>2 DEF VaultFiles
      <4> QED
        BY <4>1, <4>2, <4>3
    <3> QED
      BY <1>1, <3>2, <3>3
  <2> QED
    BY <2>2, <2>3, <2>4 DEF DurableOK
<1> QED
  BY <1>2, <1>3 DEF Alone

\* Every step keeps it.
LEMMA AloneStep == IInv /\ Alone /\ [Next]_vars => Alone'
<1> SUFFICES ASSUME IInv, Alone, [Next]_vars PROVE Alone'
  OBVIOUS
<1>1. CASE UNCHANGED <<vaultFile, onDisk, procVars, stateVars, acked, solo, unsettledBase, baseLost,
                       restored>>
  BY <1>1 DEF procVars, stateVars, Alone, SoloOK, OneActive, RecordOK, Recording, DurableOK, HoldsOK,
     MarksCovered, Settling, AckedOK, Idle
<1>2. ASSUME NEW p \in Proc, Kill(p) PROVE Alone'
  <2>1. ~Idle(p) /\ Exit(p) /\ stateFd' = [stateFd EXCEPT ![p] = "none"]
        /\ UNCHANGED <<vaultFile, onDisk, stateJson, acked, solo, unsettledBase, baseLost, restored>>
    BY <1>2 DEF Kill, fileVars
  <2> QED
    BY <2>1, ExitAlone
<1>3. CASE RestoreBackup
  <2>1. /\ UNCHANGED <<procVars, stateVars, solo>> /\ restored' = TRUE
        /\ (onDisk.json)' = onDisk.json
    BY <1>3 DEF RestoreBackup, IInv, FilesOK
  <2> QED
    BY <2>1 DEF procVars, stateVars, Alone, SoloOK, OneActive, RecordOK, Recording, Idle
<1>4. CASE Export
  BY <1>1, <1>4 DEF Export, histVars
<1>5. CASE UNCHANGED vars
  BY <1>1, <1>5 DEF vars, fileVars, histVars
<1>6. CASE Next
  BY <1>2, <1>3, <1>4, <1>6, OpenAlone, ChangeAlone, SaveAlone, RecordAlone, PowerLossAlone DEF Next
<1> QED
  BY <1>5, <1>6

LEMMA AloneInvariance == Spec => [](IInv /\ Alone)
<1>1. Init => IInv /\ Alone
  BY InvInit, AloneInit
<1>2. IInv /\ Alone /\ [Next]_vars => (IInv /\ Alone)'
  BY InvStep, AloneStep
<1> QED
  BY <1>1, <1>2, PTL DEF Spec

(***************************************************************************)
(* What it means for the user.                                             *)
(***************************************************************************)
\* As long as one process at a time runs, no backup is put back and no power
\* failure undoes a rename that a later command has started from, open_vault does
\* not raise RollbackDetected on the device's own vault file, whatever is killed
\* (src/zkvault/cli.py, src/zkvault/state.py).
THEOREM OwnVaultAccepted == Spec => []OwnVaultNeverRefused
<1>1. IInv /\ Alone => OwnVaultNeverRefused
  <2> SUFFICES ASSUME IInv, Alone, solo, ~restored, ~baseLost, vaultFile # NoFile
               PROVE  ~RolledBack(Loaded(stateJson), vaultFile)
    BY DEF OwnVaultNeverRefused
  <2>1. Covers(Loaded(stateJson), vaultFile)
    BY DEF Alone, DurableOK, MarksCovered
  <2>2. vaultFile \in VaultFiles /\ Loaded(stateJson) \in Marks
    BY LoadedType DEF IInv, StateOK, FilesOK, CompleteOrMissing, Complete
  <2>3. /\ vaultFile.vault_version \in Nat /\ vaultFile.payload_seq \in Nat
        /\ Loaded(stateJson).vault_version \in Nat /\ Loaded(stateJson).payload_seq \in Nat
    BY <2>2 DEF VaultFiles, Marks
  <2> QED
    BY <2>1, <2>3 DEF RolledBack, Covers, VersionOf, SeqOf
<1> QED
  BY <1>1, AloneInvariance, PTL

\* As long as one process at a time runs and no backup is put back, what a command
\* reported as saved is durable, or a later save of the same device is, through
\* kills, failed saves and power failures (VaultFile.save).
THEOREM AckedDurable == Spec => []AckedSurvives
<1>1. IInv /\ Alone => AckedSurvives
  BY DEF Alone, DurableOK, AckedOK, AckedSurvives
<1> QED
  BY <1>1, AloneInvariance, PTL

\* One process at a time: only a power failure can lower what state.json
\* records, because the marks written include those read (DeviceState.record).
THEOREM MarksNeverFall == Spec => HighWaterNeverFalls
<1>1. IInv /\ Alone /\ [Next]_vars => (solo' => PowerLoss \/ NotLowered)
  <2> SUFFICES ASSUME IInv, Alone, [Next]_vars, solo', ~PowerLoss PROVE NotLowered
    OBVIOUS
  <2>1. ASSUME UNCHANGED stateJson PROVE NotLowered
    <3>1. Loaded(stateJson) \in Marks
      BY LoadedType DEF IInv, StateOK
    <3>2. Loaded(stateJson).vault_version \in Nat /\ Loaded(stateJson).payload_seq \in Nat
      BY <3>1 DEF Marks
    <3> QED
      BY <2>1, <3>2 DEF NotLowered, NotAhead
  <2>2. ASSUME NEW p \in Proc, JsonWrite(p) PROVE NotLowered
    <3>1. stateFd[p] = "tmp"
      BY <2>2 DEF JsonWrite, histVars, Alone, SoloOK, RecordOK
    <3> QED
      BY <2>1, <2>2, <3>1 DEF JsonWrite, WriteTmp
  <2>3. ASSUME NEW p \in Proc, JsonReplace(p) PROVE NotLowered
    <3>1. stateTmp = marks[p] /\ NotAhead(Loaded(stateJson), marks[p])
      BY <2>3 DEF JsonReplace, Alone, SoloOK, RecordOK, Recording
    <3>2. stateJson' = marks[p] /\ marks[p] \in Marks
      BY <2>3, <3>1 DEF JsonReplace, ReplaceState, IInv, ProcOK
    <3> QED
      BY <3>1, <3>2, MarksLoaded DEF NotLowered
  <2>4. ASSUME NEW p \in Proc, Open(p) \/ Change(p) \/ Save(p) PROVE UNCHANGED stateJson
    <3>1. ASSUME NEW vf, NEW ph, ToSave(p, vf, ph) PROVE UNCHANGED stateJson
      BY <3>1 DEF ToSave, stateVars
    <3>2. CASE Open(p)
      BY <3>2 DEF Open, LoadVault, LoadState, Unlock, WrongPassphrase, stateVars
    <3>3. CASE Change(p)
      BY <3>1, <3>3 DEF Change, CmdInit, CmdPasswd, CmdRotateKey, CmdEdit, SessionEdit, SessionSave,
         SessionQuitSaving, Quit, stateVars
    <3>4. CASE Save(p)
      BY <3>1, <3>4 DEF Save, ReplaceVault, SaveFails, SyncDir, SyncFails, Raise, stateVars
    <3> QED
      BY <2>4, <3>2, <3>3, <3>4
  <2>5. ASSUME NEW p \in Proc, ReloadState(p) \/ JsonOpen(p) \/ JsonReplaceFails(p) \/ Kill(p)
        PROVE  UNCHANGED stateJson
    BY <2>5 DEF ReloadState, JsonOpen, OpenTmp, JsonReplaceFails, Raise, ToSave, Kill, stateVars
  <2>6. CASE Export \/ RestoreBackup \/ UNCHANGED vars
    BY <2>1, <2>6 DEF Export, RestoreBackup, vars, stateVars
  <2> QED
    BY <2>1, <2>2, <2>3, <2>4, <2>5, <2>6 DEF Next, RecordState
<1> QED
  BY <1>1, AloneInvariance, PTL DEF Spec, HighWaterNeverFalls

=============================================================================
