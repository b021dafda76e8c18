---------------------------- MODULE VaultFormat ----------------------------
(***************************************************************************)
(* The vault file and its key hierarchy (src/zkvault/vault.py), with the   *)
(* cryptography taken symbolically: an AEAD box remembers its key, its     *)
(* associated data and its plaintext, and opens only under both.  Also the *)
(* per-vault high-water marks of src/zkvault/state.py.                     *)
(*                                                                         *)
(* Salts and vault keys are numbers; a fresh one is a number not drawn     *)
(* before.  Payload contents are left abstract.                            *)
(***************************************************************************)
EXTENDS Naturals

(***************************************************************************)
(* AEAD and key derivation.                                                *)
(***************************************************************************)
AeadEncrypt(key, plaintext, aad) == [key |-> key, aad |-> aad, plaintext |-> plaintext]

AeadOpens(box, key, aad) == box.key = key /\ box.aad = aad

\* Mutant: the salt does not enter the derivation.
KekUnsalted(passphrase, kdf) == <<passphrase, 0>>

Kek(passphrase, kdf) == <<passphrase, kdf>>

KeyBinding(vf) == <<vf.vault_id, vf.kdf>>

\* Mutant: the payload is bound to the vault but not to its position.
PayloadBindingNoSeq(vf) == <<vf.vault_id, 0>>

PayloadBinding(vf) == <<vf.vault_id, vf.payload_seq>>

(***************************************************************************)
(* Operations on a VaultFile.  A passphrase or key that does not open a    *)
(* box is CryptoFailure in the code: callers guard with Unwraps or Opens.  *)
(***************************************************************************)
Vek(vf) == vf.wrapped_vek.plaintext

Unwraps(vf, passphrase) ==
    AeadOpens(vf.wrapped_vek, Kek(passphrase, vf.kdf), KeyBinding(vf))

Opens(vf, passphrase) ==
    /\ Unwraps(vf, passphrase)
    /\ AeadOpens(vf.payload, Vek(vf), PayloadBinding(vf))

ContentsOf(vf) == vf.payload.plaintext

Wrap(vf, passphrase, vek) ==
    [vf EXCEPT !.wrapped_vek = AeadEncrypt(Kek(passphrase, vf.kdf), vek, KeyBinding(vf))]

Encrypted(vf, vek, contents) ==
    [vf EXCEPT !.payload = AeadEncrypt(vek, contents, PayloadBinding(vf))]

Seal(vf, vek, contents) ==
    Encrypted([vf EXCEPT !.vault_version = @ + 1, !.payload_seq = @ + 1], vek, contents)

Create(vault_id, passphrase, kdf, vek, contents) ==
    LET empty == [vault_id |-> vault_id, kdf |-> kdf, vault_version |-> 0, payload_seq |-> 0,
                  wrapped_vek |-> AeadEncrypt(Kek(passphrase, kdf), vek, <<vault_id, kdf>>),
                  payload |-> AeadEncrypt(vek, contents, <<vault_id, 0>>)]
    IN  Seal(empty, vek, contents)

\* Mutant: the new salt is written to the header but the key stays wrapped under the old one.
ChangePassphraseStaleWrap(vf, passphrase, kdf) ==
    [Wrap(vf, passphrase, Vek(vf)) EXCEPT !.kdf = kdf, !.vault_version = @ + 1]

\* Mutant: the vault keeps its salt.
ChangePassphraseSameSalt(vf, passphrase, kdf) ==
    [Wrap(vf, passphrase, Vek(vf)) EXCEPT !.vault_version = @ + 1]

ChangePassphrase(vf, passphrase, kdf) ==
    [Wrap([vf EXCEPT !.kdf = kdf], passphrase, Vek(vf)) EXCEPT !.vault_version = @ + 1]

\* Mutant: rotation builds a new file, and its counters start over.
RotateVekRestart(vf, passphrase, vek) ==
    Create(vf.vault_id, passphrase, vf.kdf, vek, ContentsOf(vf))

RotateVek(vf, passphrase, vek) == Seal(Wrap(vf, passphrase, vek), vek, ContentsOf(vf))

(***************************************************************************)
(* High-water marks: what state.json holds for one vault.  A missing       *)
(* server_version reads as 0, and record() does not carry it over.         *)
(***************************************************************************)
NothingSeen == [vault_version |-> 0, payload_seq |-> 0, server_version |-> 0]

Larger(m, n) == IF m >= n THEN m ELSE n

RolledBack(seen, vf) ==
    \/ vf.payload_seq < seen.payload_seq
    \/ vf.vault_version < seen.vault_version

\* Mutant: the mark is overwritten instead of raised.
RecordLast(seen, vf) ==
    [vault_version |-> vf.vault_version, payload_seq |-> vf.payload_seq, server_version |-> 0]

Record(seen, vf) ==
    [vault_version  |-> Larger(vf.vault_version, seen.vault_version),
     payload_seq    |-> Larger(vf.payload_seq, seen.payload_seq),
     server_version |-> 0]

\* a is nowhere ahead of b.
NotAhead(a, b) == a.vault_version <= b.vault_version /\ a.payload_seq <= b.payload_seq
=============================================================================
