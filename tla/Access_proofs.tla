--------------------------- MODULE Access_proofs ---------------------------
(***************************************************************************)
(* Access for any number of devices and passphrases: its types, that the   *)
(* server's copy opens with exactly the passphrase that logs in, that the  *)
(* same holds of every vault with the registered salt, and that only its   *)
(* own saves lock a device out.                                            *)
(***************************************************************************)
EXTENDS Access, TLAPS

(***************************************************************************)
(* The inductive invariant: every salt has one passphrase, the one it was  *)
(* drawn for, and files, requests and the account agree on it.             *)
(***************************************************************************)
\* The passphrase c[vf.kdf], and no other, opens the file.
Fits(vf, c, n) ==
    vf \in VaultFiles /\ vf.kdf \in 1 .. n /\ c[vf.kdf] \in Passphrase /\ Opens(vf, c[vf.kdf])

FitsOrMissing(f, c, n) == f = NoFile \/ Fits(f, c, n)

\* Credentials derived from a salt and its passphrase.
Genuine(r, c, n) ==
    r.kdf \in 1 .. n /\ c[r.kdf] \in Passphrase /\ r.auth = AuthSecret(c[r.kdf], r.kdf)

DrawOK == drawn \in 0 .. MaxDrawn /\ chosen \in [Draw -> Passphrase \union {NoPassphrase}]

FilesOK ==
    /\ file \in [Device -> VaultFiles \union {NoFile}]
    /\ \A d \in Device : FitsOrMissing(file[d], chosen, drawn)

LoadedOK ==
    /\ loaded \subseteq Device \X VaultFiles
    /\ \A l \in loaded : Fits(l[2], chosen, drawn)

Requests == [auth : Passphrase \X Draw, kdf : Draw, step : {"select", "insert"}]

RequestsOK ==
    /\ request \in [Device -> Requests \union {NoRequest}]
    /\ \A d \in Device : request[d] # NoRequest => Genuine(request[d], chosen, drawn)

AccountOK ==
    /\ account \in Accounts \union {NoAccount}
    /\ account # NoAccount => Genuine(account, chosen, drawn)

\* A file that can be, or has been, uploaded.
Ours(vf) == account # NoAccount /\ vf.kdf = account.kdf

BlobOK ==
    /\ blob \in VaultFiles \union {NoFile}
    /\ FitsOrMissing(blob, chosen, drawn)
    /\ blob # NoFile => Ours(blob)

CommandTypes ==
    /\ pc \in [Device -> {"idle", "fetched", "in", "replace"}]
    /\ held \in [Device -> VaultFiles \union {NoFile}]
    /\ kdf \in [Device -> Draw \union {Decoy}]
    /\ typed \in [Device -> Passphrase \union {NoPassphrase}]

HeldOK(d) ==
    /\ FitsOrMissing(held[d], chosen, drawn)
    /\ pc[d] \in {"in", "replace"} /\ held[d] # NoFile => Ours(held[d])
    /\ pc[d] = "replace" => held[d] # NoFile
    /\ pc[d] \notin {"in", "replace"} => held[d] = NoFile

CommandOK == CommandTypes /\ \A d \in Device : HeldOK(d)

IInv == DrawOK /\ FilesOK /\ LoadedOK /\ RequestsOK /\ AccountOK /\ BlobOK /\ CommandOK

(***************************************************************************)
(* Vault files.                                                            *)
(***************************************************************************)
\* Only one passphrase opens a file.
LEMMA OnlyThat ==
    ASSUME NEW vf, NEW c, NEW n, Fits(vf, c, n), NEW pass
    PROVE  Opens(vf, pass) <=> pass = c[vf.kdf]
  BY DEF Fits, Opens, Unwraps, AeadOpens, Kek

\* And so does unwrapping its key.
LEMMA OnlyThatUnwraps ==
    ASSUME NEW vf, NEW c, NEW n, Fits(vf, c, n), NEW pass, Unwraps(vf, pass)
    PROVE  pass = c[vf.kdf]
  BY DEF Fits, Opens, Unwraps, AeadOpens, Kek

\* Drawing more salts changes nothing for the files and requests there are.
LEMMA Later ==
    ASSUME NEW c, NEW n \in Nat, NEW c2, NEW n2 \in Nat, n <= n2, \A s \in 1 .. n : c2[s] = c[s]
    PROVE  /\ \A vf : Fits(vf, c, n) => Fits(vf, c2, n2)
           /\ \A f : FitsOrMissing(f, c, n) => FitsOrMissing(f, c2, n2)
           /\ \A r : Genuine(r, c, n) => Genuine(r, c2, n2)
<1>1. \A s \in 1 .. n : s \in 1 .. n2 /\ c2[s] = c[s]
  OBVIOUS
<1>2. \A vf : Fits(vf, c, n) => Fits(vf, c2, n2)
  BY <1>1 DEF Fits
<1>3. \A r : Genuine(r, c, n) => Genuine(r, c2, n2)
  BY <1>1 DEF Genuine
<1> QED
  BY <1>2, <1>3 DEF FitsOrMissing

\* A file in full.
Layout(id, salt, version, seq, pass, vek) ==
    [vault_id |-> id, kdf |-> salt, vault_version |-> version, payload_seq |-> seq,
     wrapped_vek |-> [key |-> <<pass, salt>>, aad |-> <<id, salt>>, plaintext |-> vek],
     payload |-> [key |-> vek, aad |-> <<id, seq>>, plaintext |-> Contents]]

\* A file laid out so fits the salt's passphrase.
LEMMA LayoutFits ==
    ASSUME NEW id \in Draw, NEW salt \in Draw, NEW version \in Nat, NEW seq \in Nat,
           NEW pass \in Passphrase, NEW vek \in Draw,
           NEW c, NEW n \in Nat, salt \in 1 .. n, c[salt] = pass
    PROVE  Fits(Layout(id, salt, version, seq, pass, vek), c, n)
<1> DEFINE vf == Layout(id, salt, version, seq, pass, vek)
<1>1. vf \in VaultFiles
  BY DEF Layout, VaultFiles
<1>2. Opens(vf, pass)
  BY DEF Layout, Opens, Unwraps, AeadOpens, Vek, KeyBinding, PayloadBinding, Kek
<1>3. vf.kdf = salt
  BY DEF Layout
<1> HIDE DEF vf
<1>4. Fits(vf, c, n)
  BY <1>1, <1>2, <1>3 DEF Fits
<1> QED
  BY <1>4 DEF vf

\* And every file that fits is laid out so.
LEMMA FitsLayout ==
    ASSUME NEW vf, NEW c, NEW n, Fits(vf, c, n)
    PROVE  vf = Layout(vf.vault_id, vf.kdf, vf.vault_version, vf.payload_seq, c[vf.kdf], Vek(vf))
<1>1. vf \in VaultFiles /\ Opens(vf, c[vf.kdf])
  BY DEF Fits
<1>2. vf.wrapped_vek = [key |-> <<c[vf.kdf], vf.kdf>>, aad |-> <<vf.vault_id, vf.kdf>>,
                        plaintext |-> Vek(vf)]
  BY <1>1 DEF VaultFiles, Opens, Unwraps, AeadOpens, Vek, KeyBinding, Kek
<1>3. vf.payload = [key |-> Vek(vf), aad |-> <<vf.vault_id, vf.payload_seq>>, plaintext |-> Contents]
  BY <1>1 DEF VaultFiles, Opens, AeadOpens, PayloadBinding
<1> QED
  BY <1>1, <1>2, <1>3 DEF Layout, VaultFiles

\* A file whose payload may be sealed under another key.
WithPayload(id, salt, version, seq, pass, vek, payload) ==
    [vault_id |-> id, kdf |-> salt, vault_version |-> version, payload_seq |-> seq,
     wrapped_vek |-> [key |-> <<pass, salt>>, aad |-> <<id, salt>>, plaintext |-> vek],
     payload |-> payload]

\* Sealing the same contents under a key.
LEMMA SealLayout ==
    ASSUME NEW id, NEW salt, NEW version \in Nat, NEW seq \in Nat, NEW pass, NEW old, NEW vek,
           NEW vf, vf = WithPayload(id, salt, version, seq, pass, vek, old)
    PROVE  Seal(vf, vek, Contents) = Layout(id, salt, version + 1, seq + 1, pass, vek)
<1> DEFINE raised == [vf EXCEPT !.vault_version = @ + 1, !.payload_seq = @ + 1]
           half == [vf EXCEPT !.vault_version = @ + 1]
           key == [key |-> <<pass, salt>>, aad |-> <<id, salt>>, plaintext |-> vek]
<1>1. vf = [vault_id |-> id, kdf |-> salt, vault_version |-> version, payload_seq |-> seq,
            wrapped_vek |-> key, payload |-> old]
  BY DEF WithPayload
<1> HIDE DEF key
<1>2. half = [vault_id |-> id, kdf |-> salt, vault_version |-> version + 1, payload_seq |-> seq,
              wrapped_vek |-> key, payload |-> old]
  BY <1>1
<1>3. raised = [half EXCEPT !.payload_seq = @ + 1]
  BY <1>1
<1> HIDE DEF half
<1>4. raised = [vault_id |-> id, kdf |-> salt, vault_version |-> version + 1,
                payload_seq |-> seq + 1, wrapped_vek |-> key, payload |-> old]
  BY <1>2, <1>3
<1>5. Seal(vf, vek, Contents) = [raised EXCEPT !.payload = [key |-> vek,
          aad |-> <<raised.vault_id, raised.payload_seq>>, plaintext |-> Contents]]
  BY DEF Seal, Encrypted, AeadEncrypt, PayloadBinding
<1> HIDE DEF raised
<1> QED
  BY <1>4, <1>5 DEF Layout, key

\* A new vault.
LEMMA CreateLayout ==
    ASSUME NEW id, NEW pass, NEW salt, NEW vek
    PROVE  Create(id, pass, salt, vek, Contents) = Layout(id, salt, 0 + 1, 0 + 1, pass, vek)
<1> DEFINE empty == Layout(id, salt, 0, 0, pass, vek)
<1>1. Create(id, pass, salt, vek, Contents) = Seal(empty, vek, Contents)
  BY DEF Create, Layout, AeadEncrypt, Kek
<1>2. empty = WithPayload(id, salt, 0, 0, pass, vek, empty.payload)
  BY DEF Layout, WithPayload
<1> HIDE DEF empty
<1> QED
  BY <1>1, <1>2, SealLayout

\* A new passphrase under a new salt.
LEMMA ChangePassphraseLayout ==
    ASSUME NEW id, NEW salt, NEW version \in Nat, NEW seq \in Nat, NEW pass, NEW vek,
           NEW new, NEW fresh
    PROVE  ChangePassphrase(Layout(id, salt, version, seq, pass, vek), new, fresh) =
               Layout(id, fresh, version + 1, seq, new, vek)
<1> DEFINE vf == Layout(id, salt, version, seq, pass, vek)
           box == [key |-> vek, aad |-> <<id, seq>>, plaintext |-> Contents]
           salted == [vf EXCEPT !.kdf = fresh]
           wrapped == Wrap(salted, new, vek)
<1>1. salted = [vault_id |-> id, kdf |-> fresh, vault_version |-> version, payload_seq |-> seq,
                wrapped_vek |-> [key |-> <<pass, salt>>, aad |-> <<id, salt>>, plaintext |-> vek],
                payload |-> box]
  BY DEF Layout
<1>2. Vek(vf) = vek
  BY DEF Vek, Layout
<1> HIDE DEF box, salted
<1>3. wrapped = [vault_id |-> id, kdf |-> fresh, vault_version |-> version, payload_seq |-> seq,
                 wrapped_vek |-> [key |-> <<new, fresh>>, aad |-> <<id, fresh>>, plaintext |-> vek],
                 payload |-> box]
  BY <1>1 DEF Wrap, AeadEncrypt, KeyBinding, Kek
<1>4. ChangePassphrase(vf, new, fresh) = [wrapped EXCEPT !.vault_version = @ + 1]
  BY <1>2 DEF ChangePassphrase, salted
<1> HIDE DEF wrapped, vf
<1>5. ChangePassphrase(vf, new, fresh) = Layout(id, fresh, version + 1, seq, new, vek)
  BY <1>3, <1>4 DEF Layout, box
<1> QED
  BY <1>5 DEF vf

\* A new vault key under the same passphrase.
LEMMA RotateLayout ==
    ASSUME NEW id, NEW salt, NEW version \in Nat, NEW seq \in Nat, NEW pass, NEW vek, NEW new
    PROVE  RotateVek(Layout(id, salt, version, seq, pass, vek), pass, new) =
               Layout(id, salt, version + 1, seq + 1, pass, new)
<1> DEFINE vf == Layout(id, salt, version, seq, pass, vek)
           wrapped == Wrap(vf, pass, new)
<1>1. ContentsOf(vf) = Contents
  BY DEF ContentsOf, Layout
<1>2. wrapped = WithPayload(id, salt, version, seq, pass, new, vf.payload)
  BY DEF Wrap, AeadEncrypt, KeyBinding, Kek, Layout, WithPayload
<1>3. RotateVek(vf, pass, new) = Seal(wrapped, new, Contents)
  BY <1>1 DEF RotateVek
<1> HIDE DEF wrapped, vf
<1>4. Seal(wrapped, new, Contents) = Layout(id, salt, version + 1, seq + 1, pass, new)
  BY <1>2, SealLayout
<1> QED
  BY <1>3, <1>4 DEF vf

(***************************************************************************)
(* The invariant implies the properties.                                   *)
(***************************************************************************)
\* The account's salt and the file's are one: so are their passphrases.
LEMMA OursSameDoor ==
    ASSUME AccountOK, NEW vf, Fits(vf, chosen, drawn), Ours(vf)
    PROVE  SameDoor(vf)
<1> SUFFICES ASSUME NEW pass \in Passphrase
             PROVE  Opens(vf, pass) <=> LogsIn(pass, vf.kdf)
  BY DEF SameDoor
<1>1. Opens(vf, pass) <=> pass = chosen[vf.kdf]
  BY OnlyThat
<1>2. account # NoAccount /\ vf.kdf = account.kdf
      /\ account.auth = <<chosen[account.kdf], account.kdf>>
  BY DEF AccountOK, Genuine, Ours, AuthSecret
<1>3. LogsIn(pass, vf.kdf) <=> pass = chosen[vf.kdf]
  BY <1>2 DEF LogsIn, AuthSecret
<1> QED
  BY <1>1, <1>3

\* The two invariants of the runs.
LEMMA DoorsMatch == IInv => BlobBehindLogin /\ LoginMatchesVault
<1> SUFFICES ASSUME IInv PROVE BlobBehindLogin /\ LoginMatchesVault
  OBVIOUS
<1>1. BlobBehindLogin
  BY OursSameDoor DEF IInv, BlobOK, BlobBehindLogin, FitsOrMissing, Ours
<1>2. LoginMatchesVault
  BY OursSameDoor DEF IInv, FilesOK, LoginMatchesVault, FitsOrMissing, Ours
<1> QED
  BY <1>1, <1>2

\* The inductive invariant carries the types.
LEMMA TypesHold == IInv => TypeOK
  BY DEF IInv, DrawOK, FilesOK, LoadedOK, RequestsOK, Requests, AccountOK, BlobOK, CommandOK,
     CommandTypes, TypeOK

(***************************************************************************)
(* The invariant, action by action.                                        *)
(***************************************************************************)
\* The inductive invariant holds initially.
LEMMA InvInit == Init => IInv
<1> SUFFICES ASSUME Init PROVE IInv
  OBVIOUS
<1>1. DrawOK
  BY BoundsAssumption DEF Init, DrawOK
<1>2. FilesOK /\ LoadedOK /\ BlobOK /\ AccountOK
  BY DEF Init, FilesOK, LoadedOK, BlobOK, AccountOK, FitsOrMissing
<1>3. RequestsOK
  BY DEF Init, RequestsOK
<1>4. CommandOK
  BY DEF Init, CommandOK, CommandTypes, HeldOK, FitsOrMissing
<1> QED
  BY <1>1, <1>2, <1>3, <1>4 DEF IInv

\* A command that ends holds nothing.
LEMMA FinishOK ==
    ASSUME CommandOK, NEW d \in Device, Finish(d),
           \A f : FitsOrMissing(f, chosen, drawn) => FitsOrMissing(f, chosen', drawn'),
           UNCHANGED account
    PROVE  CommandOK'
<1>1. CommandTypes'
  BY DEF CommandOK, CommandTypes, Finish, Set
<1>2. ASSUME NEW e \in Device PROVE HeldOK(e)'
  <2>1. CASE e = d
    BY <2>1 DEF CommandOK, CommandTypes, HeldOK, Finish, Set, FitsOrMissing
  <2>2. CASE e # d
    <3>1. held'[e] = held[e] /\ pc'[e] = pc[e]
      BY <2>2 DEF CommandOK, CommandTypes, Finish, Set
    <3> QED
      BY <3>1 DEF CommandOK, HeldOK, Ours
  <2> QED
    BY <2>1, <2>2
<1> QED
  BY <1>1, <1>2 DEF CommandOK

\* A command nothing happens to, while salts are drawn.
LEMMA CommandKept ==
    ASSUME CommandOK, UNCHANGED <<command, account>>,
           \A f : FitsOrMissing(f, chosen, drawn) => FitsOrMissing(f, chosen', drawn')
    PROVE  CommandOK'
<1>1. UNCHANGED <<pc, held, kdf, typed>>
  BY DEF command
<1> QED
  BY <1>1 DEF CommandOK, CommandTypes, HeldOK, Ours

\* Writing one file that fits, while salts may be drawn; nothing at the server moves.
LEMMA WriteOK ==
    ASSUME IInv, NEW d \in Device, NEW vf, Fits(vf, chosen', drawn'), file' = Set(file, d, vf), DrawOK',
           drawn <= drawn', \A s \in 1 .. drawn : chosen'[s] = chosen[s],
           UNCHANGED <<loaded, account, blob, request, command>>
    PROVE  IInv'
<1> USE DEF IInv
<1>1. drawn \in Nat /\ drawn' \in Nat
  BY BoundsAssumption DEF DrawOK
<1>2. /\ \A f : Fits(f, chosen, drawn) => Fits(f, chosen', drawn')
      /\ \A f : FitsOrMissing(f, chosen, drawn) => FitsOrMissing(f, chosen', drawn')
      /\ \A r : Genuine(r, chosen, drawn) => Genuine(r, chosen', drawn')
  BY <1>1, Later
<1>3. FilesOK'
  BY <1>2 DEF FilesOK, Set, FitsOrMissing, Fits
<1>4. RequestsOK' /\ AccountOK' /\ BlobOK'
  BY <1>2 DEF RequestsOK, AccountOK, BlobOK, Ours, NoRequest
<1>5. CommandOK'
  BY <1>2, CommandKept
<1>6. LoadedOK'
  BY <1>2 DEF LoadedOK
<1> QED
  BY <1>3, <1>4, <1>5, <1>6

\* Whatever a command goes on with fits.
LEMMA AtHandFits ==
    ASSUME IInv, NEW d \in Device, NEW vf \in AtHand(d)
    PROVE  Fits(vf, chosen, drawn)
<1>1. CASE vf = file[d] /\ vf # NoFile
  BY <1>1 DEF IInv, FilesOK, FitsOrMissing
<1>2. CASE \E l \in loaded : vf = l[2]
  BY <1>2 DEF IInv, LoadedOK
<1> QED
  BY <1>1, <1>2 DEF AtHand

\* A key rotation keeps the salt.
LEMMA RotatedFits ==
    ASSUME NEW vf, NEW c, NEW n \in Nat, Fits(vf, c, n), NEW pass, Opens(vf, pass), NEW vek \in Draw
    PROVE  Fits(RotateVek(vf, pass, vek), c, n) /\ RotateVek(vf, pass, vek).kdf = vf.kdf
<1>1. vf = Layout(vf.vault_id, vf.kdf, vf.vault_version, vf.payload_seq, c[vf.kdf], Vek(vf))
  BY FitsLayout
<1>2. /\ vf.vault_id \in Draw /\ vf.kdf \in Draw /\ vf.kdf \in 1 .. n
      /\ vf.vault_version \in Nat /\ vf.payload_seq \in Nat /\ pass \in Passphrase /\ pass = c[vf.kdf]
  BY OnlyThat DEF Fits, VaultFiles
<1> DEFINE rotated == RotateVek(vf, pass, vek)
<1>3. rotated = Layout(vf.vault_id, vf.kdf, vf.vault_version + 1, vf.payload_seq + 1, pass, vek)
  BY <1>1, <1>2, RotateLayout
<1> HIDE DEF rotated
<1>4. vf.vault_version + 1 \in Nat /\ vf.payload_seq + 1 \in Nat
  BY <1>2
<1>5. Fits(rotated, c, n)
  BY <1>2, <1>3, <1>4, LayoutFits
<1>6. rotated.kdf = vf.kdf
  BY <1>3 DEF Layout
<1> QED
  BY <1>5, <1>6 DEF rotated

\* And so does saving the entries.
LEMMA SealedFits ==
    ASSUME NEW vf, NEW c, NEW n \in Nat, Fits(vf, c, n)
    PROVE  Fits(Seal(vf, Vek(vf), Contents), c, n) /\ Seal(vf, Vek(vf), Contents).kdf = vf.kdf
<1>1. vf = Layout(vf.vault_id, vf.kdf, vf.vault_version, vf.payload_seq, c[vf.kdf], Vek(vf))
  BY FitsLayout
<1>2. /\ vf.vault_id \in Draw /\ vf.kdf \in Draw /\ vf.kdf \in 1 .. n /\ Vek(vf) \in Draw
      /\ vf.vault_version \in Nat /\ vf.payload_seq \in Nat /\ c[vf.kdf] \in Passphrase
  BY DEF Fits, VaultFiles, Vek
<1>3. vf = WithPayload(vf.vault_id, vf.kdf, vf.vault_version, vf.payload_seq, c[vf.kdf], Vek(vf), vf.payload)
  BY <1>1 DEF Layout, WithPayload
<1> DEFINE sealed == Seal(vf, Vek(vf), Contents)
<1>4. sealed = Layout(vf.vault_id, vf.kdf, vf.vault_version + 1, vf.payload_seq + 1, c[vf.kdf], Vek(vf))
  BY <1>2, <1>3, SealLayout
<1> HIDE DEF sealed
<1>5. vf.vault_version + 1 \in Nat /\ vf.payload_seq + 1 \in Nat
  BY <1>2
<1>6. Fits(sealed, c, n)
  BY <1>2, <1>4, <1>5, LayoutFits
<1>7. sealed.kdf = vf.kdf
  BY <1>4 DEF Layout
<1> QED
  BY <1>6, <1>7 DEF sealed

\* The commands that change the vault file of a device.
LEMMA LocalStep ==
    ASSUME IInv, NEW d \in Device, Local(d)
    PROVE  IInv'
<1>0. drawn \in Nat /\ drawn <= MaxDrawn /\ MaxDrawn \in Nat /\ chosen \in [Draw -> Passphrase \union {NoPassphrase}]
  BY BoundsAssumption DEF IInv, DrawOK
<1>1. CASE CmdInit(d)
  <2>1. PICK pass \in Passphrase :
            /\ file' = Set(file, d, Create(drawn + 1, pass, drawn + 1, drawn + 2, Contents))
            /\ chosen' = Set(chosen, drawn + 1, pass)
    BY <1>1 DEF CmdInit, Write
  <2>2. drawn + 1 \in Draw /\ drawn + 2 \in Draw /\ drawn' = drawn + 2
    BY <1>0, <1>1 DEF CmdInit, Draw
  <2>3. chosen' \in [Draw -> Passphrase \union {NoPassphrase}] /\ chosen'[drawn + 1] = pass
        /\ \A s \in 1 .. drawn : chosen'[s] = chosen[s]
    BY <1>0, <2>1, <2>2 DEF Set
  <2>4. DrawOK' /\ drawn <= drawn' /\ drawn' \in Nat /\ drawn + 1 \in 1 .. drawn'
    BY <1>0, <1>1, <2>2, <2>3 DEF DrawOK, CmdInit
  <2> DEFINE new == Create(drawn + 1, pass, drawn + 1, drawn + 2, Contents)
  <2>5. new = Layout(drawn + 1, drawn + 1, 0 + 1, 0 + 1, pass, drawn + 2)
    BY CreateLayout
  <2> HIDE DEF new
  <2>6. Fits(new, chosen', drawn')
    BY <2>2, <2>3, <2>4, <2>5, LayoutFits
  <2> QED
    BY <1>1, <2>1, <2>3, <2>4, <2>6, WriteOK DEF CmdInit, new
<1>2. CASE CopyVault(d)
  <2>1. PICK e \in Device : file[e] # NoFile /\ file' = Set(file, d, file[e])
    BY <1>2 DEF CopyVault
  <2>2. Fits(file[e], chosen', drawn') /\ UNCHANGED <<drawn, chosen>>
    BY <1>2, <2>1 DEF CopyVault, IInv, FilesOK, FitsOrMissing
  <2> QED
    BY <1>0, <1>2, <2>1, <2>2, WriteOK DEF CopyVault, IInv, DrawOK
<1>3. CASE CmdPasswd(d)
  <2>1. PICK vf \in AtHand(d), new \in Passphrase :
            /\ file' = Set(file, d, ChangePassphrase(vf, new, drawn + 1))
            /\ chosen' = Set(chosen, drawn + 1, new)
    BY <1>3 DEF CmdPasswd, Write
  <2>2. drawn + 1 \in Draw /\ drawn' = drawn + 1
    BY <1>0, <1>3 DEF CmdPasswd, Draw
  <2>3. chosen' \in [Draw -> Passphrase \union {NoPassphrase}] /\ chosen'[drawn + 1] = new
        /\ \A s \in 1 .. drawn : chosen'[s] = chosen[s]
    BY <1>0, <2>1, <2>2 DEF Set
  <2>4. DrawOK' /\ drawn <= drawn' /\ drawn' \in Nat /\ drawn + 1 \in 1 .. drawn'
    BY <1>0, <1>3, <2>2, <2>3 DEF DrawOK, CmdPasswd
  <2>5. Fits(vf, chosen, drawn)
    BY AtHandFits
  <2>6. vf \in VaultFiles /\ vf = Layout(vf.vault_id, vf.kdf, vf.vault_version, vf.payload_seq,
                                         chosen[vf.kdf], Vek(vf))
    BY <2>5, FitsLayout DEF Fits
  <2>7. vf.vault_id \in Draw /\ vf.vault_version \in Nat /\ vf.payload_seq \in Nat /\ Vek(vf) \in Draw
    BY <2>6 DEF VaultFiles, Vek
  <2> DEFINE changed == ChangePassphrase(vf, new, drawn + 1)
  <2>8. changed = Layout(vf.vault_id, drawn + 1, vf.vault_version + 1, vf.payload_seq, new, Vek(vf))
    BY <2>6, <2>7, ChangePassphraseLayout
  <2> HIDE DEF changed
  <2>9. vf.vault_version + 1 \in Nat
    BY <2>7
  <2>10. Fits(changed, chosen', drawn')
    BY <2>2, <2>3, <2>4, <2>7, <2>8, <2>9, LayoutFits
  <2>11. file' = Set(file, d, changed)
    BY <2>1 DEF changed
  <2> QED
    BY <1>3, <2>3, <2>4, <2>10, <2>11, WriteOK DEF CmdPasswd
<1>4. CASE CmdRotateKey(d)
  <2>1. PICK vf \in AtHand(d), pass \in Passphrase :
            Opens(vf, pass) /\ file' = Set(file, d, RotateVek(vf, pass, drawn + 1))
    BY <1>4 DEF CmdRotateKey, Write
  <2>2. drawn + 1 \in Draw /\ drawn' = drawn + 1 /\ UNCHANGED chosen
    BY <1>0, <1>4 DEF CmdRotateKey, Draw
  <2>3. DrawOK' /\ drawn <= drawn' /\ drawn' \in Nat
    BY <1>0, <1>4, <2>2 DEF DrawOK, CmdRotateKey
  <2>4. Fits(vf, chosen', drawn')
    BY <1>0, <2>2, <2>3, AtHandFits, Later
  <2>5. Fits(RotateVek(vf, pass, drawn + 1), chosen', drawn')
    BY <2>1, <2>2, <2>3, <2>4, RotatedFits
  <2> QED
    BY <1>4, <2>1, <2>2, <2>3, <2>5, WriteOK DEF CmdRotateKey
<1>5. CASE CmdEdit(d)
  <2>1. PICK vf \in AtHand(d) : file' = Set(file, d, Seal(vf, Vek(vf), Contents))
    BY <1>5 DEF CmdEdit, Write
  <2>2. UNCHANGED <<drawn, chosen>>
    BY <1>5 DEF CmdEdit
  <2>3. Fits(Seal(vf, Vek(vf), Contents), chosen', drawn')
    BY <1>0, <2>2, AtHandFits, SealedFits
  <2>4. DrawOK'
    BY <2>2 DEF IInv, DrawOK
  <2> QED
    BY <1>0, <1>5, <2>1, <2>2, <2>3, <2>4, WriteOK DEF CmdEdit
<1>6. CASE LoadVault(d)
  <2>1. UNCHANGED <<file, account, blob, request, command, drawn, chosen>>
    BY <1>6 DEF LoadVault
  <2>2. Fits(file[d], chosen, drawn)
    BY <1>6 DEF LoadVault, IInv, FilesOK, FitsOrMissing
  <2>3. loaded' \subseteq loaded \union {<<d, file[d]>>}
    BY <1>6 DEF LoadVault
  <2>4. LoadedOK'
    BY <2>1, <2>2, <2>3 DEF LoadedOK, IInv, Fits
  <2>5. DrawOK' /\ FilesOK' /\ RequestsOK' /\ AccountOK' /\ BlobOK'
    BY <2>1 DEF IInv, DrawOK, FilesOK, RequestsOK, AccountOK, BlobOK, Ours
  <2>6. CommandOK'
    BY <2>1, CommandKept DEF IInv
  <2> QED
    BY <2>4, <2>5, <2>6 DEF IInv
<1> QED
  BY <1>1, <1>2, <1>3, <1>4, <1>5, <1>6 DEF Local

\* An answered registration leaves the sync commands as they are.
LEMMA AnsweredOK ==
    ASSUME IInv, NEW d \in Device, Answered(d), UNCHANGED <<drawn, chosen>>,
           account # NoAccount => UNCHANGED account
    PROVE  RequestsOK' /\ CommandOK'
<1>1. RequestsOK'
  BY DEF IInv, RequestsOK, Answered, Set
<1>2. UNCHANGED <<pc, held, kdf, typed>>
  BY DEF Answered, command
<1>3. CommandTypes'
  BY <1>2 DEF IInv, CommandOK, CommandTypes
<1>4. ASSUME NEW e \in Device PROVE HeldOK(e)'
  <2>1. HeldOK(e) /\ (Ours(held[e]) => Ours(held[e])')
    BY <1>2 DEF IInv, CommandOK, Ours
  <2> QED
    BY <1>2, <2>1 DEF HeldOK
<1> QED
  BY <1>1, <1>3, <1>4 DEF CommandOK

\* Registering: what is sent is what the vault's passphrase gives.
LEMMA RegistrationStep ==
    ASSUME IInv, NEW d \in Device, Registration(d)
    PROVE  IInv'
<1>1. CASE Register(d)
  <2>1. PICK vf \in AtHand(d), pass \in Passphrase :
            /\ Unwraps(vf, pass)
            /\ request' = Set(request, d, [auth |-> AuthSecret(pass, vf.kdf),
                                           kdf |-> vf.kdf, step |-> "select"])
    BY <1>1 DEF Register, TypedRight
  <2>2. Fits(vf, chosen, drawn)
    BY AtHandFits
  <2>3. pass = chosen[vf.kdf]
    BY <2>1, <2>2, OnlyThatUnwraps
  <2> DEFINE sent == [auth |-> AuthSecret(pass, vf.kdf), kdf |-> vf.kdf, step |-> "select"]
  <2>4. vf.kdf \in Draw
    BY <2>2 DEF Fits, VaultFiles
  <2>5. sent \in Requests /\ Genuine(sent, chosen, drawn)
    BY <2>2, <2>3, <2>4 DEF Genuine, Requests, AuthSecret, Fits
  <2> HIDE DEF sent
  <2>6. request' = Set(request, d, sent) /\ UNCHANGED <<drawn, chosen>>
    BY <1>1, <2>1 DEF sent, Register
  <2>7. RequestsOK'
    BY <2>5, <2>6 DEF IInv, RequestsOK, Set
  <2>8. CommandOK'
    BY <1>1, CommandKept DEF Register, IInv
  <2>9. DrawOK' /\ FilesOK' /\ LoadedOK' /\ AccountOK' /\ BlobOK'
    BY <1>1 DEF Register, IInv, DrawOK, FilesOK, LoadedOK, AccountOK, BlobOK, Ours
  <2> QED
    BY <2>7, <2>8, <2>9 DEF IInv
<1>2. CASE RegisterDuplicate(d)
  <2>1. DrawOK' /\ FilesOK' /\ LoadedOK' /\ AccountOK' /\ BlobOK'
    BY <1>2 DEF RegisterDuplicate, IInv, DrawOK, FilesOK, LoadedOK, AccountOK, BlobOK, Ours
  <2>2. RequestsOK' /\ CommandOK'
    BY <1>2, AnsweredOK DEF RegisterDuplicate
  <2> QED
    BY <2>1, <2>2 DEF IInv
<1>3. CASE RegisterSelect(d)
  <2>1. DrawOK' /\ FilesOK' /\ LoadedOK' /\ AccountOK' /\ BlobOK'
    BY <1>3 DEF RegisterSelect, IInv, DrawOK, FilesOK, LoadedOK, AccountOK, BlobOK, Ours
  <2>2. CommandOK'
    BY <1>3, CommandKept DEF RegisterSelect, IInv
  <2>3. request[d] \in Requests /\ Genuine(request[d], chosen, drawn)
    BY <1>3 DEF RegisterSelect, IInv, RequestsOK, NoRequest
  <2> DEFINE next == [request[d] EXCEPT !.step = "insert"]
  <2>4. next \in Requests /\ Genuine(next, chosen, drawn)
    BY <2>3 DEF Requests, Genuine
  <2> HIDE DEF next
  <2>5. request' = Set(request, d, next) /\ UNCHANGED <<drawn, chosen>>
    BY <1>3 DEF RegisterSelect, next
  <2>6. RequestsOK'
    BY <2>4, <2>5 DEF IInv, RequestsOK, Set
  <2> QED
    BY <2>1, <2>2, <2>6 DEF IInv
<1>4. CASE RegisterInsert(d)
  <2>1. UNCHANGED <<file, loaded, blob, drawn, chosen>> /\ Answered(d)
    BY <1>4 DEF RegisterInsert
  <2>2. account # NoAccount => account' = account
    BY <1>4 DEF RegisterInsert
  <2>3. account = NoAccount => account' = [auth |-> request[d].auth, kdf |-> request[d].kdf]
    BY <1>4 DEF RegisterInsert
  <2>4. request[d] \in Requests /\ Genuine(request[d], chosen, drawn)
    BY <1>4 DEF RegisterInsert, IInv, RequestsOK, NoRequest
  <2> DEFINE made == [auth |-> request[d].auth, kdf |-> request[d].kdf]
  <2>5. made \in Accounts /\ Genuine(made, chosen, drawn)
    BY <2>4 DEF Accounts, Requests, Genuine
  <2> HIDE DEF made
  <2>6. AccountOK'
    BY <2>1, <2>2, <2>3, <2>5 DEF IInv, AccountOK, made
  <2>7. DrawOK' /\ FilesOK' /\ LoadedOK' /\ BlobOK'
    BY <2>1, <2>2 DEF IInv, DrawOK, FilesOK, LoadedOK, BlobOK, Ours
  <2>8. RequestsOK' /\ CommandOK'
    BY <2>1, <2>2, AnsweredOK
  <2> QED
    BY <2>6, <2>7, <2>8 DEF IInv
<1> QED
  BY <1>1, <1>2, <1>3, <1>4 DEF Registration

\* A command moves on while nothing else changes.
LEMMA MoveOK ==
    ASSUME IInv, NEW d \in Device, NEW step \in {"fetched", "in", "replace"}, pc' = Set(pc, d, step),
           NEW vf, FitsOrMissing(vf, chosen, drawn), held' = Set(held, d, vf),
           vf # NoFile => Ours(vf) /\ step \in {"in", "replace"}, step = "replace" => vf # NoFile,
           kdf' \in [Device -> Draw \union {Decoy}], typed' \in [Device -> Passphrase \union {NoPassphrase}],
           UNCHANGED <<file, loaded, account, blob, request, drawn, chosen>>
    PROVE  IInv'
<1>1. DrawOK' /\ FilesOK' /\ LoadedOK' /\ RequestsOK' /\ AccountOK' /\ BlobOK'
  BY DEF IInv, DrawOK, FilesOK, LoadedOK, RequestsOK, AccountOK, BlobOK, Ours
<1>2. vf \in VaultFiles \union {NoFile}
  BY DEF FitsOrMissing, Fits
<1>3. CommandTypes'
  BY <1>2 DEF IInv, CommandOK, CommandTypes, Set
<1>4. ASSUME NEW e \in Device PROVE HeldOK(e)'
  <2>1. CASE e = d
    <3>1. held'[d] = vf /\ pc'[d] = step
      BY DEF IInv, CommandOK, CommandTypes, Set
    <3> QED
      BY <2>1, <3>1 DEF HeldOK, Ours
  <2>2. CASE e # d
    <3>1. held'[e] = held[e] /\ pc'[e] = pc[e]
      BY <2>2 DEF IInv, CommandOK, CommandTypes, Set
    <3> QED
      BY <3>1 DEF IInv, CommandOK, HeldOK, Ours
  <2> QED
    BY <2>1, <2>2
<1> QED
  BY <1>1, <1>3, <1>4 DEF CommandOK, IInv

\* Logging in, and using it.
LEMMA SyncStep ==
    ASSUME IInv, NEW d \in Device, Sync(d)
    PROVE  IInv'
<1>0. kdf \in [Device -> Draw \union {Decoy}] /\ typed \in [Device -> Passphrase \union {NoPassphrase}]
      /\ held \in [Device -> VaultFiles \union {NoFile}] /\ HeldOK(d)
  BY DEF IInv, CommandOK, CommandTypes
<1>1. CASE Login(d)
  <2>1. PICK vf \in AtHand(d), pass \in Passphrase :
            LogsIn(pass, vf.kdf) /\ typed' = Set(typed, d, pass)
            /\ held' = Set(held, d, vf) /\ kdf' = Set(kdf, d, vf.kdf)
    BY <1>1 DEF Login
  <2>2. Fits(vf, chosen, drawn)
    BY AtHandFits
  <2>3. vf.kdf \in Draw
    BY <2>2 DEF Fits, VaultFiles
  <2>4. Ours(vf)
    BY <2>1 DEF LogsIn, Ours, IInv, AccountOK, Genuine, AuthSecret
  <2>5. kdf' \in [Device -> Draw \union {Decoy}] /\ typed' \in [Device -> Passphrase \union {NoPassphrase}]
    BY <1>0, <1>1, <2>1, <2>3 DEF Login, Set
  <2> QED
    BY <1>1, <2>1, <2>2, <2>4, <2>5, MoveOK DEF Login, FitsOrMissing
<1>2. CASE FetchKdfParams(d)
  <2>1. account # NoAccount => account.kdf \in Draw
    BY DEF IInv, AccountOK, Accounts
  <2>2. kdf' \in [Device -> Draw \union {Decoy}]
    BY <1>0, <1>2, <2>1 DEF FetchKdfParams, Set
  <2>3. held[d] = NoFile /\ held' = Set(held, d, NoFile)
    BY <1>0, <1>2 DEF FetchKdfParams, HeldOK, Set
  <2> QED
    BY <1>0, <1>2, <2>2, <2>3, MoveOK DEF FetchKdfParams, FitsOrMissing
<1>3. CASE LoginFetched(d)
  <2>1. typed' \in [Device -> Passphrase \union {NoPassphrase}]
    BY <1>0, <1>3 DEF LoginFetched, Set
  <2>2. held' = Set(held, d, NoFile)
    BY <1>0, <1>3 DEF LoginFetched, HeldOK, Set
  <2> QED
    BY <1>0, <1>3, <2>1, <2>2, MoveOK DEF LoginFetched, FitsOrMissing
<1>4. ASSUME Finish(d), UNCHANGED <<loaded, account, request, drawn, chosen>>
      PROVE  CommandOK' /\ DrawOK' /\ LoadedOK' /\ RequestsOK' /\ AccountOK'
  BY <1>4, FinishOK DEF IInv, DrawOK, LoadedOK, RequestsOK, AccountOK
<1>5. CASE Upload(d)
  <2>1. Fits(held[d], chosen, drawn) /\ Ours(held[d])
    BY <1>0, <1>5 DEF Upload, HeldOK, FitsOrMissing
  <2>2. BlobOK'
    BY <1>5, <2>1 DEF Upload, BlobOK, FitsOrMissing, Fits, Ours
  <2> QED
    BY <1>4, <1>5, <2>2 DEF Upload, IInv, FilesOK
<1>6. CASE DeleteBlob(d)
  <2>1. BlobOK'
    BY <1>6 DEF DeleteBlob, BlobOK, FitsOrMissing
  <2> QED
    BY <1>4, <1>6, <2>1 DEF DeleteBlob, IInv, FilesOK
<1>7. CASE Download(d)
  <2>1. FitsOrMissing(blob, chosen, drawn) /\ Ours(blob) /\ blob # NoFile
    BY <1>7 DEF Download, IInv, BlobOK
  <2> QED
    BY <1>0, <1>7, <2>1, MoveOK DEF Download
<1>8. CASE Replace(d)
  <2>1. Fits(held[d], chosen, drawn)
    BY <1>0, <1>8 DEF Replace, HeldOK, FitsOrMissing
  <2>2. FilesOK'
    BY <1>8, <2>1 DEF Replace, IInv, FilesOK, FitsOrMissing, Fits, Set
  <2> QED
    BY <1>4, <1>8, <2>2 DEF Replace, IInv, BlobOK, Ours
<1>9. CASE Abandon(d)
  BY <1>4, <1>9 DEF Abandon, IInv, FilesOK, BlobOK, Ours
<1> QED
  BY <1>1, <1>2, <1>3, <1>5, <1>6, <1>7, <1>8, <1>9 DEF Sync

\* Every step keeps the inductive invariant.
LEMMA InvStep == IInv /\ [Next]_vars => IInv'
<1> SUFFICES ASSUME IInv, [Next]_vars PROVE IInv'
  OBVIOUS
<1>1. CASE UNCHANGED vars
  BY <1>1 DEF vars, command, IInv, DrawOK, FilesOK, LoadedOK, RequestsOK, AccountOK, BlobOK, CommandOK,
     CommandTypes, HeldOK, Ours
<1>2. CASE Next
  BY <1>2, LocalStep, RegistrationStep, SyncStep DEF Next
<1> QED
  BY <1>1, <1>2

\* So it holds in every reachable state.
LEMMA Invariance == Spec => []IInv
  BY InvInit, InvStep, PTL DEF Spec

\* Every reachable state has its types (zkvault/cli.py, server/app/routers/auth.py).
THEOREM TypeCorrect == Spec => []TypeOK
  BY Invariance, TypesHold, PTL

\* Any number of devices: the server's copy opens with exactly the passphrase
\* that logs in (cmd_passwd draws a salt, cmd_sync registers only what unwraps).
THEOREM BlobOpens == Spec => []BlobBehindLogin
  BY Invariance, DoorsMatch, PTL

\* And so does every vault that carries the registered salt.
THEOREM LoginMatches == Spec => []LoginMatchesVault
  BY Invariance, DoorsMatch, PTL

\* A device can log in exactly when its vault carries the registered salt.
LEMMA CanLogInIffOurs ==
    ASSUME IInv, NEW d \in Device
    PROVE  CanLogIn(d) <=> file[d] # NoFile /\ Ours(file[d])
<1>1. CASE file[d] = NoFile
  BY <1>1 DEF CanLogIn
<1>2. CASE file[d] # NoFile
  <2>1. Fits(file[d], chosen, drawn)
    BY <1>2 DEF IInv, FilesOK, FitsOrMissing
  <2>2. CanLogIn(d) => Ours(file[d])
    BY DEF CanLogIn, LogsIn, Ours, IInv, AccountOK, Genuine, AuthSecret
  <2>3. Ours(file[d]) => CanLogIn(d)
    <3> SUFFICES ASSUME Ours(file[d]) PROVE CanLogIn(d)
      OBVIOUS
    <3>1. SameDoor(file[d])
      BY <2>1, OursSameDoor DEF IInv
    <3>2. chosen[file[d].kdf] \in Passphrase /\ Opens(file[d], chosen[file[d].kdf])
      BY <2>1 DEF Fits
    <3> QED
      BY <1>2, <3>1, <3>2 DEF SameDoor, CanLogIn
  <2> QED
    BY <1>2, <2>2, <2>3
<1> QED
  BY <1>1, <1>2

\* One step takes that away from a device only if it is a save of its own.
LEMMA StillOurs ==
    ASSUME IInv, [Next]_vars, NEW d \in Device, file[d] # NoFile, Ours(file[d]),
           ~CmdPasswd(d), ~CmdInit(d), ~PutsOldSaltBack(d)
    PROVE  file'[d] # NoFile /\ Ours(file[d])'
<1>1. account' = account
  <2>1. CASE UNCHANGED vars
    BY <2>1 DEF vars
  <2>2. CASE Next
    BY <2>2 DEF Next, Local, Registration, Sync, CmdInit, CopyVault, LoadVault, CmdPasswd,
       CmdRotateKey, CmdEdit, Register, RegisterDuplicate, RegisterSelect, RegisterInsert, Login,
       FetchKdfParams, LoginFetched, Upload, DeleteBlob, Download, Replace, Abandon, Ours
  <2> QED
    BY <2>1, <2>2
<1>2. file'[d] = file[d] \/ CmdRotateKey(d) \/ CmdEdit(d) \/ Replace(d)
  <2>1. CASE UNCHANGED vars
    BY <2>1 DEF vars
  <2>2. CASE Next
    BY <2>2 DEF Next, Local, Registration, Sync, CmdInit, CopyVault, LoadVault, CmdPasswd,
       CmdRotateKey, CmdEdit, Register, RegisterDuplicate, RegisterSelect, RegisterInsert, Login,
       FetchKdfParams, LoginFetched, Upload, DeleteBlob, Download, Replace, Abandon,
       Write, Set, IInv, FilesOK
  <2> QED
    BY <2>1, <2>2
<1>3. CASE file'[d] = file[d]
  BY <1>1, <1>3 DEF Ours
<1>4. CASE CmdRotateKey(d) \/ CmdEdit(d)
  <2>1. IInv'
    BY InvStep
  <2>2. file'[d].kdf = file[d].kdf
    BY <1>4 DEF PutsOldSaltBack
  <2>3. PICK vf \in AtHand(d), pass \in Passphrase :
            \/ Opens(vf, pass) /\ drawn + 1 \in Draw /\ file' = Set(file, d, RotateVek(vf, pass, drawn + 1))
            \/ file' = Set(file, d, Seal(vf, Vek(vf), Contents))
    BY <1>4, BoundsAssumption DEF CmdRotateKey, CmdEdit, Write, Draw, IInv, DrawOK
  <2>4. Fits(vf, chosen, drawn) /\ drawn \in Nat
    BY AtHandFits, BoundsAssumption DEF IInv, DrawOK
  <2>5. Fits(file'[d], chosen, drawn)
    <3>1. CASE file' = Set(file, d, Seal(vf, Vek(vf), Contents))
      BY <2>4, <3>1, SealedFits DEF IInv, FilesOK, Set
    <3>2. CASE Opens(vf, pass) /\ drawn + 1 \in Draw /\ file' = Set(file, d, RotateVek(vf, pass, drawn + 1))
      BY <2>4, <3>2, RotatedFits DEF IInv, FilesOK, Set
    <3> QED
      BY <2>3, <3>1, <3>2
  <2>6. file'[d] # NoFile
    BY <2>5, NoFileAssumption DEF Fits
  <2> QED
    BY <1>1, <2>2, <2>6 DEF Ours
<1>5. CASE Replace(d)
  <2>1. file'[d] = held[d] /\ held[d] # NoFile /\ Ours(held[d])
    BY <1>5 DEF Replace, IInv, FilesOK, CommandOK, HeldOK, Set
  <2> QED
    BY <1>1, <2>1 DEF Ours
<1> QED
  BY <1>2, <1>3, <1>4, <1>5

\* So the same holds of logging in.
LEMMA StillIn ==
    ASSUME IInv, [Next]_vars, NEW d \in Device, CanLogIn(d),
           ~CmdPasswd(d), ~CmdInit(d), ~PutsOldSaltBack(d)
    PROVE  CanLogIn(d)'
<1>1. file[d] # NoFile /\ Ours(file[d])
  BY CanLogInIffOurs
<1>2. file'[d] # NoFile /\ Ours(file[d])'
  BY <1>1, StillOurs
<1>3. IInv'
  BY InvStep
<1>4. Fits(file'[d], chosen', drawn')
  BY <1>2, <1>3 DEF IInv, FilesOK, FitsOrMissing
<1>5. chosen'[file'[d].kdf] \in Passphrase /\ Opens(file'[d], chosen'[file'[d].kdf])
  BY <1>4 DEF Fits
<1>6. account'.auth = AuthSecret(chosen'[file'[d].kdf], file'[d].kdf) /\ account' # NoAccount
  BY <1>2, <1>3 DEF IInv, AccountOK, Genuine, Ours
<1> QED
  BY <1>2, <1>5, <1>6 DEF CanLogIn, LogsIn

\* Any number of devices and processes: nothing but a save of its own that
\* changes the salt takes a device's login away (cmd_passwd, cmd_init, and the
\* saves of what was loaded before; register: a second account is refused).
THEOREM OnlyOwnSavesLockOut == Spec => LockedOutByOwnSaveOnly
<1>1. IInv /\ [Next]_vars =>
          \A d \in Device : CanLogIn(d) => CanLogIn(d)' \/ CmdPasswd(d) \/ CmdInit(d) \/ PutsOldSaltBack(d)
  BY StillIn
<1> QED
  BY <1>1, Invariance, PTL DEF Spec, LockedOutByOwnSaveOnly
=============================================================================
