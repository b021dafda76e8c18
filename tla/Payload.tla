------------------------------ MODULE Payload ------------------------------
(***************************************************************************)
(* What is inside a vault file and how it is sized (VaultContents in       *)
(* src/zkvault/model.py, padding and the reader's limits in                *)
(* src/zkvault/vault.py, the KDF cost in src/zkvault/crypto.py), under the *)
(* commands of src/zkvault/cli.py that change entries.                     *)
(*                                                                         *)
(* One vault, one command at a time: each opens the file, changes its      *)
(* contents and saves them.  Commands that overlap are in LocalVault.      *)
(***************************************************************************)
EXTENDS Integers, Sequences, FiniteSets

CONSTANTS Title,      \* titles, as <<word, spelling>>: case makes no other word
          NoTitle,    \* the empty title
          Notes,      \* what else an entry holds
          Bytes,      \* per note: the bytes of an entry that holds it
          EmptyBytes, FieldBytes,      \* the rest of the document, a field
          MinPadded, MaxPayload, MaxFile,
          Lengths,    \* bound: lengths padding is checked on by themselves
          MinOps, MinMem, MaxMem,
          Costs,      \* Argon2id costs asked for with init's flags
          TuneCeiling, TuneOps,  \* tuning goes up to these
          Files,      \* import files from elsewhere, as sequences of rows
          ForeignIds, \* the ids in them, drawn by other vaults
          NoId, NoVault, NoExport,
          MaxIds, MaxEntries           \* bounds

VARIABLES doc,        \* the document the vault file holds, or NoVault
          box,        \* its length and its padded length
          kdf,        \* the cost in the vault's header
          export,     \* the entries last exported, or NoExport
          ids,        \* ids drawn so far
          duplicated  \* history: an import brought an id a second time

vars == <<doc, box, kdf, export, ids, duplicated>>

Prefix == 4  \* LENGTH_PREFIX_BYTES
Tag == 16    \* TAG_BYTES

Words == Title \union {NoTitle}
Ids == 1 .. MaxIds \union ForeignIds
Entries == [id : Ids, title : Words, notes : Notes, extra : BOOLEAN]
Rows == [id : Ids \union {NoId}, title : Words, notes : Notes]
Docs == [entries : Seq(Entries), unknown : BOOLEAN]

ASSUME BytesAssumption == Bytes \in [Notes -> Nat] /\ EmptyBytes \in Nat /\ FieldBytes \in Nat
ASSUME SizesAssumption ==
    MinPadded \in Nat /\ MaxPayload \in Nat /\ MaxFile \in Nat /\ Lengths \subseteq Nat
ASSUME CostsAssumption ==
    /\ MinOps \in Nat /\ MinMem \in Nat /\ MaxMem \in Nat /\ TuneCeiling \in Nat /\ TuneOps \in Nat
    /\ Costs \subseteq [ops : Nat, mem : Nat]
\* An id from elsewhere is none that is drawn here.
ASSUME IdsAssumption ==
    MaxIds \in Nat /\ MaxEntries \in Nat /\ ForeignIds \intersect Nat = {} /\ NoId \notin Ids
\* Bound: at most one row of a file needs an id.
ASSUME FilesAssumption ==
    \A file \in Files :
        /\ file \in Seq([id : ForeignIds \union {NoId}, title : Words, notes : Notes])
        /\ \A i, j \in DOMAIN file : file[i].id = NoId /\ file[j].id = NoId => i = j
ASSUME NoneAssumption == NoVault \notin Docs /\ NoExport \notin Seq(Rows)

(***************************************************************************)
(* Padding.                                                                *)
(***************************************************************************)
\* 1 << k
TwoTo[k \in Nat] == IF k = 0 THEN 1 ELSE 2 * TwoTo[k - 1]

\* int.bit_length
bitLength[n \in Nat] == IF n = 0 THEN 0 ELSE 1 + bitLength[n \div 2]

\* Mutant: the next power of two.
PadmeDoubling(length) == IF length <= MinPadded THEN MinPadded ELSE TwoTo[bitLength[length - 1]]

\* The last bits of the length are rounded up: all but as many leading ones as
\* it takes to write the exponent, and the first.
Padme(length) ==
    LET e == bitLength[length] - 1
        bucket == TwoTo[e - bitLength[e]]
    IN  IF length <= MinPadded THEN MinPadded
        ELSE ((length + bucket - 1) \div bucket) * bucket

\* Mutant: the length prefix is not counted.
PaddedNoPrefix(n) == [length |-> n, padded |-> Padme(n)]

Padded(n) == [length |-> n, padded |-> Padme(n + Prefix)]

(***************************************************************************)
(* The reader's limits: VaultFile.from_bytes, KdfParams.validate and       *)
(* unpad_payload.                                                          *)
(***************************************************************************)
\* Base64 of the ciphertext, and the header.
FileBytes(padded) == 4 * ((padded + Tag + 2) \div 3) + MinPadded

\* The limits fit each other: MAX_PAYLOAD_BYTES is a padded length, and the file
\* of a payload of that length is no longer than MAX_FILE_BYTES.
ASSUME LimitsAssumption == Padme(MaxPayload) = MaxPayload /\ FileBytes(MaxPayload) <= MaxFile

Validate(cost) == cost.ops >= MinOps /\ cost.mem >= MinMem /\ cost.mem <= MaxMem

Unpads(b) == b.length <= b.padded - Prefix /\ b.length <= MaxPayload

FitsFile(b) == FileBytes(b.padded) <= MaxFile

FitsPayload(b) == b.padded + Tag <= MaxPayload + Tag

Reads(b, cost) == FitsFile(b) /\ Validate(cost) /\ FitsPayload(b) /\ Unpads(b)

\* What a measurement finds is left open: any memory on the way up, then any
\* number of iterations.
TuneKdf ==
    LET doublings == {k \in 0 .. 12 : MinMem <= TuneCeiling \div TwoTo[k]}
    IN  {[ops |-> o, mem |-> MinMem * TwoTo[k]] : o \in MinOps .. TuneOps, k \in doublings \union {0}}

(***************************************************************************)
(* VaultContents.                                                          *)
(***************************************************************************)
EntryOf(id, title, notes) == [id |-> id, title |-> title, notes |-> notes, extra |-> FALSE]

\* from_dict: what an entry holds beyond the known fields is dropped, what the
\* document holds beyond them is kept.
FromDict(d) == [d EXCEPT !.entries = [i \in DOMAIN @ |-> [@[i] EXCEPT !.extra = FALSE]]]

\* Mutant: only the known fields are written back.
ToDictKnown(contents) == [contents EXCEPT !.unknown = FALSE]

ToDict(contents) == contents

EntryBytes(e) == Bytes[e.notes] + (IF e.extra THEN FieldBytes ELSE 0)

\* canonical: the bytes of the document.
DocBytes(d) ==
    LET bytes[i \in 0 .. Len(d.entries)] ==
            IF i = 0 THEN EmptyBytes + (IF d.unknown THEN FieldBytes ELSE 0)
                     ELSE bytes[i - 1] + EntryBytes(d.entries[i])
    IN  bytes[Len(d.entries)]

\* Lower-casing a title.
Lower(title) == IF title = NoTitle THEN NoTitle ELSE title[1]

\* get: the first entry of that id, else the only one of that title.
GetById(entries, id) ==
    {i \in DOMAIN entries : entries[i].id = id /\ \A j \in 1 .. i - 1 : entries[j].id # id}

GetByTitle(entries, title) ==
    LET matches == {i \in DOMAIN entries : Lower(entries[i].title) = Lower(title)}
    IN  IF Cardinality(matches) = 1 THEN matches ELSE {}

\* The entries some name gets.
Named(entries) ==
    UNION ({GetById(entries, id) : id \in Ids}
           \union {GetByTitle(entries, title) : title \in Words})

\* Mutant: only the first entry of the id goes.
RemoveFirst(entries, id) ==
    LET i == CHOOSE i \in GetById(entries, id) : TRUE
    IN  SubSeq(entries, 1, i - 1) \o SubSeq(entries, i + 1, Len(entries))

\* A list comprehension: the elements at these positions, in order.
Chosen(s, keep) ==
    LET chosen[i \in 0 .. Len(s)] ==
            IF i = 0 THEN <<>>
            ELSE IF i \in keep THEN Append(chosen[i - 1], s[i]) ELSE chosen[i - 1]
    IN  chosen[Len(s)]

Remove(entries, id) == Chosen(entries, {i \in DOMAIN entries : entries[i].id # id})

(***************************************************************************)
(* Commands.                                                               *)
(***************************************************************************)
Init ==
    /\ doc = NoVault
    /\ box = Padded(0)
    /\ kdf = [ops |-> MinOps, mem |-> MinMem]
    /\ export = NoExport
    /\ ids = 0
    /\ duplicated = FALSE

\* Sealing pads and encrypts; it does not look at the limits.
Seal(contents) == doc' = ToDict(contents) /\ box' = Padded(DocBytes(ToDict(contents)))

Unlocked == doc # NoVault /\ Reads(box, kdf)

Save(entries) == Len(entries) <= MaxEntries /\ Seal([FromDict(doc) EXCEPT !.entries = entries])

Opened == FromDict(doc).entries

\* Mutant: the cost is not validated before it is used.
UsableAny(cost) == TRUE

\* create validates the cost before deriving with it.
Usable(cost) == Validate(cost)

CmdInit ==
    /\ doc = NoVault
    /\ \E cost \in Costs \union TuneKdf : Usable(cost) /\ kdf' = cost
    /\ Seal([entries |-> <<>>, unknown |-> FALSE])
    /\ UNCHANGED <<export, ids, duplicated>>

\* Mutant: the default of the id field is drawn once, for the class.
NewIdOnce == 1

NewId == ids + 1

CmdAdd ==
    /\ Unlocked /\ ids < MaxIds
    /\ \E title \in Title, notes \in Notes : Save(Append(Opened, EntryOf(NewId, title, notes)))
    /\ ids' = ids + 1
    /\ UNCHANGED <<kdf, export, duplicated>>

\* A title may be set to the empty one.
CmdEdit ==
    /\ Unlocked
    /\ \E i \in Named(Opened), title \in Words, notes \in Notes :
           Save([Opened EXCEPT ![i].title = title, ![i].notes = notes])
    /\ UNCHANGED <<kdf, export, ids, duplicated>>

CmdRm ==
    /\ Unlocked
    /\ \E i \in Named(Opened) : Save(Remove(Opened, Opened[i].id))
    /\ UNCHANGED <<kdf, export, ids, duplicated>>

\* Both save what they have read (rotate_vek; a session that quits).
Resave ==
    /\ Unlocked
    /\ Save(Opened)
    /\ UNCHANGED <<kdf, export, ids, duplicated>>

CmdExport ==
    /\ Unlocked
    /\ export' = [i \in DOMAIN Opened |-> [id |-> Opened[i].id, title |-> Opened[i].title,
                                           notes |-> Opened[i].notes]]
    /\ UNCHANGED <<doc, box, kdf, ids, duplicated>>

Titled(rows) == Chosen(rows, {i \in DOMAIN rows : rows[i].title # NoTitle})

\* Mutant: a row without an id stays without.
ImportedAsIs(rows) ==
    [i \in DOMAIN rows |-> EntryOf(rows[i].id, rows[i].title, rows[i].notes)]

\* Rows without an id are given one.
Imported(rows) ==
    [i \in DOMAIN rows |-> EntryOf(IF rows[i].id = NoId THEN NewId ELSE rows[i].id,
                                   rows[i].title, rows[i].notes)]

IdsOf(entries) == {entries[i].id : i \in DOMAIN entries}

Distinct(entries) == \A i, j \in DOMAIN entries : entries[i].id = entries[j].id => i = j

CmdImport ==
    /\ Unlocked
    /\ \E file \in Files \union ({export} \ {NoExport}) :
           LET all == Opened \o Imported(Titled(file)) IN
           /\ NoId \in IdsOf(Titled(file)) => ids < MaxIds
           /\ Save(all)
           /\ ids' = IF NoId \in IdsOf(Titled(file)) THEN ids + 1 ELSE ids
           /\ duplicated' = (duplicated \/ ~Distinct(all))
    /\ UNCHANGED <<kdf, export>>

\* A later version of the program adds a field to the document or to an entry.
NewerClient ==
    /\ Unlocked
    /\ \/ doc' = [doc EXCEPT !.unknown = TRUE]
       \/ \E i \in DOMAIN doc.entries : doc' = [doc EXCEPT !.entries[i].extra = TRUE]
    /\ box' = Padded(DocBytes(doc'))
    /\ UNCHANGED <<kdf, export, ids, duplicated>>

Next == \/ CmdInit \/ CmdAdd \/ CmdEdit \/ CmdRm \/ Resave
        \/ CmdExport \/ CmdImport \/ NewerClient

Spec == Init /\ [][Next]_vars

(***************************************************************************)
(* Properties.                                                             *)
(***************************************************************************)
\* Types.
TypeOK ==
    /\ doc \in Docs \union {NoVault}
    /\ box \in [length : Nat, padded : Nat]
    /\ kdf \in [ops : Nat, mem : Nat]
    /\ export \in Seq(Rows) \union {NoExport}
    /\ ids \in 0 .. MaxIds
    /\ duplicated \in BOOLEAN

\* A vault that was saved opens again, with exactly the document that was saved,
\* unless its contents and their prefix exceed MAX_PAYLOAD_BYTES: the padding
\* never pushes a vault over the reader's limits, nor does the cost `init`
\* chose, by its flags or by tuning.  (Nothing stops an import or an edit from
\* exceeding them; the vault is saved and no command opens it again.)
ReadsBack ==
    doc # NoVault =>
        /\ Reads(box, kdf) <=> DocBytes(doc) + Prefix <= MaxPayload
        /\ box.length = DocBytes(doc)

PadmeSound ==
    \A n \in Lengths :
        /\ Padme(n) >= n /\ Padme(n + 1) >= Padme(n)
        /\ Padme(Padme(n)) = Padme(n)
        /\ n > MinPadded => 100 * (Padme(n) - n) <= 12 * n

\* Padding reaches the length and costs at most 12 % beyond the floor (padme,
\* src/zkvault/vault.py:111); more contents never make a smaller file, and a
\* padded length pads to itself.
PaddingBounded ==
    /\ PadmeSound
    /\ box.length + Prefix <= box.padded
    /\ box.padded > MinPadded =>
           100 * (box.padded - box.length - Prefix) <= 12 * (box.length + Prefix)

Known(e) == <<e.id, e.title, e.notes>>

\* The entries a step leaves nowhere as they were.
Disturbed ==
    {i \in DOMAIN doc.entries :
        doc' = NoVault \/ \A j \in DOMAIN doc'.entries : Known(doc'.entries[j]) # Known(doc.entries[i])}

\* A command changes or removes one entry and leaves every other as it was, as
\* long as no import has brought an id the vault has already (cmd_import keeps
\* the ids it reads, and rm takes every entry of the id).
OneEntryAtATime ==
    [][doc # NoVault /\ ~duplicated => Cardinality(Disturbed) <= 1]_vars

Copies(d, id) == IF d = NoVault THEN {} ELSE {i \in DOMAIN d.entries : d.entries[i].id = id}

\* What is removed is gone: no copy of it under the same id, brought by an
\* import of an older export, stays behind or comes to light later.
RemovedIsGone ==
    [][\A id \in Ids :
           Cardinality(Copies(doc', id)) < Cardinality(Copies(doc, id)) => Copies(doc', id) = {}]_vars

\* An older client that edits a vault keeps the document's fields that it does
\* not know (VaultContents._unknown).  The fields of an entry it does not keep.
UnknownKept == [][doc # NoVault /\ doc.unknown => doc'.unknown]_vars
=============================================================================
