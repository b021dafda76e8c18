------------------------- MODULE DeviceSync_proofs -------------------------
(***************************************************************************)
(* DeviceSync for any set of devices, any edits and any bounds: its type   *)
(* invariant, what the remembered server version means, that a device does *)
(* not lock itself out, and that a push keeps the edits it replaces.       *)
(***************************************************************************)
EXTENDS DeviceSync, TLAPS

Transferring == {"meta", "upload", "uploaded", "download", "replace", "pulled", "version"}

\* A running transfer holds a vault.
HeldOK == \A d \in Device : pc[d] \in Transferring => held[d] \in Vaults

Typed == TypeOK /\ HeldOK

\* What the steps of a transfer rely on from one to the next.
TransferOK(d) ==
    /\ seen[d].server_version <= server.version
    /\ pc[d] \in {"meta", "upload", "uploaded", "download"} => held[d] = file[d]
    /\ pc[d] = "meta" => mode[d] \in {"force", "sync"}
    /\ pc[d] = "upload" /\ mode[d] # "force" => base[d] <= seen[d].server_version
    /\ pc[d] \in {"uploaded", "replace", "pulled", "version"} =>
           /\ reply[d] <= server.version
           /\ reply[d] = server.version => held[d] = server.vault
    /\ pc[d] = "replace" =>
           /\ seen[d].server_version <= reply[d]
           /\ ~RolledBack(seen[d], held[d])
    /\ pc[d] \in {"pulled", "version"} => file[d] = held[d]

\* KnownVersionIsContained and NeverLockedOut, for one device.
ContainedOK(d) ==
    /\ stale[d] # "unrecorded"
    /\ server # NoBlob
    /\ seen[d].server_version = server.version
    => server.vault.edits \subseteq file[d].edits

MarksOK(d) == stale[d] = "no" => ~RolledBack(seen[d], file[d])

\* An upload whose sender has died and that may still be accepted contains what
\* it would replace.
LateOK(u) ==
    /\ u.base = server.version
    /\ server # NoBlob /\ ~u.exempt => server.vault.edits \subseteq u.vault.edits

\* The inductive invariant: the two properties need what a transfer in progress
\* carries, that no device knows a version the server has not reached, and what
\* uploads carry that outlive their sender.
IInv == /\ Typed
        /\ \A d \in Device : TransferOK(d) /\ ContainedOK(d) /\ MarksOK(d)
        /\ \A u \in late : LateOK(u)

(***************************************************************************)
(* Types.                                                                  *)
(***************************************************************************)
\* One more edit makes a vault of a vault.
LEMMA EditedType ==
    ASSUME NEW v \in Vaults, NEW e \in Edit
    PROVE  Edited(v, e) \in Vaults
  BY DEF Edited, Vaults

\* So does a new passphrase.
LEMMA RewrappedType ==
    ASSUME NEW v \in Vaults, NEW e \in Edit
    PROVE  Rewrapped(v, e) \in Vaults
  BY DEF Rewrapped, Vaults

\* record() makes marks of marks, whatever vault it is given.
LEMMA RecordType ==
    ASSUME NEW m \in [vault_version : Nat, payload_seq : Nat, server_version : 0 .. MaxPushes],
           NEW v \in Vaults
    PROVE  Record(m, v) \in [vault_version : Nat, payload_seq : Nat, server_version : 0 .. MaxPushes]
  BY BoundsAssumption DEF Record, Larger, Vaults

\* Recording a vault keeps the marks and the history flag well typed.
LEMMA RecordMarksType ==
    ASSUME Typed, NEW d \in Device, NEW v \in Vaults, RecordMarks(d, v)
    PROVE  /\ seen' \in [Device -> [vault_version : Nat, payload_seq : Nat,
                                    server_version : 0 .. MaxPushes]]
           /\ stale' \in [Device -> {"no", "recorded", "unrecorded"}]
  BY RecordType DEF Typed, TypeOK, RecordMarks, Set

\* So does a session's save, which writes a vault.
LEMMA SaveFromMemoryType ==
    ASSUME Typed, NEW d \in Device, session[d] # NoVault, SaveFromMemory(d)
    PROVE  /\ file' \in [Device -> Vaults]
           /\ made' \subseteq Edit
           /\ stale' \in [Device -> {"no", "recorded", "unrecorded"}]
  BY EditedType DEF Typed, TypeOK, SaveFromMemory, NewEdit, Set

\* The types hold initially and are kept by every step.
LEMMA TypedInit == Init => Typed
  BY BoundsAssumption
  DEF Init, Typed, TypeOK, HeldOK, Transferring, Steps, FirstVault, Vaults, Record, Larger, NothingSeen

\* Every step keeps the types.
LEMMA TypedStep == Typed /\ [Next]_vars => Typed'
<1> SUFFICES ASSUME Typed, [Next]_vars PROVE Typed'
  OBVIOUS
<1> USE BoundsAssumption DEF Typed, TypeOK, HeldOK, Transferring, Steps, Set, Goto, local, AtShell, InSession
<1>1. CASE UNCHANGED vars
  BY <1>1 DEF vars
<1>2. ASSUME NEW d \in Device, OpenVault(d) PROVE Typed'
  <2>1. file[d] \in Vaults
    OBVIOUS
  <2> QED
    BY <1>2, <2>1, RecordMarksType DEF OpenVault
<1>3. ASSUME NEW d \in Device, EditVault(d) PROVE Typed'
  <2>1. file[d] \in Vaults
    OBVIOUS
  <2>2. seen' \in [Device -> [vault_version : Nat, payload_seq : Nat, server_version : 0 .. MaxPushes]]
        /\ stale' \in [Device -> {"no", "recorded", "unrecorded"}]
    BY <1>3, <2>1, RecordMarksType DEF EditVault
  <2>3. file' \in [Device -> Vaults] /\ made' \subseteq Edit
    BY <1>3, <2>1, EditedType DEF EditVault, NewEdit
  <2> QED
    BY <1>3, <2>2, <2>3 DEF EditVault
<1>19. ASSUME NEW d \in Device, RekeyVault(d) PROVE Typed'
  <2>1. file[d] \in Vaults
    OBVIOUS
  <2>2. file' \in [Device -> Vaults] /\ made' \subseteq Edit
    BY <1>19, <2>1, EditedType, RewrappedType DEF RekeyVault, NewEdit
  <2> QED
    BY <1>19, <2>2 DEF RekeyVault
<1>4. ASSUME NEW d \in Device, SaveSession(d) PROVE Typed'
  <2>1. file' \in [Device -> Vaults] /\ made' \subseteq Edit
        /\ stale' \in [Device -> {"no", "recorded", "unrecorded"}]
    BY <1>4, SaveFromMemoryType DEF SaveSession
  <2> QED
    BY <1>4, <2>1 DEF SaveSession
<1>5. ASSUME NEW d \in Device, RecordSave(d) PROVE Typed'
  <2>1. file[d] \in Vaults
    OBVIOUS
  <2> QED
    BY <1>5, <2>1, RecordMarksType DEF RecordSave
<1>6. ASSUME NEW d \in Device, QuitSession(d) PROVE Typed'
  <2>1. file' \in [Device -> Vaults] /\ made' \subseteq Edit
        /\ stale' \in [Device -> {"no", "recorded", "unrecorded"}]
    BY <1>6, SaveFromMemoryType DEF QuitSession
  <2> QED
    BY <1>6, <2>1 DEF QuitSession
<1>7. ASSUME NEW d \in Device, StartPush(d) PROVE Typed'
  BY <1>7 DEF StartPush, Start
<1>8. ASSUME NEW d \in Device, StartMeta(d) PROVE Typed'
  <2>1. PICK m \in {"force", "sync"} : Start(d, m, "meta")
    BY <1>8 DEF StartMeta
  <2> QED
    BY <1>8, <2>1 DEF StartMeta, Start
<1>9. ASSUME NEW d \in Device, Meta(d) PROVE Typed'
  BY <1>9 DEF Meta, NoBlob
<1>10. ASSUME NEW d \in Device, UploadAccepted(d) PROVE Typed'
  BY <1>10 DEF UploadAccepted, Accept, NoBlob
<1>11. ASSUME NEW d \in Device, UploadRefused(d) PROVE Typed'
  BY <1>11 DEF UploadRefused, Finish
<1>12. ASSUME NEW d \in Device, Uploaded(d) PROVE Typed'
  BY <1>12 DEF Uploaded, Finish
<1>13. ASSUME NEW d \in Device, StartPull(d) PROVE Typed'
  BY <1>13 DEF StartPull, Start
<1>14. ASSUME NEW d \in Device, Download(d) PROVE Typed'
  <2>1. UNCHANGED <<file, seen, server, made, stale, late, faults>>
    BY <1>14 DEF Download
  <2>2. CASE /\ Acceptable(d)
             /\ held' = Set(held, d, server.vault) /\ reply' = Set(reply, d, server.version)
             /\ Goto(d, "replace") /\ UNCHANGED <<base, mode, session>>
    <3>1. server.vault \in Vaults /\ server.version \in 0 .. MaxPushes
      BY <2>2 DEF Acceptable
    <3> QED
      BY <2>1, <2>2, <3>1
  <2>3. CASE Finish(d) /\ session' \in {session, Set(session, d, NoVault)}
    BY <2>1, <2>3 DEF Finish
  <2> QED
    BY <1>14, <2>2, <2>3 DEF Download
<1>15. ASSUME NEW d \in Device, PullReplace(d) PROVE Typed'
  BY <1>15 DEF PullReplace
<1>16. ASSUME NEW d \in Device, PullRecord(d) PROVE Typed'
  <2>1. held[d] \in Vaults
    BY <1>16 DEF PullRecord
  <2> QED
    BY <1>16, <2>1, RecordMarksType DEF PullRecord
<1>17. ASSUME NEW d \in Device, PullVersion(d) PROVE Typed'
  BY <1>17 DEF PullVersion, Finish
<1>18. ASSUME NEW d \in Device, Die(d) PROVE Typed'
  <2>1. late' \subseteq [base : 0 .. MaxPushes, vault : Vaults, exempt : BOOLEAN]
    <3>1. pc[d] = "upload" => UploadOf(d) \in [base : 0 .. MaxPushes, vault : Vaults, exempt : BOOLEAN]
      BY DEF UploadOf, Exempt
    <3> QED
      BY <1>18, <3>1 DEF Die
  <2> QED
    BY <1>18, <2>1 DEF Die, Finish
<1>20. ASSUME NEW u \in late, UploadLate(u) PROVE Typed'
  BY <1>20 DEF UploadLate, Accept, NoBlob
<1> QED
  BY <1>1, <1>2, <1>3, <1>4, <1>5, <1>6, <1>7, <1>8, <1>9, <1>10, <1>11, <1>12, <1>13,
     <1>14, <1>15, <1>16, <1>17, <1>18, <1>19, <1>20
  DEF Next, Local, Push, Pull

\* Every reachable state has its types: no command ever keeps a missing vault
\* as if it were one (src/zkvault/cli.py, _pull_into and _sync_push_pull).
THEOREM TypeCorrect == Spec => []TypeOK
<1>1. Spec => []Typed
  BY TypedInit, TypedStep, PTL DEF Spec
<1>2. Typed => TypeOK
  BY DEF Typed
<1> QED
  BY <1>1, <1>2, PTL


(***************************************************************************)
(* Facts the invariance proof uses.                                        *)
(***************************************************************************)
MarksSet == [vault_version : Nat, payload_seq : Nat, server_version : 0 .. MaxPushes]

\* record() forgets the server version, and never turns a vault that passes the
\* rollback check into one that does not.
LEMMA RecordFacts ==
    ASSUME NEW m \in MarksSet, NEW v \in Vaults
    PROVE  /\ Record(m, v).server_version = 0
           /\ ~RolledBack(m, v) => ~RolledBack(Record(m, v), v)
  BY DEF Record, RolledBack, Larger, Vaults, MarksSet

\* An edit only adds to a vault, and moves it forward.
LEMMA EditedFacts ==
    ASSUME NEW m \in MarksSet, NEW v \in Vaults, NEW e \in Edit
    PROVE  /\ v.edits \subseteq Edited(v, e).edits
           /\ ~RolledBack(m, v) => ~RolledBack(m, Edited(v, e))
  BY DEF Edited, RolledBack, Vaults, MarksSet

\* So does a new passphrase, which moves one counter only.
LEMMA RewrappedFacts ==
    ASSUME NEW m \in MarksSet, NEW v \in Vaults, NEW e \in Edit
    PROVE  /\ v.edits \subseteq Rewrapped(v, e).edits
           /\ ~RolledBack(m, v) => ~RolledBack(m, Rewrapped(v, e))
  BY DEF Rewrapped, RolledBack, Vaults, MarksSet

\* A blob on the server has a version of at least 1.
LEMMA ServerFacts ==
    ASSUME Typed
    PROVE  /\ server.version \in Nat
           /\ server # NoBlob => server.version >= 1 /\ server.vault \in Vaults
  BY BoundsAssumption DEF Typed, TypeOK, NoBlob

\* A device that takes no step keeps its part of the invariant when the server
\* stays as it is or moves to its next version.
LEMMA OtherDevice ==
    ASSUME IInv, NEW o \in Device,
           UNCHANGED <<file[o], seen[o], pc[o], held[o], base[o], mode[o], reply[o], stale[o]>>,
           \/ UNCHANGED server
           \/ server'.version = server.version + 1
    PROVE  (TransferOK(o) /\ ContainedOK(o) /\ MarksOK(o))'
<1> USE DEF IInv
<1>1. /\ TransferOK(o) /\ ContainedOK(o) /\ MarksOK(o)
      /\ server.version \in Nat
      /\ seen[o].server_version \in Nat
      /\ reply[o] \in Nat /\ base[o] \in Nat
  BY ServerFacts, BoundsAssumption DEF Typed, TypeOK
<1>2. TransferOK(o)'
  BY <1>1 DEF TransferOK, RolledBack
<1>3. ContainedOK(o)'
  BY <1>1 DEF TransferOK, ContainedOK
<1>4. MarksOK(o)'
  BY <1>1 DEF MarksOK, RolledBack
<1> QED
  BY <1>2, <1>3, <1>4

\* A step of one device leaves the others as they are, and the server's
\* version where it is or one further.
LEMMA OneDeviceSteps ==
    ASSUME IInv, NEW d \in Device, Local(d) \/ Push(d) \/ Pull(d) \/ Die(d)
    PROVE  /\ \A o \in Device \ {d} :
                  UNCHANGED <<file[o], seen[o], pc[o], held[o], base[o], mode[o], reply[o], stale[o]>>
           /\ UNCHANGED server \/ server'.version = server.version + 1
<1> USE DEF IInv, Typed, TypeOK, Set, Goto, Finish, local
<1>1. CASE Local(d)
  <2>1. CASE OpenVault(d)
    BY <2>1 DEF OpenVault, RecordMarks
  <2>2. CASE EditVault(d)
    BY <2>2 DEF EditVault, RecordMarks
  <2>3. CASE SaveSession(d)
    BY <2>3 DEF SaveSession, SaveFromMemory
  <2>4. CASE RecordSave(d)
    BY <2>4 DEF RecordSave, RecordMarks
  <2>5. CASE QuitSession(d)
    BY <2>5 DEF QuitSession, SaveFromMemory
  <2>6. CASE RekeyVault(d)
    BY <2>6 DEF RekeyVault
  <2> QED
    BY <1>1, <2>1, <2>2, <2>3, <2>4, <2>5, <2>6 DEF Local
<1>2. CASE Push(d)
  <2>1. CASE StartPush(d)
    BY <2>1 DEF StartPush, Start
  <2>2. CASE StartMeta(d)
    <3>1. PICK m \in {"force", "sync"} : Start(d, m, "meta")
      BY <2>2 DEF StartMeta
    <3> QED
      BY <2>2, <3>1 DEF StartMeta, Start
  <2>3. CASE Meta(d)
    BY <2>3 DEF Meta
  <2>4. CASE UploadAccepted(d)
    BY <2>4 DEF UploadAccepted, Accept
  <2>5. CASE UploadRefused(d)
    BY <2>5 DEF UploadRefused
  <2>6. CASE Uploaded(d)
    BY <2>6 DEF Uploaded
  <2> QED
    BY <1>2, <2>1, <2>2, <2>3, <2>4, <2>5, <2>6 DEF Push
<1>3. CASE Pull(d)
  <2>1. CASE StartPull(d)
    BY <2>1 DEF StartPull, Start
  <2>2. CASE Download(d)
    BY <2>2 DEF Download
  <2>3. CASE PullReplace(d)
    BY <2>3 DEF PullReplace
  <2>4. CASE PullRecord(d)
    BY <2>4 DEF PullRecord, RecordMarks
  <2>5. CASE PullVersion(d)
    BY <2>5 DEF PullVersion
  <2> QED
    BY <1>3, <2>1, <2>2, <2>3, <2>4, <2>5 DEF Pull
<1>4. CASE Die(d)
  BY <1>4 DEF Die
<1> QED
  BY <1>1, <1>2, <1>3, <1>4

\* Recording a vault the marks accept: the server version is forgotten, so
\* nothing is claimed about the server's edits.
LEMMA RecordedDevice ==
    ASSUME IInv, NEW d \in Device, RecordMarks(d, file[d]), UNCHANGED <<file, server>>
    PROVE  /\ seen'[d].server_version <= server'.version
           /\ (ContainedOK(d) /\ MarksOK(d))'
<1>1. /\ seen[d] \in MarksSet /\ file[d] \in Vaults
      /\ seen'[d] = Record(seen[d], file[d])
      /\ stale'[d] = "no" => stale[d] = "no"
  BY DEF IInv, Typed, TypeOK, RecordMarks, Set, MarksSet
<1>2. seen'[d].server_version = 0
  BY <1>1, RecordFacts
<1>3. ContainedOK(d)'
  BY <1>2, ServerFacts DEF ContainedOK, IInv
<1>4. MarksOK(d)'
  BY <1>1, RecordFacts DEF MarksOK, IInv
<1> QED
  BY <1>2, <1>3, <1>4, ServerFacts DEF IInv

\* A session's save: either it builds on the file it replaces, or the history
\* flag says that it does not.
LEMMA SavedDevice ==
    ASSUME IInv, NEW d \in Device, session[d] # NoVault, SaveFromMemory(d),
           UNCHANGED <<seen, server>>
    PROVE  (ContainedOK(d) /\ MarksOK(d))'
<1>1. PICK e \in Edit : file' = Set(file, d, Edited(session[d], e))
  BY DEF SaveFromMemory
<1>2. seen[d] \in MarksSet /\ session[d] \in Vaults /\ file'[d] = Edited(session[d], e)
  BY <1>1 DEF IInv, Typed, TypeOK, Set, MarksSet
<1>3. CASE session[d] = file[d]
  <2>1. stale' = stale
    BY <1>3 DEF SaveFromMemory
  <2>2. /\ file[d].edits \subseteq file'[d].edits
        /\ ~RolledBack(seen[d], file[d]) => ~RolledBack(seen[d], file'[d])
    BY <1>2, <1>3, EditedFacts
  <2>3. ContainedOK(d)'
    BY <2>1, <2>2 DEF ContainedOK, IInv, NoBlob
  <2>4. MarksOK(d)'
    BY <2>1, <2>2 DEF MarksOK, IInv, RolledBack
  <2> QED
    BY <2>3, <2>4
<1>4. CASE session[d] # file[d]
  <2>1. stale'[d] = "unrecorded"
    BY <1>4 DEF SaveFromMemory, Set, IInv, Typed, TypeOK
  <2> QED
    BY <2>1 DEF ContainedOK, MarksOK
<1> QED
  BY <1>3, <1>4

\* What a step does to the uploads nobody waits for: nothing, or the server
\* moves past the base of all it has to refuse from now on, or one more joins
\* them while the server stays as it is.
LEMMA LateSteps ==
    ASSUME IInv, [Next]_vars
    PROVE  \/ UNCHANGED <<late, server>>
           \/ late' = {u \in late : u.base = server'.version} /\ server'.version = server.version + 1
           \/ /\ UNCHANGED server
              /\ \E d \in Device : /\ pc[d] = "upload" /\ base[d] = server.version
                                   /\ late' = late \union {UploadOf(d)}
<1> USE DEF local
<1>1. CASE UNCHANGED vars
  BY <1>1 DEF vars
<1>2. ASSUME NEW d \in Device, Local(d) PROVE UNCHANGED <<late, server>>
  BY <1>2 DEF Local, OpenVault, EditVault, RekeyVault, SaveSession, RecordSave, QuitSession
<1>3. ASSUME NEW d \in Device, Push(d), ~UploadAccepted(d) PROVE UNCHANGED <<late, server>>
  BY <1>3 DEF Push, StartPush, StartMeta, Start, Meta, UploadRefused, Uploaded
<1>4. ASSUME NEW d \in Device, Pull(d) PROVE UNCHANGED <<late, server>>
  BY <1>4 DEF Pull, StartPull, Start, Download, PullReplace, PullRecord, PullVersion
<1>5. ASSUME NEW d \in Device, UploadAccepted(d)
      PROVE  late' = {u \in late : u.base = server'.version} /\ server'.version = server.version + 1
  BY <1>5 DEF UploadAccepted, Accept
<1>6. ASSUME NEW u \in late, UploadLate(u)
      PROVE  late' = {v \in late : v.base = server'.version} /\ server'.version = server.version + 1
  BY <1>6 DEF UploadLate, Accept
<1>7. ASSUME NEW d \in Device, Die(d), late' # late
      PROVE  /\ UNCHANGED server
             /\ pc[d] = "upload" /\ base[d] = server.version /\ late' = late \union {UploadOf(d)}
  BY <1>7 DEF Die
<1>8. ASSUME NEW d \in Device, Die(d) PROVE UNCHANGED server
  BY <1>8 DEF Die
<1> QED
  BY <1>1, <1>2, <1>3, <1>4, <1>5, <1>6, <1>7, <1>8 DEF Next

\* Uploads that outlive their sender keep their part of the invariant: what one
\* would replace is what its sender's file contained when it died.
LEMMA LateKept ==
    ASSUME IInv, [Next]_vars
    PROVE  \A u \in late' : LateOK(u)'
<1>1. \A v \in late : LateOK(v)
  BY DEF IInv
<1>2. CASE UNCHANGED <<late, server>>
  BY <1>1, <1>2 DEF LateOK, NoBlob
<1>3. CASE late' = {u \in late : u.base = server'.version} /\ server'.version = server.version + 1
  <2>1. server.version \in Nat
    BY ServerFacts DEF IInv
  <2> QED
    BY <1>1, <1>3, <2>1 DEF LateOK
<1>4. ASSUME NEW d \in Device, UNCHANGED server, pc[d] = "upload", base[d] = server.version,
             late' = late \union {UploadOf(d)}
      PROVE  \A u \in late' : LateOK(u)'
  <2> DEFINE u == UploadOf(d)
  <2>1. /\ TransferOK(d) /\ ContainedOK(d)
        /\ server.version \in Nat /\ base[d] \in Nat /\ seen[d].server_version \in Nat
    BY ServerFacts, BoundsAssumption DEF IInv, Typed, TypeOK
  <2>2. u.base = base[d] /\ u.vault = held[d] /\ (u.exempt <=> Exempt(d))
    BY DEF UploadOf
  <2>3. ASSUME server # NoBlob, ~Exempt(d) PROVE server.vault.edits \subseteq held[d].edits
    <3>1. seen[d].server_version = server.version /\ held[d] = file[d]
      BY <1>4, <2>1, <2>3 DEF TransferOK, Exempt
    <3> QED
      BY <2>1, <2>3, <3>1 DEF ContainedOK, Exempt
  <2>4. LateOK(u)
    BY <1>4, <2>2, <2>3 DEF LateOK
  <2>5. \A v \in late' : LateOK(v)
    BY <1>1, <1>4, <2>4
  <2> QED
    BY <1>4, <2>5 DEF LateOK, NoBlob
<1> QED
  BY <1>2, <1>3, <1>4, LateSteps

\* The inductive invariant holds initially and is kept by every step.
LEMMA InvInit == Init => IInv
  BY TypedInit, BoundsAssumption
  DEF Init, IInv, TransferOK, ContainedOK, MarksOK, RolledBack, FirstVault, NoBlob, Record,
      Larger, NothingSeen

\* Every step keeps the inductive invariant.
LEMMA InvStep == IInv /\ [Next]_vars => IInv'
<1> SUFFICES ASSUME IInv, [Next]_vars PROVE IInv'
  OBVIOUS
<1>0. Typed' /\ \A u \in late' : LateOK(u)'
  BY TypedStep, LateKept DEF IInv
<1>1. CASE UNCHANGED vars
  BY <1>0, <1>1 DEF vars, IInv, TransferOK, ContainedOK, MarksOK, RolledBack, NoBlob
<1>2. ASSUME NEW d \in Device, Local(d) \/ Push(d) \/ Pull(d) \/ Die(d),
             (TransferOK(d) /\ ContainedOK(d) /\ MarksOK(d))'
      PROVE  IInv'
  <2>1. ASSUME NEW o \in Device PROVE (TransferOK(o) /\ ContainedOK(o) /\ MarksOK(o))'
    <3>1. CASE o = d
      BY <1>2, <3>1
    <3>2. CASE o # d
      <4>1. UNCHANGED <<file[o], seen[o], pc[o], held[o], base[o], mode[o], reply[o], stale[o]>>
            /\ (UNCHANGED server \/ server'.version = server.version + 1)
        BY <1>2, <3>2, OneDeviceSteps
      <4> QED
        BY <4>1, OtherDevice
    <3> QED
      BY <3>1, <3>2
  <2> QED
    BY <1>0, <2>1 DEF IInv
<1>3. ASSUME NEW d \in Device
      PROVE  /\ TransferOK(d) /\ ContainedOK(d) /\ MarksOK(d)
             /\ server.version \in Nat
             /\ server # NoBlob => server.version >= 1 /\ server.vault \in Vaults
             /\ seen[d] \in MarksSet /\ seen[d].server_version \in Nat
             /\ file[d] \in Vaults /\ reply[d] \in Nat /\ base[d] \in Nat
  BY ServerFacts, BoundsAssumption DEF IInv, Typed, TypeOK, MarksSet
<1> DEFINE Kept(d) == TransferOK(d) /\ ContainedOK(d) /\ MarksOK(d)
<1> USE DEF Set, Goto
<1>4. ASSUME NEW d \in Device, OpenVault(d) PROVE Kept(d)'
  <2>1. (ContainedOK(d) /\ MarksOK(d))' /\ seen'[d].server_version <= server'.version
    BY <1>4, RecordedDevice DEF OpenVault
  <2>2. TransferOK(d)'
    BY <1>3, <1>4, <2>1 DEF OpenVault, AtShell, TransferOK, local
  <2> QED
    BY <2>1, <2>2
<1>5. ASSUME NEW d \in Device, EditVault(d) PROVE Kept(d)'
  <2>1. PICK e \in Edit : file' = Set(file, d, Edited(file[d], e))
    BY <1>5 DEF EditVault
  <2>2. /\ file'[d] = Edited(file[d], e)
        /\ seen'[d] = Record(seen[d], file[d])
        /\ pc'[d] = "record"
        /\ stale'[d] = "no" => stale[d] = "no"
        /\ server' = server
    BY <1>5, <2>1 DEF EditVault, RecordMarks, IInv, Typed, TypeOK
  <2>3. seen'[d].server_version = 0 /\ seen'[d] \in MarksSet
    BY <1>0, <1>3, <2>2, RecordFacts DEF Typed, TypeOK, MarksSet
  <2>4. TransferOK(d)'
    BY <1>3, <2>2, <2>3 DEF TransferOK
  <2>5. ContainedOK(d)'
    BY <1>3, <2>2, <2>3 DEF ContainedOK, NoBlob
  <2>6. stale[d] = "no" => ~RolledBack(Record(seen[d], file[d]), Edited(file[d], e))
    <3>1. stale[d] = "no" => ~RolledBack(Record(seen[d], file[d]), file[d])
      BY <1>3, RecordFacts DEF MarksOK
    <3>2. Record(seen[d], file[d]) \in MarksSet
      BY <2>2, <2>3
    <3> QED
      BY <1>3, <3>1, <3>2, EditedFacts
  <2>7. MarksOK(d)'
    BY <2>2, <2>6 DEF MarksOK, RolledBack
  <2> QED
    BY <2>4, <2>5, <2>7
<1>21. ASSUME NEW d \in Device, RekeyVault(d) PROVE Kept(d)'
  <2>1. PICK e \in Edit : file' \in {Set(file, d, Rewrapped(file[d], e)), Set(file, d, Edited(file[d], e))}
    BY <1>21 DEF RekeyVault
  <2>2. file'[d] \in {Rewrapped(file[d], e), Edited(file[d], e)} /\ pc'[d] = "record"
        /\ UNCHANGED <<seen, stale, server>>
    BY <1>21, <2>1 DEF RekeyVault, IInv, Typed, TypeOK
  <2>3. /\ file[d].edits \subseteq file'[d].edits
        /\ ~RolledBack(seen[d], file[d]) => ~RolledBack(seen[d], file'[d])
    BY <1>3, <2>2, EditedFacts, RewrappedFacts
  <2>4. TransferOK(d)'
    BY <1>3, <2>2 DEF TransferOK
  <2>5. ContainedOK(d)'
    BY <1>3, <2>2, <2>3 DEF ContainedOK, NoBlob
  <2>6. MarksOK(d)'
    BY <1>3, <2>2, <2>3 DEF MarksOK, RolledBack
  <2> QED
    BY <2>4, <2>5, <2>6
<1>6. ASSUME NEW d \in Device, SaveSession(d) PROVE Kept(d)'
  <2>1. (ContainedOK(d) /\ MarksOK(d))'
    BY <1>6, SavedDevice DEF SaveSession, InSession
  <2>2. TransferOK(d)'
    BY <1>3, <1>6 DEF SaveSession, TransferOK, IInv, Typed, TypeOK
  <2> QED
    BY <2>1, <2>2
<1>7. ASSUME NEW d \in Device, RecordSave(d) PROVE Kept(d)'
  <2>1. (ContainedOK(d) /\ MarksOK(d))' /\ seen'[d].server_version <= server'.version
    BY <1>7, RecordedDevice DEF RecordSave
  <2>2. TransferOK(d)'
    BY <1>3, <1>7, <2>1 DEF RecordSave, TransferOK, IInv, Typed, TypeOK
  <2> QED
    BY <2>1, <2>2
<1>8. ASSUME NEW d \in Device, QuitSession(d) PROVE Kept(d)'
  <2>1. (ContainedOK(d) /\ MarksOK(d))'
    <3>1. CASE SaveFromMemory(d)
      BY <1>8, <3>1, SavedDevice DEF QuitSession, InSession
    <3>2. CASE UNCHANGED <<file, made, stale>>
      BY <1>3, <1>8, <3>2 DEF QuitSession, ContainedOK, MarksOK, RolledBack, NoBlob
    <3> QED
      BY <1>8, <3>1, <3>2 DEF QuitSession
  <2>2. TransferOK(d)'
    BY <1>3, <1>8 DEF QuitSession, InSession, TransferOK, local
  <2> QED
    BY <2>1, <2>2
<1>9. ASSUME NEW d \in Device, StartPush(d) PROVE Kept(d)'
  BY <1>3, <1>9 DEF StartPush, Start, TransferOK, ContainedOK, MarksOK, RolledBack, NoBlob,
     IInv, Typed, TypeOK
<1>10. ASSUME NEW d \in Device, StartMeta(d) PROVE Kept(d)'
  <2>1. PICK m \in {"force", "sync"} : Start(d, m, "meta")
    BY <1>10 DEF StartMeta
  <2> QED
    BY <1>3, <2>1 DEF Start, TransferOK, ContainedOK, MarksOK, RolledBack, NoBlob, IInv, Typed, TypeOK
<1>11. ASSUME NEW d \in Device, Meta(d) PROVE Kept(d)'
  <2>1. (ContainedOK(d) /\ MarksOK(d))'
    BY <1>3, <1>11 DEF Meta, ContainedOK, MarksOK, RolledBack, NoBlob
  <2>2. mode[d] # "force" => pc'[d] = "download" \/ server.version <= seen[d].server_version
    BY <1>3, <1>11 DEF Meta, TransferOK, IInv, Typed, TypeOK
  <2>3. /\ pc'[d] \in {"upload", "download"} /\ base'[d] = server.version
        /\ UNCHANGED <<file, seen, held, mode, server>>
    BY <1>11 DEF Meta, IInv, Typed, TypeOK
  <2>4. TransferOK(d)'
    BY <1>3, <1>11, <2>2, <2>3 DEF TransferOK, Meta
  <2> QED
    BY <2>1, <2>4
<1>12. ASSUME NEW d \in Device, UploadAccepted(d) PROVE Kept(d)'
  <2>1. /\ server'.version = server.version + 1 /\ server'.vault = held[d]
        /\ reply'[d] = server.version + 1 /\ pc'[d] = "uploaded"
        /\ UNCHANGED <<file, seen, held, stale>>
    BY <1>12 DEF UploadAccepted, Accept, IInv, Typed, TypeOK
  <2>2. TransferOK(d)'
    BY <1>3, <1>12, <2>1 DEF TransferOK, UploadAccepted, Accept
  <2>3. (ContainedOK(d) /\ MarksOK(d))'
    BY <1>3, <2>1 DEF ContainedOK, MarksOK, RolledBack, TransferOK
  <2> QED
    BY <2>2, <2>3
<1>13. ASSUME NEW d \in Device, UploadRefused(d) PROVE Kept(d)'
  BY <1>3, <1>13 DEF UploadRefused, Finish, TransferOK, ContainedOK, MarksOK, RolledBack, NoBlob,
     IInv, Typed, TypeOK
<1>14. ASSUME NEW d \in Device, Uploaded(d) PROVE Kept(d)'
  <2>1. /\ seen'[d] = [seen[d] EXCEPT !.server_version = reply[d]] /\ pc'[d] = "idle"
        /\ reply[d] <= server.version
        /\ reply[d] = server.version => file[d] = server.vault
        /\ UNCHANGED <<file, server, stale>>
    BY <1>3, <1>14 DEF Uploaded, Finish, TransferOK, IInv, Typed, TypeOK
  <2>2. /\ seen'[d].server_version = reply[d]
        /\ seen'[d].vault_version = seen[d].vault_version
        /\ seen'[d].payload_seq = seen[d].payload_seq
    BY <1>3, <2>1 DEF MarksSet
  <2>3. TransferOK(d)'
    BY <2>1, <2>2 DEF TransferOK
  <2>4. ContainedOK(d)'
    BY <2>1, <2>2 DEF ContainedOK, NoBlob
  <2>5. MarksOK(d)'
    BY <1>3, <2>1, <2>2 DEF MarksOK, RolledBack
  <2> QED
    BY <2>3, <2>4, <2>5
<1>15. ASSUME NEW d \in Device, StartPull(d) PROVE Kept(d)'
  BY <1>3, <1>15 DEF StartPull, Start, TransferOK, ContainedOK, MarksOK, RolledBack, NoBlob,
     IInv, Typed, TypeOK
<1>16. ASSUME NEW d \in Device, Download(d) PROVE Kept(d)'
  <2>1. (ContainedOK(d) /\ MarksOK(d))'
    BY <1>3, <1>16 DEF Download, ContainedOK, MarksOK, RolledBack, NoBlob
  <2>2. CASE Finish(d)
    <3>1. pc'[d] = "idle" /\ UNCHANGED <<seen, server>>
      BY <1>16, <2>2 DEF Download, Finish, IInv, Typed, TypeOK
    <3> QED
      BY <1>3, <2>1, <3>1 DEF TransferOK
  <2>3. CASE ~Finish(d)
    <3>1. /\ held'[d] = server.vault /\ reply'[d] = server.version /\ pc'[d] = "replace"
          /\ UNCHANGED <<seen, server>> /\ Acceptable(d)
      BY <1>16, <2>3 DEF Download, IInv, Typed, TypeOK
    <3>2. ~RolledBack(seen[d], server.vault)
      BY <3>1 DEF Acceptable
    <3> QED
      BY <1>3, <2>1, <3>1, <3>2 DEF TransferOK, RolledBack
  <2> QED
    BY <2>2, <2>3
<1>17. ASSUME NEW d \in Device, PullReplace(d) PROVE Kept(d)'
  <2>1. /\ file'[d] = held[d] /\ pc'[d] = "pulled"
        /\ seen[d].server_version <= reply[d] /\ reply[d] <= server.version
        /\ reply[d] = server.version => held[d] = server.vault
        /\ ~RolledBack(seen[d], held[d])
        /\ UNCHANGED <<seen, held, reply, server>>
    BY <1>3, <1>17 DEF PullReplace, local, TransferOK, IInv, Typed, TypeOK
  <2>2. TransferOK(d)'
    BY <1>3, <2>1 DEF TransferOK
  <2>3. ContainedOK(d)'
    BY <1>3, <2>1 DEF ContainedOK, NoBlob
  <2>4. MarksOK(d)'
    BY <2>1 DEF MarksOK, RolledBack
  <2> QED
    BY <2>2, <2>3, <2>4
<1>18. ASSUME NEW d \in Device, PullRecord(d) PROVE Kept(d)'
  <2>1. held[d] = file[d]
    BY <1>3, <1>18 DEF PullRecord, TransferOK
  <2>2. (ContainedOK(d) /\ MarksOK(d))' /\ seen'[d].server_version <= server'.version
    BY <1>18, <2>1, RecordedDevice DEF PullRecord
  <2>3. pc'[d] = "version" /\ UNCHANGED <<file, held, reply, server>>
    BY <1>18 DEF PullRecord, local, IInv, Typed, TypeOK
  <2>4. TransferOK(d)'
    BY <1>3, <1>18, <2>1, <2>2, <2>3 DEF TransferOK, PullRecord
  <2> QED
    BY <2>2, <2>4
<1>19. ASSUME NEW d \in Device, PullVersion(d) PROVE Kept(d)'
  <2>1. /\ seen'[d] = [seen[d] EXCEPT !.server_version = reply[d]] /\ pc'[d] = "idle"
        /\ reply[d] <= server.version
        /\ reply[d] = server.version => file[d] = server.vault
        /\ UNCHANGED <<file, server, stale>>
    BY <1>3, <1>19 DEF PullVersion, Finish, TransferOK, IInv, Typed, TypeOK
  <2>2. /\ seen'[d].server_version = reply[d]
        /\ seen'[d].vault_version = seen[d].vault_version
        /\ seen'[d].payload_seq = seen[d].payload_seq
    BY <1>3, <2>1 DEF MarksSet
  <2>3. TransferOK(d)'
    BY <2>1, <2>2 DEF TransferOK
  <2>4. ContainedOK(d)'
    BY <2>1, <2>2 DEF ContainedOK, NoBlob
  <2>5. MarksOK(d)'
    BY <1>3, <2>1, <2>2 DEF MarksOK, RolledBack
  <2> QED
    BY <2>3, <2>4, <2>5
<1>20. ASSUME NEW d \in Device, Die(d) PROVE Kept(d)'
  BY <1>3, <1>20 DEF Die, Finish, TransferOK, ContainedOK, MarksOK, RolledBack, NoBlob,
     IInv, Typed, TypeOK
<1> QED
  <2>1. ASSUME NEW d \in Device, Local(d) \/ Push(d) \/ Pull(d) \/ Die(d) PROVE Kept(d)'
    <3>1. CASE Local(d)
      BY <3>1, <1>4, <1>5, <1>6, <1>7, <1>8, <1>21 DEF Local
    <3>2. CASE Push(d)
      BY <3>2, <1>9, <1>10, <1>11, <1>12, <1>13, <1>14 DEF Push
    <3>3. CASE Pull(d)
      BY <3>3, <1>15, <1>16, <1>17, <1>18, <1>19 DEF Pull
    <3>4. CASE Die(d)
      BY <3>4, <1>20
    <3> QED
      BY <2>1, <3>1, <3>2, <3>3, <3>4
  <2>2. ASSUME NEW u \in late, UploadLate(u) PROVE IInv'
    <3>1. UNCHANGED server \/ server'.version = server.version + 1
      BY <2>2 DEF UploadLate, Accept
    <3>2. \A o \in Device :
              UNCHANGED <<file[o], seen[o], pc[o], held[o], base[o], mode[o], reply[o], stale[o]>>
      BY <2>2 DEF UploadLate, local
    <3>3. \A o \in Device : Kept(o)'
      BY <3>1, <3>2, OtherDevice
    <3> QED
      BY <1>0, <3>3 DEF IInv
  <2> QED
    BY <1>1, <1>2, <2>1, <2>2 DEF Next

\* So it holds in every reachable state.
LEMMA Invariance == Spec => []IInv
  BY InvInit, InvStep, PTL DEF Spec

(***************************************************************************)
(* What follows from the invariant.                                        *)
(***************************************************************************)
\* A remembered server version is one the device's file contains, for any
\* number of devices and edits (DeviceState.record, _pull_into, cmd_sync).
THEOREM VersionContained == Spec => []KnownVersionIsContained
<1>1. IInv => KnownVersionIsContained
  BY DEF IInv, ContainedOK, KnownVersionIsContained
<1> QED
  BY <1>1, Invariance, PTL

\* A device whose sessions do not save over a pulled file passes its own
\* rollback check for ever (open_vault, DeviceState.check).
THEOREM NotLockedOut == Spec => []NeverLockedOut
<1>1. IInv => NeverLockedOut
  BY DEF IInv, MarksOK, NeverLockedOut
<1> QED
  BY <1>1, Invariance, PTL

\* Only the server's acceptance moves a device to its "uploaded" step.
LEMMA OnlyUploadsReach ==
    ASSUME IInv, NEW d \in Device, [Next]_vars, pc[d] = "upload", pc'[d] = "uploaded"
    PROVE  UploadAccepted(d)
<1> USE DEF Goto, Set, Finish, IInv, Typed, TypeOK, local
<1>1. PICK o \in Device : Local(o) \/ Push(o) \/ Pull(o) \/ Die(o)
  BY DEF Next, UploadLate, vars
<1>2. o = d
  BY <1>1, OneDeviceSteps
<1>3. CASE Local(d)
  BY <1>3 DEF Local, OpenVault, EditVault, RekeyVault, SaveSession, RecordSave, QuitSession, AtShell, InSession
<1>4. CASE Push(d)
  BY <1>4 DEF Push, StartPush, StartMeta, Start, Meta, UploadRefused, Uploaded, AtShell, InSession
<1>5. CASE Pull(d)
  BY <1>5 DEF Pull, StartPull, Start, Download, PullReplace, PullRecord, PullVersion, AtShell
<1>6. CASE Die(d)
  BY <1>6 DEF Die
<1> QED
  BY <1>1, <1>2, <1>3, <1>4, <1>5, <1>6

\* An accepted push that was not forced replaces only edits it contains:
\* base_version can match the server only when it is the remembered version,
\* and then the file pushed contains the vault stored (cmd_sync push). That
\* holds for a push whose sender has died, however late it arrives.
THEOREM PushesKeepServerEdits == Spec => PushKeepsServerEdits
<1>1. ASSUME IInv, NEW d \in Device, [Next]_vars, Overwrites(d)
      PROVE  KeepsServerEdits
  <2>1. UploadAccepted(d)
    BY <1>1, OnlyUploadsReach DEF Overwrites
  <2>2. /\ server.version \in Nat /\ seen[d].server_version \in Nat /\ base[d] \in Nat
        /\ TransferOK(d) /\ ContainedOK(d)
    BY <1>1, ServerFacts, BoundsAssumption DEF IInv, Typed, TypeOK
  <2>3. seen[d].server_version = server.version /\ held[d] = file[d]
    BY <1>1, <2>1, <2>2 DEF TransferOK, UploadAccepted, Accept, Overwrites, Exempt
  <2>4. server.vault.edits \subseteq held[d].edits
    BY <1>1, <2>2, <2>3 DEF ContainedOK, Overwrites, Exempt
  <2> QED
    BY <2>1, <2>4 DEF KeepsServerEdits, UploadAccepted, Accept
<1>2. ASSUME IInv, NEW u \in late, [Next]_vars, OverwritesLate(u)
      PROVE  KeepsServerEdits
  <2>1. Accept(u.base, u.vault) /\ LateOK(u)
    BY <1>2 DEF OverwritesLate, UploadLate, IInv
  <2> QED
    BY <1>2, <2>1 DEF KeepsServerEdits, Accept, LateOK, OverwritesLate
<1>3. IInv /\ [Next]_vars =>
         [(\E d \in Device : Overwrites(d)) \/ (\E u \in late : OverwritesLate(u)) => KeepsServerEdits]_vars
  BY <1>1, <1>2
<1> QED
  BY <1>3, Invariance, PTL DEF Spec, PushKeepsServerEdits

\* Only PullReplace moves a device to its "pulled" step.
LEMMA OnlyPullsReach ==
    ASSUME IInv, NEW d \in Device, [Next]_vars, pc[d] = "replace", pc'[d] = "pulled"
    PROVE  PullReplace(d)
<1> USE DEF Goto, Set, Finish, IInv, Typed, TypeOK, local
<1>1. PICK o \in Device : Local(o) \/ Push(o) \/ Pull(o) \/ Die(o)
  BY DEF Next, UploadLate, vars
<1>2. o = d
  BY <1>1, OneDeviceSteps
<1>3. CASE Local(d)
  BY <1>3 DEF Local, OpenVault, EditVault, RekeyVault, SaveSession, RecordSave, QuitSession, AtShell, InSession
<1>4. CASE Push(d)
  BY <1>4 DEF Push, StartPush, StartMeta, Start, Meta, UploadAccepted, UploadRefused, Uploaded,
     AtShell, InSession
<1>5. CASE Pull(d)
  BY <1>5 DEF Pull, StartPull, Start, Download, PullRecord, PullVersion, AtShell
<1>6. CASE Die(d)
  BY <1>6 DEF Die
<1> QED
  BY <1>1, <1>2, <1>3, <1>4, <1>5, <1>6

\* A pull replaces a file that was recorded only by one that is nowhere behind
\* it: the marks did not move between the check and the write (_pull_into).
THEOREM PullsNeverLower == Spec => PullNeverLowers
<1>1. ASSUME IInv, NEW d \in Device, [Next]_vars, pc[d] = "replace", pc'[d] = "pulled",
             NotAhead(file[d], seen[d])
      PROVE  NotAhead(file[d], file'[d])
  <2>1. PullReplace(d)
    BY <1>1, OnlyPullsReach
  <2>2. file'[d] = held[d] /\ ~RolledBack(seen[d], held[d])
    BY <1>1, <2>1 DEF PullReplace, Set, IInv, Typed, TypeOK, TransferOK
  <2>3. seen[d] \in MarksSet /\ file[d] \in Vaults /\ held[d] \in Vaults
    BY <1>1 DEF IInv, Typed, TypeOK, HeldOK, Transferring, MarksSet
  <2>4. /\ seen[d].vault_version \in Nat /\ seen[d].payload_seq \in Nat
        /\ file[d].vault_version \in Nat /\ file[d].payload_seq \in Nat
        /\ held[d].vault_version \in Nat /\ held[d].payload_seq \in Nat
    BY <2>3 DEF MarksSet, Vaults
  <2> QED
    BY <1>1, <2>2, <2>4 DEF NotAhead, RolledBack
<1>2. IInv /\ [Next]_vars =>
         [\A d \in Device :
             pc[d] = "replace" /\ pc'[d] = "pulled" /\ NotAhead(file[d], seen[d])
             => NotAhead(file[d], file'[d])]_vars
  BY <1>1
<1> QED
  BY <1>2, Invariance, PTL DEF Spec, PullNeverLowers
=============================================================================
