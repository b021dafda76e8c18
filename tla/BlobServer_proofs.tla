------------------------- MODULE BlobServer_proofs -------------------------
(***************************************************************************)
(* BlobServer for any requests in flight and any bound on versions: its    *)
(* types, and that its handlers implement CasRegister until two of them    *)
(* overlap.                                                                *)
(***************************************************************************)
EXTENDS BlobServer, TLAPS

\* What a handler found, and how far it has come, fit what it was asked.
HandlerOK(c) ==
    /\ pc[c] = "idle" => call[c] = NoCall
    /\ pc[c] \in {"called", "checked", "committed", "refreshed", "deleting"} =>
           call[c] \in Uploads \union Deletes
    /\ pc[c] \in {"checked", "committed", "refreshed"} => call[c].op = "put"
    /\ pc[c] = "checked" => seen[c] = call[c].base
    /\ pc[c] = "deleting" => call[c].op = "delete"

Typed == TypeOK /\ \A c \in Client : HandlerOK(c)

\* Until two writing handlers overlap there is at most one at work, and the row
\* is still the one it read or wrote.
Alone ==
    ~overlapped =>
        \A c \in Client :
            /\ Working(c) => \A o \in Client \ {c} : ~Working(o)
            /\ pc[c] = "checked" => StoredVersion = seen[c]
            /\ pc[c] \in {"committed", "refreshed", "deleting"} => blob # NoBlob

IInv == Typed /\ Alone

(***************************************************************************)
(* Types.                                                                  *)
(***************************************************************************)
\* The stored version is a version.
LEMMA StoredVersionType ==
    ASSUME TypeOK
    PROVE  /\ StoredVersion \in 0 .. MaxVersion + 1
           /\ (StoredVersion = 0) <=> (blob = NoBlob)
<1>1. CASE blob = NoBlob
  BY <1>1, MaxVersionAssumption DEF StoredVersion
<1>2. CASE blob # NoBlob
  <2>1. blob.version \in 1 .. MaxVersion + 1
    BY <1>2 DEF TypeOK
  <2> QED
    BY <1>2, <2>1, MaxVersionAssumption DEF StoredVersion
<1> QED
  BY <1>1, <1>2

\* The types hold initially and are kept by every step.
LEMMA TypedInit == Init => Typed
<1> SUFFICES ASSUME Init PROVE Typed
  OBVIOUS
<1>1. NoAnswer \in [code : {0, 200, 409, 500}, version : 0 .. MaxVersion + 1]
  BY MaxVersionAssumption DEF NoAnswer
<1>2. TypeOK
  <2>1. /\ seen \in [Client -> 0 .. MaxVersion + 1]
        /\ answer \in [Client -> [code : {0, 200, 409, 500}, version : 0 .. MaxVersion + 1]]
    BY <1>1, MaxVersionAssumption DEF Init
  <2>2. call \in [Client -> Uploads \union Deletes \union {NoCall}]
    BY DEF Init
  <2>3. /\ blob \in [version : 1 .. MaxVersion + 1, data : Data] \union {NoBlob}
        /\ pc \in [Client -> Steps]
        /\ overlapped \in BOOLEAN
    BY DEF Init, Steps
  <2> QED
    BY <2>1, <2>2, <2>3 DEF TypeOK
<1>3. \A c \in Client : HandlerOK(c)
  BY DEF Init, HandlerOK
<1> QED
  BY <1>2, <1>3 DEF Typed

\* Every step keeps the types.
LEMMA TypedStep == Typed /\ [Next]_vars => Typed'
<1> SUFFICES ASSUME Typed, [Next]_vars PROVE Typed'
  OBVIOUS
<1> USE MaxVersionAssumption DEF Typed, TypeOK, HandlerOK, Steps, Goto
<1>0. StoredVersion \in 0 .. MaxVersion + 1
  BY StoredVersionType
<1>1. CASE UNCHANGED vars
  BY <1>1 DEF vars
<1>2. ASSUME NEW c \in Client, Invoke(c) PROVE Typed'
  BY <1>2 DEF Invoke, Uploads, Deletes
<1>3. ASSUME NEW c \in Client, SelectStale(c) PROVE Typed'
  BY <1>0, <1>3 DEF SelectStale, Select, AnswerWith
<1>4. ASSUME NEW c \in Client, SelectCurrent(c) PROVE Typed'
  BY <1>0, <1>4 DEF SelectCurrent, Select, Enter
<1>5. ASSUME NEW c \in Client, CommitInsert(c) PROVE Typed'
  <2>1. call[c].data \in Data
    BY <1>5 DEF CommitInsert, Uploads, Deletes
  <2> QED
    BY <1>5, <2>1 DEF CommitInsert, AnswerWith, Versioned
<1>6. ASSUME NEW c \in Client, CommitUpdate(c) PROVE Typed'
  <2>1. call[c].data \in Data /\ seen[c] \in 1 .. MaxVersion
    BY <1>6 DEF CommitUpdate, Uploads, Deletes
  <2> QED
    BY <1>6, <2>1 DEF CommitUpdate, AnswerWith, Versioned
<1>7. ASSUME NEW c \in Client, Refresh(c) PROVE Typed'
  BY <1>7 DEF Refresh, AnswerWith
<1>8. ASSUME NEW c \in Client, Respond(c) PROVE Typed'
  <2>1. blob # NoBlob => blob.version \in 0 .. MaxVersion + 1
    OBVIOUS
  <2> QED
    BY <1>8, <2>1 DEF Respond, AnswerWith
<1>9. ASSUME NEW c \in Client, SelectForDelete(c) PROVE Typed'
  <2>1. CASE blob # NoBlob
    <3>1. /\ pc[c] = "called" /\ call[c].op = "delete"
          /\ seen' = [seen EXCEPT ![c] = StoredVersion]
          /\ pc' = [pc EXCEPT ![c] = "deleting"]
          /\ overlapped' \in BOOLEAN
          /\ UNCHANGED <<blob, call, answer>>
      BY <1>9, <2>1 DEF SelectForDelete, Select, Enter
    <3> QED
      BY <1>0, <3>1
  <2>2. CASE blob = NoBlob
    BY <1>0, <1>9, <2>2 DEF SelectForDelete, Select, AnswerWith
  <2> QED
    BY <2>1, <2>2
<1>10. ASSUME NEW c \in Client, CommitDelete(c) PROVE Typed'
  BY <1>10 DEF CommitDelete, AnswerWith
<1>11. ASSUME NEW c \in Client, Return(c) PROVE Typed'
  BY <1>11 DEF Return, NoCall, NoAnswer
<1>12. ASSUME Crash PROVE Typed'
  BY <1>12 DEF Crash, NoCall, NoAnswer
<1> QED
  BY <1>1, <1>2, <1>3, <1>4, <1>5, <1>6, <1>7, <1>8, <1>9, <1>10, <1>11, <1>12
  DEF Next, Upload, DeleteVault

\* Every reachable state has its types: in particular no interleaving of
\* uploads and deletes makes a version beyond the largest base plus one.
THEOREM TypeCorrect == Spec => []TypeOK
<1>1. Spec => []Typed
  BY TypedInit, TypedStep, PTL DEF Spec
<1>2. Typed => TypeOK
  BY DEF Typed
<1> QED
  BY <1>1, <1>2, PTL

(***************************************************************************)
(* At most one writing handler at a time, until two overlap.               *)
(***************************************************************************)
\* The inductive invariant holds initially.
LEMMA InvInit == Init => IInv
  BY TypedInit DEF Init, IInv, Alone, Working

\* Every step keeps a lone writer's reading of the row current.
LEMMA AloneStep == IInv /\ [Next]_vars => Alone'
<1> SUFFICES ASSUME IInv, [Next]_vars, ~overlapped' PROVE Alone'
  BY DEF Alone
<1> USE DEF IInv, Typed, TypeOK, Goto, Working
<1>0. ~overlapped
  BY DEF Next, vars, Invoke, Upload, SelectStale, SelectCurrent, Enter, CommitInsert, CommitUpdate,
     Refresh, Respond, DeleteVault, SelectForDelete, CommitDelete, Return, Crash
<1>a. ASSUME NEW c \in Client
      PROVE  /\ Working(c) => \A o \in Client \ {c} : ~Working(o)
             /\ pc[c] = "checked" => StoredVersion = seen[c]
             /\ pc[c] \in {"committed", "refreshed", "deleting"} => blob # NoBlob
  BY <1>0 DEF Alone
<1>1. CASE UNCHANGED vars
  BY <1>0, <1>1 DEF vars, Alone, StoredVersion
<1>2. ASSUME NEW c \in Client, Invoke(c) PROVE Alone'
  BY <1>0, <1>2 DEF Invoke, Alone, StoredVersion
<1>3. ASSUME NEW c \in Client, SelectStale(c) PROVE Alone'
  BY <1>0, <1>3 DEF SelectStale, Select, AnswerWith, Alone, StoredVersion
<1>4. ASSUME NEW c \in Client, SelectCurrent(c) PROVE Alone'
  <2>1. \A o \in Client \ {c} : ~Working(o)
    BY <1>4 DEF SelectCurrent, Enter
  <2> QED
    BY <1>4, <2>1 DEF SelectCurrent, Select, Enter, Alone, StoredVersion
<1>5. ASSUME NEW c \in Client, CommitInsert(c) PROVE Alone'
  <2>1. pc[c] = "checked" /\ \A o \in Client \ {c} : ~Working(o)
    BY <1>5, <1>a DEF CommitInsert
  <2>2. \A o \in Client \ {c} : pc'[o] = pc[o]
    BY <1>5 DEF CommitInsert, AnswerWith
  <2>3. pc'[c] = "answered" \/ (pc'[c] = "committed" /\ blob' # NoBlob)
    BY <1>5, NoBlobAssumption DEF CommitInsert, AnswerWith, Versioned, Uploads, Deletes, HandlerOK
  <2> QED
    BY <2>1, <2>2, <2>3 DEF Alone
<1>6. ASSUME NEW c \in Client, CommitUpdate(c) PROVE Alone'
  <2>1. pc[c] = "checked" /\ \A o \in Client \ {c} : ~Working(o)
    BY <1>6, <1>a DEF CommitUpdate
  <2>2. \A o \in Client \ {c} : pc'[o] = pc[o]
    BY <1>6 DEF CommitUpdate, AnswerWith
  <2>3. pc'[c] = "answered" \/ (pc'[c] = "committed" /\ blob' # NoBlob)
    BY <1>6, NoBlobAssumption, MaxVersionAssumption
    DEF CommitUpdate, AnswerWith, Versioned, Uploads, Deletes, HandlerOK
  <2> QED
    BY <2>1, <2>2, <2>3 DEF Alone
<1>7. ASSUME NEW c \in Client, Refresh(c) PROVE Alone'
  BY <1>0, <1>a, <1>7 DEF Refresh, AnswerWith, Alone, StoredVersion
<1>8. ASSUME NEW c \in Client, Respond(c) PROVE Alone'
  BY <1>0, <1>a, <1>8 DEF Respond, AnswerWith, Alone, StoredVersion
<1>9. ASSUME NEW c \in Client, SelectForDelete(c) PROVE Alone'
  <2>1. CASE blob = NoBlob
    BY <1>0, <1>a, <1>9, <2>1 DEF SelectForDelete, Select, AnswerWith, Alone, StoredVersion
  <2>2. CASE blob # NoBlob
    <3>1. \A o \in Client \ {c} : ~Working(o)
      BY <1>9, <2>2 DEF SelectForDelete, Enter
    <3>2. blob' # NoBlob /\ pc' = [pc EXCEPT ![c] = "deleting"]
      BY <1>9, <2>2 DEF SelectForDelete, Select, Enter
    <3> QED
      BY <3>1, <3>2 DEF Alone
  <2> QED
    BY <2>1, <2>2
<1>10. ASSUME NEW c \in Client, CommitDelete(c) PROVE Alone'
  <2>1. \A o \in Client \ {c} : ~Working(o)
    BY <1>10, <1>a DEF CommitDelete
  <2> QED
    BY <1>10, <2>1 DEF CommitDelete, AnswerWith, Alone
<1>11. ASSUME NEW c \in Client, Return(c) PROVE Alone'
  BY <1>0, <1>a, <1>11 DEF Return, Alone, StoredVersion
<1>12. ASSUME Crash PROVE Alone'
  BY <1>12 DEF Crash, Alone
<1> QED
  BY <1>1, <1>2, <1>3, <1>4, <1>5, <1>6, <1>7, <1>8, <1>9, <1>10, <1>11, <1>12
  DEF Next, Upload, DeleteVault

\* So the invariant holds in every reachable state.
LEMMA Invariance == Spec => []IInv
<1>1. IInv /\ [Next]_vars => IInv'
  BY TypedStep, AloneStep DEF IInv
<1> QED
  BY <1>1, InvInit, PTL DEF Spec

(***************************************************************************)
(* Refinement.                                                             *)
(***************************************************************************)
Requests == [c \in Client |-> AbstractRequest(c)]

\* A handler that takes no step stands for the same request, unless it has
\* written and the stored version moves under it.
LEMMA SameRequest ==
    ASSUME NEW o \in Client, UNCHANGED <<pc[o], call[o], answer[o]>>,
           pc[o] \in {"committed", "refreshed"} => UNCHANGED blob
    PROVE  AbstractRequest(o)' = AbstractRequest(o)
  BY DEF AbstractRequest, StoredVersion

\* One request changes.
LEMMA OneRequestChanges ==
    ASSUME NEW c \in Client, NEW r, AbstractRequest(c)' = r,
           \A o \in Client \ {c} : AbstractRequest(o)' = AbstractRequest(o)
    PROVE  Requests' = [Requests EXCEPT ![c] = r]
  BY DEF Requests

\* While no two writing handlers overlap, a step of a handler is a step of the
\* register or changes nothing of it.
LEMMA StepRefines ==
    ASSUME IInv, [Next]_vars, ~overlapped'
    PROVE  Register!Next \/ UNCHANGED Register!vars
<1> USE DEF IInv, Typed, TypeOK, Goto
<1>0. ~overlapped
  BY DEF Next, vars, Invoke, Upload, SelectStale, SelectCurrent, Enter, CommitInsert, CommitUpdate,
     Refresh, Respond, DeleteVault, SelectForDelete, CommitDelete, Return, Crash
<1>a. ASSUME NEW c \in Client
      PROVE  /\ Working(c) => \A o \in Client \ {c} : ~Working(o)
             /\ pc[c] = "checked" => StoredVersion = seen[c]
             /\ pc[c] \in {"committed", "refreshed", "deleting"} => blob # NoBlob
             /\ HandlerOK(c)
  BY <1>0 DEF Alone
<1>1. CASE UNCHANGED vars
  <2>1. \A o \in Client : AbstractRequest(o)' = AbstractRequest(o)
    BY <1>1, SameRequest DEF vars
  <2> QED
    BY <1>1, <2>1 DEF vars, Register!vars, StoredVersion
<1>2. ASSUME NEW c \in Client, Invoke(c) PROVE Register!Invoke(c)
  <2>1. PICK r \in Uploads \union Deletes : call' = [call EXCEPT ![c] = r]
    BY <1>2 DEF Invoke
  <2>2. \A o \in Client \ {c} : AbstractRequest(o)' = AbstractRequest(o)
    BY <1>2, SameRequest DEF Invoke
  <2>3. AbstractRequest(c) = Register!Idle
    BY <1>2 DEF Invoke, AbstractRequest, Register!Idle
  <2>4. AbstractRequest(c)' \in Register!Calls
    <3>1. CASE r \in Uploads
      <4>1. PICK b \in 0 .. MaxVersion, d \in Data : r = [op |-> "put", base |-> b, data |-> d]
        BY <3>1 DEF Uploads
      <4>2. AbstractRequest(c)' = [state |-> "pending", op |-> "put", base |-> b, data |-> d]
        BY <1>2, <2>1, <4>1 DEF Invoke, AbstractRequest
      <4> QED
        BY <4>2 DEF Register!Calls
    <3>2. CASE r \in Deletes
      <4>1. AbstractRequest(c)' = Register!DeleteCall
        BY <1>2, <2>1, <3>2 DEF Invoke, AbstractRequest, Deletes, Register!DeleteCall
      <4> QED
        BY <4>1 DEF Register!Calls
    <3> QED
      BY <3>1, <3>2
  <2>5. PICK x \in Register!Calls : AbstractRequest(c)' = x
    BY <2>4
  <2>6. Requests' = [Requests EXCEPT ![c] = x]
    BY <2>2, <2>5, OneRequestChanges
  <2>7. UNCHANGED blob
    BY <1>2 DEF Invoke
  <2> QED
    BY <2>3, <2>6, <2>7 DEF Register!Invoke, Requests, StoredVersion
<1>3. ASSUME NEW c \in Client, SelectStale(c) PROVE Register!Refuse(c)
  <2>1. /\ pc[c] = "called" /\ call[c] \in Uploads /\ call[c].base # StoredVersion
        /\ pc' = [pc EXCEPT ![c] = "answered"]
        /\ answer' = [answer EXCEPT ![c] = [code |-> 409, version |-> StoredVersion]]
        /\ UNCHANGED <<blob, call>>
    BY <1>3, <1>a DEF SelectStale, Select, AnswerWith, HandlerOK, Deletes
  <2>2. \A o \in Client \ {c} : AbstractRequest(o)' = AbstractRequest(o)
    BY <2>1, SameRequest
  <2>3. PICK b \in 0 .. MaxVersion, d \in Data : call[c] = [op |-> "put", base |-> b, data |-> d]
    BY <2>1 DEF Uploads
  <2>4. AbstractRequest(c) = Register!PutCall(b, d) /\ b \in (0 .. MaxVersion) \ {StoredVersion}
    BY <2>1, <2>3 DEF AbstractRequest, Register!PutCall
  <2>5. AbstractRequest(c)' = Register!Answer(409, StoredVersion)
    BY <2>1 DEF AbstractRequest, Register!Answer
  <2>6. Requests' = [Requests EXCEPT ![c] = Register!Answer(409, StoredVersion)]
    BY <2>2, <2>5, OneRequestChanges
  <2> QED
    BY <2>1, <2>4, <2>6 DEF Register!Refuse, Requests, StoredVersion
<1>4. ASSUME NEW c \in Client, SelectCurrent(c) PROVE UNCHANGED Register!vars
  <2>1. /\ pc[c] = "called" /\ call[c].op = "put" /\ pc' = [pc EXCEPT ![c] = "checked"]
        /\ UNCHANGED <<blob, call, answer>>
    BY <1>4 DEF SelectCurrent, Select, Enter
  <2>2. \A o \in Client \ {c} : AbstractRequest(o)' = AbstractRequest(o)
    BY <2>1, SameRequest
  <2>3. AbstractRequest(c)' = AbstractRequest(c)
    BY <2>1 DEF AbstractRequest
  <2> QED
    BY <2>1, <2>2, <2>3 DEF Register!vars, StoredVersion
<1>5. ASSUME NEW c \in Client, pc[c] = "checked", NEW v \in Nat, seen[c] = v,
             pc' = [pc EXCEPT ![c] = "committed"], blob' = Versioned(v + 1, call[c].data),
             UNCHANGED <<call, answer>>
      PROVE  Register!Accept(c)
  <2>1. \A o \in Client \ {c} : AbstractRequest(o)' = AbstractRequest(o)
    BY <1>5, <1>a, SameRequest DEF Working
  <2>2. call[c] \in Uploads
    BY <1>5, <1>a DEF HandlerOK, Deletes
  <2>3. PICK b \in 0 .. MaxVersion, d \in Data : call[c] = [op |-> "put", base |-> b, data |-> d]
    BY <2>2 DEF Uploads
  <2>4. b = v /\ StoredVersion = v
    BY <1>5, <1>a, <2>3 DEF HandlerOK
  <2>5. AbstractRequest(c) = Register!PutCall(StoredVersion, d)
    BY <1>5, <2>3, <2>4 DEF AbstractRequest, Register!PutCall
  <2>6. blob' # NoBlob /\ blob'.version = v + 1 /\ blob'.data = d
    BY <1>5, <2>3, NoBlobAssumption DEF Versioned
  <2>7. StoredVersion' = v + 1
    BY <2>6 DEF StoredVersion
  <2>8. AbstractRequest(c)' = Register!Answer(200, StoredVersion + 1)
    BY <1>5, <2>4, <2>7 DEF AbstractRequest, Register!Answer
  <2>9. Requests' = [Requests EXCEPT ![c] = Register!Answer(200, StoredVersion + 1)]
    BY <2>1, <2>8, OneRequestChanges
  <2>10. Requests[c] = Register!PutCall(StoredVersion, d)
    BY <2>5 DEF Requests
  <2> QED
    BY <2>4, <2>6, <2>7, <2>9, <2>10 DEF Register!Accept, Requests
<1>6. ASSUME NEW c \in Client, CommitInsert(c) PROVE Register!Accept(c)
  <2>1. pc[c] = "checked" /\ seen[c] = 0 /\ blob = NoBlob /\ seen[c] \in Nat
    BY <1>6, <1>a, StoredVersionType DEF CommitInsert
  <2>2. /\ pc' = [pc EXCEPT ![c] = "committed"] /\ blob' = Versioned(seen[c] + 1, call[c].data)
        /\ UNCHANGED <<call, answer>>
    BY <1>6, <2>1 DEF CommitInsert
  <2> QED
    BY <1>5, <2>1, <2>2
<1>7. ASSUME NEW c \in Client, CommitUpdate(c) PROVE Register!Accept(c)
  <2>1. pc[c] = "checked" /\ seen[c] # 0 /\ blob # NoBlob /\ seen[c] \in Nat
    BY <1>7, <1>a, StoredVersionType, MaxVersionAssumption DEF CommitUpdate
  <2>2. /\ pc' = [pc EXCEPT ![c] = "committed"] /\ blob' = Versioned(seen[c] + 1, call[c].data)
        /\ UNCHANGED <<call, answer>>
    BY <1>7, <2>1 DEF CommitUpdate
  <2> QED
    BY <1>5, <2>1, <2>2
<1>8. ASSUME NEW c \in Client, Refresh(c) PROVE UNCHANGED Register!vars
  <2>1. /\ pc[c] = "committed" /\ pc' = [pc EXCEPT ![c] = "refreshed"]
        /\ UNCHANGED <<blob, call, answer>>
    BY <1>8, <1>a DEF Refresh
  <2>2. \A o \in Client \ {c} : AbstractRequest(o)' = AbstractRequest(o)
    BY <2>1, SameRequest
  <2>3. AbstractRequest(c)' = AbstractRequest(c)
    BY <2>1 DEF AbstractRequest, StoredVersion
  <2> QED
    BY <2>1, <2>2, <2>3 DEF Register!vars, StoredVersion
<1>9. ASSUME NEW c \in Client, Respond(c) PROVE UNCHANGED Register!vars
  <2>1. /\ pc[c] = "refreshed" /\ blob # NoBlob
        /\ pc' = [pc EXCEPT ![c] = "answered"]
        /\ answer' = [answer EXCEPT ![c] = [code |-> 200, version |-> blob.version]]
        /\ UNCHANGED <<blob, call>>
    BY <1>9, <1>a DEF Respond, AnswerWith
  <2>2. \A o \in Client \ {c} : AbstractRequest(o)' = AbstractRequest(o)
    BY <2>1, SameRequest
  <2>3. AbstractRequest(c)' = AbstractRequest(c)
    BY <2>1 DEF AbstractRequest, StoredVersion
  <2> QED
    BY <2>1, <2>2, <2>3 DEF Register!vars, StoredVersion
<1>10. ASSUME NEW c \in Client, call[c] = [op |-> "delete", base |-> 0, data |-> NoBlob],
              pc[c] \in {"called", "deleting"}, pc' = [pc EXCEPT ![c] = "answered"],
              answer' = [answer EXCEPT ![c] = [code |-> 200, version |-> 0]],
              blob' = NoBlob, UNCHANGED call,
              \A o \in Client \ {c} : pc[o] \in {"committed", "refreshed"} => UNCHANGED blob
       PROVE  Register!Delete(c)
  <2>1. \A o \in Client \ {c} : AbstractRequest(o)' = AbstractRequest(o)
    BY <1>10, SameRequest
  <2>2. AbstractRequest(c) = Register!DeleteCall
    BY <1>10 DEF AbstractRequest, Register!DeleteCall
  <2>3. AbstractRequest(c)' = Register!Answer(200, 0)
    BY <1>10 DEF AbstractRequest, Register!Answer
  <2>4. Requests' = [Requests EXCEPT ![c] = Register!Answer(200, 0)]
    BY <2>1, <2>3, OneRequestChanges
  <2> QED
    BY <1>10, <2>2, <2>4 DEF Register!Delete, Requests, StoredVersion
<1>11. ASSUME NEW c \in Client, SelectForDelete(c) PROVE Register!Delete(c) \/ UNCHANGED Register!vars
  <2>1. pc[c] = "called" /\ call[c] \in Deletes /\ UNCHANGED <<blob, call>>
    BY <1>11, <1>a DEF SelectForDelete, Select, HandlerOK, Uploads
  <2>2. CASE blob = NoBlob
    <3>1. /\ pc' = [pc EXCEPT ![c] = "answered"]
          /\ answer' = [answer EXCEPT ![c] = [code |-> 200, version |-> 0]]
      BY <1>11, <2>2 DEF SelectForDelete, AnswerWith
    <3> QED
      BY <1>10, <2>1, <2>2, <3>1 DEF Deletes
  <2>3. CASE blob # NoBlob
    <3>1. pc' = [pc EXCEPT ![c] = "deleting"] /\ UNCHANGED answer
      BY <1>11, <2>3 DEF SelectForDelete, Enter
    <3>2. \A o \in Client \ {c} : AbstractRequest(o)' = AbstractRequest(o)
      BY <2>1, <3>1, SameRequest
    <3>3. AbstractRequest(c)' = AbstractRequest(c)
      BY <2>1, <3>1 DEF AbstractRequest
    <3> QED
      BY <2>1, <3>2, <3>3 DEF Register!vars, StoredVersion
  <2> QED
    BY <2>2, <2>3
<1>12. ASSUME NEW c \in Client, CommitDelete(c) PROVE Register!Delete(c)
  <2>1. pc[c] = "deleting" /\ call[c] \in Deletes /\ UNCHANGED call
    BY <1>12, <1>a DEF CommitDelete, HandlerOK, Uploads
  <2>2. \A o \in Client \ {c} : pc[o] \notin {"committed", "refreshed"}
    BY <2>1, <1>a DEF Working
  <2>3. /\ pc' = [pc EXCEPT ![c] = "answered"] /\ blob' = NoBlob
        /\ answer' = [answer EXCEPT ![c] = [code |-> 200, version |-> 0]]
    BY <1>12 DEF CommitDelete, AnswerWith
  <2> QED
    BY <1>10, <2>1, <2>2, <2>3 DEF Deletes
<1>13. ASSUME NEW c \in Client, Return(c) PROVE Register!Return(c)
  <2>1. /\ pc[c] = "answered" /\ pc' = [pc EXCEPT ![c] = "idle"]
        /\ call' = [call EXCEPT ![c] = NoCall] /\ answer' = [answer EXCEPT ![c] = NoAnswer]
        /\ UNCHANGED blob
    BY <1>13 DEF Return
  <2>2. \A o \in Client \ {c} : AbstractRequest(o)' = AbstractRequest(o)
    BY <2>1, SameRequest
  <2>3. AbstractRequest(c).state = "done" /\ AbstractRequest(c)' = Register!Idle
    BY <2>1 DEF AbstractRequest, Register!Idle
  <2>4. Requests' = [Requests EXCEPT ![c] = Register!Idle]
    BY <2>2, <2>3, OneRequestChanges
  <2> QED
    BY <2>1, <2>3, <2>4 DEF Register!Return, Requests, StoredVersion
<1>14. ASSUME Crash PROVE Register!Crash
  <2>1. \A c \in Client : AbstractRequest(c)' = Register!Idle
    BY <1>14 DEF Crash, AbstractRequest, Register!Idle
  <2> QED
    BY <1>14, <2>1 DEF Crash, Register!Crash, StoredVersion
<1> QED
  BY <1>1, <1>2, <1>3, <1>4, <1>6, <1>7, <1>8, <1>9, <1>11, <1>12, <1>13, <1>14
  DEF Next, Upload, DeleteVault, Register!Next

\* Uploads and deletes implement the compare-and-swap register as long as no
\* two of them overlap between their first SELECT and their answer
\* (src/server/app/routers/vault.py), for any number of requests in flight.
THEOREM Refines == Spec => ImplementsRegister
<1>1. Init => Register!Init
  BY DEF Init, Register!Init, Register!Idle, AbstractRequest, StoredVersion
<1>2. IInv /\ [Next]_vars => [~overlapped' => Register!Next]_(Register!vars)
  BY StepRefines
<1> QED
  BY <1>1, <1>2, Invariance, PTL DEF Spec, ImplementsRegister

=============================================================================
