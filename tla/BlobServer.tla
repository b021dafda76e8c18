----------------------------- MODULE BlobServer -----------------------------
(***************************************************************************)
(* PUT and DELETE /vault of one user (src/server/app/routers/vault.py).    *)
(* The handlers are plain `def` functions, run on a thread pool, each with *)
(* its own session: a SELECT, a test in Python, a write, and two further   *)
(* SELECTs before the answer.  Every statement is atomic; nothing ties one *)
(* to the next.  GET /vault and GET /vault/meta are single SELECTs that    *)
(* change nothing.                                                         *)
(***************************************************************************)
EXTENDS Naturals, FiniteSets

CONSTANTS Client,       \* requests in flight at once: one thread each
          Data,         \* ciphertexts
          NoBlob,       \* the user has no row in vault_blobs
          MaxVersion    \* bound: an upload based on this version is not sent

ASSUME NoBlobAssumption == NoBlob \notin [version : Nat, data : Data]
ASSUME MaxVersionAssumption == MaxVersion \in Nat

VARIABLES blob,       \* the VaultBlob row, or NoBlob
          pc,         \* per request: the next step of its handler
          call,       \* per request: what was asked
          seen,       \* per request: the version its first SELECT found
          answer,     \* per request: status code and version of the response
          overlapped  \* history: two writing handlers have been between their
                      \* first SELECT and their answer at the same time

vars == <<blob, pc, call, seen, answer, overlapped>>

NoCall == [op |-> "none", base |-> 0, data |-> NoBlob]
NoAnswer == [code |-> 0, version |-> 0]

Versioned(v, d) == [version |-> v, data |-> d]

StoredVersion == IF blob = NoBlob THEN 0 ELSE blob.version

Init ==
    /\ blob = NoBlob
    /\ pc = [c \in Client |-> "idle"]
    /\ call = [c \in Client |-> NoCall]
    /\ seen = [c \in Client |-> 0]
    /\ answer = [c \in Client |-> NoAnswer]
    /\ overlapped = FALSE

Goto(c, step) == pc' = [pc EXCEPT ![c] = step]

AnswerWith(c, code, v) ==
    /\ Goto(c, "answered")
    /\ answer' = [answer EXCEPT ![c] = [code |-> code, version |-> v]]

\* Between a SELECT it will act on and the answer.
Working(c) == pc[c] \in {"checked", "committed", "refreshed", "deleting"}

\* Uploads that reach the database: body, size and If-Match have been accepted.
Uploads == {[op |-> "put", base |-> b, data |-> d] : b \in 0 .. MaxVersion, d \in Data}
Deletes == {[op |-> "delete", base |-> 0, data |-> NoBlob]}

Invoke(c) ==
    /\ pc[c] = "idle"
    /\ \E r \in Uploads \union Deletes : call' = [call EXCEPT ![c] = r]
    /\ Goto(c, "called")
    /\ UNCHANGED <<blob, seen, answer, overlapped>>

Select(c) ==
    /\ pc[c] = "called"
    /\ seen' = [seen EXCEPT ![c] = StoredVersion]
    /\ UNCHANGED <<blob, call>>

\* The handler goes on to write on the strength of what it has read.
Enter(c, step) ==
    /\ Goto(c, step)
    /\ overlapped' = (overlapped \/ \E o \in Client \ {c} : Working(o))
    /\ UNCHANGED answer

\* upload: a stale base is answered 409 with the version found.
SelectStale(c) ==
    /\ call[c].op = "put" /\ call[c].base # StoredVersion
    /\ Select(c)
    /\ AnswerWith(c, 409, StoredVersion)
    /\ UNCHANGED overlapped

\* Mutant: any base but a missing one is let through.
SelectUnchecked(c) ==
    /\ call[c].op = "put"
    /\ Select(c)
    /\ Enter(c, "checked")

SelectCurrent(c) ==
    /\ call[c].op = "put" /\ call[c].base = StoredVersion
    /\ Select(c)
    /\ Enter(c, "checked")

\* The row was missing: INSERT version 1, which fails on the primary key (500)
\* if another request has inserted it since.
CommitInsert(c) ==
    /\ pc[c] = "checked" /\ seen[c] = 0
    /\ \/ /\ blob = NoBlob
          /\ blob' = Versioned(1, call[c].data)
          /\ Goto(c, "committed")
          /\ UNCHANGED answer
       \/ /\ blob # NoBlob
          /\ AnswerWith(c, 500, 0)
          /\ UNCHANGED blob
    /\ UNCHANGED <<call, seen, overlapped>>

\* Mutant: the counter is not moved by an update.
CommitUpdateSameVersion(c) ==
    /\ pc[c] = "checked" /\ seen[c] # 0
    /\ \/ /\ blob # NoBlob
          /\ blob' = Versioned(seen[c], call[c].data)
          /\ Goto(c, "committed")
          /\ UNCHANGED answer
       \/ /\ blob = NoBlob
          /\ AnswerWith(c, 500, 0)
          /\ UNCHANGED blob
    /\ UNCHANGED <<call, seen, overlapped>>

\* The row was there: UPDATE ... WHERE user_id, with the version computed from
\* the one found earlier; StaleDataError (500) if the row is gone.
CommitUpdate(c) ==
    /\ pc[c] = "checked" /\ seen[c] # 0
    /\ \/ /\ blob # NoBlob
          /\ blob' = Versioned(seen[c] + 1, call[c].data)
          /\ Goto(c, "committed")
          /\ UNCHANGED answer
       \/ /\ blob = NoBlob
          /\ AnswerWith(c, 500, 0)
          /\ UNCHANGED blob
    /\ UNCHANGED <<call, seen, overlapped>>

\* db.refresh re-reads the row; it may be gone (500).
Refresh(c) ==
    /\ pc[c] = "committed"
    /\ \/ /\ blob # NoBlob
          /\ Goto(c, "refreshed")
          /\ UNCHANGED answer
       \/ /\ blob = NoBlob
          /\ AnswerWith(c, 500, 0)
    /\ UNCHANGED <<blob, call, seen, overlapped>>

\* The commit of the audit row expires the object, so the version answered is
\* the one stored now.
Respond(c) ==
    /\ pc[c] = "refreshed"
    /\ \/ /\ blob # NoBlob
          /\ AnswerWith(c, 200, blob.version)
       \/ /\ blob = NoBlob
          /\ AnswerWith(c, 500, 0)
    /\ UNCHANGED <<blob, call, seen, overlapped>>

\* delete_vault: DELETE is sent only if the SELECT found a row.
SelectForDelete(c) ==
    /\ call[c].op = "delete"
    /\ Select(c)
    /\ \/ /\ blob # NoBlob
          /\ Enter(c, "deleting")
       \/ /\ blob = NoBlob
          /\ AnswerWith(c, 200, 0)
          /\ UNCHANGED overlapped

CommitDelete(c) ==
    /\ pc[c] = "deleting"
    /\ blob' = NoBlob
    /\ AnswerWith(c, 200, 0)
    /\ UNCHANGED <<call, seen, overlapped>>

Return(c) ==
    /\ pc[c] = "answered"
    /\ Goto(c, "idle")
    /\ call' = [call EXCEPT ![c] = NoCall]
    /\ seen' = [seen EXCEPT ![c] = 0]
    /\ answer' = [answer EXCEPT ![c] = NoAnswer]
    /\ UNCHANGED <<blob, overlapped>>

\* The server process stops and restarts: committed rows survive, handlers do not.
Crash ==
    /\ \E c \in Client : pc[c] # "idle"
    /\ pc' = [c \in Client |-> "idle"]
    /\ call' = [c \in Client |-> NoCall]
    /\ seen' = [c \in Client |-> 0]
    /\ answer' = [c \in Client |-> NoAnswer]
    /\ UNCHANGED <<blob, overlapped>>

Upload(c) == \/ SelectStale(c) \/ SelectCurrent(c) \/ CommitInsert(c) \/ CommitUpdate(c)
             \/ Refresh(c) \/ Respond(c)

DeleteVault(c) == SelectForDelete(c) \/ CommitDelete(c)

Next == \/ \E c \in Client : Invoke(c) \/ Upload(c) \/ DeleteVault(c) \/ Return(c)
        \/ Crash

Spec == Init /\ [][Next]_vars

(***************************************************************************)
(* Properties.                                                             *)
(***************************************************************************)
Steps == {"idle", "called", "checked", "committed", "refreshed", "deleting", "answered"}

\* Types, and the version a handler works from never exceeds the bound on bases.
TypeOK ==
    /\ blob \in [version : 1 .. MaxVersion + 1, data : Data] \union {NoBlob}
    /\ pc \in [Client -> Steps]
    /\ call \in [Client -> Uploads \union Deletes \union {NoCall}]
    /\ seen \in [Client -> 0 .. MaxVersion + 1]
    /\ answer \in [Client -> [code : {0, 200, 409, 500}, version : 0 .. MaxVersion + 1]]
    /\ overlapped \in BOOLEAN

\* The request of the register that a handler's state stands for.
AbstractRequest(c) ==
    CASE pc[c] = "idle" -> [state |-> "idle"]
      [] pc[c] \in {"called", "checked", "deleting"} ->
             IF call[c].op = "put"
             THEN [state |-> "pending", op |-> "put", base |-> call[c].base, data |-> call[c].data]
             ELSE [state |-> "pending", op |-> "delete"]
      [] pc[c] \in {"committed", "refreshed"} ->
             [state |-> "done", code |-> 200, version |-> StoredVersion]
      [] pc[c] = "answered" ->
             [state |-> "done", code |-> answer[c].code, version |-> answer[c].version]

Register == INSTANCE CasRegister WITH
    Bases <- 0 .. MaxVersion,
    NoData <- NoBlob,
    version <- StoredVersion,
    data <- IF blob = NoBlob THEN NoBlob ELSE blob.data,
    req <- [c \in Client |-> AbstractRequest(c)]

\* As long as no two writing handlers have overlapped, the endpoints are the register:
\* every step is one of its steps, with the answers it gives (upload and
\* delete_vault, routers/vault.py).
ImplementsRegister == Register!Init /\ [][~overlapped' => Register!Next]_(Register!vars)

Writes(c) == pc[c] = "checked" /\ blob' # blob /\ pc'[c] = "committed"

\* "The write is accepted only if the client's base version still matches the
\* stored one" (routers/vault.py:101-102), whatever runs at the same time.
AcceptedOnlyOnMatchingBase ==
    [][\A c \in Client : Writes(c) => call[c].base = StoredVersion]_vars
=============================================================================
