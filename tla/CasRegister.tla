----------------------------- MODULE CasRegister -----------------------------
(***************************************************************************)
(* What the blob endpoints promise (docstring of upload in                 *)
(* src/server/app/routers/vault.py, VaultBlob in                           *)
(* src/server/app/models.py): one versioned register per user.  A request  *)
(* takes effect in one step between its call and its answer; an upload is  *)
(* accepted exactly when its base version is the stored one, and a refused *)
(* one is told the stored version.                                         *)
(***************************************************************************)
EXTENDS Naturals

CONSTANTS Client, Data, NoData, Bases

VARIABLES version,   \* 0: nothing stored
          data,
          req        \* per client: its request and, once decided, the answer

vars == <<version, data, req>>

Idle == [state |-> "idle"]
PutCall(base, d) == [state |-> "pending", op |-> "put", base |-> base, data |-> d]
DeleteCall == [state |-> "pending", op |-> "delete"]
Calls == [state : {"pending"}, op : {"put"}, base : Bases, data : Data] \union {DeleteCall}
Answer(code, v) == [state |-> "done", code |-> code, version |-> v]

Init == version = 0 /\ data = NoData /\ req = [c \in Client |-> Idle]

Invoke(c) ==
    /\ req[c] = Idle
    /\ \E call \in Calls : req' = [req EXCEPT ![c] = call]
    /\ UNCHANGED <<version, data>>

Accept(c) ==
    \E d \in Data :
        /\ req[c] = PutCall(version, d)
        /\ version' = version + 1
        /\ data' = d
        /\ req' = [req EXCEPT ![c] = Answer(200, version + 1)]

Refuse(c) ==
    /\ \E b \in Bases \ {version}, d \in Data : req[c] = PutCall(b, d)
    /\ req' = [req EXCEPT ![c] = Answer(409, version)]
    /\ UNCHANGED <<version, data>>

Delete(c) ==
    /\ req[c] = DeleteCall
    /\ version' = 0
    /\ data' = NoData
    /\ req' = [req EXCEPT ![c] = Answer(200, 0)]

Return(c) ==
    /\ req[c].state = "done"
    /\ req' = [req EXCEPT ![c] = Idle]
    /\ UNCHANGED <<version, data>>

\* The server stops: every caller sees a broken connection, whether or not its
\* request has taken effect.
Crash ==
    /\ req' = [c \in Client |-> Idle]
    /\ UNCHANGED <<version, data>>

Next == \/ \E c \in Client : Invoke(c) \/ Accept(c) \/ Refuse(c) \/ Delete(c) \/ Return(c)
        \/ Crash

Spec == Init /\ [][Next]_vars
=============================================================================
