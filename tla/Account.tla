------------------------------ MODULE Account ------------------------------
(***************************************************************************)
(* One account at the server: logging in, rotating refresh tokens, logging *)
(* out and enrolling a TOTP secret (src/server/app/routers/auth.py), used  *)
(* by clients that may give up on an answer (src/zkvault/syncclient.py).   *)
(*                                                                         *)
(* A handler runs on a thread of its own and commits several times; every  *)
(* SELECT, commit or bulk UPDATE is one step.  A client that gives up      *)
(* leaves its handler running.  Time is not modelled: a refresh token, a   *)
(* challenge or an access token may be found expired whenever it is used.  *)
(***************************************************************************)
EXTENDS Naturals

CONSTANTS Client,      \* SyncClient objects
          Thread,      \* server threads
          NoThread,
          MaxTokens,   \* bound: refresh tokens issued
          MaxSecrets,  \* bound: TOTP secrets drawn
          MaxFaults    \* bound: answers given up on and server crashes

ASSUME BoundsAssumption == MaxTokens \in Nat /\ MaxSecrets \in Nat /\ MaxFaults \in Nat
ASSUME NoThreadAssumption == NoThread \notin Thread

VARIABLES
    \* the database
    row,            \* refresh_tokens: per token issued, its family and whether it is revoked
    issued,         \* number of rows
    totp,           \* users.totp_secret (0: none) and users.totp_enabled
    drawn,          \* TOTP secrets drawn
    \* the handlers
    pc, req,        \* per thread: its next step, and the request it serves
    family,         \* per thread: the family it works for; 0 asks for a new one
    answer,         \* per thread: what it answers
    \* the clients
    waits,          \* per client: the thread it waits for, or NoThread
    holds,          \* per client: its refresh token, or 0; and whether it holds a challenge
    authenticator,  \* the secret in the user's authenticator app, or 0
    \* history
    ended,          \* families revoked by a logout or by reuse detection
    raced,          \* families used by another handler while one was rotating their token
    proved,         \* TOTP secrets for which a code has been verified by mfa_activate
    enrolRace,      \* an enrolment and an activation have overlapped
    lost,           \* clients that have missed an answer since their last login
    faults          \* answers given up on and crashes so far

database == <<row, issued, totp, drawn>>
handlers == <<pc, req, family, answer>>
clients == <<waits, holds, authenticator>>
history == <<ended, raced, proved, enrolRace, lost, faults>>
vars == <<database, handlers, clients, history>>

Token == 1 .. MaxTokens
Secret == 1 .. MaxSecrets

NoRow == [family |-> 0, revoked |-> FALSE]
NoRequest == [op |-> "none", arg |-> 0]
NoAnswer == [code |-> 0, value |-> 0]
Nothing == [token |-> 0, challenge |-> FALSE]

Init ==
    /\ row = [k \in Token |-> NoRow]
    /\ issued = 0
    /\ totp = [secret |-> 0, enabled |-> FALSE]
    /\ drawn = 0
    /\ pc = [t \in Thread |-> "free"]
    /\ req = [t \in Thread |-> NoRequest]
    /\ family = [t \in Thread |-> 0]
    /\ answer = [t \in Thread |-> NoAnswer]
    /\ waits = [c \in Client |-> NoThread]
    /\ holds = [c \in Client |-> Nothing]
    /\ authenticator = 0
    /\ ended = {}
    /\ raced = {}
    /\ proved = {}
    /\ enrolRace = FALSE
    /\ lost = {}
    /\ faults = 0

Issued(k) == row[k].family # 0
Live(k) == Issued(k) /\ ~row[k].revoked
LiveIn(f) == {k \in Token : Live(k) /\ row[k].family = f}

\* Between the SELECT that found the token good and the insert of its successor.
Rotating(t) == req[t].op = "refresh" /\ pc[t] \in {"spend", "issue"}
RotatedBut(t) == {family[u] : u \in {v \in Thread \ {t} : Rotating(v)}}

(***************************************************************************)
(* The client.                                                             *)
(***************************************************************************)
Call(c, op, arg) ==
    /\ waits[c] = NoThread
    /\ \E t \in Thread :
           /\ pc[t] = "free"
           /\ pc' = [pc EXCEPT ![t] = "called"]
           /\ req' = [req EXCEPT ![t] = [op |-> op, arg |-> arg]]
           /\ waits' = [waits EXCEPT ![c] = t]
    /\ UNCHANGED <<database, family, answer, holds, authenticator, history>>

\* A client logs in once, with a TOTP code or, as 0, without; a code stands for
\* the secret it was computed from.
CallLogin(c) == holds[c] = Nothing /\ \E code \in {0, authenticator} : Call(c, "login", code)
CallVerify(c) == holds[c].challenge /\ Call(c, "verify", authenticator)

\* _try_refresh, after a 401 to some other request.
CallRefresh(c) == holds[c].token # 0 /\ Call(c, "refresh", holds[c].token)

\* Requests that carry an access token; when it has expired, _request refreshes first.
CallLogout(c) == holds[c].token # 0 /\ Call(c, "logout", 0)
CallEnroll(c) == holds[c].token # 0 /\ Call(c, "enroll", 0)
CallActivate(c) == holds[c].token # 0 /\ authenticator # 0 /\ Call(c, "activate", authenticator)

\* The handler is done with; its thread is free for the next request.
Release(t) ==
    /\ pc' = [pc EXCEPT ![t] = "free"]
    /\ req' = [req EXCEPT ![t] = NoRequest]
    /\ family' = [family EXCEPT ![t] = 0]
    /\ answer' = [answer EXCEPT ![t] = NoAnswer]

\* Mutant: a refreshed client goes on with the refresh token it had.
AfterRefreshKeeping(held, a) == IF a.code = 200 THEN held ELSE Nothing

\* _try_refresh: the new tokens, or none at all.
AfterRefresh(held, a) == IF a.code = 200 THEN [held EXCEPT !.token = a.value] ELSE Nothing

\* login and complete_mfa raise on anything else, and the object keeps what it had.
AfterLogin(held, a) ==
    IF a.code = 200 THEN [token |-> a.value, challenge |-> FALSE]
    ELSE IF a.code = 202 THEN [token |-> 0, challenge |-> TRUE]
    ELSE held

\* What a client holds after the answer; logout drops the tokens whatever it is.
After(op, held, a) ==
    IF op = "refresh" THEN AfterRefresh(held, a)
    ELSE IF op \in {"login", "verify"} THEN AfterLogin(held, a)
    ELSE IF op = "logout" THEN Nothing
    ELSE held

Receive(c) ==
    LET t == waits[c] IN
    /\ t # NoThread /\ pc[t] = "done"
    /\ Release(t)
    /\ waits' = [waits EXCEPT ![c] = NoThread]
    /\ holds' = [holds EXCEPT ![c] = After(req[t].op, holds[c], answer[t])]
    /\ authenticator' =
           IF req[t].op = "enroll" /\ answer[t].code = 200 THEN answer[t].value ELSE authenticator
    /\ lost' = IF req[t].op \in {"login", "verify"} /\ answer[t].code = 200 THEN lost \ {c} ELSE lost
    /\ UNCHANGED <<database, ended, raced, proved, enrolRace, faults>>

Fault == faults < MaxFaults /\ faults' = faults + 1

\* The request times out: the object keeps its tokens, the handler its thread.
GiveUp(c) ==
    /\ Fault
    /\ waits[c] # NoThread
    /\ waits' = [waits EXCEPT ![c] = NoThread]
    /\ lost' = lost \union {c}
    /\ UNCHANGED <<database, handlers, holds, authenticator, ended, raced, proved, enrolRace>>

\* The command ends; tokens are never stored.
Close(c) ==
    /\ waits[c] = NoThread /\ holds[c] # Nothing
    /\ holds' = [holds EXCEPT ![c] = Nothing]
    /\ UNCHANGED <<database, handlers, waits, authenticator, history>>

\* An answer nobody waits for.
Discard(t) ==
    /\ pc[t] = "done" /\ \A c \in Client : waits[c] # t
    /\ Release(t)
    /\ UNCHANGED <<database, clients, history>>

(***************************************************************************)
(* The handlers.                                                           *)
(***************************************************************************)
Serves(t, op) == pc[t] = "called" /\ req[t].op = op

Goto(t, step) == pc' = [pc EXCEPT ![t] = step]

Reply(t, code, value) ==
    /\ Goto(t, "done")
    /\ req' = [req EXCEPT ![t].arg = 0]
    /\ family' = [family EXCEPT ![t] = 0]
    /\ answer' = [answer EXCEPT ![t] = [code |-> code, value |-> value]]

\* The handler goes on, or starts, with its request.
Continue(t, step) == Goto(t, step) /\ UNCHANGED <<req, family, answer>>

\* login, the auth secret being right; 202 stands for MfaRequiredOut, a challenge.
Login(t) ==
    /\ Serves(t, "login")
    /\ \/ totp.enabled /\ req[t].arg = 0 /\ Reply(t, 202, 0)
       \/ totp.enabled /\ req[t].arg \notin {0, totp.secret} /\ Reply(t, 401, 0)
       \/ (totp.enabled => req[t].arg = totp.secret) /\ Continue(t, "issue")
    /\ UNCHANGED <<database, clients, history>>

\* mfa_verify; an expired challenge is refused like a wrong code.
MfaVerify(t) ==
    /\ Serves(t, "verify")
    /\ \/ totp.enabled /\ req[t].arg = totp.secret /\ Continue(t, "issue")
       \/ Reply(t, 401, 0)
    /\ UNCHANGED <<database, clients, history>>

\* Mutant: the new family is left empty.
IssueTokensUnnamed(t) ==
    /\ pc[t] = "issue"
    /\ issued < MaxTokens
    /\ issued' = issued + 1
    /\ row' = [row EXCEPT ![issued'] = [family |-> family[t], revoked |-> FALSE]]
    /\ Reply(t, 200, issued')
    /\ UNCHANGED <<totp, drawn, clients, history>>

\* Mutant: a refresh makes the token it was given good again.
IssueTokensRenewing(t) ==
    /\ pc[t] = "issue"
    /\ issued < MaxTokens
    /\ LET k == IF family[t] = 0 THEN issued + 1 ELSE req[t].arg IN
       /\ issued' = IF family[t] = 0 THEN k ELSE issued
       /\ row' = [row EXCEPT ![k] =
                     [family |-> IF family[t] = 0 THEN k ELSE family[t], revoked |-> FALSE]]
       /\ Reply(t, 200, k)
    /\ UNCHANGED <<totp, drawn, clients, history>>

\* _issue_tokens: a row for the new token, in the family given or in a new one.
IssueTokens(t) ==
    /\ pc[t] = "issue"
    /\ issued < MaxTokens
    /\ issued' = issued + 1
    /\ row' = [row EXCEPT ![issued'] =
                  [family |-> IF family[t] = 0 THEN issued' ELSE family[t], revoked |-> FALSE]]
    /\ Reply(t, 200, issued')
    /\ UNCHANGED <<totp, drawn, clients, history>>

\* refresh: find the token; one that was spent is reuse.
Refresh(t) ==
    /\ Serves(t, "refresh")
    /\ LET found == row[req[t].arg] IN
       \/ /\ Goto(t, IF found.revoked THEN "reuse" ELSE "spend")
          /\ family' = [family EXCEPT ![t] = found.family]
          /\ raced' = IF found.revoked THEN raced
                       ELSE raced \union ({found.family} \intersect RotatedBut(t))
          /\ UNCHANGED <<req, answer>>
       \/ /\ ~found.revoked   \* expired
          /\ Reply(t, 401, 0)
          /\ UNCHANGED raced
    /\ UNCHANGED <<database, clients, ended, proved, enrolRace, lost, faults>>

\* Mutant: the token presented is not spent.
SpendNothing(t) ==
    /\ pc[t] = "spend"
    /\ Continue(t, "issue")
    /\ UNCHANGED <<database, clients, history>>

Spend(t) ==
    /\ pc[t] = "spend"
    /\ row' = [row EXCEPT ![req[t].arg].revoked = TRUE]
    /\ Continue(t, "issue")
    /\ UNCHANGED <<issued, totp, drawn, clients, history>>

\* UPDATE refresh_tokens SET revoked = TRUE for the rows of these families.
Revoke(t, families) ==
    /\ row' = [k \in Token |->
                  IF row[k].family \in families THEN [row[k] EXCEPT !.revoked = TRUE] ELSE row[k]]
    /\ ended' = ended \union families
    /\ raced' = raced \union (families \intersect RotatedBut(t))

\* Mutant: only the token presented is revoked, which it is already.
RevokeFamilyOnlyToken(t) ==
    /\ pc[t] = "reuse"
    /\ ended' = ended \union {family[t]}
    /\ raced' = raced \union ({family[t]} \intersect RotatedBut(t))
    /\ Reply(t, 401, 0)
    /\ UNCHANGED <<row, issued, totp, drawn, clients, proved, enrolRace, lost, faults>>

RevokeFamily(t) ==
    /\ pc[t] = "reuse"
    /\ Revoke(t, {family[t]})
    /\ Reply(t, 401, 0)
    /\ UNCHANGED <<issued, totp, drawn, clients, proved, enrolRace, lost, faults>>

\* logout revokes every row of the user.
Logout(t) ==
    /\ Serves(t, "logout")
    /\ Revoke(t, {row[k].family : k \in {l \in Token : Issued(l)}})
    /\ Reply(t, 200, 0)
    /\ UNCHANGED <<issued, totp, drawn, clients, proved, enrolRace, lost, faults>>

At(step) == \E u \in Thread : pc[u] = step

\* Mutant: enrolment is allowed again after MFA has been enabled.
MfaEnrollAgain(t) ==
    /\ Serves(t, "enroll")
    /\ Continue(t, "enroll")
    /\ enrolRace' = (enrolRace \/ At("activate"))
    /\ UNCHANGED <<database, clients, ended, raced, proved, lost, faults>>

\* mfa_enroll: refused once MFA is enabled.
MfaEnroll(t) ==
    /\ Serves(t, "enroll")
    /\ \/ totp.enabled /\ Reply(t, 409, 0) /\ UNCHANGED enrolRace
       \/ /\ ~totp.enabled
          /\ Continue(t, "enroll")
          /\ enrolRace' = (enrolRace \/ At("activate"))
    /\ UNCHANGED <<database, clients, ended, raced, proved, lost, faults>>

StoreSecret(t) ==
    /\ pc[t] = "enroll"
    /\ drawn < MaxSecrets
    /\ drawn' = drawn + 1
    /\ totp' = [totp EXCEPT !.secret = drawn']
    /\ Reply(t, 200, drawn')
    /\ UNCHANGED <<row, issued, clients, history>>

\* mfa_activate: the code is verified against the secret read here.
MfaActivate(t) ==
    /\ Serves(t, "activate")
    /\ \/ /\ req[t].arg = totp.secret
          /\ Continue(t, "activate")
          /\ proved' = proved \union {totp.secret}
          /\ enrolRace' = (enrolRace \/ At("enroll"))
       \/ /\ req[t].arg # totp.secret
          /\ Reply(t, 400, 0)
          /\ UNCHANGED <<proved, enrolRace>>
    /\ UNCHANGED <<database, clients, ended, raced, lost, faults>>

EnableMfa(t) ==
    /\ pc[t] = "activate"
    /\ totp' = [totp EXCEPT !.enabled = TRUE]
    /\ Reply(t, 200, 0)
    /\ UNCHANGED <<row, issued, drawn, clients, history>>

\* The server stops: rows survive, handlers do not.
Crash ==
    /\ Fault
    /\ \E t \in Thread : pc[t] # "free"
    /\ pc' = [t \in Thread |-> "free"]
    /\ req' = [t \in Thread |-> NoRequest]
    /\ family' = [t \in Thread |-> 0]
    /\ answer' = [t \in Thread |-> NoAnswer]
    /\ waits' = [c \in Client |-> NoThread]
    /\ lost' = lost \union {c \in Client : waits[c] # NoThread}
    /\ UNCHANGED <<database, holds, authenticator, ended, raced, proved, enrolRace>>

ClientStep(c) ==
    \/ CallLogin(c) \/ CallVerify(c) \/ CallRefresh(c)
    \/ CallLogout(c) \/ CallEnroll(c) \/ CallActivate(c)
    \/ Receive(c) \/ GiveUp(c) \/ Close(c)

HandlerStep(t) ==
    \/ Login(t) \/ MfaVerify(t) \/ IssueTokens(t)
    \/ Refresh(t) \/ Spend(t) \/ RevokeFamily(t) \/ Logout(t)
    \/ MfaEnroll(t) \/ StoreSecret(t) \/ MfaActivate(t) \/ EnableMfa(t)
    \/ Discard(t)

Next ==
    \/ \E c \in Client : ClientStep(c)
    \/ \E t \in Thread : HandlerStep(t)
    \/ Crash

Spec == Init /\ [][Next]_vars

(***************************************************************************)
(* Properties.                                                             *)
(***************************************************************************)
Steps == {"free", "called", "issue", "spend", "reuse", "enroll", "activate", "done"}
Requests == {"none", "login", "verify", "refresh", "logout", "enroll", "activate"}

\* Types; tokens issued, and only those, have a family.
TypeOK ==
    /\ row \in [Token -> [family : 0 .. MaxTokens, revoked : BOOLEAN]]
    /\ issued \in 0 .. MaxTokens
    /\ \A k \in Token : Issued(k) <=> k <= issued
    /\ totp \in [secret : 0 .. MaxSecrets, enabled : BOOLEAN]
    /\ drawn \in 0 .. MaxSecrets
    /\ pc \in [Thread -> Steps]
    /\ req \in [Thread -> [op : Requests, arg : Nat]]
    /\ family \in [Thread -> 0 .. MaxTokens]
    /\ answer \in [Thread -> [code : {0, 200, 202, 400, 401, 409}, value : Nat]]
    /\ waits \in [Client -> Thread \union {NoThread}]
    /\ holds \in [Client -> [token : 0 .. MaxTokens, challenge : BOOLEAN]]
    /\ authenticator \in 0 .. MaxSecrets
    /\ ended \subseteq Token /\ raced \subseteq Token
    /\ proved \subseteq Secret
    /\ enrolRace \in BOOLEAN
    /\ lost \subseteq Client
    /\ faults \in 0 .. MaxFaults

\* Rotation: a family never has two live tokens, whatever is lost, retried or
\* crashes, unless two refreshes of it have overlapped (refresh in auth.py).
OneLivePerFamily ==
    \A k, l \in Token :
        Live(k) /\ Live(l) /\ row[k].family = row[l].family /\ row[k].family \notin raced => k = l

\* A family revoked by a logout or by reuse detection stays without a live
\* token, unless it was being rotated at that moment.
EndedStaysEnded == \A f \in ended \ raced : LiveIn(f) = {}

Members(f) == {k \in Token : row[k].family = f}

FamilyOf(f) == INSTANCE TokenFamily WITH used <- Members(f), live <- LiveIn(f), over <- f \in ended

\* Until another handler has used it while one was rotating its token, every
\* family is what rotation promises: each step is one of its steps, whatever
\* clients, timeouts and crashes do (refresh and logout in auth.py).
ImplementsFamily ==
    /\ \A f \in Token : FamilyOf(f)!Init
    /\ [][UNCHANGED <<row, ended>> \/
              \A f \in Token : f \notin raced' => [FamilyOf(f)!Next]_(FamilyOf(f)!vars)]_vars

Detects(t) == pc[t] = "called" /\ pc'[t] = "reuse"

\* A client that has missed no answer is taken for a replay only if its family
\* was ended by a logout: other clients, crashes between spending and issuing
\* included, cannot make it present a spent token (SyncClient._try_refresh).
NoFalseReuse ==
    [][\A c \in Client \ lost : \A t \in Thread :
           waits[c] = t /\ Detects(t) => row[req[t].arg].family \in ended]_vars

\* MFA is never on with a secret for which no code was verified, unless an
\* enrolment and an activation have overlapped (mfa_enroll, mfa_activate).
EnabledIsProved == totp.enabled /\ ~enrolRace => totp.secret \in proved
=============================================================================
