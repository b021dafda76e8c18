--------------------------- MODULE Account_proofs ---------------------------
(***************************************************************************)
(* Account for any number of clients and threads and any bounds: its       *)
(* types, one live token per family, ended families, enabled MFA, and that *)
(* no client is taken for a replay without cause.                          *)
(***************************************************************************)
EXTENDS Account, TLAPS

(***************************************************************************)
(* The inductive invariant.                                                *)
(***************************************************************************)
\* What a handler is doing fits its request.
ThreadOK(t) ==
    /\ pc[t] \in {"free", "called", "done"} => family[t] = 0
    /\ req[t].op = "refresh" /\ pc[t] \in {"called", "spend", "reuse", "issue"} =>
           req[t].arg \in 1 .. issued
    /\ pc[t] \in {"spend", "reuse"} =>
           req[t].op = "refresh" /\ family[t] = row[req[t].arg].family
    /\ pc[t] = "issue" =>
           /\ req[t].op \in {"login", "verify", "refresh"}
           /\ family[t] \in 0 .. issued
           /\ (family[t] = 0) <=> (req[t].op # "refresh")
    /\ pc[t] = "enroll" => req[t].op = "enroll"
    /\ pc[t] = "called" /\ req[t].op = "activate" => req[t].arg # 0
    /\ pc[t] = "done" =>
           /\ req[t].op \in {"login", "verify", "refresh"} => answer[t].value \in 0 .. issued
           /\ req[t].op = "enroll" => answer[t].value \in 0 .. MaxSecrets

\* Families and tokens in use have been issued.
IssuedOK ==
    /\ \A k \in Token : row[k].family <= issued
    /\ ended \subseteq 1 .. issued /\ raced \subseteq 1 .. issued
    /\ \A c \in Client : holds[c].token <= issued

Typed == TypeOK /\ IssuedOK /\ \A t \in Thread : ThreadOK(t)

\* Until its family is raced, the one handler rotating it finds it as it read it.
RotationOK(t) ==
    Rotating(t) /\ family[t] \notin raced =>
        /\ family[t] \notin ended
        /\ \A u \in Thread \ {t} : Rotating(u) => family[u] # family[t]
        /\ pc[t] = "spend" => LiveIn(family[t]) \subseteq {req[t].arg}
        /\ pc[t] = "issue" => LiveIn(family[t]) = {}

Rotation ==
    /\ OneLivePerFamily
    /\ EndedStaysEnded
    /\ \A t \in Thread : RotationOK(t)

\* Until they overlap, an activation finds the secret it verified, and an
\* enrolment finds MFA disabled.
Enrolment ==
    ~enrolRace =>
        /\ totp.enabled => totp.secret \in proved
        /\ At("activate") => totp.secret \in proved
        /\ At("enroll") => ~totp.enabled
        /\ ~(At("activate") /\ At("enroll"))

(***************************************************************************)
(* Types.                                                                  *)
(***************************************************************************)
\* The types hold initially.
LEMMA TypedInit == Init => Typed
<1> SUFFICES ASSUME Init PROVE Typed
  OBVIOUS
<1>1. TypeOK
  <2>1. /\ row \in [Token -> [family : 0 .. MaxTokens, revoked : BOOLEAN]]
        /\ totp \in [secret : 0 .. MaxSecrets, enabled : BOOLEAN]
        /\ holds \in [Client -> [token : 0 .. MaxTokens, challenge : BOOLEAN]]
    BY BoundsAssumption DEF Init, NoRow, Nothing
  <2>2. \A k \in Token : Issued(k) <=> k <= issued
    BY BoundsAssumption DEF Init, Issued, NoRow, Token
  <2>3. /\ pc \in [Thread -> Steps]
        /\ req \in [Thread -> [op : Requests, arg : Nat]]
    BY DEF Init, Steps, Requests, NoRequest
  <2>4. answer \in [Thread -> [code : {0, 200, 202, 400, 401, 409}, value : Nat]]
    BY DEF Init, NoAnswer
  <2>5. /\ family \in [Thread -> 0 .. MaxTokens]
        /\ waits \in [Client -> Thread \union {NoThread}]
        /\ issued \in 0 .. MaxTokens
        /\ drawn \in 0 .. MaxSecrets
        /\ authenticator \in 0 .. MaxSecrets
        /\ faults \in 0 .. MaxFaults
    BY BoundsAssumption DEF Init
  <2>6. /\ ended \subseteq Token /\ raced \subseteq Token
        /\ proved \subseteq Secret
        /\ enrolRace \in BOOLEAN
        /\ lost \subseteq Client
    BY DEF Init
  <2> QED
    BY <2>1, <2>2, <2>3, <2>4, <2>5, <2>6 DEF TypeOK
<1>2. IssuedOK
  BY DEF Init, IssuedOK, Token, NoRow, Nothing
<1>3. \A t \in Thread : ThreadOK(t)
  BY DEF Init, ThreadOK, NoRequest
<1> QED
  BY <1>1, <1>2, <1>3 DEF Typed

\* A handler that takes no step still fits its request: tokens are only added,
\* and keep their family.
LEMMA ThreadKept ==
    ASSUME Typed, NEW t \in Thread,
           issued' \in Nat, issued <= issued',
           \A k \in 1 .. issued : row'[k].family = row[k].family,
           pc'[t] = pc[t], req'[t] = req[t], family'[t] = family[t], answer'[t] = answer[t]
    PROVE  ThreadOK(t)'
<1>1. ThreadOK(t) /\ issued \in Nat
  BY BoundsAssumption DEF Typed, TypeOK
<1>2. req[t].arg \in 1 .. issued => row'[req[t].arg].family = row[req[t].arg].family
  OBVIOUS
<1>3. /\ 1 .. issued \subseteq 1 .. issued'
      /\ 0 .. issued \subseteq 0 .. issued'
  BY <1>1
<1>4. pc[t] \in {"spend", "reuse"} => req[t].arg \in 1 .. issued
  BY <1>1 DEF ThreadOK
<1> QED
  BY <1>1, <1>2, <1>3, <1>4 DEF ThreadOK

\* A request that arrives fits.
LEMMA TypedCall ==
    ASSUME Typed, NEW c \in Client, NEW op \in Requests, NEW arg \in Nat, Call(c, op, arg),
           op = "refresh" => arg \in 1 .. issued,
           op = "activate" => arg # 0
    PROVE  Typed'
<1>1. PICK t \in Thread :
          /\ pc[t] = "free"
          /\ pc' = [pc EXCEPT ![t] = "called"]
          /\ req' = [req EXCEPT ![t] = [op |-> op, arg |-> arg]]
          /\ waits' = [waits EXCEPT ![c] = t]
  BY DEF Call
<1>2. UNCHANGED <<row, issued, totp, drawn, family, answer, holds, authenticator,
                  ended, raced, proved, enrolRace, lost, faults>>
  BY DEF Call, database, history
<1>3. TypeOK'
  BY <1>1, <1>2 DEF Typed, TypeOK, Steps, Issued
<1>4. IssuedOK'
  BY <1>2 DEF Typed, IssuedOK
<1>5. ASSUME NEW u \in Thread PROVE ThreadOK(u)'
  <2>1. CASE u = t
    BY <1>1, <1>2, <2>1 DEF Typed, TypeOK, ThreadOK
  <2>2. CASE u # t
    <3>1. pc'[u] = pc[u] /\ req'[u] = req[u] /\ issued \in Nat
      BY <1>1, <2>2, BoundsAssumption DEF Typed, TypeOK
    <3> QED
      BY <1>2, <3>1, ThreadKept
  <2> QED
    BY <2>1, <2>2
<1> QED
  BY <1>3, <1>4, <1>5 DEF Typed

\* The types are kept by every step of a client.
LEMMA TypedClient ==
    ASSUME Typed, NEW c \in Client, ClientStep(c)
    PROVE  Typed'
<1>0. /\ TypeOK /\ IssuedOK /\ issued \in Nat
      /\ authenticator \in Nat
      /\ holds[c] \in [token : 0 .. MaxTokens, challenge : BOOLEAN]
      /\ holds[c].token <= issued
      /\ holds[c].token # 0 => holds[c].token \in 1 .. issued
  BY BoundsAssumption DEF Typed, TypeOK, IssuedOK
<1>1. {"login", "verify", "refresh", "logout", "enroll", "activate"} \subseteq Requests
  BY DEF Requests
<1>2. CASE CallLogin(c)
  BY <1>0, <1>1, <1>2, TypedCall DEF CallLogin
<1>3. CASE CallVerify(c)
  BY <1>0, <1>1, <1>3, TypedCall DEF CallVerify
<1>4. CASE CallRefresh(c)
  BY <1>0, <1>1, <1>4, TypedCall DEF CallRefresh
<1>5. CASE CallLogout(c)
  BY <1>0, <1>1, <1>5, TypedCall DEF CallLogout
<1>6. CASE CallEnroll(c)
  BY <1>0, <1>1, <1>6, TypedCall DEF CallEnroll
<1>7. CASE CallActivate(c)
  BY <1>0, <1>1, <1>7, TypedCall DEF CallActivate
<1>8. CASE Receive(c)
  <2> DEFINE t == waits[c]
             now == After(req[t].op, holds[c], answer[t])
  <2>1. /\ t \in Thread /\ pc[t] = "done" /\ Release(t)
        /\ waits' = [waits EXCEPT ![c] = NoThread]
        /\ holds' = [holds EXCEPT ![c] = now]
        /\ UNCHANGED <<row, issued, totp, drawn, ended, raced, proved, enrolRace, faults>>
    BY <1>0, <1>8 DEF Receive, TypeOK, database
  <2>2. now \in [token : 0 .. MaxTokens, challenge : BOOLEAN] /\ now.token <= issued
    <3>1. req[t].op \in {"login", "verify", "refresh"} =>
              answer[t].value \in 0 .. MaxTokens /\ answer[t].value <= issued
      BY <1>0, <2>1, BoundsAssumption DEF Typed, TypeOK, ThreadOK
    <3>2. Nothing \in [token : 0 .. MaxTokens, challenge : BOOLEAN] /\ Nothing.token <= issued
      BY <1>0, BoundsAssumption DEF TypeOK, Nothing
    <3>3. CASE req[t].op = "refresh"
      BY <1>0, <3>1, <3>2, <3>3 DEF After, AfterRefresh
    <3>4. CASE req[t].op \in {"login", "verify"}
      <4>1. /\ [token |-> answer[t].value, challenge |-> FALSE]
                    \in [token : 0 .. MaxTokens, challenge : BOOLEAN]
            /\ [token |-> 0, challenge |-> TRUE]
                    \in [token : 0 .. MaxTokens, challenge : BOOLEAN]
        BY <3>1, <3>4, BoundsAssumption
      <4> QED
        BY <1>0, <3>1, <3>4, <4>1 DEF After, AfterLogin
    <3>5. CASE req[t].op \notin {"login", "verify", "refresh"}
      BY <1>0, <3>2, <3>5 DEF After
    <3> QED
      BY <3>3, <3>4, <3>5
  <2>3. authenticator' \in 0 .. MaxSecrets /\ lost' \subseteq Client
    BY <1>0, <1>8, <2>1 DEF Receive, Typed, TypeOK, ThreadOK
  <2>4. TypeOK'
    <3> HIDE DEF now
    <3>1. holds' \in [Client -> [token : 0 .. MaxTokens, challenge : BOOLEAN]]
      BY <1>0, <2>1, <2>2 DEF TypeOK
    <3>2. /\ pc' \in [Thread -> Steps]
          /\ req' \in [Thread -> [op : Requests, arg : Nat]]
          /\ family' \in [Thread -> 0 .. MaxTokens]
          /\ answer' \in [Thread -> [code : {0, 200, 202, 400, 401, 409}, value : Nat]]
      BY <1>0, <2>1, BoundsAssumption
      DEF TypeOK, Release, Steps, NoRequest, NoAnswer, Requests
    <3> QED
      BY <1>0, <2>1, <2>3, <3>1, <3>2 DEF TypeOK, Issued
  <2>5. IssuedOK'
    BY <1>0, <2>1, <2>2 DEF TypeOK, IssuedOK
  <2>6. ASSUME NEW u \in Thread PROVE ThreadOK(u)'
    <3>1. CASE u = t
      BY <1>0, <2>1, <3>1 DEF Release, TypeOK, ThreadOK, NoRequest
    <3>2. CASE u # t
      BY <1>0, <2>1, <3>2, ThreadKept DEF Release, TypeOK
    <3> QED
      BY <3>1, <3>2
  <2> QED
    BY <2>4, <2>5, <2>6 DEF Typed
<1>9. CASE GiveUp(c) \/ Close(c)
  <2>1. /\ waits' \in [Client -> Thread \union {NoThread}]
        /\ holds' \in [Client -> [token : 0 .. MaxTokens, challenge : BOOLEAN]]
        /\ \A d \in Client : holds'[d].token <= issued
        /\ lost' \subseteq Client /\ faults' \in 0 .. MaxFaults
    <3>1. Nothing \in [token : 0 .. MaxTokens, challenge : BOOLEAN] /\ Nothing.token <= issued
      BY <1>0, BoundsAssumption DEF TypeOK, Nothing
    <3>2. CASE GiveUp(c)
      BY <1>0, <3>2, BoundsAssumption DEF TypeOK, IssuedOK, GiveUp, Fault
    <3>3. CASE Close(c)
      BY <1>0, <3>1, <3>3 DEF TypeOK, IssuedOK, Close, history
    <3> QED
      BY <1>9, <3>2, <3>3
  <2>2. UNCHANGED <<row, issued, totp, drawn, pc, req, family, answer, authenticator,
                    ended, raced, proved, enrolRace>>
    BY <1>9 DEF GiveUp, Close, database, handlers, history
  <2>3. TypeOK' /\ IssuedOK'
    BY <1>0, <2>1, <2>2 DEF TypeOK, IssuedOK, Issued
  <2>4. \A u \in Thread : ThreadOK(u)'
    BY <1>0, <2>2, ThreadKept
  <2> QED
    BY <2>3, <2>4 DEF Typed
<1> QED
  BY <1>2, <1>3, <1>4, <1>5, <1>6, <1>7, <1>8, <1>9 DEF ClientStep

\* What a step of one handler must leave behind it for its types to be kept.
LEMMA TypedLocal ==
    ASSUME Typed, NEW t \in Thread,
           NEW step \in Steps, pc' = [pc EXCEPT ![t] = step],
           NEW f \in 0 .. MaxTokens, family' = [family EXCEPT ![t] = f],
           req' \in [Thread -> [op : Requests, arg : Nat]],
           answer' \in [Thread -> [code : {0, 200, 202, 400, 401, 409}, value : Nat]],
           \A u \in Thread \ {t} : req'[u] = req[u] /\ answer'[u] = answer[u],
           issued' \in issued .. MaxTokens,
           row' \in [Token -> [family : 0 .. MaxTokens, revoked : BOOLEAN]],
           \A k \in 1 .. issued : row'[k].family = row[k].family,
           \A k \in Token : row'[k].family # 0 <=> k <= issued',
           \A k \in Token : row'[k].family <= issued',
           totp' \in [secret : 0 .. MaxSecrets, enabled : BOOLEAN],
           drawn' \in 0 .. MaxSecrets,
           ended' \subseteq 1 .. issued, raced' \subseteq 1 .. issued,
           proved' \subseteq Secret, enrolRace' \in BOOLEAN,
           UNCHANGED <<waits, holds, authenticator, lost, faults>>,
           ThreadOK(t)'
    PROVE  Typed'
<1>1. /\ issued \in Nat /\ issued' \in Nat /\ issued <= issued'
      /\ 1 .. issued \subseteq 1 .. issued' /\ 1 .. issued \subseteq Token
  BY BoundsAssumption DEF Typed, TypeOK, Token
<1>2. TypeOK'
  <2>1. /\ pc' \in [Thread -> Steps]
        /\ family' \in [Thread -> 0 .. MaxTokens]
        /\ issued' \in 0 .. MaxTokens
    BY <1>1, BoundsAssumption DEF Typed, TypeOK
  <2>2. \A k \in Token : Issued(k)' <=> k <= issued'
    BY DEF Issued
  <2> QED
    BY <1>1, <2>1, <2>2 DEF Typed, TypeOK
<1>3. IssuedOK'
  <2>1. \A c \in Client : holds[c].token \in Nat /\ holds[c].token <= issued
    BY DEF Typed, TypeOK, IssuedOK
  <2> QED
    BY <1>1, <2>1 DEF IssuedOK
<1>4. ASSUME NEW u \in Thread PROVE ThreadOK(u)'
  <2>1. CASE u # t
    <3>1. pc'[u] = pc[u] /\ family'[u] = family[u]
      BY <2>1 DEF Typed, TypeOK
    <3> QED
      BY <1>1, <2>1, <3>1, ThreadKept
  <2> QED
    BY <2>1
<1> QED
  BY <1>2, <1>3, <1>4 DEF Typed

\* A handler that replies keeps its own types, if the value is one it may send.
LEMMA TypedReply ==
    ASSUME Typed, NEW t \in Thread,
           NEW code \in {200, 202, 400, 401, 409}, NEW value \in Nat, Reply(t, code, value),
           req[t].op \in {"login", "verify", "refresh"} => value \in 0 .. issued',
           req[t].op = "enroll" => value \in 0 .. MaxSecrets
    PROVE  /\ pc' = [pc EXCEPT ![t] = "done"]
           /\ family' = [family EXCEPT ![t] = 0]
           /\ req' \in [Thread -> [op : Requests, arg : Nat]]
           /\ answer' \in [Thread -> [code : {0, 200, 202, 400, 401, 409}, value : Nat]]
           /\ \A u \in Thread \ {t} : req'[u] = req[u] /\ answer'[u] = answer[u]
           /\ ThreadOK(t)'
<1>1. /\ pc' = [pc EXCEPT ![t] = "done"]
      /\ family' = [family EXCEPT ![t] = 0]
      /\ req' = [req EXCEPT ![t].arg = 0]
      /\ answer' = [answer EXCEPT ![t] = [code |-> code, value |-> value]]
  BY DEF Reply, Goto
<1>2. /\ pc \in [Thread -> Steps]
      /\ req \in [Thread -> [op : Requests, arg : Nat]]
      /\ answer \in [Thread -> [code : {0, 200, 202, 400, 401, 409}, value : Nat]]
  BY DEF Typed, TypeOK
<1>3. pc'[t] = "done" /\ family'[t] = 0 /\ req'[t].op = req[t].op /\ answer'[t].value = value
  BY <1>1, <1>2 DEF Typed, TypeOK
<1>4. ThreadOK(t)'
  BY <1>3 DEF ThreadOK
<1> QED
  BY <1>1, <1>2, <1>4

\* A handler that goes on keeps its request and answer.
LEMMA TypedContinue ==
    ASSUME Typed, NEW t \in Thread, NEW step \in Steps, Continue(t, step)
    PROVE  /\ pc' = [pc EXCEPT ![t] = step]
           /\ family' = [family EXCEPT ![t] = family[t]]
           /\ family[t] \in 0 .. MaxTokens
           /\ req' \in [Thread -> [op : Requests, arg : Nat]]
           /\ answer' \in [Thread -> [code : {0, 200, 202, 400, 401, 409}, value : Nat]]
           /\ req' = req /\ answer' = answer /\ family' = family
           /\ pc'[t] = step
BY DEF Continue, Goto, Typed, TypeOK

\* What the types say of the database.
LEMMA TypedDatabase ==
    ASSUME Typed
    PROVE  /\ issued \in issued .. MaxTokens
           /\ row \in [Token -> [family : 0 .. MaxTokens, revoked : BOOLEAN]]
           /\ \A k \in Token : row[k].family # 0 <=> k <= issued
           /\ \A k \in Token : row[k].family <= issued
           /\ \A k \in Token : row[k].family # 0 => row[k].family \in 1 .. issued
           /\ totp \in [secret : 0 .. MaxSecrets, enabled : BOOLEAN]
           /\ drawn \in 0 .. MaxSecrets
           /\ ended \subseteq 1 .. issued /\ raced \subseteq 1 .. issued
           /\ proved \subseteq Secret /\ enrolRace \in BOOLEAN
           /\ 1 .. issued \subseteq Token
<1>1. /\ issued \in 0 .. MaxTokens
      /\ row \in [Token -> [family : 0 .. MaxTokens, revoked : BOOLEAN]]
      /\ \A k \in Token : row[k].family <= issued
  BY DEF Typed, TypeOK, IssuedOK
<1>2. \A k \in Token : row[k].family \in Nat
  BY <1>1, BoundsAssumption
<1> QED
  BY <1>1, <1>2, BoundsAssumption DEF Typed, TypeOK, IssuedOK, Issued, Token

\* A step of a handler that leaves the tables as they are.
LEMMA TypedNoWrite ==
    ASSUME Typed, NEW t \in Thread,
           UNCHANGED <<row, issued, totp, drawn, waits, holds, authenticator, ended, lost, faults>>,
           raced' \subseteq 1 .. issued, proved' \subseteq Secret, enrolRace' \in BOOLEAN,
           NEW step \in Steps, pc' = [pc EXCEPT ![t] = step],
           NEW f \in 0 .. MaxTokens, family' = [family EXCEPT ![t] = f],
           req' \in [Thread -> [op : Requests, arg : Nat]],
           answer' \in [Thread -> [code : {0, 200, 202, 400, 401, 409}, value : Nat]],
           \A u \in Thread \ {t} : req'[u] = req[u] /\ answer'[u] = answer[u],
           ThreadOK(t)'
    PROVE  Typed'
<1>1. /\ issued' \in issued .. MaxTokens
      /\ row' \in [Token -> [family : 0 .. MaxTokens, revoked : BOOLEAN]]
      /\ \A k \in 1 .. issued : row'[k].family = row[k].family
      /\ \A k \in Token : row'[k].family # 0 <=> k <= issued'
      /\ \A k \in Token : row'[k].family <= issued'
      /\ totp' \in [secret : 0 .. MaxSecrets, enabled : BOOLEAN]
      /\ drawn' \in 0 .. MaxSecrets
      /\ ended' \subseteq 1 .. issued
  BY TypedDatabase
<1> QED
  BY <1>1, TypedLocal

\* Steps that leave the tables as they are.
LEMMA TypedReading ==
    ASSUME Typed, NEW t \in Thread,
           Login(t) \/ MfaVerify(t) \/ Refresh(t) \/ MfaEnroll(t) \/ MfaActivate(t)
    PROVE  Typed'
<1>1. UNCHANGED <<row, issued, totp, drawn, waits, holds, authenticator, ended, lost, faults>>
  BY DEF Login, MfaVerify, Refresh, MfaEnroll, MfaActivate, database, clients, history
<1>2. /\ pc[t] = "called" /\ ThreadOK(t)
      /\ req[t].arg \in Nat
      /\ req[t].op = "refresh" => req[t].arg \in 1 .. issued /\ req[t].arg \in Token
  BY TypedDatabase
  DEF Login, MfaVerify, Refresh, MfaEnroll, MfaActivate, Serves, Typed, TypeOK, ThreadOK
<1>3. raced' \subseteq 1 .. issued
  <2>1. CASE Refresh(t)
    BY <1>2, <2>1, TypedDatabase DEF Refresh, Serves
  <2>2. CASE ~Refresh(t)
    BY <2>2, TypedDatabase DEF Login, MfaVerify, MfaEnroll, MfaActivate, history
  <2> QED
    BY <2>1, <2>2
<1>4. proved' \subseteq Secret /\ enrolRace' \in BOOLEAN
  <2>1. CASE MfaActivate(t)
    <3>1. totp.secret \in 0 .. MaxSecrets /\ proved \subseteq Secret /\ enrolRace \in BOOLEAN
      BY TypedDatabase
    <3>2. req[t].arg # 0 /\ (enrolRace' = enrolRace \/ enrolRace' = (enrolRace \/ At("enroll")))
      BY <1>2, <2>1 DEF MfaActivate, Serves, ThreadOK
    <3>3. enrolRace' \in BOOLEAN
      BY <3>1, <3>2
    <3>4. proved' = proved \/ (req[t].arg = totp.secret /\ proved' = proved \union {totp.secret})
      BY <2>1 DEF MfaActivate
    <3>5. req[t].arg = totp.secret => totp.secret \in Secret
      BY <3>1, <3>2, BoundsAssumption DEF Secret
    <3>6. proved' \subseteq Secret
      BY <3>1, <3>4, <3>5
    <3> QED
      BY <3>3, <3>6
  <2>2. CASE ~MfaActivate(t)
    BY <2>2, TypedDatabase DEF Login, MfaVerify, MfaEnroll, Refresh, history, At
  <2> QED
    BY <2>1, <2>2
<1>5. ASSUME NEW code \in {200, 202, 400, 401, 409}, Reply(t, code, 0) PROVE Typed'
  <2>1. 0 \in 0 .. issued' /\ 0 \in 0 .. MaxSecrets
    BY <1>1, BoundsAssumption DEF Typed, TypeOK
  <2>2. "done" \in Steps /\ 0 \in 0 .. MaxTokens
    BY BoundsAssumption DEF Steps
  <2>3. /\ pc' = [pc EXCEPT ![t] = "done"]
        /\ family' = [family EXCEPT ![t] = 0]
        /\ req' \in [Thread -> [op : Requests, arg : Nat]]
        /\ answer' \in [Thread -> [code : {0, 200, 202, 400, 401, 409}, value : Nat]]
        /\ \A u \in Thread \ {t} : req'[u] = req[u] /\ answer'[u] = answer[u]
        /\ ThreadOK(t)'
    BY <1>5, <2>1, TypedReply
  <2> QED
    BY <1>1, <1>3, <1>4, <2>2, <2>3, TypedNoWrite
<1>6. ASSUME NEW step \in Steps, Continue(t, step), ThreadOK(t)' PROVE Typed'
  <2>1. /\ pc' = [pc EXCEPT ![t] = step]
        /\ family' = [family EXCEPT ![t] = family[t]]
        /\ family[t] \in 0 .. MaxTokens
        /\ req' \in [Thread -> [op : Requests, arg : Nat]]
        /\ answer' \in [Thread -> [code : {0, 200, 202, 400, 401, 409}, value : Nat]]
        /\ \A u \in Thread \ {t} : req'[u] = req[u] /\ answer'[u] = answer[u]
    BY <1>6, TypedContinue
  <2> QED
    BY <1>1, <1>3, <1>4, <1>6, <2>1, TypedNoWrite
<1>7. ASSUME NEW step \in Steps, Continue(t, step)
      PROVE  pc'[t] = step /\ req'[t] = req[t] /\ family'[t] = 0 /\ issued' = issued /\ issued \in Nat
  BY <1>1, <1>2, <1>7, TypedContinue, BoundsAssumption DEF ThreadOK, Typed, TypeOK
<1>8. {"issue", "enroll", "activate", "spend", "reuse"} \subseteq Steps
  BY DEF Steps
<1>9. CASE Login(t) \/ MfaVerify(t)
  <2>1. ASSUME Continue(t, "issue") PROVE Typed'
    <3>1. ThreadOK(t)'
      BY <1>7, <1>8, <1>9, <2>1 DEF ThreadOK, Login, MfaVerify, Serves
    <3> QED
      BY <1>6, <1>8, <2>1, <3>1
  <2> QED
    BY <1>5, <1>9, <2>1 DEF Login, MfaVerify
<1>10. CASE Refresh(t)
  <2> DEFINE found == row[req[t].arg]
  <2>1. ASSUME NEW step \in {"reuse", "spend"}, Goto(t, step),
               family' = [family EXCEPT ![t] = found.family], UNCHANGED <<req, answer>>
        PROVE  Typed'
    <3>1. /\ req[t].op = "refresh" /\ req[t].arg \in 1 .. issued /\ req[t].arg \in Token
          /\ found.family \in 0 .. MaxTokens
          /\ pc \in [Thread -> Steps] /\ family \in [Thread -> 0 .. MaxTokens]
          /\ req \in [Thread -> [op : Requests, arg : Nat]]
          /\ answer \in [Thread -> [code : {0, 200, 202, 400, 401, 409}, value : Nat]]
      BY <1>2, <1>10, TypedDatabase DEF Refresh, Serves, Typed, TypeOK
    <3>2. pc' = [pc EXCEPT ![t] = step] /\ pc'[t] = step /\ family'[t] = found.family
      BY <2>1, <3>1 DEF Goto
    <3>3. ThreadOK(t)'
      BY <1>1, <2>1, <3>1, <3>2 DEF ThreadOK
    <3>4. /\ req' \in [Thread -> [op : Requests, arg : Nat]]
          /\ answer' \in [Thread -> [code : {0, 200, 202, 400, 401, 409}, value : Nat]]
          /\ \A u \in Thread \ {t} : req'[u] = req[u] /\ answer'[u] = answer[u]
      BY <2>1, <3>1
    <3>5. /\ step \in Steps /\ pc' = [pc EXCEPT ![t] = step]
          /\ found.family \in 0 .. MaxTokens /\ family' = [family EXCEPT ![t] = found.family]
      BY <1>8, <2>1, <3>1, <3>2
    <3> HIDE DEF found
    <3> QED
      BY <1>1, <1>3, <1>4, <3>3, <3>4, <3>5, TypedNoWrite
  <2> QED
    BY <1>5, <1>10, <2>1 DEF Refresh
<1>11. CASE MfaEnroll(t)
  <2>1. ASSUME Continue(t, "enroll") PROVE Typed'
    <3>1. ThreadOK(t)'
      BY <1>7, <1>8, <1>11, <2>1 DEF ThreadOK, MfaEnroll, Serves
    <3> QED
      BY <1>6, <1>8, <2>1, <3>1
  <2> QED
    BY <1>5, <1>11, <2>1 DEF MfaEnroll
<1>12. CASE MfaActivate(t)
  <2>1. ASSUME Continue(t, "activate") PROVE Typed'
    <3>1. ThreadOK(t)'
      BY <1>7, <1>8, <1>12, <2>1 DEF ThreadOK, MfaActivate, Serves
    <3> QED
      BY <1>6, <1>8, <2>1, <3>1
  <2> QED
    BY <1>5, <1>12, <2>1 DEF MfaActivate
<1> QED
  BY <1>9, <1>10, <1>11, <1>12

\* Steps that commit something.
LEMMA TypedWriting ==
    ASSUME Typed, NEW t \in Thread,
           \/ IssueTokens(t) \/ Spend(t) \/ RevokeFamily(t) \/ Logout(t)
           \/ StoreSecret(t) \/ EnableMfa(t)
    PROVE  Typed'
<1>1. UNCHANGED <<waits, holds, authenticator, proved, enrolRace, lost, faults>>
  BY DEF IssueTokens, Spend, RevokeFamily, Logout, StoreSecret, EnableMfa, clients, history
<1>2. ThreadOK(t) /\ issued \in Nat /\ family[t] \in 0 .. MaxTokens
  BY BoundsAssumption DEF Typed, TypeOK
<1>3. "done" \in Steps /\ "issue" \in Steps /\ 0 \in 0 .. MaxTokens
  BY BoundsAssumption DEF Steps
<1>4. ASSUME NEW families, families \subseteq 1 .. issued, Revoke(t, families)
      PROVE  /\ row' \in [Token -> [family : 0 .. MaxTokens, revoked : BOOLEAN]]
             /\ \A k \in Token : row'[k].family = row[k].family
             /\ ended' \subseteq 1 .. issued /\ raced' \subseteq 1 .. issued
  BY <1>4, TypedDatabase DEF Revoke
<1>5. ASSUME NEW code \in {200, 401}, NEW value \in Nat, Reply(t, code, value),
             req[t].op \in {"login", "verify", "refresh"} => value \in 0 .. issued',
             req[t].op = "enroll" => value \in 0 .. MaxSecrets,
             issued' \in issued .. MaxTokens,
             row' \in [Token -> [family : 0 .. MaxTokens, revoked : BOOLEAN]],
             \A k \in 1 .. issued : row'[k].family = row[k].family,
             \A k \in Token : row'[k].family # 0 <=> k <= issued',
             \A k \in Token : row'[k].family <= issued',
             totp' \in [secret : 0 .. MaxSecrets, enabled : BOOLEAN],
             drawn' \in 0 .. MaxSecrets,
             ended' \subseteq 1 .. issued, raced' \subseteq 1 .. issued
      PROVE  Typed'
  <2>1. /\ pc' = [pc EXCEPT ![t] = "done"]
        /\ family' = [family EXCEPT ![t] = 0]
        /\ req' \in [Thread -> [op : Requests, arg : Nat]]
        /\ answer' \in [Thread -> [code : {0, 200, 202, 400, 401, 409}, value : Nat]]
        /\ \A u \in Thread \ {t} : req'[u] = req[u] /\ answer'[u] = answer[u]
        /\ ThreadOK(t)'
    BY <1>5, TypedReply
  <2>2. proved' \subseteq Secret /\ enrolRace' \in BOOLEAN
    BY <1>1, TypedDatabase
  <2> QED
    BY <1>1, <1>3, <1>5, <2>1, <2>2, TypedLocal
<1>6. CASE IssueTokens(t)
  <2> DEFINE new == [family |-> IF family[t] = 0 THEN issued' ELSE family[t], revoked |-> FALSE]
  <2>1. /\ pc[t] = "issue" /\ issued' = issued + 1 /\ issued' \in 1 .. MaxTokens
        /\ row' = [row EXCEPT ![issued'] = new]
        /\ Reply(t, 200, issued')
        /\ UNCHANGED <<totp, drawn, ended, raced>>
    <3>1. /\ pc[t] = "issue" /\ issued < MaxTokens /\ issued' = issued + 1
          /\ row' = [row EXCEPT ![issued'] = new]
          /\ Reply(t, 200, issued')
          /\ UNCHANGED <<totp, drawn, ended, raced>>
      BY <1>6 DEF IssueTokens, history
    <3> HIDE DEF new
    <3> QED
      BY <1>2, <3>1, BoundsAssumption
  <2>2. new.family \in 1 .. issued' /\ new \in [family : 0 .. MaxTokens, revoked : BOOLEAN]
    <3>1. family[t] \in 0 .. issued
      BY <1>2, <2>1 DEF ThreadOK
    <3> QED
      BY <1>2, <2>1, <3>1, BoundsAssumption
  <2>3. issued' \in Token /\ issued' \notin 1 .. issued
    BY <1>2, <2>1 DEF Token
  <2> HIDE DEF new
  <2>4. \A k \in Token : row'[k] = IF k = issued' THEN new ELSE row[k]
    BY <2>1, TypedDatabase
  <2>5. /\ row' \in [Token -> [family : 0 .. MaxTokens, revoked : BOOLEAN]]
        /\ \A k \in 1 .. issued : row'[k].family = row[k].family
    BY <2>1, <2>2, <2>3, <2>4, TypedDatabase
  <2>6. ASSUME NEW k \in Token
        PROVE  (row'[k].family # 0 <=> k <= issued') /\ row'[k].family <= issued'
    <3>1. CASE k = issued'
      BY <2>1, <2>2, <2>4, <3>1
    <3>2. CASE k # issued'
      <4>1. k \in Nat /\ row[k].family \in Nat /\ row[k].family <= issued
            /\ (row[k].family # 0 <=> k <= issued)
        BY TypedDatabase, BoundsAssumption DEF Token
      <4> QED
        BY <1>2, <2>1, <2>4, <3>2, <4>1
    <3> QED
      BY <3>1, <3>2
  <2>7. issued' \in Nat /\ issued' \in 0 .. issued' /\ issued' \in issued .. MaxTokens
    BY <1>2, <2>1, BoundsAssumption
  <2>8. req[t].op # "enroll"
    BY <1>2, <2>1 DEF ThreadOK
  <2> QED
    BY <1>5, <2>1, <2>5, <2>6, <2>7, <2>8, TypedDatabase
<1>7. CASE Spend(t)
  <2>1. /\ pc[t] = "spend" /\ req[t].arg \in 1 .. issued /\ req[t].arg \in Token
        /\ family[t] = row[req[t].arg].family /\ req[t].op = "refresh"
    BY <1>2, <1>7, TypedDatabase DEF Spend, ThreadOK
  <2>2. /\ row' = [row EXCEPT ![req[t].arg].revoked = TRUE]
        /\ Continue(t, "issue")
        /\ UNCHANGED <<issued, totp, drawn, ended, raced>>
    BY <1>7 DEF Spend, history
  <2>3. /\ row' \in [Token -> [family : 0 .. MaxTokens, revoked : BOOLEAN]]
        /\ \A k \in Token : row'[k].family = row[k].family
    BY <2>2, TypedDatabase
  <2>4. /\ pc' = [pc EXCEPT ![t] = "issue"] /\ pc'[t] = "issue"
        /\ family' = [family EXCEPT ![t] = family[t]] /\ family' = family
        /\ req' \in [Thread -> [op : Requests, arg : Nat]]
        /\ answer' \in [Thread -> [code : {0, 200, 202, 400, 401, 409}, value : Nat]]
        /\ req' = req /\ answer' = answer
    BY <1>3, <2>2, TypedContinue
  <2>5. ThreadOK(t)'
    <3>1. family[t] \in 1 .. issued /\ family[t] \in 0 .. issued /\ family[t] # 0
      BY <1>2, <2>1, TypedDatabase
    <3>2. /\ pc'[t] = "issue" /\ req'[t] = req[t] /\ family'[t] = family[t] /\ issued' = issued
          /\ req[t].op = "refresh" /\ req[t].arg \in 1 .. issued
      BY <2>1, <2>2, <2>4
    <3> QED
      BY <3>1, <3>2 DEF ThreadOK
  <2>6. /\ issued' \in issued .. MaxTokens
        /\ \A k \in 1 .. issued : row'[k].family = row[k].family
        /\ \A k \in Token : row'[k].family # 0 <=> k <= issued'
        /\ \A k \in Token : row'[k].family <= issued'
        /\ totp' \in [secret : 0 .. MaxSecrets, enabled : BOOLEAN]
        /\ drawn' \in 0 .. MaxSecrets
        /\ ended' \subseteq 1 .. issued /\ raced' \subseteq 1 .. issued
        /\ proved' \subseteq Secret /\ enrolRace' \in BOOLEAN
    BY <1>1, <2>2, <2>3, TypedDatabase
  <2>7. \A u \in Thread \ {t} : req'[u] = req[u] /\ answer'[u] = answer[u]
    BY <2>4
  <2> QED
    BY <1>1, <1>2, <1>3, <2>3, <2>4, <2>5, <2>6, <2>7, TypedLocal
<1>8. CASE RevokeFamily(t)
  <2>1. family[t] \in 1 .. issued /\ req[t].op = "refresh"
    BY <1>2, <1>8, TypedDatabase DEF RevokeFamily, ThreadOK
  <2>2. Revoke(t, {family[t]}) /\ Reply(t, 401, 0) /\ UNCHANGED <<issued, totp, drawn>>
    BY <1>8 DEF RevokeFamily
  <2>3. 0 \in 0 .. issued' /\ issued' \in issued .. MaxTokens
    BY <1>2, <2>2, TypedDatabase
  <2> QED
    BY <1>4, <1>5, <2>1, <2>2, <2>3, TypedDatabase
<1>9. CASE Logout(t)
  <2> DEFINE families == {row[k].family : k \in {l \in Token : Issued(l)}}
  <2>1. families \subseteq 1 .. issued
    BY TypedDatabase DEF Issued
  <2>2. Revoke(t, families) /\ Reply(t, 200, 0) /\ UNCHANGED <<issued, totp, drawn>>
    BY <1>9 DEF Logout
  <2>3. req[t].op = "logout" /\ issued' \in issued .. MaxTokens
    BY <1>9, <2>2, TypedDatabase DEF Logout, Serves
  <2> HIDE DEF families
  <2> QED
    BY <1>4, <1>5, <2>1, <2>2, <2>3, TypedDatabase
<1>10. CASE StoreSecret(t)
  <2>1. /\ drawn' = drawn + 1 /\ drawn' \in 0 .. MaxSecrets /\ drawn' \in Nat
        /\ totp' = [totp EXCEPT !.secret = drawn']
        /\ Reply(t, 200, drawn')
        /\ UNCHANGED <<row, issued, ended, raced>>
    <3>1. /\ drawn < MaxSecrets /\ drawn' = drawn + 1
          /\ totp' = [totp EXCEPT !.secret = drawn']
          /\ Reply(t, 200, drawn')
          /\ UNCHANGED <<row, issued, ended, raced>>
      BY <1>10 DEF StoreSecret, history
    <3>2. drawn \in 0 .. MaxSecrets
      BY TypedDatabase
    <3> QED
      BY <3>1, <3>2, BoundsAssumption
  <2>2. req[t].op = "enroll"
    BY <1>2, <1>10 DEF StoreSecret, ThreadOK
  <2>3. totp' \in [secret : 0 .. MaxSecrets, enabled : BOOLEAN] /\ issued' \in issued .. MaxTokens
    BY <2>1, TypedDatabase
  <2> QED
    BY <1>5, <2>1, <2>2, <2>3, TypedDatabase
<1>11. CASE EnableMfa(t)
  <2>1. /\ totp' = [totp EXCEPT !.enabled = TRUE]
        /\ Reply(t, 200, 0)
        /\ UNCHANGED <<row, issued, drawn, ended, raced>>
    BY <1>11 DEF EnableMfa, history
  <2>2. totp' \in [secret : 0 .. MaxSecrets, enabled : BOOLEAN]
    <3>1. totp \in [secret : 0 .. MaxSecrets, enabled : BOOLEAN]
      BY TypedDatabase
    <3> QED
      BY <2>1, <3>1
  <2>3. issued' \in issued .. MaxTokens /\ 0 \in 0 .. issued' /\ 0 \in 0 .. MaxSecrets
    BY <1>2, <2>1, TypedDatabase, BoundsAssumption
  <2> QED
    BY <1>5, <2>1, <2>2, <2>3, TypedDatabase
<1> QED
  BY <1>6, <1>7, <1>8, <1>9, <1>10, <1>11

\* A thread that is freed forgets its request.
LEMMA TypedDiscard == ASSUME Typed, NEW t \in Thread, Discard(t) PROVE Typed'
<1>1. /\ pc' = [pc EXCEPT ![t] = "free"]
      /\ req' = [req EXCEPT ![t] = NoRequest]
      /\ family' = [family EXCEPT ![t] = 0]
      /\ answer' = [answer EXCEPT ![t] = NoAnswer]
      /\ UNCHANGED <<row, issued, totp, drawn, waits, holds, authenticator,
                     ended, raced, proved, enrolRace, lost, faults>>
  BY DEF Discard, Release, database, clients, history
<1>2. /\ NoRequest \in [op : Requests, arg : Nat]
      /\ NoAnswer \in [code : {0, 200, 202, 400, 401, 409}, value : Nat]
      /\ "free" \in Steps /\ 0 \in 0 .. MaxTokens
  BY BoundsAssumption DEF NoRequest, NoAnswer, Requests, Steps
<1>3. /\ req' \in [Thread -> [op : Requests, arg : Nat]]
      /\ answer' \in [Thread -> [code : {0, 200, 202, 400, 401, 409}, value : Nat]]
      /\ \A u \in Thread \ {t} : req'[u] = req[u] /\ answer'[u] = answer[u]
  BY <1>1, <1>2 DEF Typed, TypeOK
<1>4. ThreadOK(t)'
  BY <1>1 DEF Typed, TypeOK, ThreadOK, NoRequest
<1>5. raced' \subseteq 1 .. issued /\ proved' \subseteq Secret /\ enrolRace' \in BOOLEAN
  BY <1>1, TypedDatabase
<1> QED
  BY <1>1, <1>2, <1>3, <1>4, <1>5, TypedNoWrite

\* A restart frees every thread.
LEMMA TypedCrash == ASSUME Typed, Crash PROVE Typed'
<1>1. /\ pc' = [t \in Thread |-> "free"]
      /\ req' = [t \in Thread |-> NoRequest]
      /\ family' = [t \in Thread |-> 0]
      /\ answer' = [t \in Thread |-> NoAnswer]
      /\ waits' = [c \in Client |-> NoThread]
      /\ lost' = lost \union {c \in Client : waits[c] # NoThread}
      /\ faults < MaxFaults /\ faults' = faults + 1
      /\ UNCHANGED <<row, issued, totp, drawn, holds, authenticator,
                     ended, raced, proved, enrolRace>>
  BY DEF Crash, Fault, database
<1>2. TypeOK'
  <2>1. /\ pc' \in [Thread -> Steps]
        /\ family' \in [Thread -> 0 .. MaxTokens]
        /\ waits' \in [Client -> Thread \union {NoThread}]
    BY <1>1, BoundsAssumption DEF Steps
  <2>2. req' \in [Thread -> [op : Requests, arg : Nat]]
    BY <1>1 DEF NoRequest, Requests
  <2>3. answer' \in [Thread -> [code : {0, 200, 202, 400, 401, 409}, value : Nat]]
    BY <1>1 DEF NoAnswer
  <2>4. lost' \subseteq Client /\ faults' \in 0 .. MaxFaults
    BY <1>1, BoundsAssumption DEF Typed, TypeOK
  <2>5. \A k \in Token : Issued(k)' <=> k <= issued'
    BY <1>1 DEF Typed, TypeOK, Issued
  <2> QED
    BY <1>1, <2>1, <2>2, <2>3, <2>4, <2>5 DEF Typed, TypeOK
<1>3. IssuedOK'
  BY <1>1 DEF Typed, IssuedOK
<1>4. \A t \in Thread : ThreadOK(t)'
  BY <1>1 DEF ThreadOK, NoRequest
<1> QED
  BY <1>2, <1>3, <1>4 DEF Typed

\* Every step keeps the types.
LEMMA TypedStep == Typed /\ [Next]_vars => Typed'
<1> SUFFICES ASSUME Typed, [Next]_vars PROVE Typed'
  OBVIOUS
<1>1. CASE UNCHANGED vars
  BY <1>1 DEF vars, database, handlers, clients, history,
              Typed, TypeOK, IssuedOK, ThreadOK, Issued
<1>2. ASSUME NEW c \in Client, ClientStep(c) PROVE Typed'
  BY <1>2, TypedClient
<1>3. ASSUME NEW t \in Thread, HandlerStep(t) PROVE Typed'
  BY <1>3, TypedReading, TypedWriting, TypedDiscard DEF HandlerStep
<1>4. CASE Crash
  BY <1>4, TypedCrash
<1> QED
  BY <1>1, <1>2, <1>3, <1>4 DEF Next

\* Tokens issued, and only those, have a family, whatever the interleaving of
\* logins, refreshes, logouts and crashes; requests, answers and what the
\* clients keep have their types.
THEOREM TypeCorrect == Spec => []TypeOK
<1>1. Spec => []Typed
  BY TypedInit, TypedStep, PTL DEF Spec
<1>2. Typed => TypeOK
  BY DEF Typed
<1> QED
  BY <1>1, <1>2, PTL

(***************************************************************************)
(* Refresh families.                                                       *)
(***************************************************************************)
\* Steps that start no rotation and add no token; the families in "gone" lose
\* their live tokens, and those of them being rotated count as raced.
LEMMA RotationKept ==
    ASSUME Typed, Rotation, NEW gone,
           \A k \in Token : row'[k].family = row[k].family,
           \A k \in Token : row[k].revoked => row'[k].revoked,
           \A k \in Token : row[k].family \in gone => row'[k].revoked,
           raced \subseteq raced', ended' = ended \union gone,
           \A u \in Thread : Rotating(u)' =>
               /\ Rotating(u)
               /\ pc'[u] = pc[u] /\ family'[u] = family[u] /\ req'[u] = req[u]
               /\ family[u] \in gone => family[u] \in raced'
    PROVE  Rotation'
<1>1. ASSUME NEW k \in Token, Live(k)' PROVE Live(k) /\ row[k].family \notin gone
  BY <1>1 DEF Live, Issued, Typed, TypeOK
<1>2. ASSUME NEW f PROVE LiveIn(f)' \subseteq LiveIn(f) /\ (f \in gone => LiveIn(f)' = {})
  BY <1>1 DEF LiveIn
<1>3. OneLivePerFamily'
  BY <1>1 DEF Rotation, OneLivePerFamily
<1>4. EndedStaysEnded'
  BY <1>2 DEF Rotation, EndedStaysEnded
<1>5. ASSUME NEW t \in Thread PROVE RotationOK(t)'
  <2> SUFFICES ASSUME Rotating(t)', family'[t] \notin raced' PROVE
          /\ family'[t] \notin ended'
          /\ \A u \in Thread \ {t} : Rotating(u)' => family'[u] # family'[t]
          /\ pc'[t] = "spend" => LiveIn(family[t])' \subseteq {req'[t].arg}
          /\ pc'[t] = "issue" => LiveIn(family[t])' = {}
    BY DEF RotationOK
  <2>1. /\ Rotating(t) /\ family[t] \notin raced /\ family[t] \notin gone
        /\ pc'[t] = pc[t] /\ family'[t] = family[t] /\ req'[t] = req[t]
    OBVIOUS
  <2>2. RotationOK(t)
    BY DEF Rotation
  <2>3. LiveIn(family[t])' \subseteq LiveIn(family[t])
    BY <1>1, <2>1 DEF LiveIn
  <2> QED
    BY <2>1, <2>2, <2>3 DEF RotationOK
<1> QED
  BY <1>3, <1>4, <1>5 DEF Rotation

\* Steps that touch no token and start no rotation.
LEMMA RotationUntouched ==
    ASSUME Typed, Rotation, UNCHANGED <<row, ended>>, raced \subseteq raced',
           \A u \in Thread : Rotating(u)' =>
               Rotating(u) /\ pc'[u] = pc[u] /\ family'[u] = family[u] /\ req'[u] = req[u]
    PROVE  Rotation'
<1> DEFINE gone == {}
<1>1. /\ \A k \in Token : row'[k].family = row[k].family
      /\ \A k \in Token : row[k].revoked => row'[k].revoked
      /\ \A k \in Token : row[k].family \in gone => row'[k].revoked
      /\ raced \subseteq raced' /\ ended' = ended \union gone
  OBVIOUS
<1>2. \A u \in Thread : Rotating(u)' =>
          /\ Rotating(u)
          /\ pc'[u] = pc[u] /\ family'[u] = family[u] /\ req'[u] = req[u]
          /\ family[u] \in gone => family[u] \in raced'
  OBVIOUS
<1> HIDE DEF gone
<1> QED
  BY <1>1, <1>2, RotationKept

\* A token found good is the only live one of its family.
LEMMA RotationStarts ==
    ASSUME Typed, Rotation, NEW t \in Thread, Refresh(t)
    PROVE  Rotation'
<1> DEFINE f == row[req[t].arg].family
<1>1. /\ pc[t] = "called" /\ req[t].op = "refresh" /\ req[t].arg \in Token
      /\ f \in 1 .. issued
      /\ UNCHANGED <<row, issued, ended>>
      /\ raced \subseteq raced'
  <2>1. pc[t] = "called" /\ req[t].op = "refresh" /\ ThreadOK(t)
    BY DEF Refresh, Serves, Typed
  <2>2. req[t].arg \in 1 .. issued
    BY <2>1 DEF ThreadOK
  <2>3. UNCHANGED <<row, issued, ended>> /\ raced \subseteq raced'
    BY DEF Refresh, database
  <2> QED
    BY <2>1, <2>2, <2>3, TypedDatabase
<1>2. pc \in [Thread -> Steps] /\ req \in [Thread -> [op : Requests, arg : Nat]]
      /\ family \in [Thread -> 0 .. MaxTokens]
  BY DEF Typed, TypeOK
<1> HIDE DEF f
<1>3. CASE pc' # [pc EXCEPT ![t] = "spend"]
  <2>1. \A u \in Thread : Rotating(u)' =>
            Rotating(u) /\ pc'[u] = pc[u] /\ family'[u] = family[u] /\ req'[u] = req[u]
    BY <1>1, <1>2, <1>3 DEF Refresh, Reply, Goto, Rotating
  <2> QED
    BY <1>1, <2>1, RotationUntouched
<1>4. CASE pc' = [pc EXCEPT ![t] = "spend"]
  <2>1. /\ ~row[req[t].arg].revoked
        /\ family' = [family EXCEPT ![t] = f]
        /\ raced' = raced \union ({f} \intersect RotatedBut(t))
        /\ req' = req
        /\ pc'[t] = "spend" /\ family'[t] = f
    BY <1>1, <1>2, <1>4 DEF Refresh, Reply, Goto, f
  <2>2. \A u \in Thread \ {t} : pc'[u] = pc[u] /\ family'[u] = family[u]
    BY <1>2, <1>4, <2>1
  <2>3. \A g : LiveIn(g)' = LiveIn(g)
    BY <1>1 DEF LiveIn, Live, Issued
  <2>4. OneLivePerFamily' /\ EndedStaysEnded'
    BY <1>1, <2>3 DEF Rotation, OneLivePerFamily, EndedStaysEnded, Live, Issued
  <2>5. Live(req[t].arg) /\ req[t].arg \in LiveIn(f)
    BY <1>1, <2>1 DEF Live, Issued, LiveIn, f
  <2>6. \A u \in Thread \ {t} : Rotating(u)' <=> Rotating(u)
    BY <2>1, <2>2 DEF Rotating
  <2>7. \A u \in Thread \ {t} : Rotating(u) /\ family[u] = f => f \in raced'
    BY <2>1 DEF RotatedBut
  <2>8. RotationOK(t)'
    <3>1. f \notin raced' => f \notin ended
      BY <1>1, <2>5 DEF Rotation, EndedStaysEnded
    <3>2. f \notin raced' => LiveIn(f) \subseteq {req[t].arg}
      BY <1>1, <2>5 DEF Rotation, OneLivePerFamily, LiveIn, Live, f
    <3>3. f \notin raced' => \A u \in Thread \ {t} : Rotating(u)' => family'[u] # f
      BY <2>2, <2>6, <2>7
    <3>4. LiveIn(family[t])' = LiveIn(f)
      BY <1>1, <2>1 DEF LiveIn, Live, Issued
    <3> QED
      BY <1>1, <2>1, <3>1, <3>2, <3>3, <3>4 DEF RotationOK
  <2>9. ASSUME NEW u \in Thread \ {t} PROVE RotationOK(u)'
    <3>1. RotationOK(u)
      BY DEF Rotation
    <3>2. LiveIn(family[u])' = LiveIn(family[u])
      BY <1>1, <2>2 DEF LiveIn, Live, Issued
    <3>3. Rotating(u) /\ family[u] \notin raced' =>
              \A v \in Thread \ {u} : Rotating(v)' => family'[v] # family[u]
      <4>1. ASSUME NEW v \in Thread \ {u}, Rotating(v)', Rotating(u), family[u] \notin raced'
            PROVE  family'[v] # family[u]
        <5>1. CASE v = t
          BY <2>1, <2>7, <4>1, <5>1
        <5>2. CASE v # t
          BY <1>1, <2>2, <2>6, <3>1, <4>1, <5>2 DEF RotationOK
        <5> QED
          BY <5>1, <5>2
      <4> QED
        BY <4>1
    <3>4. pc'[u] = pc[u] /\ family'[u] = family[u] /\ req'[u] = req[u] /\ (Rotating(u)' <=> Rotating(u))
      BY <2>1, <2>2, <2>6
    <3> QED
      BY <1>1, <3>1, <3>2, <3>3, <3>4 DEF RotationOK
  <2> QED
    BY <2>4, <2>8, <2>9 DEF Rotation
<1> QED
  BY <1>3, <1>4

\* Spending the token leaves the family without a live one.
LEMMA RotationSpends == ASSUME Typed, Rotation, NEW t \in Thread, Spend(t) PROVE Rotation'
<1> DEFINE a == req[t].arg
<1>1. /\ pc[t] = "spend" /\ req[t].op = "refresh" /\ a \in Token
      /\ family[t] = row[a].family
      /\ row' = [row EXCEPT ![a].revoked = TRUE]
      /\ pc' = [pc EXCEPT ![t] = "issue"]
      /\ UNCHANGED <<req, family, ended, raced>>
  <2>1. ThreadOK(t) /\ pc[t] = "spend"
    BY DEF Spend, Typed
  <2>2. req[t].op = "refresh" /\ a \in 1 .. issued /\ family[t] = row[a].family
    BY <2>1 DEF ThreadOK
  <2> QED
    BY <2>1, <2>2, TypedDatabase DEF Spend, Continue, Goto, history
<1>2. /\ pc \in [Thread -> Steps]
      /\ row \in [Token -> [family : 0 .. MaxTokens, revoked : BOOLEAN]]
  BY DEF Typed, TypeOK
<1> HIDE DEF a
<1>3. \A k \in Token : row'[k].family = row[k].family /\ (row[k].revoked => row'[k].revoked)
  BY <1>1, <1>2
<1>4. \A k \in Token : Live(k)' => Live(k) /\ k # a
  BY <1>1, <1>2 DEF Live, Issued
<1>5. OneLivePerFamily' /\ EndedStaysEnded'
  BY <1>1, <1>3, <1>4 DEF Rotation, OneLivePerFamily, EndedStaysEnded, LiveIn
<1>6. \A u \in Thread : Rotating(u)' <=> Rotating(u)
  BY <1>1, <1>2 DEF Rotating
<1>7. ASSUME NEW u \in Thread PROVE RotationOK(u)'
  <2>1. RotationOK(u)
    BY DEF Rotation
  <2>2. LiveIn(family[u])' \subseteq LiveIn(family[u]) \ {a}
    BY <1>1, <1>3, <1>4 DEF LiveIn
  <2>3. CASE u = t
    <3>1. pc'[u] = "issue" /\ (family[u] \notin raced => LiveIn(family[u])' = {})
      BY <1>1, <1>2, <2>1, <2>2, <2>3 DEF RotationOK, Rotating, a
    <3> QED
      BY <1>1, <1>6, <2>1, <3>1 DEF RotationOK
  <2>4. CASE u # t
    BY <1>1, <1>2, <1>6, <2>1, <2>2, <2>4 DEF RotationOK
  <2> QED
    BY <2>3, <2>4
<1> QED
  BY <1>5, <1>7 DEF Rotation

\* The token issued is the only live one of its family.
LEMMA RotationIssues == ASSUME Typed, Rotation, NEW t \in Thread, IssueTokens(t) PROVE Rotation'
<1> DEFINE f == IF family[t] = 0 THEN issued' ELSE family[t]
<1>1. /\ pc[t] = "issue" /\ issued' = issued + 1 /\ issued' \in Token /\ issued \in Nat
      /\ row' = [row EXCEPT ![issued'] = [family |-> f, revoked |-> FALSE]]
      /\ pc' = [pc EXCEPT ![t] = "done"]
      /\ family' = [family EXCEPT ![t] = 0]
      /\ req' = [req EXCEPT ![t].arg = 0]
      /\ UNCHANGED <<ended, raced>>
  <2>1. /\ pc[t] = "issue" /\ issued < MaxTokens /\ issued' = issued + 1
        /\ row' = [row EXCEPT ![issued'] = [family |-> f, revoked |-> FALSE]]
        /\ pc' = [pc EXCEPT ![t] = "done"]
        /\ family' = [family EXCEPT ![t] = 0]
        /\ req' = [req EXCEPT ![t].arg = 0]
        /\ UNCHANGED <<ended, raced>>
    BY DEF IssueTokens, Reply, Goto, history
  <2>2. issued \in 0 .. MaxTokens
    BY DEF Typed, TypeOK
  <2> HIDE DEF f
  <2> QED
    BY <2>1, <2>2, BoundsAssumption DEF Token
<1>2. /\ pc \in [Thread -> Steps] /\ req \in [Thread -> [op : Requests, arg : Nat]]
      /\ family \in [Thread -> 0 .. MaxTokens]
      /\ row \in [Token -> [family : 0 .. MaxTokens, revoked : BOOLEAN]]
  BY DEF Typed, TypeOK
<1>3. \/ req[t].op = "refresh" /\ Rotating(t) /\ f = family[t] /\ f \in 1 .. issued
      \/ req[t].op # "refresh" /\ f = issued'
  BY <1>1 DEF Typed, ThreadOK, Rotating
<1> HIDE DEF f
<1>4. \A u \in Thread : Rotating(u)' => u # t /\ Rotating(u)
  BY <1>1, <1>2 DEF Rotating
<1>5. \A u \in Thread \ {t} :
          pc'[u] = pc[u] /\ family'[u] = family[u] /\ req'[u] = req[u]
  BY <1>1, <1>2
<1>6. \A k \in Token : row'[k] = IF k = issued' THEN [family |-> f, revoked |-> FALSE] ELSE row[k]
  BY <1>1, <1>2
<1>7. f \notin raced => LiveIn(f) = {} /\ f \notin ended
  <2>1. CASE Rotating(t) /\ f = family[t]
    BY <1>1, <2>1 DEF Rotation, RotationOK
  <2>2. CASE f = issued'
    <3>1. issued' \notin 1 .. issued
      BY <1>1
    <3>2. LiveIn(issued') = {}
      BY <1>1, <3>1, TypedDatabase DEF LiveIn, Live, Issued
    <3> QED
      BY <2>2, <3>1, <3>2, TypedDatabase
  <2> QED
    BY <1>3, <2>1, <2>2
<1>8. \A u \in Thread \ {t} : Rotating(u) /\ family[u] \notin raced => family[u] # f
  <2> SUFFICES ASSUME NEW u \in Thread \ {t}, Rotating(u), family[u] \notin raced
               PROVE  family[u] # f
    OBVIOUS
  <2>1. CASE Rotating(t) /\ f = family[t]
    BY <2>1 DEF Rotation, RotationOK
  <2>2. CASE f = issued'
    <3>1. ThreadOK(u)
      BY DEF Typed
    <3>2. family[u] \in 0 .. issued
      BY <3>1, <1>1, TypedDatabase DEF ThreadOK, Rotating
    <3> QED
      BY <1>1, <2>2, <3>2
  <2> QED
    BY <1>3, <2>1, <2>2
<1>9. OneLivePerFamily'
  BY <1>1, <1>6, <1>7 DEF Rotation, OneLivePerFamily, LiveIn, Live, Issued
<1>10. EndedStaysEnded'
  <2> SUFFICES ASSUME NEW g \in ended \ raced PROVE LiveIn(g)' = {}
    BY <1>1 DEF EndedStaysEnded
  <2>1. EndedStaysEnded
    BY DEF Rotation
  <2>2. LiveIn(g) = {}
    BY <2>1 DEF EndedStaysEnded
  <2>3. g # f
    BY <1>7
  <2>4. LiveIn(g)' = LiveIn(g)
    BY <1>1, <1>6, <2>3, TypedDatabase DEF LiveIn, Live, Issued
  <2> QED
    BY <2>2, <2>4
<1>11. ASSUME NEW u \in Thread PROVE RotationOK(u)'
  <2> SUFFICES ASSUME Rotating(u)', family'[u] \notin raced' PROVE RotationOK(u)'
    BY DEF RotationOK
  <2>1. /\ u # t /\ Rotating(u) /\ family'[u] = family[u] /\ family[u] \notin raced
        /\ family[u] # f
    BY <1>1, <1>4, <1>5, <1>8
  <2>2. RotationOK(u)
    BY DEF Rotation
  <2>3. LiveIn(family[u])' = LiveIn(family[u])
    BY <1>6, <2>1, TypedDatabase, <1>1 DEF LiveIn, Live, Issued
  <2>4. \A v \in Thread \ {u} : Rotating(v)' => family'[v] # family'[u]
    BY <1>4, <1>5, <2>1, <2>2 DEF RotationOK
  <2> QED
    BY <1>1, <1>5, <2>1, <2>2, <2>3, <2>4 DEF RotationOK
<1> QED
  BY <1>9, <1>10, <1>11 DEF Rotation

\* Revocation leaves nothing live in the families it names.
LEMMA RotationRevokes ==
    ASSUME Typed, Rotation, NEW t \in Thread, RevokeFamily(t) \/ Logout(t)
    PROVE  Rotation'
<1>1. PICK gone : Revoke(t, gone)
  BY DEF RevokeFamily, Logout
<1>2. /\ \A k \in Token : row'[k].family = row[k].family
      /\ \A k \in Token : row[k].revoked => row'[k].revoked
      /\ \A k \in Token : row[k].family \in gone => row'[k].revoked
  <2>1. \A k \in Token : row[k] \in [family : 0 .. MaxTokens, revoked : BOOLEAN]
    BY DEF Typed, TypeOK
  <2>2. \A k \in Token : row'[k] =
            IF row[k].family \in gone THEN [row[k] EXCEPT !.revoked = TRUE] ELSE row[k]
    BY <1>1 DEF Revoke
  <2> QED
    BY <2>1, <2>2
<1>3. /\ raced' = raced \union (gone \intersect RotatedBut(t))
      /\ ended' = ended \union gone
  BY <1>1 DEF Revoke
<1>4. \E code \in {200, 401} : Reply(t, code, 0)
  BY DEF RevokeFamily, Logout
<1>5. ASSUME NEW u \in Thread, Rotating(u)'
      PROVE  /\ Rotating(u)
             /\ pc'[u] = pc[u] /\ family'[u] = family[u] /\ req'[u] = req[u]
             /\ family[u] \in gone => family[u] \in raced'
  <2>1. u # t
    BY <1>4, <1>5 DEF Reply, Goto, Rotating, Typed, TypeOK
  <2>2. Rotating(u) /\ pc'[u] = pc[u] /\ family'[u] = family[u] /\ req'[u] = req[u]
    BY <1>4, <1>5, <2>1 DEF Reply, Goto, Rotating, Typed, TypeOK
  <2> QED
    BY <1>3, <2>1, <2>2 DEF RotatedBut
<1>6. raced \subseteq raced'
  BY <1>3
<1> QED
  BY <1>2, <1>3, <1>5, <1>6, RotationKept

\* Every step keeps the families as they should be.
LEMMA RotationStep == Typed /\ Rotation /\ [Next]_vars => Rotation'
<1> SUFFICES ASSUME Typed, Rotation, [Next]_vars PROVE Rotation'
  OBVIOUS
<1>0. /\ pc \in [Thread -> Steps] /\ req \in [Thread -> [op : Requests, arg : Nat]]
      /\ family \in [Thread -> 0 .. MaxTokens]
      /\ waits \in [Client -> Thread \union {NoThread}]
  BY DEF Typed, TypeOK
<1>1. CASE UNCHANGED vars
  BY <1>1, RotationUntouched DEF vars, database, handlers, history, Rotating
<1>2. ASSUME NEW c \in Client, ClientStep(c) PROVE Rotation'
  <2>1. UNCHANGED <<row, ended, raced>>
    BY <1>2 DEF ClientStep, CallLogin, CallVerify, CallRefresh, CallLogout, CallEnroll,
                CallActivate, Call, Receive, GiveUp, Close, database, history
  <2>2. ASSUME NEW u \in Thread, Rotating(u)'
        PROVE  Rotating(u) /\ pc'[u] = pc[u] /\ family'[u] = family[u] /\ req'[u] = req[u]
    <3>1. ASSUME NEW op, NEW arg, Call(c, op, arg)
          PROVE  Rotating(u) /\ pc'[u] = pc[u] /\ family'[u] = family[u] /\ req'[u] = req[u]
      BY <1>0, <2>2, <3>1 DEF Call, Rotating
    <3>2. CASE Receive(c)
      BY <1>0, <2>2, <3>2, NoThreadAssumption DEF Receive, Release, Rotating
    <3>3. CASE GiveUp(c) \/ Close(c)
      BY <2>2, <3>3 DEF GiveUp, Close, handlers, Rotating
    <3> QED
      BY <1>2, <3>1, <3>2, <3>3
      DEF ClientStep, CallLogin, CallVerify, CallRefresh, CallLogout, CallEnroll, CallActivate
  <2> QED
    BY <2>1, <2>2, RotationUntouched
<1>3. ASSUME NEW t \in Thread, HandlerStep(t) PROVE Rotation'
  <2>1. CASE \/ Login(t) \/ MfaVerify(t) \/ MfaEnroll(t) \/ StoreSecret(t)
             \/ MfaActivate(t) \/ EnableMfa(t) \/ Discard(t)
    <3>1. UNCHANGED <<row, ended, raced>>
      BY <2>1 DEF Login, MfaVerify, MfaEnroll, StoreSecret, MfaActivate, EnableMfa, Discard,
                  database, history
    <3>2. req[t].op # "refresh" \/ ~(pc'[t] \in {"spend", "issue"})
      BY <1>0, <2>1 DEF Login, MfaVerify, MfaEnroll, StoreSecret, MfaActivate, EnableMfa,
                        Discard, Serves, Release, Reply, Continue, Goto
    <3>3. /\ \A u \in Thread \ {t} :
                 pc'[u] = pc[u] /\ family'[u] = family[u] /\ req'[u] = req[u]
          /\ req'[t].op = req[t].op \/ pc'[t] = "free"
      BY <1>0, <2>1 DEF Login, MfaVerify, MfaEnroll, StoreSecret, MfaActivate, EnableMfa,
                        Discard, Release, Reply, Continue, Goto
    <3>4. ~Rotating(t)'
      BY <3>2, <3>3 DEF Rotating
    <3> QED
      BY <3>1, <3>3, <3>4, RotationUntouched DEF Rotating
  <2> QED
    BY <1>3, <2>1, RotationStarts, RotationSpends, RotationIssues, RotationRevokes DEF HandlerStep
<1>4. CASE Crash
  BY <1>4, RotationUntouched DEF Crash, database, Rotating
<1> QED
  BY <1>1, <1>2, <1>3, <1>4 DEF Next

\* Families are as they should be in every reachable state.
LEMMA Rotates == Spec => [](Typed /\ Rotation)
<1>1. Init => Rotation
  BY DEF Init, Rotation, OneLivePerFamily, EndedStaysEnded, RotationOK, Rotating,
         Live, Issued, NoRow, NoRequest
<1> QED
  BY <1>1, TypedInit, TypedStep, RotationStep, PTL DEF Spec

\* However many clients and handlers there are, and whatever is lost, retried
\* or crashes, a family in which no refresh was overtaken has at most one live
\* token.
THEOREM RotationKeepsOneLive == Spec => []OneLivePerFamily
<1>1. Rotation => OneLivePerFamily
  BY DEF Rotation
<1> QED
  BY <1>1, Rotates, PTL

\* A family ended by a logout or by reuse detection never gets a live token
\* again, unless it was being rotated at that moment.
THEOREM EndedForGood == Spec => []EndedStaysEnded
<1>1. Rotation => EndedStaysEnded
  BY DEF Rotation
<1> QED
  BY <1>1, Rotates, PTL

(***************************************************************************)
(* Enrolment.                                                              *)
(***************************************************************************)
\* Steps that leave the secret alone and start neither an enrolment nor an
\* activation.
LEMMA EnrolmentKept ==
    ASSUME Enrolment, totp' = totp, proved \subseteq proved', enrolRace => enrolRace',
           \A u \in Thread : pc'[u] \in {"enroll", "activate"} => pc'[u] = pc[u]
    PROVE  Enrolment'
<1>1. At("activate")' => At("activate")
  BY DEF At
<1>2. At("enroll")' => At("enroll")
  BY DEF At
<1> QED
  BY <1>1, <1>2 DEF Enrolment

\* Every step of the handlers that enrol or activate keeps them apart, or says
\* that they overlapped.
LEMMA EnrolmentHandlers ==
    ASSUME Typed, Enrolment, NEW t \in Thread,
           MfaEnroll(t) \/ StoreSecret(t) \/ MfaActivate(t) \/ EnableMfa(t)
    PROVE  Enrolment'
<1>0. /\ pc \in [Thread -> Steps]
      /\ totp \in [secret : 0 .. MaxSecrets, enabled : BOOLEAN]
  BY DEF Typed, TypeOK
<1>1. ASSUME pc' = [pc EXCEPT ![t] = "done"], totp' = totp,
             proved' = proved, enrolRace' = enrolRace
      PROVE  Enrolment'
  BY <1>0, <1>1, EnrolmentKept
<1>2. CASE MfaEnroll(t)
  <2>1. CASE totp.enabled /\ Reply(t, 409, 0) /\ UNCHANGED enrolRace
    <3>1. totp' = totp /\ proved' = proved /\ enrolRace' = enrolRace
      BY <1>2, <2>1 DEF MfaEnroll, database
    <3>2. pc' = [pc EXCEPT ![t] = "done"]
      BY <2>1 DEF Reply, Goto
    <3> QED
      BY <1>1, <3>1, <3>2
  <2>2. CASE ~totp.enabled /\ pc' = [pc EXCEPT ![t] = "enroll"] /\ enrolRace' = (enrolRace \/ At("activate"))
    <3>1. totp' = totp /\ proved' = proved
      BY <1>2 DEF MfaEnroll, database
    <3>2. At("activate")' => At("activate")
      BY <1>0, <2>2 DEF At
    <3> QED
      BY <2>2, <3>1, <3>2 DEF Enrolment
  <2> QED
    BY <1>2, <2>1, <2>2 DEF MfaEnroll, Continue, Goto
<1>3. CASE StoreSecret(t)
  <2>1. /\ pc[t] = "enroll" /\ pc' = [pc EXCEPT ![t] = "done"]
        /\ totp'.enabled = totp.enabled /\ UNCHANGED <<proved, enrolRace>>
    BY <1>0, <1>3 DEF StoreSecret, Reply, Goto, history
  <2>2. At("enroll") /\ (At("activate")' => At("activate"))
    BY <1>0, <2>1 DEF At
  <2> QED
    BY <2>1, <2>2 DEF Enrolment
<1>4. CASE MfaActivate(t)
  <2>0. totp' = totp
    BY <1>4 DEF MfaActivate, database
  <2>1. CASE req[t].arg = totp.secret
    <3>1. /\ pc' = [pc EXCEPT ![t] = "activate"] /\ proved' = proved \union {totp.secret}
          /\ enrolRace' = (enrolRace \/ At("enroll"))
      BY <1>4, <2>1 DEF MfaActivate, Continue, Goto
    <3>2. At("enroll")' => At("enroll")
      BY <1>0, <3>1 DEF At
    <3> QED
      BY <2>0, <3>1, <3>2 DEF Enrolment
  <2>2. CASE req[t].arg # totp.secret
    <3>1. pc' = [pc EXCEPT ![t] = "done"] /\ proved' = proved /\ enrolRace' = enrolRace
      BY <1>4, <2>2 DEF MfaActivate, Reply, Goto
    <3> QED
      BY <1>1, <2>0, <3>1
  <2> QED
    BY <2>1, <2>2
<1>5. CASE EnableMfa(t)
  <2>1. /\ pc[t] = "activate" /\ pc' = [pc EXCEPT ![t] = "done"]
        /\ totp'.secret = totp.secret /\ UNCHANGED <<proved, enrolRace>>
    BY <1>0, <1>5 DEF EnableMfa, Reply, Goto, history
  <2>2. /\ At("activate")
        /\ At("activate")' => At("activate")
        /\ At("enroll")' => At("enroll")
    BY <1>0, <2>1 DEF At
  <2> QED
    BY <2>1, <2>2 DEF Enrolment
<1> QED
  BY <1>2, <1>3, <1>4, <1>5

\* Every step keeps enrolment as it should be.
LEMMA EnrolmentStep == Typed /\ Enrolment /\ [Next]_vars => Enrolment'
<1> SUFFICES ASSUME Typed, Enrolment, [Next]_vars PROVE Enrolment'
  OBVIOUS
<1>0. pc \in [Thread -> Steps]
  BY DEF Typed, TypeOK
<1>1. CASE UNCHANGED vars
  BY <1>1, EnrolmentKept DEF vars, database, handlers, history
<1>2. ASSUME NEW c \in Client, ClientStep(c) PROVE Enrolment'
  <2>1. UNCHANGED <<totp, proved, enrolRace>>
    BY <1>2 DEF ClientStep, CallLogin, CallVerify, CallRefresh, CallLogout, CallEnroll,
                CallActivate, Call, Receive, GiveUp, Close, database, history
  <2>2. \A u \in Thread : pc'[u] \in {"enroll", "activate"} => pc'[u] = pc[u]
    <3>1. ASSUME NEW t, NEW step, pc' = [pc EXCEPT ![t] = step], step \in {"called", "free"}
          PROVE  \A u \in Thread : pc'[u] \in {"enroll", "activate"} => pc'[u] = pc[u]
      BY <1>0, <3>1
    <3>2. pc' = pc \/ \E t, step : pc' = [pc EXCEPT ![t] = step] /\ step \in {"called", "free"}
      BY <1>2 DEF ClientStep, CallLogin, CallVerify, CallRefresh, CallLogout, CallEnroll,
                  CallActivate, Call, Receive, Release, GiveUp, Close, handlers
    <3> QED
      BY <3>1, <3>2
  <2> QED
    BY <2>1, <2>2, EnrolmentKept
<1>3. ASSUME NEW t \in Thread, HandlerStep(t) PROVE Enrolment'
  <2>1. CASE \/ Login(t) \/ MfaVerify(t) \/ IssueTokens(t) \/ Refresh(t) \/ Spend(t)
             \/ RevokeFamily(t) \/ Logout(t) \/ Discard(t)
    <3>1. UNCHANGED <<totp, proved, enrolRace>>
      BY <2>1 DEF Login, MfaVerify, IssueTokens, Refresh, Spend, RevokeFamily, Logout, Discard,
                  database, history
    <3>2. \E step \in {"done", "issue", "reuse", "spend", "free"} : pc' = [pc EXCEPT ![t] = step]
      BY <2>1 DEF Login, MfaVerify, IssueTokens, Refresh, Spend, RevokeFamily, Logout, Discard,
                  Release, Reply, Continue, Goto
    <3> QED
      BY <1>0, <3>1, <3>2, EnrolmentKept
  <2> QED
    BY <1>3, <2>1, EnrolmentHandlers DEF HandlerStep
<1>4. CASE Crash
  BY <1>4, EnrolmentKept DEF Crash, database
<1> QED
  BY <1>1, <1>2, <1>3, <1>4 DEF Next

\* Unless an enrolment and an activation have overlapped, MFA is only ever on
\* with a secret the user has proved to hold.
THEOREM EnabledOnlyProved == Spec => []EnabledIsProved
<1>1. Init => Enrolment
  BY DEF Init, Enrolment, At
<1>2. Enrolment => EnabledIsProved
  BY DEF Enrolment, EnabledIsProved
<1> QED
  BY <1>1, <1>2, TypedInit, TypedStep, EnrolmentStep, PTL DEF Spec

(***************************************************************************)
(* Whom a token belongs to.                                                *)
(***************************************************************************)
\* The handler has the token of its request to look up or to spend.
Asking(t) == req[t].op = "refresh" /\ pc[t] \in {"called", "spend"}

\* The answer of the handler carries a new token.
Delivers(t) ==
    pc[t] = "done" /\ req[t].op \in {"login", "verify", "refresh"} /\ answer[t].code = 200

\* A token is spent only where its family was ended.
Good(k) == row[k].revoked => row[k].family \in ended

\* A client waits for a handler of its own, which works on the token it holds.
WaitsOK ==
    /\ \A c \in Client : waits[c] # NoThread => pc[waits[c]] # "free"
    /\ \A c, d \in Client : waits[c] = waits[d] /\ waits[c] # NoThread => c = d
    /\ \A c \in Client, t \in Thread : waits[c] = t /\ Asking(t) => req[t].arg = holds[c].token

\* A token is held by one client, and asked about by the handler it waits for.
HeldOnce ==
    /\ \A c, d \in Client : holds[c].token = holds[d].token /\ holds[c].token # 0 => c = d
    /\ \A c \in Client \ lost, t \in Thread :
           Asking(t) /\ req[t].arg = holds[c].token => waits[c] = t

\* The token of an answer is live, or ended, and nobody else has it.
DeliveryOK(t) ==
    Delivers(t) =>
        /\ answer[t].value # 0
        /\ Good(answer[t].value)
        /\ \A c \in Client : holds[c].token # answer[t].value
        /\ \A u \in Thread : Asking(u) => req[u].arg # answer[t].value
        /\ \A u \in Thread : Delivers(u) /\ answer[u].value = answer[t].value => u = t

\* So is the token of a client that has missed nothing, until its handler has
\* it spent.
HeldGood(c) ==
    /\ c \notin lost /\ holds[c].token # 0
    /\ waits[c] # NoThread /\ req[waits[c]].op = "refresh" => Asking(waits[c])
    => Good(holds[c].token)

Owned ==
    /\ WaitsOK
    /\ HeldOnce
    /\ \A t \in Thread : DeliveryOK(t)
    /\ \A c \in Client : HeldGood(c)
    /\ \A t \in Thread : pc[t] = "activate" => req[t].op = "activate"

\* Types used below.
LEMMA OwnedTypes ==
    ASSUME Typed
    PROVE  /\ pc \in [Thread -> Steps]
           /\ req \in [Thread -> [op : Requests, arg : Nat]]
           /\ answer \in [Thread -> [code : {0, 200, 202, 400, 401, 409}, value : Nat]]
           /\ waits \in [Client -> Thread \union {NoThread}]
           /\ holds \in [Client -> [token : 0 .. MaxTokens, challenge : BOOLEAN]]
           /\ issued \in Nat
           /\ \A c \in Client : holds[c].token # 0 => holds[c].token \in 1 .. issued
           /\ \A t \in Thread : Asking(t) => req[t].arg \in 1 .. issued
           /\ \A t \in Thread : Delivers(t) /\ answer[t].value # 0 => answer[t].value \in 1 .. issued
<1>1. /\ pc \in [Thread -> Steps]
      /\ req \in [Thread -> [op : Requests, arg : Nat]]
      /\ answer \in [Thread -> [code : {0, 200, 202, 400, 401, 409}, value : Nat]]
      /\ waits \in [Client -> Thread \union {NoThread}]
      /\ holds \in [Client -> [token : 0 .. MaxTokens, challenge : BOOLEAN]]
      /\ issued \in Nat
  BY BoundsAssumption DEF Typed, TypeOK
<1>2. \A c \in Client : holds[c].token # 0 => holds[c].token \in 1 .. issued
  <2>1. \A c \in Client : holds[c].token \in 0 .. MaxTokens /\ holds[c].token <= issued
    BY <1>1 DEF Typed, IssuedOK
  <2> QED
    BY <1>1, <2>1, BoundsAssumption
<1>3. \A t \in Thread : Asking(t) => req[t].arg \in 1 .. issued
  BY DEF Typed, ThreadOK, Asking
<1>4. \A t \in Thread : Delivers(t) /\ answer[t].value # 0 => answer[t].value \in 1 .. issued
  BY <1>1 DEF Typed, ThreadOK, Delivers
<1> QED
  BY <1>1, <1>2, <1>3, <1>4

\* A handler that delivers no token leaves the others their owners, if it asks
\* about no new one and revokes only the one it asked about, or a family that
\* ends.
LEMMA OwnedLocal ==
    ASSUME Typed, Owned, NEW t \in Thread,
           UNCHANGED <<waits, holds, lost>>,
           \A u \in Thread \ {t} : pc'[u] = pc[u] /\ req'[u] = req[u] /\ answer'[u] = answer[u],
           (pc'[t] # "free" /\ req'[t].op = req[t].op) \/ \A c \in Client : waits[c] # t,
           pc'[t] = "activate" => req'[t].op = "activate",
           ~Delivers(t)',
           Asking(t)' => Asking(t) /\ req'[t].arg = req[t].arg,
           \A k \in 1 .. issued :
               Good(k) => Good(k)' \/ (Asking(t) /\ ~Asking(t)' /\ k = req[t].arg)
    PROVE  Owned'
<1>1. ASSUME NEW u \in Thread, u # t
      PROVE  /\ Asking(u)' <=> Asking(u)
             /\ Delivers(u)' <=> Delivers(u)
             /\ req'[u] = req[u] /\ answer'[u] = answer[u] /\ pc'[u] = pc[u]
  BY <1>1 DEF Asking, Delivers
<1>2. \A u \in Thread : Asking(u)' => Asking(u) /\ req'[u].arg = req[u].arg
  BY <1>1
<1>3. \A u \in Thread : Delivers(u)' => Delivers(u) /\ answer'[u] = answer[u] /\ u # t
  BY <1>1
<1>4. WaitsOK'
  <2>1. \A c \in Client : waits'[c] # NoThread => pc'[waits'[c]] # "free"
    <3> SUFFICES ASSUME NEW c \in Client, waits[c] # NoThread PROVE pc'[waits[c]] # "free"
      OBVIOUS
    <3>1. waits[c] \in Thread /\ pc[waits[c]] # "free"
      BY OwnedTypes DEF Owned, WaitsOK
    <3> QED
      BY <1>1, <3>1
  <2>2. \A c, d \in Client : waits'[c] = waits'[d] /\ waits'[c] # NoThread => c = d
    BY DEF Owned, WaitsOK
  <2>3. \A c \in Client, u \in Thread :
            waits'[c] = u /\ Asking(u)' => req'[u].arg = holds'[c].token
    BY <1>2 DEF Owned, WaitsOK
  <2> QED
    BY <2>1, <2>2, <2>3 DEF WaitsOK, Asking
<1>5. HeldOnce'
  <2>1. \A c \in Client \ lost', u \in Thread :
            Asking(u)' /\ req'[u].arg = holds'[c].token => waits'[c] = u
    BY <1>2 DEF Owned, HeldOnce
  <2> QED
    BY <2>1 DEF Owned, HeldOnce, Asking
<1>6. ASSUME NEW u \in Thread PROVE DeliveryOK(u)'
  <2> SUFFICES ASSUME Delivers(u)' PROVE DeliveryOK(u)'
    BY DEF DeliveryOK
  <2>1. Delivers(u) /\ answer'[u] = answer[u] /\ DeliveryOK(u)
    BY <1>3 DEF Owned
  <2>2. /\ answer[u].value # 0 /\ Good(answer[u].value)
        /\ \A c \in Client : holds[c].token # answer[u].value
        /\ \A v \in Thread : Asking(v) => req[v].arg # answer[u].value
        /\ \A v \in Thread : Delivers(v) /\ answer[v].value = answer[u].value => v = u
    BY <2>1 DEF DeliveryOK
  <2>3. answer[u].value \in 1 .. issued
    BY <2>1, <2>2, OwnedTypes
  <2>4. Good(answer[u].value)'
    BY <2>1, <2>2, <2>3
  <2>5. \A v \in Thread : Asking(v)' => req'[v].arg # answer[u].value
    BY <1>2, <2>2
  <2>6. \A v \in Thread : Delivers(v)' /\ answer'[v].value = answer[u].value => v = u
    BY <1>3, <2>2
  <2> QED
    BY <2>1, <2>2, <2>4, <2>5, <2>6 DEF DeliveryOK, Asking, Delivers
<1>7. ASSUME NEW c \in Client PROVE HeldGood(c)'
  <2> SUFFICES ASSUME c \notin lost, holds[c].token # 0,
                      waits[c] # NoThread /\ req'[waits[c]].op = "refresh" => Asking(waits[c])'
               PROVE  Good(holds[c].token)'
    BY DEF HeldGood, Asking, Good
  <2>1. waits[c] \in Thread \union {NoThread} /\ holds[c].token \in 1 .. issued
    BY OwnedTypes
  <2>2. waits[c] # NoThread /\ req[waits[c]].op = "refresh" => Asking(waits[c])
    <3>1. CASE waits[c] = t
      BY <1>2, <3>1
    <3>2. CASE waits[c] # t
      BY <1>1, <2>1, <3>2
    <3> QED
      BY <3>1, <3>2
  <2>3. Good(holds[c].token)
    BY <2>2 DEF Owned, HeldGood
  <2>4. CASE Asking(t) /\ ~Asking(t)' /\ holds[c].token = req[t].arg
    <3>1. waits[c] = t
      BY <2>4 DEF Owned, HeldOnce
    <3>2. req'[t].op = "refresh"
      BY <2>4, <3>1 DEF Asking
    <3> QED
      BY <2>4, <3>1, <3>2, NoThreadAssumption
  <2> QED
    BY <2>1, <2>3, <2>4
<1>8. \A u \in Thread : pc'[u] = "activate" => req'[u].op = "activate"
  BY <1>1 DEF Owned
<1> QED
  BY <1>4, <1>5, <1>6, <1>7, <1>8 DEF Owned, Asking, Delivers

\* A new token belongs to its answer alone.
LEMMA OwnedIssues == ASSUME Typed, Owned, NEW t \in Thread, IssueTokens(t) PROVE Owned'
<1>1. /\ pc[t] = "issue"
      /\ issued < MaxTokens /\ issued' = issued + 1 /\ issued \in Nat
      /\ row' = [row EXCEPT ![issued'] =
                    [family |-> IF family[t] = 0 THEN issued' ELSE family[t], revoked |-> FALSE]]
      /\ pc' = [pc EXCEPT ![t] = "done"]
      /\ req' = [req EXCEPT ![t].arg = 0]
      /\ answer' = [answer EXCEPT ![t] = [code |-> 200, value |-> issued']]
      /\ UNCHANGED <<waits, holds, lost, ended>>
  BY OwnedTypes DEF IssueTokens, Reply, Goto, clients, history
<1>2. /\ pc'[t] = "done" /\ req'[t].op = req[t].op
      /\ answer'[t].code = 200 /\ answer'[t].value = issued'
      /\ req[t].op \in {"login", "verify", "refresh"}
  BY <1>1, OwnedTypes DEF Typed, ThreadOK
<1>3. Delivers(t)' /\ ~Asking(t)'
  BY <1>2 DEF Delivers, Asking
<1>4. ASSUME NEW u \in Thread, u # t
      PROVE  /\ Asking(u)' <=> Asking(u)
             /\ Delivers(u)' <=> Delivers(u)
             /\ req'[u] = req[u] /\ answer'[u] = answer[u] /\ pc'[u] = pc[u]
  BY <1>1, <1>4, OwnedTypes DEF Asking, Delivers
<1>5. \A u \in Thread : Asking(u)' => Asking(u) /\ req'[u].arg = req[u].arg
  BY <1>3, <1>4
<1> DEFINE GoodAfter(k) == row'[k].revoked => row'[k].family \in ended'
<1>6. (\A k \in 1 .. issued : Good(k) => GoodAfter(k)) /\ GoodAfter(issued')
  <2>1. row \in [Token -> [family : 0 .. MaxTokens, revoked : BOOLEAN]] /\ issued' \in Token
    BY <1>1, TypedDatabase, BoundsAssumption DEF Token
  <2>2. \A k \in 1 .. issued : k \in Token /\ k # issued' /\ row'[k] = row[k]
    BY <1>1, <2>1, TypedDatabase
  <2>3. row'[issued'].revoked = FALSE
    BY <1>1, <2>1
  <2> QED
    BY <1>1, <2>2, <2>3 DEF Good
<1> HIDE DEF GoodAfter
<1>7. WaitsOK'
  <2>1. \A c \in Client : waits'[c] # NoThread => pc'[waits'[c]] # "free"
    BY <1>1, <1>2, <1>4, OwnedTypes DEF Owned, WaitsOK
  <2>2. \A c, d \in Client : waits'[c] = waits'[d] /\ waits'[c] # NoThread => c = d
    BY <1>1 DEF Owned, WaitsOK
  <2>3. \A c \in Client, u \in Thread :
            waits'[c] = u /\ Asking(u)' => req'[u].arg = holds'[c].token
    BY <1>1, <1>5 DEF Owned, WaitsOK
  <2> QED
    BY <2>1, <2>2, <2>3 DEF WaitsOK, Asking
<1>8. HeldOnce'
  <2>1. \A c \in Client \ lost', u \in Thread :
            Asking(u)' /\ req'[u].arg = holds'[c].token => waits'[c] = u
    BY <1>1, <1>5 DEF Owned, HeldOnce
  <2> QED
    BY <1>1, <2>1 DEF Owned, HeldOnce, Asking
<1>9. DeliveryOK(t)'
  <2>1. \A c \in Client : holds[c].token # issued'
    BY <1>1, OwnedTypes
  <2>2. \A u \in Thread : Asking(u)' => req'[u].arg # issued'
    BY <1>1, <1>5, OwnedTypes
  <2>3. ASSUME NEW u \in Thread, Delivers(u)', answer'[u].value = issued', u # t PROVE FALSE
    <3>1. Delivers(u) /\ answer[u].value = issued' /\ issued' # 0
      BY <1>1, <1>4, <2>3
    <3>2. answer[u].value \in 1 .. issued
      BY <3>1, OwnedTypes
    <3> QED
      BY <1>1, <3>1, <3>2
  <2>4. answer'[t].value # 0
    BY <1>1, <1>2
  <2>5. Good(answer[t].value)'
    BY <1>2, <1>6 DEF Good, GoodAfter
  <2> QED
    BY <1>1, <1>2, <2>1, <2>2, <2>3, <2>4, <2>5 DEF DeliveryOK, Asking, Delivers
<1>10. ASSUME NEW u \in Thread, u # t PROVE DeliveryOK(u)'
  <2> SUFFICES ASSUME Delivers(u)' PROVE DeliveryOK(u)'
    BY DEF DeliveryOK
  <2>1. Delivers(u) /\ answer'[u] = answer[u] /\ DeliveryOK(u)
    BY <1>4, <1>10 DEF Owned
  <2>2. /\ answer[u].value # 0 /\ Good(answer[u].value)
        /\ \A c \in Client : holds[c].token # answer[u].value
        /\ \A v \in Thread : Asking(v) => req[v].arg # answer[u].value
        /\ \A v \in Thread : Delivers(v) /\ answer[v].value = answer[u].value => v = u
    BY <2>1 DEF DeliveryOK
  <2>3. answer[u].value \in 1 .. issued
    BY <2>1, <2>2, OwnedTypes
  <2>4. answer'[t].value # answer[u].value
    BY <1>1, <1>2, <2>3
  <2>5. \A v \in Thread : Asking(v)' => req'[v].arg # answer[u].value
    BY <1>5, <2>2
  <2>6. \A v \in Thread : Delivers(v)' /\ answer'[v].value = answer[u].value => v = u
    BY <1>4, <2>2, <2>4
  <2>7. GoodAfter(answer[u].value)
    BY <1>6, <2>2, <2>3
  <2>8. Good(answer[u].value)'
    BY <2>1, <2>7 DEF Good, GoodAfter
  <2> QED
    BY <1>1, <2>1, <2>2, <2>5, <2>6, <2>8 DEF DeliveryOK, Asking, Delivers
<1>11. ASSUME NEW c \in Client PROVE HeldGood(c)'
  <2> SUFFICES ASSUME c \notin lost, holds[c].token # 0,
                      waits[c] # NoThread /\ req'[waits[c]].op = "refresh" => Asking(waits[c])'
               PROVE  Good(holds[c].token)'
    BY <1>1 DEF HeldGood, Asking, Good
  <2>1. waits[c] \in Thread \union {NoThread} /\ holds[c].token \in 1 .. issued
    BY OwnedTypes
  <2>2. waits[c] # NoThread /\ req[waits[c]].op = "refresh" => Asking(waits[c])
    <3>1. CASE waits[c] = t
      BY <1>1, <1>2, <1>3, <3>1
    <3>2. CASE waits[c] # t
      BY <1>1, <1>4, <2>1, <3>2
    <3> QED
      BY <3>1, <3>2
  <2>3. Good(holds[c].token)
    BY <2>2 DEF Owned, HeldGood
  <2>4. GoodAfter(holds[c].token)
    BY <1>6, <2>1, <2>3
  <2> QED
    BY <1>1, <2>4 DEF Good, GoodAfter
<1>12. \A u \in Thread : pc'[u] = "activate" => req'[u].op = "activate"
  BY <1>2, <1>4 DEF Owned
<1> QED
  BY <1>7, <1>8, <1>9, <1>10, <1>11, <1>12 DEF Owned, Asking, Delivers

\* A handler that replies without a token of its own.
LEMMA OwnedReply ==
    ASSUME Typed, Owned, NEW t \in Thread, NEW code, NEW value, Reply(t, code, value),
           UNCHANGED <<waits, holds, lost>>,
           code = 200 => req[t].op \notin {"login", "verify", "refresh"},
           \A k \in 1 .. issued : Good(k) => Good(k)'
    PROVE  Owned'
<1>1. /\ pc' = [pc EXCEPT ![t] = "done"]
      /\ req' = [req EXCEPT ![t].arg = 0]
      /\ answer' = [answer EXCEPT ![t] = [code |-> code, value |-> value]]
  BY DEF Reply, Goto
<1>2. /\ pc'[t] = "done" /\ req'[t].op = req[t].op /\ answer'[t].code = code
      /\ \A u \in Thread \ {t} : pc'[u] = pc[u] /\ req'[u] = req[u] /\ answer'[u] = answer[u]
  BY <1>1, OwnedTypes
<1>3. ~Delivers(t)' /\ ~Asking(t)'
  BY <1>2 DEF Delivers, Asking
<1> QED
  BY <1>2, <1>3, OwnedLocal

\* A handler that goes on without spending.
LEMMA OwnedContinue ==
    ASSUME Typed, Owned, NEW t \in Thread, NEW step, pc' = [pc EXCEPT ![t] = step],
           UNCHANGED <<req, answer, waits, holds, lost, row, ended>>,
           step \in {"issue", "enroll", "activate", "spend", "reuse"},
           step = "activate" => req[t].op = "activate",
           step = "spend" => Asking(t)
    PROVE  Owned'
<1>1. /\ pc'[t] = step /\ \A u \in Thread \ {t} : pc'[u] = pc[u]
  BY OwnedTypes
<1>2. ~Delivers(t)' /\ (Asking(t)' => Asking(t))
  BY <1>1 DEF Delivers, Asking
<1>3. \A k : Good(k)' <=> Good(k)
  BY DEF Good
<1>4. \A k \in 1 .. issued : Good(k) => Good(k)' \/ (Asking(t) /\ ~Asking(t)' /\ k = req[t].arg)
  BY <1>3
<1>5. pc'[t] # "free" /\ req'[t].op = req[t].op
  BY <1>1
<1> QED
  BY <1>1, <1>2, <1>4, <1>5, OwnedLocal

\* Families revoked have ended.
LEMMA RevokedGood ==
    ASSUME Typed, NEW t, NEW families, Revoke(t, families)
    PROVE  \A k \in 1 .. issued : Good(k) => Good(k)'
<1>1. /\ row' = [k \in Token |->
                    IF row[k].family \in families THEN [row[k] EXCEPT !.revoked = TRUE] ELSE row[k]]
      /\ ended' = ended \union families
  BY DEF Revoke
<1>2. row \in [Token -> [family : 0 .. MaxTokens, revoked : BOOLEAN]] /\ 1 .. issued \subseteq Token
  BY TypedDatabase
<1>3. ASSUME NEW k \in 1 .. issued, Good(k) PROVE Good(k)'
  <2>1. row'[k] = IF row[k].family \in families THEN [row[k] EXCEPT !.revoked = TRUE] ELSE row[k]
    BY <1>1, <1>2
  <2>2. row'[k].family = row[k].family
    BY <1>2, <2>1
  <2> QED
    BY <1>1, <1>3, <2>1, <2>2 DEF Good
<1> QED
  BY <1>3

\* Every step of a handler leaves each token its owner.
LEMMA OwnedHandler == ASSUME Typed, Owned, NEW t \in Thread, HandlerStep(t) PROVE Owned'
<1>1. ASSUME UNCHANGED <<row, ended>> PROVE \A k \in 1 .. issued : Good(k) => Good(k)'
  BY <1>1 DEF Good
<1>2. ASSUME NEW code \in {202, 400, 401, 409}, Reply(t, code, 0),
             UNCHANGED <<row, ended, waits, holds, lost>>
      PROVE  Owned'
  BY <1>1, <1>2, OwnedReply
<1>3. CASE Login(t) \/ MfaVerify(t)
  <2>1. UNCHANGED <<row, ended, waits, holds, lost>>
    BY <1>3 DEF Login, MfaVerify, database, clients, history
  <2>2. CASE Continue(t, "issue")
    BY <2>1, <2>2, OwnedContinue DEF Continue, Goto
  <2> QED
    BY <1>2, <1>3, <2>1, <2>2 DEF Login, MfaVerify
<1>4. CASE Refresh(t)
  <2>1. UNCHANGED <<row, ended, waits, holds, lost>>
    BY <1>4 DEF Refresh, database, clients
  <2>2. Asking(t)
    BY <1>4 DEF Refresh, Serves, Asking
  <2>3. CASE Reply(t, 401, 0)
    BY <1>2, <2>1, <2>3
  <2>4. CASE (Goto(t, "reuse") \/ Goto(t, "spend")) /\ UNCHANGED <<req, answer>>
    BY <2>1, <2>2, <2>4, OwnedContinue DEF Goto
  <2> QED
    BY <1>4, <2>3, <2>4 DEF Refresh
<1>5. CASE Spend(t)
  <2>1. /\ pc[t] = "spend" /\ pc' = [pc EXCEPT ![t] = "issue"]
        /\ row' = [row EXCEPT ![req[t].arg].revoked = TRUE]
        /\ UNCHANGED <<req, answer, waits, holds, lost, ended>>
    BY <1>5 DEF Spend, Continue, Goto, clients, history
  <2>2. pc'[t] = "issue" /\ \A u \in Thread \ {t} : pc'[u] = pc[u]
    BY <2>1, OwnedTypes
  <2>3. Asking(t) /\ ~Asking(t)' /\ ~Delivers(t)'
    BY <2>1, <2>2 DEF Asking, Delivers, Typed, ThreadOK
  <2>4. \A k \in 1 .. issued : Good(k) => Good(k)' \/ k = req[t].arg
    <3>1. row \in [Token -> [family : 0 .. MaxTokens, revoked : BOOLEAN]] /\ 1 .. issued \subseteq Token
      BY TypedDatabase
    <3>2. \A k \in 1 .. issued : k # req[t].arg => row'[k] = row[k]
      BY <2>1, <3>1
    <3> QED
      BY <2>1, <3>2 DEF Good
  <2> QED
    BY <2>1, <2>2, <2>3, <2>4, OwnedLocal
<1>6. CASE RevokeFamily(t)
  <2>1. Revoke(t, {family[t]}) /\ Reply(t, 401, 0) /\ UNCHANGED <<waits, holds, lost>>
    BY <1>6 DEF RevokeFamily, clients
  <2>2. \A k \in 1 .. issued : Good(k) => Good(k)'
    BY <2>1, RevokedGood
  <2> QED
    BY <2>1, <2>2, OwnedReply
<1>7. CASE Logout(t)
  <2> DEFINE families == {row[k].family : k \in {l \in Token : Issued(l)}}
  <2>1. Revoke(t, families) /\ Reply(t, 200, 0) /\ UNCHANGED <<waits, holds, lost>>
    BY <1>7 DEF Logout, clients
  <2>2. req[t].op = "logout"
    BY <1>7 DEF Logout, Serves
  <2> HIDE DEF families
  <2>3. \A k \in 1 .. issued : Good(k) => Good(k)'
    BY <2>1, RevokedGood
  <2> QED
    BY <2>1, <2>2, <2>3, OwnedReply
<1>8. CASE MfaEnroll(t) \/ MfaActivate(t)
  <2>1. UNCHANGED <<row, ended, waits, holds, lost>>
    BY <1>8 DEF MfaEnroll, MfaActivate, database, clients
  <2>2. CASE Continue(t, "enroll")
    BY <2>1, <2>2, OwnedContinue DEF Continue, Goto
  <2>3. CASE Continue(t, "activate") /\ req[t].op = "activate"
    BY <2>1, <2>3, OwnedContinue DEF Continue, Goto
  <2>4. \/ Reply(t, 409, 0) \/ Reply(t, 400, 0) \/ Continue(t, "enroll")
        \/ Continue(t, "activate") /\ req[t].op = "activate"
    BY <1>8 DEF MfaEnroll, MfaActivate, Serves
  <2> QED
    BY <1>2, <2>1, <2>2, <2>3, <2>4
<1>9. CASE StoreSecret(t) \/ EnableMfa(t)
  <2>1. /\ UNCHANGED <<row, ended, waits, holds, lost>>
        /\ \E value : Reply(t, 200, value)
    BY <1>9 DEF StoreSecret, EnableMfa, clients, history
  <2>2. req[t].op \in {"enroll", "activate"}
    BY <1>9 DEF StoreSecret, EnableMfa, Owned, Typed, ThreadOK
  <2> QED
    BY <1>1, <2>1, <2>2, OwnedReply
<1>10. CASE Discard(t)
  <2>1. /\ pc' = [pc EXCEPT ![t] = "free"]
        /\ req' = [req EXCEPT ![t] = NoRequest]
        /\ answer' = [answer EXCEPT ![t] = NoAnswer]
        /\ UNCHANGED <<row, ended, waits, holds, lost>>
        /\ \A c \in Client : waits[c] # t
    BY <1>10 DEF Discard, Release, database, clients, history
  <2>2. pc'[t] = "free" /\ \A u \in Thread \ {t} : pc'[u] = pc[u] /\ req'[u] = req[u] /\ answer'[u] = answer[u]
    BY <2>1, OwnedTypes
  <2>3. ~Delivers(t)' /\ ~Asking(t)'
    BY <2>2 DEF Delivers, Asking
  <2> QED
    BY <1>1, <2>1, <2>2, <2>3, OwnedLocal
<1> QED
  BY <1>3, <1>4, <1>5, <1>6, <1>7, <1>8, <1>9, <1>10, OwnedIssues DEF HandlerStep

\* A call takes a thread of its own, and a refresh asks about the token held.
LEMMA OwnedCall ==
    ASSUME Typed, Owned, NEW c \in Client, NEW op, NEW arg, Call(c, op, arg),
           op = "refresh" => arg = holds[c].token /\ arg # 0
    PROVE  Owned'
<1>1. PICK t \in Thread :
          /\ pc[t] = "free"
          /\ pc' = [pc EXCEPT ![t] = "called"]
          /\ req' = [req EXCEPT ![t] = [op |-> op, arg |-> arg]]
          /\ waits' = [waits EXCEPT ![c] = t]
  BY DEF Call
<1>2. waits[c] = NoThread /\ UNCHANGED <<row, answer, holds, ended, lost>>
  BY DEF Call, database, history
<1>3. /\ pc'[t] = "called" /\ req'[t].op = op /\ req'[t].arg = arg
      /\ waits'[c] = t /\ t # NoThread
      /\ \A d \in Client \ {c} : waits'[d] = waits[d]
  BY <1>1, OwnedTypes, NoThreadAssumption
<1>4. ASSUME NEW u \in Thread, u # t
      PROVE  /\ pc'[u] = pc[u] /\ req'[u] = req[u] /\ answer'[u] = answer[u]
             /\ Asking(u)' <=> Asking(u)
             /\ Delivers(u)' <=> Delivers(u)
  BY <1>1, <1>2, <1>4, OwnedTypes DEF Asking, Delivers
<1>5. /\ ~Delivers(t)' /\ ~Delivers(t) /\ ~Asking(t)
      /\ Asking(t)' <=> op = "refresh"
  BY <1>1, <1>3 DEF Asking, Delivers
<1>6. \A d \in Client : waits[d] # t
  BY <1>1, <1>3, OwnedTypes DEF Owned, WaitsOK
<1>7. \A d \in Client : waits'[d] # NoThread => d = c \/ waits[d] \in Thread \ {t}
  BY <1>3, <1>6, OwnedTypes
<1>8. \A k : Good(k)' <=> Good(k)
  BY <1>2 DEF Good
<1>9. WaitsOK'
  <2>1. \A d \in Client : waits'[d] # NoThread => pc'[waits'[d]] # "free"
    BY <1>3, <1>4, <1>7 DEF Owned, WaitsOK
  <2>2. \A d, e \in Client : waits'[d] = waits'[e] /\ waits'[d] # NoThread => d = e
    BY <1>3, <1>6 DEF Owned, WaitsOK
  <2>3. ASSUME NEW d \in Client, NEW u \in Thread, waits'[d] = u, Asking(u)'
        PROVE  req'[u].arg = holds'[d].token
    <3>1. CASE d = c
      BY <1>2, <1>3, <1>5, <2>3, <3>1
    <3>2. CASE d # c
      BY <1>2, <1>3, <1>4, <1>6, <2>3, <3>2 DEF Owned, WaitsOK
    <3> QED
      BY <3>1, <3>2
  <2> QED
    BY <2>1, <2>2, <2>3 DEF WaitsOK, Asking
<1>10. HeldOnce'
  <2>1. ASSUME NEW d \in Client \ lost, NEW u \in Thread, Asking(u)', req'[u].arg = holds[d].token
        PROVE  waits'[d] = u
    <3>1. CASE u = t
      <4>1. holds[d].token = holds[c].token /\ holds[c].token # 0
        BY <1>3, <1>5, <2>1, <3>1
      <4> QED
        BY <1>3, <3>1, <4>1 DEF Owned, HeldOnce
    <3>2. CASE u # t
      <4>1. waits[d] = u
        BY <1>4, <2>1, <3>2 DEF Owned, HeldOnce
      <4> QED
        BY <1>2, <1>3, <4>1, NoThreadAssumption
    <3> QED
      BY <3>1, <3>2
  <2> QED
    BY <1>2, <2>1 DEF Owned, HeldOnce, Asking
<1>11. ASSUME NEW u \in Thread PROVE DeliveryOK(u)'
  <2> SUFFICES ASSUME Delivers(u)' PROVE DeliveryOK(u)'
    BY DEF DeliveryOK
  <2>1. u # t /\ Delivers(u) /\ answer'[u] = answer[u] /\ DeliveryOK(u)
    BY <1>4, <1>5 DEF Owned
  <2>2. /\ answer[u].value # 0 /\ Good(answer[u].value)
        /\ \A d \in Client : holds[d].token # answer[u].value
        /\ \A v \in Thread : Asking(v) => req[v].arg # answer[u].value
        /\ \A v \in Thread : Delivers(v) /\ answer[v].value = answer[u].value => v = u
    BY <2>1 DEF DeliveryOK
  <2>3. ASSUME NEW v \in Thread, Asking(v)' PROVE req'[v].arg # answer[u].value
    BY <1>3, <1>4, <1>5, <2>2, <2>3
  <2>4. ASSUME NEW v \in Thread, Delivers(v)', answer'[v].value = answer[u].value PROVE v = u
    BY <1>4, <1>5, <2>2, <2>4
  <2> QED
    BY <1>2, <2>1, <2>2, <2>3, <2>4 DEF DeliveryOK, Asking, Delivers, Good
<1>12. ASSUME NEW d \in Client PROVE HeldGood(d)'
  <2> SUFFICES ASSUME d \notin lost, holds[d].token # 0,
                      waits'[d] # NoThread /\ req'[waits'[d]].op = "refresh" => Asking(waits[d])'
               PROVE  Good(holds[d].token)
    BY <1>2 DEF HeldGood, Asking, Good
  <2>1. CASE d = c
    BY <1>2, <2>1 DEF Owned, HeldGood
  <2>2. CASE d # c
    <3>1. waits'[d] = waits[d] /\ waits[d] # NoThread => waits[d] \in Thread \ {t}
      BY <1>3, <1>7, <2>2
    <3>2. waits[d] # NoThread /\ req[waits[d]].op = "refresh" => Asking(waits[d])
      BY <1>4, <3>1, <1>3, <2>2
    <3> QED
      BY <3>2 DEF Owned, HeldGood
  <2> QED
    BY <2>1, <2>2
<1>13. \A u \in Thread : pc'[u] = "activate" => req'[u].op = "activate"
  BY <1>3, <1>4 DEF Owned
<1> QED
  BY <1>9, <1>10, <1>11, <1>12, <1>13 DEF Owned, Asking, Delivers

\* What the answer leaves the client with.
LEMMA AfterIs ==
    ASSUME Typed, NEW c \in Client, NEW t \in Thread, pc[t] = "done"
    PROVE  LET now == After(req[t].op, holds[c], answer[t]).token
           IN  IF Delivers(t) THEN now = answer[t].value
               ELSE /\ now \in {0, holds[c].token}
                    /\ req[t].op = "refresh" => now = 0
<1>1. holds[c] \in [token : 0 .. MaxTokens, challenge : BOOLEAN]
  BY OwnedTypes
<1> QED
  BY <1>1 DEF After, AfterRefresh, AfterLogin, Nothing, Delivers

\* An answer that is received passes its token on.
LEMMA OwnedReceive == ASSUME Typed, Owned, NEW c \in Client, Receive(c) PROVE Owned'
<1>0. PICK t \in Thread : t = waits[c] /\ t # NoThread
  BY OwnedTypes DEF Receive
<1> DEFINE now == After(req[t].op, holds[c], answer[t])
<1>1. /\ pc[t] = "done"
      /\ pc' = [pc EXCEPT ![t] = "free"]
      /\ req' = [req EXCEPT ![t] = NoRequest]
      /\ answer' = [answer EXCEPT ![t] = NoAnswer]
      /\ waits' = [waits EXCEPT ![c] = NoThread]
      /\ holds' = [holds EXCEPT ![c] = now]
      /\ UNCHANGED <<row, ended>>
  BY <1>0 DEF Receive, Release, database
<1>2. lost' \in {lost, lost \ {c}} /\ (lost' # lost => Delivers(t))
  BY <1>0, <1>1 DEF Receive, Delivers
<1>3. IF Delivers(t) THEN now.token = answer[t].value
      ELSE now.token \in {0, holds[c].token} /\ (req[t].op = "refresh" => now.token = 0)
  BY <1>1, AfterIs
<1>4. /\ pc'[t] = "free" /\ waits'[c] = NoThread /\ holds'[c] = now
      /\ \A d \in Client \ {c} : waits'[d] = waits[d] /\ holds'[d] = holds[d]
  BY <1>1, OwnedTypes
<1>5. DeliveryOK(t) /\ HeldGood(c) /\ \A d \in Client \ {c} : waits[d] # t
  BY <1>0 DEF Owned, WaitsOK
<1> HIDE DEF now
<1>6. ~Asking(t)' /\ ~Delivers(t)' /\ ~Asking(t)
  BY <1>1, <1>4 DEF Asking, Delivers
<1>7. ASSUME NEW u \in Thread, u # t
      PROVE  /\ pc'[u] = pc[u] /\ req'[u] = req[u] /\ answer'[u] = answer[u]
             /\ Asking(u)' <=> Asking(u)
             /\ Delivers(u)' <=> Delivers(u)
  BY <1>1, <1>7, OwnedTypes DEF Asking, Delivers
<1>8. \A u \in Thread : Asking(u)' => Asking(u) /\ u # t /\ req'[u] = req[u]
  BY <1>6, <1>7
<1>9. \A u \in Thread : Delivers(u)' => Delivers(u) /\ u # t /\ answer'[u] = answer[u]
  BY <1>6, <1>7
<1>10. WaitsOK'
  <2>1. ASSUME NEW d \in Client, waits'[d] # NoThread PROVE pc'[waits'[d]] # "free"
    <3>1. d # c /\ waits[d] # t /\ waits[d] \in Thread /\ waits'[d] = waits[d] /\ pc[waits[d]] # "free"
      BY <1>4, <1>5, <2>1, OwnedTypes DEF Owned, WaitsOK
    <3> QED
      BY <1>7, <3>1
  <2>2. ASSUME NEW d \in Client, NEW e \in Client, waits'[d] = waits'[e], waits'[d] # NoThread
        PROVE  d = e
    BY <1>4, <2>2 DEF Owned, WaitsOK
  <2>3. ASSUME NEW d \in Client, NEW u \in Thread, waits'[d] = u, Asking(u)'
        PROVE  req'[u].arg = holds'[d].token
    <3>1. d # c
      BY <1>4, <2>3, NoThreadAssumption
    <3> QED
      BY <1>4, <1>8, <2>3, <3>1 DEF Owned, WaitsOK
  <2> QED
    BY <2>1, <2>2, <2>3 DEF WaitsOK, Asking
<1>11. HeldOnce'
  <2>1. ASSUME NEW d \in Client, d # c, now.token # 0 PROVE holds[d].token # now.token
    <3>1. CASE Delivers(t)
      BY <1>3, <1>5, <3>1 DEF DeliveryOK
    <3>2. CASE ~Delivers(t)
      BY <1>3, <2>1, <3>2 DEF Owned, HeldOnce
    <3> QED
      BY <3>1, <3>2
  <2>2. ASSUME NEW d \in Client, NEW e \in Client,
               holds'[d].token = holds'[e].token, holds'[d].token # 0
        PROVE  d = e
    <3>1. CASE d # c /\ e # c
      BY <1>4, <2>2, <3>1 DEF Owned, HeldOnce
    <3>2. CASE d = c \/ e = c
      BY <1>4, <2>1, <2>2, <3>2
    <3> QED
      BY <3>1, <3>2
  <2>3. ASSUME NEW d \in Client \ lost', NEW u \in Thread,
               Asking(u)', req'[u].arg = holds'[d].token
        PROVE  waits'[d] = u
    <3>1. Asking(u) /\ u # t /\ req[u].arg = holds'[d].token /\ req[u].arg # 0
      BY <1>8, <2>3, OwnedTypes
    <3>2. CASE d # c
      BY <1>2, <1>4, <3>1, <3>2 DEF Owned, HeldOnce
    <3>3. CASE d = c /\ Delivers(t)
      BY <1>3, <1>4, <1>5, <3>1, <3>3 DEF DeliveryOK
    <3>4. CASE d = c /\ ~Delivers(t)
      <4>1. c \notin lost /\ holds[c].token = req[u].arg
        BY <1>2, <1>3, <1>4, <2>3, <3>1, <3>4
      <4> QED
        BY <1>0, <3>1, <4>1 DEF Owned, HeldOnce
    <3> QED
      BY <3>2, <3>3, <3>4
  <2> QED
    BY <2>2, <2>3 DEF HeldOnce, Asking
<1>12. ASSUME NEW u \in Thread PROVE DeliveryOK(u)'
  <2> SUFFICES ASSUME Delivers(u)' PROVE DeliveryOK(u)'
    BY DEF DeliveryOK
  <2>1. u # t /\ Delivers(u) /\ answer'[u] = answer[u] /\ DeliveryOK(u)
    BY <1>9 DEF Owned
  <2>2. /\ answer[u].value # 0 /\ Good(answer[u].value)
        /\ \A d \in Client : holds[d].token # answer[u].value
        /\ \A v \in Thread : Asking(v) => req[v].arg # answer[u].value
        /\ \A v \in Thread : Delivers(v) /\ answer[v].value = answer[u].value => v = u
    BY <2>1 DEF DeliveryOK
  <2>3. now.token # answer[u].value
    <3>1. CASE Delivers(t)
      BY <1>1, <1>3, <2>1, <2>2, <3>1
    <3>2. CASE ~Delivers(t)
      BY <1>3, <2>2, <3>2
    <3> QED
      BY <3>1, <3>2
  <2>4. \A d \in Client : holds'[d].token # answer[u].value
    BY <1>4, <2>2, <2>3
  <2>5. \A v \in Thread : Asking(v)' => req'[v].arg # answer[u].value
    BY <1>8, <2>2
  <2>6. \A v \in Thread : Delivers(v)' /\ answer'[v].value = answer[u].value => v = u
    BY <1>9, <2>2
  <2> QED
    BY <1>1, <2>1, <2>2, <2>4, <2>5, <2>6 DEF DeliveryOK, Asking, Delivers, Good
<1>13. ASSUME NEW d \in Client PROVE HeldGood(d)'
  <2>1. CASE d = c
    <3> SUFFICES ASSUME c \notin lost', now.token # 0 PROVE Good(now.token)
      BY <1>1, <1>4, <2>1 DEF HeldGood, Asking, Good
    <3>1. CASE Delivers(t)
      BY <1>3, <1>5, <3>1 DEF DeliveryOK
    <3>2. CASE ~Delivers(t)
      <4>1. now.token = holds[c].token /\ req[t].op # "refresh" /\ c \notin lost
        BY <1>2, <1>3, <3>2
      <4> QED
        BY <1>0, <1>5, <4>1 DEF HeldGood
    <3> QED
      BY <3>1, <3>2
  <2>2. CASE d # c
    <3> SUFFICES ASSUME d \notin lost', holds'[d].token # 0,
                        waits'[d] # NoThread /\ req'[waits'[d]].op = "refresh" => Asking(waits[d])'
                 PROVE  Good(holds[d].token)
      BY <1>1, <1>4, <2>2 DEF HeldGood, Asking, Good
    <3>1. /\ d \notin lost /\ holds[d].token # 0 /\ waits'[d] = waits[d]
          /\ waits[d] # NoThread => waits[d] \in Thread \ {t}
      BY <1>2, <1>4, <1>5, <2>2, OwnedTypes
    <3>2. waits[d] # NoThread /\ req[waits[d]].op = "refresh" => Asking(waits[d])
      BY <1>7, <3>1
    <3> QED
      BY <3>1, <3>2 DEF Owned, HeldGood
  <2> QED
    BY <2>1, <2>2
<1>14. \A u \in Thread : pc'[u] = "activate" => req'[u].op = "activate"
  BY <1>4, <1>7 DEF Owned
<1> QED
  BY <1>10, <1>11, <1>12, <1>13, <1>14 DEF Owned, Asking, Delivers

\* A client that stops waiting has missed something, one that closes holds
\* nothing, and a restart does the first to every client that waits.
LEMMA OwnedFewer ==
    ASSUME Typed, Owned,
           \/ UNCHANGED <<pc, req, answer>>
           \/ \A t \in Thread : pc'[t] = "free",
           \A c \in Client : holds'[c] \in {holds[c], Nothing},
           \A c \in Client :
               \/ waits'[c] = waits[c] /\ (waits[c] # NoThread => holds'[c] = holds[c])
                  /\ UNCHANGED <<pc, req, answer>>
               \/ waits'[c] = NoThread /\ (c \in lost' \/ waits[c] = NoThread),
           lost \subseteq lost',
           UNCHANGED <<row, ended>>
    PROVE  Owned'
<1>1. \A t \in Thread : Asking(t)' => Asking(t) /\ UNCHANGED <<pc, req, answer>>
  BY DEF Asking
<1>2. \A t \in Thread : Delivers(t)' => Delivers(t) /\ UNCHANGED <<pc, req, answer>>
  BY DEF Delivers
<1>3. \A c \in Client : holds'[c].token \in {holds[c].token, 0}
  BY DEF Nothing
<1>4. WaitsOK'
  <2>1. \A c \in Client : waits'[c] # NoThread => pc'[waits'[c]] # "free"
    BY DEF Owned, WaitsOK
  <2>2. \A c, d \in Client : waits'[c] = waits'[d] /\ waits'[c] # NoThread => c = d
    BY DEF Owned, WaitsOK
  <2>3. ASSUME NEW c \in Client, NEW t \in Thread, waits'[c] = t, Asking(t)'
        PROVE  req'[t].arg = holds'[c].token
    BY <1>1, <2>3, NoThreadAssumption DEF Owned, WaitsOK
  <2> QED
    BY <2>1, <2>2, <2>3 DEF WaitsOK, Asking
<1>5. HeldOnce'
  <2>1. \A c, d \in Client : holds'[c].token = holds'[d].token /\ holds'[c].token # 0 => c = d
    BY <1>3 DEF Owned, HeldOnce
  <2>2. ASSUME NEW c \in Client \ lost', NEW t \in Thread, Asking(t)', req'[t].arg = holds'[c].token
        PROVE  waits'[c] = t
    <3>1. Asking(t) /\ req' = req /\ req[t].arg # 0
      BY <1>1, <2>2, OwnedTypes
    <3>2. waits[c] = t
      BY <1>3, <2>2, <3>1 DEF Owned, HeldOnce
    <3> QED
      BY <2>2, <3>2, NoThreadAssumption
  <2> QED
    BY <2>1, <2>2 DEF HeldOnce, Asking
<1>6. ASSUME NEW t \in Thread PROVE DeliveryOK(t)'
  <2> SUFFICES ASSUME Delivers(t)' PROVE DeliveryOK(t)'
    BY DEF DeliveryOK
  <2>1. Delivers(t) /\ answer' = answer /\ req' = req /\ DeliveryOK(t)
    BY <1>2 DEF Owned
  <2>2. /\ answer[t].value # 0 /\ Good(answer[t].value)
        /\ \A d \in Client : holds[d].token # answer[t].value
        /\ \A v \in Thread : Asking(v) => req[v].arg # answer[t].value
        /\ \A v \in Thread : Delivers(v) /\ answer[v].value = answer[t].value => v = t
    BY <2>1 DEF DeliveryOK
  <2>3. \A d \in Client : holds'[d].token # answer[t].value
    BY <1>3, <2>2
  <2>4. \A v \in Thread : Asking(v)' => req'[v].arg # answer[t].value
    BY <1>1, <2>2
  <2>5. \A v \in Thread : Delivers(v)' /\ answer'[v].value = answer[t].value => v = t
    BY <1>2, <2>2
  <2> QED
    BY <2>1, <2>2, <2>3, <2>4, <2>5 DEF DeliveryOK, Asking, Delivers, Good
<1>7. ASSUME NEW c \in Client PROVE HeldGood(c)'
  <2> SUFFICES ASSUME c \notin lost', holds'[c].token # 0,
                      waits'[c] # NoThread /\ req'[waits'[c]].op = "refresh" => Asking(waits[c])'
               PROVE  Good(holds[c].token)
    BY <1>3 DEF HeldGood, Asking, Good
  <2>1. c \notin lost /\ holds[c].token # 0
    BY <1>3
  <2>2. CASE waits[c] = NoThread
    BY <2>1, <2>2 DEF Owned, HeldGood
  <2>3. CASE waits[c] # NoThread
    <3>1. waits'[c] = waits[c] /\ UNCHANGED <<pc, req, answer>> /\ waits[c] \in Thread
      BY <2>3, OwnedTypes
    <3>2. req[waits[c]].op = "refresh" => Asking(waits[c])
      BY <1>1, <2>3, <3>1
    <3> QED
      BY <2>1, <3>2 DEF Owned, HeldGood
  <2> QED
    BY <2>2, <2>3
<1>8. \A t \in Thread : pc'[t] = "activate" => req'[t].op = "activate"
  BY DEF Owned
<1> QED
  BY <1>4, <1>5, <1>6, <1>7, <1>8 DEF Owned, Asking, Delivers

\* Every step leaves each token its owner.
LEMMA OwnedStep == Typed /\ Owned /\ [Next]_vars => Owned'
<1> SUFFICES ASSUME Typed, Owned, [Next]_vars PROVE Owned'
  OBVIOUS
<1>1. CASE UNCHANGED vars
  BY <1>1, OwnedFewer DEF vars, database, handlers, clients, history
<1>2. ASSUME NEW c \in Client, ClientStep(c) PROVE Owned'
  <2>1. CASE CallRefresh(c)
    BY <2>1, OwnedCall DEF CallRefresh
  <2>2. CASE CallLogin(c) \/ CallVerify(c) \/ CallLogout(c) \/ CallEnroll(c) \/ CallActivate(c)
    BY <2>2, OwnedCall DEF CallLogin, CallVerify, CallLogout, CallEnroll, CallActivate
  <2>3. CASE GiveUp(c)
    <3>1. /\ waits' = [waits EXCEPT ![c] = NoThread]
          /\ lost' = lost \union {c}
          /\ UNCHANGED <<pc, req, answer, row, ended, holds>>
      BY <2>3 DEF GiveUp, database, handlers
    <3> QED
      BY <3>1, OwnedTypes, OwnedFewer
  <2>4. CASE Close(c)
    <3>1. /\ waits[c] = NoThread
          /\ holds' = [holds EXCEPT ![c] = Nothing]
          /\ UNCHANGED <<pc, req, answer, row, ended, waits, lost>>
      BY <2>4 DEF Close, database, handlers, history
    <3> QED
      BY <3>1, OwnedTypes, OwnedFewer
  <2> QED
    BY <1>2, <2>1, <2>2, <2>3, <2>4, OwnedReceive DEF ClientStep
<1>3. ASSUME NEW t \in Thread, HandlerStep(t) PROVE Owned'
  BY <1>3, OwnedHandler
<1>4. CASE Crash
  <2>1. /\ pc' = [t \in Thread |-> "free"]
        /\ waits' = [c \in Client |-> NoThread]
        /\ lost' = lost \union {c \in Client : waits[c] # NoThread}
        /\ UNCHANGED <<row, ended, holds>>
    BY <1>4 DEF Crash, database
  <2> QED
    BY <2>1, OwnedFewer
<1> QED
  BY <1>1, <1>2, <1>3, <1>4 DEF Next

\* Only a refresh that finds its token spent is taken for a replay.
LEMMA DetectsIs ==
    ASSUME Typed, [Next]_vars, NEW t \in Thread, Detects(t)
    PROVE  Asking(t) /\ row[req[t].arg].revoked
<1>0. pc \in [Thread -> Steps] /\ pc[t] = "called" /\ pc'[t] = "reuse"
  BY DEF Detects, Typed, TypeOK
<1>1. PICK u \in Thread : Refresh(u) /\ u = t
  <2>1. ASSUME NEW u \in Thread, NEW step, pc' = [pc EXCEPT ![u] = step], step # "reuse" PROVE FALSE
    BY <1>0, <2>1
  <2>2. pc' # pc
    BY <1>0
  <2>3. ~(UNCHANGED vars)
    BY <2>2 DEF vars, handlers
  <2>4. ASSUME NEW c \in Client, ClientStep(c) PROVE FALSE
    <3>1. CASE GiveUp(c) \/ Close(c)
      BY <2>2, <3>1 DEF GiveUp, Close, handlers
    <3>2. CASE Receive(c)
      <4>1. waits[c] \in Thread /\ pc' = [pc EXCEPT ![waits[c]] = "free"]
        BY <3>2, OwnedTypes DEF Receive, Release
      <4> QED
        BY <2>1, <4>1
    <3>3. CASE \E u \in Thread : pc' = [pc EXCEPT ![u] = "called"]
      BY <2>1, <3>3
    <3> QED
      BY <2>4, <3>1, <3>2, <3>3
      DEF ClientStep, CallLogin, CallVerify, CallRefresh, CallLogout, CallEnroll, CallActivate, Call
  <2>5. ASSUME NEW u \in Thread, HandlerStep(u) PROVE Refresh(u) /\ u = t
    <3>1. ~\E step : step # "reuse" /\ pc' = [pc EXCEPT ![u] = step]
      BY <2>1
    <3>2. Refresh(u)
      BY <2>5, <3>1
      DEF HandlerStep, Login, MfaVerify, IssueTokens, Spend, RevokeFamily, Logout, MfaEnroll,
          StoreSecret, MfaActivate, EnableMfa, Discard, Release, Reply, Continue, Goto
    <3>3. \E step : pc' = [pc EXCEPT ![u] = step]
      BY <3>2 DEF Refresh, Reply, Goto
    <3> QED
      BY <1>0, <3>2, <3>3
  <2>6. ~Crash
    BY <1>0 DEF Crash
  <2> QED
    BY <2>3, <2>4, <2>5, <2>6 DEF Next
<1>2. Asking(t)
  BY <1>1 DEF Refresh, Serves, Asking
<1>3. row[req[t].arg].revoked
  <2>1. ASSUME NEW step, Goto(t, step) PROVE step = "reuse"
    BY <1>0, <2>1 DEF Goto
  <2> QED
    BY <1>1, <2>1 DEF Refresh, Reply
<1> QED
  BY <1>2, <1>3

\* A client that has missed no answer is taken for a replay only if its family
\* has ended, for any number of clients, handlers, lost answers and crashes.
THEOREM OnlyReplaysDetected == Spec => NoFalseReuse
<1>1. Init => Owned
  BY DEF Init, Owned, WaitsOK, HeldOnce, DeliveryOK, HeldGood, Asking, Delivers, Nothing
<1>2. Typed /\ Owned /\ [Next]_vars =>
          \A c \in Client \ lost : \A t \in Thread :
              waits[c] = t /\ Detects(t) => row[req[t].arg].family \in ended
  <2> SUFFICES ASSUME Typed, Owned, [Next]_vars, NEW c \in Client \ lost, NEW t \in Thread,
                      waits[c] = t, Detects(t)
               PROVE  row[req[t].arg].family \in ended
    OBVIOUS
  <2>1. Asking(t) /\ row[req[t].arg].revoked
    BY DetectsIs
  <2>2. req[t].arg = holds[c].token /\ holds[c].token # 0
    BY <2>1, OwnedTypes DEF Owned, WaitsOK
  <2>3. Good(holds[c].token)
    BY <2>1, <2>2 DEF Owned, HeldGood
  <2> QED
    BY <2>1, <2>2, <2>3 DEF Good
<1>3. Typed /\ Owned /\ [Next]_vars =>
          [\A c \in Client \ lost : \A t \in Thread :
               waits[c] = t /\ Detects(t) => row[req[t].arg].family \in ended]_vars
  BY <1>2
<1>4. Spec => [](Typed /\ Owned)
  BY <1>1, TypedInit, TypedStep, OwnedStep, PTL DEF Spec
<1> QED
  BY <1>3, <1>4, PTL DEF Spec, NoFalseReuse

(***************************************************************************)
(* Every family is what rotation promises.                                 *)
(***************************************************************************)
LEMMA FamilyIs ==
    ASSUME NEW f
    PROVE  /\ FamilyOf(f)!Init <=> Members(f) = {} /\ LiveIn(f) = {} /\ (f \in ended) = FALSE
           /\ (f \notin ended /\ LiveIn(f) = {} /\ (f \in ended') = (f \in ended)
                  /\ (\E k \in Token \ Members(f) :
                         Members(f)' = Members(f) \union {k} /\ LiveIn(f)' = {k}))
                  => FamilyOf(f)!Next
           /\ (LiveIn(f) # {} /\ LiveIn(f)' = {} /\ Members(f)' = Members(f)
                  /\ (f \in ended') = (f \in ended)) => FamilyOf(f)!Next
           /\ (Members(f) # {} /\ LiveIn(f)' = {} /\ f \in ended' /\ Members(f)' = Members(f))
                  => FamilyOf(f)!Next
           /\ (Members(f)' = Members(f) /\ LiveIn(f)' = LiveIn(f) /\ (f \in ended') = (f \in ended))
                  => UNCHANGED FamilyOf(f)!vars
  BY DEF FamilyOf!Init, FamilyOf!Next, FamilyOf!Issue, FamilyOf!Spend, FamilyOf!End, FamilyOf!vars

LEMMA FamilyStutters ==
    ASSUME NEW f, f \in ended' <=> f \in ended,
           \A k \in Token : (row'[k].family = f <=> row[k].family = f),
           \A k \in Token : row[k].family = f => row'[k] = row[k]
    PROVE  UNCHANGED FamilyOf(f)!vars
<1>1. Members(f)' = Members(f)
  BY DEF Members
<1>2. LiveIn(f)' = LiveIn(f)
  BY DEF LiveIn, Live, Issued
<1>3. (f \in ended') = (f \in ended)
  OBVIOUS
<1> QED
  BY <1>1, <1>2, <1>3, FamilyIs

LEMMA FamilyIssues ==
    ASSUME Typed, Rotation, NEW t \in Thread, IssueTokens(t), NEW f \in Token, f \notin raced'
    PROVE  FamilyOf(f)!Next \/ UNCHANGED FamilyOf(f)!vars
<1> DEFINE g == IF family[t] = 0 THEN issued' ELSE family[t]
<1>1. /\ pc[t] = "issue" /\ issued' = issued + 1 /\ issued' \in Token /\ issued \in Nat
      /\ row' = [row EXCEPT ![issued'] = [family |-> g, revoked |-> FALSE]]
      /\ UNCHANGED <<ended, raced>>
  <2>1. issued \in 0 .. MaxTokens
    BY DEF Typed, TypeOK
  <2> QED
    BY <2>1, BoundsAssumption DEF IssueTokens, history, Token
<1>2. row \in [Token -> [family : 0 .. MaxTokens, revoked : BOOLEAN]] /\ row[issued'].family = 0
  <2>1. ~Issued(issued')
    BY <1>1 DEF Typed, TypeOK
  <2> QED
    BY <2>1 DEF Typed, TypeOK, Issued
<1>3. \A k \in Token : row'[k] = IF k = issued' THEN [family |-> g, revoked |-> FALSE] ELSE row[k]
  BY <1>1, <1>2
<1>4. f # 0
  BY DEF Token
<1>5. CASE f = g
  <2>1. LiveIn(f) = {} /\ f \notin ended
    <3>1. ThreadOK(t) /\ IssuedOK /\ RotationOK(t)
      BY DEF Typed, Rotation
    <3>2. CASE family[t] = 0
      <4>1. \A k \in Token : row[k].family # issued'
        BY <1>1, <1>2, <3>1 DEF IssuedOK
      <4>2. f = issued' /\ f \notin 1 .. issued
        BY <1>1, <1>5, <3>2
      <4> QED
        BY <3>1, <4>1, <4>2 DEF LiveIn, IssuedOK
    <3>3. CASE family[t] # 0
      <4>1. Rotating(t) /\ f = family[t]
        BY <1>1, <1>5, <3>1, <3>3 DEF ThreadOK, Rotating
      <4> QED
        BY <1>1, <3>1, <4>1 DEF RotationOK
    <3> QED
      BY <3>2, <3>3
  <2>2. issued' \in Token \ Members(f) /\ Members(f)' = Members(f) \union {issued'}
    BY <1>1, <1>2, <1>3, <1>4, <1>5 DEF Members
  <2>3. LiveIn(f)' = {issued'}
    <3> HIDE DEF g
    <3>1. ASSUME NEW k \in Token
          PROVE  Live(k)' /\ row'[k].family = f <=> k = issued'
      <4>1. CASE k = issued'
        BY <1>1, <1>3, <1>4, <1>5, <4>1 DEF Live, Issued
      <4>2. CASE k # issued'
        BY <1>3, <2>1, <4>2 DEF LiveIn, Live, Issued
      <4> QED
        BY <4>1, <4>2
    <3> QED
      BY <1>1, <3>1 DEF LiveIn
  <2>4. (f \in ended') = (f \in ended)
    BY <1>1
  <2> QED
    BY <2>1, <2>2, <2>3, <2>4, FamilyIs
<1>6. CASE f # g
  <2> HIDE DEF g
  <2>1. \A k \in Token : (row'[k].family = f <=> row[k].family = f)
    BY <1>2, <1>3, <1>4, <1>6
  <2>2. \A k \in Token : row[k].family = f => row'[k] = row[k]
    BY <1>2, <1>3, <1>4
  <2> QED
    BY <1>1, <2>1, <2>2, FamilyStutters
<1> QED
  BY <1>5, <1>6

LEMMA FamilySpends ==
    ASSUME Typed, Rotation, NEW t \in Thread, Spend(t), NEW f \in Token, f \notin raced'
    PROVE  FamilyOf(f)!Next \/ UNCHANGED FamilyOf(f)!vars
<1> DEFINE a == req[t].arg
<1>1. /\ pc[t] = "spend" /\ Rotating(t) /\ family[t] = row[a].family /\ a \in Token
      /\ row' = [row EXCEPT ![a].revoked = TRUE]
      /\ UNCHANGED <<ended, raced>>
  BY TypedDatabase DEF Spend, history, Typed, ThreadOK, Rotating
<1>2. row \in [Token -> [family : 0 .. MaxTokens, revoked : BOOLEAN]]
  BY DEF Typed, TypeOK
<1> HIDE DEF a
<1>3. /\ \A k \in Token : row'[k].family = row[k].family /\ (k # a => row'[k] = row[k])
      /\ row'[a].revoked
  BY <1>1, <1>2
<1>4. CASE f = row[a].family
  <2>1. LiveIn(f) \subseteq {a}
    BY <1>1, <1>4 DEF Rotation, RotationOK, a
  <2>2. LiveIn(f)' = {}
    <3>1. \A k \in Token : Live(k)' /\ row'[k].family = f => k \in LiveIn(f) /\ k # a
      BY <1>3 DEF LiveIn, Live, Issued
    <3> QED
      BY <2>1, <3>1 DEF LiveIn
  <2>3. Members(f)' = Members(f)
    BY <1>3 DEF Members
  <2>4. (f \in ended') = (f \in ended)
    BY <1>1
  <2>5. CASE LiveIn(f) = {}
    BY <2>2, <2>3, <2>4, <2>5, FamilyIs
  <2>6. CASE LiveIn(f) # {}
    BY <2>2, <2>3, <2>4, <2>6, FamilyIs
  <2> QED
    BY <2>5, <2>6
<1>5. CASE f # row[a].family
  BY <1>1, <1>3, <1>5, FamilyStutters
<1> QED
  BY <1>4, <1>5

LEMMA FamilyEnds ==
    ASSUME Typed, NEW t \in Thread, RevokeFamily(t) \/ Logout(t), NEW f \in Token
    PROVE  FamilyOf(f)!Next \/ UNCHANGED FamilyOf(f)!vars
<1>1. PICK gone : Revoke(t, gone) /\ (f \in gone => Members(f) # {})
  <2>1. CASE RevokeFamily(t)
    <3>1. ThreadOK(t) /\ pc[t] = "reuse"
      BY <2>1 DEF RevokeFamily, Typed
    <3>2. req[t].arg \in Token /\ family[t] = row[req[t].arg].family
      BY <3>1, TypedDatabase DEF ThreadOK
    <3> QED
      BY <2>1, <3>2 DEF RevokeFamily, Members
  <2>2. CASE Logout(t)
    BY <2>2 DEF Logout, Members
  <2> QED
    BY <2>1, <2>2
<1>2. row \in [Token -> [family : 0 .. MaxTokens, revoked : BOOLEAN]]
  BY DEF Typed, TypeOK
<1>3. /\ ended' = ended \union gone
      /\ \A k \in Token : row'[k] =
             IF row[k].family \in gone THEN [row[k] EXCEPT !.revoked = TRUE] ELSE row[k]
  BY <1>1 DEF Revoke
<1>4. \A k \in Token : row'[k].family = row[k].family /\ (row[k].family \in gone => row'[k].revoked)
  BY <1>2, <1>3
<1>5. CASE f \in gone
  <2>1. LiveIn(f)' = {} /\ Members(f)' = Members(f) /\ f \in ended'
    BY <1>3, <1>4, <1>5 DEF LiveIn, Live, Members
  <2> QED
    BY <1>1, <1>5, <2>1, FamilyIs
<1>6. CASE f \notin gone
  BY <1>3, <1>4, <1>6, FamilyStutters
<1> QED
  BY <1>5, <1>6

LEMMA FamilyStep ==
    ASSUME Typed, Rotation, [Next]_vars, NEW f \in Token, f \notin raced'
    PROVE  FamilyOf(f)!Next \/ UNCHANGED FamilyOf(f)!vars
<1>1. CASE UNCHANGED <<row, ended>>
  BY <1>1, FamilyStutters
<1>2. ASSUME NEW c \in Client, ClientStep(c)
      PROVE  UNCHANGED <<row, ended>>
  BY <1>2 DEF ClientStep, CallLogin, CallVerify, CallRefresh, CallLogout, CallEnroll,
              CallActivate, Call, Receive, GiveUp, Close, database, history
<1>3. ASSUME NEW t \in Thread, HandlerStep(t)
      PROVE  \/ UNCHANGED <<row, ended>>
             \/ IssueTokens(t) \/ Spend(t) \/ RevokeFamily(t) \/ Logout(t)
  BY <1>3 DEF HandlerStep, Login, MfaVerify, Refresh, MfaEnroll, StoreSecret, MfaActivate,
              EnableMfa, Discard, database, history
<1>4. CASE Crash \/ UNCHANGED vars
  BY <1>1, <1>4 DEF Crash, vars, database, history
<1> QED
  BY <1>1, <1>2, <1>3, <1>4, FamilyIssues, FamilySpends, FamilyEnds DEF Next

\* For any number of clients, handlers, tokens and faults: until another handler
\* uses a family in rotation, what happens to it is what TokenFamily allows
\* (refresh, logout and _issue_tokens in src/server/app/routers/auth.py).
THEOREM RefinesFamily == Spec => ImplementsFamily
<1>1. Init => \A f \in Token : FamilyOf(f)!Init
  <2> SUFFICES ASSUME Init, NEW f \in Token
               PROVE  FamilyOf(f)!Init
    OBVIOUS
  <2>1. \A k \in Token : row[k].family = 0 /\ f # 0
    BY DEF Init, NoRow, Token
  <2>2. Members(f) = {} /\ LiveIn(f) = {} /\ (f \in ended) = FALSE
    BY <2>1 DEF Init, Members, LiveIn
  <2> QED
    BY <2>2, FamilyIs
<1>2. Typed /\ Rotation /\ [Next]_vars =>
          (UNCHANGED <<row, ended>> \/
              \A f \in Token : f \notin raced' => [FamilyOf(f)!Next]_(FamilyOf(f)!vars))
  BY FamilyStep
<1> QED
  BY <1>1, <1>2, Rotates, PTL DEF Spec, ImplementsFamily
=============================================================================
