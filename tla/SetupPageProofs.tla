---------------------------- MODULE SetupPageProofs ----------------------------
(***************************************************************************)
(* Who may submit a credential on the setup page and until when, and that  *)
(* submissions leave a secret with its own label unless one of them was    *)
(* overtaken by another: for any number of visitors, installations, links, *)
(* sessions, submissions under way and calls, and any session life.        *)
(***************************************************************************)
EXTENDS SetupPage, FiniteSetTheorems, TLAPS

(* A link which was not minted yet, or can still be followed, has led to   *)
(* no sign-in.                                                             *)
UnusedLinks ==
  \A s \in Sessions!Link :
    /\ signIns[s] <= 1
    /\ s > links \/ s \in DOMAIN states => signIns[s] = 0

(* A proof is as old as its session, and what is managed is managed now.   *)
ProofsAreFresh ==
  /\ \A v \in Visitor : \A i \in manages[v] : lastManaged[v][i] = now
  /\ \A v \in Visitor : cookie[v] \in DOMAIN sessions =>
       \A i \in sessions[cookie[v]].verified :
         lastManaged[v][i] >= sessions[cookie[v]].expiresAt - TTL
SignInInv == Sessions!TypeOK /\ UnusedLinks /\ ProofsAreFresh /\ lag <= TTL

(* Nobody is proven to manage what is uninstalled, so the sessions for it  *)
(* are all from before.                                                    *)
OldSessions ==
  \A n \in DOMAIN sessions :
    /\ sessions[n].expiresAt <= now + TTL
    /\ Home \in sessions[n].verified => sessions[n].expiresAt <= goneAt + TTL
AdmittedBefore ==
  \A s \in Submission : admitted[s] <= now /\ admitted[s] <= goneAt + TTL
GoneInv ==
  /\ TypeOK /\ OldSessions /\ AdmittedBefore
  /\ goneAt # Never => \A v \in Visitor : Home \notin manages[v]
  /\ uninstalled => goneAt # Never

(* The secret in the row is that of whoever is half way and was not        *)
(* overtaken; and once its own submission has labelled it, it is labelled  *)
(* as it should be until one that was overtaken labels it again ...        *)
RowInv ==
  /\ Auth!TypeOK
  /\ \A s \in Auth!HalfWritten :
       s \in overtaken \/ row = Auth!NoRow \/ row.secret = {s}
  /\ \A s \in Submission \ Auth!HalfWritten :
       row.secret = {s} => mislabelled \/ row = Auth!RowOf(s)

(* ... which is then what a quiet call has read.                           *)
ReadsTheRow(c) ==
  call[c] = "secret" => /\ Auth!HalfWritten = {} /\ ~mislabelled
                        /\ row # Auth!NoRow /\ held[c] = row.secret
CallInv ==
  RowInv /\ \A c \in Call : quiet[c] => ReadsTheRow(c) /\ Auth!Matched(c)

LEMMA Bounds ==
  /\ TTL \in Nat /\ MaxLinks \in Nat /\ MaxSessions \in Nat /\ Horizon \in Nat
  /\ Never \in Nat
BY BoundsAssumption DEF Never

-----------------------------------------------------------------------------
(* Signing in.                                                             *)
LEMMA InitSignIn == Init => SignInInv
<1> SUFFICES ASSUME Init PROVE SignInInv
  OBVIOUS
<1> USE Bounds DEF Init, Sessions!Init
<1>1. lastManaged \in [Visitor -> [Installation -> Int]]
  <2>1. 0 \in Int /\ -(TTL + 1) \in Int
    OBVIOUS
  <2> QED BY <2>1
<1>2. /\ now \in 0 .. Horizon /\ links \in 0 .. MaxLinks
      /\ minted \in 0 .. MaxSessions /\ lag \in Int
  OBVIOUS
<1>3. /\ DOMAIN states = {} /\ DOMAIN sessions = {}
      /\ states \in [DOMAIN states -> Sessions!Pending]
      /\ sessions \in [DOMAIN sessions -> Sessions!SetupData]
  OBVIOUS
<1>4. /\ cookie \in [Visitor -> 0 .. minted]
      /\ signIns \in [Sessions!Link -> Nat]
      /\ inFlight \in [Visitor -> {{}} \cup {{i} : i \in Installation}]
  OBVIOUS
<1>5. Sessions!TypeOK
  BY <1>1, <1>2, <1>3, <1>4 DEF Sessions!TypeOK
<1>6. UnusedLinks
  BY DEF UnusedLinks
<1>7. ProofsAreFresh
  BY <1>3 DEF ProofsAreFresh
<1> QED BY <1>5, <1>6, <1>7 DEF SignInInv

LEMMA TickSignIn ==
  ASSUME SignInInv, Sessions!Tick
  PROVE  SignInInv'
<1> USE Bounds DEF SignInInv, Sessions!Tick
<1>1. Sessions!TypeOK'
  <2>1. now' \in 0 .. Horizon /\ now' \in Int
    BY DEF Sessions!TypeOK
  <2>2. lastManaged' \in [Visitor -> [Installation -> Int]]
    BY <2>1 DEF Sessions!TypeOK
  <2> QED BY <2>1, <2>2 DEF Sessions!TypeOK
<1>2. UnusedLinks'
  BY DEF UnusedLinks, Sessions!Link
<1>3. ProofsAreFresh'
  <2>1. ASSUME NEW v \in Visitor, NEW i \in Installation
        PROVE  lastManaged'[v][i] >= lastManaged[v][i]
    BY DEF Sessions!TypeOK, ProofsAreFresh
  <2>2. ASSUME NEW v \in Visitor, NEW i \in manages'[v]
        PROVE  lastManaged'[v][i] = now'
    BY DEF Sessions!TypeOK
  <2>3. ASSUME NEW v \in Visitor, cookie[v] \in DOMAIN sessions,
               NEW i \in sessions[cookie[v]].verified
        PROVE  lastManaged'[v][i] >= sessions[cookie[v]].expiresAt - TTL
    <3>1. /\ sessions[cookie[v]] \in Sessions!SetupData /\ i \in Installation
          /\ sessions[cookie[v]].expiresAt \in Nat
      BY <2>3 DEF Sessions!TypeOK, Sessions!SetupData
    <3>2. lastManaged[v][i] \in Int /\ lastManaged'[v][i] \in Int
      BY <3>1, <1>1 DEF Sessions!TypeOK
    <3>3. lastManaged[v][i] >= sessions[cookie[v]].expiresAt - TTL
      BY <2>3 DEF ProofsAreFresh
    <3> QED BY <3>1, <3>2, <3>3, <2>1
  <2> QED BY <2>2, <2>3 DEF ProofsAreFresh
<1> QED BY <1>1, <1>2, <1>3

LEMMA LeaveSignIn ==
  ASSUME SignInInv, NEW v \in Visitor, Sessions!Leave(v)
  PROVE  SignInInv'
<1> USE Bounds DEF SignInInv, Sessions!Leave
<1>1. Sessions!TypeOK'
  BY DEF Sessions!TypeOK
<1>2. UnusedLinks'
  BY DEF UnusedLinks, Sessions!Link
<1>3. ProofsAreFresh'
  BY DEF ProofsAreFresh, Sessions!TypeOK
<1> QED BY <1>1, <1>2, <1>3

LEMMA SetupStartSignIn ==
  ASSUME SignInInv, Sessions!SetupStart
  PROVE  SignInInv'
<1> USE Bounds DEF SignInInv, Sessions!SetupStart
<1>1. PICK i \in Installation :
        states' = [s \in DOMAIN states \cup {links'} |->
                     IF s = links'
                     THEN [installation |-> i, expiresAt |-> Sessions!Expiry]
                     ELSE states[s]]
  OBVIOUS
<1>2. links' \in 0 .. MaxLinks /\ links' = links + 1 /\ links \in Nat
  BY DEF Sessions!TypeOK
<1>3. DOMAIN states' = DOMAIN states \cup {links'}
  BY <1>1
<1>4. [installation |-> i, expiresAt |-> Sessions!Expiry] \in Sessions!Pending
  BY DEF Sessions!TypeOK, Sessions!Pending, Sessions!Expiry
<1>5. Sessions!TypeOK'
  <2>1. states' \in [DOMAIN states' -> Sessions!Pending]
    BY <1>1, <1>3, <1>4 DEF Sessions!TypeOK
  <2>2. DOMAIN states' \subseteq 1 .. links'
    BY <1>2, <1>3 DEF Sessions!TypeOK
  <2>3. now' \in 0 .. Horizon /\ UNCHANGED <<now, manages, lastManaged>>
    BY DEF Sessions!TypeOK, Sessions!clock
  <2> QED BY <1>2, <2>1, <2>2, <2>3 DEF Sessions!TypeOK
<1>6. UnusedLinks'
  BY <1>2, <1>3 DEF UnusedLinks, Sessions!Link, Sessions!TypeOK
<1>7. ProofsAreFresh'
  BY DEF ProofsAreFresh, Sessions!clock
<1> QED BY <1>5, <1>6, <1>7

LEMMA CallbackSignIn ==
  ASSUME SignInInv, NEW v \in Visitor, Sessions!Callback(v)
  PROVE  SignInInv'
<1> USE Bounds DEF SignInInv
<1>1. PICK s \in DOMAIN states :
        /\ states' = Sessions!LinksAfter(s)
        /\ inFlight' = [inFlight EXCEPT
             ![v] = IF Sessions!Live(states[s]) THEN {states[s].installation}
                                               ELSE @]
        /\ signIns' = [signIns EXCEPT ![s] =
             IF Sessions!Live(states[s]) THEN @ + 1 ELSE @]
  BY DEF Sessions!Callback
<1>2. UNCHANGED <<now, manages, lastManaged, sessions, links, minted, cookie,
                  lag>>
  BY DEF Sessions!Callback, Sessions!clock
<1>3. states' = [t \in DOMAIN states \ {s} |-> states[t]]
  BY <1>1 DEF Sessions!LinksAfter, Sessions!Restrict
<1>4. s \in Sessions!Link /\ s \in 1 .. links
  BY DEF Sessions!TypeOK, Sessions!Link
<1>5. states[s].installation \in Installation
  BY DEF Sessions!TypeOK, Sessions!Pending
<1>6. signIns' \in [Sessions!Link -> Nat]
  BY <1>1, <1>4 DEF Sessions!TypeOK
<1>7. inFlight' \in [Visitor -> {{}} \cup {{i} : i \in Installation}]
  BY <1>1, <1>5 DEF Sessions!TypeOK
<1>8. Sessions!TypeOK'
  BY <1>2, <1>3, <1>6, <1>7 DEF Sessions!TypeOK
<1>9. UnusedLinks'
  <2>1. signIns[s] = 0
    BY <1>4 DEF UnusedLinks
  <2>2. signIns'[s] \in {0, 1}
    BY <1>1, <1>4, <2>1 DEF Sessions!TypeOK
  <2>3. ASSUME NEW t \in Sessions!Link, t # s
        PROVE  signIns'[t] = signIns[t]
    BY <1>1, <2>3 DEF Sessions!TypeOK
  <2>4. ~(s > links')
    BY <1>2, <1>4 DEF Sessions!TypeOK
  <2>5. DOMAIN states' = DOMAIN states \ {s}
    BY <1>3
  <2> QED BY <1>2, <2>2, <2>3, <2>4, <2>5 DEF UnusedLinks, Sessions!Link
<1>10. ProofsAreFresh'
  BY <1>2 DEF ProofsAreFresh
<1> QED BY <1>2, <1>8, <1>9, <1>10

LEMMA ProvenSignIn ==
  ASSUME SignInInv, NEW v \in Visitor, Sessions!Proven(v)
  PROVE  SignInInv'
<1> USE Bounds DEF SignInInv, Sessions!Proven, Sessions!clock
<1>1. minted' \in 0 .. MaxSessions /\ minted' = minted + 1 /\ minted \in Nat
  BY DEF Sessions!TypeOK
<1>2. /\ minted' \notin DOMAIN sessions
      /\ DOMAIN sessions' = DOMAIN sessions \cup {minted'}
      /\ \A n \in DOMAIN sessions : sessions'[n] = sessions[n]
      /\ sessions'[minted'] =
           [verified |-> manages[v], expiresAt |-> Sessions!Expiry]
  BY <1>1 DEF Sessions!TypeOK
<1>3. [verified |-> manages[v], expiresAt |-> Sessions!Expiry]
        \in Sessions!SetupData
  BY DEF Sessions!TypeOK, Sessions!SetupData, Sessions!Expiry
<1>4. cookie' \in [Visitor -> 0 .. minted']
  BY <1>1 DEF Sessions!TypeOK
<1>5. Sessions!TypeOK'
  <2>1. sessions' \in [DOMAIN sessions' -> Sessions!SetupData]
    BY <1>2, <1>3 DEF Sessions!TypeOK
  <2>2. DOMAIN sessions' \subseteq 1 .. minted'
    BY <1>1, <1>2 DEF Sessions!TypeOK
  <2>3. inFlight' \in [Visitor -> {{}} \cup {{i} : i \in Installation}]
    BY DEF Sessions!TypeOK
  <2> QED BY <1>1, <1>4, <2>1, <2>2, <2>3 DEF Sessions!TypeOK
<1>6. UnusedLinks'
  BY DEF UnusedLinks, Sessions!Link
<1>7. ProofsAreFresh'
  <2>1. \A w \in Visitor : \A i \in manages'[w] : lastManaged'[w][i] = now'
    BY DEF ProofsAreFresh
  <2>2. ASSUME NEW w \in Visitor, w # v, cookie'[w] \in DOMAIN sessions'
        PROVE  cookie'[w] = cookie[w] /\ cookie[w] \in DOMAIN sessions
    BY <1>1, <1>2, <2>2 DEF Sessions!TypeOK
  <2>3. \A i \in manages[v] :
          lastManaged[v][i] >= Sessions!Expiry - TTL
    BY DEF ProofsAreFresh, Sessions!Expiry, Sessions!TypeOK
  <2>4. cookie'[v] = minted'
    BY DEF Sessions!TypeOK
  <2>5. ASSUME NEW w \in Visitor, cookie'[w] \in DOMAIN sessions',
               NEW i \in sessions'[cookie'[w]].verified
        PROVE  lastManaged'[w][i] >= sessions'[cookie'[w]].expiresAt - TTL
    <3>1. CASE w = v
      BY <3>1, <2>3, <2>4, <2>5, <1>2
    <3>2. CASE w # v
      BY <3>2, <2>2, <2>5, <1>2 DEF ProofsAreFresh
    <3> QED BY <3>1, <3>2
  <2> QED BY <2>1, <2>5 DEF ProofsAreFresh
<1> QED BY <1>5, <1>6, <1>7

LEMMA NotProvenSignIn ==
  ASSUME SignInInv, NEW v \in Visitor, Sessions!NotProven(v)
  PROVE  SignInInv'
BY DEF SignInInv, Sessions!NotProven, Sessions!clock, Sessions!TypeOK,
   UnusedLinks, ProofsAreFresh, Sessions!Link

LEMMA SubmitExpiredSignIn ==
  ASSUME SignInInv, NEW v \in Visitor, Sessions!SubmitExpired(v)
  PROVE  SignInInv'
<1> USE DEF SignInInv, Sessions!SubmitExpired, Sessions!clock
<1>1. sessions' = [n \in DOMAIN sessions \ {cookie[v]} |-> sessions[n]]
  BY DEF Sessions!Restrict
<1>2. Sessions!TypeOK'
  BY <1>1 DEF Sessions!TypeOK
<1>3. UnusedLinks'
  BY DEF UnusedLinks, Sessions!Link
<1>4. ProofsAreFresh'
  BY <1>1 DEF ProofsAreFresh
<1> QED BY <1>2, <1>3, <1>4

LEMMA SubmitSignIn ==
  ASSUME SignInInv, NEW v \in Visitor, NEW i \in Installation,
         Sessions!Submit(v, i)
  PROVE  SignInInv'
<1> USE Bounds DEF SignInInv, Sessions!Submit, Sessions!clock
<1>1. /\ lag' = now - lastManaged[v][i] /\ lastManaged[v][i] \in Int
      /\ now \in Nat
  BY DEF Sessions!TypeOK
<1>2. Sessions!TypeOK'
  BY <1>1 DEF Sessions!TypeOK
<1>3. lag' <= TTL
  <2>1. /\ sessions[cookie[v]].expiresAt \in Nat
        /\ sessions[cookie[v]].expiresAt >= now
    BY DEF Sessions!TypeOK, Sessions!SetupData, Sessions!Live
  <2>2. lastManaged[v][i] >= sessions[cookie[v]].expiresAt - TTL
    BY DEF ProofsAreFresh, Sessions!Allowed
  <2> QED BY <1>1, <2>1, <2>2
<1>4. UnusedLinks' /\ ProofsAreFresh'
  BY DEF UnusedLinks, ProofsAreFresh, Sessions!Link
<1> QED BY <1>2, <1>3, <1>4

LEMMA RestartSignIn ==
  ASSUME SignInInv, Sessions!Restart
  PROVE  SignInInv'
<1> USE DEF SignInInv, Sessions!Restart, Sessions!clock
<1>1. DOMAIN states' = {} /\ DOMAIN sessions' = {}
  OBVIOUS
<1>2. Sessions!TypeOK'
  BY <1>1 DEF Sessions!TypeOK
<1>3. UnusedLinks'
  BY <1>1 DEF UnusedLinks, Sessions!Link
<1>4. ProofsAreFresh'
  BY <1>1 DEF ProofsAreFresh
<1> QED BY <1>2, <1>3, <1>4

LEMMA StepSignIn == SignInInv /\ [Next]_vars => SignInInv'
<1> SUFFICES ASSUME SignInInv, [Next]_vars PROVE SignInInv'
  OBVIOUS
<1>1. CASE Visit
  BY <1>1, TickSignIn, SetupStartSignIn, RestartSignIn, LeaveSignIn,
     CallbackSignIn, ProvenSignIn, NotProvenSignIn, SubmitExpiredSignIn,
     SubmitSignIn DEF Visit
<1>2. CASE \E s \in Submission : Submit(s)
  BY <1>2, SubmitSignIn, HomeAssumption DEF Submit
<1>3. CASE Uninstall
  <2> USE <1>3 DEF SignInInv, Uninstall
  <2>1. Sessions!TypeOK'
    BY DEF Sessions!TypeOK
  <2>2. UnusedLinks' /\ ProofsAreFresh'
    BY DEF UnusedLinks, ProofsAreFresh, Sessions!Link, Sessions!TypeOK
  <2> QED BY <2>1, <2>2
<1>4. CASE UNCHANGED signIn
  BY <1>4 DEF signIn, SignInInv, Sessions!TypeOK, UnusedLinks, ProofsAreFresh,
     Sessions!Link
<1> QED BY <1>1, <1>2, <1>3, <1>4 DEF Next, vars, Credential, Purge

-----------------------------------------------------------------------------
(* The credential.                                                         *)
LEMMA InitAuth == Init => Auth!TypeOK /\ RowInv /\ CallInv
<1> SUFFICES ASSUME Init PROVE Auth!TypeOK /\ RowInv /\ CallInv
  OBVIOUS
<1> USE DEF Init, Auth!Init
<1>1. Auth!TypeOK
  <2>1. row \in {Auth!NoRow} \cup
          [secret : {{s} : s \in Submission}, type : Auth!AuthType]
    BY DEF Auth!RowOf, Auth!TypeOf, Auth!AuthType
  <2>2. /\ form \in [Submission ->
                  {"none", "validated", "stored", "succeeded", "failed"}]
        /\ call \in [Call -> {"idle", "secret", "platform", "missing"}
                              \cup Auth!AuthType]
        /\ held \in [Call -> {{}} \cup {{s} : s \in Submission}]
    OBVIOUS
  <2>3. /\ quiet \in [Call -> BOOLEAN] /\ uninstalled \in BOOLEAN
        /\ overtaken \subseteq Submission /\ mislabelled \in BOOLEAN
    OBVIOUS
  <2> QED BY <2>1, <2>2, <2>3 DEF Auth!TypeOK
<1>2. Auth!HalfWritten = {}
  BY DEF Auth!HalfWritten
<1>3. RowInv
  BY <1>1, <1>2 DEF RowInv, Auth!RowOf, Auth!NoRow
<1>4. \A c \in Call : ~quiet[c]
  OBVIOUS
<1> QED BY <1>1, <1>3, <1>4 DEF CallInv

LEMMA StepAuthType == Auth!TypeOK /\ [Next]_vars => Auth!TypeOK'
<1> SUFFICES ASSUME Auth!TypeOK, [Next]_vars PROVE Auth!TypeOK'
  OBVIOUS
<1> USE DEF Auth!TypeOK
<1>0. {} \in {{}} \cup {{s} : s \in Submission} /\ FALSE \in BOOLEAN
  OBVIOUS
<1>1. ASSUME NEW s \in Submission, Auth!Validate(s)
      PROVE  Auth!TypeOK'
  BY <1>1 DEF Auth!Validate, Auth!histories
<1>2. ASSUME NEW s \in Submission, Auth!SetAnthropicKey(s)
      PROVE  Auth!TypeOK'
  <2>1. row' \in [secret : {{t} : t \in Submission}, type : Auth!AuthType]
    BY <1>2 DEF Auth!SetAnthropicKey, Auth!AuthType
  <2>2. quiet' \in [Call -> BOOLEAN] /\ overtaken' \subseteq Submission
    BY <1>0, <1>2 DEF Auth!SetAnthropicKey, Auth!HalfWritten
  <2> QED BY <1>2, <2>1, <2>2 DEF Auth!SetAnthropicKey
<1>3. ASSUME NEW s \in Submission, Auth!SetInstallationAuthType(s)
      PROVE  Auth!TypeOK'
  <2>1. row' \in {Auth!NoRow} \cup
          [secret : {{t} : t \in Submission}, type : Auth!AuthType]
    BY <1>3 DEF Auth!SetInstallationAuthType, Auth!TypeOf, Auth!AuthType
  <2>2. quiet' \in [Call -> BOOLEAN] /\ mislabelled' \in BOOLEAN
    <3>1. (s \in overtaken) \in BOOLEAN
      OBVIOUS
    <3> QED BY <1>0, <1>3, <3>1 DEF Auth!SetInstallationAuthType
  <2> QED BY <1>3, <2>1, <2>2 DEF Auth!SetInstallationAuthType
<1>4. ASSUME Auth!Purge
      PROVE  Auth!TypeOK'
  <2>1. /\ quiet' \in [Call -> BOOLEAN] /\ uninstalled' \in BOOLEAN
        /\ mislabelled' \in BOOLEAN
    BY <1>0, <1>4 DEF Auth!Purge
  <2> QED BY <1>4, <2>1 DEF Auth!Purge
<1>5. ASSUME NEW c \in Call, Auth!GetAnthropicKey(c)
      PROVE  Auth!TypeOK'
  <2>1. row.secret \in {{}} \cup {{s} : s \in Submission}
    BY DEF Auth!NoRow
  <2>2. held' \in [Call -> {{}} \cup {{s} : s \in Submission}]
    BY <1>5, <2>1 DEF Auth!GetAnthropicKey
  <2>3. (Auth!HalfWritten = {} /\ ~mislabelled) \in BOOLEAN
    OBVIOUS
  <2>4. quiet' \in [Call -> BOOLEAN]
    BY <1>5, <2>3, Zenon DEF Auth!GetAnthropicKey
  <2>5. call' \in [Call -> {"idle", "secret", "platform", "missing"}
                             \cup Auth!AuthType]
    BY <1>5 DEF Auth!GetAnthropicKey
  <2> QED BY <1>5, <2>2, <2>4, <2>5 DEF Auth!GetAnthropicKey, Auth!histories
<1>6. ASSUME NEW c \in Call, Auth!GetInstallationAuthType(c)
      PROVE  Auth!TypeOK'
  <2>1. Auth!Label \in Auth!AuthType
    BY DEF Auth!Label, Auth!AuthType
  <2> QED BY <1>6, <2>1 DEF Auth!GetInstallationAuthType, Auth!histories
<1>7. CASE UNCHANGED credential
  BY <1>7 DEF credential
<1> QED
  BY <1>1, <1>2, <1>3, <1>4, <1>5, <1>6, <1>7
  DEF Next, vars, Visit, Credential, Submit, Uninstall, Purge

(* The secret is somebody's own while nobody overtook them, and a label on *)
(* somebody else's secret is put there by one that was overtaken.          *)
LEMMA StepRow == RowInv /\ [Next]_vars => RowInv'
<1> SUFFICES ASSUME RowInv, [Next]_vars PROVE RowInv'
  OBVIOUS
<1>0. Auth!TypeOK /\ Auth!TypeOK'
  BY StepAuthType DEF RowInv
<1> USE <1>0 DEF RowInv, Auth!HalfWritten, Auth!TypeOK
<1>1. ASSUME NEW s \in Submission, Auth!Validate(s)
      PROVE  RowInv'
  <2>1. \A t \in Submission : t # s => form'[t] = form[t]
    BY <1>1 DEF Auth!Validate
  <2>2. /\ form'[s] = "validated" /\ form[s] = "none"
        /\ row' = row /\ overtaken' = overtaken /\ mislabelled' = mislabelled
    BY <1>1 DEF Auth!Validate, Auth!histories
  <2> QED BY <2>1, <2>2 DEF Auth!RowOf, Auth!NoRow
<1>2. ASSUME NEW s \in Submission, Auth!SetAnthropicKey(s)
      PROVE  RowInv'
  <2>1. \A t \in Submission : t # s => form'[t] = form[t]
    BY <1>2 DEF Auth!SetAnthropicKey
  <2>2. /\ form'[s] = "stored" /\ row'.secret = {s}
        /\ overtaken' = overtaken \cup {t \in Submission : form[t] = "stored"}
    BY <1>2 DEF Auth!SetAnthropicKey
  <2>3. ASSUME NEW t \in Submission, form'[t] = "stored"
        PROVE  t \in overtaken' \/ row'.secret = {t}
    BY <2>1, <2>2, <2>3
  <2>4. ASSUME NEW t \in Submission, form'[t] # "stored"
        PROVE  row'.secret # {t}
    BY <2>2, <2>4
  <2> QED BY <2>3, <2>4
<1>3. ASSUME NEW s \in Submission, Auth!SetInstallationAuthType(s)
      PROVE  RowInv'
  <2>1. \A t \in Submission : t # s => form'[t] = form[t]
    BY <1>3 DEF Auth!SetInstallationAuthType
  <2>2. /\ form[s] = "stored" /\ form'[s] \in {"succeeded", "failed"}
        /\ overtaken' = overtaken
    BY <1>3 DEF Auth!SetInstallationAuthType
  <2>3. CASE row = Auth!NoRow
    <3>1. row' = Auth!NoRow
      BY <1>3, <2>3 DEF Auth!SetInstallationAuthType
    <3> QED BY <2>1, <2>2, <3>1 DEF Auth!NoRow
  <2>4. CASE row # Auth!NoRow
    <3>1. /\ row' = [row EXCEPT !.type = Auth!TypeOf(s)]
          /\ mislabelled' = (s \in overtaken)
          /\ row \in [secret : {{t} : t \in Submission}, type : Auth!AuthType]
      BY <1>3, <2>4 DEF Auth!SetInstallationAuthType
    <3>2. row'.secret = row.secret /\ row' # Auth!NoRow
      BY <3>1 DEF Auth!NoRow
    <3>3. s \in overtaken \/ row.secret = {s}
      BY <2>2, <2>4
    <3>4. ASSUME NEW t \in Submission, form'[t] = "stored"
          PROVE  t \in overtaken' \/ row'.secret = {t}
      BY <2>1, <2>2, <2>4, <3>2, <3>4
    <3>5. ASSUME row.secret = {s}
          PROVE  row' = Auth!RowOf(s)
      BY <3>1, <3>5 DEF Auth!RowOf
    <3>6. ASSUME NEW t \in Submission, row'.secret = {t}
          PROVE  mislabelled' \/ row' = Auth!RowOf(t)
      BY <3>1, <3>2, <3>3, <3>5, <3>6
    <3> QED BY <3>4, <3>6
  <2> QED BY <2>3, <2>4
<1>4. ASSUME Auth!Purge
      PROVE  RowInv'
  BY <1>4 DEF Auth!Purge, Auth!NoRow
<1>5. ASSUME UNCHANGED <<row, form, overtaken, mislabelled>>
      PROVE  RowInv'
  BY <1>5 DEF Auth!RowOf, Auth!NoRow
<1> QED
  BY <1>1, <1>2, <1>3, <1>4, <1>5
  DEF Next, vars, credential, Visit, Credential, Submit, Uninstall, Purge,
      Auth!GetAnthropicKey, Auth!GetInstallationAuthType, Auth!histories

(* A write ends all quiet, and only a read begins it.                      *)
LEMMA StepCalls == CallInv /\ [Next]_vars => CallInv'
<1> SUFFICES ASSUME CallInv, [Next]_vars PROVE CallInv'
  OBVIOUS
<1>0. RowInv /\ RowInv' /\ Auth!TypeOK /\ Auth!TypeOK'
  BY StepRow DEF CallInv, RowInv
<1>1. ASSUME \A c \in Call : ~quiet'[c]
      PROVE  CallInv'
  BY <1>0, <1>1 DEF CallInv
<1>2. ASSUME UNCHANGED <<row, mislabelled, call, held, quiet>>,
             Auth!HalfWritten' = Auth!HalfWritten
      PROVE  CallInv'
  BY <1>0, <1>2 DEF CallInv, ReadsTheRow, Auth!Matched, Auth!NoRow,
     Auth!AuthType, Auth!TypeOf
<1>3. ASSUME NEW s \in Submission, Auth!Validate(s)
      PROVE  CallInv'
  <2>1. Auth!HalfWritten' = Auth!HalfWritten
    BY <1>0, <1>3 DEF Auth!Validate, Auth!HalfWritten, Auth!TypeOK
  <2> QED BY <1>2, <1>3, <2>1 DEF Auth!Validate, Auth!histories
<1>4. ASSUME NEW s \in Submission,
             Auth!SetAnthropicKey(s) \/ Auth!SetInstallationAuthType(s)
      PROVE  CallInv'
  BY <1>1, <1>4 DEF Auth!SetAnthropicKey, Auth!SetInstallationAuthType
<1>5. ASSUME Auth!Purge
      PROVE  CallInv'
  BY <1>1, <1>5 DEF Auth!Purge
<1>6. ASSUME NEW c \in Call, Auth!GetAnthropicKey(c)
      PROVE  CallInv'
  <2>1. /\ Auth!HalfWritten' = Auth!HalfWritten /\ row' = row
        /\ mislabelled' = mislabelled
    BY <1>6 DEF Auth!GetAnthropicKey, Auth!HalfWritten, Auth!histories
  <2>2. ASSUME NEW d \in Call, d # c, quiet'[d]
        PROVE  (ReadsTheRow(d) /\ Auth!Matched(d))'
    <3>1. call'[d] = call[d] /\ held'[d] = held[d] /\ quiet[d]
      BY <1>0, <1>6, <2>2 DEF Auth!GetAnthropicKey, Auth!TypeOK
    <3> QED BY <2>1, <3>1 DEF CallInv, ReadsTheRow, Auth!Matched, Auth!NoRow,
                 Auth!AuthType, Auth!TypeOf
  <2>3. ASSUME quiet'[c]
        PROVE  (ReadsTheRow(c) /\ Auth!Matched(c))'
    <3>1. /\ Auth!HalfWritten = {} /\ ~mislabelled
          /\ held'[c] = row.secret
          /\ call'[c] = IF row # Auth!NoRow THEN "secret"
                        ELSE IF HasPlatformKey THEN "platform" ELSE "missing"
      BY <1>0, <1>6, <2>3 DEF Auth!GetAnthropicKey, Auth!TypeOK
    <3>2. call'[c] \notin Auth!AuthType
      BY <3>1 DEF Auth!AuthType
    <3> QED BY <2>1, <3>1, <3>2 DEF ReadsTheRow, Auth!Matched, Auth!NoRow,
                 Auth!AuthType
  <2> QED BY <1>0, <2>2, <2>3 DEF CallInv
<1>7. ASSUME NEW c \in Call, Auth!GetInstallationAuthType(c)
      PROVE  CallInv'
  <2>1. /\ Auth!HalfWritten' = Auth!HalfWritten
        /\ row' = row /\ held' = held /\ quiet' = quiet
        /\ mislabelled' = mislabelled
    BY <1>7 DEF Auth!GetInstallationAuthType, Auth!HalfWritten,
       Auth!histories
  <2>2. ASSUME NEW d \in Call, d # c, quiet'[d]
        PROVE  (ReadsTheRow(d) /\ Auth!Matched(d))'
    <3>1. call'[d] = call[d]
      BY <1>0, <1>7, <2>2 DEF Auth!GetInstallationAuthType, Auth!TypeOK
    <3> QED BY <2>1, <2>2, <3>1 DEF CallInv, ReadsTheRow, Auth!Matched,
                 Auth!NoRow, Auth!AuthType, Auth!TypeOf
  <2>3. ASSUME quiet'[c]
        PROVE  (ReadsTheRow(c) /\ Auth!Matched(c))'
    <3>1. /\ Auth!HalfWritten = {} /\ ~mislabelled
          /\ row # Auth!NoRow /\ held[c] = row.secret
      BY <1>7, <2>1, <2>3 DEF CallInv, ReadsTheRow,
         Auth!GetInstallationAuthType
    <3>2. PICK s \in Submission : row = Auth!RowOf(s)
      <4>1. PICK s \in Submission : row.secret = {s}
        BY <1>0, <3>1 DEF Auth!TypeOK
      <4> QED BY <1>0, <3>1, <4>1 DEF RowInv
    <3>3. Auth!Label = Auth!TypeOf(s) /\ held'[c] = {s}
      BY <2>1, <3>1, <3>2 DEF Auth!Label, Auth!RowOf
    <3>4. call'[c] \in {"missing", Auth!TypeOf(s)}
      BY <1>0, <1>7, <3>3 DEF Auth!GetInstallationAuthType, Auth!TypeOK
    <3>5. call'[c] # "secret" /\ "missing" \notin Auth!AuthType
      BY <3>4 DEF Auth!TypeOf, Auth!AuthType
    <3> QED BY <3>3, <3>4, <3>5 DEF ReadsTheRow, Auth!Matched, Auth!TypeOf,
                 Auth!AuthType
  <2> QED BY <1>0, <2>2, <2>3 DEF CallInv
<1>8. CASE UNCHANGED credential
  BY <1>2, <1>8 DEF credential, Auth!HalfWritten
<1> QED
  BY <1>3, <1>4, <1>5, <1>6, <1>7, <1>8
  DEF Next, vars, Visit, Credential, Submit, Uninstall, Purge

-----------------------------------------------------------------------------
(* What is left behind.                                                    *)
LEMMA InitGone == Init => GoneInv
<1> SUFFICES ASSUME Init PROVE GoneInv
  OBVIOUS
<1>1. Sessions!TypeOK /\ Auth!TypeOK
  BY InitSignIn, InitAuth DEF SignInInv
<1>2. /\ goneAt = Never /\ goneAt \in 0 .. Never /\ now = 0
      /\ admitted = [s \in Submission |-> 0]
      /\ admitted \in [Submission -> 0 .. Horizon] /\ ~uninstalled
      /\ DOMAIN sessions = {}
  BY Bounds DEF Init, Auth!Init, Sessions!Init
<1> QED BY Bounds, <1>1, <1>2 DEF GoneInv, TypeOK, OldSessions, AdmittedBefore

(* Whatever the sessions, the admission of one submission keeps its bound. *)
LEMMA SubmitIsBefore ==
  ASSUME GoneInv, NEW s \in Submission, Submit(s)
  PROVE  now <= goneAt + TTL
<1>1. PICK v \in Visitor : Sessions!Submit(v, Home)
  BY DEF Submit
<1>2. /\ cookie[v] \in DOMAIN sessions
      /\ sessions[cookie[v]].expiresAt >= now
      /\ Home \in sessions[cookie[v]].verified
  BY <1>1 DEF Sessions!Submit, Sessions!Live, Sessions!Allowed
<1>3. sessions[cookie[v]].expiresAt <= goneAt + TTL
  BY <1>2 DEF GoneInv, OldSessions
<1>4. /\ sessions[cookie[v]].expiresAt \in Nat /\ now \in Nat
      /\ goneAt \in Nat /\ TTL \in Nat
  BY <1>2, Bounds DEF GoneInv, TypeOK, Sessions!TypeOK, Sessions!SetupData
<1> QED BY <1>2, <1>3, <1>4

LEMMA StepGone == GoneInv /\ SignInInv /\ [Next]_vars => GoneInv'
<1> SUFFICES ASSUME GoneInv, SignInInv, [Next]_vars PROVE GoneInv'
  OBVIOUS
<1>1. /\ Sessions!TypeOK /\ Sessions!TypeOK' /\ Auth!TypeOK /\ Auth!TypeOK'
      /\ now \in Nat /\ now' \in Nat /\ now <= Horizon /\ goneAt \in Nat
      /\ \A n \in DOMAIN sessions : sessions[n].expiresAt \in Nat
      /\ \A s \in Submission : admitted[s] \in Nat
  <2>1. Sessions!TypeOK /\ Sessions!TypeOK' /\ Auth!TypeOK /\ Auth!TypeOK'
    BY StepSignIn, StepAuthType DEF SignInInv, GoneInv, TypeOK
  <2>2. now \in Nat /\ now' \in Nat /\ now <= Horizon /\ goneAt \in Nat
    BY <2>1, Bounds DEF GoneInv, TypeOK, Sessions!TypeOK
  <2>3. /\ \A n \in DOMAIN sessions : sessions[n].expiresAt \in Nat
        /\ \A s \in Submission : admitted[s] \in Nat
    BY <2>1, Bounds DEF GoneInv, TypeOK, Sessions!TypeOK, Sessions!SetupData
  <2> QED BY <2>1, <2>2, <2>3
<1> DEFINE Gone == goneAt # Never => \A v \in Visitor : Home \notin manages[v]
<1>2. ASSUME Visit
      PROVE  OldSessions' /\ now' >= now /\ Gone'
  <2>1. goneAt' = goneAt /\ Never' = Never
    BY <1>2 DEF Visit, late, Never
  <2>2. CASE Sessions!Tick
    <3>1. now' = now + 1 /\ sessions' = sessions /\ manages' = manages
      BY <2>2 DEF Sessions!Tick
    <3> QED BY <1>1, <2>1, <3>1, Bounds DEF GoneInv, OldSessions
  <2>3. ASSUME NEW v \in Visitor, Sessions!Proven(v)
        PROVE  OldSessions' /\ now' >= now /\ Gone'
    <3>1. /\ now' = now /\ manages' = manages
          /\ sessions' = [n \in DOMAIN sessions \cup {minted'} |->
               IF n = minted'
               THEN [verified |-> manages[v], expiresAt |-> Sessions!Expiry]
               ELSE sessions[n]]
      BY <2>3 DEF Sessions!Proven, Sessions!clock
    <3>2. ASSUME NEW n \in DOMAIN sessions', n # minted'
          PROVE  n \in DOMAIN sessions /\ sessions'[n] = sessions[n]
      BY <3>1, <3>2
    <3>3. ASSUME minted' \in DOMAIN sessions'
          PROVE  /\ sessions'[minted'].expiresAt = now + TTL
                 /\ sessions'[minted'].verified = manages[v]
      BY <3>1 DEF Sessions!Expiry
    <3>4. Home \in manages[v] => now + TTL <= goneAt + TTL
      BY <1>1, Bounds DEF GoneInv, Never
    <3>5. OldSessions'
      BY <1>1, <2>1, <3>1, <3>2, <3>3, <3>4, Bounds DEF GoneInv, OldSessions
    <3> QED BY <1>1, <2>1, <3>1, <3>5 DEF GoneInv
  <2>4. ASSUME NEW v \in Visitor, Sessions!Leave(v)
        PROVE  OldSessions' /\ now' >= now /\ Gone'
    BY <1>1, <2>1, <2>4 DEF Sessions!Leave, GoneInv, OldSessions,
       Sessions!TypeOK
  <2>5. ASSUME NEW v \in Visitor, Sessions!SubmitExpired(v)
        PROVE  OldSessions' /\ now' >= now /\ Gone'
    <3>1. /\ sessions' = [n \in DOMAIN sessions \ {cookie[v]} |-> sessions[n]]
          /\ now' = now /\ manages' = manages
      BY <2>5 DEF Sessions!SubmitExpired, Sessions!Restrict, Sessions!clock
    <3> QED BY <1>1, <2>1, <3>1 DEF GoneInv, OldSessions
  <2>6. CASE Sessions!Restart
    BY <1>1, <2>1, <2>6 DEF Sessions!Restart, Sessions!clock, GoneInv,
       OldSessions
  <2>7. CASE UNCHANGED <<now, manages, sessions>>
    BY <1>1, <2>1, <2>7 DEF GoneInv, OldSessions
  <2> QED
    BY <1>2, <2>2, <2>3, <2>4, <2>5, <2>6, <2>7
    DEF Visit, Sessions!SetupStart, Sessions!Callback, Sessions!NotProven,
        Sessions!Submit, Sessions!clock
<1>3. CASE Visit
  <2>1. UNCHANGED <<goneAt, admitted, uninstalled>> /\ Never' = Never
    BY <1>3 DEF Visit, late, credential, Never
  <2>2. TypeOK'
    BY <1>1, <2>1 DEF GoneInv, TypeOK
  <2>3. AdmittedBefore'
    BY <1>1, <1>2, <1>3, <2>1, Bounds DEF GoneInv, AdmittedBefore
  <2> QED BY <1>2, <1>3, <2>1, <2>2, <2>3 DEF GoneInv
<1>4. ASSUME NEW s \in Submission, Submit(s)
      PROVE  GoneInv'
  <2>1. /\ UNCHANGED <<goneAt, now, manages, sessions, uninstalled>>
        /\ admitted' = [admitted EXCEPT ![s] = now]
    BY <1>4 DEF Submit, Sessions!Submit, Sessions!clock, Auth!Validate
  <2>2. admitted' \in [Submission -> 0 .. Horizon] /\ now \in 0 .. Horizon
    BY <1>1, <2>1 DEF GoneInv, TypeOK, Sessions!TypeOK
  <2>3. TypeOK'
    BY <1>1, <2>1, <2>2 DEF GoneInv, TypeOK, Never
  <2>4. now <= goneAt + TTL
    BY <1>4, SubmitIsBefore
  <2>5. AdmittedBefore'
    BY <1>1, <2>1, <2>4 DEF GoneInv, AdmittedBefore, TypeOK
  <2>6. OldSessions'
    BY <2>1 DEF GoneInv, OldSessions
  <2> QED BY <2>1, <2>3, <2>5, <2>6 DEF GoneInv, Never
<1>5. CASE Uninstall
  <2>1. /\ goneAt' = now /\ UNCHANGED <<now, sessions, admitted, uninstalled>>
        /\ \A v \in Visitor : Home \notin manages'[v]
        /\ goneAt = Never
    BY <1>5 DEF Uninstall, credential
  <2>2. TypeOK' /\ goneAt' # Never
    BY <1>1, <2>1, Bounds DEF GoneInv, TypeOK, Never
  <2>3. AdmittedBefore' /\ OldSessions'
    BY <1>1, <2>1, Bounds DEF GoneInv, AdmittedBefore, OldSessions
  <2> QED BY <2>1, <2>2, <2>3 DEF GoneInv, Never
<1>6. ASSUME UNCHANGED <<signIn, late>>, uninstalled' => goneAt # Never
      PROVE  GoneInv'
  BY <1>1, <1>6 DEF GoneInv, TypeOK, signIn, late, OldSessions, AdmittedBefore,
     Never
<1>7. CASE Purge
  BY <1>6, <1>7 DEF Purge
<1>8. CASE Credential
  BY <1>6, <1>8 DEF Credential, late, GoneInv, Auth!SetAnthropicKey,
     Auth!SetInstallationAuthType, Auth!GetAnthropicKey,
     Auth!GetInstallationAuthType
<1>9. CASE UNCHANGED vars
  BY <1>6, <1>9 DEF vars, signIn, late, credential, GoneInv
<1> QED BY <1>3, <1>4, <1>5, <1>7, <1>8, <1>9 DEF Next

-----------------------------------------------------------------------------
(* The two modules keep their types when they are put together.            *)
THEOREM SetupTypeCorrect == Spec => []TypeOK
<1>1. GoneInv => TypeOK
  BY DEF GoneInv
<1> QED BY <1>1, InitGone, InitSignIn, StepGone, StepSignIn, PTL DEF Spec

(* A link signs in one visitor once, and whoever may submit a credential   *)
(* managed the installation less than a session's life ago: with any       *)
(* number of visitors, links and sessions, and for any life of a session.  *)
THEOREM SignInSoundAlways == Spec => []SignInSound
<1>1. SignInInv => SignInSound
  BY DEF SignInInv, SignInSound, UnusedLinks, Sessions!LinkUsedOnce,
     Sessions!AdmittedManaged
<1> QED BY <1>1, InitSignIn, StepSignIn, PTL DEF Spec

(* What an uninstallation leaves behind was submitted within a session's   *)
(* life of it, however many submissions are under way.                     *)
THEOREM LeftBehindBoundedAlways == Spec => []LeftBehindBounded
<1>1. GoneInv => LeftBehindBounded
  BY DEF GoneInv, LeftBehindBounded, TypeOK, Auth!TypeOK, Auth!NoRow,
     AdmittedBefore
<1> QED BY <1>1, InitGone, InitSignIn, StepGone, StepSignIn, PTL DEF Spec

(* However many submissions cross, a call during which nothing is written  *)
(* never treats a key as a token or a token as a key, unless one that was  *)
(* overtaken was the last to label the row: whatever the deployment's      *)
(* flags and however many calls there are.                                 *)
THEOREM QuietCallsMatchedAlways == Spec => []QuietCallsMatched
<1>1. CallInv => QuietCallsMatched
  BY DEF CallInv, QuietCallsMatched, Auth!QuietCallsMatched
<1> QED BY <1>1, StepCalls, InitAuth, PTL DEF Spec

(* ... and the form says that a credential is stored only when it is, with *)
(* its own label, whatever is uninstalled meanwhile, unless another one    *)
(* was stored between the two writes.                                      *)
THEOREM SuccessMeansStoredAlways == Spec => SuccessMeansStored
<1> DEFINE Stored == \A s \in Submission :
      form[s] = "stored" /\ form'[s] = "succeeded" =>
        row' = Auth!RowOf(s) \/ s \in overtaken
<1>1. RowInv /\ [Next]_vars => [Stored]_(Auth!vars)
  <2> SUFFICES ASSUME RowInv, Next, NEW s \in Submission,
                      form[s] = "stored", form'[s] = "succeeded",
                      s \notin overtaken
               PROVE  row' = Auth!RowOf(s)
    BY DEF vars, credential, Auth!vars, Auth!histories
  <2>1. Auth!SetInstallationAuthType(s) /\ row # Auth!NoRow
    BY DEF RowInv, Auth!TypeOK, Next, Visit, Credential, Submit, Uninstall,
       Purge, credential, Auth!Validate, Auth!SetAnthropicKey,
       Auth!SetInstallationAuthType, Auth!Purge, Auth!GetAnthropicKey,
       Auth!GetInstallationAuthType, Auth!Labelled
  <2>2. row.secret = {s} /\ row \in
          [secret : {{t} : t \in Submission}, type : Auth!AuthType]
    BY <2>1 DEF RowInv, Auth!HalfWritten, Auth!TypeOK
  <2> QED BY <2>1, <2>2 DEF Auth!SetInstallationAuthType, Auth!RowOf
<1>2. CallInv => RowInv
  BY DEF CallInv
<1> QED
  BY <1>1, <1>2, StepCalls, InitAuth, PTL
  DEF Spec, SuccessMeansStored, Auth!SuccessMeansStored
=============================================================================
