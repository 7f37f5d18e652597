---------------------------- MODULE SetupSession ----------------------------
(***************************************************************************)
(* The setup page (web/setup-handlers.ts, web/session-store.ts): a visitor *)
(* proves by way of GitHub's sign-in that they manage an installation, and *)
(* may then submit a credential for it until their session expires.        *)
(*                                                                         *)
(* A link is the one-time state token minted by GET /setup.  Links and     *)
(* sessions are numbered in the order in which they are minted; the store  *)
(* is two maps in the memory of the one process.  What a submission goes   *)
(* on to write is modelled by InstallationAuth.                            *)
(***************************************************************************)
EXTENDS Integers, FiniteSets, Functions

CONSTANTS
  Visitor, Installation,
  TTL,                       \* DEFAULT_TTL_MS
  MaxLinks, MaxSessions,     \* bounds on what is minted
  Horizon                    \* and on the clock

VARIABLES
  now,
  manages,      \* who manages what, as GitHub knows it
  lastManaged,  \* history: when they last did
  states,       \* link |-> what it is for and until when
  sessions,     \* session |-> whom it was proven for and until when
  links, minted,\* how many links and sessions there have been
  cookie,       \* the session of each visitor's browser, or 0
  inFlight,     \* the installation of the sign-in GitHub has yet to answer,
                \* if there is one
  signIns,      \* history: the sign-ins each link has led to
  lag           \* history: the age of the proof at the last submission

clock == <<now, manages, lastManaged>>
vars == <<clock, states, sessions, links, minted, cookie, inFlight, signIns,
          lag>>

Link == 1 .. MaxLinks
Session == 1 .. MaxSessions
Pending == [installation : Installation, expiresAt : Nat]
SetupData == [verified : SUBSET Installation, expiresAt : Nat]

Init ==
  /\ now = 0
  /\ manages \in [Visitor -> SUBSET Installation]
  /\ lastManaged = [v \in Visitor |-> [i \in Installation |->
                      IF i \in manages[v] THEN 0 ELSE -(TTL + 1)]]
  /\ states = <<>> /\ sessions = <<>>
  /\ links = 0 /\ minted = 0
  /\ cookie = [v \in Visitor |-> 0]
  /\ inFlight = [v \in Visitor |-> {}]
  /\ signIns = [s \in Link |-> 0]
  /\ lag = 0

-----------------------------------------------------------------------------
Tick ==
  /\ now < Horizon
  /\ now' = now + 1
  /\ lastManaged' = [v \in Visitor |-> [i \in Installation |->
                       IF i \in manages[v] THEN now' ELSE lastManaged[v][i]]]
  /\ UNCHANGED <<manages, states, sessions, links, minted, cookie, inFlight,
                 signIns, lag>>

(* Somebody is taken off an installation, which this program is not told.  *)
Leave(v) ==
  /\ \E i \in manages[v] : manages' = [manages EXCEPT ![v] = @ \ {i}]
  /\ UNCHANGED <<now, lastManaged, states, sessions, links, minted, cookie,
                 inFlight, signIns, lag>>

(* How long an entry is good.                                              *)
Expiry == now + TTL

(* GET /setup mints a link and sends the browser to GitHub with it.        *)
SetupStart ==
  /\ links < MaxLinks
  /\ links' = links + 1
  /\ \E i \in Installation :
       states' = [s \in DOMAIN states \cup {links'} |->
                    IF s = links'
                    THEN [installation |-> i, expiresAt |-> Expiry]
                    ELSE states[s]]
  /\ UNCHANGED <<clock, sessions, minted, cookie, inFlight, signIns, lag>>

(* A boundary of its own: at expiresAt itself an entry is still good.      *)
(* Mutant: it is good for ever.                                            *)
LiveForEver(entry) == entry.expiresAt >= 0
Live(entry) == entry.expiresAt >= now

(* A link is gone once it was looked up.  Mutant: only if it has expired.  *)
LinksAfterIfExpired(s) ==
  IF Live(states[s]) THEN states ELSE Restrict(states, DOMAIN states \ {s})
LinksAfter(s) == Restrict(states, DOMAIN states \ {s})

(* GET /setup/callback: the link is consumed before GitHub is asked.       *)
Callback(v) ==
  /\ inFlight[v] = {}
  /\ \E s \in DOMAIN states :
       /\ states' = LinksAfter(s)
       /\ inFlight' = [inFlight EXCEPT
            ![v] = IF Live(states[s]) THEN {states[s].installation} ELSE @]
       /\ signIns' = [signIns EXCEPT ![s] = IF Live(states[s]) THEN @ + 1
                                                               ELSE @]
  /\ UNCHANGED <<clock, sessions, links, minted, cookie, lag>>

(* GitHub names the installations the visitor manages now, and the form is *)
(* shown for the one of the link, with a session for all of them.          *)
Proven(v) ==
  /\ inFlight[v] # {}
  /\ inFlight[v] \subseteq manages[v]
  /\ minted < MaxSessions
  /\ minted' = minted + 1
  /\ sessions' = [n \in DOMAIN sessions \cup {minted'} |->
                    IF n = minted'
                    THEN [verified |-> manages[v], expiresAt |-> Expiry]
                    ELSE sessions[n]]
  /\ cookie' = [cookie EXCEPT ![v] = minted']
  /\ inFlight' = [inFlight EXCEPT ![v] = {}]
  /\ UNCHANGED <<clock, states, links, signIns, lag>>

(* It does not name that one, or does not answer: the link is spent.       *)
NotProven(v) ==
  /\ inFlight[v] # {}
  /\ inFlight' = [inFlight EXCEPT ![v] = {}]
  /\ UNCHANGED <<clock, states, sessions, links, minted, cookie, signIns, lag>>

-----------------------------------------------------------------------------
(* POST /setup/key without a session, or with one that has expired, which  *)
(* is only now removed.                                                    *)
SubmitExpired(v) ==
  /\ cookie[v] \in DOMAIN sessions
  /\ ~Live(sessions[cookie[v]])
  /\ sessions' = Restrict(sessions, DOMAIN sessions \ {cookie[v]})
  /\ UNCHANGED <<clock, states, links, minted, cookie, inFlight, signIns, lag>>

(* What a session may submit for.                                          *)
Allowed(session) == session.verified

(* A submission that is admitted for the installation the form names.      *)
Submit(v, i) ==
  /\ cookie[v] \in DOMAIN sessions
  /\ Live(sessions[cookie[v]])
  /\ i \in Allowed(sessions[cookie[v]])
  /\ lag' = now - lastManaged[v][i]
  /\ UNCHANGED <<clock, states, sessions, links, minted, cookie, inFlight,
                 signIns>>

(* The process starts anew, and asks everyone to sign in again.            *)
Restart ==
  /\ states' = <<>> /\ sessions' = <<>>
  /\ inFlight' = [v \in Visitor |-> {}]
  /\ UNCHANGED <<clock, links, minted, cookie, signIns, lag>>

Next ==
  \/ Tick \/ SetupStart \/ Restart
  \/ \E v \in Visitor : \/ Leave(v) \/ Callback(v) \/ Proven(v) \/ NotProven(v)
                        \/ SubmitExpired(v)
                        \/ \E i \in Installation : Submit(v, i)

Spec == Init /\ [][Next]_vars

-----------------------------------------------------------------------------
(* The links and sessions of session-store.ts keep their types.            *)
TypeOK ==
  /\ now \in 0 .. Horizon
  /\ manages \in [Visitor -> SUBSET Installation]
  /\ lastManaged \in [Visitor -> [Installation -> Int]]
  /\ links \in 0 .. MaxLinks /\ minted \in 0 .. MaxSessions
  /\ DOMAIN states \subseteq 1 .. links
  /\ states \in [DOMAIN states -> Pending]
  /\ DOMAIN sessions \subseteq 1 .. minted
  /\ sessions \in [DOMAIN sessions -> SetupData]
  /\ cookie \in [Visitor -> 0 .. minted]
  /\ inFlight \in [Visitor -> {{}} \cup {{i} : i \in Installation}]
  /\ signIns \in [Link -> Nat]
  /\ lag \in Int

(* A link signs in one visitor once, whoever follows it and however often, *)
(* although the answer of GitHub is awaited in between (consumeState).     *)
LinkUsedOnce == \A s \in Link : signIns[s] <= 1

(* "Only proceed for the installation they actually manage": whoever may   *)
(* submit for an installation managed it less than a session's life ago.   *)
AdmittedManaged == lag <= TTL

(* The "TTL-bounded store" of session-store.ts:22 holds no entry that      *)
(* expired a whole lifetime ago.                                           *)
(* The code does not keep this: see README.md.                             *)
TtlBounded ==
  \A s \in DOMAIN states : now <= states[s].expiresAt + TTL
=============================================================================
