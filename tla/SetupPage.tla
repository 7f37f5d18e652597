------------------------------ MODULE SetupPage -------------------------------
(***************************************************************************)
(* The setup page and the credential it writes: SetupSession, which says   *)
(* who is admitted to submit, composed with InstallationAuth, which says   *)
(* what a submission does to the installation's row.  A submission is      *)
(* admitted by one step of both; then its credential is validated over the *)
(* network and written, while sessions expire, people leave, and the App   *)
(* is uninstalled (src/web/setup-handlers.ts, src/app.ts).                 *)
(***************************************************************************)
EXTENDS Integers, FiniteSets

CONSTANTS
  Visitor, Installation, TTL, MaxLinks, MaxSessions, Horizon,
  Submission, SubscriptionTokens, Call,
  AllowSubscriptionAuth, HasPlatformKey,
  Home  \* the installation whose row this is

ASSUME BoundsAssumption ==
  {TTL, MaxLinks, MaxSessions, Horizon} \subseteq Nat
ASSUME SubmissionAssumption == SubscriptionTokens \subseteq Submission
ASSUME FlagsAssumption ==
  {AllowSubscriptionAuth, HasPlatformKey} \subseteq BOOLEAN
ASSUME HomeAssumption == Home \in Installation

VARIABLES
  now, manages, lastManaged, states, sessions, links, minted, cookie,
  inFlight, signIns, lag,
  row, form, overtaken, mislabelled, call, held, quiet, uninstalled,
  goneAt,   \* history: when the App was uninstalled from Home, or never
  admitted  \* history: when each submission was admitted

Sessions == INSTANCE SetupSession
Auth == INSTANCE InstallationAuth

signIn == <<now, manages, lastManaged, states, sessions, links, minted, cookie,
            inFlight, signIns, lag>>
credential == <<row, form, overtaken, mislabelled, call, held, quiet,
                uninstalled>>
late == <<goneAt, admitted>>
vars == <<signIn, credential, late>>
Never == Horizon + 1

Init ==
  /\ Sessions!Init /\ Auth!Init
  /\ goneAt = Never
  /\ admitted = [s \in Submission |-> 0]

-----------------------------------------------------------------------------
(* What happens to sessions only, submissions for installations other than *)
(* this one included, and to the credential only.                          *)
Visit ==
  /\ \/ Sessions!Tick \/ Sessions!SetupStart \/ Sessions!Restart
     \/ \E v \in Visitor :
          \/ Sessions!Leave(v) \/ Sessions!Callback(v) \/ Sessions!Proven(v)
          \/ Sessions!NotProven(v) \/ Sessions!SubmitExpired(v)
          \/ \E i \in Installation \ {Home} : Sessions!Submit(v, i)
  /\ UNCHANGED <<credential, late>>

Credential ==
  /\ \/ \E s \in Submission :
          Auth!SetAnthropicKey(s) \/ Auth!SetInstallationAuthType(s)
     \/ \E c \in Call :
          Auth!GetAnthropicKey(c) \/ Auth!GetInstallationAuthType(c)
  /\ UNCHANGED <<signIn, late>>

(* POST /setup/key for Home, up to the call that validates the credential. *)
Submit(s) ==
  /\ \E v \in Visitor : Sessions!Submit(v, Home)
  /\ Auth!Validate(s)
  /\ admitted' = [admitted EXCEPT ![s] = now]
  /\ UNCHANGED goneAt

(* The App is uninstalled, and nobody manages the installation any more;   *)
(* installation.deleted comes at some later time.                          *)
Uninstall ==
  /\ goneAt = Never
  /\ goneAt' = now
  /\ manages' = [v \in Visitor |-> manages[v] \ {Home}]
  /\ UNCHANGED <<now, lastManaged, states, sessions, links, minted, cookie,
                 inFlight, signIns, lag, credential, admitted>>

Purge ==
  /\ goneAt # Never
  /\ Auth!Purge
  /\ UNCHANGED <<signIn, late>>

Next ==
  \/ Visit \/ Credential \/ Uninstall \/ Purge
  \/ \E s \in Submission : Submit(s)

Spec == Init /\ [][Next]_vars

-----------------------------------------------------------------------------
(* The two modules keep their types when they are put together.            *)
TypeOK ==
  /\ Sessions!TypeOK /\ Auth!TypeOK
  /\ goneAt \in 0 .. Never
  /\ admitted \in [Submission -> 0 .. Horizon]

(* The purge does not see a submission under way, nor does it end a        *)
(* session, so it may leave a credential behind: but never one that was    *)
(* submitted later than a session's life after the uninstallation.         *)
LeftBehindBounded ==
  uninstalled => \A s \in row.secret : admitted[s] <= goneAt + TTL

(* A link signs in one visitor once, and whoever may submit managed the    *)
(* installation less than a session's life ago, also when nobody does any  *)
(* more (see SetupSession).                                                *)
SignInSound == Sessions!LinkUsedOnce /\ Sessions!AdmittedManaged

(* A call during which nothing is written never treats a key as a token or *)
(* a token as a key, unless the row is left mislabelled by submissions     *)
(* that crossed (see InstallationAuth).                                    *)
QuietCallsMatched == Auth!QuietCallsMatched

(* The form only says that the credential is stored when it is, with its   *)
(* own label, whatever is uninstalled meanwhile, unless another submission *)
(* came between its two writes (see InstallationAuth).                     *)
SuccessMeansStored == Auth!SuccessMeansStored

(* "The two are one logical write".                                        *)
(* The code does not keep this: see README.md.                             *)
OneLogicalWrite == Auth!OneLogicalWrite

(* Once the App is uninstalled no credential is kept.                      *)
(* The code does not keep this: see README.md.                             *)
PurgedForGood == Auth!PurgedForGood
=============================================================================
