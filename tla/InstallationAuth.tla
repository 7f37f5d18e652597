--------------------------- MODULE InstallationAuth ---------------------------
(***************************************************************************)
(* The credential of one installation: the setup page writes the secret    *)
(* and then its auth type, every model call reads the secret and then its  *)
(* auth type and builds the provider that goes with it, and uninstalling   *)
(* the App deletes the row.                                                *)
(*                                                                         *)
(* Source: src/llm/installation-auth.ts, src/llm/provider-resolver.ts,     *)
(* src/web/setup-handlers.ts (handleKeySubmit), the credential operations  *)
(* of src/store/pg-store.ts and installation.deleted in src/app.ts.        *)
(* Encryption is left out: what is read is what was written.               *)
(***************************************************************************)
EXTENDS Naturals

CONSTANTS
  Submission,              \* submissions of the credential form ...
  SubscriptionTokens,      \* ... and those that bring a subscription token;
                           \* the others bring an API key
  Call,                    \* model calls
  AllowSubscriptionAuth,   \* the deployment's ALLOW_SUBSCRIPTION_AUTH
  HasPlatformKey           \* may calls fall back on the operator's key?

VARIABLES
  row,          \* the installation_credentials row: whose secret it holds and
                \* how it is labelled; or NoRow
  form,         \* per submission: how far handleKeySubmit has come
  overtaken,    \* history: the submissions between whose two writes another
                \* one stored its secret
  mislabelled,  \* history: was an overtaken submission the last to label the
                \* row?
  call,         \* per call: how far the provider resolver has come
  held,         \* per call: whose secret it has read
  quiet,        \* history, per call: has nothing been written since it began,
                \* and was the row neither half written nor mislabelled?
  uninstalled   \* has the App been uninstalled?

histories == <<overtaken, mislabelled>>
vars == <<row, form, histories, call, held, quiet, uninstalled>>

AuthType == {"api_key", "subscription"}
TypeOf(s) == IF s \in SubscriptionTokens THEN "subscription" ELSE "api_key"
NoRow == [secret |-> {}, type |-> "none"]
RowOf(s) == [secret |-> {s}, type |-> TypeOf(s)]

HalfWritten == {s \in Submission : form[s] = "stored"}

(* The row may be there already, from before a change of the flags.        *)
Init ==
  /\ row \in {NoRow} \cup {RowOf(s) : s \in Submission}
  /\ form = [s \in Submission |-> IF s \in row.secret THEN "succeeded"
                                  ELSE "none"]
  /\ overtaken = {} /\ mislabelled = FALSE
  /\ call = [c \in Call |-> "idle"] /\ held = [c \in Call |-> {}]
  /\ quiet = [c \in Call |-> FALSE]
  /\ uninstalled = FALSE

-----------------------------------------------------------------------------
(* The session is live and the credential passes validation.  A token is   *)
(* turned away where subscriptions are switched off.                       *)
Validate(s) ==
  /\ form[s] = "none"
  /\ s \in SubscriptionTokens => AllowSubscriptionAuth
  /\ form' = [form EXCEPT ![s] = "validated"]
  /\ UNCHANGED <<row, histories, call, held, quiet, uninstalled>>

(* vault.setAnthropicKey: a new row is labelled api_key by default, an     *)
(* existing one keeps its label.                                           *)
SetAnthropicKey(s) ==
  /\ form[s] = "validated"
  /\ row' = [secret |-> {s},
             type |-> IF row = NoRow THEN "api_key" ELSE row.type]
  /\ form' = [form EXCEPT ![s] = "stored"]
  /\ overtaken' = overtaken \cup HalfWritten
  /\ quiet' = [c \in Call |-> FALSE]
  /\ UNCHANGED <<mislabelled, call, held, uninstalled>>

(* Does the UPDATE find the row?  Mutant: nobody looks.                    *)
LabelledAnyway == TRUE
Labelled == row # NoRow

(* setInstallationAuthType, of the row that is there by now, whoever stored*)
(* its secret: the submission fails if there is none.                      *)
SetInstallationAuthType(s) ==
  /\ form[s] = "stored"
  /\ row' = IF row = NoRow THEN NoRow ELSE [row EXCEPT !.type = TypeOf(s)]
  /\ form' = [form EXCEPT ![s] = IF Labelled THEN "succeeded" ELSE "failed"]
  /\ mislabelled' = IF row = NoRow THEN mislabelled ELSE s \in overtaken
  /\ quiet' = [c \in Call |-> FALSE]
  /\ UNCHANGED <<overtaken, call, held, uninstalled>>

(* installation.deleted                                                    *)
Purge ==
  /\ ~uninstalled
  /\ uninstalled' = TRUE
  /\ row' = NoRow
  /\ mislabelled' = FALSE
  /\ quiet' = [c \in Call |-> FALSE]
  /\ UNCHANGED <<form, overtaken, call, held>>

-----------------------------------------------------------------------------
(* vault.getAnthropicKey: without a secret the call is the operator's, if  *)
(* that is allowed, and is refused otherwise.                              *)
GetAnthropicKey(c) ==
  /\ call[c] = "idle"
  /\ call' = [call EXCEPT ![c] =
       IF row # NoRow THEN "secret"
       ELSE IF HasPlatformKey THEN "platform" ELSE "missing"]
  /\ held' = [held EXCEPT ![c] = row.secret]
  /\ quiet' = [quiet EXCEPT ![c] = HalfWritten = {} /\ ~mislabelled]
  /\ UNCHANGED <<row, form, histories, uninstalled>>

(* getInstallationAuthType: what has no label is an API key.  Mutant:      *)
(* every secret is taken for a key, as before there were subscriptions.    *)
LabelForgotten == "api_key"
Label == IF row = NoRow THEN "api_key" ELSE row.type

GetInstallationAuthType(c) ==
  /\ call[c] = "secret"
  /\ call' = [call EXCEPT ![c] =
       IF Label = "subscription" /\ ~AllowSubscriptionAuth THEN "missing"
       ELSE Label]
  /\ UNCHANGED <<row, form, histories, held, quiet, uninstalled>>

Next ==
  \/ \E s \in Submission :
       Validate(s) \/ SetAnthropicKey(s) \/ SetInstallationAuthType(s)
  \/ Purge
  \/ \E c \in Call : GetAnthropicKey(c) \/ GetInstallationAuthType(c)

Spec == Init /\ [][Next]_vars

-----------------------------------------------------------------------------
TypeOK ==
  /\ row \in {NoRow} \cup
       [secret : {{s} : s \in Submission}, type : AuthType]
  /\ form \in [Submission ->
                 {"none", "validated", "stored", "succeeded", "failed"}]
  /\ call \in [Call -> {"idle", "secret", "platform", "missing"} \cup AuthType]
  /\ held \in [Call -> {{}} \cup {{s} : s \in Submission}]
  /\ quiet \in [Call -> BOOLEAN]
  /\ overtaken \subseteq Submission /\ mislabelled \in BOOLEAN
  /\ uninstalled \in BOOLEAN

(* The provider is built for the kind of credential it is handed.          *)
Matched(c) == call[c] \in AuthType => \A s \in held[c] : call[c] = TypeOf(s)

(* ... of whatever call: which the code does not keep, see README.md.      *)
CallsMatched == \A c \in Call : Matched(c)

(* A rotated credential takes effect, label and all: a call during which   *)
(* nothing is written never treats a key as a token or a token as a key,   *)
(* unless the row was labelled last by a submission that another one had   *)
(* overtaken; the next submission that is not sets that right.             *)
QuietCallsMatched == \A c \in Call : quiet[c] => Matched(c)

(* The form only says that the credential is stored when it is, with its   *)
(* own label, whatever is uninstalled meanwhile and however many others    *)
(* submit: unless one of them stored its secret between the two writes.    *)
SuccessMeansStored ==
  [][\A s \in Submission :
       form[s] = "stored" /\ form'[s] = "succeeded" =>
         row' = RowOf(s) \/ s \in overtaken]_vars

(* "The two are one logical write", of whatever submission.                *)
(* The code does not keep this: see README.md.                             *)
OneLogicalWrite ==
  [][\A s \in Submission :
       form[s] = "stored" /\ form'[s] = "succeeded" => row' = RowOf(s)]_vars

(* Once the App is uninstalled no credential is kept.                      *)
(* The code does not keep this: see README.md.                             *)
PurgedForGood == uninstalled => row = NoRow
=============================================================================
