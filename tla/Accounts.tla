------------------------------- MODULE Accounts -------------------------------
(***************************************************************************)
(* The account of one person: created with a password or by a Google       *)
(* login, its settings (a document of its own, which also holds the link   *)
(* to Google Drive), its posts, and its second factor. Models UsersService *)
(* with AuthService, IntegrationsService and PostsService, which call it.  *)
(*                                                                         *)
(* The e-mail is unique, so there is one account at a time; it and its     *)
(* documents are named by the requests that stored them. The username is   *)
(* unique, too, and an account of another e-mail may have it. Requests     *)
(* that carry the id of an account mean that one, also when it is gone. A  *)
(* request runs once, without interruption from one await to the next.     *)
(***************************************************************************)
EXTENDS FiniteSets

CONSTANTS
  Requests,
  Earlier,    \* an account, its settings and its secret from before the requests
  None,       \* an absent value
  Forms       \* what a settings form may ask for of the link to Drive

VARIABLES
  account,    \* who stored it, its settings, posts, secret and isTwoFactorEnabled, or None
  settings,   \* settings documents: googleDriveRefreshToken and ..SyncEnabled, or None
  shown,      \* secrets the user was shown
  pc,         \* per request: the call it awaits, or how it ended
  kind,       \* per request: the operation it performs
  target,     \* per request: the account whose id it carries
  read,       \* per request: the account it has read
  given,      \* per request: its settings, what it asks of them, or the secret of its code
  off,        \* history: Drive was disconnected and nobody has asked to link it since
  guarded,    \* history: logins that began when a second factor was enabled
  overlaps    \* history: the clashes of operations that were in progress together

stores == <<account, settings, shown>>
locals == <<target, read, given>>
vars   == <<stores, pc, kind, locals, off, guarded, overlaps>>

Logins  == {"google", "login"}
Linking == {"connect", "link"}   \* the settings form can link Drive as well
Updates == {"settings", "disconnect"} \cup Linking
ById    == Updates \cup {"delete", "post", "generate", "turn on"}
Kinds   == {"create"} \cup Logins \cup ById
Steps   == {"save settings", "find", "save account", "announce", "get token", "change", "add",
            "update", "save post", "push", "remove", "store secret", "enable", "check", "reply"}

\* Pairs of operations that can spoil each other's work.
Clashes == (UNION {{{k, l} : l \in Updates} : k \in Updates})
             \cup {{"create", "google"}, {"google"}, {"generate", "turn on"}}

Ids == Requests \cup {Earlier}

Documents == [token : BOOLEAN, sync : BOOLEAN]
Patches   == [token : BOOLEAN \cup {None}, sync : BOOLEAN \cup {None}]
Accounts  == [by : Ids, settings : Ids \cup {None}, posts : SUBSET Requests,
              secret : Ids \cup {None}, enabled : BOOLEAN]

ASSUME AccountAssumption ==
  /\ Earlier \notin Requests
  /\ None \notin Ids /\ None \notin Documents /\ None \notin Accounts /\ None \notin BOOLEAN
  /\ Forms \subseteq Patches

Account(by, s) == [by |-> by, settings |-> s, posts |-> {}, secret |-> None, enabled |-> FALSE]
Unlinked == [token |-> FALSE, sync |-> FALSE]

\* Nobody, or an account with or without settings, a secret and a second factor.
Init ==
  /\ account \in {None} \cup
       {a \in [by : {Earlier}, settings : {None, Earlier}, posts : {{}},
               secret : {None, Earlier}, enabled : BOOLEAN] : a.enabled => a.secret # None}
  /\ settings = [i \in Ids |-> IF i = Earlier /\ account # None /\ account.settings = i
                               THEN Unlinked ELSE None]
  /\ shown = {Earlier}
  /\ pc = [r \in Requests |-> "idle"]
  /\ kind = [r \in Requests |-> "none"]
  /\ target = [r \in Requests |-> None]
  /\ read = [r \in Requests |-> None]
  /\ given = [r \in Requests |-> None]
  /\ off = FALSE
  /\ guarded = {}
  /\ overlaps = {}

InProgress(r) == pc[r] \in Steps
At(r, k, step) == kind[r] = k /\ pc[r] = step
Goto(r, step) == pc' = [pc EXCEPT ![r] = step]
Move(r, from, to) == pc[r] = from /\ Goto(r, to)

Begin(r, k, id, value, step) ==
  /\ pc[r] = "idle"
  /\ Goto(r, step)
  /\ kind' = [kind EXCEPT ![r] = k]
  /\ target' = [target EXCEPT ![r] = id]
  /\ given' = [given EXCEPT ![r] = value]
  /\ overlaps' = overlaps \cup
       ({{k, kind[q]} : q \in {p \in Requests : InProgress(p)}} \cap Clashes)

\* The request ends; what it has read goes, and what an acknowledged post is about stays.
End(r, outcome) ==
  /\ Goto(r, outcome)
  /\ read' = [read EXCEPT ![r] = None]
  /\ given' = [given EXCEPT ![r] = None]
  /\ target' = IF At(r, "post", "reply") /\ outcome = "ok" THEN target
               ELSE [target EXCEPT ![r] = None]

\* The account a request means, which may be gone.
Mine(r) == account # None /\ account.by = target[r]

-----------------------------------------------------------------------------
(* createUser *)

CreateRequest(r, withSettings) ==
  /\ Begin(r, "create", None, None, IF withSettings THEN "save settings" ELSE "save account")
  /\ UNCHANGED <<stores, read, off, guarded>>

SaveSettings(r) ==
  /\ pc[r] = "save settings"
  /\ settings' = [settings EXCEPT ![r] = Unlinked]
  /\ given' = [given EXCEPT ![r] = r]
  /\ Goto(r, "save account")
  /\ UNCHANGED <<account, shown, kind, target, read, off, guarded, overlaps>>

SaveAccount(r) ==
  /\ account = None
  /\ Move(r, "save account", "announce")
  /\ account' = Account(r, given[r])
  /\ UNCHANGED <<settings, shown, kind, locals, off, guarded, overlaps>>

\* A duplicate, or an account of another e-mail has the username. The settings that were
\* saved before stay.
SaveDuplicate(r) ==
  /\ pc[r] = "save account"
  /\ \/ account # None /\ End(r, "refused")
     \/ End(r, "name taken")
  /\ UNCHANGED <<stores, kind, off, guarded, overlaps>>

\* user.created is produced; a failure ends the request, and a Google login with it.
Announce(r) ==
  /\ Move(r, "announce", "reply")
  /\ UNCHANGED <<stores, kind, locals, off, guarded, overlaps>>

-----------------------------------------------------------------------------
(* signIn and googleLogin *)

\* The password, or the token from Google, is a good one.
LoginRequest(r, k) ==
  /\ k \in Logins
  /\ Begin(r, k, None, None, "find")
  /\ guarded' = IF account # None /\ account.enabled THEN guarded \cup {r} ELSE guarded
  /\ UNCHANGED <<stores, read, off>>

\* Faulty variant: Google logins look for accounts that a Google login has created.
FoundByGoogle(r) ==
  account # None /\ (kind[r] = "google" => account.by \in Requests /\ kind[account.by] = "google")

Found(r) == account # None

\* The answer is a token, or one marked as waiting for a code.
FindByEmail(r) ==
  /\ kind[r] \in Logins
  /\ pc[r] = "find"
  /\ Found(r)
  /\ IF account.enabled
     THEN /\ Goto(r, "code")
          /\ target' = [target EXCEPT ![r] = account.by]
          /\ UNCHANGED <<read, given>>
     ELSE End(r, "ok")
  /\ UNCHANGED <<stores, kind, off, guarded, overlaps>>

\* Whom Google vouches for gets an account.
FindNobody(r) ==
  /\ kind[r] \in Logins
  /\ pc[r] = "find"
  /\ ~Found(r)
  /\ IF kind[r] = "google" THEN Goto(r, "save account") /\ UNCHANGED locals
     ELSE End(r, "refused")
  /\ UNCHANGED <<stores, kind, off, guarded, overlaps>>

\* The code is one of a secret the user was shown; it is tried once.
EnterCode(r, secret) ==
  /\ secret \in shown
  /\ Move(r, "code", "check")
  /\ given' = [given EXCEPT ![r] = secret]
  /\ UNCHANGED <<stores, kind, target, read, off, guarded, overlaps>>

CheckCode(r) ==
  /\ pc[r] = "check"
  /\ End(r, IF Mine(r) /\ account.secret = given[r] THEN "confirmed" ELSE "wrong")
  /\ UNCHANGED <<stores, kind, off, guarded, overlaps>>

-----------------------------------------------------------------------------
(* updateUser, for the settings form and for connecting and disconnecting Drive *)

Links(patch) == patch.token = TRUE \/ patch.sync = TRUE

\* What an update may ask for: a form leaves the link to Drive out, cuts it or makes it.
Asked(k) ==
  CASE k = "connect"    -> {[token |-> None, sync |-> TRUE]}
    [] k = "disconnect" -> {Unlinked}
    [] k = "link"       -> {p \in Forms : Links(p)}
    [] k = "settings"   -> {p \in Forms : ~Links(p)}

UpdateRequest(r, k, patch) ==
  /\ account # None
  /\ Begin(r, k, account.by, patch, IF k = "connect" THEN "get token" ELSE "find")
  /\ off' = (off /\ k \notin Linking)
  /\ UNCHANGED <<stores, read, guarded>>

\* Google may leave out the refresh token; the synchronisation is enabled all the same.
GetToken(r) ==
  /\ Move(r, "get token", "find")
  /\ \E token \in {TRUE, None} : given' = [given EXCEPT ![r].token = token]
  /\ UNCHANGED <<stores, kind, target, read, off, guarded, overlaps>>

\* Faulty variant: whether there are settings is not looked at.
FindToAdd(r) ==
  /\ kind[r] \in Updates
  /\ pc[r] = "find"
  /\ Goto(r, IF Mine(r) THEN "add" ELSE "update")
  /\ UNCHANGED <<stores, kind, locals, off, guarded, overlaps>>

FindSettings(r) ==
  /\ kind[r] \in Updates
  /\ pc[r] = "find"
  /\ IF ~Mine(r) THEN Goto(r, "update") /\ UNCHANGED read
     ELSE /\ read' = [read EXCEPT ![r] = account]
          /\ Goto(r, IF account.settings = None THEN "add" ELSE "change")
  /\ UNCHANGED <<stores, kind, target, given, off, guarded, overlaps>>

\* Faulty variant: an empty token and a flag that is off count as not given.
WrittenIfTrue(r, old) ==
  [token |-> IF given[r].token = TRUE THEN TRUE ELSE old.token,
   sync  |-> IF given[r].sync = TRUE THEN TRUE ELSE old.sync]

\* The fields that are given replace the old ones.
Written(r, old) ==
  [token |-> IF given[r].token = None THEN old.token ELSE given[r].token,
   sync  |-> IF given[r].sync = None THEN old.sync ELSE given[r].sync]

ChangeSettings(r) ==
  /\ Move(r, "change", "update")
  /\ LET s == read[r].settings IN
     settings' = [settings EXCEPT ![s] = Written(r, @)]
  /\ UNCHANGED <<account, shown, kind, locals, off, guarded, overlaps>>

AddSettings(r) ==
  /\ Move(r, "add", "update")
  /\ settings' = [settings EXCEPT ![r] = Written(r, Unlinked)]
  /\ UNCHANGED <<account, shown, kind, locals, off, guarded, overlaps>>

\* Settings that were added are now the account's. An account that is gone is refused
\* to the form only.
UpdateAccount(r) ==
  /\ pc[r] = "update"
  /\ account' = IF Mine(r) /\ settings[r] # None THEN [account EXCEPT !.settings = r] ELSE account
  /\ IF kind[r] \in {"settings", "link"} /\ ~Mine(r) THEN End(r, "refused")
     ELSE Goto(r, "reply") /\ UNCHANGED locals
  /\ UNCHANGED <<settings, shown, kind, off, guarded, overlaps>>

-----------------------------------------------------------------------------
(* deleteUser, createPost *)

\* The settings and the posts stay.
DeleteRequest(r) ==
  /\ account # None
  /\ Begin(r, "delete", account.by, None, "remove")
  /\ UNCHANGED <<stores, read, off, guarded>>

RemoveAccount(r) ==
  /\ Move(r, "remove", "reply")
  /\ account' = IF Mine(r) THEN None ELSE account
  /\ UNCHANGED <<settings, shown, kind, locals, off, guarded, overlaps>>

PostRequest(r) ==
  /\ account # None
  /\ Begin(r, "post", account.by, None, "find")
  /\ UNCHANGED <<stores, read, off, guarded>>

FindAuthor(r) ==
  /\ At(r, "post", "find")
  /\ IF Mine(r) THEN Goto(r, "save post") /\ read' = [read EXCEPT ![r] = account] /\ UNCHANGED <<target, given>>
     ELSE End(r, "refused")
  /\ UNCHANGED <<stores, kind, off, guarded, overlaps>>

SavePost(r) ==
  /\ Move(r, "save post", "push")
  /\ UNCHANGED <<stores, kind, locals, off, guarded, overlaps>>

\* Faulty variant: the list of posts that was read is written with the new one.
PushPostToRead(r) ==
  /\ Move(r, "push", "reply")
  /\ account' = IF Mine(r) THEN [account EXCEPT !.posts = read[r].posts \cup {r}] ELSE account
  /\ UNCHANGED <<settings, shown, kind, locals, off, guarded, overlaps>>

PushPost(r) ==
  /\ Move(r, "push", "reply")
  /\ account' = IF Mine(r) THEN [account EXCEPT !.posts = @ \cup {r}] ELSE account
  /\ UNCHANGED <<settings, shown, kind, locals, off, guarded, overlaps>>

-----------------------------------------------------------------------------
(* The second factor *)

GenerateRequest(r) ==
  /\ account # None
  /\ Begin(r, "generate", account.by, None, "store secret")
  /\ UNCHANGED <<stores, read, off, guarded>>

\* The new secret replaces the old one, also when that is in use.
StoreSecret(r) ==
  /\ Move(r, "store secret", "reply")
  /\ account' = IF Mine(r) THEN [account EXCEPT !.secret = r] ELSE account
  /\ UNCHANGED <<settings, shown, kind, locals, off, guarded, overlaps>>

\* The code is one of a secret the user was shown.
TurnOnRequest(r, secret) ==
  /\ account # None
  /\ secret \in shown
  /\ Begin(r, "turn on", account.by, secret, "find")
  /\ UNCHANGED <<stores, read, off, guarded>>

\* Faulty variant: the verification's result is an object, and taken for true.
VerifyAnything(r) ==
  /\ At(r, "turn on", "find")
  /\ IF Mine(r)
     THEN Goto(r, "enable") /\ UNCHANGED locals
     ELSE End(r, "refused")
  /\ UNCHANGED <<stores, kind, off, guarded, overlaps>>

VerifyCode(r) ==
  /\ At(r, "turn on", "find")
  /\ IF Mine(r) /\ account.secret = given[r]
     THEN Goto(r, "enable") /\ UNCHANGED locals
     ELSE End(r, "refused")
  /\ UNCHANGED <<stores, kind, off, guarded, overlaps>>

Enable(r) ==
  /\ Move(r, "enable", "reply")
  /\ account' = IF Mine(r) THEN [account EXCEPT !.enabled = TRUE] ELSE account
  /\ UNCHANGED <<settings, shown, kind, locals, off, guarded, overlaps>>

-----------------------------------------------------------------------------

\* A login that has created the account gets a token; a generated secret is shown.
Reply(r) ==
  /\ pc[r] = "reply"
  /\ End(r, "ok")
  /\ shown' = IF kind[r] = "generate" THEN shown \cup {r} ELSE shown
  /\ off' = (off \/ kind[r] = "disconnect")
  /\ UNCHANGED <<account, settings, kind, guarded, overlaps>>

\* An awaited call throws, before or after it took effect, or the process dies.
Abort(r) ==
  /\ InProgress(r)
  /\ End(r, "error")
  /\ UNCHANGED <<stores, kind, off, guarded, overlaps>>

Proceed(r) ==
  \/ SaveSettings(r) \/ SaveAccount(r) \/ SaveDuplicate(r) \/ Announce(r)
  \/ FindByEmail(r) \/ FindNobody(r) \/ CheckCode(r)
  \/ GetToken(r) \/ FindSettings(r) \/ ChangeSettings(r) \/ AddSettings(r) \/ UpdateAccount(r)
  \/ RemoveAccount(r) \/ FindAuthor(r) \/ SavePost(r) \/ PushPost(r)
  \/ StoreSecret(r) \/ VerifyCode(r) \/ Enable(r)
  \/ Reply(r)

Next ==
  \E r \in Requests :
    \/ \E withSettings \in BOOLEAN : CreateRequest(r, withSettings)
    \/ \E k \in Logins : LoginRequest(r, k)
    \/ \E k \in Updates : \E patch \in Asked(k) : UpdateRequest(r, k, patch)
    \/ \E secret \in Ids : TurnOnRequest(r, secret) \/ EnterCode(r, secret)
    \/ DeleteRequest(r) \/ PostRequest(r) \/ GenerateRequest(r)
    \/ Proceed(r) \/ Abort(r)

Spec == Init /\ [][Next]_vars

-----------------------------------------------------------------------------
(* Properties *)

\* The account, the documents and the requests' local variables have their types.
TypeOK ==
  /\ account \in Accounts \cup {None}
  /\ settings \in [Ids -> Documents \cup {None}]
  /\ shown \subseteq Ids
  /\ pc \in [Requests -> Steps \cup {"idle", "ok", "code", "confirmed", "wrong", "refused", "name taken", "error"}]
  /\ kind \in [Requests -> Kinds \cup {"none"}]
  /\ target \in [Requests -> Ids \cup {None}]
  /\ read \in [Requests -> Accounts \cup {None}]
  /\ given \in [Requests -> Patches \cup Ids \cup {None}]
  /\ off \in BOOLEAN
  /\ guarded \subseteq Requests
  /\ overlaps \subseteq Clashes

Apart(k, l) == {k, l} \notin overlaps

\* The account refers to settings that are there, and a settings document belongs to the
\* account, unless its request has not come to an end, or to a bad one (a refused
\* creation leaves its settings), the account was deleted, or updates of the
\* settings overlapped.
SettingsAreReachable ==
  /\ TypeOK
  /\ (account # None /\ account.settings # None) => settings[account.settings] # None
  /\ ((\A k, l \in Updates : Apart(k, l)) /\ (\A r \in Requests : kind[r] # "delete")) =>
       \A i \in Ids : settings[i] # None =>
         \/ account # None /\ account.settings = i
         \/ i \in Requests /\ (InProgress(i) \/ pc[i] \in {"refused", "name taken", "error"})

\* After Drive was disconnected nothing is left to copy documents with, until somebody asks
\* to link it again, by connecting or in the settings form, unless a request that does
\* so was in progress meanwhile. Other changes of the settings do not bring it back.
DisconnectedStaysOff ==
  off /\ (\A k \in Linking : Apart(k, "disconnect")) /\ account # None /\ account.settings # None
    => settings[account.settings] = Unlinked

\* A post that was acknowledged is listed with its author, while that account exists.
PostsAreListed ==
  \A r \in Requests : kind[r] = "post" /\ pc[r] = "ok" /\ Mine(r) => r \in account.posts

\* What was acknowledged about an account holds on.
AcknowledgedIsKept == DisconnectedStaysOff /\ PostsAreListed

\* A first login with Google that fails can be tried again: the next one finds the account,
\* also if the first got no further than saving it. It is refused as a duplicate only if it
\* overlaps another one or the creation of the account; besides, if an account of
\* another e-mail has the username, which no retry can change ("name taken").
FirstLoginWorks ==
  Apart("create", "google") /\ Apart("google", "google") =>
    \A r \in Requests : kind[r] = "google" => pc[r] # "refused"

\* Once a second factor is enabled, every login that begins is answered with the token that
\* is marked as waiting for a code, and with the final one only after a code, as long as
\* the account is not deleted. Which routes accept the marked token is not said here.
CodeIsAsked ==
  (\A r \in Requests : kind[r] # "delete") =>
    \A r \in guarded : pc[r] # "ok"

\* The secret that is asked for is one the user was shown, or about to be: only a failure
\* just after a new one was stored locks the user out.
SecretIsHeld ==
  account # None /\ account.enabled =>
    \/ account.secret \in shown
    \/ InProgress(account.secret) \/ pc[account.secret] = "error"

\* A first login can be repeated, and logins use the second factor once there is one.
LoginsAreAnswered == FirstLoginWorks /\ CodeIsAsked /\ SecretIsHeld

\* The second factor is enabled only with the secret that a code has confirmed, unless
\* a new secret was generated meanwhile.
TwoFactorIsConfirmed ==
  [][(Apart("generate", "turn on") /\ account' # None /\ account # None
       /\ account'.enabled /\ ~account.enabled) =>
       \E r \in Requests : At(r, "turn on", "enable") /\ given[r] = account'.secret]_vars
=============================================================================
