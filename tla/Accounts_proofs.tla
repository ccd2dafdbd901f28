---------------------------- MODULE Accounts_proofs ----------------------------
(***************************************************************************)
(* Theorems about Accounts for any requests.                               *)
(***************************************************************************)
EXTENDS Accounts, TLAPS

-----------------------------------------------------------------------------
(* Types, and what a request is and holds at each step *)

Stages == Steps \cup {"idle", "ok", "code", "confirmed", "wrong", "refused", "name taken", "error"}

\* The operation a step belongs to, and what the request holds at it.
Fits(r) ==
  /\ pc[r] = "idle" <=> kind[r] = "none"
  /\ pc[r] = "save settings" => kind[r] = "create"
  /\ pc[r] = "save account" => kind[r] \in {"create", "google"} /\ (given[r] = None \/ (given[r] = r /\ kind[r] = "create"))
  /\ pc[r] = "announce" => kind[r] \in {"create", "google"}
  /\ pc[r] = "get token" => kind[r] = "connect"
  /\ pc[r] = "find" => kind[r] \in Logins \cup Updates \cup {"post", "turn on"}
  /\ pc[r] = "find" /\ kind[r] \in Logins => given[r] = None
  /\ pc[r] \in {"code", "check"} => kind[r] \in Logins
  /\ pc[r] \in {"change", "add", "update"} => kind[r] \in Updates
  /\ pc[r] = "change" => read[r] \in Accounts /\ read[r].settings # None
  /\ pc[r] \in {"get token", "find", "change", "add"} /\ kind[r] \in Updates =>
       /\ given[r] \in Patches
       /\ kind[r] = "disconnect" => given[r] = Unlinked
       /\ kind[r] = "settings" => ~Links(given[r])
  /\ pc[r] = "remove" => kind[r] = "delete"
  /\ pc[r] \in {"save post", "push"} => kind[r] = "post"
  /\ pc[r] = "store secret" => kind[r] = "generate"
  /\ pc[r] = "enable" => kind[r] = "turn on"
  /\ pc[r] \in {"find", "enable"} /\ kind[r] = "turn on" => given[r] \in Ids

\* Nothing a request refers to is still to be stored.
Settled(i) == i = Earlier \/ pc[i] \in {"announce", "reply", "ok", "error"}

Kept(i) == Settled(i) /\ settings[i] # None

ReferencesFit ==
  /\ account # None => Settled(account.by) /\ (account.settings # None => Kept(account.settings))
  /\ \A r \in Requests :
       /\ target[r] # None => Settled(target[r])
       /\ read[r] # None /\ read[r].settings # None => Kept(read[r].settings)
       /\ pc[r] \in {"idle", "save settings", "get token", "find", "change", "add"} => settings[r] = None
       /\ pc[r] = "save account" => (given[r] = r <=> settings[r] # None)

\* A login that enters its code begins again, but has nothing left to store.
Busy(r) == InProgress(r) /\ pc[r] # "check"

OverlapsNoted ==
  \A r, q \in Requests :
    r # q /\ Busy(r) /\ Busy(q) /\ {kind[r], kind[q]} \in Clashes => {kind[r], kind[q]} \in overlaps

CourseInv == TypeOK /\ (\A r \in Requests : Fits(r)) /\ ReferencesFit /\ OverlapsNoted

RequestsType ==
  /\ pc \in [Requests -> Stages]
  /\ kind \in [Requests -> Kinds \cup {"none"}]
  /\ target \in [Requests -> Ids \cup {None}]
  /\ read \in [Requests -> Accounts \cup {None}]
  /\ given \in [Requests -> Patches \cup Ids \cup {None}]

StoresType ==
  /\ account \in Accounts \cup {None}
  /\ settings \in [Ids -> Documents \cup {None}]
  /\ shown \subseteq Ids
  /\ off \in BOOLEAN

HistoriesType == guarded \subseteq Requests /\ overlaps \subseteq Clashes

Same(q) ==
  pc'[q] = pc[q] /\ kind'[q] = kind[q] /\ target'[q] = target[q] /\ read'[q] = read[q] /\ given'[q] = given[q]

Others(r) == \A q \in Requests \ {r} : Same(q)

LEMMA Typed == TypeOK => RequestsType /\ StoresType /\ HistoriesType
  BY DEF TypeOK, RequestsType, StoresType, HistoriesType, Stages

LEMMA Retyped == RequestsType' /\ StoresType' /\ HistoriesType' => TypeOK'
  BY DEF TypeOK, RequestsType, StoresType, HistoriesType, Stages

\* How a request goes on to a step, and how it ends.
Goes(r, from, to) ==
  pc[r] = from /\ pc'[r] = to /\ target'[r] = target[r] /\ read'[r] = read[r] /\ given'[r] = given[r]

Ends(r, outcome) ==
  pc'[r] = outcome /\ read'[r] = None /\ given'[r] = None

LEMMA EndEffect ==
  ASSUME RequestsType, NEW r \in Requests, NEW outcome \in Stages, End(r, outcome), kind' = kind
  PROVE  /\ RequestsType' /\ Others(r) /\ Ends(r, outcome)
         /\ target'[r] = target[r] \/ target'[r] = None
         /\ At(r, "post", "reply") /\ outcome = "ok" => target'[r] = target[r]
         /\ outcome # "ok" => target'[r] = None
<1>1. /\ pc' = [pc EXCEPT ![r] = outcome] /\ given' = [given EXCEPT ![r] = None] /\ read' = [read EXCEPT ![r] = None]
      /\ \/ target' = target /\ outcome = "ok"
         \/ target' = [target EXCEPT ![r] = None] /\ ~(At(r, "post", "reply") /\ outcome = "ok")
  BY DEF End, Goto
<1> QED
  BY <1>1 DEF RequestsType, Others, Same, Ends

LEMMA AbortEffect ==
  ASSUME RequestsType, NEW r \in Requests, Abort(r)
  PROVE  Ends(r, "error")
<1>1. End(r, "error") /\ kind' = kind /\ "error" \in Stages
  BY DEF Abort, Stages
<1> QED
  BY <1>1, EndEffect

LEMMA GotoEffect ==
  ASSUME RequestsType, NEW r \in Requests, NEW step \in Stages, Goto(r, step), UNCHANGED <<kind, locals>>
  PROVE  RequestsType' /\ Others(r) /\ Goes(r, pc[r], step)
<1>1. pc' = [pc EXCEPT ![r] = step] /\ UNCHANGED <<target, read, given>>
  BY DEF Goto, locals
<1> QED
  BY <1>1 DEF RequestsType, Others, Same, Goes

LEMMA ReadEffect ==
  ASSUME RequestsType, NEW r \in Requests, NEW step \in Stages, Goto(r, step), read' = [read EXCEPT ![r] = account],
         account \in Accounts, UNCHANGED <<kind, target, given>>
  PROVE  /\ RequestsType' /\ Others(r)
         /\ pc'[r] = step /\ read'[r] = account /\ target'[r] = target[r] /\ given'[r] = given[r]
  BY DEF Goto, RequestsType, Others, Same

LEMMA GivenEffect ==
  ASSUME RequestsType, NEW r \in Requests, NEW step \in Stages, Goto(r, step), NEW value \in Patches \cup Ids,
         given' = [given EXCEPT ![r] = value], UNCHANGED <<kind, target, read>>
  PROVE  /\ RequestsType' /\ Others(r)
         /\ pc'[r] = step /\ given'[r] = value /\ target'[r] = target[r] /\ read'[r] = read[r]
  BY DEF Goto, RequestsType, Others, Same

\* How a request goes on.
Passes(r) ==
  \/ pc[r] = "save settings" /\ pc'[r] = "save account" /\ given'[r] = r /\ target'[r] = target[r] /\ read'[r] = read[r]
  \/ Goes(r, "save account", "announce")
  \/ pc[r] = "save account" /\ Ends(r, "refused") /\ account # None
  \/ pc[r] = "save account" /\ Ends(r, "name taken")
  \/ Goes(r, "announce", "reply")
  \/ /\ pc[r] = "find" /\ kind[r] \in Logins /\ pc'[r] = "code" /\ target'[r] = account.by /\ account # None /\ account.enabled
     /\ read'[r] = read[r] /\ given'[r] = given[r]
  \/ pc[r] = "find" /\ kind[r] \in Logins /\ Ends(r, "ok") /\ account # None /\ ~account.enabled
  \/ Goes(r, "find", "save account") /\ kind[r] = "google" /\ account = None
  \/ pc[r] = "find" /\ kind[r] = "login" /\ Ends(r, "refused") /\ account = None
  \/ pc[r] = "code" /\ pc'[r] = "check" /\ given'[r] \in Ids /\ target'[r] = target[r] /\ read'[r] = read[r]
  \/ pc[r] = "check" /\ (Ends(r, "confirmed") \/ Ends(r, "wrong"))
  \/ pc[r] = "get token" /\ pc'[r] = "find" /\ given'[r] \in Patches /\ target'[r] = target[r] /\ read'[r] = read[r]
  \/ Goes(r, "find", "update") /\ kind[r] \in Updates /\ ~Mine(r)
  \/ /\ pc[r] = "find" /\ kind[r] \in Updates /\ Mine(r) /\ read'[r] = account /\ target'[r] = target[r] /\ given'[r] = given[r]
     /\ \/ pc'[r] = "add" /\ account.settings = None
        \/ pc'[r] = "change" /\ account.settings # None
  \/ Goes(r, "change", "update")
  \/ Goes(r, "add", "update")
  \/ Goes(r, "update", "reply")
  \/ pc[r] = "update" /\ Ends(r, "refused") /\ ~Mine(r)
  \/ Goes(r, "remove", "reply")
  \/ pc[r] = "find" /\ kind[r] = "post" /\ Mine(r) /\ pc'[r] = "save post" /\ read'[r] = account /\ target'[r] = target[r] /\ given'[r] = given[r]
  \/ pc[r] = "find" /\ kind[r] \in {"post", "turn on"} /\ Ends(r, "refused")
  \/ Goes(r, "save post", "push")
  \/ Goes(r, "push", "reply")
  \/ Goes(r, "store secret", "reply")
  \/ Goes(r, "find", "enable") /\ kind[r] = "turn on" /\ Mine(r) /\ account.secret = given[r]
  \/ Goes(r, "enable", "reply")
  \/ pc[r] = "reply" /\ Ends(r, "ok")
  \/ pc[r] \in Steps /\ Ends(r, "error")

\* A step of a request after its first.
Step(r) == Proceed(r) \/ Abort(r) \/ \E secret \in Ids : EnterCode(r, secret)

LEMMA StepEffect ==
  ASSUME CourseInv, NEW r \in Requests, Step(r)
  PROVE  /\ RequestsType' /\ Others(r) /\ Passes(r) /\ UNCHANGED <<kind, guarded, overlaps>>
         /\ target'[r] = None \/ target'[r] = target[r] \/ pc'[r] = "code"
         /\ pc'[r] = "ok" /\ kind[r] = "post" => target'[r] = target[r]
         /\ pc[r] \in Steps \cup {"code"}
<1>0. RequestsType /\ StoresType /\ Fits(r) /\ target[r] \in Ids \cup {None}
  BY Typed DEF CourseInv, RequestsType
<1> USE DEF Passes, Goes, Ends
<1>1. CASE SaveSettings(r)
  BY <1>0, <1>1, GivenEffect DEF SaveSettings, Stages, Steps, Ids, Fits
<1>2. CASE SaveAccount(r)
  <2>1. pc[r] = "save account" /\ Goto(r, "announce") /\ UNCHANGED <<kind, locals, guarded, overlaps>>
    BY <1>2 DEF SaveAccount, Move
  <2> QED
    BY <1>0, <2>1, GotoEffect DEF Stages, Steps
<1>3. CASE SaveDuplicate(r)
  <2>1. PICK outcome \in {"refused", "name taken"} :
          /\ pc[r] = "save account" /\ End(r, outcome) /\ UNCHANGED <<kind, guarded, overlaps>>
          /\ outcome = "refused" => account # None
    BY <1>3 DEF SaveDuplicate
  <2>2. outcome \in Stages /\ outcome # "ok" /\ kind' = kind
    BY <2>1 DEF Stages
  <2>3. RequestsType' /\ Others(r) /\ Ends(r, outcome) /\ target'[r] = None
    BY <1>0, <2>1, <2>2, EndEffect
  <2> QED
    BY <2>1, <2>3 DEF Steps
<1>4. CASE Announce(r)
  BY <1>0, <1>4, GotoEffect DEF Announce, Move, Stages, Steps
<1>5. CASE FindByEmail(r)
  <2>1. CASE account.enabled
    <3>1. account \in Accounts /\ account # None /\ kind[r] \in Logins /\ pc[r] = "find" /\ UNCHANGED <<kind, guarded, overlaps>>
      BY <1>0, <1>5 DEF FindByEmail, Found, StoresType
    <3>2. account.by \in Ids
      BY <3>1 DEF Accounts
    <3>3. pc' = [pc EXCEPT ![r] = "code"] /\ target' = [target EXCEPT ![r] = account.by] /\ UNCHANGED <<read, given>>
      BY <1>5, <2>1 DEF FindByEmail, Goto
    <3>4. RequestsType' /\ Others(r)
      BY <1>0, <3>1, <3>2, <3>3 DEF RequestsType, Others, Same, Stages
    <3>5. pc'[r] = "code" /\ target'[r] = account.by /\ read'[r] = read[r] /\ given'[r] = given[r]
      BY <1>0, <3>3 DEF RequestsType
    <3> QED
      BY <2>1, <3>1, <3>4, <3>5 DEF Steps
  <2>2. CASE ~account.enabled
    BY <1>0, <1>5, <2>2, EndEffect DEF FindByEmail, Found, Stages, Steps, Logins
  <2> QED
    BY <2>1, <2>2
<1>6. CASE FindNobody(r)
  BY <1>0, <1>6, EndEffect, GotoEffect DEF FindNobody, Found, Stages, Steps, Logins
<1>7. CASE CheckCode(r)
  BY <1>0, <1>7, EndEffect DEF CheckCode, Stages, Steps, Fits, Logins
<1>8. CASE GetToken(r)
  <2>1. PICK token \in {TRUE, None} : given' = [given EXCEPT ![r].token = token]
    BY <1>8 DEF GetToken
  <2>2. given[r] \in Patches /\ pc[r] = "get token"
    BY <1>0, <1>8 DEF GetToken, Move, Fits, Updates, Linking
  <2> DEFINE patch == [given[r] EXCEPT !.token = token]
  <2>3. patch \in Patches /\ given' = [given EXCEPT ![r] = patch]
    BY <2>1, <2>2 DEF Patches
  <2>4. Goto(r, "find") /\ UNCHANGED <<kind, target, read, guarded, overlaps>> /\ "find" \in Stages
    BY <1>8 DEF GetToken, Move, Stages, Steps
  <2> HIDE DEF patch
  <2>5. /\ RequestsType' /\ Others(r)
        /\ pc'[r] = "find" /\ given'[r] = patch /\ target'[r] = target[r] /\ read'[r] = read[r]
    BY <1>0, <2>3, <2>4, GivenEffect
  <2> QED
    BY <2>2, <2>3, <2>4, <2>5 DEF Steps
<1>9. CASE FindSettings(r)
  BY <1>0, <1>9, GotoEffect, ReadEffect DEF FindSettings, Mine, Stages, Steps, StoresType, locals
<1>10. CASE ChangeSettings(r)
  BY <1>0, <1>10, GotoEffect DEF ChangeSettings, Move, Stages, Steps
<1>11. CASE AddSettings(r)
  BY <1>0, <1>11, GotoEffect DEF AddSettings, Move, Stages, Steps
<1>12. CASE UpdateAccount(r)
  BY <1>0, <1>12, GotoEffect, EndEffect DEF UpdateAccount, Stages, Steps, Fits
<1>13. CASE RemoveAccount(r)
  BY <1>0, <1>13, GotoEffect DEF RemoveAccount, Move, Stages, Steps
<1>14. CASE FindAuthor(r)
  <2>1. CASE Mine(r)
    BY <1>0, <1>14, <2>1, ReadEffect DEF FindAuthor, At, Mine, Stages, Steps, StoresType
  <2>2. CASE ~Mine(r)
    <3>1. At(r, "post", "find") /\ End(r, "refused") /\ UNCHANGED <<kind, guarded, overlaps>> /\ kind' = kind
      BY <1>14, <2>2 DEF FindAuthor
    <3>2. "refused" \in Stages /\ "refused" # "ok"
      BY DEF Stages
    <3>3. RequestsType' /\ Others(r) /\ Ends(r, "refused") /\ target'[r] = None
      BY <1>0, <3>1, <3>2, EndEffect
    <3> QED
      BY <3>1, <3>3 DEF At, Steps
  <2> QED
    BY <2>1, <2>2
<1>15. CASE SavePost(r)
  BY <1>0, <1>15, GotoEffect DEF SavePost, Move, Stages, Steps
<1>16. CASE PushPost(r)
  BY <1>0, <1>16, GotoEffect DEF PushPost, Move, Stages, Steps
<1>17. CASE StoreSecret(r)
  BY <1>0, <1>17, GotoEffect DEF StoreSecret, Move, Stages, Steps
<1>18. CASE VerifyCode(r)
  BY <1>0, <1>18, GotoEffect, EndEffect DEF VerifyCode, At, Stages, Steps
<1>19. CASE Enable(r)
  BY <1>0, <1>19, GotoEffect DEF Enable, Move, Stages, Steps
<1>20. CASE Reply(r)
  BY <1>0, <1>20, EndEffect DEF Reply, At, Stages, Steps
<1>21. CASE Abort(r)
  <2>1. End(r, "error") /\ UNCHANGED <<kind, guarded, overlaps>> /\ pc[r] \in Steps /\ "error" \in Stages
    BY <1>21 DEF Abort, InProgress, Stages
  <2>2. RequestsType' /\ Others(r) /\ Ends(r, "error") /\ target'[r] = None
    BY <1>0, <2>1, EndEffect
  <2> QED
    BY <2>1, <2>2
<1>22. ASSUME NEW secret \in Ids, EnterCode(r, secret) PROVE
         /\ RequestsType' /\ Others(r) /\ Passes(r) /\ UNCHANGED <<kind, guarded, overlaps>>
         /\ target'[r] = target[r] /\ pc'[r] = "check" /\ pc[r] = "code"
  BY <1>0, <1>22, GivenEffect DEF EnterCode, Move, Stages, Steps
<1> QED
  BY <1>1, <1>2, <1>3, <1>4, <1>5, <1>6, <1>7, <1>8, <1>9, <1>10, <1>11, <1>12, <1>13, <1>14, <1>15, <1>16, <1>17, <1>18,
     <1>19, <1>20, <1>21, <1>22 DEF Step, Proceed

\* A request begins.
Opens(r) ==
  \/ \E withSettings \in BOOLEAN : CreateRequest(r, withSettings)
  \/ \E k \in Logins : LoginRequest(r, k)
  \/ \E k \in Updates : \E patch \in Asked(k) : UpdateRequest(r, k, patch)
  \/ \E secret \in Ids : TurnOnRequest(r, secret)
  \/ DeleteRequest(r) \/ PostRequest(r) \/ GenerateRequest(r)

\* The operations, with the step they begin at and what they are given.
Starts(r, k) ==
  /\ RequestsType' /\ Others(r) /\ UNCHANGED stores
  /\ pc[r] = "idle" /\ kind'[r] = k /\ read'[r] = read[r]
  /\ \/ k = "create" /\ pc'[r] \in {"save settings", "save account"} /\ target'[r] = None /\ given'[r] = None
     \/ k \in Logins /\ pc'[r] = "find" /\ target'[r] = None /\ given'[r] = None
     \/ /\ k \in ById /\ target'[r] = account.by /\ account # None
        /\ \/ k = "connect" /\ pc'[r] = "get token" /\ given'[r] \in Patches
           \/ /\ k \in {"settings", "link", "disconnect"} /\ pc'[r] = "find" /\ given'[r] \in Patches
              /\ k = "disconnect" => given'[r] = Unlinked
              /\ k = "settings" => ~Links(given'[r])
           \/ k = "delete" /\ pc'[r] = "remove"
           \/ k = "post" /\ pc'[r] = "find"
           \/ k = "generate" /\ pc'[r] = "store secret"
           \/ k = "turn on" /\ pc'[r] = "find" /\ given'[r] \in Ids
  /\ off' = (off /\ k \notin Linking)
  /\ guarded' = guarded \/ (k \in Logins /\ account # None /\ account.enabled /\ guarded' = guarded \cup {r})
  /\ k \in Logins /\ account # None /\ account.enabled => r \in guarded'
  /\ overlaps \subseteq overlaps' /\ overlaps' \subseteq Clashes
  /\ \A q \in Requests \ {r} : InProgress(q) /\ {k, kind[q]} \in Clashes => {k, kind[q]} \in overlaps'

\* A request of kind k begins, whatever else it changes.
Begun(r, k) ==
  /\ RequestsType' /\ Others(r) /\ pc[r] = "idle" /\ kind'[r] = k /\ read'[r] = read[r]
  /\ overlaps \subseteq overlaps' /\ overlaps' \subseteq Clashes
  /\ \A q \in Requests \ {r} : InProgress(q) /\ {k, kind[q]} \in Clashes => {k, kind[q]} \in overlaps'

LEMMA BeginEffect ==
  ASSUME CourseInv, NEW r \in Requests, NEW k \in Kinds, NEW id \in Ids \cup {None},
         NEW value \in Patches \cup Ids \cup {None}, NEW step \in Stages, Begin(r, k, id, value, step), read' = read
  PROVE  Begun(r, k) /\ pc'[r] = step /\ target'[r] = id /\ given'[r] = value
<1>0. RequestsType /\ overlaps \subseteq Clashes
  BY Typed DEF CourseInv, HistoriesType
<1>1. /\ pc' = [pc EXCEPT ![r] = step] /\ kind' = [kind EXCEPT ![r] = k] /\ given' = [given EXCEPT ![r] = value]
      /\ target' = [target EXCEPT ![r] = id] /\ pc[r] = "idle"
  BY DEF Begin, Goto
<1>2. overlaps' = overlaps \cup ({{k, kind[q]} : q \in {p \in Requests : InProgress(p)}} \cap Clashes)
  BY DEF Begin
<1>3. \A q \in Requests : InProgress(q) /\ {k, kind[q]} \in Clashes => {k, kind[q]} \in overlaps'
  BY <1>2
<1>4. RequestsType' /\ Others(r) /\ kind'[r] = k /\ pc'[r] = step /\ given'[r] = value /\ target'[r] = id
  BY <1>0, <1>1 DEF RequestsType, Others, Same
<1> QED
  BY <1>0, <1>1, <1>2, <1>3, <1>4 DEF Begun

LEMMA AskedType ==
  ASSUME NEW k \in Updates, NEW patch \in Asked(k)
  PROVE  patch \in Patches /\ (k = "disconnect" => patch = Unlinked) /\ (k = "settings" => ~Links(patch))
<1>0. [token |-> None, sync |-> TRUE] \in Patches /\ Unlinked \in Patches
  BY DEF Patches, Unlinked
<1>1. CASE k = "connect"
  <2>1. Asked(k) = {[token |-> None, sync |-> TRUE]}
    BY <1>1 DEF Asked
  <2> QED
    BY <1>0, <1>1, <2>1
<1>2. CASE k = "disconnect"
  <2>1. Asked(k) = {Unlinked}
    BY <1>2 DEF Asked
  <2> QED
    BY <1>0, <1>2, <2>1
<1>3. CASE k = "link"
  BY <1>3, AccountAssumption DEF Asked
<1>4. CASE k = "settings"
  BY <1>4, AccountAssumption DEF Asked
<1> QED
  BY <1>1, <1>2, <1>3, <1>4 DEF Updates, Linking

LEMMA StartEffect ==
  ASSUME CourseInv, NEW r \in Requests, Opens(r)
  PROVE  \E k \in Kinds : Starts(r, k)
<1>0. /\ off \in BOOLEAN /\ account \in Accounts \cup {None}
      /\ account # None => account.by \in Ids
      /\ None \in Ids \cup {None} /\ None \in Patches \cup Ids \cup {None}
  BY DEF CourseInv, TypeOK, Accounts
<1>1. ASSUME NEW withSettings \in BOOLEAN, CreateRequest(r, withSettings) PROVE \E k \in Kinds : Starts(r, k)
  <2>1. PICK step \in {"save settings", "save account"} : Begin(r, "create", None, None, step) /\ UNCHANGED <<stores, read, off, guarded>>
    BY <1>1 DEF CreateRequest
  <2>2. "create" \in Kinds /\ step \in Stages /\ "create" \notin Logins /\ "create" \notin Linking
    BY DEF Kinds, Stages, Steps, Logins, Linking
  <2>3. Begun(r, "create") /\ pc'[r] = step /\ target'[r] = None /\ given'[r] = None
    BY <1>0, <2>1, <2>2, BeginEffect
  <2>4. Starts(r, "create")
    BY <1>0, <2>1, <2>2, <2>3 DEF Starts, Begun
  <2> QED
    BY <2>2, <2>4
<1>2. ASSUME NEW k \in Logins, LoginRequest(r, k) PROVE \E l \in Kinds : Starts(r, l)
  <2>1. Begin(r, k, None, None, "find") /\ UNCHANGED <<stores, read, off>>
    BY <1>2 DEF LoginRequest
  <2>2. k \in Kinds /\ "find" \in Stages /\ k # "create" /\ k \notin Linking
    BY DEF Kinds, Logins, Stages, Steps, Linking
  <2>3. /\ guarded' = guarded \/ (account # None /\ account.enabled /\ guarded' = guarded \cup {r})
        /\ account # None /\ account.enabled => r \in guarded'
    BY <1>2 DEF LoginRequest
  <2>4. Begun(r, k) /\ pc'[r] = "find" /\ target'[r] = None /\ given'[r] = None
    BY <1>0, <2>1, <2>2, BeginEffect
  <2>5. off' = (off /\ k \notin Linking)
    BY <1>0, <2>1, <2>2
  <2>6. Starts(r, k)
    BY <2>1, <2>3, <2>4, <2>5 DEF Starts, Begun
  <2> QED
    BY <2>2, <2>6
<1>3. ASSUME NEW k \in Updates, NEW patch \in Asked(k), UpdateRequest(r, k, patch) PROVE \E l \in Kinds : Starts(r, l)
  <2>1. PICK step \in {"get token", "find"} :
          /\ Begin(r, k, account.by, patch, step) /\ UNCHANGED <<stores, read, guarded>> /\ account # None
          /\ step = IF k = "connect" THEN "get token" ELSE "find"
          /\ off' = (off /\ k \notin Linking)
    BY <1>3 DEF UpdateRequest
  <2>2. k \in Kinds /\ k \in ById /\ step \in Stages /\ k \notin Logins
    BY DEF Kinds, Updates, Linking, ById, Logins, Stages, Steps
  <2>3. account.by \in Ids \cup {None}
    BY <1>0, <2>1
  <2>4. patch \in Patches /\ (k = "disconnect" => patch = Unlinked) /\ (k = "settings" => ~Links(patch))
    BY AskedType
  <2>5. Begun(r, k) /\ pc'[r] = step /\ target'[r] = account.by /\ given'[r] = patch
    BY <1>0, <2>1, <2>2, <2>3, <2>4, BeginEffect
  <2>6. Starts(r, k)
    BY <2>1, <2>2, <2>4, <2>5 DEF Starts, Updates, Linking, Begun
  <2> QED
    BY <2>2, <2>6
<1>4. ASSUME NEW k \in {"turn on", "delete", "post", "generate"}, NEW step \in {"find", "remove", "store secret"},
             NEW secret \in Ids \cup {None}, Begin(r, k, account.by, secret, step),
             UNCHANGED <<stores, read, off, guarded>>, account # None
      PROVE  /\ k \in Kinds /\ k \in ById /\ k \notin Logins /\ Begun(r, k)
             /\ pc'[r] = step /\ target'[r] = account.by /\ given'[r] = secret /\ off' = (off /\ k \notin Linking)
  <2>1. k \in Kinds /\ k \in ById /\ step \in Stages /\ k \notin Logins /\ k \notin Linking
    BY DEF Kinds, Updates, Linking, ById, Logins, Stages, Steps
  <2>2. account.by \in Ids \cup {None} /\ secret \in Patches \cup Ids \cup {None} /\ off' = (off /\ k \notin Linking)
    BY <1>0, <1>4, <2>1
  <2> QED
    BY <1>4, <2>1, <2>2, BeginEffect
<1>5. ASSUME NEW secret \in Ids, TurnOnRequest(r, secret) PROVE \E k \in Kinds : Starts(r, k)
  <2>1. Begin(r, "turn on", account.by, secret, "find") /\ UNCHANGED <<stores, read, off, guarded>> /\ account # None
    BY <1>5 DEF TurnOnRequest
  <2> QED
    BY <1>4, <2>1 DEF Starts, Begun
<1>6. CASE DeleteRequest(r)
  <2>1. Begin(r, "delete", account.by, None, "remove") /\ UNCHANGED <<stores, read, off, guarded>> /\ account # None
    BY <1>6 DEF DeleteRequest
  <2> QED
    BY <1>4, <2>1 DEF Starts, Begun
<1>7. CASE PostRequest(r)
  <2>1. Begin(r, "post", account.by, None, "find") /\ UNCHANGED <<stores, read, off, guarded>> /\ account # None
    BY <1>7 DEF PostRequest
  <2> QED
    BY <1>4, <2>1 DEF Starts, Begun
<1>8. CASE GenerateRequest(r)
  <2>1. Begin(r, "generate", account.by, None, "store secret") /\ UNCHANGED <<stores, read, off, guarded>> /\ account # None
    BY <1>8 DEF GenerateRequest
  <2> QED
    BY <1>4, <2>1 DEF Starts, Begun
<1> QED
  BY <1>1, <1>2, <1>3, <1>5, <1>6, <1>7, <1>8 DEF Opens

LEMMA Moves ==
  ASSUME [Next]_vars
  PROVE  \/ \E r \in Requests : Opens(r) \/ Step(r)
         \/ UNCHANGED vars
  BY DEF Next, Opens, Step

\* How a request has come to where it is.
LEMMA Arrivals ==
  ASSUME CourseInv, [Next]_vars, NEW r \in Requests
  PROVE  \/ Same(r)
         \/ Step(r) /\ kind'[r] = kind[r] /\ Passes(r)
         \/ \E k \in Kinds : Starts(r, k)
<1>1. ASSUME NEW q \in Requests, Step(q)
      PROVE  Same(r) \/ (Step(r) /\ kind'[r] = kind[r] /\ Passes(r))
  BY <1>1, StepEffect DEF Others
<1>2. ASSUME NEW q \in Requests, Opens(q) PROVE Same(r) \/ \E k \in Kinds : Starts(r, k)
  <2>1. PICK k \in Kinds : Starts(q, k)
    BY <1>2, StartEffect
  <2>2. CASE q = r
    BY <2>1, <2>2
  <2>3. CASE q # r
    BY <2>1, <2>3 DEF Starts, Others
  <2> QED
    BY <2>2, <2>3
<1>3. ASSUME UNCHANGED vars PROVE Same(r)
  BY <1>3 DEF vars, locals, Same
<1> QED
  BY <1>1, <1>2, <1>3, Moves

\* Which step changes the account, and how.
AccountBy(r) ==
  \/ /\ SaveAccount(r) /\ account = None /\ account'.by = r /\ account'.settings = given[r] /\ account'.posts = {}
     /\ account'.secret = None /\ ~account'.enabled
  \/ RemoveAccount(r) /\ Mine(r) /\ account' = None
  \/ /\ account # None /\ account' # None /\ Mine(r) /\ account'.by = account.by
     /\ \/ /\ UpdateAccount(r) /\ settings[r] # None /\ account'.settings = r /\ account'.posts = account.posts
           /\ account'.secret = account.secret /\ account'.enabled = account.enabled
        \/ /\ PushPost(r) /\ account'.posts = account.posts \cup {r} /\ account'.settings = account.settings
           /\ account'.secret = account.secret /\ account'.enabled = account.enabled
        \/ /\ StoreSecret(r) /\ account'.secret = r /\ account'.settings = account.settings
           /\ account'.posts = account.posts /\ account'.enabled = account.enabled
        \/ /\ Enable(r) /\ account'.enabled /\ account'.settings = account.settings
           /\ account'.posts = account.posts /\ account'.secret = account.secret

LEMMA Storing ==
  ASSUME CourseInv, [Next]_vars
  PROVE  \/ UNCHANGED account
         \/ \E r \in Requests : SaveAccount(r) \/ UpdateAccount(r) \/ RemoveAccount(r) \/ PushPost(r) \/ StoreSecret(r) \/ Enable(r)
<1>1. ASSUME NEW r \in Requests, Opens(r) PROVE UNCHANGED account
  BY <1>1, StartEffect DEF Starts, stores
<1>2. ASSUME NEW r \in Requests, Step(r),
             ~(SaveAccount(r) \/ UpdateAccount(r) \/ RemoveAccount(r) \/ PushPost(r) \/ StoreSecret(r) \/ Enable(r))
      PROVE  UNCHANGED account
  BY <1>2 DEF Step, Proceed, SaveSettings, SaveDuplicate, Announce, FindByEmail, FindNobody, CheckCode, GetToken, FindSettings,
    ChangeSettings, AddSettings, FindAuthor, SavePost, VerifyCode, Reply, Abort, EnterCode, stores
<1> QED
  BY <1>1, <1>2, Moves DEF vars, stores

LEMMA AccountEffect ==
  ASSUME CourseInv, [Next]_vars
  PROVE  /\ account' \in Accounts \cup {None}
         /\ \/ UNCHANGED account
            \/ \E r \in Requests : AccountBy(r)
<1>0. /\ account \in Accounts \cup {None} /\ None \notin Accounts
      /\ account # None => /\ account.by \in Ids /\ account.settings \in Ids \cup {None} /\ account.posts \subseteq Requests
                           /\ account.secret \in Ids \cup {None} /\ account.enabled \in BOOLEAN
  BY AccountAssumption DEF CourseInv, TypeOK, Accounts
<1>1. ASSUME NEW r \in Requests, SaveAccount(r) PROVE account' \in Accounts /\ AccountBy(r)
  <2>1. account' = Account(r, given[r]) /\ given[r] \in Ids \cup {None} /\ account = None /\ r \in Ids
    BY <1>1 DEF SaveAccount, Move, CourseInv, Fits, Ids
  <2> QED
    BY <1>1, <2>1 DEF Account, Accounts, AccountBy
<1>2. ASSUME NEW r \in Requests, UpdateAccount(r), ~UNCHANGED account PROVE account' \in Accounts /\ AccountBy(r)
  <2>1. account' = [account EXCEPT !.settings = r] /\ Mine(r) /\ settings[r] # None /\ account # None
    BY <1>2 DEF UpdateAccount, Mine
  <2>2. account'.settings = r /\ account'.by = account.by /\ account'.posts = account.posts
        /\ account'.secret = account.secret /\ account'.enabled = account.enabled /\ account' \in Accounts
    BY <1>0, <2>1 DEF Accounts, Ids
  <2> QED
    BY <1>0, <1>2, <2>1, <2>2 DEF AccountBy
<1>3. ASSUME NEW r \in Requests, RemoveAccount(r), ~UNCHANGED account PROVE account' = None /\ AccountBy(r)
  BY <1>3 DEF RemoveAccount, AccountBy
<1>4. ASSUME NEW r \in Requests, PushPost(r), ~UNCHANGED account PROVE account' \in Accounts /\ AccountBy(r)
  <2>1. account' = [account EXCEPT !.posts = account.posts \cup {r}] /\ Mine(r) /\ account # None
    BY <1>4 DEF PushPost, Mine
  <2>2. account'.posts = account.posts \cup {r} /\ account'.by = account.by /\ account'.settings = account.settings
        /\ account'.secret = account.secret /\ account'.enabled = account.enabled /\ account' \in Accounts
    BY <1>0, <2>1 DEF Accounts
  <2> QED
    BY <1>0, <1>4, <2>1, <2>2 DEF AccountBy
<1>5. ASSUME NEW r \in Requests, StoreSecret(r), ~UNCHANGED account PROVE account' \in Accounts /\ AccountBy(r)
  <2>1. account' = [account EXCEPT !.secret = r] /\ Mine(r) /\ account # None
    BY <1>5 DEF StoreSecret, Mine
  <2>2. account'.secret = r /\ account'.by = account.by /\ account'.settings = account.settings
        /\ account'.posts = account.posts /\ account'.enabled = account.enabled /\ account' \in Accounts
    BY <1>0, <2>1 DEF Accounts, Ids
  <2> QED
    BY <1>0, <1>5, <2>1, <2>2 DEF AccountBy
<1>6. ASSUME NEW r \in Requests, Enable(r), ~UNCHANGED account PROVE account' \in Accounts /\ AccountBy(r)
  <2>1. account' = [account EXCEPT !.enabled = TRUE] /\ Mine(r) /\ account # None
    BY <1>6 DEF Enable, Mine
  <2>2. account'.enabled = TRUE /\ account'.by = account.by /\ account'.settings = account.settings
        /\ account'.posts = account.posts /\ account'.secret = account.secret /\ account' \in Accounts
    BY <1>0, <2>1 DEF Accounts
  <2> QED
    BY <1>0, <1>6, <2>1, <2>2 DEF AccountBy
<1> QED
  BY <1>0, <1>1, <1>2, <1>3, <1>4, <1>5, <1>6, Storing

LEMMA WrittenType ==
  ASSUME CourseInv, NEW r \in Requests, pc[r] \in {"change", "add"}, NEW old \in Documents
  PROVE  /\ Written(r, old) \in Documents
         /\ kind[r] = "disconnect" => Written(r, old) = Unlinked
         /\ kind[r] \notin Linking /\ old = Unlinked => Written(r, old) = Unlinked
<1>1. /\ kind[r] \in Updates /\ given[r] \in Patches
      /\ kind[r] = "disconnect" => given[r] = Unlinked
      /\ kind[r] = "settings" => ~Links(given[r])
  BY DEF CourseInv, Fits
<1>2. Written(r, old) \in Documents
  BY <1>1 DEF Written, Documents, Patches
<1>3. CASE kind[r] = "disconnect"
  <2>1. given[r] = [token |-> FALSE, sync |-> FALSE]
    BY <1>1, <1>3 DEF Unlinked
  <2>2. given[r].token = FALSE /\ given[r].sync = FALSE
    BY <2>1
  <2>3. FALSE # None
    <3>1. None \notin BOOLEAN /\ FALSE \in BOOLEAN
      BY AccountAssumption
    <3> QED
      BY <3>1, Zenon
  <2>4. Written(r, old) = Unlinked
    BY <2>2, <2>3 DEF Written, Unlinked
  <2> QED
    BY <1>2, <1>3, <2>4 DEF Linking
<1>4. CASE kind[r] = "settings"
  <2>1. given[r].token # TRUE /\ given[r].sync # TRUE /\ given[r].token \in BOOLEAN \cup {None} /\ given[r].sync \in BOOLEAN \cup {None}
    BY <1>1, <1>4 DEF Links, Patches
  <2>2. (given[r].token = FALSE \/ given[r].token = None) /\ (given[r].sync = FALSE \/ given[r].sync = None)
    BY <2>1
  <2>3. Unlinked.token = FALSE /\ Unlinked.sync = FALSE
    BY DEF Unlinked
  <2>4. /\ (IF given[r].token = None THEN Unlinked.token ELSE given[r].token) = FALSE
        /\ (IF given[r].sync = None THEN Unlinked.sync ELSE given[r].sync) = FALSE
    BY <2>2, <2>3
  <2>5. Written(r, Unlinked) = Unlinked
    BY <2>4 DEF Written, Unlinked
  <2> QED
    BY <1>2, <1>4, <2>5
<1> QED
  BY <1>1, <1>2, <1>3, <1>4 DEF Updates, Linking

\* Which step stores or changes a settings document, and how.
SettingsBy(r, s) ==
  /\ settings'[s] \in Documents
  /\ \A i \in Ids \ {s} : settings'[i] = settings[i]
  /\ \/ SaveSettings(r) /\ s = r /\ pc[r] = "save settings" /\ settings'[s] = Unlinked
     \/ AddSettings(r) /\ s = r /\ pc[r] = "add" /\ settings'[s] = Written(r, Unlinked)
     \/ /\ ChangeSettings(r) /\ s = read[r].settings /\ pc[r] = "change" /\ settings[s] \in Documents
        /\ settings'[s] = Written(r, settings[s])

LEMMA ReadKept ==
  ASSUME CourseInv, NEW r \in Requests, pc[r] = "change"
  PROVE  read[r].settings \in Ids /\ Kept(read[r].settings) /\ settings[read[r].settings] \in Documents
<1>1. read[r] \in Accounts /\ read[r].settings # None /\ read[r] # None
  BY AccountAssumption DEF CourseInv, Fits
<1>2. read[r].settings \in Ids
  BY <1>1 DEF Accounts
<1> QED
  BY <1>1, <1>2 DEF CourseInv, ReferencesFit, Kept, TypeOK

LEMMA SettingsEffect ==
  ASSUME CourseInv, [Next]_vars
  PROVE  /\ settings' \in [Ids -> Documents \cup {None}]
         /\ \/ UNCHANGED settings
            \/ \E r \in Requests : \E s \in Ids : SettingsBy(r, s)
<1>0. settings \in [Ids -> Documents \cup {None}] /\ Unlinked \in Documents
  BY DEF CourseInv, TypeOK, Unlinked, Documents
<1>1. ASSUME NEW r \in Requests, Opens(r) PROVE UNCHANGED settings
  BY <1>1, StartEffect DEF Starts, stores
<1>2. ASSUME NEW r \in Requests, Step(r), ~(SaveSettings(r) \/ AddSettings(r) \/ ChangeSettings(r)) PROVE UNCHANGED settings
  BY <1>2 DEF Step, Proceed, SaveAccount, SaveDuplicate, Announce, FindByEmail, FindNobody, CheckCode, GetToken, FindSettings,
    UpdateAccount, RemoveAccount, FindAuthor, SavePost, PushPost, StoreSecret, VerifyCode, Enable, Reply, Abort, EnterCode, stores
<1>3. ASSUME NEW r \in Requests, NEW s \in Ids, NEW d \in Documents, settings' = [settings EXCEPT ![s] = d]
      PROVE  settings' \in [Ids -> Documents \cup {None}] /\ settings'[s] = d /\ \A i \in Ids \ {s} : settings'[i] = settings[i]
  BY <1>0, <1>3
<1>4. ASSUME NEW r \in Requests, SaveSettings(r)
      PROVE  settings' \in [Ids -> Documents \cup {None}] /\ SettingsBy(r, r) /\ r \in Ids
  BY <1>0, <1>3, <1>4 DEF SaveSettings, SettingsBy, Ids
<1>5. ASSUME NEW r \in Requests, AddSettings(r)
      PROVE  settings' \in [Ids -> Documents \cup {None}] /\ SettingsBy(r, r) /\ r \in Ids
  <2>1. pc[r] = "add" /\ settings' = [settings EXCEPT ![r] = Written(r, Unlinked)] /\ r \in Ids
    BY <1>5 DEF AddSettings, Move, Ids
  <2>2. Written(r, Unlinked) \in Documents
    BY <1>0, <2>1, WrittenType
  <2> QED
    BY <1>3, <1>5, <2>1, <2>2 DEF SettingsBy
<1>6. ASSUME NEW r \in Requests, ChangeSettings(r)
      PROVE  settings' \in [Ids -> Documents \cup {None}] /\ \E s \in Ids : SettingsBy(r, s)
  <2> DEFINE s == read[r].settings
  <2>1. pc[r] = "change" /\ settings' = [settings EXCEPT ![s] = Written(r, settings[s])]
    BY <1>6 DEF ChangeSettings, Move
  <2>2. s \in Ids /\ settings[s] \in Documents
    BY <2>1, ReadKept
  <2>3. Written(r, settings[s]) \in Documents
    BY <2>1, <2>2, WrittenType
  <2>4. SettingsBy(r, s) /\ settings' \in [Ids -> Documents \cup {None}]
    BY <1>3, <1>6, <2>1, <2>2, <2>3 DEF SettingsBy
  <2> QED
    BY <2>2, <2>4
<1> QED
  BY <1>0, <1>1, <1>2, <1>4, <1>5, <1>6, Moves DEF vars, stores

LEMMA TypeNext ==
  ASSUME CourseInv, [Next]_vars
  PROVE  TypeOK'
<1>0. RequestsType /\ StoresType /\ HistoriesType
  BY Typed DEF CourseInv
<1>1. RequestsType' /\ HistoriesType'
  <2>1. ASSUME NEW r \in Requests, Opens(r) PROVE RequestsType' /\ HistoriesType'
    <3>1. PICK k \in Kinds : Starts(r, k)
      BY <2>1, StartEffect
    <3> QED
      BY <1>0, <3>1 DEF Starts, HistoriesType
  <2>2. ASSUME NEW r \in Requests, Step(r) PROVE RequestsType' /\ HistoriesType'
    BY <1>0, <2>2, StepEffect DEF HistoriesType
  <2>3. ASSUME UNCHANGED vars PROVE RequestsType' /\ HistoriesType'
    BY <1>0, <2>3 DEF vars, locals, RequestsType, HistoriesType
  <2> QED
    BY <2>1, <2>2, <2>3, Moves
<1>2. shown' \subseteq Ids /\ off' \in BOOLEAN
  <2>1. ASSUME NEW r \in Requests, Opens(r) PROVE shown' \subseteq Ids /\ off' \in BOOLEAN
    BY <1>0, <2>1, StartEffect DEF Starts, stores, StoresType
  <2>2. ASSUME NEW r \in Requests, Reply(r) PROVE shown' \subseteq Ids /\ off' \in BOOLEAN
    BY <1>0, <2>2 DEF Reply, StoresType, Ids
  <2>3. ASSUME NEW r \in Requests, Step(r), ~Reply(r) PROVE UNCHANGED <<shown, off>>
    BY <2>3 DEF Step, Proceed, SaveSettings, SaveAccount, SaveDuplicate, Announce, FindByEmail, FindNobody, CheckCode, GetToken,
      FindSettings, ChangeSettings, AddSettings, UpdateAccount, RemoveAccount, FindAuthor, SavePost, PushPost, StoreSecret, VerifyCode,
      Enable, Abort, EnterCode, stores
  <2> QED
    BY <1>0, <2>1, <2>2, <2>3, Moves DEF vars, stores, StoresType
<1> QED
  BY <1>1, <1>2, AccountEffect, SettingsEffect, Retyped DEF StoresType

LEMMA FitsNext ==
  ASSUME CourseInv, [Next]_vars, NEW r \in Requests
  PROVE  Fits(r)'
<1>0. Fits(r) /\ account \in Accounts \cup {None} /\ kind[r] \in Kinds \cup {"none"}
  BY DEF CourseInv, TypeOK
<1>1. CASE Same(r)
  BY <1>0, <1>1 DEF Same, Fits
<1>2. CASE kind'[r] = kind[r] /\ Passes(r)
  BY <1>0, <1>2 DEF Passes, Goes, Ends, Fits, Steps, Logins, Updates, Linking, Mine
<1>3. CASE \E k \in Kinds : Starts(r, k)
  BY <1>0, <1>3 DEF Starts, Fits, Kinds, ById, Logins, Updates, Linking
<1> QED
  BY <1>1, <1>2, <1>3, Arrivals

LEMMA SettledStays ==
  ASSUME CourseInv, [Next]_vars, NEW i \in Ids, Settled(i)
  PROVE  Settled(i)'
<1>1. CASE i = Earlier
  BY <1>1 DEF Settled
<1>2. CASE i \in Requests /\ pc[i] \in {"announce", "reply", "ok", "error"}
  BY <1>2, Arrivals DEF Same, Passes, Goes, Ends, Starts, Settled
<1> QED
  BY <1>1, <1>2 DEF Settled, Ids

LEMMA SettingsStay ==
  ASSUME CourseInv, [Next]_vars, NEW i \in Ids, settings[i] # None
  PROVE  settings'[i] # None
  BY SettingsEffect, AccountAssumption DEF SettingsBy

LEMMA KeptStays ==
  ASSUME CourseInv, [Next]_vars, NEW i \in Ids, Kept(i)
  PROVE  Kept(i)'
  BY SettledStays, SettingsStay DEF Kept

LEMMA AccountKept ==
  ASSUME CourseInv, account # None
  PROVE  /\ account \in Accounts /\ account.by \in Ids /\ account.settings \in Ids \cup {None}
         /\ Settled(account.by)
         /\ account.settings # None => Kept(account.settings)
<1>1. account \in Accounts
  BY DEF CourseInv, TypeOK
<1> QED
  BY <1>1 DEF CourseInv, ReferencesFit, Accounts

LEMMA AccountReferences ==
  ASSUME CourseInv, [Next]_vars, account' # None
  PROVE  Settled(account.by)' /\ (account'.settings # None => Kept(account.settings)')
<1>1. CASE account' = account
  <2>1. Settled(account.by) /\ account.by \in Ids
    BY <1>1, AccountKept
  <2>2. account.settings # None => Kept(account.settings) /\ account.settings \in Ids
    BY <1>1, AccountKept
  <2>3. \A i \in Ids : Settled(i) => Settled(i)'
    BY SettledStays
  <2>4. \A i \in Ids : Kept(i) => Kept(i)'
    BY KeptStays
  <2> QED
    BY <1>1, <2>1, <2>2, <2>3, <2>4 DEF Settled, Kept
<1>2. ASSUME NEW r \in Requests, AccountBy(r), SaveAccount(r)
      PROVE  Settled(account.by)' /\ (account'.settings # None => Kept(account.settings)')
  <2>1. account'.by = r /\ account'.settings = given[r] /\ pc[r] = "save account" /\ pc'[r] = "announce"
    <3>1. Goes(r, "save account", "announce")
      BY <1>2, GotoEffect, Typed DEF CourseInv, SaveAccount, Move, Stages, Steps
    <3>2. ~UpdateAccount(r) /\ ~PushPost(r) /\ ~StoreSecret(r) /\ ~Enable(r) /\ account' # None
      BY <3>1 DEF Goes, UpdateAccount, PushPost, StoreSecret, Enable, Move
    <3> QED
      BY <1>2, <3>1, <3>2 DEF Goes, AccountBy
  <2>2. given[r] = None \/ (given[r] = r /\ settings[r] # None)
    BY <2>1 DEF CourseInv, Fits, ReferencesFit
  <2>3. settings[r] # None => settings'[r] # None
    BY SettingsStay DEF Ids
  <2> QED
    BY <2>1, <2>2, <2>3 DEF Settled, Kept
<1>3. ASSUME NEW r \in Requests, AccountBy(r), ~SaveAccount(r)
      PROVE  Settled(account.by)' /\ (account'.settings # None => Kept(account.settings)')
  <2>1. account # None /\ account'.by = account.by /\ Mine(r)
    BY <1>3 DEF AccountBy
  <2>2. Settled(account.by) /\ account.by \in Ids /\ (account.settings # None => Kept(account.settings) /\ account.settings \in Ids)
    BY <2>1, AccountKept
  <2>3. Settled(account.by)'
    <3>1. \A i \in Ids : Settled(i) => Settled(i)'
      BY SettledStays
    <3> QED
      BY <2>1, <2>2, <3>1 DEF Settled
  <2>4. CASE UpdateAccount(r) /\ settings[r] # None /\ account'.settings = r
    <3>1. pc'[r] = "reply"
      BY <2>1, <2>4, GotoEffect, Typed DEF CourseInv, UpdateAccount, Stages, Steps, Goes
    <3>2. settings'[r] # None
      BY <2>4, SettingsStay DEF Ids
    <3> QED
      BY <2>3, <2>4, <3>1, <3>2 DEF Settled, Kept
  <2>5. CASE account'.settings = account.settings
    <3>1. \A i \in Ids : Kept(i) => Kept(i)'
      BY KeptStays
    <3> QED
      BY <2>2, <2>3, <2>5, <3>1 DEF Kept, Settled
  <2> QED
    BY <1>3, <2>4, <2>5 DEF AccountBy
<1> QED
  BY <1>1, <1>2, <1>3, AccountEffect

LEMMA RequestReferences ==
  ASSUME CourseInv, [Next]_vars, NEW r \in Requests
  PROVE  /\ target'[r] # None => Settled(target[r])'
         /\ read'[r] # None /\ read'[r].settings # None => Kept(read[r].settings)'
<1>0. /\ target[r] # None => Settled(target[r]) /\ target[r] \in Ids
      /\ read[r] # None /\ read[r].settings # None => Kept(read[r].settings) /\ read[r].settings \in Ids
      /\ account # None => /\ Settled(account.by) /\ account.by \in Ids
                           /\ account.settings # None => Kept(account.settings) /\ account.settings \in Ids
  <2>1. read[r] \in Accounts \cup {None} /\ target[r] \in Ids \cup {None}
    BY DEF CourseInv, TypeOK
  <2>2. read[r] # None => read[r].settings \in Ids \cup {None}
    BY <2>1 DEF Accounts
  <2> QED
    BY <2>1, <2>2, AccountKept DEF CourseInv, ReferencesFit
<1>1. target'[r] = None \/ target'[r] = target[r] \/ (account # None /\ target'[r] = account.by)
  <2>1. CASE Same(r)
    BY <2>1 DEF Same
  <2>2. CASE Step(r) /\ Passes(r)
    BY <2>2, StepEffect DEF Passes, Goes, Ends
  <2>3. CASE \E k \in Kinds : Starts(r, k)
    BY <2>3 DEF Starts
  <2> QED
    BY <2>1, <2>2, <2>3, Arrivals
<1>2. read'[r] = None \/ read'[r] = read[r] \/ (account # None /\ read'[r] = account)
  <2>1. CASE Same(r)
    BY <2>1 DEF Same
  <2>2. CASE Step(r) /\ Passes(r)
    BY <2>2 DEF Passes, Goes, Ends, Mine
  <2>3. CASE \E k \in Kinds : Starts(r, k)
    BY <2>3 DEF Starts
  <2> QED
    BY <2>1, <2>2, <2>3, Arrivals
<1>3. \A i \in Ids : Settled(i) => i = Earlier \/ pc'[i] \in {"announce", "reply", "ok", "error"}
  BY SettledStays DEF Settled
<1>4. \A i \in Ids : Kept(i) => (i = Earlier \/ pc'[i] \in {"announce", "reply", "ok", "error"}) /\ settings'[i] # None
  BY KeptStays DEF Kept, Settled
<1>5. target'[r] # None => Settled(target[r])'
  BY <1>0, <1>1, <1>3 DEF Settled
<1>6. read'[r] # None /\ read'[r].settings # None => Kept(read[r].settings)'
  BY <1>0, <1>2, <1>4 DEF Kept, Settled
<1> QED
  BY <1>5, <1>6

LEMMA UnstoredStays ==
  ASSUME CourseInv, [Next]_vars, NEW r \in Requests,
         pc'[r] \in {"idle", "save settings", "get token", "find", "change", "add"}
  PROVE  settings'[r] = None
<1>1. pc[r] \in {"idle", "save settings", "get token", "find", "change", "add"}
  BY Arrivals DEF Same, Passes, Goes, Ends, Starts
<1>2. settings[r] = None
  BY <1>1 DEF CourseInv, ReferencesFit
<1>3. ASSUME NEW q \in Requests, NEW s \in Ids, SettingsBy(q, s) PROVE s # r
  <2>1. CASE ChangeSettings(q) /\ s = read[q].settings /\ pc[q] = "change"
    <3>1. Settled(s)
      BY <2>1, ReadKept DEF Kept
    <3> QED
      BY <1>1, <3>1, AccountAssumption DEF Settled
  <2>2. CASE (SaveSettings(q) \/ AddSettings(q)) /\ s = q
    <3>1. SaveSettings(q) => pc'[q] = "save account"
      <4> SUFFICES ASSUME SaveSettings(q) PROVE pc'[q] = "save account"
        OBVIOUS
      <4>1. pc' = [pc EXCEPT ![q] = "save account"]
        BY DEF SaveSettings, Move, Goto
      <4> QED
        BY <4>1, Typed DEF CourseInv, RequestsType
    <3>2. AddSettings(q) => pc'[q] = "update"
      BY GotoEffect, Typed DEF CourseInv, AddSettings, Move, Stages, Steps, Goes
    <3> QED
      BY <2>2, <3>1, <3>2
  <2> QED
    BY <1>3, <2>1, <2>2 DEF SettingsBy
<1> QED
  BY <1>2, <1>3, SettingsEffect DEF SettingsBy, Ids

LEMMA GivenStored ==
  ASSUME CourseInv, [Next]_vars, NEW r \in Requests, pc'[r] = "save account", given'[r] = r
  PROVE  settings'[r] # None
<1>0. None # r /\ r \in Ids
  BY AccountAssumption DEF Ids
<1>1. CASE Same(r)
  BY <1>0, <1>1, SettingsStay DEF Same, CourseInv, ReferencesFit
<1>2. CASE Step(r) /\ Passes(r)
  <2>1. CASE pc[r] = "find"
    BY <1>0, <1>2, <2>1 DEF Passes, Goes, Ends, CourseInv, Fits, Logins
  <2>2. CASE pc[r] = "save settings"
    <3>1. SaveSettings(r)
      BY <1>2, <2>2, EndEffect, Typed DEF CourseInv, Step, Proceed, SaveAccount, SaveDuplicate, Announce, FindByEmail, FindNobody,
        CheckCode, GetToken, FindSettings, ChangeSettings, AddSettings, UpdateAccount, RemoveAccount, FindAuthor, SavePost, PushPost,
        StoreSecret, VerifyCode, Enable, Reply, Abort, EnterCode, At, Move, Ends, Stages, InProgress
    <3>2. settings' = [settings EXCEPT ![r] = Unlinked] /\ settings \in [Ids -> Documents \cup {None}] /\ Unlinked \in Documents
      BY <3>1 DEF SaveSettings, CourseInv, TypeOK, Unlinked, Documents
    <3> QED
      BY <1>0, <3>2, AccountAssumption
  <2> QED
    BY <1>2, <2>1, <2>2 DEF Passes, Goes, Ends
<1>3. CASE \E k \in Kinds : Starts(r, k)
  BY <1>0, <1>3 DEF Starts
<1> QED
  BY <1>1, <1>2, <1>3, Arrivals

\* Until something can refer to a request's settings only the request itself stores them.
LEMMA ChangesOwn ==
  ASSUME CourseInv, [Next]_vars, NEW r \in Requests, ~Settled(r)
  PROVE  \/ settings'[r] = settings[r]
         \/ SaveSettings(r) /\ settings'[r] = Unlinked
         \/ AddSettings(r) /\ settings'[r] = Written(r, Unlinked)
<1>1. ASSUME NEW q \in Requests, NEW s \in Ids, SettingsBy(q, s), settings'[r] # settings[r]
      PROVE  (SaveSettings(r) /\ settings'[r] = Unlinked) \/ (AddSettings(r) /\ settings'[r] = Written(r, Unlinked))
  <2>1. s = r
    BY <1>1 DEF SettingsBy, Ids
  <2>2. pc[q] # "change" \/ s # read[q].settings
    BY <2>1, ReadKept DEF Kept
  <2> QED
    BY <1>1, <2>1, <2>2 DEF SettingsBy
<1> QED
  BY <1>1, SettingsEffect DEF SettingsBy

LEMMA StoredGiven ==
  ASSUME CourseInv, [Next]_vars, NEW r \in Requests, pc'[r] = "save account", settings'[r] # None
  PROVE  given'[r] = r
<1>1. CASE Same(r)
  <2>1. ~Settled(r) /\ pc[r] = "save account" /\ given'[r] = given[r]
    BY <1>1, AccountAssumption DEF Same, Settled
  <2>2. ~SaveSettings(r) /\ ~AddSettings(r)
    BY <2>1 DEF SaveSettings, AddSettings, Move
  <2>3. settings[r] # None
    BY <2>1, <2>2, ChangesOwn
  <2> QED
    BY <2>1, <2>3 DEF CourseInv, ReferencesFit
<1>2. CASE Passes(r)
  <2>1. CASE pc[r] = "find"
    <3>1. ~Settled(r) /\ settings[r] = None
      BY <2>1, AccountAssumption DEF Settled, CourseInv, ReferencesFit
    <3>2. ~SaveSettings(r) /\ ~AddSettings(r)
      BY <2>1 DEF SaveSettings, AddSettings, Move
    <3> QED
      BY <3>1, <3>2, ChangesOwn
  <2> QED
    BY <1>2, <2>1 DEF Passes, Goes, Ends
<1>3. CASE \E k \in Kinds : Starts(r, k)
  BY <1>3 DEF Starts, stores, CourseInv, ReferencesFit
<1> QED
  BY <1>1, <1>2, <1>3, Arrivals

LEMMA ReferencesNext ==
  ASSUME CourseInv, [Next]_vars
  PROVE  ReferencesFit'
  BY AccountReferences, RequestReferences, UnstoredStays, GivenStored, StoredGiven DEF ReferencesFit

LEMMA OverlapsStay ==
  ASSUME CourseInv, [Next]_vars
  PROVE  overlaps \subseteq overlaps'
<1>1. ASSUME NEW p \in Requests, Step(p) PROVE overlaps' = overlaps
  BY <1>1, StepEffect
<1>2. ASSUME NEW p \in Requests, Opens(p) PROVE overlaps \subseteq overlaps'
  BY <1>2, StartEffect DEF Starts
<1> QED
  BY <1>1, <1>2, Moves DEF vars

LEMMA KindKept ==
  ASSUME CourseInv, [Next]_vars, NEW r \in Requests
  PROVE  \/ kind'[r] = kind[r] /\ (Busy(r)' => Busy(r))
         \/ \E k \in Kinds : Starts(r, k)
<1>1. CASE Same(r)
  BY <1>1 DEF Same, Busy, InProgress
<1>2. CASE kind'[r] = kind[r] /\ Passes(r)
  BY <1>2 DEF Passes, Goes, Ends, Busy, InProgress, Steps
<1> QED
  BY <1>1, <1>2, Arrivals

LEMMA OverlapsNext ==
  ASSUME CourseInv, [Next]_vars
  PROVE  OverlapsNoted'
<1> SUFFICES ASSUME NEW r \in Requests, NEW q \in Requests, r # q, Busy(r)', Busy(q)',
                    {kind'[r], kind'[q]} \in Clashes
             PROVE  {kind'[r], kind'[q]} \in overlaps'
  BY DEF OverlapsNoted
<1>1. ASSUME NEW p \in Requests, NEW o \in Requests, o # p, NEW k \in Kinds, Starts(p, k),
             {kind'[p], kind'[o]} \in Clashes, Busy(o)'
      PROVE  {kind'[p], kind'[o]} \in overlaps'
  <2>1. kind'[p] = k /\ kind'[o] = kind[o] /\ InProgress(o)
    BY <1>1 DEF Starts, Others, Same, Busy, InProgress
  <2> QED
    BY <1>1, <2>1 DEF Starts
<1>2. CASE kind'[r] = kind[r] /\ kind'[q] = kind[q] /\ Busy(r) /\ Busy(q)
  BY <1>2, OverlapsStay DEF CourseInv, OverlapsNoted
<1>3. {kind'[r], kind'[q]} = {kind'[q], kind'[r]}
  OBVIOUS
<1> QED
  BY <1>1, <1>2, <1>3, KindKept

LEMMA InitialAccount ==
  ASSUME Init, account # None
  PROVE  /\ account \in Accounts /\ account.by = Earlier /\ account.settings \in {None, Earlier} /\ account.posts = {}
         /\ account.secret \in {None, Earlier} /\ (account.enabled => account.secret = Earlier)
<1>1. /\ account \in [by : {Earlier}, settings : {None, Earlier}, posts : {{}}, secret : {None, Earlier}, enabled : BOOLEAN]
      /\ account.enabled => account.secret # None
  BY DEF Init
<1> QED
  BY <1>1 DEF Accounts, Ids

LEMMA InitialSettings ==
  ASSUME Init
  PROVE  /\ settings \in [Ids -> Documents \cup {None}]
         /\ \A i \in Ids : settings[i] = IF i = Earlier /\ account # None /\ account.settings = i THEN Unlinked ELSE None
         /\ Unlinked # None
<1>1. Unlinked \in Documents
  BY DEF Unlinked, Documents
<1> QED
  BY <1>1, AccountAssumption DEF Init

LEMMA CourseInit == Init => CourseInv
<1> SUFFICES ASSUME Init PROVE CourseInv
  OBVIOUS
<1>1. TypeOK
  <2>1. account \in Accounts \cup {None} /\ settings \in [Ids -> Documents \cup {None}]
    BY InitialAccount, InitialSettings
  <2> QED
    BY <2>1 DEF Init, TypeOK, Ids
<1>2. \A r \in Requests : Fits(r)
  BY DEF Init, Fits
<1>3. ReferencesFit
  <2>1. account # None => Settled(account.by) /\ (account.settings # None => Kept(account.settings))
    BY InitialAccount, InitialSettings DEF Settled, Kept, Ids
  <2>2. \A r \in Requests : settings[r] = None /\ pc[r] = "idle" /\ target[r] = None /\ read[r] = None
    BY InitialSettings, AccountAssumption DEF Init, Ids
  <2> QED
    BY <2>1, <2>2 DEF ReferencesFit
<1>4. OverlapsNoted
  BY DEF Init, OverlapsNoted, Busy, InProgress, Steps
<1> QED
  BY <1>1, <1>2, <1>3, <1>4 DEF CourseInv

LEMMA OnCourse == Spec => []CourseInv
<1>1. CourseInv /\ [Next]_vars => CourseInv'
  BY TypeNext, FitsNext, ReferencesNext, OverlapsNext DEF CourseInv
<1> QED
  BY <1>1, CourseInit, PTL DEF Spec

\* The account, the documents and the requests' local variables have their types.
THEOREM Typing == Spec => []TypeOK
  BY OnCourse, PTL DEF CourseInv

-----------------------------------------------------------------------------
(* Two requests at a time *)

LEMMA TheClashes ==
  /\ {"create", "google"} \in Clashes
  /\ {"google", "google"} \in Clashes
  /\ {"generate", "turn on"} \in Clashes
  /\ \A k, l \in Updates : {k, l} \in Clashes
<1>1. {"google", "google"} = {"google"}
  OBVIOUS
<1>2. {{"create", "google"}, {"google"}, {"generate", "turn on"}} \subseteq Clashes
  BY DEF Clashes
<1>3. ASSUME NEW k \in Updates, NEW l \in Updates PROVE {k, l} \in Clashes
  <2>1. {k, l} \in {{k, m} : m \in Updates}
    OBVIOUS
  <2>2. {{k, m} : m \in Updates} \in {{{n, m} : m \in Updates} : n \in Updates}
    OBVIOUS
  <2>3. {k, l} \in UNION {{{n, m} : m \in Updates} : n \in Updates}
    BY <2>1, <2>2
  <2> QED
    BY <2>3 DEF Clashes
<1> QED
  BY <1>1, <1>2, <1>3

LEMMA ApartBefore ==
  ASSUME CourseInv, [Next]_vars, NEW k, NEW l, Apart(k, l)'
  PROVE  Apart(k, l)
  BY OverlapsStay DEF Apart

LEMMA Clash ==
  ASSUME CourseInv, NEW r \in Requests, NEW q \in Requests, r # q, Busy(r), Busy(q), {kind[r], kind[q]} \in Clashes
  PROVE  ~Apart(kind[r], kind[q])
  BY DEF CourseInv, OverlapsNoted, Apart

LEMMA KindStays ==
  ASSUME CourseInv, [Next]_vars, NEW r \in Requests, kind[r] # "none"
  PROVE  kind'[r] = kind[r]
  BY KindKept DEF CourseInv, Fits, Starts

LEMMA SaverEffect ==
  ASSUME CourseInv, NEW r \in Requests, SaveAccount(r)
  PROVE  Others(r) /\ pc[r] = "save account" /\ pc'[r] = "announce" /\ ~Settled(r) /\ Busy(r) /\ kind[r] \in {"create", "google"}
<1>1. pc[r] = "save account" /\ Goto(r, "announce") /\ UNCHANGED <<kind, locals>>
  BY DEF SaveAccount, Move
<1>2. Others(r) /\ Goes(r, pc[r], "announce")
  BY <1>1, GotoEffect, Typed DEF CourseInv, Stages, Steps
<1> QED
  BY <1>1, <1>2, AccountAssumption DEF Goes, Settled, Busy, InProgress, Steps, CourseInv, Fits

\* The account that is there goes only with a deletion, and another one is never taken for it.
LEMMA AccountStays ==
  ASSUME CourseInv, [Next]_vars, account # None
  PROVE  \/ account' # None /\ account'.by = account.by /\ account.posts \subseteq account'.posts /\ (account.enabled => account'.enabled)
         \/ account' = None /\ \E r \in Requests : kind[r] = "delete"
<1>1. ASSUME NEW r \in Requests, RemoveAccount(r) PROVE kind[r] = "delete"
  BY <1>1 DEF RemoveAccount, Move, CourseInv, Fits
<1> QED
  BY <1>1, AccountEffect DEF AccountBy

\* A request that means the account meant it already.
LEMMA MineBefore ==
  ASSUME CourseInv, [Next]_vars, NEW r \in Requests, target'[r] = target[r], Mine(r)'
  PROVE  Mine(r)
<1>1. account' # None /\ account'.by = target[r]
  BY DEF Mine
<1>2. ASSUME NEW q \in Requests, SaveAccount(q), account'.by = q PROVE FALSE
  <2>1. target[r] # None => Settled(target[r])
    BY DEF CourseInv, ReferencesFit
  <2> QED
    BY <1>1, <1>2, <2>1, SaverEffect, AccountAssumption DEF Ids
<1> QED
  BY <1>1, <1>2, AccountEffect DEF AccountBy, Mine

-----------------------------------------------------------------------------
(* What was acknowledged *)

NobodyLinks == \A r \in Requests : kind[r] \in Linking => ~InProgress(r)

DisconnectingApart == \A k \in Linking : Apart(k, "disconnect")

\* Nothing of the account's is linked.
Safe == account = None \/ account.settings = None \/ settings[account.settings] = Unlinked

\* Settings that no account refers to yet are not linked, but for those of a request to link.
FreshInv ==
  \A r \in Requests : settings[r] # None =>
    /\ pc[r] = "save account" => settings[r] = Unlinked
    /\ pc[r] = "update" /\ kind[r] \notin Linking => settings[r] = Unlinked

\* A disconnecting apart from requests to link finds, or leaves, the account unlinked.
OffInv ==
  DisconnectingApart =>
    /\ off => Safe /\ NobodyLinks
    /\ \A r \in Requests : kind[r] = "disconnect" =>
         /\ InProgress(r) /\ ~Mine(r) => Safe
         /\ pc[r] = "change" => Safe \/ account.settings = read[r].settings
         /\ pc[r] \in {"add", "update", "reply"} => Safe

\* A post is pushed to its author's list before it is acknowledged.
PostInv ==
  \A r \in Requests : kind[r] = "post" /\ pc[r] \in {"reply", "ok"} /\ Mine(r) => r \in account.posts

LEMMA Pushing ==
  ASSUME CourseInv, NEW r \in Requests, Step(r), kind[r] = "post", pc'[r] = "reply", Mine(r)
  PROVE  r \in account'.posts
<1>1. PushPost(r)
  <2>1. Fits(r) /\ Passes(r)
    BY StepEffect DEF CourseInv
  <2>2. pc[r] = "push"
    BY <2>1 DEF Passes, Goes, Ends, Fits, Updates, Linking
  <2>3. ~Abort(r)
    BY AbortEffect, Typed DEF CourseInv, Ends
  <2> QED
    BY <2>2, <2>3 DEF Step, Proceed, SaveSettings, SaveAccount, SaveDuplicate, Announce, FindByEmail, FindNobody, CheckCode, GetToken,
      FindSettings, ChangeSettings, AddSettings, UpdateAccount, RemoveAccount, FindAuthor, SavePost, StoreSecret, VerifyCode, Enable,
      Reply, EnterCode, At, Move
<1>2. account' = [account EXCEPT !.posts = account.posts \cup {r}] /\ account \in Accounts
  BY <1>1 DEF PushPost, Mine, CourseInv, TypeOK
<1> QED
  BY <1>2 DEF Accounts

LEMMA PostNext == CourseInv /\ PostInv /\ [Next]_vars => PostInv'
<1> SUFFICES ASSUME CourseInv, PostInv, [Next]_vars, NEW r \in Requests, kind'[r] = "post", pc'[r] \in {"reply", "ok"}, Mine(r)'
             PROVE  r \in account'.posts
  BY DEF PostInv
<1>1. ASSUME target'[r] = target[r], kind[r] = "post", pc[r] \in {"reply", "ok"} PROVE r \in account'.posts
  <2>1. Mine(r)
    BY <1>1, MineBefore
  <2>2. r \in account.posts /\ account # None
    BY <1>1, <2>1 DEF PostInv, Mine
  <2> QED
    BY <2>2, AccountStays DEF Mine
<1>2. CASE Same(r)
  BY <1>1, <1>2 DEF Same
<1>3. CASE Step(r) /\ kind'[r] = kind[r] /\ Passes(r)
  <2>1. CASE pc'[r] = "ok"
    BY <1>1, <1>3, <2>1, StepEffect DEF Passes, Goes, Ends, CourseInv, Fits, Logins
  <2>2. CASE pc'[r] = "reply"
    <3>1. target'[r] = target[r]
      BY <1>3, <2>2 DEF Passes, Goes, Ends
    <3> QED
      BY <1>3, <2>2, <3>1, MineBefore, Pushing
  <2> QED
    BY <2>1, <2>2
<1>4. CASE \E k \in Kinds : Starts(r, k)
  BY <1>4 DEF Starts
<1> QED
  BY <1>2, <1>3, <1>4, Arrivals

\* Where a request is that holds settings nobody refers to yet.
LEMMA Unreferenced ==
  ASSUME CourseInv, [Next]_vars, NEW r \in Requests, pc'[r] \in {"save account", "update"}, settings'[r] # None
  PROVE  \/ Same(r) /\ settings'[r] = settings[r] /\ ~Settled(r)
         \/ SaveSettings(r) /\ settings'[r] = Unlinked
         \/ AddSettings(r) /\ pc[r] = "add" /\ settings'[r] = Written(r, Unlinked)
<1>0. r # Earlier
  BY AccountAssumption
<1>1. CASE Same(r)
  <2>1. ~Settled(r) /\ ~SaveSettings(r) /\ ~AddSettings(r)
    <3>1. pc'[r] = pc[r]
      BY <1>1 DEF Same
    <3> QED
      BY <1>0, <3>1 DEF Settled, SaveSettings, AddSettings, Move
  <2> QED
    BY <1>1, <2>1, ChangesOwn
<1>2. CASE Passes(r)
  <2>1. pc[r] \in {"save settings", "find", "change", "add"}
    BY <1>2 DEF Passes, Goes, Ends
  <2>2. settings[r] = None /\ ~Settled(r)
    BY <1>0, <2>1 DEF Settled, CourseInv, ReferencesFit
  <2>3. AddSettings(r) => pc[r] = "add"
    BY DEF AddSettings, Move
  <2> QED
    BY <2>2, <2>3, ChangesOwn
<1>3. ~ \E k \in Kinds : Starts(r, k)
  BY DEF Starts, stores, CourseInv, ReferencesFit
<1> QED
  BY <1>1, <1>2, <1>3, Arrivals

LEMMA FreshNext == CourseInv /\ FreshInv /\ [Next]_vars => FreshInv'
<1> SUFFICES ASSUME CourseInv, FreshInv, [Next]_vars, NEW r \in Requests, settings'[r] # None,
                    pc'[r] = "save account" \/ (pc'[r] = "update" /\ kind'[r] \notin Linking)
             PROVE  settings'[r] = Unlinked
  BY DEF FreshInv
<1>1. ASSUME AddSettings(r), pc[r] = "add", settings'[r] = Written(r, Unlinked) PROVE settings'[r] = Unlinked
  <2>1. Unlinked \in Documents /\ kind[r] \in Updates /\ kind'[r] = kind[r] /\ pc'[r] = "update"
    BY <1>1, GotoEffect, Typed DEF Unlinked, Documents, AddSettings, Move, CourseInv, Fits, Goes, Stages, Steps
  <2> QED
    BY <1>1, <2>1, WrittenType DEF Updates, Linking
<1>2. CASE Same(r) /\ settings'[r] = settings[r]
  BY <1>2 DEF Same, FreshInv
<1> QED
  BY <1>1, <1>2, Unreferenced

\* As long as nobody is linking, what is not linked stays so.
LEMMA SafeNext ==
  ASSUME CourseInv, FreshInv, [Next]_vars, NobodyLinks
  PROVE  /\ Safe => Safe'
         /\ account # None => Safe' \/ (account' # None /\ account'.settings = account.settings)
<1>1. ASSUME account' = account, account # None, account.settings # None, settings[account.settings] = Unlinked
      PROVE  settings'[account.settings] = Unlinked
  <2> DEFINE s == account.settings
  <2>1. s \in Ids /\ Settled(s) /\ Unlinked \in Documents
    BY <1>1, AccountKept DEF Kept, Unlinked, Documents
  <2>2. ASSUME NEW q \in Requests, SettingsBy(q, s) PROVE settings'[s] = Unlinked
    <3>1. CASE pc[q] = "change" /\ settings'[s] = Written(q, settings[s])
      <4>1. kind[q] \notin Linking
        BY <3>1 DEF CourseInv, Fits, Updates, Linking, NobodyLinks, InProgress, Steps
      <4> QED
        BY <1>1, <2>1, <3>1, <4>1, WrittenType
    <3>2. CASE s = q /\ pc[q] \in {"save settings", "add"}
      BY <2>1, <3>2, AccountAssumption DEF Settled
    <3> QED
      BY <2>2, <3>1, <3>2 DEF SettingsBy
  <2>3. ASSUME NEW q \in Requests, NEW i \in Ids, SettingsBy(q, i), i # s PROVE settings'[s] = settings[s]
    BY <2>1, <2>3 DEF SettingsBy
  <2> QED
    BY <1>1, <2>2, <2>3, SettingsEffect
<1>2. ASSUME NEW q \in Requests, AccountBy(q), SaveAccount(q) PROVE Safe'
  <2>1. account' = Account(q, given[q]) /\ settings' = settings /\ pc[q] = "save account"
    BY <1>2 DEF SaveAccount, Move
  <2>2. account'.settings = given[q]
    BY <2>1 DEF Account
  <2>3. given[q] = None \/ (given[q] = q /\ settings[q] = Unlinked)
    BY <2>1 DEF CourseInv, Fits, ReferencesFit, FreshInv
  <2> QED
    BY <2>1, <2>2, <2>3 DEF Safe
<1>3. ASSUME NEW q \in Requests, UpdateAccount(q), settings[q] # None, account'.settings = q PROVE Safe'
  <2>1. pc[q] = "update" /\ settings' = settings
    BY <1>3 DEF UpdateAccount
  <2>2. kind[q] \notin Linking
    BY <2>1 DEF NobodyLinks, InProgress, Steps
  <2> QED
    BY <1>3, <2>1, <2>2 DEF FreshInv, Safe
<1>4. ASSUME NEW q \in Requests, PushPost(q) \/ StoreSecret(q) \/ Enable(q), account # None, account' # None,
             account'.settings = account.settings
      PROVE  Safe => Safe'
  <2>1. settings' = settings
    BY <1>4 DEF PushPost, StoreSecret, Enable
  <2> QED
    BY <1>4, <2>1 DEF Safe
<1>5. account' = account \/ \E q \in Requests : AccountBy(q)
  BY AccountEffect
<1>6. CASE account' = account
  BY <1>1, <1>6 DEF Safe
<1>7. ASSUME NEW q \in Requests, AccountBy(q)
      PROVE  (Safe => Safe') /\ (account # None => Safe' \/ (account' # None /\ account'.settings = account.settings))
  <2>1. account' = None => Safe'
    BY DEF Safe
  <2> QED
    BY <1>2, <1>3, <1>4, <1>7, <2>1 DEF AccountBy
<1> QED
  BY <1>5, <1>6, <1>7

\* Nobody links while a disconnecting that is apart from that is in progress.
LEMMA NobodyConnects ==
  ASSUME CourseInv, NEW r \in Requests, kind[r] = "disconnect", InProgress(r), DisconnectingApart
  PROVE  NobodyLinks
<1> SUFFICES ASSUME NEW q \in Requests, kind[q] \in Linking, InProgress(q) PROVE FALSE
  BY DEF NobodyLinks
<1>1. Busy(r) /\ Busy(q)
  BY DEF Busy, CourseInv, Fits, Logins, Linking
<1>2. {kind[q], kind[r]} \in Clashes /\ q # r
  BY TheClashes DEF Updates, Linking
<1> QED
  BY <1>1, <1>2, Clash DEF DisconnectingApart

LinkingStarts(r) == \E k \in Linking : Starts(r, k)

LEMMA OffSet ==
  ASSUME CourseInv, [Next]_vars, off'
  PROVE  \/ off /\ \A r \in Requests : ~LinkingStarts(r)
         \/ \E r \in Requests : Reply(r) /\ kind[r] = "disconnect" /\ pc[r] = "reply" /\ Others(r)
<1>1. ASSUME NEW r \in Requests, Opens(r), ~off PROVE FALSE
  BY <1>1, StartEffect DEF Starts
<1>2. ASSUME NEW r \in Requests, Reply(r), ~off PROVE kind[r] = "disconnect" /\ pc[r] = "reply" /\ Others(r)
  BY <1>2, StepEffect DEF Reply, Step, Proceed
<1>3. ASSUME NEW r \in Requests, Step(r), ~Reply(r) PROVE off' = off
  BY <1>3 DEF Step, Proceed, SaveSettings, SaveAccount, SaveDuplicate, Announce, FindByEmail, FindNobody, CheckCode, GetToken,
    FindSettings, ChangeSettings, AddSettings, UpdateAccount, RemoveAccount, FindAuthor, SavePost, PushPost, StoreSecret, VerifyCode,
    Enable, Abort, EnterCode, stores
<1>4. CASE off
  <2>1. ASSUME NEW r \in Requests, NEW k \in Linking, Starts(r, k) PROVE FALSE
    BY <2>1 DEF Starts
  <2> QED
    BY <1>4, <2>1 DEF LinkingStarts
<1>5. CASE ~off
  BY <1>1, <1>2, <1>3, <1>5, Moves DEF vars
<1> QED
  BY <1>4, <1>5

LEMMA OffStays ==
  ASSUME CourseInv, FreshInv, OffInv, [Next]_vars, DisconnectingApart, off'
  PROVE  Safe' /\ NobodyLinks'
<1>1. ASSUME NEW q \in Requests, kind'[q] \in Linking, InProgress(q)', ~LinkingStarts(q)
      PROVE  kind[q] \in Linking /\ InProgress(q)
  <2>0. \A k \in Kinds : ~Starts(q, k)
    BY <1>1 DEF Starts, LinkingStarts
  <2>1. kind[q] \in Linking
    BY <1>1, <2>0, KindKept
  <2>2. Busy(q)'
    <3>1. pc[q] # "check" /\ pc[q] # "code"
      BY <2>1 DEF CourseInv, Fits, Logins, Linking
    <3>2. pc'[q] # "check"
      BY <3>1, Arrivals DEF Same, Passes, Goes, Ends, Starts
    <3> QED
      BY <1>1, <3>2 DEF Busy, InProgress
  <2> QED
    BY <2>0, <2>1, <2>2, KindKept DEF Busy
<1>2. CASE off /\ \A r \in Requests : ~LinkingStarts(r)
  <2>1. Safe /\ NobodyLinks
    BY <1>2 DEF OffInv
  <2>2. NobodyLinks'
    BY <1>1, <1>2, <2>1 DEF NobodyLinks, InProgress
  <2> QED
    BY <2>1, <2>2, SafeNext
<1>3. CASE \E r \in Requests : Reply(r) /\ kind[r] = "disconnect" /\ pc[r] = "reply" /\ Others(r)
  <2>1. PICK r \in Requests : Reply(r) /\ kind[r] = "disconnect" /\ pc[r] = "reply" /\ Others(r)
    BY <1>3
  <2>2. Safe /\ NobodyLinks
    BY <2>1, NobodyConnects DEF OffInv, InProgress, Steps
  <2>3. ASSUME NEW q \in Requests, kind'[q] \in Linking PROVE q # r /\ Same(q)
    BY <2>1, <2>3 DEF Reply, Others, Linking
  <2>4. NobodyLinks'
    BY <2>2, <2>3 DEF NobodyLinks, InProgress, Same
  <2> QED
    BY <2>2, <2>4, SafeNext
<1> QED
  BY <1>2, <1>3, OffSet

LEMMA Disconnecting ==
  ASSUME CourseInv, NEW r \in Requests, Step(r), pc[r] = "change", pc'[r] = "update", kind[r] = "disconnect", account # None,
         account.settings = read[r].settings
  PROVE  Safe'
<1>1. ChangeSettings(r)
  BY AbortEffect, Typed DEF CourseInv, Ends, Step, Proceed, SaveSettings, SaveAccount, SaveDuplicate, Announce, FindByEmail,
    FindNobody, CheckCode, GetToken, FindSettings, AddSettings, UpdateAccount, RemoveAccount, FindAuthor, SavePost, PushPost, StoreSecret,
    VerifyCode, Enable, Reply, EnterCode, At, Move
<1> DEFINE s == read[r].settings
<1>2. s \in Ids /\ settings[s] \in Documents
  BY ReadKept
<1>3. settings' = [settings EXCEPT ![s] = Written(r, settings[s])] /\ account' = account
  BY <1>1 DEF ChangeSettings
<1>4. settings'[s] = Unlinked
  BY <1>2, <1>3, WrittenType DEF CourseInv, TypeOK
<1> QED
  BY <1>3, <1>4 DEF Safe

LEMMA OffNext == CourseInv /\ FreshInv /\ OffInv /\ [Next]_vars => OffInv'
<1> SUFFICES ASSUME CourseInv, FreshInv, OffInv, [Next]_vars, DisconnectingApart,
                    NEW r \in Requests, kind'[r] = "disconnect"
             PROVE  /\ InProgress(r)' /\ ~Mine(r)' => Safe'
                    /\ pc'[r] = "change" => Safe' \/ account'.settings = read'[r].settings
                    /\ pc'[r] \in {"add", "update", "reply"} => Safe'
  BY OffStays, ApartBefore DEF OffInv, DisconnectingApart
<1>1. CASE \E k \in Kinds : Starts(r, k)
  <2>1. target'[r] = account.by /\ account # None /\ account' = account /\ pc'[r] = "find"
    BY <1>1 DEF Starts, stores, Logins
  <2> QED
    BY <2>1 DEF Mine
<1>2. CASE /\ kind[r] = "disconnect" /\ (Same(r) \/ (Step(r) /\ Passes(r)))
           /\ InProgress(r)'
  <2>1. InProgress(r) /\ target'[r] = target[r]
    <3>1. CASE Same(r)
      BY <1>2, <3>1 DEF Same, InProgress
    <3>2. CASE Passes(r)
      BY <1>2, <3>2 DEF Passes, Goes, Ends, InProgress, Steps, CourseInv, Fits, Logins
    <3> QED
      BY <1>2, <3>1, <3>2
  <2>2. NobodyLinks
    BY <1>2, <2>1, NobodyConnects
  <2>3. /\ ~Mine(r) => Safe
        /\ pc[r] = "change" => Safe \/ account.settings = read[r].settings
        /\ pc[r] \in {"add", "update", "reply"} => Safe
    BY <1>2, <2>1 DEF OffInv
  <2>4. /\ Safe => Safe'
        /\ account # None => Safe' \/ (account' # None /\ account'.settings = account.settings)
        /\ account = None => Safe
    BY <2>2, SafeNext DEF Safe
  <2>5. ~Mine(r)' => Safe'
    <3>1. CASE Mine(r)
      BY <2>1, <3>1, AccountStays DEF Mine, Safe
    <3> QED
      BY <2>3, <2>4, <3>1
  <2>6. CASE Same(r)
    BY <2>3, <2>4, <2>5, <2>6 DEF Same
  <2>7. CASE Step(r) /\ Passes(r)
    <3>1. pc'[r] = "change" => Safe' \/ account'.settings = read'[r].settings
      BY <2>4, <2>7 DEF Passes, Goes, Ends, Mine
    <3>2. pc'[r] = "add" => Safe
      BY <2>7 DEF Passes, Goes, Ends, Safe
    <3>3. pc'[r] = "update" => Safe \/ (pc[r] = "change" /\ account # None /\ account.settings = read[r].settings)
      BY <2>3, <2>4, <2>7 DEF Passes, Goes, Ends
    <3>4. pc'[r] = "reply" => Safe
      BY <1>2, <2>3, <2>7 DEF Passes, Goes, Ends, CourseInv, Fits
    <3> QED
      BY <1>2, <2>4, <2>5, <2>7, <3>1, <3>2, <3>3, <3>4, Disconnecting
  <2> QED
    BY <1>2, <2>6, <2>7
<1>3. pc'[r] \in {"change", "add", "update", "reply"} => InProgress(r)'
  BY DEF InProgress, Steps
<1> QED
  BY <1>1, <1>2, <1>3, Arrivals DEF Same

\* After Drive was disconnected nothing is left to copy documents with, until somebody asks
\* to link it again, by connecting or in the settings form, unless such a request was in
\* progress meanwhile; and a post that was acknowledged is listed with its author.
THEOREM AcknowledgementsHold == Spec => []AcknowledgedIsKept
<1>1. Init => FreshInv /\ OffInv /\ PostInv
  BY DEF Init, FreshInv, OffInv, PostInv, Linking
<1>2. OffInv /\ PostInv => AcknowledgedIsKept
  BY DEF OffInv, PostInv, AcknowledgedIsKept, DisconnectedStaysOff, DisconnectingApart, PostsAreListed, Safe
<1> QED
  BY <1>1, <1>2, FreshNext, OffNext, PostNext, OnCourse, PTL DEF Spec

-----------------------------------------------------------------------------
(* The logins and the second factor *)

\* A Google login that is apart from others and from the creation saves an account where
\* there is none, so that only the username can be another one's.
FirstInv ==
  Apart("create", "google") /\ Apart("google", "google") =>
    \A r \in Requests : kind[r] = "google" =>
      pc[r] # "refused" /\ (pc[r] = "save account" => account = None)

GuardInv ==
  (\A r \in Requests : kind[r] # "delete") =>
    /\ guarded # {} => account # None /\ account.enabled
    /\ \A r \in guarded : kind[r] \in Logins /\ pc[r] \in {"find", "code", "check", "confirmed", "wrong", "error"}

\* The secret was shown, or it is its request's turn to show it, unless that failed.
Held(i) == i \in shown \/ (i \in Requests /\ kind[i] = "generate" /\ pc[i] \in {"reply", "error"})

SecretInv ==
  account # None =>
    /\ account.secret # None => Held(account.secret)
    /\ account.enabled => account.secret # None
    /\ \A r \in Requests : pc[r] = "enable" /\ Mine(r) =>
         /\ account.secret # None
         /\ Apart("generate", "turn on") => account.secret = given[r]

LEMMA FirstNext == CourseInv /\ FirstInv /\ [Next]_vars => FirstInv'
<1> SUFFICES ASSUME CourseInv, FirstInv, [Next]_vars, Apart("create", "google")', Apart("google", "google")',
                    NEW r \in Requests, kind'[r] = "google"
             PROVE  pc'[r] # "refused" /\ (pc'[r] = "save account" => account' = None)
  BY DEF FirstInv
<1>0. /\ Apart("create", "google") /\ Apart("google", "google")
      /\ kind[r] = "google" => pc[r] # "refused" /\ (pc[r] = "save account" => account = None)
  BY ApartBefore DEF FirstInv
<1>1. ASSUME kind[r] = "google", account = None, pc[r] \in {"find", "save account"}, pc'[r] = "save account" PROVE account' = None
  <2>1. ASSUME NEW q \in Requests, SaveAccount(q) PROVE FALSE
    <3>1. q # r /\ Same(r)
      BY <1>1, <2>1, SaverEffect DEF Others
    <3>2. Busy(r)
      BY <1>1, <3>1 DEF Same, Busy, InProgress, Steps
    <3>3. kind[q] \in {"create", "google"} /\ {kind[q], kind[r]} \in Clashes
      BY <1>1, <2>1, TheClashes, SaverEffect
    <3> QED
      BY <1>0, <1>1, <2>1, <3>1, <3>2, <3>3, SaverEffect, Clash
  <2> QED
    BY <1>1, <2>1, AccountEffect DEF AccountBy
<1>2. CASE Same(r)
  BY <1>0, <1>1, <1>2 DEF Same
<1>3. CASE kind'[r] = kind[r] /\ Passes(r)
  <2>1. pc'[r] # "refused"
    BY <1>0, <1>3 DEF Passes, Goes, Ends, CourseInv, Fits, Updates, Linking
  <2>2. pc'[r] = "save account" => pc[r] = "find" /\ account = None
    BY <1>3 DEF Passes, Goes, Ends, CourseInv, Fits
  <2> QED
    BY <1>1, <1>3, <2>1, <2>2
<1>4. CASE \E k \in Kinds : Starts(r, k)
  BY <1>4 DEF Starts, Logins, ById, Updates, Linking
<1> QED
  BY <1>2, <1>3, <1>4, Arrivals

LEMMA Guarding ==
  ASSUME CourseInv, [Next]_vars, NEW r \in guarded'
  PROVE  r \in Requests /\ (r \in guarded \/ \E k \in Logins : Starts(r, k) /\ account # None /\ account.enabled)
<1>1. guarded' = guarded \/ \E q \in Requests : \E k \in Logins : Starts(q, k) /\ account # None /\ account.enabled /\ guarded' = guarded \cup {q}
  <2>1. ASSUME NEW q \in Requests, Opens(q)
        PROVE  guarded' = guarded \/ \E k \in Logins : Starts(q, k) /\ account # None /\ account.enabled /\ guarded' = guarded \cup {q}
    BY <2>1, StartEffect DEF Starts
  <2>2. ASSUME NEW q \in Requests, Step(q) PROVE guarded' = guarded
    BY <2>2, StepEffect
  <2> QED
    BY <2>1, <2>2, Moves DEF vars
<1> QED
  BY <1>1 DEF CourseInv, TypeOK

LEMMA GuardNext == CourseInv /\ GuardInv /\ [Next]_vars => GuardInv'
<1> SUFFICES ASSUME CourseInv, GuardInv, [Next]_vars, \A r \in Requests : kind'[r] # "delete",
                    NEW r \in guarded'
             PROVE  /\ account' # None /\ account'.enabled
                    /\ kind'[r] \in Logins /\ pc'[r] \in {"find", "code", "check", "confirmed", "wrong", "error"}
  BY DEF GuardInv
<1>1. \A q \in Requests : kind[q] # "delete"
  BY KindStays
<1>2. /\ r \in guarded => /\ account # None /\ account.enabled
                          /\ kind[r] \in Logins /\ pc[r] \in {"find", "code", "check", "confirmed", "wrong", "error"}
  BY <1>1 DEF GuardInv
<1>3. account # None /\ account.enabled /\ r \in Requests
  BY <1>2, Guarding
<1>4. account' # None /\ account'.enabled
  BY <1>1, <1>3, AccountStays
<1>5. CASE r \in guarded
  <2>1. CASE Same(r)
    BY <1>2, <1>4, <1>5, <2>1 DEF Same
  <2>2. CASE kind'[r] = kind[r] /\ Passes(r)
    BY <1>2, <1>3, <1>4, <1>5, <2>2 DEF Passes, Goes, Ends, Logins, Updates, Linking
  <2>3. ~ \E k \in Kinds : Starts(r, k)
    BY <1>2, <1>5 DEF Starts
  <2> QED
    BY <1>3, <2>1, <2>2, <2>3, Arrivals
<1>6. CASE \E k \in Logins : Starts(r, k)
  <2>1. PICK k \in Logins : Starts(r, k)
    BY <1>6
  <2>2. kind'[r] = k /\ pc'[r] = "find"
    BY <2>1 DEF Starts, Logins, ById, Updates, Linking
  <2> QED
    BY <1>4, <2>1, <2>2
<1> QED
  BY <1>3, <1>4, <1>5, <1>6, Guarding

LEMMA ShownStays ==
  ASSUME CourseInv, [Next]_vars
  PROVE  shown \subseteq shown'
<1>1. ASSUME NEW r \in Requests, Opens(r) PROVE shown' = shown
  BY <1>1, StartEffect DEF Starts, stores
<1>2. ASSUME NEW r \in Requests, Reply(r) PROVE shown \subseteq shown'
  BY <1>2 DEF Reply
<1>3. ASSUME NEW r \in Requests, Step(r), ~Reply(r) PROVE shown' = shown
  BY <1>3 DEF Step, Proceed, SaveSettings, SaveAccount, SaveDuplicate, Announce, FindByEmail, FindNobody, CheckCode, GetToken,
    FindSettings, ChangeSettings, AddSettings, UpdateAccount, RemoveAccount, FindAuthor, SavePost, PushPost, StoreSecret, VerifyCode,
    Enable, Abort, EnterCode, stores
<1> QED
  BY <1>1, <1>2, <1>3, Moves DEF vars, stores

\* A secret on its way to the user arrives, or its request fails.
LEMMA HeldStays ==
  ASSUME CourseInv, [Next]_vars, NEW i \in Ids, Held(i)
  PROVE  Held(i)'
<1>1. CASE i \in Requests /\ kind[i] = "generate" /\ pc[i] \in {"reply", "error"}
  <2>1. pc[i] = "reply" /\ pc'[i] = "ok" /\ Step(i) => Reply(i)
    BY AbortEffect, Typed, <1>1 DEF CourseInv, Step, Proceed, SaveSettings, SaveAccount, SaveDuplicate, Announce, FindByEmail, FindNobody,
      CheckCode, GetToken, FindSettings, ChangeSettings, AddSettings, UpdateAccount, RemoveAccount, FindAuthor, SavePost, PushPost,
      StoreSecret, VerifyCode, Enable, EnterCode, At, Move, Ends
  <2>2. Reply(i) => i \in shown'
    BY <1>1 DEF Reply
  <2> QED
    BY <1>1, <2>1, <2>2, Arrivals DEF Same, Passes, Goes, Ends, Starts, Held
<1> QED
  BY <1>1, ShownStays DEF Held

LEMMA SecretNext == CourseInv /\ SecretInv /\ [Next]_vars => SecretInv'
<1> SUFFICES ASSUME CourseInv, SecretInv, [Next]_vars, account' # None
             PROVE  /\ account'.secret # None => Held(account.secret)'
                    /\ account'.enabled => account'.secret # None
                    /\ \A r \in Requests : pc'[r] = "enable" /\ Mine(r)' =>
                         /\ account'.secret # None
                         /\ Apart("generate", "turn on")' => account'.secret = given'[r]
  BY DEF SecretInv
<1>0. ASSUME account # None
      PROVE  /\ account.secret \in Ids \cup {None}
             /\ account.secret # None => Held(account.secret)
             /\ account.enabled => account.secret # None
             /\ \A r \in Requests : pc[r] = "enable" /\ Mine(r) =>
                  /\ account.secret # None
                  /\ Apart("generate", "turn on") => account.secret = given[r]
  BY <1>0 DEF SecretInv, CourseInv, TypeOK, Accounts
\* The requests that are about to enable the second factor have confirmed its secret.
<1>1. ASSUME NEW r \in Requests, pc'[r] = "enable", Mine(r)'
      PROVE  /\ account # None /\ account.secret # None /\ kind[r] = "turn on" /\ InProgress(r)
             /\ Apart("generate", "turn on") => account.secret = given'[r]
  <2>1. CASE Same(r)
    <3>1. Mine(r)
      BY <1>1, <2>1, MineBefore DEF Same
    <3>2. account # None /\ kind[r] = "turn on" /\ InProgress(r)
      BY <1>1, <2>1, <3>1 DEF Same, Mine, CourseInv, Fits, InProgress, Steps
    <3> QED
      BY <1>0, <1>1, <2>1, <3>1, <3>2 DEF Same
  <2>2. CASE Passes(r)
    <3>1. pc[r] = "find" /\ kind[r] = "turn on" /\ Mine(r) /\ account.secret = given[r] /\ given'[r] = given[r]
      BY <1>1, <2>2 DEF Passes, Goes, Ends
    <3>2. given[r] # None
      BY <3>1, AccountAssumption DEF CourseInv, Fits
    <3> QED
      BY <3>1, <3>2 DEF Mine, InProgress, Steps
  <2> QED
    BY <1>1, <2>1, <2>2, Arrivals DEF Starts
<1>2. CASE account # None /\ account'.secret = account.secret /\ (account'.enabled = account.enabled \/ account.secret # None)
  <2>1. account'.secret # None => Held(account.secret)'
    <3>1. \A i \in Ids : Held(i) => Held(i)'
      BY HeldStays
    <3> QED
      BY <1>0, <1>2, <3>1 DEF Held
  <2> QED
    BY <1>0, <1>1, <1>2, <2>1, ApartBefore
<1>3. ASSUME NEW q \in Requests, SaveAccount(q), account = None, account'.secret = None, ~account'.enabled
      PROVE  SecretInv'
  BY <1>1, <1>3 DEF SecretInv
<1>4. ASSUME NEW q \in Requests, StoreSecret(q), account # None, account'.secret = q, account'.enabled = account.enabled
      PROVE  SecretInv'
  <2>1. pc[q] = "store secret" /\ kind[q] = "generate" /\ pc'[q] = "reply" /\ kind'[q] = "generate" /\ q # None
    BY <1>4, GotoEffect, Typed, AccountAssumption DEF StoreSecret, Move, CourseInv, Fits, Goes, Stages, Steps, Ids
  <2>2. ASSUME NEW r \in Requests, pc'[r] = "enable", Mine(r)', Apart("generate", "turn on") PROVE FALSE
    <3>1. r # q /\ kind[r] = "turn on" /\ Busy(r) /\ Busy(q)
      <4>1. InProgress(r) /\ kind[r] = "turn on" /\ r # q
        BY <1>1, <2>1, <2>2
      <4>2. pc[r] # "check"
        BY <4>1 DEF CourseInv, Fits, Logins
      <4> QED
        BY <2>1, <4>1, <4>2 DEF Busy, InProgress, Steps
    <3>2. {"generate", "turn on"} \in Clashes
      BY DEF Clashes
    <3> QED
      BY <2>1, <2>2, <3>1, <3>2, Clash
  <2> QED
    BY <1>4, <2>1, <2>2, ApartBefore DEF SecretInv, Held
<1>5. ASSUME NEW q \in Requests, Enable(q), Mine(q), account # None PROVE account.secret # None
  BY <1>0, <1>5 DEF Enable, Move
<1>6. account' = account \/ \E q \in Requests : AccountBy(q)
  BY AccountEffect
<1>7. CASE account' = account
  BY <1>2, <1>7
<1>8. ASSUME NEW q \in Requests, AccountBy(q) PROVE SecretInv'
  BY <1>2, <1>3, <1>4, <1>5, <1>8 DEF AccountBy, SecretInv
<1> QED
  BY <1>6, <1>7, <1>8 DEF SecretInv

LEMMA LoginsInit == Init => FirstInv /\ GuardInv /\ SecretInv
<1> SUFFICES ASSUME Init PROVE FirstInv /\ GuardInv /\ SecretInv
  OBVIOUS
<1>1. FirstInv /\ GuardInv
  BY DEF Init, FirstInv, GuardInv
<1>2. SecretInv
  BY InitialAccount, AccountAssumption DEF Init, SecretInv, Held, Ids
<1> QED
  BY <1>1, <1>2

\* A first login with Google that overlaps no other one, nor the creation of the account, is
\* refused at most for its username; a login that begins when the second factor is enabled
\* gets the final token only after a code; and the user was shown the secret of that code.
THEOREM LoginsSucceed == Spec => []LoginsAreAnswered
<1>1. CourseInv /\ FirstInv /\ GuardInv /\ SecretInv => LoginsAreAnswered
  <2> SUFFICES ASSUME CourseInv, FirstInv, GuardInv, SecretInv PROVE FirstLoginWorks /\ CodeIsAsked /\ SecretIsHeld
    BY DEF LoginsAreAnswered
  <2>1. FirstLoginWorks
    BY DEF FirstInv, FirstLoginWorks
  <2>2. CodeIsAsked
    BY DEF GuardInv, CodeIsAsked
  <2>3. SecretIsHeld
    BY DEF SecretInv, Held, SecretIsHeld, InProgress, Steps
  <2> QED
    BY <2>1, <2>2, <2>3
<1> QED
  BY <1>1, LoginsInit, FirstNext, GuardNext, SecretNext, OnCourse, PTL DEF Spec

LEMMA Enabling ==
  ASSUME CourseInv, SecretInv, [Next]_vars, Apart("generate", "turn on"), account' # None, account # None,
         account'.enabled, ~account.enabled
  PROVE  \E r \in Requests : At(r, "turn on", "enable") /\ given[r] = account'.secret
<1>1. PICK r \in Requests : Enable(r) /\ Mine(r) /\ account'.secret = account.secret
  BY AccountEffect DEF AccountBy
<1>2. pc[r] = "enable" /\ kind[r] = "turn on"
  BY <1>1 DEF Enable, Move, CourseInv, Fits
<1> QED
  BY <1>1, <1>2 DEF SecretInv, At

\* The second factor is enabled only with the secret that a code has confirmed, unless a
\* new secret was generated meanwhile.
THEOREM TwoFactorNeedsACode == Spec => TwoFactorIsConfirmed
<1>1. CourseInv /\ SecretInv /\ [Next]_vars =>
        [(Apart("generate", "turn on") /\ account' # None /\ account # None
            /\ account'.enabled /\ ~account.enabled) =>
            \E r \in Requests : At(r, "turn on", "enable") /\ given[r] = account'.secret]_vars
  BY Enabling
<1> QED
  BY <1>1, LoginsInit, SecretNext, OnCourse, PTL DEF Spec, TwoFactorIsConfirmed

-----------------------------------------------------------------------------
(* The settings *)

\* Without deletions, and with updates of the settings apart, every settings document is
\* the account's, or its request's still.
ReachInv ==
  (\A k, l \in Updates : Apart(k, l)) /\ (\A r \in Requests : kind[r] # "delete") =>
    /\ \A r \in Requests : InProgress(r) /\ kind[r] \in Updates => Mine(r)
    /\ \A r \in Requests :
         /\ pc[r] = "add" => account.settings = None
         /\ pc[r] = "update" /\ settings[r] # None => account.settings = None
    /\ \A i \in Ids : settings[i] # None =>
         \/ account # None /\ account.settings = i
         \/ i \in Requests /\ pc[i] \in {"save account", "update", "refused", "name taken", "error"}

\* Without deletions, and with the updates apart, the account keeps its settings but for an
\* update that has added the first ones.
LEMMA SettingsMove ==
  ASSUME CourseInv, ReachInv, [Next]_vars, \A k, l \in Updates : Apart(k, l), \A q \in Requests : kind[q] # "delete"
  PROVE  account # None =>
         /\ account' # None /\ account'.by = account.by
         /\ \/ account'.settings = account.settings
            \/ \E q \in Requests : /\ UpdateAccount(q) /\ pc[q] = "update" /\ settings[q] # None
                                   /\ account.settings = None /\ account'.settings = q
<1> SUFFICES ASSUME account # None
             PROVE  /\ account' # None /\ account'.by = account.by
                    /\ \/ account'.settings = account.settings
                       \/ \E q \in Requests : /\ UpdateAccount(q) /\ pc[q] = "update" /\ settings[q] # None
                                              /\ account.settings = None /\ account'.settings = q
  OBVIOUS
<1>1. account' # None /\ account'.by = account.by
  BY AccountStays
<1>2. ASSUME NEW q \in Requests, UpdateAccount(q), settings[q] # None PROVE pc[q] = "update" /\ account.settings = None
  BY <1>2 DEF UpdateAccount, ReachInv
<1> QED
  BY <1>1, <1>2, AccountEffect DEF AccountBy

LEMMA UpdatesApart ==
  ASSUME CourseInv, \A k, l \in Updates : Apart(k, l), NEW r \in Requests, NEW q \in Requests, kind[r] \in Updates, kind[q] \in Updates,
         InProgress(r), InProgress(q)
  PROVE  r = q
<1>1. Busy(r) /\ Busy(q)
  BY DEF Busy, CourseInv, Fits, Logins, Updates, Linking
<1> QED
  BY <1>1, TheClashes, Clash

LEMMA Saving ==
  ASSUME CourseInv, NEW r \in Requests, Step(r), pc[r] = "save account", pc'[r] = "announce"
  PROVE  SaveAccount(r)
<1>1. SaveAccount(r) \/ SaveDuplicate(r) \/ Abort(r)
  BY DEF Step, Proceed, SaveSettings, Announce, FindByEmail, FindNobody, CheckCode, GetToken, FindSettings, ChangeSettings,
    AddSettings, UpdateAccount, RemoveAccount, FindAuthor, SavePost, PushPost, StoreSecret, VerifyCode, Enable, Reply,
    EnterCode, At, Move
<1>2. RequestsType /\ "refused" \in Stages /\ "name taken" \in Stages /\ "error" \in Stages
  BY Typed DEF CourseInv, Stages
<1>3. SaveDuplicate(r) => (End(r, "refused") \/ End(r, "name taken")) /\ kind' = kind
  BY DEF SaveDuplicate
<1>4. Abort(r) => End(r, "error") /\ kind' = kind
  BY DEF Abort
<1>5. ~SaveDuplicate(r) /\ ~Abort(r)
  BY <1>2, <1>3, <1>4, EndEffect DEF Ends
<1> QED
  BY <1>1, <1>5

LEMMA Updating ==
  ASSUME CourseInv, NEW r \in Requests, Step(r), pc[r] = "update", pc'[r] = "reply"
  PROVE  UpdateAccount(r)
<1>1. UpdateAccount(r) \/ Abort(r)
  BY DEF Step, Proceed, SaveSettings, SaveAccount, SaveDuplicate, Announce, FindByEmail, FindNobody, CheckCode, GetToken,
    FindSettings, ChangeSettings, AddSettings, RemoveAccount, FindAuthor, SavePost, PushPost, StoreSecret, VerifyCode,
    Enable, Reply, EnterCode, At, Move
<1>2. RequestsType /\ "error" \in Stages
  BY Typed DEF CourseInv, Stages
<1>3. Abort(r) => End(r, "error") /\ kind' = kind
  BY DEF Abort
<1>4. ~Abort(r)
  BY <1>2, <1>3, EndEffect DEF Ends
<1> QED
  BY <1>1, <1>4

LEMMA ReachNext == CourseInv /\ ReachInv /\ [Next]_vars => ReachInv'
<1> SUFFICES ASSUME CourseInv, ReachInv, [Next]_vars,
                    \A k, l \in Updates : Apart(k, l)', \A r \in Requests : kind'[r] # "delete"
             PROVE  /\ \A r \in Requests : InProgress(r)' /\ kind'[r] \in Updates => Mine(r)'
                    /\ \A r \in Requests :
                         /\ pc'[r] = "add" => account'.settings = None
                         /\ pc'[r] = "update" /\ settings'[r] # None => account'.settings = None
                    /\ \A i \in Ids : settings'[i] # None =>
                         \/ account' # None /\ account'.settings = i
                         \/ i \in Requests /\ pc'[i] \in {"save account", "update", "refused", "name taken", "error"}
  BY DEF ReachInv
<1>0. (\A k, l \in Updates : Apart(k, l)) /\ \A r \in Requests : kind[r] # "delete"
  BY ApartBefore, KindStays
<1>1. /\ \A r \in Requests : InProgress(r) /\ kind[r] \in Updates => Mine(r)
      /\ \A r \in Requests :
           /\ pc[r] = "add" => account.settings = None
           /\ pc[r] = "update" /\ settings[r] # None => account.settings = None
      /\ \A i \in Ids : settings[i] # None =>
           \/ account # None /\ account.settings = i
           \/ i \in Requests /\ pc[i] \in {"save account", "update", "refused", "name taken", "error"}
  BY <1>0 DEF ReachInv
<1>2. ASSUME NEW r \in Requests, InProgress(r)', kind'[r] \in Updates PROVE Mine(r)'
  <2>1. CASE \E k \in Kinds : Starts(r, k)
    BY <1>2, <2>1 DEF Starts, stores, Mine, Updates, Linking, Logins
  <2>2. CASE kind[r] = kind'[r] /\ InProgress(r) /\ target'[r] = target[r]
    BY <1>0, <1>1, <1>2, <2>2, AccountStays DEF Mine
  <2>3. CASE Same(r)
    BY <1>2, <2>2, <2>3 DEF Same, InProgress
  <2>4. CASE kind'[r] = kind[r] /\ Passes(r)
    <3>1. pc[r] # "code" /\ InProgress(r) /\ target'[r] = target[r]
      BY <1>2, <2>4 DEF Passes, Goes, Ends, InProgress, Steps, CourseInv, Fits, Logins, Updates, Linking
    <3> QED
      BY <2>2, <2>4, <3>1
  <2> QED
    BY <2>1, <2>3, <2>4, Arrivals
\* While an update is in progress only it can give the account its first settings.
<1>3. ASSUME NEW r \in Requests, pc'[r] \in {"add", "update"}, account # None, account.settings = None,
             kind[r] \in Updates, InProgress(r)
      PROVE  account'.settings = None
  <2>1. ASSUME NEW q \in Requests, UpdateAccount(q), pc[q] = "update" PROVE FALSE
    <3>1. q = r
      BY <1>0, <1>3, <2>1, UpdatesApart DEF CourseInv, Fits, InProgress, Steps
    <3>2. pc'[q] \in {"reply", "refused"}
      BY <2>1, EndEffect, GotoEffect, Typed DEF UpdateAccount, CourseInv, Ends, Goes, Stages, Steps
    <3> QED
      BY <1>3, <3>1, <3>2
  <2> QED
    BY <1>0, <1>3, <2>1, SettingsMove
<1>4. ASSUME NEW r \in Requests, pc'[r] \in {"add", "update"}
      PROVE  kind[r] \in Updates /\ InProgress(r) /\ account # None
  <2>1. pc[r] \in {"find", "change", "add", "update"}
    BY <1>4, Arrivals DEF Same, Passes, Goes, Ends, Starts
  <2>2. Same(r) \/ Passes(r)
    BY <1>4, Arrivals DEF Starts
  <2>3. kind[r] \in Updates
    BY <1>4, <2>1, <2>2 DEF Same, Passes, Goes, Ends, CourseInv, Fits
  <2> QED
    BY <1>1, <2>1, <2>3 DEF Mine, InProgress, Steps
<1>5. ASSUME NEW r \in Requests, pc'[r] = "add" PROVE account'.settings = None
  <2>1. account.settings = None
    <3>1. CASE Same(r)
      BY <1>1, <1>5, <3>1 DEF Same
    <3>2. CASE Passes(r)
      BY <1>5, <3>2 DEF Passes, Goes, Ends
    <3>3. CASE \E k \in Kinds : Starts(r, k)
      BY <1>5, <3>3 DEF Starts
    <3> QED
      BY <3>1, <3>2, <3>3, Arrivals
  <2> QED
    BY <1>3, <1>4, <1>5, <2>1
<1>6. ASSUME NEW r \in Requests, pc'[r] = "update", settings'[r] # None PROVE account'.settings = None
  <2>1. ~SaveSettings(r)
    <3>1. SaveSettings(r) => pc'[r] = "save account"
      BY GivenEffect, Typed DEF CourseInv, SaveSettings, Stages, Steps, Ids
    <3> QED
      BY <1>6, <3>1
  <2>2. account.settings = None
    BY <1>1, <1>6, <2>1, Unreferenced DEF Same
  <2> QED
    BY <1>3, <1>4, <1>6, <2>2
<1>7. ASSUME NEW i \in Ids, settings'[i] # None
      PROVE  \/ account' # None /\ account'.settings = i
             \/ i \in Requests /\ pc'[i] \in {"save account", "update", "refused", "name taken", "error"}
  <2>1. CASE settings[i] = None
    <3>1. PICK q \in Requests, s \in Ids : SettingsBy(q, s)
      BY <1>7, <2>1, SettingsEffect
    <3>2. s = i /\ settings[s] \notin Documents
      BY <1>7, <2>1, <3>1, AccountAssumption DEF SettingsBy
    <3>3. s = q /\ (SaveSettings(q) \/ AddSettings(q))
      BY <3>1, <3>2 DEF SettingsBy
    <3>4. SaveSettings(q) => pc'[q] = "save account"
      BY GivenEffect, Typed DEF CourseInv, SaveSettings, Stages, Steps, Ids
    <3>5. AddSettings(q) => pc'[q] = "update"
      BY GotoEffect, Typed DEF CourseInv, AddSettings, Move, Stages, Steps, Goes
    <3> QED
      BY <3>2, <3>3, <3>4, <3>5
  <2>2. CASE account # None /\ account.settings = i
    <3>1. i # None
      BY AccountAssumption
    <3> QED
      BY <1>0, <2>2, <3>1, SettingsMove
  <2>3. CASE i \in Requests /\ pc[i] \in {"save account", "update", "refused", "name taken", "error"} /\ settings[i] # None
    <3>1. CASE pc[i] = "save account" /\ pc'[i] = "announce"
      <4>1. SaveAccount(i)
        <5>1. Step(i)
          BY <2>3, <3>1, Arrivals DEF Same, Starts
        <5> QED
          BY <2>3, <3>1, <5>1, Saving
      <4>2. account' = Account(i, given[i]) /\ given[i] = i
        BY <2>3, <3>1, <4>1 DEF SaveAccount, CourseInv, ReferencesFit
      <4>3. account'.settings = i
        BY <4>2 DEF Account
      <4>4. account' # None
        <5>1. Account(i, i) \in Accounts
          BY <2>3 DEF Account, Accounts, Ids
        <5> QED
          BY <4>2, <5>1, AccountAssumption
      <4> QED
        BY <4>3, <4>4
    <3>2. CASE pc[i] = "update" /\ pc'[i] = "reply"
      <4>1. UpdateAccount(i)
        <5>1. Step(i)
          BY <2>3, <3>2, Arrivals DEF Same, Starts
        <5> QED
          BY <2>3, <3>2, <5>1, Updating
      <4>2. Mine(i)
        BY <1>1, <2>3, <3>2 DEF CourseInv, Fits, InProgress, Steps
      <4>3. account' = [account EXCEPT !.settings = i] /\ account \in Accounts /\ account # None
        BY <2>3, <4>1, <4>2, AccountKept DEF UpdateAccount, Mine
      <4>4. account'.settings = i
        BY <4>3 DEF Accounts
      <4> QED
        BY <1>0, <4>3, <4>4, SettingsMove
    <3> QED
      BY <2>3, <3>1, <3>2, Arrivals DEF Same, Passes, Goes, Ends, Starts
  <2> QED
    BY <1>1, <2>1, <2>2, <2>3
<1> QED
  BY <1>2, <1>5, <1>6, <1>7

LEMMA ReachInit == Init => ReachInv
<1> SUFFICES ASSUME Init PROVE ReachInv
  OBVIOUS
<1>1. \A r \in Requests : pc[r] = "idle"
  BY DEF Init
<1> QED
  BY <1>1, InitialSettings DEF ReachInv, InProgress, Steps

\* The account refers to settings that are there, and a settings document belongs to the
\* account, unless its request has not come to an end, or to a bad one, the account was
\* deleted, or updates of the settings overlapped.
THEOREM SettingsStayReachable == Spec => []SettingsAreReachable
<1>1. CourseInv /\ ReachInv => SettingsAreReachable
  <2> SUFFICES ASSUME CourseInv, ReachInv PROVE SettingsAreReachable
    OBVIOUS
  <2>1. TypeOK
    BY DEF CourseInv
  <2>2. account # None /\ account.settings # None => settings[account.settings] # None
    BY DEF CourseInv, ReferencesFit, Kept
  <2> QED
    BY <2>1, <2>2 DEF ReachInv, SettingsAreReachable, InProgress, Steps
<1> QED
  BY <1>1, ReachInit, ReachNext, OnCourse, PTL DEF Spec

=============================================================================
