----------------------- MODULE DocumentSigning_proofs -----------------------
(***************************************************************************)
(* Theorems about DocumentSigning for any number of requests, users and    *)
(* addresses.                                                              *)
(***************************************************************************)
EXTENDS DocumentSigning, TLAPS

-----------------------------------------------------------------------------
(* Types *)

\* What a save stores for a path is what is stored already or the new value.
LEMMA StoredIsOldOrNew ==
  ASSUME NEW r, NEW path, NEW value
  PROVE  Stored(r, path, value) \in {record[path], value}
  BY DEF Stored

LEMMA UploadedType ==
  ASSUME NEW b \in BOOLEAN
  PROVE  Uploaded(b) \in Documents
  BY DEF Uploaded, Documents, Statuses

\* The call a request awaits fits its operation, and an invitation that will be
\* saved or mailed has an address.
FitsAt(step, k, to) ==
  /\ step # "idle" => k \in Kinds
  /\ step \in {"download", "upload"} => k \in {"sign", "external"}
  /\ step = "save" => k # "delete"
  /\ step = "mail" => k = "invite"
  /\ step \in {"erase", "remove"} => k = "delete"
  /\ step = "mail" \/ (step = "save" /\ k = "invite") => to \in Emails

Begun == \A r \in Requests : FitsAt(pc[r], kind[r], invitee[r])

TypeInv == TypeOK /\ Begun

LEMMA TypeInit == Init => TypeInv
<1> SUFFICES ASSUME Init PROVE TypeInv
  OBVIOUS
<1> USE DEF Init
<1>1. record \in Documents /\ Uploaded(FALSE) \in Documents
  BY UploadedType
<1>2. kind \in [Requests -> Kinds \cup {"none"}] /\ pc \in [Requests -> Steps \cup {"idle", "ok", "error"}]
  OBVIOUS
<1>3. file \in [exists : BOOLEAN, stamps : SUBSET Requests]
  OBVIOUS
<1>4. seen \in [Requests -> Documents] /\ drawn \in [Requests -> SUBSET Requests]
  BY <1>1
<1>5. invitee \in [Requests -> Emails \cup {None}] /\ answer \in [Requests -> Requests \cup {None}]
  OBVIOUS
<1> QED
  BY <1>1, <1>2, <1>3, <1>4, <1>5 DEF TypeInv, TypeOK, Begun, FitsAt

\* What Begin does to the variables it sets.
LEMMA BeginType ==
  ASSUME TypeInv, NEW r \in Requests, NEW k \in Kinds, NEW step \in Steps,
         Begin(r, k, step), FitsAt(step, k, invitee'[r]),
         \A q \in Requests \ {r} : invitee'[q] = invitee[q]
  PROVE  /\ pc' \in [Requests -> Steps \cup {"idle", "ok", "error"}]
         /\ kind' \in [Requests -> Kinds \cup {"none"}]
         /\ seen' \in [Requests -> Documents]
         /\ overlaps' \subseteq SUBSET Kinds
         /\ Begun'
<1> USE DEF Begin, TypeInv, TypeOK
<1>1. pc' \in [Requests -> Steps \cup {"idle", "ok", "error"}]
  BY DEF Goto
<1>2. kind' \in [Requests -> Kinds \cup {"none"}]
  OBVIOUS
<1>3. seen' \in [Requests -> Documents]
  OBVIOUS
<1>4. \A q \in Requests : InProgress(q) => kind[q] \in Kinds
  BY DEF InProgress, Begun, FitsAt, Steps
<1>5. overlaps' \subseteq SUBSET Kinds
  BY <1>4
<1>6. Begun'
  BY DEF Begun, Goto
<1> QED
  BY <1>1, <1>2, <1>3, <1>5, <1>6

\* A step that only moves a request on keeps its course.
LEMMA GotoType ==
  ASSUME TypeInv, NEW r \in Requests, NEW step \in Steps \cup {"ok", "error"},
         Goto(r, step), UNCHANGED kind, FitsAt(step, kind[r], invitee'[r]),
         \A q \in Requests \ {r} : invitee'[q] = invitee[q]
  PROVE  /\ pc' \in [Requests -> Steps \cup {"idle", "ok", "error"}]
         /\ Begun'
  BY DEF Goto, TypeInv, TypeOK, Begun

\* A request's own steps keep the types.
LEMMA TypeStep ==
  ASSUME TypeInv, NEW r \in Requests, Step(r)
  PROVE  TypeInv'
<1> USE DEF TypeInv, TypeOK
<1>1. CASE Download(r)
  <2>1. drawn' \in [Requests -> SUBSET Requests]
    BY <1>1 DEF Download
  <2> QED
    BY <1>1, <2>1, GotoType DEF Download, Steps, FitsAt, Begun, Kinds
<1>2. CASE Upload(r)
  <2>1. file' \in [exists : BOOLEAN, stamps : SUBSET Requests]
    BY <1>2 DEF Upload
  <2> QED
    BY <1>2, <2>1, GotoType DEF Upload, Steps, FitsAt, Begun, Kinds
<1>3. CASE SaveSigned(r)
  <2>1. Stored(r, "status", "SIGNED_BY_PARTY_A") \in Statuses /\ Stored(r, "partyA", r) \in Requests \cup {None}
    BY StoredIsOldOrNew DEF Documents, Statuses
  <2>2. record' \in Documents
    BY <1>3, <2>1 DEF SaveSigned, Documents
  <2> QED
    BY <1>3, <2>2, GotoType DEF SaveSigned, Steps, FitsAt, Begun, Kinds
<1>4. CASE SaveInvitation(r)
  <2>1. Stored(r, "status", "INVITATION_SENT") \in Statuses /\ Stored(r, "invitee", invitee[r]) \in Emails \cup {None}
    BY StoredIsOldOrNew DEF Documents, Statuses
  <2>2. record' \in Documents
    BY <1>4, <2>1 DEF SaveInvitation, Documents
  <2> QED
    BY <1>4, <2>2, GotoType DEF SaveInvitation, Steps, FitsAt, Begun, Kinds
<1>5. CASE SendInvitation(r)
  <2>1. pc' \in [Requests -> Steps \cup {"idle", "ok", "error"}] /\ Begun'
    BY <1>5, GotoType DEF SendInvitation, Steps, FitsAt, Begun, Kinds
  <2>2. mailed' \subseteq [to : Emails, token : Requests]
    BY <1>5 DEF SendInvitation, FitsAt, Begun
  <2> QED
    BY <1>5, <2>1, <2>2 DEF SendInvitation
<1>6. CASE SaveCountersigned(r)
  <2>1. /\ Stored(r, "status", "FULLY_SIGNED") \in Statuses
        /\ Stored(r, "partyB", r) \in Requests \cup {None}
        /\ Stored(r, "token", None) \in Requests \cup {None}
    BY StoredIsOldOrNew DEF Documents, Statuses
  <2>2. record' \in Documents
    BY <1>6, <2>1 DEF SaveCountersigned, Documents
  <2> QED
    BY <1>6, <2>2, GotoType DEF SaveCountersigned, Steps, FitsAt, Begun, Kinds
<1>7. CASE SaveShared(r)
  <2>1. record' \in Documents /\ answer' \in [Requests -> Requests \cup {None}]
    BY <1>7 DEF SaveShared, Documents
  <2> QED
    BY <1>7, <2>1, GotoType DEF SaveShared, Steps, FitsAt, Begun, Kinds
<1>8. CASE EraseFile(r)
  <2>1. file' \in [exists : BOOLEAN, stamps : SUBSET Requests]
    BY <1>8 DEF EraseFile
  <2> QED
    BY <1>8, <2>1, GotoType DEF EraseFile, Steps, FitsAt, Begun, Kinds
<1>9. CASE RemoveRecord(r)
  <2>1. record' \in Documents
    BY <1>9 DEF RemoveRecord, Documents
  <2> QED
    BY <1>9, <2>1, GotoType DEF RemoveRecord, Steps, FitsAt, Begun, Kinds
<1>10. ASSUME NEW outcome \in {"ok", "error"}, pc[r] # "idle", End(r, outcome),
              UNCHANGED <<record, file, kind, answer, mailed, overlaps>>
       PROVE  TypeInv'
  <2>1. pc' \in [Requests -> Steps \cup {"idle", "ok", "error"}] /\ Begun'
    BY <1>10, GotoType DEF End, FitsAt, Begun, Kinds
  <2>2. /\ seen' \in [Requests -> Documents]
        /\ drawn' \in [Requests -> SUBSET Requests]
        /\ invitee' \in [Requests -> Emails \cup {None}]
    BY <1>10, UploadedType DEF End
  <2> QED
    BY <1>10, <2>1, <2>2
<1>11. CASE Reply(r) \/ Abort(r)
  BY <1>10, <1>11 DEF Reply, Abort, InProgress, Steps
<1> QED
  BY <1>1, <1>2, <1>3, <1>4, <1>5, <1>6, <1>7, <1>8, <1>9, <1>11 DEF Step

\* A request that arrives keeps the types.
Arrival(r) ==
  \/ \E u \in Users : \/ SignRequest(r, u)
                      \/ ShareExisting(r, u)
                      \/ ShareRequest(r, u)
                      \/ DeleteRequest(r, u)
                      \/ \E e \in Emails : InviteRequest(r, u, e)
  \/ \E m \in mailed : ExternalRequest(r, m.token)

LEMMA TypeArrival ==
  ASSUME TypeInv, NEW r \in Requests, Arrival(r)
  PROVE  TypeInv'
<1> USE DEF TypeInv, TypeOK
<1>1. ASSUME NEW u \in Users, SignRequest(r, u) PROVE TypeInv'
  BY <1>1, BeginType DEF SignRequest, Kinds, Steps, FitsAt
<1>2. ASSUME NEW u \in Users, ShareExisting(r, u) PROVE TypeInv'
  <2>1. answer' \in [Requests -> Requests \cup {None}]
    BY <1>2 DEF ShareExisting, Documents
  <2>2. kind' \in [Requests -> Kinds \cup {"none"}] /\ pc' \in [Requests -> Steps \cup {"idle", "ok", "error"}]
    BY <1>2 DEF ShareExisting, Goto, Kinds
  <2>3. Begun'
    BY <1>2 DEF ShareExisting, Goto, Kinds, Begun, FitsAt
  <2> QED
    BY <1>2, <2>1, <2>2, <2>3 DEF ShareExisting
<1>3. ASSUME NEW u \in Users, ShareRequest(r, u) PROVE TypeInv'
  BY <1>3, BeginType DEF ShareRequest, Kinds, Steps, FitsAt
<1>4. ASSUME NEW u \in Users, DeleteRequest(r, u) PROVE TypeInv'
  BY <1>4, BeginType DEF DeleteRequest, Kinds, Steps, FitsAt
<1>5. ASSUME NEW u \in Users, NEW e \in Emails, InviteRequest(r, u, e) PROVE TypeInv'
  <2>1. invitee' \in [Requests -> Emails \cup {None}]
    BY <1>5 DEF InviteRequest
  <2> QED
    BY <1>5, <2>1, BeginType DEF InviteRequest, Kinds, Steps, FitsAt
<1>6. ASSUME NEW m \in mailed, ExternalRequest(r, m.token) PROVE TypeInv'
  BY <1>6, BeginType DEF ExternalRequest, Kinds, Steps, FitsAt
<1> QED
  BY <1>1, <1>2, <1>3, <1>4, <1>5, <1>6 DEF Arrival

LEMMA TypeNext == TypeInv /\ [Next]_vars => TypeInv'
<1> SUFFICES ASSUME TypeInv, [Next]_vars PROVE TypeInv'
  OBVIOUS
<1>1. CASE TokenExpires
  <2>1. record' \in Documents
    BY <1>1 DEF TokenExpires, Documents, TypeInv, TypeOK
  <2> QED
    BY <1>1, <2>1 DEF TokenExpires, TypeInv, TypeOK, Begun
<1>2. ASSUME NEW r \in Requests, Step(r) PROVE TypeInv'
  BY <1>2, TypeStep
<1>3. ASSUME NEW r \in Requests, Arrival(r) PROVE TypeInv'
  BY <1>3, TypeArrival
<1>4. CASE UNCHANGED vars
  BY <1>4 DEF vars, TypeInv, TypeOK, Begun
<1> QED
  BY <1>1, <1>2, <1>3, <1>4 DEF Next, Arrival

\* Every state of the signing feature is well typed.
THEOREM Typing == Spec => []TypeOK
<1>1. Spec => []TypeInv
  BY TypeInit, TypeNext, PTL DEF Spec
<1> QED
  BY <1>1, PTL DEF TypeInv

-----------------------------------------------------------------------------
(* A signed document is a stamped document *)

\* The inductive strengthening of SignedMeansStamped. It carries the stamp along
\* the stages of a request: a copy that is about to be uploaded holds a Party A
\* stamp, so does the file when a signature is about to be saved, and whoever
\* invites or countersigns read a document that was past the draft.
CopyIsStamped(r) == pc[r] = "upload" => \E q \in drawn[r] : kind[q] = "sign"
FileIsStamped(r) == pc[r] = "save" /\ kind[r] = "sign" /\ file.exists => StampedBy("sign")
PastDraft(r) ==
  InProgress(r) /\ kind[r] \in {"invite", "external"} => record.status # "DRAFT"
ReadDraft(r) == InProgress(r) /\ kind[r] = "sign" => seen[r].status = "DRAFT"
NotDrawnYet(r) == pc[r] = "idle" => r \notin file.stamps /\ \A q \in Requests : r \notin drawn[q]

StampInv ==
  /\ TypeInv
  /\ file.exists /\ record.status # "DRAFT" => StampedBy("sign")
  /\ \A r \in Requests : /\ CopyIsStamped(r) /\ FileIsStamped(r)
                         /\ PastDraft(r) /\ ReadDraft(r) /\ NotDrawnYet(r)

LEMMA StampInit == Init => StampInv
<1> SUFFICES ASSUME Init PROVE StampInv
  OBVIOUS
<1>1. TypeInv
  BY TypeInit
<1> QED
  BY <1>1 DEF StampInv, Init, Uploaded, CopyIsStamped, FileIsStamped, PastDraft,
              ReadDraft, NotDrawnYet, InProgress, Steps

\* An arriving request draws nothing, and the stamps drawn so far are not its own.
LEMMA StampArrival ==
  ASSUME StampInv, NEW r \in Requests, Arrival(r)
  PROVE  StampInv'
<1>1. TypeInv'
  BY TypeArrival DEF StampInv
<1>2. /\ pc[r] = "idle"
      /\ UNCHANGED <<record, file, drawn>>
      /\ \A q \in Requests \ {r} : pc'[q] = pc[q] /\ kind'[q] = kind[q] /\ seen'[q] = seen[q]
  BY DEF Arrival, SignRequest, ShareExisting, ShareRequest, DeleteRequest, InviteRequest,
         ExternalRequest, Begin, Goto, StampInv, TypeInv, TypeOK
<1>3. pc'[r] \in {"download", "save", "erase", "ok"}
  BY DEF Arrival, SignRequest, ShareExisting, ShareRequest, DeleteRequest, InviteRequest,
         ExternalRequest, Begin, Goto, StampInv, TypeInv, TypeOK
<1>4. kind'[r] \in {"invite", "external"} => record.status # "DRAFT"
  BY DEF Arrival, SignRequest, ShareExisting, ShareRequest, DeleteRequest, InviteRequest,
         ExternalRequest, Begin, StampInv, TypeInv, TypeOK, Invitable, Countersignable
<1>5. /\ pc'[r] = "save" => kind'[r] # "sign"
      /\ kind'[r] = "sign" => seen'[r].status = "DRAFT"
  BY DEF Arrival, SignRequest, ShareExisting, ShareRequest, DeleteRequest, InviteRequest,
         ExternalRequest, Begin, Goto, StampInv, TypeInv, TypeOK, Signable
<1>6. file.stamps \subseteq Requests \ {r} /\ \A q \in Requests : drawn[q] \subseteq Requests \ {r}
  BY <1>2 DEF StampInv, TypeInv, TypeOK, NotDrawnYet
<1>7. StampedBy("sign") => StampedBy("sign")'
  BY <1>2, <1>6 DEF StampedBy
<1>8. ASSUME NEW q \in Requests PROVE CopyIsStamped(q)'
  BY <1>2, <1>3, <1>6 DEF CopyIsStamped, StampInv
<1>9. ASSUME NEW q \in Requests PROVE FileIsStamped(q)'
  BY <1>2, <1>5, <1>7 DEF FileIsStamped, StampInv
<1>10. ASSUME NEW q \in Requests PROVE PastDraft(q)'
  BY <1>2, <1>4 DEF PastDraft, InProgress, StampInv
<1>11. ASSUME NEW q \in Requests PROVE NotDrawnYet(q)'
  BY <1>2, <1>3 DEF NotDrawnYet, StampInv
<1>12. ASSUME NEW q \in Requests PROVE ReadDraft(q)'
  BY <1>2, <1>5 DEF ReadDraft, InProgress, StampInv
<1> QED
  BY <1>1, <1>2, <1>7, <1>8, <1>9, <1>10, <1>11, <1>12 DEF StampInv

\* A step that leaves the file, the copies and a non-draft status alone, and
\* does not bring its request to an upload or to the save of a signature.
LEMMA StampUntouched ==
  ASSUME StampInv, TypeInv', NEW r \in Requests, NEW step \in {"mail", "remove", "reply"},
         pc[r] \in Steps, Goto(r, step),
         UNCHANGED <<file, kind, drawn, seen>>,
         record'.status # "DRAFT" /\ file.exists => StampedBy("sign"),
         record.status # "DRAFT" => record'.status # "DRAFT"
  PROVE  StampInv'
<1>1. pc'[r] = step /\ \A q \in Requests \ {r} : pc'[q] = pc[q]
  BY DEF Goto, StampInv, TypeInv, TypeOK
<1>2. StampedBy("sign")' = StampedBy("sign")
  BY DEF StampedBy
<1>3. ASSUME NEW q \in Requests
      PROVE  CopyIsStamped(q)' /\ FileIsStamped(q)' /\ PastDraft(q)' /\ ReadDraft(q)' /\ NotDrawnYet(q)'
  BY <1>1, <1>2 DEF StampInv, CopyIsStamped, FileIsStamped, PastDraft, ReadDraft, NotDrawnYet, InProgress, Steps
<1> QED
  BY <1>2, <1>3 DEF StampInv

\* A request's own steps: one step of the proof for each of them.
LEMMA StampStep ==
  ASSUME StampInv, NEW r \in Requests, Step(r)
  PROVE  StampInv'
<1>1. TypeInv'
  BY TypeStep DEF StampInv
<1>2. CASE Download(r)
  <2>1. /\ pc[r] = "download" /\ pc'[r] = "upload"
        /\ \A q \in Requests \ {r} : pc'[q] = pc[q] /\ drawn'[q] = drawn[q]
        /\ drawn'[r] = file.stamps \cup {r}
        /\ file.exists
        /\ UNCHANGED <<record, file, kind, seen>>
    BY <1>2 DEF Download, Goto, StampInv, TypeInv, TypeOK
  <2>2. StampedBy("sign")' = StampedBy("sign")
    BY <2>1 DEF StampedBy
  <2>3. kind[r] = "sign" \/ kind[r] = "external"
    BY <2>1 DEF StampInv, TypeInv, Begun, FitsAt
  <2>4. kind[r] = "external" => StampedBy("sign")
    BY <2>1 DEF StampInv, PastDraft, InProgress, Steps
  <2>5. CopyIsStamped(r)'
    BY <2>1, <2>3, <2>4 DEF CopyIsStamped, StampedBy
  <2>6. ASSUME NEW q \in Requests
        PROVE  CopyIsStamped(q)' /\ FileIsStamped(q)' /\ PastDraft(q)' /\ ReadDraft(q)' /\ NotDrawnYet(q)'
    BY <2>1, <2>2, <2>5 DEF StampInv, CopyIsStamped, FileIsStamped, PastDraft, ReadDraft, NotDrawnYet, InProgress, Steps
  <2> QED
    BY <1>1, <2>1, <2>2, <2>6 DEF StampInv
<1>3. CASE Upload(r)
  <2>1. /\ pc[r] = "upload" /\ pc'[r] = "save"
        /\ \A q \in Requests \ {r} : pc'[q] = pc[q]
        /\ file'.stamps = drawn[r]
        /\ UNCHANGED <<record, kind, drawn, seen>>
    BY <1>3 DEF Upload, Goto, StampInv, TypeInv, TypeOK
  <2>2. StampedBy("sign")'
    BY <2>1 DEF StampInv, CopyIsStamped, StampedBy
  <2>3. ASSUME NEW q \in Requests
        PROVE  CopyIsStamped(q)' /\ FileIsStamped(q)' /\ PastDraft(q)' /\ ReadDraft(q)' /\ NotDrawnYet(q)'
    BY <2>1, <2>2 DEF StampInv, CopyIsStamped, FileIsStamped, PastDraft, ReadDraft, NotDrawnYet, InProgress, Steps
  <2> QED
    BY <1>1, <2>2, <2>3 DEF StampInv
<1>4. CASE SaveSigned(r)
  <2>1. record'.status # "DRAFT" /\ (file.exists => StampedBy("sign"))
    BY <1>4 DEF SaveSigned, StampInv, FileIsStamped, ReadDraft, InProgress, Steps, TypeInv, TypeOK, Documents, Stored
  <2> QED
    BY <1>1, <1>4, <2>1, StampUntouched DEF SaveSigned, Steps
<1>5. CASE SaveInvitation(r)
  <2>1. record.status # "DRAFT"
    BY <1>5 DEF SaveInvitation, StampInv, PastDraft, InProgress, Steps
  <2>2. record'.status # "DRAFT"
    BY <1>5, <2>1 DEF SaveInvitation, Stored, StampInv, TypeInv, TypeOK, Documents
  <2> QED
    BY <1>1, <1>5, <2>1, <2>2, StampUntouched DEF SaveInvitation, Steps, StampInv
<1>6. CASE SendInvitation(r)
  BY <1>1, <1>6, StampUntouched DEF SendInvitation, Steps, StampInv
<1>7. CASE SaveCountersigned(r)
  <2>1. record.status # "DRAFT"
    BY <1>7 DEF SaveCountersigned, StampInv, PastDraft, InProgress, Steps
  <2>2. record'.status # "DRAFT"
    BY <1>7, <2>1 DEF SaveCountersigned, Stored, StampInv, TypeInv, TypeOK, Documents
  <2> QED
    BY <1>1, <1>7, <2>1, <2>2, StampUntouched DEF SaveCountersigned, Steps, StampInv
<1>8. CASE SaveShared(r)
  <2>1. record'.status = record.status
    BY <1>8 DEF SaveShared, StampInv, TypeInv, TypeOK, Documents
  <2> QED
    BY <1>1, <1>8, <2>1, StampUntouched DEF SaveShared, Steps, StampInv
<1>9. CASE EraseFile(r)
  <2>1. /\ pc[r] = "erase" /\ pc'[r] = "remove"
        /\ \A q \in Requests \ {r} : pc'[q] = pc[q]
        /\ file' = [exists |-> FALSE, stamps |-> {}]
        /\ UNCHANGED <<record, kind, drawn, seen>>
    BY <1>9 DEF EraseFile, Goto, StampInv, TypeInv, TypeOK
  <2>2. ASSUME NEW q \in Requests
        PROVE  CopyIsStamped(q)' /\ FileIsStamped(q)' /\ PastDraft(q)' /\ ReadDraft(q)' /\ NotDrawnYet(q)'
    BY <2>1 DEF StampInv, CopyIsStamped, FileIsStamped, PastDraft, ReadDraft, NotDrawnYet, InProgress, Steps
  <2> QED
    BY <1>1, <2>1, <2>2 DEF StampInv
<1>10. CASE RemoveRecord(r)
  <2>1. record'.status = record.status
    BY <1>10 DEF RemoveRecord, StampInv, TypeInv, TypeOK, Documents
  <2> QED
    BY <1>1, <1>10, <2>1, StampUntouched DEF RemoveRecord, Steps, StampInv
<1>11. CASE Reply(r) \/ Abort(r)
  <2>1. /\ pc[r] # "idle" /\ pc'[r] \in {"ok", "error"}
        /\ \A q \in Requests \ {r} : pc'[q] = pc[q] /\ drawn'[q] = drawn[q] /\ seen'[q] = seen[q]
        /\ drawn'[r] = {}
        /\ UNCHANGED <<record, file, kind>>
    BY <1>11 DEF Reply, Abort, End, Goto, InProgress, Steps, StampInv, TypeInv, TypeOK
  <2>2. StampedBy("sign")' = StampedBy("sign")
    BY <2>1 DEF StampedBy
  <2>3. ASSUME NEW q \in Requests
        PROVE  CopyIsStamped(q)' /\ FileIsStamped(q)' /\ PastDraft(q)' /\ ReadDraft(q)' /\ NotDrawnYet(q)'
    BY <2>1, <2>2 DEF StampInv, CopyIsStamped, FileIsStamped, PastDraft, ReadDraft, NotDrawnYet, InProgress, Steps
  <2> QED
    BY <1>1, <2>1, <2>2, <2>3 DEF StampInv
<1> QED
  BY <1>2, <1>3, <1>4, <1>5, <1>6, <1>7, <1>8, <1>9, <1>10, <1>11 DEF Step

LEMMA StampNext == StampInv /\ [Next]_vars => StampInv'
<1> SUFFICES ASSUME StampInv, [Next]_vars PROVE StampInv'
  OBVIOUS
<1>1. TypeInv'
  BY TypeNext DEF StampInv
<1>2. CASE TokenExpires
  <2>1. record'.status = record.status /\ UNCHANGED <<file, pc, kind, drawn, seen>>
    BY <1>2 DEF TokenExpires, StampInv, TypeInv, TypeOK, Documents
  <2> QED
    BY <1>1, <2>1 DEF StampInv, CopyIsStamped, FileIsStamped, PastDraft, ReadDraft, NotDrawnYet, InProgress,
                      StampedBy
<1>3. ASSUME NEW r \in Requests, Step(r) PROVE StampInv'
  BY <1>3, StampStep
<1>4. ASSUME NEW r \in Requests, Arrival(r) PROVE StampInv'
  BY <1>4, StampArrival
<1>5. CASE UNCHANGED vars
  BY <1>1, <1>5 DEF vars, StampInv, CopyIsStamped, FileIsStamped, PastDraft, ReadDraft, NotDrawnYet, InProgress,
                    StampedBy
<1> QED
  BY <1>2, <1>3, <1>4, <1>5 DEF Next, Arrival

LEMMA StampsHold == Spec => []StampInv
  BY StampInit, StampNext, PTL DEF Spec

\* No interleaving and no failure of signDocument, inviteToSign, signExternal,
\* generateShareToken and deleteDocument leaves a stored document that claims a
\* signature its PDF does not show.
THEOREM SignedIsStamped == Spec => []SignedMeansStamped
<1>1. StampInv => SignedMeansStamped
  BY DEF StampInv, SignedMeansStamped
<1> QED
  BY <1>1, StampsHold, PTL

-----------------------------------------------------------------------------
(* What arrivals and steps do *)

\* A request that arrives finds what its checks ask for, reads the record, and its
\* overlaps with those in progress are noted.
LEMMA ArrivalEffect ==
  ASSUME TypeInv, NEW r \in Requests, Arrival(r)
  PROVE  /\ pc[r] = "idle"
         /\ UNCHANGED <<record, file, drawn, mailed>>
         /\ \A q \in Requests \ {r} : /\ pc'[q] = pc[q] /\ kind'[q] = kind[q] /\ seen'[q] = seen[q]
                                     /\ invitee'[q] = invitee[q] /\ answer'[q] = answer[q]
         /\ overlaps \subseteq overlaps'
         /\ InProgress(r)' =>
              /\ seen'[r] = record
              /\ \A q \in Requests : InProgress(q) => {kind'[r], kind[q]} \in overlaps'
         /\ \/ kind'[r] = "sign" /\ pc'[r] = "download" /\ Signable
            \/ kind'[r] = "invite" /\ pc'[r] = "save" /\ Invitable
            \/ kind'[r] = "external" /\ pc'[r] = "download" /\ \E t \in Requests : Countersignable(t)
            \/ kind'[r] = "share" /\ pc'[r] = "save" /\ record.present /\ record.shareToken = None
            \/ kind'[r] = "share" /\ pc'[r] = "ok" /\ answer'[r] = record.shareToken /\ answer'[r] # None
            \/ kind'[r] = "delete" /\ pc'[r] = "erase" /\ record.present
<1> USE DEF TypeInv, TypeOK, Begin, Goto, InProgress
<1>1. ASSUME NEW u \in Users, SignRequest(r, u)
      PROVE  kind'[r] = "sign" /\ pc'[r] = "download" /\ Signable
  BY <1>1 DEF SignRequest
<1>2. ASSUME NEW u \in Users, NEW e \in Emails, InviteRequest(r, u, e)
      PROVE  kind'[r] = "invite" /\ pc'[r] = "save" /\ Invitable
  BY <1>2 DEF InviteRequest
<1>3. ASSUME NEW m \in mailed, ExternalRequest(r, m.token)
      PROVE  kind'[r] = "external" /\ pc'[r] = "download" /\ \E t \in Requests : Countersignable(t)
  BY <1>3 DEF ExternalRequest
<1>4. ASSUME NEW u \in Users, ShareRequest(r, u)
      PROVE  kind'[r] = "share" /\ pc'[r] = "save" /\ record.present /\ record.shareToken = None
  BY <1>4 DEF ShareRequest
<1>5. ASSUME NEW u \in Users, ShareExisting(r, u)
      PROVE  kind'[r] = "share" /\ pc'[r] = "ok" /\ answer'[r] = record.shareToken /\ answer'[r] # None
  BY <1>5 DEF ShareExisting
<1>6. ASSUME NEW u \in Users, DeleteRequest(r, u)
      PROVE  kind'[r] = "delete" /\ pc'[r] = "erase" /\ record.present
  BY <1>6 DEF DeleteRequest
<1>7. /\ pc[r] = "idle"
      /\ UNCHANGED <<record, file, drawn, mailed>>
      /\ \A q \in Requests \ {r} : /\ pc'[q] = pc[q] /\ kind'[q] = kind[q] /\ seen'[q] = seen[q]
                                  /\ invitee'[q] = invitee[q] /\ answer'[q] = answer[q]
      /\ overlaps \subseteq overlaps'
  BY DEF Arrival, SignRequest, ShareExisting, ShareRequest, DeleteRequest, InviteRequest, ExternalRequest
<1>8. ASSUME InProgress(r)'
      PROVE  /\ seen'[r] = record
             /\ \A q \in Requests : InProgress(q) => {kind'[r], kind[q]} \in overlaps'
  <2>1. PICK k \in Kinds, step \in Steps : Begin(r, k, step)
    BY <1>8 DEF Arrival, SignRequest, ShareExisting, ShareRequest, DeleteRequest, InviteRequest,
                ExternalRequest, Steps, Kinds
  <2> QED
    BY <2>1
<1> QED
  BY <1>1, <1>2, <1>3, <1>4, <1>5, <1>6, <1>7, <1>8 DEF Arrival

\* A step of a request leaves the others' local variables alone.
LEMMA StepEffect ==
  ASSUME TypeInv, NEW r \in Requests, Step(r)
  PROVE  /\ InProgress(r)
         /\ UNCHANGED <<kind, overlaps>>
         /\ pc'[r] # "idle"
         /\ \A q \in Requests \ {r} : /\ pc'[q] = pc[q] /\ seen'[q] = seen[q] /\ drawn'[q] = drawn[q]
                                     /\ invitee'[q] = invitee[q] /\ answer'[q] = answer[q]
         /\ InProgress(r)' => seen'[r] = seen[r] /\ invitee'[r] = invitee[r]
<1> USE DEF TypeInv, TypeOK, Goto, End, InProgress, Steps
<1>1. CASE Download(r) \/ Upload(r)
  BY <1>1 DEF Download, Upload
<1>2. CASE SaveSigned(r) \/ SaveInvitation(r) \/ SaveCountersigned(r) \/ SaveShared(r)
  BY <1>2 DEF SaveSigned, SaveInvitation, SaveCountersigned, SaveShared
<1>3. CASE SendInvitation(r) \/ EraseFile(r) \/ RemoveRecord(r)
  BY <1>3 DEF SendInvitation, EraseFile, RemoveRecord
<1>4. CASE Reply(r)
  BY <1>4 DEF Reply
<1>5. CASE Abort(r)
  BY <1>5 DEF Abort
<1> QED
  BY <1>1, <1>2, <1>3, <1>4, <1>5 DEF Step

\* The steps again, with the fields of the record and the file after them.
LEMMA StepCases ==
  ASSUME TypeInv, NEW r \in Requests, Step(r)
  PROVE  \/ /\ pc[r] = "download" /\ pc'[r] = "upload" /\ file.exists
            /\ drawn'[r] = file.stamps \cup {r}
            /\ UNCHANGED <<record, file, answer, mailed>>
         \/ /\ pc[r] = "upload" /\ pc'[r] = "save"
            /\ file'.exists /\ file'.stamps = drawn[r]
            /\ UNCHANGED <<record, drawn, answer, mailed>>
         \/ /\ pc[r] = "save" /\ pc'[r] = "reply" /\ kind[r] = "sign" /\ record.present
            /\ record'.status = Stored(r, "status", "SIGNED_BY_PARTY_A")
            /\ record'.partyA = Stored(r, "partyA", r)
            /\ UNCHANGED <<record.present, record.partyB, record.token, record.invitee, record.shareToken>>
            /\ UNCHANGED <<file, drawn, answer, mailed>>
         \/ /\ pc[r] = "save" /\ pc'[r] = "mail" /\ kind[r] = "invite" /\ record.present
            /\ record'.status = Stored(r, "status", "INVITATION_SENT")
            /\ record'.invitee = Stored(r, "invitee", invitee[r])
            /\ record'.token = r
            /\ UNCHANGED <<record.present, record.partyA, record.partyB, record.shareToken>>
            /\ UNCHANGED <<file, drawn, answer, mailed>>
         \/ /\ pc[r] = "mail" /\ pc'[r] = "reply"
            /\ mailed' = mailed \cup {[to |-> invitee[r], token |-> r]}
            /\ UNCHANGED <<record, file, drawn, answer>>
         \/ /\ pc[r] = "save" /\ pc'[r] = "reply" /\ kind[r] = "external" /\ record.present
            /\ record'.status = Stored(r, "status", "FULLY_SIGNED")
            /\ record'.partyB = Stored(r, "partyB", r)
            /\ record'.token = Stored(r, "token", None)
            /\ UNCHANGED <<record.present, record.partyA, record.invitee, record.shareToken>>
            /\ UNCHANGED <<file, drawn, answer, mailed>>
         \/ /\ pc[r] = "save" /\ pc'[r] = "reply" /\ kind[r] = "share" /\ record.present
            /\ record'.shareToken = r /\ answer'[r] = r
            /\ UNCHANGED <<record.present, record.status, record.partyA, record.partyB, record.token, record.invitee>>
            /\ UNCHANGED <<file, drawn, mailed>>
         \/ /\ pc[r] = "erase" /\ pc'[r] = "remove"
            /\ ~file'.exists /\ file'.stamps = {}
            /\ UNCHANGED <<record, drawn, answer, mailed>>
         \/ /\ pc[r] = "remove" /\ pc'[r] = "reply" /\ ~record'.present
            /\ UNCHANGED <<record.status, record.partyA, record.partyB, record.token, record.invitee, record.shareToken>>
            /\ UNCHANGED <<file, drawn, answer, mailed>>
         \/ /\ (pc[r] = "reply" /\ pc'[r] = "ok") \/ pc'[r] = "error"
            /\ drawn'[r] = {}
            /\ UNCHANGED <<record, file, answer, mailed>>
<1> USE DEF TypeInv, TypeOK, Documents, Goto
<1>1. CASE Download(r)
  BY <1>1 DEF Download
<1>2. CASE Upload(r)
  BY <1>2 DEF Upload
<1>3. CASE SaveSigned(r)
  BY <1>3 DEF SaveSigned
<1>4. CASE SaveInvitation(r)
  BY <1>4 DEF SaveInvitation
<1>5. CASE SendInvitation(r)
  BY <1>5 DEF SendInvitation
<1>6. CASE SaveCountersigned(r)
  BY <1>6 DEF SaveCountersigned
<1>7. CASE SaveShared(r)
  BY <1>7 DEF SaveShared
<1>8. CASE EraseFile(r)
  BY <1>8 DEF EraseFile
<1>9. CASE RemoveRecord(r)
  BY <1>9 DEF RemoveRecord
<1>10. CASE Reply(r) \/ Abort(r)
  BY <1>10 DEF Reply, Abort, End
<1> QED
  BY <1>1, <1>2, <1>3, <1>4, <1>5, <1>6, <1>7, <1>8, <1>9, <1>10 DEF Step

\* When seven days pass, only the link's freshness changes.
LEMMA ExpiryEffect ==
  ASSUME TypeInv, TokenExpires
  PROVE  /\ UNCHANGED <<record.present, record.status, record.partyA, record.partyB, record.token,
                        record.invitee, record.shareToken>>
         /\ UNCHANGED <<file, pc, kind, seen, drawn, invitee, answer, mailed, overlaps>>
  BY DEF TokenExpires, TypeInv, TypeOK, Documents

-----------------------------------------------------------------------------
(* Which requests overlap, and what they have read *)

\* Any two requests in progress have been noted as overlapping: this is what
\* Apart says something about.
OverlapsNoted ==
  \A q, r \in Requests :
    q # r /\ InProgress(q) /\ InProgress(r) => {kind[q], kind[r]} \in overlaps

\* What a request read, it read before it began; so it saw the status its checks asked
\* for, and not yet its own name.
SeenFits(r) ==
  /\ InProgress(r) =>
       /\ seen[r].partyA # r /\ seen[r].partyB # r
       /\ kind[r] = "sign" => seen[r].status = "DRAFT"
       /\ kind[r] = "invite" => seen[r].status \in {"SIGNED_BY_PARTY_A", "INVITATION_SENT"}
       /\ kind[r] = "external" => seen[r].status = "INVITATION_SENT" /\ seen[r].token # None
  /\ pc[r] = "idle" => record.partyA # r /\ record.partyB # r

OwnStamp(r) == pc[r] = "upload" => r \in drawn[r]

CourseInv ==
  /\ TypeInv
  /\ OverlapsNoted
  /\ \A r \in Requests : SeenFits(r) /\ OwnStamp(r)

LEMMA CourseInit == Init => CourseInv
<1> SUFFICES ASSUME Init PROVE CourseInv
  OBVIOUS
<1>1. TypeInv
  BY TypeInit
<1>2. OverlapsNoted
  BY DEF Init, OverlapsNoted, InProgress, Steps
<1>3. ASSUME NEW r \in Requests PROVE SeenFits(r) /\ OwnStamp(r)
  BY SigningAssumption DEF Init, SeenFits, OwnStamp, InProgress, Steps, Uploaded
<1> QED
  BY <1>1, <1>2, <1>3 DEF CourseInv

LEMMA CourseArrival ==
  ASSUME CourseInv, NEW r \in Requests, Arrival(r)
  PROVE  CourseInv'
<1>1. TypeInv /\ TypeInv'
  BY TypeArrival DEF CourseInv
<1>2. OverlapsNoted'
  <2>1. SUFFICES ASSUME NEW p \in Requests, NEW q \in Requests, p # q, InProgress(p)', InProgress(q)'
                 PROVE  {kind'[p], kind'[q]} \in overlaps'
    BY DEF OverlapsNoted
  <2>2. /\ \A s \in Requests \ {r} : InProgress(s)' = InProgress(s) /\ kind'[s] = kind[s]
        /\ overlaps \subseteq overlaps'
        /\ InProgress(r)' => \A s \in Requests : InProgress(s) => {kind'[r], kind[s]} \in overlaps'
    BY <1>1, ArrivalEffect DEF InProgress
  <2>3. CASE p = r
    BY <2>1, <2>2, <2>3
  <2>4. CASE q = r
    <3>1. {kind'[r], kind[p]} = {kind'[p], kind'[q]}
      BY <2>1, <2>2, <2>4
    <3> QED
      BY <2>1, <2>2, <2>4, <3>1
  <2>5. CASE p # r /\ q # r
    BY <2>1, <2>2, <2>5 DEF CourseInv, OverlapsNoted
  <2> QED
    BY <2>3, <2>4, <2>5
<1>3. ASSUME NEW q \in Requests PROVE SeenFits(q)' /\ OwnStamp(q)'
  <2>1. CASE q # r
    BY <1>1, <2>1, ArrivalEffect DEF CourseInv, SeenFits, OwnStamp, InProgress
  <2>2. CASE q = r
    <3>1. SeenFits(r) /\ pc[r] = "idle" /\ pc'[r] \notin {"idle", "upload"}
      BY <1>1, ArrivalEffect DEF CourseInv
    <3>2. /\ InProgress(r)' => seen'[r] = record
          /\ kind'[r] = "sign" => Signable
          /\ kind'[r] = "invite" => Invitable
          /\ kind'[r] = "external" => \E t \in Requests : Countersignable(t)
      BY <1>1, ArrivalEffect
    <3>3. kind'[r] = "external" => record.token # None
      BY <3>2, SigningAssumption DEF Countersignable
    <3> QED
      BY <2>2, <3>1, <3>2, <3>3 DEF SeenFits, OwnStamp, InProgress, Signable, Invitable, Countersignable
  <2> QED
    BY <2>1, <2>2
<1> QED
  BY <1>1, <1>2, <1>3 DEF CourseInv

LEMMA CourseStep ==
  ASSUME CourseInv, NEW r \in Requests, Step(r)
  PROVE  CourseInv'
<1>1. TypeInv /\ TypeInv'
  BY TypeStep DEF CourseInv
<1>2. OverlapsNoted'
  BY <1>1, StepEffect DEF CourseInv, OverlapsNoted, InProgress
<1>3. /\ record'.partyA \in {record.partyA, r}
      /\ record'.partyB \in {record.partyB, r}
  <2> USE DEF TypeInv, TypeOK, Documents
  <2>1. CASE SaveSigned(r)
    BY <1>1, <2>1 DEF SaveSigned, Stored
  <2>2. CASE SaveInvitation(r)
    BY <1>1, <2>2 DEF SaveInvitation
  <2>3. CASE SaveCountersigned(r)
    BY <1>1, <2>3 DEF SaveCountersigned, Stored
  <2>4. CASE SaveShared(r)
    BY <1>1, <2>4 DEF SaveShared
  <2>5. CASE RemoveRecord(r)
    BY <1>1, <2>5 DEF RemoveRecord
  <2>6. CASE UNCHANGED record
    BY <2>6
  <2> QED
    BY <2>1, <2>2, <2>3, <2>4, <2>5, <2>6 DEF Step, Download, Upload, SendInvitation, EraseFile, Reply, Abort
<1>4. pc'[r] = "upload" => r \in drawn'[r]
  BY <1>1 DEF TypeInv, TypeOK, Goto, Step, Download, Upload, SaveSigned, SaveInvitation, SendInvitation,
              SaveCountersigned, SaveShared, EraseFile, RemoveRecord, Reply, Abort, End
<1>5. ASSUME NEW q \in Requests PROVE SeenFits(q)'
  BY <1>1, <1>3, StepEffect DEF CourseInv, SeenFits, InProgress
<1>6. ASSUME NEW q \in Requests PROVE OwnStamp(q)'
  BY <1>1, <1>4, StepEffect DEF CourseInv, OwnStamp
<1> QED
  BY <1>1, <1>2, <1>5, <1>6 DEF CourseInv

LEMMA CourseNext == CourseInv /\ [Next]_vars => CourseInv'
<1> SUFFICES ASSUME CourseInv, [Next]_vars PROVE CourseInv'
  OBVIOUS
<1>1. TypeInv'
  BY TypeNext DEF CourseInv
<1>2. CASE TokenExpires
  <2>1. /\ record'.partyA = record.partyA /\ record'.partyB = record.partyB
        /\ UNCHANGED <<pc, kind, seen, drawn, overlaps>>
    BY <1>2 DEF TokenExpires, CourseInv, TypeInv, TypeOK, Documents
  <2> QED
    BY <1>1, <2>1 DEF CourseInv, OverlapsNoted, SeenFits, OwnStamp, InProgress
<1>3. ASSUME NEW r \in Requests, Step(r) PROVE CourseInv'
  BY <1>3, CourseStep
<1>4. ASSUME NEW r \in Requests, Arrival(r) PROVE CourseInv'
  BY <1>4, CourseArrival
<1>5. CASE UNCHANGED vars
  BY <1>1, <1>5 DEF vars, CourseInv, OverlapsNoted, SeenFits, OwnStamp, InProgress
<1> QED
  BY <1>2, <1>3, <1>4, <1>5 DEF Next, Arrival

LEMMA Courses == Spec => []CourseInv
  BY CourseInit, CourseNext, PTL DEF Spec

-----------------------------------------------------------------------------
(* A share link that was handed out works *)

\* As long as no two requests made a token at the same time, whoever is about to save
\* one still finds none, and whoever returned one returned that of the record.
ShareInv ==
  Apart("share", "share") =>
    \A r \in Requests : kind[r] = "share" =>
      /\ pc[r] = "save" => record.shareToken = None
      /\ pc[r] \in {"reply", "ok"} => answer[r] = record.shareToken /\ answer[r] # None

LEMMA ShareStep ==
  ASSUME CourseInv, ShareInv, NEW r \in Requests, Step(r)
  PROVE  ShareInv'
<1>1. SUFFICES ASSUME Apart("share", "share"), NEW q \in Requests, kind[q] = "share"
               PROVE  /\ pc'[q] = "save" => record'.shareToken = None
                      /\ pc'[q] \in {"reply", "ok"} => answer'[q] = record'.shareToken /\ answer'[q] # None
  BY StepEffect DEF ShareInv, Apart, CourseInv
<1>2. CASE pc[r] = "save" /\ kind[r] = "share" /\ pc'[r] = "reply"
  <2>1. record.shareToken = None /\ record'.shareToken = r /\ answer'[r] = r
    BY <1>1, <1>2, StepCases DEF CourseInv, ShareInv
  <2>2. ASSUME q # r PROVE pc[q] \notin {"save", "reply", "ok"}
    BY <1>1, <1>2, <2>1, <2>2 DEF CourseInv, OverlapsNoted, InProgress, Steps, ShareInv, Apart
  <2> QED
    BY <1>2, <2>1, <2>2, StepEffect, SigningAssumption DEF CourseInv
<1>3. CASE ~(pc[r] = "save" /\ kind[r] = "share" /\ pc'[r] = "reply")
  <2>1. record'.shareToken = record.shareToken /\ UNCHANGED answer
    BY <1>3, StepCases DEF CourseInv
  <2>2. q = r => pc'[r] # "save" /\ (pc'[r] \in {"reply", "ok"} => pc[r] = "reply")
    BY <1>1, <1>3, StepCases DEF CourseInv, TypeInv, Begun, FitsAt
  <2> QED
    BY <1>1, <2>1, <2>2, StepEffect DEF CourseInv, ShareInv
<1> QED
  BY <1>2, <1>3

LEMMA ShareNext == CourseInv /\ ShareInv /\ [Next]_vars => ShareInv'
<1> SUFFICES ASSUME CourseInv, ShareInv, [Next]_vars PROVE ShareInv'
  OBVIOUS
<1>1. CASE TokenExpires
  BY <1>1, ExpiryEffect DEF CourseInv, ShareInv, Apart
<1>2. ASSUME NEW r \in Requests, Arrival(r) PROVE ShareInv'
  BY <1>2, ArrivalEffect DEF CourseInv, ShareInv, Apart
<1>3. ASSUME NEW r \in Requests, Step(r) PROVE ShareInv'
  BY <1>3, ShareStep
<1>4. CASE UNCHANGED vars
  BY <1>4 DEF vars, ShareInv, Apart
<1> QED
  BY <1>1, <1>2, <1>3, <1>4 DEF Next, Arrival

\* A share link that generateShareToken returned opens the document, however many
\* requests for one there are, unless two of them overlapped.
THEOREM HandedLinkWorks == Spec => []ShareLinkWorks
<1>1. Init => ShareInv
  BY DEF Init, ShareInv
<1>2. ShareInv => ShareLinkWorks
  BY DEF ShareInv, ShareLinkWorks
<1> QED
  BY <1>1, <1>2, ShareNext, Courses, PTL DEF Spec

-----------------------------------------------------------------------------
(* A deleted document's file is gone *)

\* As long as no signature was applied while a deletion ran: from the erasure on, the file
\* is gone, and once the record is gone too no request is left that would upload one.
EraseInv ==
  Apart("sign", "delete") /\ Apart("external", "delete") =>
    /\ \A r \in Requests : pc[r] = "remove" => ~file.exists
    /\ ~record.present =>
         ~file.exists /\ \A r \in Requests : InProgress(r) => kind[r] \notin {"sign", "external"}

LEMMA EraseArrival ==
  ASSUME CourseInv, EraseInv, NEW r \in Requests, Arrival(r)
  PROVE  EraseInv'
<1>1. overlaps \subseteq overlaps' /\ UNCHANGED <<record, file>>
  BY ArrivalEffect DEF CourseInv
<1>2. \A q \in Requests : pc'[q] = "remove" => pc[q] = "remove"
  BY ArrivalEffect DEF CourseInv
<1>3. kind'[r] \in {"sign", "external"} => record.present
  BY ArrivalEffect DEF CourseInv, Signable, Countersignable
<1>4. \A q \in Requests \ {r} : InProgress(q)' = InProgress(q) /\ kind'[q] = kind[q]
  BY ArrivalEffect DEF CourseInv, InProgress
<1> QED
  BY <1>1, <1>2, <1>3, <1>4 DEF EraseInv, Apart

LEMMA EraseStep ==
  ASSUME CourseInv, EraseInv, NEW r \in Requests, Step(r)
  PROVE  EraseInv'
<1>1. SUFFICES ASSUME Apart("sign", "delete"), Apart("external", "delete")
               PROVE  /\ \A q \in Requests : pc'[q] = "remove" => ~file'.exists
                      /\ ~record'.present =>
                           ~file'.exists /\ \A q \in Requests : InProgress(q)' => kind[q] \notin {"sign", "external"}
  BY StepEffect DEF EraseInv, Apart, CourseInv
<1>2. \A q \in Requests : InProgress(q)' => InProgress(q)
  BY StepEffect DEF CourseInv, InProgress
<1>3. ASSUME NEW p \in Requests, NEW q \in Requests, InProgress(p), InProgress(q), kind[p] = "delete"
      PROVE  kind[q] \notin {"sign", "external"}
  <2>1. ASSUME kind[q] \in {"sign", "external"} PROVE FALSE
    <3>1. q # p /\ {kind[q], kind[p]} \in overlaps
      BY <1>3, <2>1 DEF CourseInv, OverlapsNoted
    <3> QED
      BY <1>1, <1>3, <2>1, <3>1 DEF Apart
  <2> QED
    BY <2>1
<1>4. ASSUME NEW q \in Requests, pc[q] \in {"erase", "remove"}
      PROVE  InProgress(q) /\ kind[q] = "delete"
  BY <1>4 DEF CourseInv, TypeInv, Begun, FitsAt, InProgress, Steps
<1>5. CASE pc[r] = "upload" /\ pc'[r] = "save"
  <2>1. InProgress(r) /\ kind[r] \in {"sign", "external"} /\ record' = record
    BY <1>5, StepEffect, StepCases DEF CourseInv, TypeInv, Begun, FitsAt
  <2>2. \A q \in Requests : pc'[q] # "remove"
    BY <1>3, <1>4, <1>5, <2>1, StepEffect DEF CourseInv
  <2>3. record.present
    BY <1>1, <2>1 DEF EraseInv
  <2> QED
    BY <2>1, <2>2, <2>3
<1>6. CASE pc[r] = "erase" /\ pc'[r] = "remove"
  BY <1>1, <1>2, <1>6, StepEffect, StepCases DEF CourseInv, EraseInv
<1>7. CASE pc[r] = "remove" /\ pc'[r] = "reply"
  <2>1. ~file'.exists /\ kind[r] = "delete" /\ InProgress(r)
    BY <1>1, <1>4, <1>7, StepCases DEF CourseInv, EraseInv
  <2> QED
    BY <1>2, <1>3, <2>1
<1>8. CASE /\ ~(pc[r] = "upload" /\ pc'[r] = "save")
           /\ ~(pc[r] = "erase" /\ pc'[r] = "remove")
           /\ ~(pc[r] = "remove" /\ pc'[r] = "reply")
  <2>1. file' = file /\ record'.present = record.present /\ pc'[r] # "remove"
    BY <1>8, StepCases DEF CourseInv
  <2> QED
    BY <1>1, <1>2, <2>1, StepEffect DEF CourseInv, EraseInv
<1> QED
  BY <1>5, <1>6, <1>7, <1>8

LEMMA EraseNext == CourseInv /\ EraseInv /\ [Next]_vars => EraseInv'
<1> SUFFICES ASSUME CourseInv, EraseInv, [Next]_vars PROVE EraseInv'
  OBVIOUS
<1>1. CASE TokenExpires
  BY <1>1, ExpiryEffect DEF CourseInv, EraseInv, Apart, InProgress
<1>2. ASSUME NEW r \in Requests, Arrival(r) PROVE EraseInv'
  BY <1>2, EraseArrival
<1>3. ASSUME NEW r \in Requests, Step(r) PROVE EraseInv'
  BY <1>3, EraseStep
<1>4. CASE UNCHANGED vars
  BY <1>4 DEF vars, EraseInv, Apart, InProgress
<1> QED
  BY <1>1, <1>2, <1>3, <1>4 DEF Next, Arrival

\* deleteDocument leaves no PDF without a record behind, whatever fails in between,
\* unless a signature was being applied meanwhile.
THEOREM DeletedIsErased == Spec => []DeletedMeansErased
<1>1. Init => EraseInv
  BY DEF Init, EraseInv, Uploaded
<1>2. EraseInv => DeletedMeansErased
  BY DEF EraseInv, DeletedMeansErased
<1> QED
  BY <1>1, <1>2, EraseNext, Courses, PTL DEF Spec


-----------------------------------------------------------------------------
(* A fully signed document accepts no link *)

\* As long as no invitation was in progress while Party B signed: a fully signed document
\* has no token, and none is about to be saved.
NoLinkInv ==
  Apart("invite", "external") /\ record.status = "FULLY_SIGNED" =>
    /\ record.token = None
    /\ \A r \in Requests : ~(kind[r] = "invite" /\ pc[r] = "save")

LEMMA NoLinkArrival ==
  ASSUME CourseInv, NoLinkInv, NEW r \in Requests, Arrival(r)
  PROVE  NoLinkInv'
<1>1. overlaps \subseteq overlaps' /\ UNCHANGED record
  BY ArrivalEffect DEF CourseInv
<1>2. record.status = "FULLY_SIGNED" => ~(kind'[r] = "invite" /\ pc'[r] = "save")
  BY ArrivalEffect DEF CourseInv, Invitable
<1>3. \A q \in Requests \ {r} : pc'[q] = pc[q] /\ kind'[q] = kind[q]
  BY ArrivalEffect DEF CourseInv
<1> QED
  BY <1>1, <1>2, <1>3 DEF NoLinkInv, Apart

LEMMA NoLinkStep ==
  ASSUME CourseInv, NoLinkInv, NEW r \in Requests, Step(r)
  PROVE  NoLinkInv'
<1>1. SUFFICES ASSUME Apart("invite", "external"), record'.status = "FULLY_SIGNED"
               PROVE  /\ record'.token = None
                      /\ \A q \in Requests : ~(kind[q] = "invite" /\ pc'[q] = "save")
  BY StepEffect DEF NoLinkInv, Apart, CourseInv
<1>2. \A q \in Requests : kind[q] = "invite" /\ pc'[q] = "save" => pc[q] = "save"
  BY StepEffect, StepCases DEF CourseInv, TypeInv, Begun, FitsAt
<1>3. SeenFits(r) /\ InProgress(r)
  BY StepEffect DEF CourseInv
<1>4. CASE pc[r] = "save" /\ kind[r] \in {"sign", "invite"} /\ pc'[r] # "error"
  <2>1. kind[r] = "sign" => record'.status = "SIGNED_BY_PARTY_A"
    BY <1>3, <1>4, StepCases DEF CourseInv, SeenFits, Stored
  <2>2. kind[r] = "invite" => record'.status \in {"INVITATION_SENT", record.status}
    BY <1>4, StepCases DEF CourseInv, Stored
  <2> QED
    BY <1>1, <1>4, <2>1, <2>2 DEF NoLinkInv
<1>5. CASE pc[r] = "save" /\ kind[r] = "external" /\ pc'[r] # "error"
  <2>1. record'.token = None
    BY <1>3, <1>5, StepCases DEF CourseInv, SeenFits, Stored
  <2>2. ASSUME NEW q \in Requests, kind[q] = "invite", pc[q] = "save" PROVE FALSE
    BY <1>1, <1>3, <1>5, <2>2 DEF CourseInv, OverlapsNoted, InProgress, Steps, Apart
  <2> QED
    BY <1>2, <2>1, <2>2
<1>6. CASE ~(pc[r] = "save" /\ kind[r] \in {"sign", "invite", "external"} /\ pc'[r] # "error")
  <2>1. record'.status = record.status /\ record'.token = record.token
    BY <1>6, StepCases DEF CourseInv
  <2> QED
    BY <1>1, <1>2, <2>1 DEF NoLinkInv
<1> QED
  BY <1>4, <1>5, <1>6

LEMMA NoLinkNext == CourseInv /\ NoLinkInv /\ [Next]_vars => NoLinkInv'
<1> SUFFICES ASSUME CourseInv, NoLinkInv, [Next]_vars PROVE NoLinkInv'
  OBVIOUS
<1>1. CASE TokenExpires
  BY <1>1, ExpiryEffect DEF CourseInv, NoLinkInv, Apart
<1>2. ASSUME NEW r \in Requests, Arrival(r) PROVE NoLinkInv'
  BY <1>2, NoLinkArrival
<1>3. ASSUME NEW r \in Requests, Step(r) PROVE NoLinkInv'
  BY <1>3, NoLinkStep
<1>4. CASE UNCHANGED vars
  BY <1>4 DEF vars, NoLinkInv, Apart
<1> QED
  BY <1>1, <1>2, <1>3, <1>4 DEF Next, Arrival

\* Once Party B has signed, signExternal finds no document for any link, unless an
\* invitation was in progress meanwhile.
THEOREM SignedHasNoLink == Spec => []SignedDocumentHasNoLink
<1>1. Init => NoLinkInv
  BY DEF Init, NoLinkInv, Uploaded
<1>2. NoLinkInv => SignedDocumentHasNoLink
  BY DEF NoLinkInv, SignedDocumentHasNoLink
<1> QED
  BY <1>1, <1>2, NoLinkNext, Courses, PTL DEF Spec

-----------------------------------------------------------------------------
(* The invited party holds the link *)

\* A link is mailed after it was saved. As long as no two invitations overlapped: who is
\* about to save one has read the address that is stored, and who is about to mail the
\* record's link has stored the address it is for.
InviteeInv ==
  /\ \A m \in mailed : pc[m.token] \in {"reply", "ok", "error"}
  /\ Apart("invite", "invite") =>
       /\ \A m \in mailed : m.token = record.token => m.to = record.invitee
       /\ \A r \in Requests : kind[r] = "invite" =>
            /\ pc[r] = "save" => seen[r].invitee = record.invitee
            /\ pc[r] = "mail" /\ record.token = r => record.invitee = invitee[r]

LEMMA InviteeArrival ==
  ASSUME CourseInv, InviteeInv, NEW r \in Requests, Arrival(r)
  PROVE  InviteeInv'
<1>1. \A m \in mailed : m.token \in Requests
  BY DEF CourseInv, TypeInv, TypeOK
<1>2. overlaps \subseteq overlaps' /\ UNCHANGED <<record, mailed>> /\ pc[r] = "idle" /\ pc'[r] # "mail"
  BY ArrivalEffect DEF CourseInv
<1>3. pc'[r] = "save" => seen'[r] = record
  BY ArrivalEffect DEF CourseInv, InProgress, Steps
<1>4. \A q \in Requests \ {r} : /\ pc'[q] = pc[q] /\ kind'[q] = kind[q] /\ seen'[q] = seen[q]
                               /\ invitee'[q] = invitee[q]
  BY ArrivalEffect DEF CourseInv
<1>5. \A m \in mailed' : pc'[m.token] \in {"reply", "ok", "error"}
  BY <1>1, <1>2, <1>4 DEF InviteeInv
<1> QED
  BY <1>2, <1>3, <1>4, <1>5 DEF InviteeInv, Apart

LEMMA InviteeStep ==
  ASSUME CourseInv, InviteeInv, NEW r \in Requests, Step(r)
  PROVE  InviteeInv'
<1>1. \A m \in mailed : m.token \in Requests
  BY DEF CourseInv, TypeInv, TypeOK
<1>2. \A m \in mailed' : pc'[m.token] \in {"reply", "ok", "error"}
  <2>1. CASE pc[r] = "mail" /\ pc'[r] = "reply"
    <3>1. mailed' = mailed \cup {[to |-> invitee[r], token |-> r]}
      BY <2>1, StepCases DEF CourseInv
    <3> QED
      BY <1>1, <2>1, <3>1, StepEffect DEF CourseInv, InviteeInv
  <2>2. CASE ~(pc[r] = "mail" /\ pc'[r] = "reply")
    <3>1. mailed' = mailed /\ (pc[r] = "reply" => pc'[r] \in {"ok", "error"})
      BY <2>2, StepCases DEF CourseInv
    <3>2. pc[r] \notin {"ok", "error"}
      BY StepEffect DEF CourseInv, InProgress, Steps
    <3> QED
      BY <1>1, <3>1, <3>2, StepEffect DEF CourseInv, InviteeInv
  <2> QED
    BY <2>1, <2>2
<1>3. ASSUME Apart("invite", "invite")
      PROVE  /\ \A m \in mailed' : m.token = record'.token => m.to = record'.invitee
             /\ \A q \in Requests : kind[q] = "invite" =>
                  /\ pc'[q] = "save" => seen'[q].invitee = record'.invitee
                  /\ pc'[q] = "mail" /\ record'.token = q => record'.invitee = invitee'[q]
  <2>1. \A q \in Requests : kind[q] = "invite" /\ pc'[q] = "save" => pc[q] = "save" /\ seen'[q] = seen[q]
    BY StepEffect, StepCases DEF CourseInv, TypeInv, Begun, FitsAt
  <2>2. CASE pc[r] = "save" /\ kind[r] = "invite" /\ pc'[r] = "mail"
    <3>1. record'.invitee = invitee[r] /\ record'.token = r /\ UNCHANGED mailed
      BY <1>3, <2>2, StepCases DEF CourseInv, InviteeInv, Stored
    <3>2. invitee'[r] = invitee[r]
      BY <2>2, StepEffect DEF CourseInv, InProgress, Steps
    <3>3. ASSUME NEW q \in Requests, kind[q] = "invite", pc[q] = "save" PROVE q = r
      BY <1>3, <2>2, <3>3 DEF CourseInv, OverlapsNoted, InProgress, Steps, Apart
    <3> QED
      BY <1>3, <2>1, <2>2, <3>1, <3>2, <3>3 DEF InviteeInv
  <2>3. CASE pc[r] = "mail" /\ pc'[r] = "reply"
    <3>1. mailed' = mailed \cup {[to |-> invitee[r], token |-> r]} /\ record' = record
      BY <2>3, StepCases DEF CourseInv
    <3>2. kind[r] = "invite"
      BY <2>3 DEF CourseInv, TypeInv, Begun, FitsAt
    <3> QED
      BY <1>3, <2>1, <2>3, <3>1, <3>2, StepEffect DEF CourseInv, InviteeInv
  <2>4. CASE ~(pc[r] = "save" /\ kind[r] = "invite" /\ pc'[r] = "mail") /\ ~(pc[r] = "mail" /\ pc'[r] = "reply")
    <3>1. record'.token \in {record.token, None} /\ record'.invitee = record.invitee /\ mailed' = mailed
      BY <2>4, StepCases DEF CourseInv, Stored
    <3>2. pc'[r] # "mail"
      BY <2>4, StepCases DEF CourseInv
    <3> QED
      BY <1>1, <1>3, <2>1, <3>1, <3>2, StepEffect, SigningAssumption DEF CourseInv, InviteeInv
  <2> QED
    BY <2>2, <2>3, <2>4
<1>4. UNCHANGED <<kind, overlaps>>
  BY StepEffect DEF CourseInv
<1> QED
  BY <1>2, <1>3, <1>4 DEF InviteeInv, Apart

LEMMA InviteeNext == CourseInv /\ InviteeInv /\ [Next]_vars => InviteeInv'
<1> SUFFICES ASSUME CourseInv, InviteeInv, [Next]_vars PROVE InviteeInv'
  OBVIOUS
<1>1. CASE TokenExpires
  BY <1>1, ExpiryEffect DEF CourseInv, InviteeInv, Apart
<1>2. ASSUME NEW r \in Requests, Arrival(r) PROVE InviteeInv'
  BY <1>2, InviteeArrival
<1>3. ASSUME NEW r \in Requests, Step(r) PROVE InviteeInv'
  BY <1>3, InviteeStep
<1>4. CASE UNCHANGED vars
  BY <1>4 DEF vars, InviteeInv, Apart
<1> QED
  BY <1>1, <1>2, <1>3, <1>4 DEF Next, Arrival

\* The address the record names is the one the accepted link was mailed to, unless two
\* invitations overlapped.
THEOREM LinkIsTheInvitees == Spec => []InviteeHoldsTheLink
<1>1. Init => InviteeInv
  BY DEF Init, InviteeInv
<1>2. InviteeInv => InviteeHoldsTheLink
  BY DEF InviteeInv, InviteeHoldsTheLink
<1> QED
  BY <1>1, <1>2, InviteeNext, Courses, PTL DEF Spec


-----------------------------------------------------------------------------
(* The status only moves forward *)

Applying == {"download", "upload", "save"}

\* Without overlapping Party A requests, the status tells how far the others are: a document
\* being signed is a draft, one being countersigned has been sent. Without overlapping
\* invitations, none that read an unsent document is late, and a counter-signature
\* that was saved is in force.
SignStage(r) ==
  kind[r] = "sign" =>
    /\ pc[r] \in Applying => record.status = "DRAFT"
    /\ pc[r] \in {"reply", "ok"} => record.status # "DRAFT"
ExternalStage(r) ==
  kind[r] = "external" =>
    /\ pc[r] \in Applying => record.status \in {"INVITATION_SENT", "FULLY_SIGNED"}
    /\ Apart("invite", "invite") =>
         /\ pc[r] \in {"reply", "ok"} => record.status = "FULLY_SIGNED"
         /\ pc[r] \in Applying /\ Apart("external", "external") => record.status = "INVITATION_SENT"
InviteStage(r) ==
  kind[r] = "invite" /\ pc[r] = "save" /\ Apart("invite", "invite") =>
    (seen[r].status = "SIGNED_BY_PARTY_A" => record.status = "SIGNED_BY_PARTY_A")

StageInv ==
  Apart("sign", "sign") =>
    \A r \in Requests : SignStage(r) /\ ExternalStage(r) /\ InviteStage(r)

Base == CourseInv /\ StampInv

LEMMA BaseHolds == Spec => []Base
  BY Courses, StampsHold, PTL DEF Base

LEMMA StageArrival ==
  ASSUME Base, StageInv, NEW r \in Requests, Arrival(r)
  PROVE  StageInv'
<1> USE DEF Base, CourseInv
<1>1. overlaps \subseteq overlaps' /\ UNCHANGED record
  BY ArrivalEffect
<1>2. \A q \in Requests \ {r} : pc'[q] = pc[q] /\ kind'[q] = kind[q] /\ seen'[q] = seen[q]
  BY ArrivalEffect
<1>3. SUFFICES ASSUME Apart("sign", "sign")', NEW q \in Requests
               PROVE  SignStage(q)' /\ ExternalStage(q)' /\ InviteStage(q)'
  BY DEF StageInv
<1>4. Apart("sign", "sign") /\ SignStage(q) /\ ExternalStage(q) /\ InviteStage(q)
  BY <1>1, <1>3 DEF StageInv, Apart
<1>5. CASE q # r
  BY <1>1, <1>2, <1>4, <1>5 DEF SignStage, ExternalStage, InviteStage, Apart
<1>6. CASE q = r
  <2>1. kind'[r] = "sign" => pc'[r] = "download" /\ record.status = "DRAFT"
    BY ArrivalEffect DEF Signable
  <2>2. kind'[r] = "external" => pc'[r] = "download" /\ record.status = "INVITATION_SENT"
    BY ArrivalEffect DEF Countersignable
  <2>3. pc'[r] = "save" => seen'[r] = record
    BY ArrivalEffect DEF InProgress, Steps
  <2> QED
    BY <1>1, <1>6, <2>1, <2>2, <2>3 DEF SignStage, ExternalStage, InviteStage, Applying
<1> QED
  BY <1>5, <1>6

\* A save moves the status on from the one that is stored; every other step leaves it.
LEMMA StageSaves ==
  ASSUME Base, StageInv, Apart("sign", "sign"), NEW r \in Requests, Step(r)
  PROVE  \/ kind[r] = "sign" /\ pc[r] = "save" /\ pc'[r] = "reply"
            /\ record.status = "DRAFT" /\ record'.status = "SIGNED_BY_PARTY_A"
         \/ kind[r] = "invite" /\ pc[r] = "save" /\ pc'[r] = "mail"
            /\ record.status # "DRAFT" /\ record'.status \in {"INVITATION_SENT", record.status}
            /\ (Apart("invite", "invite") =>
                  record.status = "SIGNED_BY_PARTY_A" \/ record'.status = record.status)
         \/ kind[r] = "external" /\ pc[r] = "save" /\ pc'[r] = "reply"
            /\ record.status \in {"INVITATION_SENT", "FULLY_SIGNED"} /\ record'.status = "FULLY_SIGNED"
         \/ record'.status = record.status
            /\ (kind[r] = "external" /\ pc'[r] = "reply" => FALSE)
            /\ (kind[r] = "sign" /\ pc'[r] = "reply" => FALSE)
<1> USE DEF Base, CourseInv
<1>1. InProgress(r) /\ SeenFits(r) /\ PastDraft(r) /\ SignStage(r) /\ ExternalStage(r) /\ InviteStage(r)
  BY StepEffect DEF StageInv, StampInv
<1>2. CASE kind[r] = "sign" /\ pc[r] = "save" /\ pc'[r] # "error"
  BY <1>1, <1>2, StepCases DEF SeenFits, SignStage, Applying, Stored
<1>3. CASE kind[r] = "invite" /\ pc[r] = "save" /\ pc'[r] # "error"
  BY <1>1, <1>3, StepCases DEF SeenFits, PastDraft, InviteStage, Stored
<1>4. CASE kind[r] = "external" /\ pc[r] = "save" /\ pc'[r] # "error"
  BY <1>1, <1>4, StepCases DEF SeenFits, ExternalStage, Applying, Stored
<1>5. CASE ~(kind[r] \in {"sign", "invite", "external"} /\ pc[r] = "save" /\ pc'[r] # "error")
  BY <1>5, StepCases DEF TypeInv, Begun, FitsAt
<1> QED
  BY <1>2, <1>3, <1>4, <1>5

LEMMA StageStep ==
  ASSUME Base, StageInv, NEW r \in Requests, Step(r)
  PROVE  StageInv'
<1> USE DEF Base, CourseInv
<1>1. UNCHANGED <<kind, overlaps>> /\ InProgress(r)
  BY StepEffect
<1>2. SUFFICES ASSUME Apart("sign", "sign"), NEW q \in Requests
               PROVE  SignStage(q)' /\ ExternalStage(q)' /\ InviteStage(q)'
  BY <1>1 DEF StageInv, Apart
<1>3. SignStage(q) /\ ExternalStage(q) /\ InviteStage(q) /\ PastDraft(q) /\ PastDraft(r) /\ SignStage(r)
      /\ ExternalStage(r)
  BY <1>2 DEF StageInv, StampInv
<1>4. q # r /\ InProgress(q) => {kind[q], kind[r]} \in overlaps
  BY <1>1 DEF OverlapsNoted
<1>5. q # r => pc'[q] = pc[q] /\ seen'[q] = seen[q]
  BY StepEffect
<1>6. kind[q] \in {"sign", "external"} /\ pc'[q] \in Applying => pc[q] \in Applying
  BY <1>5, StepCases DEF Applying
<1>7. pc'[q] \in {"reply", "ok"} /\ pc[q] \notin {"reply", "ok"} => q = r /\ pc'[r] = "reply"
  BY <1>5, StepCases
<1>8. kind[q] = "invite" /\ pc'[q] = "save" => q # r
  BY StepCases DEF TypeInv, Begun, FitsAt
<1>9. SignStage(q)'
  BY <1>1, <1>2, <1>3, <1>4, <1>6, <1>7, StageSaves DEF SignStage, ExternalStage, PastDraft, InProgress, Steps,
     Applying, Apart
<1>10. ExternalStage(q)'
  BY <1>1, <1>2, <1>3, <1>4, <1>6, <1>7, StageSaves DEF SignStage, ExternalStage, PastDraft, InProgress, Steps,
     Applying, Apart
<1>11. InviteStage(q)'
  BY <1>1, <1>2, <1>3, <1>4, <1>5, <1>8, StageSaves DEF InviteStage, InProgress, Steps, Apart
<1> QED
  BY <1>9, <1>10, <1>11

LEMMA StageNext == Base /\ StageInv /\ [Next]_vars => StageInv'
<1> SUFFICES ASSUME Base, StageInv, [Next]_vars PROVE StageInv'
  OBVIOUS
<1> USE DEF SignStage, ExternalStage, InviteStage
<1>1. CASE TokenExpires
  BY <1>1, ExpiryEffect DEF Base, CourseInv, StageInv, Apart
<1>2. ASSUME NEW r \in Requests, Arrival(r) PROVE StageInv'
  BY <1>2, StageArrival
<1>3. ASSUME NEW r \in Requests, Step(r) PROVE StageInv'
  BY <1>3, StageStep
<1>4. CASE UNCHANGED vars
  BY <1>4 DEF vars, StageInv, Apart
<1> QED
  BY <1>1, <1>2, <1>3, <1>4 DEF Next, Arrival

LEMMA Stages == Spec => []StageInv
<1>1. Init => StageInv
  BY DEF Init, StageInv, SignStage, ExternalStage, InviteStage
<1> QED
  BY <1>1, StageNext, BaseHolds, PTL DEF Spec

\* No save of a stale copy takes the status of a document back, as long as neither two
\* signDocument requests nor two inviteToSign requests overlapped.
THEOREM StatusMovesForward == Spec => StatusNeverFallsBack
<1>1. Base /\ StageInv /\ [Next]_vars
        => [Apart("sign", "sign")' /\ Apart("invite", "invite")'
              => Rank[record'.status] >= Rank[record.status]]_vars
  <2> SUFFICES ASSUME Base, StageInv, [Next]_vars, Apart("sign", "sign")', Apart("invite", "invite")'
               PROVE  Rank[record'.status] >= Rank[record.status]
    OBVIOUS
  <2> USE DEF Base, CourseInv
  <2>1. record.status \in Statuses /\ \A s \in Statuses : Rank[s] \in 0..3 /\ Rank[s] >= Rank[s]
    BY DEF TypeInv, TypeOK, Documents, Rank, Statuses
  <2>2. ASSUME NEW r \in Requests, Step(r) PROVE Rank[record'.status] >= Rank[record.status]
    <3>1. Apart("sign", "sign") /\ Apart("invite", "invite")
      BY <2>2, StepEffect DEF Apart
    <3>2. \/ record.status = "DRAFT" /\ record'.status = "SIGNED_BY_PARTY_A"
          \/ record.status = "SIGNED_BY_PARTY_A" /\ record'.status = "INVITATION_SENT"
          \/ record.status \in {"INVITATION_SENT", "FULLY_SIGNED"} /\ record'.status = "FULLY_SIGNED"
          \/ record'.status = record.status
      BY <2>2, <3>1, StageSaves
    <3> QED
      BY <2>1, <3>2 DEF Rank, Statuses
  <2>3. CASE record'.status = record.status
    BY <2>1, <2>3
  <2>4. ASSUME NEW r \in Requests, Arrival(r) PROVE record' = record
    BY <2>4, ArrivalEffect
  <2> QED
    BY <2>2, <2>3, <2>4, ExpiryEffect DEF Next, Arrival, vars
<1> QED
  BY <1>1, BaseHolds, Stages, PTL DEF Spec, StatusNeverFallsBack


-----------------------------------------------------------------------------
(* Party B's stamp, and signatures that stay *)

\* An arriving request has drawn nothing, so the file is stamped by the same operations.
LEMMA ArrivalStamps ==
  ASSUME Base, NEW r \in Requests, Arrival(r), NEW k
  PROVE  StampedBy(k) <=> StampedBy(k)'
<1>1. file.stamps \subseteq Requests \ {r} /\ UNCHANGED file
  BY ArrivalEffect DEF Base, StampInv, NotDrawnYet, TypeInv, TypeOK
<1>2. \A q \in Requests \ {r} : kind'[q] = kind[q]
  BY ArrivalEffect DEF Base, StampInv
<1> QED
  BY <1>1, <1>2 DEF StampedBy

\* As long as no two Party A requests overlapped: a file that a counter-signature is about
\* to be recorded for carries Party B's stamp.
CounterInv ==
  Apart("sign", "sign") /\ file.exists =>
    /\ record.status = "FULLY_SIGNED" => StampedBy("external")
    /\ \A r \in Requests : kind[r] = "external" /\ pc[r] = "save" => StampedBy("external")

LEMMA CounterArrival ==
  ASSUME Base, CounterInv, NEW r \in Requests, Arrival(r)
  PROVE  CounterInv'
<1>1. overlaps \subseteq overlaps' /\ UNCHANGED <<record, file>> /\ (StampedBy("external") <=> StampedBy("external")')
  BY ArrivalEffect, ArrivalStamps DEF Base, CourseInv
<1>2. \A q \in Requests : kind'[q] = "external" /\ pc'[q] = "save" => kind[q] = "external" /\ pc[q] = "save"
  BY ArrivalEffect DEF Base, CourseInv
<1> QED
  BY <1>1, <1>2 DEF CounterInv, Apart

LEMMA CounterStep ==
  ASSUME Base, StageInv, CounterInv, NEW r \in Requests, Step(r)
  PROVE  CounterInv'
<1> USE DEF Base, CourseInv
<1>1. UNCHANGED <<kind, overlaps>> /\ InProgress(r)
  BY StepEffect
<1>2. SUFFICES ASSUME Apart("sign", "sign"), file'.exists,
                      record'.status = "FULLY_SIGNED"
                        \/ \E q \in Requests : kind[q] = "external" /\ pc'[q] = "save"
               PROVE  StampedBy("external")'
  BY <1>1 DEF CounterInv, Apart
<1>3. CASE pc[r] = "upload" /\ pc'[r] = "save"
  <2>1. file'.stamps = drawn[r] /\ record' = record /\ r \in drawn[r]
    BY <1>3, StepCases DEF OwnStamp
  <2>2. CASE kind[r] = "sign"
    <3>1. record.status = "DRAFT"
      BY <1>2, <1>3, <2>2 DEF StageInv, SignStage, Applying
    <3>2. PICK q \in Requests : kind[q] = "external" /\ pc'[q] = "save"
      BY <1>2, <2>1, <3>1
    <3>3. q # r /\ pc[q] = "save"
      BY <2>2, <3>2, StepEffect
    <3> QED
      BY <3>1, <3>2, <3>3 DEF StampInv, PastDraft, InProgress, Steps
  <2>3. CASE kind[r] = "external"
    BY <1>1, <2>1, <2>3 DEF StampedBy
  <2> QED
    BY <1>3, <2>2, <2>3 DEF TypeInv, Begun, FitsAt
<1>4. CASE ~(pc[r] = "upload" /\ pc'[r] = "save")
  <2>1. file' = file
    BY <1>2, <1>4, StepCases
  <2>2. record'.status = "FULLY_SIGNED" =>
          record.status = "FULLY_SIGNED" \/ (kind[r] = "external" /\ pc[r] = "save")
    BY <1>2, StageSaves
  <2>3. \A q \in Requests : kind[q] = "external" /\ pc'[q] = "save" => pc[q] = "save"
    BY <1>4, StepEffect, StepCases
  <2> QED
    BY <1>1, <1>2, <2>1, <2>2, <2>3 DEF CounterInv, StampedBy
<1> QED
  BY <1>3, <1>4

LEMMA CounterNext == Base /\ StageInv /\ CounterInv /\ [Next]_vars => CounterInv'
<1> SUFFICES ASSUME Base, StageInv, CounterInv, [Next]_vars PROVE CounterInv'
  OBVIOUS
<1>1. CASE TokenExpires
  BY <1>1, ExpiryEffect DEF Base, CourseInv, CounterInv, Apart, StampedBy
<1>2. ASSUME NEW r \in Requests, Arrival(r) PROVE CounterInv'
  BY <1>2, CounterArrival
<1>3. ASSUME NEW r \in Requests, Step(r) PROVE CounterInv'
  BY <1>3, CounterStep
<1>4. CASE UNCHANGED vars
  BY <1>4 DEF vars, CounterInv, Apart, StampedBy
<1> QED
  BY <1>1, <1>2, <1>3, <1>4 DEF Next, Arrival

\* A document that claims both signatures shows Party B's stamp, whatever fails and
\* whatever overlaps, two Party A requests excepted.
THEOREM CountersignedIsStamped == Spec => []FullySignedMeansCountersigned
<1>1. Init => CounterInv
  BY DEF Init, CounterInv, Uploaded
<1>2. CounterInv => FullySignedMeansCountersigned
  BY DEF CounterInv, FullySignedMeansCountersigned
<1> QED
  BY <1>1, <1>2, CounterNext, BaseHolds, Stages, PTL DEF Spec

\* A signature about to be recorded is on the file; one that was recorded is in the record
\* and on the file, and Party A's is on every copy about to replace it.
SignKept(r) ==
  kind[r] = "sign" =>
    /\ pc[r] = "save" /\ file.exists => r \in file.stamps
    /\ pc[r] \in {"reply", "ok"} =>
         /\ record.partyA = r
         /\ file.exists => r \in file.stamps
         /\ \A q \in Requests : pc[q] = "upload" => r \in drawn[q]
ExternalKept(r) ==
  kind[r] = "external" /\ Apart("external", "external") /\ Apart("invite", "invite") =>
    /\ pc[r] = "save" /\ file.exists => r \in file.stamps
    /\ pc[r] \in {"reply", "ok"} =>
         /\ record.partyB = r
         /\ file.exists => r \in file.stamps

KeptInv == Apart("sign", "sign") => \A r \in Requests : SignKept(r) /\ ExternalKept(r)

LEMMA KeptArrival ==
  ASSUME Base, KeptInv, NEW r \in Requests, Arrival(r)
  PROVE  KeptInv'
<1> USE DEF Base, CourseInv
<1>1. /\ overlaps \subseteq overlaps' /\ UNCHANGED <<record, file, drawn>>
      /\ \A q \in Requests \ {r} : pc'[q] = pc[q] /\ kind'[q] = kind[q]
  BY ArrivalEffect
<1>2. kind'[r] \in {"sign", "external"} => pc'[r] = "download"
  BY ArrivalEffect
<1>3. \A q \in Requests : pc'[q] = "upload" => pc[q] = "upload"
  BY <1>1, ArrivalEffect
<1>4. SUFFICES ASSUME Apart("sign", "sign")', NEW q \in Requests
               PROVE  SignKept(q)' /\ ExternalKept(q)'
  BY DEF KeptInv
<1>5. SignKept(q) /\ ExternalKept(q)
  BY <1>1, <1>4 DEF KeptInv, Apart
<1>6. CASE q # r
  BY <1>1, <1>3, <1>5, <1>6 DEF SignKept, ExternalKept, Apart
<1>7. CASE q = r
  BY <1>2, <1>7 DEF SignKept, ExternalKept
<1> QED
  BY <1>6, <1>7

LEMMA KeptStep ==
  ASSUME Base, StageInv, KeptInv, NEW r \in Requests, Step(r)
  PROVE  KeptInv'
<1> USE DEF Base, CourseInv
<1>1. UNCHANGED <<kind, overlaps>> /\ InProgress(r)
  BY StepEffect
<1>2. SUFFICES ASSUME Apart("sign", "sign"), NEW q \in Requests
               PROVE  SignKept(q)' /\ ExternalKept(q)'
  BY <1>1 DEF KeptInv, Apart
<1>3. \A p \in Requests : SignStage(p) /\ ExternalStage(p) /\ PastDraft(p) /\ SignKept(p) /\ ExternalKept(p)
  BY <1>2 DEF StageInv, StampInv, KeptInv
<1>4. \A p \in Requests : pc[p] \in Applying => InProgress(p)
  BY DEF Applying, InProgress, Steps
\* Neither two Party A requests nor one of each party apply their signatures at once.
<1>5. ASSUME NEW p \in Requests, kind[p] = "sign", pc[p] \in Applying
      PROVE  /\ record.status = "DRAFT"
             /\ \A s \in Requests \ {p} : kind[s] \in {"sign", "external"} => pc[s] \notin Applying
  BY <1>2, <1>3, <1>4, <1>5 DEF SignStage, PastDraft, OverlapsNoted, Apart
<1>6. \A p \in Requests : pc[p] = "upload" => kind[p] \in {"sign", "external"} /\ pc[p] \in Applying
  BY DEF TypeInv, Begun, FitsAt, Applying
<1>7. ASSUME Apart("external", "external"), Apart("invite", "invite"), NEW p \in Requests,
             kind[p] = "external", pc[p] \in Applying
      PROVE  \A s \in Requests \ {p} : kind[s] = "external" => pc[s] \notin Applying \cup {"reply", "ok"}
  BY <1>2, <1>3, <1>4, <1>7 DEF ExternalStage, OverlapsNoted, Apart
<1>8. CASE q = r
  <2>1. kind[r] \in {"sign", "external"} /\ pc'[r] = "save" =>
          pc[r] = "upload" /\ file'.stamps = drawn[r] /\ r \in drawn[r]
    BY StepCases DEF OwnStamp
  <2>2. ASSUME kind[r] = "sign", pc'[r] \in {"reply", "ok"}
        PROVE  /\ record'.partyA = r
               /\ file'.exists => r \in file'.stamps
               /\ \A p \in Requests : pc'[p] = "upload" => r \in drawn'[p]
    <3>1. CASE pc[r] = "reply"
      <4>1. UNCHANGED <<record, file>>
        BY <3>1, StepCases
      <4> QED
        BY <1>3, <2>2, <3>1, <4>1, StepEffect DEF SignKept
    <3>2. CASE pc[r] = "save"
      <4>1. record'.partyA = Stored(r, "partyA", r) /\ UNCHANGED <<file, drawn>>
        BY <2>2, <3>2, StepCases
      <4>2. record'.partyA = r
        BY <1>1, <4>1 DEF Stored, SeenFits
      <4>3. \A p \in Requests : pc'[p] = "upload" => FALSE
        BY <1>5, <1>6, <2>2, <3>2, StepEffect DEF Applying
      <4> QED
        BY <1>3, <2>2, <3>2, <4>1, <4>2, <4>3 DEF SignKept
    <3> QED
      BY <2>2, <3>1, <3>2, StepCases DEF TypeInv, Begun, FitsAt
  <2>3. ASSUME kind[r] = "external", pc'[r] \in {"reply", "ok"}, Apart("external", "external"),
               Apart("invite", "invite")
        PROVE  record'.partyB = r /\ (file'.exists => r \in file'.stamps)
    <3>1. CASE pc[r] = "reply"
      <4>1. UNCHANGED <<record, file>>
        BY <3>1, StepCases
      <4> QED
        BY <1>3, <2>3, <3>1, <4>1 DEF ExternalKept
    <3>2. CASE pc[r] = "save"
      <4>1. record'.partyB = Stored(r, "partyB", r) /\ UNCHANGED file
        BY <2>3, <3>2, StepCases
      <4> QED
        BY <1>1, <1>3, <2>3, <3>2, <4>1 DEF Stored, SeenFits, ExternalKept
    <3> QED
      BY <2>3, <3>1, <3>2, StepCases DEF TypeInv, Begun, FitsAt
  <2> QED
    BY <1>1, <1>8, <2>1, <2>2, <2>3 DEF SignKept, ExternalKept, Apart
<1>9. CASE q # r
  <2>1. pc'[q] = pc[q] /\ drawn'[q] = drawn[q]
    BY <1>9, StepEffect
  <2>2. kind[q] = "sign" /\ pc[q] = "save" => pc[r] # "upload"
    BY <1>5, <1>6, <1>9 DEF Applying
  <2>3. kind[q] = "sign" /\ pc[q] \in {"reply", "ok"} => record.status # "DRAFT"
    BY <1>3 DEF SignStage
  <2>4. SignKept(q)'
    <3>1. CASE kind[q] = "sign" /\ pc[q] = "save"
      BY <1>1, <1>3, <2>1, <2>2, <3>1, StepCases DEF SignKept
    <3>2. CASE kind[q] = "sign" /\ pc[q] \in {"reply", "ok"}
      <4>1. /\ record.partyA = q /\ (file.exists => q \in file.stamps)
            /\ \A p \in Requests : pc[p] = "upload" => q \in drawn[p]
        BY <1>3, <3>2 DEF SignKept
      <4>2. ~(kind[r] = "sign" /\ pc[r] = "save")
        BY <1>5, <2>3, <3>2 DEF Applying
      <4>3. record'.partyA = q
        BY <4>1, <4>2, StepCases
      <4>4. file'.exists => q \in file'.stamps
        BY <4>1, StepCases
      <4>5. pc'[r] = "upload" => q \in drawn'[r]
        BY <4>1, StepCases
      <4> QED
        BY <4>1, <4>3, <4>4, <4>5, StepEffect DEF SignKept
    <3> QED
      BY <1>1, <2>1, <3>1, <3>2 DEF SignKept
  <2>5. ExternalKept(q)'
    <3>1. SUFFICES ASSUME kind[q] = "external", Apart("external", "external"), Apart("invite", "invite"),
                          pc[q] \in {"save", "reply", "ok"}
                   PROVE  /\ file'.exists => q \in file'.stamps
                          /\ pc[q] # "save" => record'.partyB = q
      BY <1>1, <2>1 DEF ExternalKept, Apart
    <3>2. /\ file.exists => q \in file.stamps
          /\ pc[q] # "save" => record.partyB = q /\ record.status = "FULLY_SIGNED"
      BY <1>2, <1>3, <3>1 DEF ExternalKept, ExternalStage
    <3>3. pc[r] # "upload"
      BY <1>5, <1>6, <1>7, <1>9, <3>1, <3>2 DEF Applying
    <3>4. ~(kind[r] = "external" /\ pc[r] = "save" /\ pc[q] # "save")
      BY <1>7, <1>9, <3>1 DEF Applying
    <3>5. (file'.exists => file.exists) /\ (file'.exists => file'.stamps = file.stamps)
      BY <3>3, StepCases
    <3>6. pc[q] # "save" => record'.partyB = record.partyB
      BY <3>4, StepCases
    <3> QED
      BY <3>2, <3>5, <3>6
  <2> QED
    BY <2>4, <2>5
<1> QED
  BY <1>8, <1>9

LEMMA KeptNext == Base /\ StageInv /\ KeptInv /\ [Next]_vars => KeptInv'
<1> SUFFICES ASSUME Base, StageInv, KeptInv, [Next]_vars PROVE KeptInv'
  OBVIOUS
<1> USE DEF SignKept, ExternalKept
<1>1. CASE TokenExpires
  BY <1>1, ExpiryEffect DEF Base, CourseInv, KeptInv, Apart
<1>2. ASSUME NEW r \in Requests, Arrival(r) PROVE KeptInv'
  BY <1>2, KeptArrival
<1>3. ASSUME NEW r \in Requests, Step(r) PROVE KeptInv'
  BY <1>3, KeptStep
<1>4. CASE UNCHANGED vars
  BY <1>4 DEF vars, KeptInv, Apart
<1> QED
  BY <1>1, <1>2, <1>3, <1>4 DEF Next, Arrival

\* A signature that signDocument or signExternal answered with success is never lost,
\* neither from the PDF nor from the record, but for the overlaps the property names.
THEOREM AcknowledgedIsKept == Spec => []AcknowledgedSignatureIsKept
<1>1. Init => KeptInv
  BY DEF Init, KeptInv, SignKept, ExternalKept
<1>2. KeptInv => AcknowledgedSignatureIsKept
  BY DEF KeptInv, SignKept, ExternalKept, AcknowledgedSignatureIsKept
<1> QED
  BY <1>1, <1>2, KeptNext, BaseHolds, Stages, PTL DEF Spec


-----------------------------------------------------------------------------
(* Calm behaviours implement the workflow *)

Calm == overlaps \cap Conflicts = {}

\* While no conflicting operations overlap: a signature being applied has a file to be
\* uploaded to, Party A's copy differs from the file by its own stamp only, a draft
\* has no stamp of Party B, and what is deleted stays without stamps.
CalmApplying(r) ==
  /\ kind[r] \in {"sign", "external"} /\ pc[r] \in {"upload", "save"} => file.exists
  /\ kind[r] = "sign" /\ pc[r] = "upload" => drawn[r] = file.stamps \cup {r}
  /\ pc[r] = "remove" => file.stamps = {}

CalmInv ==
  Calm =>
    /\ \A r \in Requests : CalmApplying(r)
    /\ record.status = "DRAFT" => ~StampedBy("external")
    /\ ~record.present =>
         file.stamps = {} /\ \A r \in Requests : InProgress(r) => kind[r] \notin {"sign", "external"}

LEMMA CalmApart ==
  ASSUME Calm
  PROVE  Apart("sign", "sign") /\ Apart("invite", "invite") /\ Apart("sign", "delete") /\ Apart("external", "delete")
  BY DEF Calm, Conflicts, Apart

LEMMA CalmArrival ==
  ASSUME Base, CalmInv, NEW r \in Requests, Arrival(r)
  PROVE  CalmInv'
<1> USE DEF Base, CourseInv
<1>1. /\ overlaps \subseteq overlaps' /\ UNCHANGED <<record, file, drawn>>
      /\ \A q \in Requests \ {r} : pc'[q] = pc[q] /\ kind'[q] = kind[q] /\ InProgress(q)' = InProgress(q)
  BY ArrivalEffect DEF InProgress
<1>2. /\ kind'[r] \in {"sign", "external"} => pc'[r] = "download" /\ record.present
      /\ pc'[r] # "remove"
  BY ArrivalEffect DEF Signable, Countersignable
<1>3. StampedBy("external") <=> StampedBy("external")'
  BY ArrivalStamps
<1> QED
  BY <1>1, <1>2, <1>3 DEF CalmInv, CalmApplying, Calm

LEMMA CalmStep ==
  ASSUME Base, StageInv, CalmInv, NEW r \in Requests, Step(r)
  PROVE  CalmInv'
<1> USE DEF Base, CourseInv
<1>1. UNCHANGED <<kind, overlaps>> /\ InProgress(r) /\ \A q \in Requests : InProgress(q)' => InProgress(q)
  BY StepEffect DEF InProgress
<1>2. SUFFICES ASSUME Calm
               PROVE  /\ \A q \in Requests : CalmApplying(q)'
                      /\ record'.status = "DRAFT" => ~StampedBy("external")'
                      /\ ~record'.present =>
                           /\ file'.stamps = {}
                           /\ \A q \in Requests : InProgress(q) => kind[q] \notin {"sign", "external"}
  BY <1>1 DEF CalmInv, Calm
<1>3. /\ Apart("sign", "sign") /\ Apart("invite", "invite")
      /\ Apart("sign", "delete") /\ Apart("external", "delete")
      /\ \A q \in Requests : SignStage(q) /\ PastDraft(q) /\ CalmApplying(q)
      /\ record.status = "DRAFT" => ~StampedBy("external")
  BY <1>2, CalmApart DEF StageInv, StampInv, CalmInv
\* A deletion meets no signature, and Party A's signature meets no other.
<1>4. ASSUME NEW p \in Requests, NEW q \in Requests, InProgress(p), InProgress(q), kind[p] = "delete"
      PROVE  kind[q] \notin {"sign", "external"}
  <2>1. ASSUME kind[q] \in {"sign", "external"} PROVE FALSE
    <3>1. q # p /\ {kind[q], kind[p]} \in overlaps
      BY <1>4, <2>1 DEF OverlapsNoted
    <3> QED
      BY <1>3, <1>4, <2>1, <3>1 DEF Apart
  <2> QED
    BY <2>1
<1>5. ASSUME NEW p \in Requests, NEW q \in Requests \ {p}, kind[p] = "sign", pc[p] = "upload",
             kind[q] \in {"sign", "external"}
      PROVE  pc[q] # "upload"
  BY <1>3, <1>5 DEF SignStage, PastDraft, Applying, InProgress, Steps, OverlapsNoted, Apart
<1>6. \A q \in Requests : pc[q] \in {"erase", "remove"} => InProgress(q) /\ kind[q] = "delete"
  BY DEF TypeInv, Begun, FitsAt, InProgress, Steps
<1>7. CASE pc[r] = "upload" /\ pc'[r] = "save"
  <2>1. file'.exists /\ file'.stamps = drawn[r] /\ record' = record /\ kind[r] \in {"sign", "external"}
    BY <1>7, StepCases DEF TypeInv, Begun, FitsAt
  <2>2. record.present
    BY <1>1, <1>2, <2>1 DEF CalmInv
  <2>3. \A q \in Requests : pc'[q] # "remove"
    BY <1>1, <1>4, <1>6, <1>7, <2>1, StepEffect
  <2>4. \A q \in Requests : ~(kind[q] = "sign" /\ pc'[q] = "upload")
    BY <1>5, <1>7, <2>1, StepEffect
  <2>5. record.status = "DRAFT" => ~StampedBy("external")'
    <3>1. SUFFICES ASSUME record.status = "DRAFT" PROVE ~StampedBy("external")'
      OBVIOUS
    <3>2. kind[r] = "sign" /\ drawn[r] = file.stamps \cup {r}
      BY <1>1, <1>3, <1>7, <2>1, <3>1 DEF PastDraft, CalmApplying
    <3> QED
      BY <1>1, <1>3, <2>1, <3>1, <3>2 DEF StampedBy
  <2> QED
    BY <1>1, <2>1, <2>2, <2>3, <2>4, <2>5 DEF CalmApplying
<1>8. CASE pc[r] = "erase" /\ pc'[r] = "remove"
  <2>1. file'.stamps = {} /\ UNCHANGED <<record, drawn>>
    BY <1>8, StepCases
  <2>2. \A q \in Requests : InProgress(q) => kind[q] \notin {"sign", "external"}
    BY <1>1, <1>4, <1>6, <1>8
  <2>3. \A q \in Requests : CalmApplying(q)'
    BY <1>1, <1>8, <2>1, <2>2, StepEffect DEF CalmApplying, InProgress, Steps
  <2> QED
    BY <1>2, <2>1, <2>2, <2>3 DEF CalmInv, StampedBy
<1>9. CASE ~(pc[r] = "upload" /\ pc'[r] = "save") /\ ~(pc[r] = "erase" /\ pc'[r] = "remove")
  <2>1. file' = file
    BY <1>9, StepCases
  <2>2. \A q \in Requests : CalmApplying(q)'
    <3>1. ASSUME NEW q \in Requests, q # r PROVE CalmApplying(q)'
      BY <1>1, <1>3, <2>1, <3>1, StepEffect DEF CalmApplying
    <3>2. pc'[r] = "upload" => file.exists /\ drawn'[r] = file.stamps \cup {r}
      BY StepCases
    <3>3. pc'[r] # "save" /\ pc'[r] # "remove"
      BY <1>9, StepCases
    <3>4. CalmApplying(r)'
      BY <2>1, <3>2, <3>3 DEF CalmApplying
    <3> QED
      BY <3>1, <3>4
  <2>3. record'.status = "DRAFT" => ~StampedBy("external")'
    <3>1. record'.status = "DRAFT" => record.status = "DRAFT"
      BY <1>3, StageSaves
    <3> QED
      BY <1>1, <1>3, <2>1, <3>1 DEF StampedBy
  <2>4. ASSUME ~record'.present
        PROVE  /\ file'.stamps = {}
               /\ \A q \in Requests : InProgress(q) => kind[q] \notin {"sign", "external"}
    <3>1. CASE pc[r] = "remove" /\ pc'[r] = "reply"
      BY <1>1, <1>3, <1>4, <1>6, <2>1, <3>1 DEF CalmApplying
    <3>2. CASE ~(pc[r] = "remove" /\ pc'[r] = "reply")
      <4>1. ~record.present
        BY <2>4, <3>2, StepCases
      <4> QED
        BY <1>2, <2>1, <4>1 DEF CalmInv
    <3> QED
      BY <3>1, <3>2
  <2> QED
    BY <2>2, <2>3, <2>4
<1> QED
  BY <1>7, <1>8, <1>9

LEMMA CalmNext == Base /\ StageInv /\ CalmInv /\ [Next]_vars => CalmInv'
<1> SUFFICES ASSUME Base, StageInv, CalmInv, [Next]_vars PROVE CalmInv'
  OBVIOUS
<1> USE DEF CalmApplying, Calm, StampedBy, InProgress
<1>1. CASE TokenExpires
  BY <1>1, ExpiryEffect DEF Base, CourseInv, CalmInv
<1>2. ASSUME NEW r \in Requests, Arrival(r) PROVE CalmInv'
  BY <1>2, CalmArrival
<1>3. ASSUME NEW r \in Requests, Step(r) PROVE CalmInv'
  BY <1>3, CalmStep
<1>4. CASE UNCHANGED vars
  BY <1>4 DEF vars, CalmInv
<1> QED
  BY <1>1, <1>2, <1>3, <1>4 DEF Next, Arrival


\* The stage and the stamps that a reader of the document sees.
Stage  == IF record.present THEN record.status ELSE "DELETED"
Stamps == {p \in {"A", "B"} : StampedBy(IF p = "A" THEN "sign" ELSE "external")}

LEMMA StampsAre ==
  /\ "A" \in Stamps <=> StampedBy("sign")
  /\ "B" \in Stamps <=> StampedBy("external")
  /\ Stamps \subseteq {"A", "B"}
  BY DEF Stamps

\* Files stamped by the same operations look the same.
LEMMA SameStamps ==
  ASSUME StampedBy("sign") <=> StampedBy("sign")', StampedBy("external") <=> StampedBy("external")'
  PROVE  Stamps' = Stamps
<1>1. \A p \in {"A", "B"} : p \in Stamps <=> p \in Stamps'
  BY DEF Stamps
<1> QED
  BY <1>1 DEF Stamps

\* An upload is the stamping of one party.
LEMMA UploadStamps ==
  ASSUME Base, StageInv, CalmInv, Calm, NEW r \in Requests, Step(r), pc[r] = "upload", pc'[r] = "save"
  PROVE  Workflow!StampA \/ Workflow!StampB
<1> USE DEF Base, CourseInv
<1>1. /\ Apart("sign", "sign") /\ InProgress(r) /\ SignStage(r) /\ ExternalStage(r) /\ CalmApplying(r)
      /\ CopyIsStamped(r) /\ OwnStamp(r) /\ UNCHANGED kind
  BY CalmApart, StepEffect DEF StageInv, CalmInv, StampInv
<1>2. file.exists /\ file'.stamps = drawn[r] /\ record' = record /\ kind[r] \in {"sign", "external"}
  BY <1>1, StepCases DEF TypeInv, Begun, FitsAt, CalmApplying
<1>3. Stage' = Stage /\ Stage = record.status
  BY <1>1, <1>2 DEF Stage, CalmInv
<1>4. CASE kind[r] = "sign"
  <2>1. record.status = "DRAFT" /\ file'.stamps = file.stamps \cup {r}
    BY <1>1, <1>2, <1>4 DEF SignStage, Applying, CalmApplying
  <2>2. StampedBy("sign")' /\ (StampedBy("external")' <=> StampedBy("external"))
    BY <1>1, <1>4, <2>1 DEF StampedBy
  <2>3. Stamps' = Stamps \cup {"A"}
    <3>1. "A" \in Stamps' /\ ("B" \in Stamps' <=> "B" \in Stamps) /\ Stamps' \subseteq {"A", "B"}
      BY <2>2 DEF Stamps
    <3> QED
      BY <3>1, StampsAre
  <2> QED
    BY <1>3, <2>1, <2>3 DEF Workflow!StampA, Stage, Stamps
<1>5. CASE kind[r] = "external"
  <2>1. record.status \in {"INVITATION_SENT", "FULLY_SIGNED"}
    BY <1>1, <1>5 DEF ExternalStage, Applying
  <2>2. StampedBy("sign") /\ StampedBy("sign")' /\ StampedBy("external")'
    BY <1>1, <1>2, <1>5, <2>1 DEF StampInv, StampedBy, CopyIsStamped, OwnStamp
  <2>3. Stamps' = Stamps \cup {"B"} /\ "A" \in Stamps
    <3>1. "A" \in Stamps' /\ "B" \in Stamps' /\ Stamps' \subseteq {"A", "B"} /\ "A" \in Stamps
      BY <2>2 DEF Stamps
    <3> QED
      BY <3>1, StampsAre
  <2> QED
    BY <1>3, <2>1, <2>3 DEF Workflow!StampB, Stage, Stamps
<1> QED
  BY <1>2, <1>4, <1>5

\* Every step of a calm behaviour is a step of the workflow, or leaves what a reader
\* sees alone.
LEMMA CalmStepRefines ==
  ASSUME Base, StageInv, CounterInv, CalmInv, Calm, NEW r \in Requests, Step(r)
  PROVE  Workflow!Next \/ (Stage' = Stage /\ Stamps' = Stamps)
<1> USE DEF Base, CourseInv
<1>1. /\ Apart("sign", "sign") /\ Apart("invite", "invite") /\ InProgress(r) /\ UNCHANGED kind
      /\ SignStage(r) /\ ExternalStage(r) /\ CalmApplying(r) /\ FileIsStamped(r)
      /\ file.exists /\ record.status # "DRAFT" => StampedBy("sign")
  BY CalmApart, StepEffect DEF StageInv, CalmInv, StampInv
<1>2. file' = file => Stamps' = Stamps
  BY <1>1, SameStamps DEF StampedBy
<1>3. CASE pc[r] = "upload" /\ pc'[r] = "save"
  BY <1>3, UploadStamps DEF Workflow!Next
<1>4. CASE pc[r] = "save" /\ kind[r] = "sign" /\ pc'[r] = "reply"
  <2>1. /\ record.present /\ record'.present /\ file' = file
        /\ record.status = "DRAFT" /\ record'.status = "SIGNED_BY_PARTY_A"
    BY <1>1, <1>4, StepCases, StageSaves
  <2>2. StampedBy("sign")
    BY <1>1, <1>4 DEF CalmApplying, FileIsStamped
  <2> QED
    BY <1>2, <2>1, <2>2, StampsAre DEF Workflow!Next, Workflow!RecordA, Stage, Stamps
<1>5. CASE pc[r] = "save" /\ kind[r] = "invite" /\ pc'[r] = "mail"
  <2>1. /\ record.present /\ record'.present /\ file' = file
        /\ \/ record'.status = record.status
           \/ record.status = "SIGNED_BY_PARTY_A" /\ record'.status = "INVITATION_SENT"
    BY <1>1, <1>5, StepCases, StageSaves
  <2> QED
    BY <1>2, <2>1 DEF Workflow!Next, Workflow!Invite, Stage, Stamps
<1>6. CASE pc[r] = "save" /\ kind[r] = "external" /\ pc'[r] = "reply"
  <2>1. /\ record.present /\ record'.present /\ file' = file
        /\ record.status \in {"INVITATION_SENT", "FULLY_SIGNED"} /\ record'.status = "FULLY_SIGNED"
    BY <1>1, <1>6, StepCases, StageSaves
  <2>2. StampedBy("sign") /\ StampedBy("external")
    BY <1>1, <1>6, <2>1 DEF CalmApplying, CounterInv
  <2> QED
    BY <1>2, <2>1, <2>2, StampsAre DEF Workflow!Next, Workflow!RecordB, Stage, Stamps
<1>7. CASE pc[r] = "erase" /\ pc'[r] = "remove"
  <2>1. record' = record /\ file'.stamps = {}
    BY <1>7, StepCases
  <2>2. Stamps' = {}
    BY <2>1 DEF Stamps, StampedBy
  <2> QED
    BY <2>1, <2>2 DEF Workflow!Next, Workflow!Erase, Stage, Stamps
<1>8. CASE pc[r] = "remove" /\ pc'[r] = "reply"
  <2>1. ~record'.present /\ file' = file /\ file.stamps = {}
    BY <1>1, <1>8, StepCases DEF CalmApplying
  <2>2. Stamps = {}
    BY <2>1 DEF Stamps, StampedBy
  <2> QED
    BY <1>2, <2>1, <2>2 DEF Workflow!Next, Workflow!Delete, Stage, Stamps
<1>9. CASE /\ ~(pc[r] = "upload" /\ pc'[r] = "save")
           /\ ~(pc[r] = "save" /\ kind[r] \in {"sign", "invite", "external"} /\ pc'[r] \in {"reply", "mail"})
           /\ ~(pc[r] = "erase" /\ pc'[r] = "remove")
           /\ ~(pc[r] = "remove" /\ pc'[r] = "reply")
  <2>1. record'.status = record.status /\ record'.present = record.present /\ file' = file
    BY <1>9, StepCases
  <2> QED
    BY <1>2, <2>1 DEF Stage
<1>10. ~(pc[r] = "save" /\ kind[r] \in {"sign", "external"} /\ pc'[r] = "mail")
       /\ ~(pc[r] = "save" /\ kind[r] = "invite" /\ pc'[r] = "reply")
  BY StepCases
<1> QED
  BY <1>3, <1>4, <1>5, <1>6, <1>7, <1>8, <1>9, <1>10

\* The requests implement the workflow a reader of the feature's documentation expects:
\* while no two operations overlap that overwrite each other's work, a document
\* moves from draft to fully signed, each claim backed by its stamp.
THEOREM CalmImplementsWorkflow == CalmSpec => ImplementsWorkflow
<1>1. Init => Workflow!Init
  <2> SUFFICES ASSUME Init PROVE Workflow!Init
    OBVIOUS
  <2>1. Stage = "DRAFT" /\ Stamps = {}
    BY DEF Init, Uploaded, Stage, Stamps, StampedBy
  <2> QED
    BY <2>1 DEF Workflow!Init, Stage, Stamps
<1>2. Init => CalmInv /\ Calm
  BY DEF Init, Uploaded, CalmInv, Calm, CalmApplying, StampedBy
<1>3. [Next /\ overlaps' \cap Conflicts = {}]_vars => [Next]_vars
  OBVIOUS
<1>4. Calm /\ [Next /\ overlaps' \cap Conflicts = {}]_vars => Calm'
  BY DEF Calm, vars, Conflicts
<1>5. Base /\ StageInv /\ CounterInv /\ CalmInv /\ Calm /\ [Next]_vars => [Workflow!Next]_(Workflow!vars)
  <2> SUFFICES ASSUME Base, StageInv, CounterInv, CalmInv, Calm, [Next]_vars
               PROVE  Workflow!Next \/ (Stage' = Stage /\ Stamps' = Stamps)
    BY DEF Workflow!vars, Stage, Stamps
  <2>1. ASSUME NEW r \in Requests, Step(r)
        PROVE  Workflow!Next \/ (Stage' = Stage /\ Stamps' = Stamps)
    BY <2>1, CalmStepRefines
  <2>2. ASSUME NEW r \in Requests, Arrival(r) PROVE Stage' = Stage /\ Stamps' = Stamps
    BY <2>2, ArrivalEffect, ArrivalStamps, SameStamps DEF Base, CourseInv, Stage
  <2>3. CASE TokenExpires
    BY <2>3, ExpiryEffect, SameStamps DEF Base, CourseInv, Stage, StampedBy
  <2>4. CASE UNCHANGED vars
    BY <2>4, SameStamps DEF vars, Stage, StampedBy
  <2> QED
    BY <2>1, <2>2, <2>3, <2>4 DEF Next, Arrival
<1>6. CalmSpec => Spec
  BY <1>3, PTL DEF CalmSpec, Spec
<1>7. Init => CounterInv
  BY DEF Init, CounterInv, Uploaded
<1> QED
  BY <1>1, <1>2, <1>3, <1>4, <1>5, <1>6, <1>7, CalmNext, CounterNext, BaseHolds, Stages, PTL
     DEF CalmSpec, ImplementsWorkflow, Workflow!Spec


=============================================================================
