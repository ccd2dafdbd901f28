-------------------------- MODULE DocumentSigning --------------------------
(***************************************************************************)
(* The life of one stored document once it has been uploaded: the requests *)
(* of DocumentsService that sign it, invite a second party, apply that     *)
(* party's signature, share it and delete it.                              *)
(*                                                                         *)
(* Each request is a process. It runs without interruption from one await  *)
(* to the next; between two awaits any other request may run. A request    *)
(* keeps the Mongoose document it read (seen) and works with that copy.    *)
(* The PDF in the bucket is the set of requests whose stamp is drawn on    *)
(* it. A request that is refused changes nothing and is left out.          *)
(***************************************************************************)
EXTENDS FiniteSets, Naturals

CONSTANTS
  Requests,   \* HTTP requests about the document; each runs once
  Users,      \* authenticated callers
  Owner,      \* the user who uploaded the document
  Staff,      \* callers whose role is admin or moderator
  Emails,     \* addresses of invited parties
  None        \* an absent value

ASSUME SigningAssumption ==
  /\ Owner \in Users
  /\ Staff \subseteq Users
  /\ None \notin Requests
  /\ None \notin Emails

VARIABLES
  record,     \* the document in MongoDB
  file,       \* the PDF in the bucket
  pc,         \* per request: the call it awaits, or how it ended
  kind,       \* per request: the operation it performs
  seen,       \* per request: the document as it was read
  drawn,      \* per request: the stamps of the PDF it has downloaded and drawn on
  invitee,    \* per request: the address an invitation is for
  answer,     \* per request: the share token it returned
  mailed,     \* invitation mails sent
  overlaps    \* history: the sets {k, l} of operations that were in progress together

vars == <<record, file, pc, kind, seen, drawn, invitee, answer, mailed, overlaps>>

Statuses == {"DRAFT", "SIGNED_BY_PARTY_A", "INVITATION_SENT", "FULLY_SIGNED"}
Kinds    == {"sign", "invite", "external", "share", "delete"}
Steps    == {"download", "upload", "save", "mail", "erase", "remove", "reply"}

\* Tokens and signatures are named by the request that made them.
Documents == [present : BOOLEAN, pdf : BOOLEAN, status : Statuses,
              partyA : Requests \cup {None}, partyB : Requests \cup {None},
              token : Requests \cup {None}, fresh : BOOLEAN,
              invitee : Emails \cup {None}, shareToken : Requests \cup {None}]

\* A document as uploadFile or generateDocument leaves it.
Uploaded(isPdf) ==
  [present |-> TRUE, pdf |-> isPdf, status |-> "DRAFT",
   partyA |-> None, partyB |-> None, token |-> None, fresh |-> FALSE,
   invitee |-> None, shareToken |-> None]

Init ==
  /\ \E isPdf \in BOOLEAN : record = Uploaded(isPdf)
  /\ file = [exists |-> TRUE, stamps |-> {}]
  /\ pc = [r \in Requests |-> "idle"]
  /\ kind = [r \in Requests |-> "none"]
  /\ seen = [r \in Requests |-> Uploaded(FALSE)]
  /\ drawn = [r \in Requests |-> {}]
  /\ invitee = [r \in Requests |-> None]
  /\ answer = [r \in Requests |-> None]
  /\ mailed = {}
  /\ overlaps = {}

-----------------------------------------------------------------------------
(* Requests *)

InProgress(r) == pc[r] \in Steps

Goto(r, step) == pc' = [pc EXCEPT ![r] = step]

\* A request that passes its checks keeps the document it read.
Begin(r, k, step) ==
  /\ pc[r] = "idle"
  /\ Goto(r, step)
  /\ kind' = [kind EXCEPT ![r] = k]
  /\ seen' = [seen EXCEPT ![r] = record]
  /\ overlaps' = overlaps \cup {{k, kind[q]} : q \in {p \in Requests : InProgress(p)}}

\* The request ends and its local variables go with it.
End(r, outcome) ==
  /\ Goto(r, outcome)
  /\ seen' = [seen EXCEPT ![r] = Uploaded(FALSE)]
  /\ drawn' = [drawn EXCEPT ![r] = {}]
  /\ invitee' = [invitee EXCEPT ![r] = None]

MayAct(u) == u = Owner \/ u \in Staff

\* What document.save() stores for a path: Mongoose sends only the paths whose
\* value differs from the one that was read, the others keep what is stored.
Stored(r, path, value) == IF value = seen[r][path] THEN record[path] ELSE value

-----------------------------------------------------------------------------
(* signDocument: Party A *)

\* Faulty variant: any document that is not fully signed can be signed.
SignableAtAnyStage == record.present /\ record.pdf /\ record.status # "FULLY_SIGNED"

Signable == record.present /\ record.pdf /\ record.status = "DRAFT"

SignRequest(r, u) ==
  /\ MayAct(u)
  /\ Signable
  /\ Begin(r, "sign", "download")
  /\ UNCHANGED <<record, file, drawn, invitee, answer, mailed>>

\* Faulty variant: the stamp is drawn on a blank copy.
DownloadBlank(r) ==
  /\ pc[r] = "download"
  /\ file.exists
  /\ drawn' = [drawn EXCEPT ![r] = {r}]
  /\ Goto(r, "upload")
  /\ UNCHANGED <<record, file, kind, seen, invitee, answer, mailed, overlaps>>

\* The PDF is downloaded and the request's stamp is drawn on the copy.
Download(r) ==
  /\ pc[r] = "download"
  /\ file.exists
  /\ drawn' = [drawn EXCEPT ![r] = file.stamps \cup {r}]
  /\ Goto(r, "upload")
  /\ UNCHANGED <<record, file, kind, seen, invitee, answer, mailed, overlaps>>

\* Faulty variant: a failed upload goes unnoticed.
UploadUnnoticed(r) ==
  /\ pc[r] = "upload"
  /\ Goto(r, "save")
  /\ UNCHANGED <<record, file, kind, seen, drawn, invitee, answer, mailed, overlaps>>

\* The copy replaces the object in the bucket, or makes it anew.
Upload(r) ==
  /\ pc[r] = "upload"
  /\ file' = [exists |-> TRUE, stamps |-> drawn[r]]
  /\ Goto(r, "save")
  /\ UNCHANGED <<record, kind, seen, drawn, invitee, answer, mailed, overlaps>>

\* Faulty variant: a status the schema's enum does not have.
SaveSignedUnknownStatus(r) ==
  /\ pc[r] = "save"
  /\ kind[r] = "sign"
  /\ record.present
  /\ record' = [record EXCEPT !.status = "SIGNED", !.partyA = Stored(r, "partyA", r)]
  /\ Goto(r, "reply")
  /\ UNCHANGED <<file, kind, seen, drawn, invitee, answer, mailed, overlaps>>

\* save() of a document that is gone throws, see Abort.
SaveSigned(r) ==
  /\ pc[r] = "save"
  /\ kind[r] = "sign"
  /\ record.present
  /\ record' = [record EXCEPT !.status = Stored(r, "status", "SIGNED_BY_PARTY_A"),
                              !.partyA = Stored(r, "partyA", r)]
  /\ Goto(r, "reply")
  /\ UNCHANGED <<file, kind, seen, drawn, invitee, answer, mailed, overlaps>>

-----------------------------------------------------------------------------
(* inviteToSign *)

\* Faulty variant: every signed document can be sent to another party.
InvitableOnceSigned == record.present /\ record.status # "DRAFT"

Invitable == record.present /\ record.status \in {"SIGNED_BY_PARTY_A", "INVITATION_SENT"}

InviteRequest(r, u, e) ==
  /\ MayAct(u)
  /\ Invitable
  /\ Begin(r, "invite", "save")
  /\ invitee' = [invitee EXCEPT ![r] = e]
  /\ UNCHANGED <<record, file, drawn, answer, mailed>>

\* Faulty variant: inviting again keeps the first address.
SaveInvitationFirstAddress(r) ==
  /\ pc[r] = "save"
  /\ kind[r] = "invite"
  /\ record.present
  /\ record' = [record EXCEPT !.status = Stored(r, "status", "INVITATION_SENT"),
                              !.invitee = IF @ = None THEN invitee[r] ELSE @,
                              !.token = r,
                              !.fresh = TRUE]
  /\ Goto(r, "mail")
  /\ UNCHANGED <<file, kind, seen, drawn, invitee, answer, mailed, overlaps>>

SaveInvitation(r) ==
  /\ pc[r] = "save"
  /\ kind[r] = "invite"
  /\ record.present
  /\ record' = [record EXCEPT !.status = Stored(r, "status", "INVITATION_SENT"),
                              !.invitee = Stored(r, "invitee", invitee[r]),
                              !.token = r,
                              !.fresh = TRUE]
  /\ Goto(r, "mail")
  /\ UNCHANGED <<file, kind, seen, drawn, invitee, answer, mailed, overlaps>>

SendInvitation(r) ==
  /\ pc[r] = "mail"
  /\ mailed' = mailed \cup {[to |-> invitee[r], token |-> r]}
  /\ Goto(r, "reply")
  /\ UNCHANGED <<record, file, kind, seen, drawn, invitee, answer, overlaps>>

\* Seven days pass.
TokenExpires ==
  /\ record.fresh
  /\ record' = [record EXCEPT !.fresh = FALSE]
  /\ UNCHANGED <<file, pc, kind, seen, drawn, invitee, answer, mailed, overlaps>>

-----------------------------------------------------------------------------
(* signExternal: Party B, who holds a link that was mailed *)

Countersignable(t) ==
  /\ record.present
  /\ record.token = t
  /\ record.fresh
  /\ record.status = "INVITATION_SENT"

ExternalRequest(r, t) ==
  /\ Countersignable(t)
  /\ Begin(r, "external", "download")
  /\ UNCHANGED <<record, file, drawn, invitee, answer, mailed>>

\* Faulty variant: the token stays.
SaveCountersignedKeepsToken(r) ==
  /\ pc[r] = "save"
  /\ kind[r] = "external"
  /\ record.present
  /\ record' = [record EXCEPT !.status = Stored(r, "status", "FULLY_SIGNED"),
                              !.partyB = Stored(r, "partyB", r)]
  /\ Goto(r, "reply")
  /\ UNCHANGED <<file, kind, seen, drawn, invitee, answer, mailed, overlaps>>

SaveCountersigned(r) ==
  /\ pc[r] = "save"
  /\ kind[r] = "external"
  /\ record.present
  /\ record' = [record EXCEPT !.status = Stored(r, "status", "FULLY_SIGNED"),
                              !.partyB = Stored(r, "partyB", r),
                              !.token = Stored(r, "token", None),
                              !.fresh = FALSE]
  /\ Goto(r, "reply")
  /\ UNCHANGED <<file, kind, seen, drawn, invitee, answer, mailed, overlaps>>

-----------------------------------------------------------------------------
(* generateShareToken *)

\* A token that exists is returned as it is.
ShareExisting(r, u) ==
  /\ MayAct(u)
  /\ record.present
  /\ record.shareToken # None
  /\ pc[r] = "idle"
  /\ Goto(r, "ok")
  /\ kind' = [kind EXCEPT ![r] = "share"]
  /\ answer' = [answer EXCEPT ![r] = record.shareToken]
  /\ UNCHANGED <<record, file, seen, drawn, invitee, mailed, overlaps>>

\* Faulty variant: a new token for every request.
ShareRequestAnew(r, u) ==
  /\ MayAct(u)
  /\ record.present
  /\ Begin(r, "share", "save")
  /\ UNCHANGED <<record, file, drawn, invitee, answer, mailed>>

ShareRequest(r, u) ==
  /\ MayAct(u)
  /\ record.present
  /\ record.shareToken = None
  /\ Begin(r, "share", "save")
  /\ UNCHANGED <<record, file, drawn, invitee, answer, mailed>>

SaveShared(r) ==
  /\ pc[r] = "save"
  /\ kind[r] = "share"
  /\ record.present
  /\ record' = [record EXCEPT !.shareToken = r]
  /\ answer' = [answer EXCEPT ![r] = r]
  /\ Goto(r, "reply")
  /\ UNCHANGED <<file, kind, seen, drawn, invitee, mailed, overlaps>>

-----------------------------------------------------------------------------
(* deleteDocument *)

DeleteRequest(r, u) ==
  /\ MayAct(u)
  /\ record.present
  /\ Begin(r, "delete", "erase")
  /\ UNCHANGED <<record, file, drawn, invitee, answer, mailed>>

\* Faulty variant: a failed deletion in the bucket goes unnoticed.
EraseFileUnnoticed(r) ==
  /\ pc[r] = "erase"
  /\ Goto(r, "remove")
  /\ UNCHANGED <<record, file, kind, seen, drawn, invitee, answer, mailed, overlaps>>

EraseFile(r) ==
  /\ pc[r] = "erase"
  /\ file' = [exists |-> FALSE, stamps |-> {}]
  /\ Goto(r, "remove")
  /\ UNCHANGED <<record, kind, seen, drawn, invitee, answer, mailed, overlaps>>

RemoveRecord(r) ==
  /\ pc[r] = "remove"
  /\ record' = [record EXCEPT !.present = FALSE, !.fresh = FALSE]
  /\ Goto(r, "reply")
  /\ UNCHANGED <<file, kind, seen, drawn, invitee, answer, mailed, overlaps>>

-----------------------------------------------------------------------------
(* How a request ends *)

\* Auditing, the local event and the notice to the uploader change nothing here.
Reply(r) ==
  /\ pc[r] = "reply"
  /\ End(r, "ok")
  /\ UNCHANGED <<record, file, kind, answer, mailed, overlaps>>

\* Any awaited call may throw, before or after it took effect, and the process
\* may die: the request stops where it is and nothing it did is undone.
Abort(r) ==
  /\ InProgress(r)
  /\ End(r, "error")
  /\ UNCHANGED <<record, file, kind, answer, mailed, overlaps>>

Step(r) ==
  \/ Download(r) \/ Upload(r)
  \/ SaveSigned(r) \/ SaveInvitation(r) \/ SendInvitation(r)
  \/ SaveCountersigned(r) \/ SaveShared(r)
  \/ EraseFile(r) \/ RemoveRecord(r)
  \/ Reply(r) \/ Abort(r)

Next ==
  \/ TokenExpires
  \/ \E r \in Requests :
       \/ Step(r)
       \/ \E u \in Users : \/ SignRequest(r, u)
                           \/ ShareExisting(r, u)
                           \/ ShareRequest(r, u)
                           \/ DeleteRequest(r, u)
                           \/ \E e \in Emails : InviteRequest(r, u, e)
       \/ \E m \in mailed : ExternalRequest(r, m.token)

Spec == Init /\ [][Next]_vars

-----------------------------------------------------------------------------
(* Properties *)

\* Every variable has its type: the shape of the record, the file and the
\* requests' local state that DocumentsService works with.
TypeOK ==
  /\ record \in Documents
  /\ file \in [exists : BOOLEAN, stamps : SUBSET Requests]
  /\ pc \in [Requests -> Steps \cup {"idle", "ok", "error"}]
  /\ kind \in [Requests -> Kinds \cup {"none"}]
  /\ seen \in [Requests -> Documents]
  /\ drawn \in [Requests -> SUBSET Requests]
  /\ invitee \in [Requests -> Emails \cup {None}]
  /\ answer \in [Requests -> Requests \cup {None}]
  /\ mailed \subseteq [to : Emails, token : Requests]
  /\ overlaps \subseteq SUBSET Kinds

\* No request of kind k was ever in progress together with one of kind l.
Apart(k, l) == {k, l} \notin overlaps

StampedBy(k) == \E r \in file.stamps : kind[r] = k

\* However requests interleave and fail, a document that claims to be signed by
\* Party A has Party A's stamp on its PDF: the upload comes before the save,
\* and Party B draws on a PDF downloaded after that save.
SignedMeansStamped ==
  record.present /\ file.exists /\ record.status # "DRAFT" => StampedBy("sign")

\* A fully signed document's PDF carries Party B's stamp as well, unless two
\* Party A requests overlapped: the slower of them uploads a copy it
\* downloaded before Party B signed.
FullySignedMeansCountersigned ==
  record.present /\ file.exists /\ record.status = "FULLY_SIGNED" /\ Apart("sign", "sign")
    => StampedBy("external")

\* A signature that was answered with success stays: its stamp is on the PDF and
\* its name in the record, whatever fails or is requested later. Two requests of
\* the same party that overlap overwrite each other, in the file and in the record;
\* and of two invitations that overlap, the later save can reopen a fully signed
\* document for a second counter-signature.
AcknowledgedSignatureIsKept ==
  \A r \in Requests :
    pc[r] = "ok" /\ record.present /\ file.exists /\ Apart("sign", "sign") =>
      /\ kind[r] = "sign" => r \in file.stamps /\ record.partyA = r
      /\ kind[r] = "external" /\ Apart("external", "external") /\ Apart("invite", "invite")
           => r \in file.stamps /\ record.partyB = r

Rank == [s \in Statuses |-> CASE s = "DRAFT" -> 0
                              [] s = "SIGNED_BY_PARTY_A" -> 1
                              [] s = "INVITATION_SENT" -> 2
                              [] s = "FULLY_SIGNED" -> 3]

\* The status only moves forward. It falls back only when a save writes the
\* status of a stale copy, which takes two signDocument requests, or two
\* inviteToSign requests, that overlap.
StatusNeverFallsBack ==
  [][Apart("sign", "sign")' /\ Apart("invite", "invite")'
       => Rank[record'.status] >= Rank[record.status]]_vars

\* The address in the record is that of the mail whose link the record accepts.
\* Overlapping invitations break it: the address is saved only if it differs
\* from the one read, the token always.
InviteeHoldsTheLink ==
  Apart("invite", "invite")
    => \A m \in mailed : m.token = record.token => m.to = record.invitee

\* A fully signed document accepts no link any more, unless an invitation was in
\* progress while Party B signed: its late save restores a token.
SignedDocumentHasNoLink ==
  record.status = "FULLY_SIGNED" /\ Apart("invite", "external")
    => record.token = None

\* A share link that was handed out opens the document until it is deleted,
\* unless two requests made the first token at the same time.
ShareLinkWorks ==
  \A r \in Requests :
    pc[r] = "ok" /\ kind[r] = "share" /\ Apart("share", "share")
      => answer[r] = record.shareToken

\* Deleting leaves no PDF behind, unless a signature was being applied
\* meanwhile: its upload makes the object anew.
DeletedMeansErased ==
  ~record.present /\ Apart("sign", "delete") /\ Apart("external", "delete") => ~file.exists

\* What the message "Document cannot be signed by Party A at this stage." and the
\* test of a second signing say: once one signDocument request has succeeded,
\* no other does.
SignedOnce ==
  \A q, r \in Requests :
    pc[q] = "ok" /\ pc[r] = "ok" /\ kind[q] = "sign" /\ kind[r] = "sign" => q = r

-----------------------------------------------------------------------------
(* Refinement *)

\* The behaviours in which no two of the operations overlap that overwrite each
\* other's work. External signatures, shares and invitations may overlap
\* with anything else.
Conflicts == {{"sign"}, {"invite"}, {"sign", "delete"}, {"external", "delete"}}

CalmSpec == Init /\ [][Next /\ overlaps' \cap Conflicts = {}]_vars

Workflow == INSTANCE SigningWorkflow WITH
  stage  <- IF record.present THEN record.status ELSE "DELETED",
  stamps <- {p \in {"A", "B"} : StampedBy(IF p = "A" THEN "sign" ELSE "external")}

\* Then the requests implement the promised workflow, step by step.
ImplementsWorkflow == Workflow!Spec

=============================================================================
