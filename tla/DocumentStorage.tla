--------------------------- MODULE DocumentStorage ---------------------------
(***************************************************************************)
(* Documents from upload to deletion: the object in the bucket, the record *)
(* in MongoDB, the chunks of its text that the assistant searches, and the *)
(* copy in the user's Google Drive.                                        *)
(*                                                                         *)
(* A document is named by the request that stored it; an earlier one may   *)
(* be there at the start, or have been deleted. A request runs once,       *)
(* without interruption from one await to the next, and may end at any of  *)
(* them. What signing does to a document's status and stamps is the matter *)
(* of DocumentSigning; here it rewrites the object.                        *)
(***************************************************************************)
EXTENDS Naturals, Sequences, FiniteSets, Functions

CONSTANTS
  Requests,
  Lengths,    \* how many characters an uploaded PDF may have
  ChunkSize,  \* 1000 in the code
  Overlap,    \* 200 in the code
  TopHits,    \* how many chunks a search returns, 3 in the code
  Earlier     \* a document stored before the requests

ASSUME StorageAssumption ==
  /\ Lengths \subseteq Nat
  /\ ChunkSize \in Nat /\ Overlap \in Nat /\ Overlap < ChunkSize
  /\ TopHits \in Nat \ {0}
  /\ Earlier \notin Requests

VARIABLES
  objects,    \* documents whose file is in the bucket
  records,    \* documents whose record is in the database
  processed,  \* records with isRagProcessed
  chunks,     \* stored chunks: the document and the part of its text, from .. to - 1
  drive,      \* documents copied to Google Drive
  pc,         \* per request: the call it awaits, or how it ended
  kind,       \* per request: the operation it performs
  target,     \* per request: the document it is about
  length,     \* per uploaded PDF: the length of its text
  pending,    \* per upload: the chunks it has not stored yet
  found,      \* per search: the chunks it has read
  hits,       \* per search: the chunks it answered
  gone,       \* history, per search: the documents deleted before it began
  raced       \* history: documents signed and deleted by requests in progress together

stores == <<objects, records, processed, chunks, drive>>
locals == <<target, length, pending, found, hits, gone>>
vars   == <<stores, pc, kind, locals, raced>>

Uploads == {"upload", "generate"}
Kinds   == Uploads \cup {"download", "sync", "sign", "delete", "search"}
Steps   == {"save object", "save record", "chunk", "stream", "copy", "fetch", "overwrite",
            "save signed", "erase", "remove", "find", "populate", "reply"}

Lesser(i, j) == IF i < j THEN i ELSE j

Stride == ChunkSize - Overlap

\* The parts of a text of n characters, each beginning Overlap characters before
\* the last one ends.
ChunkText(n) ==
  [k \in 1..((n + Stride - 1) \div Stride) |->
     LET from == (k - 1) * Stride IN [from |-> from, to |-> Lesser(from + ChunkSize, n)]]

Documents == Requests \cup {Earlier}

Stored(d, parts) == {[doc |-> d, from |-> p.from, to |-> p.to] : p \in parts}

\* No earlier document, one without searchable text, or one with the whole of it;
\* still there, or deleted, which leaves its chunks.
Init ==
  /\ records \in SUBSET {Earlier}
  /\ objects = records
  /\ \E n \in Lengths :
       /\ length = [d \in Documents |-> IF d = Earlier THEN n ELSE 0]
       /\ \/ processed = {} /\ chunks = {}
          \/ processed = records /\ chunks = Stored(Earlier, Range(ChunkText(n)))
  /\ drive = {}
  /\ pc = [r \in Requests |-> "idle"]
  /\ kind = [r \in Requests |-> "none"]
  /\ target = [r \in Requests |-> Earlier]
  /\ pending = [r \in Requests |-> <<>>]
  /\ found = [r \in Requests |-> {}]
  /\ hits = [r \in Requests |-> {}]
  /\ gone = [r \in Requests |-> {}]
  /\ raced = {}

InProgress(r) == pc[r] \in Steps
Goto(r, step) == pc' = [pc EXCEPT ![r] = step]

Begin(r, k, d, step) ==
  /\ pc[r] = "idle"
  /\ Goto(r, step)
  /\ kind' = [kind EXCEPT ![r] = k]
  /\ target' = [target EXCEPT ![r] = d]
  /\ raced' = IF \E q \in Requests : /\ InProgress(q) /\ target[q] = d
                                     /\ {k, kind[q]} = {"sign", "delete"}
              THEN raced \cup {d} ELSE raced

Move(r, from, to) == pc[r] = from /\ Goto(r, to)

-----------------------------------------------------------------------------
(* uploadFile and generateDocument *)

StoreRequest(r, k) ==
  /\ k \in Uploads
  /\ Begin(r, k, r, "save object")
  /\ UNCHANGED <<stores, length, pending, found, hits, gone>>

SaveObject(r) ==
  /\ Move(r, "save object", "save record")
  /\ objects' = objects \cup {r}
  /\ UNCHANGED <<records, processed, chunks, drive, kind, locals, raced>>

\* Generated documents and files other than PDFs are not searchable.
SaveRecord(r) ==
  /\ Move(r, "save record", "reply")
  /\ records' = records \cup {r}
  /\ UNCHANGED <<objects, processed, chunks, drive, kind, locals, raced>>

\* A PDF is parsed, and its text split.
SaveRecordAndParse(r, n) ==
  /\ kind[r] = "upload"
  /\ Move(r, "save record", "chunk")
  /\ records' = records \cup {r}
  /\ length' = [length EXCEPT ![r] = n]
  /\ pending' = [pending EXCEPT ![r] = ChunkText(n)]
  /\ UNCHANGED <<objects, processed, chunks, drive, kind, target, found, hits, gone, raced>>

\* The next chunk is embedded and stored, whether or not its document still exists.
SaveChunk(r) ==
  /\ pc[r] = "chunk"
  /\ pending[r] # <<>>
  /\ LET c == Head(pending[r]) IN
     chunks' = chunks \cup Stored(r, {c})
  /\ pending' = [pending EXCEPT ![r] = Tail(@)]
  /\ UNCHANGED <<objects, records, processed, drive, pc, kind, target, length, found, hits, gone, raced>>

\* The record is saved once more, which throws if it is gone.
MarkProcessed(r) ==
  /\ pending[r] = <<>>
  /\ r \in records
  /\ Move(r, "chunk", "reply")
  /\ processed' = processed \cup {r}
  /\ UNCHANGED <<objects, records, chunks, drive, kind, locals, raced>>

\* Faulty variant: the document is marked in any case, in the finally clause.
GiveUpChunksButMark(r) ==
  /\ Move(r, "chunk", "reply")
  /\ pending' = [pending EXCEPT ![r] = <<>>]
  /\ processed' = processed \cup ({r} \cap records)
  /\ UNCHANGED <<objects, records, chunks, drive, kind, target, length, found, hits, gone, raced>>

\* Parsing, embedding, storing a chunk or marking fails: the upload succeeds anyway.
GiveUpChunks(r) ==
  /\ Move(r, "chunk", "reply")
  /\ pending' = [pending EXCEPT ![r] = <<>>]
  /\ UNCHANGED <<stores, kind, target, length, found, hits, gone, raced>>

-----------------------------------------------------------------------------
(* downloadDocument, syncToGoogleDrive, signDocument and signExternal, deleteDocument *)

DownloadRequest(r, d) ==
  /\ d \in records
  /\ Begin(r, "download", d, "stream")
  /\ UNCHANGED <<stores, length, pending, found, hits, gone>>

\* The user has connected Google Drive.
SyncRequest(r, d) ==
  /\ d \in records
  /\ Begin(r, "sync", d, "copy")
  /\ UNCHANGED <<stores, length, pending, found, hits, gone>>

\* The checks on who signs, and at what stage, are left to DocumentSigning.
SignRequest(r, d) ==
  /\ d \in records
  /\ Begin(r, "sign", d, "fetch")
  /\ UNCHANGED <<stores, length, pending, found, hits, gone>>

DeleteRequest(r, d) ==
  /\ d \in records
  /\ Begin(r, "delete", d, "erase")
  /\ UNCHANGED <<stores, length, pending, found, hits, gone>>

\* The object is read only when the answer is being sent.
Stream(r) ==
  /\ Move(r, "stream", IF target[r] \in objects THEN "ok" ELSE "broken")
  /\ UNCHANGED <<stores, kind, locals, raced>>

\* Drive reads the object as it stores the copy; without an object that throws.
CopyToDrive(r) ==
  /\ target[r] \in objects
  /\ Move(r, "copy", "reply")
  /\ drive' = drive \cup {target[r]}
  /\ UNCHANGED <<objects, records, processed, chunks, kind, locals, raced>>

\* The PDF is read, which throws without an object.
FetchObject(r) ==
  /\ target[r] \in objects
  /\ Move(r, "fetch", "overwrite")
  /\ UNCHANGED <<stores, kind, locals, raced>>

\* The stamped PDF is stored under the same key, which makes the object again if it
\* is gone.
OverwriteObject(r) ==
  /\ Move(r, "overwrite", "save signed")
  /\ objects' = objects \cup {target[r]}
  /\ UNCHANGED <<records, processed, chunks, drive, kind, locals, raced>>

\* The record is saved, which throws if it is gone.
SaveSigned(r) ==
  /\ target[r] \in records
  /\ Move(r, "save signed", "reply")
  /\ UNCHANGED <<stores, kind, locals, raced>>

\* Faulty variant: the deletion in the bucket is not awaited and fails unnoticed.
EraseObjectUnnoticed(r) ==
  /\ Move(r, "erase", "remove")
  /\ UNCHANGED <<stores, kind, locals, raced>>

EraseObject(r) ==
  /\ Move(r, "erase", "remove")
  /\ objects' = objects \ {target[r]}
  /\ UNCHANGED <<records, processed, chunks, drive, kind, locals, raced>>

\* The chunks stay.
RemoveRecord(r) ==
  /\ Move(r, "remove", "reply")
  /\ records' = records \ {target[r]}
  /\ processed' = processed \ {target[r]}
  /\ UNCHANGED <<objects, chunks, drive, kind, locals, raced>>

-----------------------------------------------------------------------------
(* The assistant's searchDocuments tool *)

Deleted(d) == \E q \in Requests : kind[q] = "delete" /\ target[q] = d /\ pc[q] = "ok"

SearchRequest(r) ==
  /\ Begin(r, "search", Earlier, "find")
  /\ gone' = [gone EXCEPT ![r] = {d \in Documents \ records : d = Earlier \/ Deleted(d)}]
  /\ UNCHANGED <<stores, length, pending, found, hits>>

FindChunks(r) ==
  /\ Move(r, "find", "populate")
  /\ found' = [found EXCEPT ![r] = chunks]
  /\ UNCHANGED <<stores, kind, target, length, pending, hits, gone, raced>>

\* Any TopHits of these chunks, or all if there are fewer, may be the most similar.
MostSimilar(cs) ==
  {top \in SUBSET cs : Cardinality(top) = Lesser(TopHits, Cardinality(cs))}

\* Faulty variant: chunks without a document are dropped after the best were chosen.
PopulateBest(r) ==
  /\ Move(r, "populate", "reply")
  /\ \E top \in MostSimilar(found[r]) :
       hits' = [hits EXCEPT ![r] = {c \in top : c.doc \in records}]
  /\ UNCHANGED <<stores, kind, target, length, pending, found, gone, raced>>

\* A second query finds the documents; chunks without one are dropped.
Populate(r) ==
  /\ Move(r, "populate", "reply")
  /\ \E top \in MostSimilar({c \in found[r] : c.doc \in records}) :
       hits' = [hits EXCEPT ![r] = top]
  /\ UNCHANGED <<stores, kind, target, length, pending, found, gone, raced>>

-----------------------------------------------------------------------------

Reply(r) ==
  /\ Move(r, "reply", "ok")
  /\ UNCHANGED <<stores, kind, locals, raced>>

\* An awaited call throws, before or after it took effect, or the process dies.
Abort(r) ==
  /\ InProgress(r)
  /\ Goto(r, "error")
  /\ pending' = [pending EXCEPT ![r] = <<>>]
  /\ UNCHANGED <<stores, kind, target, length, found, hits, gone, raced>>

Proceed(r) ==
  \/ SaveObject(r) \/ SaveRecord(r) \/ SaveChunk(r) \/ MarkProcessed(r) \/ GiveUpChunks(r)
  \/ \E n \in Lengths : SaveRecordAndParse(r, n)
  \/ Stream(r) \/ CopyToDrive(r)
  \/ FetchObject(r) \/ OverwriteObject(r) \/ SaveSigned(r)
  \/ EraseObject(r) \/ RemoveRecord(r)
  \/ FindChunks(r) \/ Populate(r)
  \/ Reply(r)

Next ==
  \E r \in Requests :
    \/ \E k \in Uploads : StoreRequest(r, k)
    \/ \E d \in Documents : \/ DownloadRequest(r, d) \/ SyncRequest(r, d)
                           \/ SignRequest(r, d) \/ DeleteRequest(r, d)
    \/ SearchRequest(r)
    \/ Proceed(r) \/ Abort(r)

Spec == Init /\ [][Next]_vars

\* A request that runs goes on; nobody is obliged to make one.
FairSpec == Spec /\ \A r \in Requests : WF_vars(Proceed(r))

-----------------------------------------------------------------------------
(* Properties *)

Part  == [from : Nat, to : Nat]
Chunk == [doc : Documents, from : Nat, to : Nat]

\* The stores and the requests' local variables have their types; no chunk reaches
\* beyond the text of its document.
TypeOK ==
  /\ objects \subseteq Documents /\ records \subseteq Documents /\ processed \subseteq records
  /\ chunks \subseteq Chunk /\ \A c \in chunks : c.to <= length[c.doc]
  /\ drive \subseteq Documents
  /\ pc \in [Requests -> Steps \cup {"idle", "ok", "broken", "error"}]
  /\ kind \in [Requests -> Kinds \cup {"none"}]
  /\ target \in [Requests -> Documents]
  /\ length \in [Documents -> Lengths \cup {0}]
  /\ pending \in [Requests -> Seq(Part)]
  /\ found \in [Requests -> SUBSET Chunk] /\ hits \in [Requests -> SUBSET Chunk]
  /\ gone \in [Requests -> SUBSET Documents]
  /\ raced \subseteq Documents

DeletionBegan(d) == \E r \in Requests : kind[r] = "delete" /\ target[r] = d

\* Who can see a document can download it: its file is in the bucket from before its
\* record until somebody begins to delete it, whatever step of the upload fails.
RecordHasObject ==
  /\ \A d \in records : d \in objects \/ DeletionBegan(d)
  /\ \A r \in Requests : pc[r] = "broken" => DeletionBegan(target[r])

\* A file that no record refers to is there only because its upload has not come to
\* an end, or to a bad one, or because a signature that was being applied while the
\* document was deleted has stored the file again: nothing else leaves a file behind.
ObjectsAreReferenced ==
  \A d \in objects \ records :
    d \in raced \/ (d # Earlier /\ (InProgress(d) \/ pc[d] = "error"))

\* Bucket and database agree, but for what a request in progress or an aborted one explains.
StoresAgree == TypeOK /\ RecordHasObject /\ ObjectsAreReferenced

\* In a document marked as processed, every passage of up to Overlap + 1 characters
\* is found in one piece: all parts are stored and no boundary cuts through it.
PassagesAreWhole ==
  \A d \in processed : \A a \in 0..length[d] :
    a + Overlap + 1 <= length[d] =>
      \E c \in chunks : c.doc = d /\ c.from <= a /\ a + Overlap + 1 <= c.to

\* A search does not show documents that were deleted before it began, although their
\* chunks remain and more may have been added since; nor do those chunks take the
\* place of others.
SearchIsCurrent ==
  \A r \in Requests : kind[r] = "search" /\ pc[r] = "ok" =>
    /\ \A c \in hits[r] : c.doc \notin gone[r]
    /\ Cardinality(hits[r]) >=
         Lesser(TopHits, Cardinality({c \in found[r] : c.doc \in records}))

\* Generated documents of a user with Drive synchronisation are backed up without
\* being asked to (README.md:38).
GeneratedIsBackedUp ==
  \A r \in Requests :
    (kind[r] = "generate" /\ pc[r] = "ok") ~> (r \in drive \/ DeletionBegan(r))
=============================================================================
