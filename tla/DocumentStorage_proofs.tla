------------------------ MODULE DocumentStorage_proofs ------------------------
(***************************************************************************)
(* Theorems about DocumentStorage for any requests, lengths of text,       *)
(* chunk sizes and overlaps.                                               *)
(***************************************************************************)
EXTENDS DocumentStorage, FiniteSetTheorems, TLAPS

-----------------------------------------------------------------------------
(* chunkText *)

LEMMA StrideType == Stride \in Nat \ {0} /\ ChunkSize = Stride + Overlap
  BY StorageAssumption DEF Stride

LEMMA PartCount ==
  ASSUME NEW n \in Nat
  PROVE  (n + Stride - 1) \div Stride \in Nat
  BY StrideType

\* Each part lies in the text.
LEMMA ChunkTextType ==
  ASSUME NEW n \in Nat
  PROVE  /\ ChunkText(n) \in Seq(Part)
         /\ \A p \in Range(ChunkText(n)) : p \in Part /\ p.to <= n
<1> DEFINE count == (n + Stride - 1) \div Stride
           from(k) == (k - 1) * Stride
           part(k) == [from |-> from(k), to |-> Lesser(from(k) + ChunkSize, n)]
<1>1. count \in Nat
  BY PartCount
<1>2. ASSUME NEW k \in 1..count PROVE part(k) \in Part /\ part(k).to <= n
  <2>1. from(k) \in Nat
    BY <1>1, StrideType
  <2> HIDE DEF from
  <2> QED
    BY <2>1, StorageAssumption DEF Part, Lesser
<1>3. ChunkText(n) = [k \in 1..count |-> part(k)]
  BY DEF ChunkText
<1> HIDE DEF count, part
<1>4. ChunkText(n) \in [1..count -> Part]
  BY <1>2, <1>3
<1> QED
  BY <1>1, <1>2, <1>3, <1>4 DEF Range

\* No boundary cuts through a passage of up to Overlap + 1 characters.
LEMMA Coverage ==
  ASSUME NEW n \in Nat, NEW a \in Nat, a + Overlap + 1 <= n
  PROVE  \E p \in Range(ChunkText(n)) : p.from <= a /\ a + Overlap + 1 <= p.to
<1> DEFINE count == (n + Stride - 1) \div Stride
           k == (a \div Stride) + 1
<1>1. /\ a \div Stride \in Nat
      /\ (a \div Stride) * Stride <= a /\ a < (a \div Stride) * Stride + Stride
  BY StrideType
<1>2. count \in Nat /\ n <= count * Stride
  BY StrideType
<1>3. k \in 1..count
  <2>1. (a \div Stride) * Stride < count * Stride
    BY <1>1, <1>2, StorageAssumption, StrideType
  <2>2. a \div Stride < count
    BY <1>1, <1>2, <2>1, StrideType
  <2> QED
    BY <1>1, <1>2, <2>2
<1>4. ChunkText(n)[k] = [from |-> (k - 1) * Stride, to |-> Lesser((k - 1) * Stride + ChunkSize, n)]
  BY <1>3 DEF ChunkText
<1>5. k \in DOMAIN ChunkText(n)
  BY <1>3 DEF ChunkText
<1>6. (k - 1) * Stride = (a \div Stride) * Stride
  BY <1>1
<1>7. ChunkText(n)[k].from <= a /\ a + Overlap + 1 <= ChunkText(n)[k].to
  <2> DEFINE f == (k - 1) * Stride
  <2>1. f \in Nat /\ f <= a /\ a < f + Stride
    BY <1>1, <1>6, StrideType
  <2> HIDE DEF f
  <2> QED
    BY <1>4, <2>1, StrideType, StorageAssumption DEF Lesser, f
<1> QED
  BY <1>5, <1>7 DEF Range

LEMMA StoredFinite ==
  ASSUME NEW d, NEW s \in Seq(Part)
  PROVE  IsFiniteSet(Stored(d, Range(s)))
<1> DEFINE f == [k \in 1..Len(s) |-> [doc |-> d, from |-> s[k].from, to |-> s[k].to]]
<1>0. Len(s) \in Nat /\ DOMAIN s = 1..Len(s) /\ Range(s) = {s[k] : k \in 1..Len(s)}
  BY DEF Range
<1>1. f \in Surjection(1..Len(s), Stored(d, Range(s)))
  <2>1. \A k \in 1..Len(s) : f[k] \in Stored(d, Range(s))
    BY <1>0 DEF Stored
  <2>2. ASSUME NEW c \in Stored(d, Range(s)) PROVE \E k \in 1..Len(s) : f[k] = c
    <3>1. PICK p \in Range(s) : c = [doc |-> d, from |-> p.from, to |-> p.to]
      BY DEF Stored
    <3> QED
      BY <1>0, <3>1
  <2> QED
    BY <2>1, <2>2 DEF Surjection
<1>2. IsFiniteSet(1..Len(s))
  BY FS_Interval
<1> QED
  BY <1>1, <1>2, FS_Surjection

LEMMA HeadAndTail ==
  ASSUME NEW s \in Seq(Part), s # <<>>
  PROVE  /\ Head(s) \in Part /\ Tail(s) \in Seq(Part)
         /\ Range(s) = {Head(s)} \cup Range(Tail(s))
<1>1. Head(s) \in Part /\ Tail(s) \in Seq(Part) /\ Len(s) \in Nat \ {0} /\ Head(s) = s[1]
  OBVIOUS
<1>2. \A i \in 1..Len(Tail(s)) : Tail(s)[i] = s[i + 1]
  OBVIOUS
<1>3. \A i \in 1..Len(s) : i = 1 \/ (i - 1 \in 1..Len(Tail(s)) /\ Tail(s)[i - 1] = s[i])
  OBVIOUS
<1>4. \A i \in 1..Len(Tail(s)) : i + 1 \in 1..Len(s)
  OBVIOUS
<1>5. DOMAIN s = 1..Len(s) /\ DOMAIN Tail(s) = 1..Len(Tail(s))
  OBVIOUS
<1>6. ASSUME NEW x PROVE x \in Range(s) <=> x = Head(s) \/ x \in Range(Tail(s))
  <2>1. x \in Range(s) <=> \E i \in 1..Len(s) : s[i] = x
    BY <1>5 DEF Range
  <2>2. x \in Range(Tail(s)) <=> \E i \in 1..Len(Tail(s)) : Tail(s)[i] = x
    BY <1>5 DEF Range
  <2>3. x \in Range(s) => x = Head(s) \/ x \in Range(Tail(s))
    BY <1>1, <1>3, <2>1, <2>2
  <2>4. x = Head(s) => x \in Range(s)
    BY <1>1, <2>1
  <2>5. x \in Range(Tail(s)) => x \in Range(s)
    BY <1>2, <1>4, <2>1, <2>2
  <2> QED
    BY <2>3, <2>4, <2>5
<1> QED
  BY <1>1, <1>6

LEMMA MembersOfStored ==
  ASSUME NEW d, NEW parts \in SUBSET Part, NEW c
  PROVE  /\ c \in Stored(d, parts) <=> \E p \in parts : c = [doc |-> d, from |-> p.from, to |-> p.to]
         /\ c \in Stored(d, parts) => c.doc = d
         /\ c \in Stored(d, parts) /\ d \in Documents => c \in Chunk
  BY DEF Stored, Part, Chunk

-----------------------------------------------------------------------------
(* What a step does *)

Stages == Steps \cup {"idle", "ok", "broken", "error"}

RequestsType ==
  /\ pc \in [Requests -> Stages]
  /\ kind \in [Requests -> Kinds \cup {"none"}]
  /\ target \in [Requests -> Documents]
  /\ length \in [Documents -> Lengths \cup {0}]
  /\ pending \in [Requests -> Seq(Part)]
  /\ found \in [Requests -> SUBSET Chunk]
  /\ hits \in [Requests -> SUBSET Chunk]
  /\ gone \in [Requests -> SUBSET Documents]
  /\ raced \subseteq Documents

\* Nothing will store the record of the document any more.
Settled(d) == d = Earlier \/ (kind[d] \in Uploads /\ pc[d] \in {"chunk", "reply", "ok", "error"})

\* The operation a step belongs to; what it has to store, and which document it is about.
Fits(r) ==
  /\ pc[r] = "idle" <=> kind[r] = "none"
  /\ pc[r] \in {"save object", "save record"} => kind[r] \in Uploads
  /\ pc[r] = "chunk" => kind[r] = "upload" /\ \A p \in Range(pending[r]) : p.to <= length[r]
  /\ pc[r] \in {"stream", "broken"} => kind[r] = "download"
  /\ pc[r] = "copy" => kind[r] = "sync"
  /\ pc[r] \in {"fetch", "overwrite", "save signed"} => kind[r] = "sign"
  /\ pc[r] \in {"erase", "remove"} => kind[r] = "delete"
  /\ pc[r] \in {"find", "populate"} => kind[r] = "search"
  /\ kind[r] \in {"download", "sync", "sign", "delete"} => Settled(target[r])

CourseInv ==
  /\ TypeOK
  /\ \A r \in Requests : Fits(r)
  /\ \A d \in records : Settled(d)
  /\ \A c \in chunks : Settled(c.doc)
  /\ \A r \in Requests : IsFiniteSet(found[r]) /\ \A c \in found[r] : Settled(c.doc)
  /\ IsFiniteSet(chunks)

LEMMA Typed == TypeOK => RequestsType
  BY DEF TypeOK, RequestsType, Stages

Same(q) ==
  pc'[q] = pc[q] /\ kind'[q] = kind[q] /\ target'[q] = target[q] /\ pending'[q] = pending[q]
    /\ found'[q] = found[q] /\ hits'[q] = hits[q] /\ gone'[q] = gone[q]

Others(r) ==
  /\ \A q \in Requests \ {r} : Same(q)
  /\ \A d \in Documents \ {r} : length'[d] = length[d]
  /\ raced \subseteq raced'

\* A request goes from a step to the next one and keeps what it has.
Goes(r, from, to) ==
  /\ pc[r] = from /\ pc'[r] = to /\ kind'[r] = kind[r] /\ target'[r] = target[r] /\ length'[r] = length[r]
  /\ gone'[r] = gone[r]

Keeps(r) == pending'[r] = pending[r] /\ found'[r] = found[r] /\ hits'[r] = hits[r]

LEMMA GotoEffect ==
  ASSUME RequestsType, NEW r \in Requests, NEW step \in Stages, Goto(r, step), UNCHANGED <<kind, locals, raced>>
  PROVE  RequestsType' /\ Others(r) /\ Goes(r, pc[r], step) /\ Keeps(r)
<1>1. pc' = [pc EXCEPT ![r] = step] /\ UNCHANGED <<target, length, pending, found, hits, gone>>
  BY DEF Goto, locals
<1>2. r \in Documents
  BY DEF Documents
<1> QED
  BY <1>1, <1>2 DEF RequestsType, Others, Same, Goes, Keeps

LEMMA PendingEffect ==
  ASSUME RequestsType, NEW r \in Requests, NEW step \in Stages, Goto(r, step), NEW s \in Seq(Part),
         pending' = [pending EXCEPT ![r] = s], UNCHANGED <<kind, target, length, found, hits, gone, raced>>
  PROVE  /\ RequestsType' /\ Others(r) /\ Goes(r, pc[r], step)
         /\ pending'[r] = s /\ found'[r] = found[r] /\ hits'[r] = hits[r]
<1>1. pc' = [pc EXCEPT ![r] = step]
  BY DEF Goto
<1> QED
  BY <1>1 DEF RequestsType, Others, Same, Goes

\* How a request goes on, and what it does to the stores.
Passes(r) ==
  \/ /\ Goes(r, "save object", "save record") /\ Keeps(r)
     /\ objects' = objects \cup {r} /\ UNCHANGED <<records, processed, chunks, drive>>
  \/ /\ Goes(r, "save record", "reply") /\ Keeps(r)
     /\ records' = records \cup {r} /\ UNCHANGED <<objects, processed, chunks, drive>>
  \/ /\ pc[r] = "save record" /\ pc'[r] = "chunk" /\ kind[r] = "upload"
     /\ length'[r] \in Lengths /\ pending'[r] = ChunkText(length'[r])
     /\ kind'[r] = kind[r] /\ target'[r] = target[r] /\ found'[r] = found[r] /\ hits'[r] = hits[r] /\ gone'[r] = gone[r]
     /\ records' = records \cup {r} /\ UNCHANGED <<objects, processed, chunks, drive>>
  \/ /\ Goes(r, "chunk", "chunk") /\ pending[r] # <<>> /\ pending'[r] = Tail(pending[r])
     /\ found'[r] = found[r] /\ hits'[r] = hits[r]
     /\ chunks' = chunks \cup Stored(r, {Head(pending[r])}) /\ UNCHANGED <<objects, records, processed, drive>>
  \/ /\ Goes(r, "chunk", "reply") /\ Keeps(r) /\ pending[r] = <<>> /\ r \in records
     /\ processed' = processed \cup {r} /\ UNCHANGED <<objects, records, chunks, drive>>
  \/ /\ Goes(r, "chunk", "reply") /\ pending'[r] = <<>> /\ found'[r] = found[r] /\ hits'[r] = hits[r]
     /\ UNCHANGED stores
  \/ Goes(r, "stream", "ok") /\ Keeps(r) /\ UNCHANGED stores
  \/ Goes(r, "stream", "broken") /\ Keeps(r) /\ target[r] \notin objects /\ UNCHANGED stores
  \/ /\ Goes(r, "copy", "reply") /\ Keeps(r)
     /\ drive' = drive \cup {target[r]} /\ UNCHANGED <<objects, records, processed, chunks>>
  \/ Goes(r, "fetch", "overwrite") /\ Keeps(r) /\ UNCHANGED stores
  \/ /\ Goes(r, "overwrite", "save signed") /\ Keeps(r)
     /\ objects' = objects \cup {target[r]} /\ UNCHANGED <<records, processed, chunks, drive>>
  \/ Goes(r, "save signed", "reply") /\ Keeps(r) /\ UNCHANGED stores
  \/ /\ Goes(r, "erase", "remove") /\ Keeps(r)
     /\ objects' = objects \ {target[r]} /\ UNCHANGED <<records, processed, chunks, drive>>
  \/ /\ Goes(r, "remove", "reply") /\ Keeps(r)
     /\ records' = records \ {target[r]} /\ processed' = processed \ {target[r]} /\ UNCHANGED <<objects, chunks, drive>>
  \/ /\ Goes(r, "find", "populate") /\ found'[r] = chunks /\ pending'[r] = pending[r] /\ hits'[r] = hits[r]
     /\ UNCHANGED stores
  \/ /\ Goes(r, "populate", "reply") /\ pending'[r] = pending[r] /\ found'[r] = found[r]
     /\ hits'[r] \in MostSimilar({c \in found[r] : c.doc \in records}) /\ UNCHANGED stores
  \/ Goes(r, "reply", "ok") /\ Keeps(r) /\ UNCHANGED stores
  \/ /\ pc[r] \in Steps /\ Goes(r, pc[r], "error") /\ pending'[r] = <<>> /\ found'[r] = found[r] /\ hits'[r] = hits[r]
     /\ UNCHANGED stores

Step(r) == Proceed(r) \/ Abort(r)

LEMMA StepEffect ==
  ASSUME CourseInv, NEW r \in Requests, Step(r)
  PROVE  RequestsType' /\ Others(r) /\ Passes(r)
<1>0. RequestsType /\ chunks \subseteq Chunk /\ r \in Documents
  BY Typed DEF CourseInv, TypeOK, Documents
<1>1. CASE SaveObject(r)
  BY <1>0, <1>1, GotoEffect DEF SaveObject, Move, Stages, Steps, Passes
<1>2. CASE SaveRecord(r)
  BY <1>0, <1>2, GotoEffect DEF SaveRecord, Move, Stages, Steps, Passes
<1>3. ASSUME NEW n \in Lengths, SaveRecordAndParse(r, n) PROVE RequestsType' /\ Others(r) /\ Passes(r)
  <2>1. /\ pc' = [pc EXCEPT ![r] = "chunk"] /\ length' = [length EXCEPT ![r] = n]
        /\ pending' = [pending EXCEPT ![r] = ChunkText(n)] /\ pc[r] = "save record" /\ kind[r] = "upload"
        /\ UNCHANGED <<objects, processed, chunks, drive, kind, target, found, hits, gone, raced>> /\ records' = records \cup {r}
    BY <1>3 DEF SaveRecordAndParse, Move, Goto
  <2>2. ChunkText(n) \in Seq(Part)
    BY ChunkTextType, StorageAssumption
  <2>3. RequestsType' /\ Others(r)
    BY <1>0, <2>1, <2>2 DEF RequestsType, Others, Same, Stages, Steps
  <2>4. pc'[r] = "chunk" /\ length'[r] = n /\ pending'[r] = ChunkText(n)
    BY <1>0, <2>1 DEF RequestsType
  <2> QED
    BY <2>1, <2>3, <2>4 DEF Passes
<1>4. CASE SaveChunk(r)
  <2>1. /\ pending' = [pending EXCEPT ![r] = Tail(pending[r])] /\ pc[r] = "chunk" /\ pending[r] # <<>>
        /\ chunks' = chunks \cup Stored(r, {Head(pending[r])})
        /\ UNCHANGED <<objects, records, processed, drive, pc, kind, target, length, found, hits, gone, raced>>
    BY <1>4 DEF SaveChunk
  <2>2. Tail(pending[r]) \in Seq(Part)
    BY <1>0, <2>1, HeadAndTail DEF RequestsType
  <2>3. RequestsType' /\ Others(r) /\ Goes(r, "chunk", "chunk") /\ pending'[r] = Tail(pending[r])
    BY <1>0, <2>1, <2>2 DEF RequestsType, Others, Same, Goes
  <2> QED
    BY <2>1, <2>3 DEF Passes
<1>5. CASE MarkProcessed(r)
  BY <1>0, <1>5, GotoEffect DEF MarkProcessed, Move, Stages, Steps, Passes
<1>6. CASE GiveUpChunks(r)
  <2>1. pc[r] = "chunk" /\ Goto(r, "reply") /\ <<>> \in Seq(Part) /\ "reply" \in Stages
    BY <1>6 DEF GiveUpChunks, Move, Stages, Steps
  <2> QED
    BY <1>0, <1>6, <2>1, PendingEffect DEF GiveUpChunks, Passes
<1>7. CASE Stream(r)
  BY <1>0, <1>7, GotoEffect DEF Stream, Move, Stages, Steps, Passes
<1>8. CASE CopyToDrive(r)
  BY <1>0, <1>8, GotoEffect DEF CopyToDrive, Move, Stages, Steps, Passes
<1>15. CASE FetchObject(r)
  BY <1>0, <1>15, GotoEffect DEF FetchObject, Move, Stages, Steps, Passes
<1>16. CASE OverwriteObject(r)
  BY <1>0, <1>16, GotoEffect DEF OverwriteObject, Move, Stages, Steps, Passes
<1>17. CASE SaveSigned(r)
  BY <1>0, <1>17, GotoEffect DEF SaveSigned, Move, Stages, Steps, Passes
<1>9. CASE EraseObject(r)
  BY <1>0, <1>9, GotoEffect DEF EraseObject, Move, Stages, Steps, Passes
<1>10. CASE RemoveRecord(r)
  BY <1>0, <1>10, GotoEffect DEF RemoveRecord, Move, Stages, Steps, Passes
<1>11. CASE FindChunks(r)
  <2>1. /\ pc' = [pc EXCEPT ![r] = "populate"] /\ found' = [found EXCEPT ![r] = chunks] /\ pc[r] = "find"
        /\ UNCHANGED <<stores, kind, target, length, pending, hits, gone, raced>>
    BY <1>11 DEF FindChunks, Move, Goto
  <2>2. RequestsType' /\ Others(r) /\ Goes(r, "find", "populate") /\ found'[r] = chunks
    BY <1>0, <2>1 DEF RequestsType, Others, Same, Goes, Stages, Steps
  <2> QED
    BY <2>1, <2>2 DEF Passes
<1>12. CASE Populate(r)
  <2>1. PICK top \in MostSimilar({c \in found[r] : c.doc \in records}) : hits' = [hits EXCEPT ![r] = top]
    BY <1>12 DEF Populate
  <2>2. pc' = [pc EXCEPT ![r] = "reply"] /\ pc[r] = "populate" /\ UNCHANGED <<stores, kind, target, length, pending, found, gone, raced>>
    BY <1>12 DEF Populate, Move, Goto
  <2>3. top \in SUBSET Chunk
    BY <1>0, <2>1 DEF MostSimilar, RequestsType
  <2>4. RequestsType' /\ Others(r) /\ Goes(r, "populate", "reply") /\ hits'[r] = top
    BY <1>0, <2>1, <2>2, <2>3 DEF RequestsType, Others, Same, Goes, Stages, Steps
  <2> QED
    BY <2>1, <2>2, <2>4 DEF Passes
<1>13. CASE Reply(r)
  BY <1>0, <1>13, GotoEffect DEF Reply, Move, Stages, Steps, Passes
<1>14. CASE Abort(r)
  <2>1. pc[r] \in Steps /\ Goto(r, "error") /\ <<>> \in Seq(Part) /\ "error" \in Stages
    BY <1>14 DEF Abort, InProgress, Stages
  <2> QED
    BY <1>0, <1>14, <2>1, PendingEffect DEF Abort, Passes
<1> QED
  BY <1>1, <1>2, <1>3, <1>4, <1>5, <1>6, <1>7, <1>8, <1>9, <1>10, <1>11, <1>12, <1>13, <1>14, <1>15, <1>16, <1>17
     DEF Step, Proceed

\* A request begins.
Opens(r) ==
  \/ \E k \in Uploads : StoreRequest(r, k)
  \/ \E d \in Documents : DownloadRequest(r, d) \/ SyncRequest(r, d) \/ SignRequest(r, d) \/ DeleteRequest(r, d)
  \/ SearchRequest(r)

\* A deletion and a signature of one document that are in progress together are noted.
Notes(r) ==
  \A q \in Requests \ {r} :
    InProgress(q) /\ target[q] = target'[r] /\ {kind'[r], kind[q]} = {"sign", "delete"} => target[q] \in raced'

Starts(r) ==
  /\ pc[r] = "idle" /\ length'[r] = length[r] /\ Keeps(r) /\ UNCHANGED stores /\ Notes(r)
  /\ \/ kind'[r] \in Uploads /\ pc'[r] = "save object" /\ gone'[r] = gone[r]
     \/ kind'[r] = "download" /\ pc'[r] = "stream" /\ target'[r] \in records /\ gone'[r] = gone[r]
     \/ kind'[r] = "sync" /\ pc'[r] = "copy" /\ target'[r] \in records /\ gone'[r] = gone[r]
     \/ kind'[r] = "sign" /\ pc'[r] = "fetch" /\ target'[r] \in records /\ gone'[r] = gone[r]
     \/ kind'[r] = "delete" /\ pc'[r] = "erase" /\ target'[r] \in records /\ gone'[r] = gone[r]
     \/ /\ kind'[r] = "search" /\ pc'[r] = "find"
        /\ gone'[r] = {d \in Documents \ records : d = Earlier \/ Deleted(d)}

LEMMA BeginEffect ==
  ASSUME RequestsType, NEW r \in Requests, NEW k \in Kinds, NEW d \in Documents, NEW step \in Stages,
         Begin(r, k, d, step), UNCHANGED <<length, pending, found, hits>>,
         \/ gone' = gone
         \/ gone' = [gone EXCEPT ![r] = {e \in Documents \ records : e = Earlier \/ Deleted(e)}]
  PROVE  /\ RequestsType' /\ Others(r) /\ Keeps(r) /\ length'[r] = length[r]
         /\ pc[r] = "idle" /\ pc'[r] = step /\ kind'[r] = k /\ target'[r] = d /\ Notes(r)
<1>1. /\ pc' = [pc EXCEPT ![r] = step] /\ kind' = [kind EXCEPT ![r] = k] /\ target' = [target EXCEPT ![r] = d]
      /\ pc[r] = "idle"
  BY DEF Begin, Goto
<1>2. raced \subseteq Documents
  BY DEF RequestsType
<1>3. raced \subseteq raced' /\ raced' \subseteq Documents
  BY <1>2 DEF Begin
<1>4. kind'[r] = k /\ target'[r] = d /\ pc'[r] = step
  BY <1>1 DEF RequestsType
<1>5. Notes(r)
  BY <1>4 DEF Notes, Begin
<1>6. Others(r) /\ Keeps(r) /\ length'[r] = length[r]
  BY <1>1, <1>3 DEF RequestsType, Others, Same, Keeps
<1> QED
  BY <1>1, <1>3, <1>4, <1>5, <1>6 DEF RequestsType

LEMMA StartEffect ==
  ASSUME CourseInv, NEW r \in Requests, Opens(r)
  PROVE  RequestsType' /\ Others(r) /\ Starts(r)
<1>0. RequestsType /\ r \in Documents /\ Earlier \in Documents
  BY Typed DEF CourseInv, Documents
<1>1. ASSUME NEW k \in Uploads, StoreRequest(r, k) PROVE RequestsType' /\ Others(r) /\ Starts(r)
  BY <1>0, <1>1, BeginEffect DEF StoreRequest, Starts, Kinds, Stages, Steps
<1>2. ASSUME NEW d \in records, NEW k \in Kinds, NEW step \in Stages, Begin(r, k, d, step),
             UNCHANGED <<stores, length, pending, found, hits, gone>>,
             <<k, step>> \in {<<"download", "stream">>, <<"sync", "copy">>, <<"sign", "fetch">>, <<"delete", "erase">>}
      PROVE  RequestsType' /\ Others(r) /\ Starts(r)
  <2>1. d \in Documents
    BY DEF CourseInv, TypeOK
  <2>2. /\ RequestsType' /\ Others(r) /\ Keeps(r) /\ length'[r] = length[r]
        /\ pc[r] = "idle" /\ pc'[r] = step /\ kind'[r] = k /\ target'[r] = d /\ Notes(r)
    BY <1>0, <1>2, <2>1, BeginEffect
  <2> QED
    BY <1>2, <2>2 DEF Starts
<1>3. {"stream", "copy", "fetch", "erase"} \subseteq Stages /\ {"download", "sync", "sign", "delete"} \subseteq Kinds
  BY DEF Kinds, Stages, Steps
<1>4. ASSUME NEW d \in Documents, DownloadRequest(r, d) \/ SyncRequest(r, d) \/ SignRequest(r, d) \/ DeleteRequest(r, d)
      PROVE  RequestsType' /\ Others(r) /\ Starts(r)
  <2>1. CASE DownloadRequest(r, d)
    BY <1>2, <1>3, <2>1 DEF DownloadRequest
  <2>2. CASE SyncRequest(r, d)
    BY <1>2, <1>3, <2>2 DEF SyncRequest
  <2>3. CASE DeleteRequest(r, d)
    BY <1>2, <1>3, <2>3 DEF DeleteRequest
  <2>4. CASE SignRequest(r, d)
    BY <1>2, <1>3, <2>4 DEF SignRequest
  <2> QED
    BY <1>4, <2>1, <2>2, <2>3, <2>4
<1>5. CASE SearchRequest(r)
  <2>1. /\ Begin(r, "search", Earlier, "find") /\ UNCHANGED <<stores, length, pending, found, hits>>
        /\ gone' = [gone EXCEPT ![r] = {d \in Documents \ records : d = Earlier \/ Deleted(d)}]
    BY <1>5 DEF SearchRequest
  <2>2. "search" \in Kinds /\ "find" \in Stages
    BY DEF Kinds, Stages, Steps
  <2>3. gone'[r] = {d \in Documents \ records : d = Earlier \/ Deleted(d)}
    BY <1>0, <2>1 DEF RequestsType
  <2> QED
    BY <1>0, <2>1, <2>2, <2>3, BeginEffect DEF Starts
<1> QED
  BY <1>1, <1>4, <1>5 DEF Opens

LEMMA Moves ==
  ASSUME [Next]_vars
  PROVE  (\E r \in Requests : Opens(r) \/ Step(r)) \/ UNCHANGED vars
  BY DEF Next, Opens, Step

\* Every step of the specification, as one request's.
LEMMA Effect ==
  ASSUME CourseInv, [Next]_vars
  PROVE  \/ \E r \in Requests : RequestsType' /\ Others(r) /\ (Passes(r) \/ Starts(r))
         \/ UNCHANGED vars
  BY Moves, StepEffect, StartEffect

-----------------------------------------------------------------------------
(* The invariant of the requests' course *)

LEMMA LengthsType ==
  ASSUME TypeOK, NEW d \in Documents
  PROVE  length[d] \in Nat
<1>1. length \in [Documents -> Lengths \cup {0}]
  BY DEF TypeOK
<1>2. length[d] \in Lengths \cup {0}
  BY <1>1
<1>3. \A n : n \in Lengths => n \in Nat
  BY StorageAssumption
<1> QED
  BY <1>2, <1>3

LEMMA CourseInit == Init => CourseInv
<1> SUFFICES ASSUME Init PROVE CourseInv
  OBVIOUS
<1>1. PICK n \in Lengths :
        /\ length = [d \in Documents |-> IF d = Earlier THEN n ELSE 0]
        /\ \/ processed = {} /\ chunks = {}
           \/ processed = records /\ chunks = Stored(Earlier, Range(ChunkText(n)))
  BY DEF Init
<1>2. n \in Nat /\ Earlier \in Documents
  BY StorageAssumption DEF Documents
<1>3. /\ chunks \subseteq Chunk /\ \A c \in chunks : c.to <= length[c.doc] /\ c.doc = Earlier
      /\ IsFiniteSet(chunks)
  <2>1. CASE chunks = {}
    BY <2>1, FS_EmptySet
  <2>2. CASE chunks = Stored(Earlier, Range(ChunkText(n)))
    <3>1. ChunkText(n) \in Seq(Part) /\ \A p \in Range(ChunkText(n)) : p \in Part /\ p.to <= n
      BY <1>2, ChunkTextType
    <3>2. Range(ChunkText(n)) \in SUBSET Part
      BY <3>1
    <3>3. length[Earlier] = n
      BY <1>1, <1>2
    <3>4. ASSUME NEW c \in chunks PROVE c \in Chunk /\ c.doc = Earlier /\ c.to <= n
      <4>1. c.doc = Earlier /\ c \in Chunk
        BY <1>2, <2>2, <3>2, MembersOfStored
      <4>2. PICK p \in Range(ChunkText(n)) : c = [doc |-> Earlier, from |-> p.from, to |-> p.to]
        BY <2>2, <3>2, MembersOfStored
      <4> QED
        BY <3>1, <4>1, <4>2
    <3>5. IsFiniteSet(chunks)
      BY <2>2, <3>1, StoredFinite
    <3> QED
      BY <3>3, <3>4, <3>5
  <2> QED
    BY <1>1, <2>1, <2>2
<1>4. /\ records \subseteq {Earlier} /\ objects = records /\ drive = {} /\ processed \subseteq records
      /\ length \in [Documents -> Lengths \cup {0}]
  BY <1>1 DEF Init
<1>5. TypeOK
  <2>1. <<>> \in Seq(Part)
    OBVIOUS
  <2> QED
    BY <1>2, <1>3, <1>4, <2>1 DEF Init, TypeOK
<1>6. \A r \in Requests : Fits(r)
  BY DEF Init, Fits, Uploads
<1>7. \A r \in Requests : found[r] = {}
  BY DEF Init
<1> QED
  BY <1>3, <1>4, <1>5, <1>6, <1>7, FS_EmptySet DEF CourseInv, Settled

LEMMA SettledStays ==
  ASSUME CourseInv, NEW r \in Requests, Others(r), Passes(r) \/ Starts(r), NEW d \in Documents, Settled(d)
  PROVE  Settled(d)'
<1>1. CASE d = Earlier
  BY <1>1 DEF Settled
<1>2. CASE d # Earlier /\ d # r
  BY <1>2 DEF Settled, Others, Same, Documents
<1>3. CASE d # Earlier /\ d = r
  <2>1. kind[r] \in Uploads /\ pc[r] \in {"chunk", "reply", "ok", "error"}
    BY <1>3 DEF Settled
  <2>2. pc'[r] \in {"chunk", "reply", "ok", "error"} /\ kind'[r] = kind[r]
    BY <2>1 DEF Passes, Starts, Goes, Steps
  <2> QED
    BY <2>1, <2>2, <1>3 DEF Settled
<1> QED
  BY <1>1, <1>2, <1>3

LEMMA StoresType ==
  ASSUME CourseInv, NEW r \in Requests, RequestsType', Others(r), Passes(r) \/ Starts(r)
  PROVE  TypeOK'
<1>0. RequestsType /\ r \in Documents /\ target[r] \in Documents
  BY Typed DEF CourseInv, Documents, RequestsType
<1>1. /\ objects' \subseteq Documents /\ records' \subseteq Documents /\ processed' \subseteq records'
      /\ drive' \subseteq Documents
  <2> USE <1>0 DEF CourseInv, TypeOK
  <2>1. CASE UNCHANGED <<objects, records, processed, drive>>
    BY <2>1
  <2>2. CASE Passes(r)
    BY <2>2 DEF Passes, stores
  <2>3. CASE Starts(r)
    BY <2>1, <2>3 DEF Starts, stores
  <2> QED
    BY <2>2, <2>3
\* The text of a document whose chunks are stored is not replaced.
<1>2. \A c \in chunks : length'[c.doc] = length[c.doc]
  <2> SUFFICES ASSUME NEW c \in chunks PROVE length'[c.doc] = length[c.doc]
    OBVIOUS
  <2>1. c.doc \in Documents /\ Settled(c.doc)
    BY DEF CourseInv, TypeOK, Chunk
  <2>2. CASE c.doc # r
    BY <2>1, <2>2 DEF Others
  <2>3. CASE c.doc = r
    BY <2>1, <2>3, StorageAssumption DEF Settled, Passes, Starts, Goes
  <2> QED
    BY <2>2, <2>3
<1>3. ASSUME NEW c \in chunks', c \notin chunks PROVE c \in Chunk /\ c.to <= length'[c.doc]
  <2>1. /\ pc[r] = "chunk" /\ chunks' = chunks \cup Stored(r, {Head(pending[r])}) /\ pending[r] # <<>>
        /\ length'[r] = length[r]
    BY <1>3 DEF Passes, Starts, stores, Goes
  <2>2. Head(pending[r]) \in Part /\ Head(pending[r]) \in Range(pending[r])
    BY <1>0, <2>1, HeadAndTail DEF RequestsType
  <2>3. Head(pending[r]).to <= length[r]
    BY <2>1, <2>2 DEF CourseInv, Fits
  <2>4. c \in Stored(r, {Head(pending[r])}) /\ {Head(pending[r])} \in SUBSET Part
    BY <1>3, <2>1, <2>2
  <2>5. c \in Chunk /\ c.doc = r
    BY <1>0, <2>4, MembersOfStored
  <2>6. c = [doc |-> r, from |-> Head(pending[r]).from, to |-> Head(pending[r]).to]
    BY <2>4, MembersOfStored
  <2> QED
    BY <2>1, <2>3, <2>5, <2>6
<1>4. /\ chunks \subseteq Chunk /\ \A c \in chunks : c.to <= length[c.doc]
      /\ chunks' \subseteq Chunk /\ \A c \in chunks' : c.to <= length'[c.doc]
  BY <1>2, <1>3 DEF CourseInv, TypeOK
<1> QED
  BY <1>1, <1>4 DEF TypeOK, RequestsType, Stages

LEMMA FitsNext ==
  ASSUME CourseInv, NEW r \in Requests, RequestsType', Others(r), Passes(r) \/ Starts(r), NEW q \in Requests
  PROVE  Fits(q)'
<1>0. RequestsType /\ q \in Documents /\ r \in Documents
  BY Typed DEF CourseInv, Documents
<1>1. \A d \in Documents : Settled(d) => d = Earlier \/ (kind'[d] \in Uploads /\ pc'[d] \in {"chunk", "reply", "ok", "error"})
  BY SettledStays DEF Settled
<1>2. \A d \in records : d \in Documents /\ Settled(d)
  BY DEF CourseInv, TypeOK
<1>3. Fits(q) /\ target[q] \in Documents
  BY <1>0 DEF CourseInv, RequestsType
<1>4. CASE q # r
  <2>1. Same(q) /\ length'[q] = length[q]
    BY <1>0, <1>4 DEF Others
  <2>2. kind'[q] \in {"download", "sync", "sign", "delete"} => Settled(target[q])'
    BY <1>1, <1>3, <2>1 DEF Same, Fits, Settled
  <2> QED
    BY <1>3, <2>1, <2>2 DEF Same, Fits
<1>5. CASE q = r /\ Passes(r)
  <2>1. kind'[r] = kind[r] /\ target'[r] = target[r] /\ kind[r] # "none"
    BY <1>3, <1>5 DEF Passes, Goes, Fits, Steps
  <2>2. kind'[r] \in {"download", "sync", "sign", "delete"} => Settled(target[r])'
    BY <1>1, <1>3, <1>5, <2>1 DEF Fits, Settled
  <2>3. pc'[r] = "chunk" => kind[r] = "upload" /\ \A p \in Range(pending'[r]) : p.to <= length'[r]
    <3>1. CASE pc[r] = "chunk" /\ pc'[r] = "chunk"
      <4>1. pending[r] # <<>> /\ pending'[r] = Tail(pending[r]) /\ length'[r] = length[r]
        BY <3>1, <1>5 DEF Passes, Goes, Steps
      <4>2. \A p \in Range(pending'[r]) : p \in Range(pending[r])
        BY <1>0, <4>1, HeadAndTail DEF RequestsType
      <4> QED
        BY <1>3, <1>5, <3>1, <4>1, <4>2 DEF Fits
    <3>2. CASE pc[r] # "chunk" /\ pc'[r] = "chunk"
      <4>1. kind[r] = "upload" /\ length'[r] \in Lengths /\ pending'[r] = ChunkText(length'[r])
        BY <1>5, <3>2 DEF Passes, Goes, Steps
      <4> QED
        BY <4>1, ChunkTextType, StorageAssumption
    <3> QED
      BY <3>1, <3>2
  <2>4. /\ pc'[r] # "idle"
        /\ pc'[r] \in {"save object", "save record"} => kind[r] \in Uploads
        /\ pc'[r] \in {"stream", "broken"} => kind[r] = "download"
        /\ pc'[r] = "copy" => kind[r] = "sync"
        /\ pc'[r] \in {"fetch", "overwrite", "save signed"} => kind[r] = "sign"
        /\ pc'[r] \in {"erase", "remove"} => kind[r] = "delete"
        /\ pc'[r] \in {"find", "populate"} => kind[r] = "search"
    BY <1>3, <1>5 DEF Passes, Goes, Fits, Steps
  <2> QED
    BY <1>5, <2>1, <2>2, <2>3, <2>4 DEF Fits
<1>6. CASE q = r /\ Starts(r)
  <2>1. kind'[r] \in {"download", "sync", "sign", "delete"} => target'[r] \in records
    BY <1>6 DEF Starts, Uploads
  <2>2. kind'[r] \in {"download", "sync", "sign", "delete"} => Settled(target[r])'
    BY <1>1, <1>2, <2>1 DEF Settled
  <2>3. /\ pc'[r] \in {"save object", "stream", "copy", "fetch", "erase", "find"} /\ kind'[r] # "none"
        /\ pc'[r] = "save object" => kind'[r] \in Uploads
        /\ pc'[r] = "stream" => kind'[r] = "download"
        /\ pc'[r] = "copy" => kind'[r] = "sync"
        /\ pc'[r] = "fetch" => kind'[r] = "sign"
        /\ pc'[r] = "erase" => kind'[r] = "delete"
        /\ pc'[r] = "find" => kind'[r] = "search"
    BY <1>6 DEF Starts, Uploads
  <2> QED
    BY <1>6, <2>2, <2>3 DEF Fits
<1> QED
  BY <1>4, <1>5, <1>6

LEMMA CourseNext == CourseInv /\ [Next]_vars => CourseInv'
<1>1. ASSUME CourseInv, NEW r \in Requests, RequestsType', Others(r), Passes(r) \/ Starts(r)
      PROVE  CourseInv'
  <2>0. RequestsType /\ r \in Documents /\ chunks \subseteq Chunk
    BY <1>1, Typed DEF CourseInv, TypeOK, Documents
  <2>1. TypeOK'
    BY <1>1, StoresType
  <2>2. \A q \in Requests : Fits(q)'
    BY <1>1, FitsNext
  <2>3. \A d \in Documents : Settled(d) => Settled(d)'
    BY <1>1, SettledStays
  <2>4. \/ records' = records
        \/ records' = records \ {target[r]}
        \/ records' = records \cup {r} /\ pc[r] = "save record" /\ pc'[r] \in {"reply", "chunk"} /\ kind'[r] = kind[r]
    BY <1>1 DEF Passes, Starts, stores, Goes
  <2>5. \A d \in records' : Settled(d)'
    <3>1. pc[r] = "save record" /\ pc'[r] \in {"reply", "chunk"} /\ kind'[r] = kind[r] => Settled(r)'
      BY <1>1 DEF CourseInv, Fits, Settled
    <3> QED
      <4>1. \A d \in records : d \in Documents /\ Settled(d)
        BY <1>1 DEF CourseInv, TypeOK
      <4>2. \A d \in records : Settled(d)'
        BY <2>3, <4>1 DEF Settled
      <4>3. ASSUME NEW d \in records', d \notin records PROVE d = r /\ Settled(r)'
        <5>1. d \in records' /\ d \notin records
          BY <4>3
        <5>2. records' = records \cup {r} /\ pc[r] = "save record" /\ pc'[r] \in {"reply", "chunk"} /\ kind'[r] = kind[r]
          BY <2>4, <5>1
        <5>3. d = r
          BY <5>1, <5>2
        <5> QED
          BY <3>1, <5>2, <5>3
      <4> QED
        BY <4>2, <4>3
  <2>6. /\ \A c \in chunks' : c \in chunks \/ (c.doc = r /\ Settled(r)')
        /\ IsFiniteSet(chunks')
    <3>1. CASE chunks' = chunks
      BY <1>1, <3>1 DEF CourseInv
    <3>2. CASE pc[r] = "chunk" /\ pending[r] # <<>> /\ chunks' = chunks \cup Stored(r, {Head(pending[r])})
                 /\ pc'[r] = "chunk" /\ kind'[r] = kind[r]
      <4>1. Settled(r)'
        BY <1>1, <3>2 DEF Settled, CourseInv, Fits, Uploads
      <4>2. Stored(r, {Head(pending[r])}) = {[doc |-> r, from |-> Head(pending[r]).from, to |-> Head(pending[r]).to]}
        BY DEF Stored
      <4>3. IsFiniteSet(chunks')
        BY <1>1, <3>2, <4>2, FS_AddElement DEF CourseInv
      <4>4. ASSUME NEW c \in chunks', c \notin chunks PROVE c.doc = r
        <5>1. c \in Stored(r, {Head(pending[r])})
          BY <3>2, <4>4
        <5> QED
          BY <4>2, <5>1
      <4> QED
        BY <4>1, <4>3, <4>4
    <3> QED
      BY <1>1, <3>1, <3>2 DEF Passes, Starts, stores, Goes
  <2>7. \A c \in chunks' : Settled(c.doc)'
    <3>1. \A c \in chunks : Settled(c.doc) /\ c.doc \in Documents
      BY <1>1, <2>0 DEF CourseInv, Chunk
    <3>2. \A c \in chunks : Settled(c.doc)'
      BY <2>3, <3>1 DEF Settled
    <3> QED
      BY <2>6, <3>2 DEF Settled
  <2>8. ASSUME NEW q \in Requests PROVE IsFiniteSet(found'[q]) /\ \A c \in found'[q] : Settled(c.doc)'
    <3>1. found'[q] = found[q] \/ found'[q] = chunks
      BY <1>1, <2>8 DEF Others, Same, Passes, Starts, Keeps
    <3>2. /\ IsFiniteSet(found[q]) /\ IsFiniteSet(chunks)
          /\ \A c \in found[q] \cup chunks : Settled(c.doc) /\ c.doc \in Documents
      BY <1>1, <2>0, <2>8 DEF CourseInv, RequestsType, Chunk
    <3>3. \A c \in found[q] \cup chunks : Settled(c.doc)'
      BY <2>3, <3>2 DEF Settled
    <3> QED
      BY <3>1, <3>2, <3>3
  <2> QED
    BY <2>1, <2>2, <2>5, <2>6, <2>7, <2>8 DEF CourseInv
<1>2. ASSUME CourseInv, UNCHANGED vars PROVE CourseInv'
  <2> USE <1>2 DEF vars, stores, locals
  <2>1. TypeOK'
    BY DEF CourseInv, TypeOK
  <2>2. \A r \in Requests : Fits(r)'
    BY DEF CourseInv, Fits, Settled
  <2> QED
    BY <2>1, <2>2 DEF CourseInv, Settled
<1> QED
  BY <1>1, <1>2, Effect

LEMMA Courses == Spec => []CourseInv
  BY CourseInit, CourseNext, PTL DEF Spec

-----------------------------------------------------------------------------
(* Bucket and database *)

\* A document being signed has its record, or is being deleted too, which was noted.
RacesInv ==
  /\ \A r, q \in Requests :
       kind[r] = "sign" /\ InProgress(r) /\ kind[q] = "delete" /\ InProgress(q) /\ target[r] = target[q] =>
         target[r] \in raced
  /\ \A r \in Requests : kind[r] = "sign" /\ InProgress(r) => target[r] \in records \/ target[r] \in raced

LEMMA RacesNext == CourseInv /\ RacesInv /\ [Next]_vars => RacesInv'
<1>1. ASSUME CourseInv, RacesInv, NEW r \in Requests, RequestsType', Others(r), Passes(r) \/ Starts(r)
      PROVE  RacesInv'
  <2>1. ASSUME NEW q \in Requests, InProgress(q)', kind'[q] \in {"sign", "delete"}
        PROVE  \/ InProgress(q) /\ kind'[q] = kind[q] /\ target'[q] = target[q]
               \/ q = r /\ Starts(r) /\ target'[r] \in records /\ UNCHANGED records
    <3>1. CASE q # r
      BY <1>1, <2>1, <3>1 DEF Others, Same, InProgress
    <3>2. CASE q = r /\ Passes(r)
      BY <2>1, <3>2 DEF Passes, Goes, InProgress, Steps
    <3>3. CASE q = r /\ Starts(r)
      BY <2>1, <3>3 DEF Starts, Uploads, stores
    <3> QED
      BY <1>1, <3>1, <3>2, <3>3
  <2>2. raced \subseteq raced'
    BY <1>1 DEF Others
  <2>3. ASSUME NEW p \in Requests, NEW q \in Requests, kind'[p] = "sign", InProgress(p)', kind'[q] = "delete", InProgress(q)',
               target'[p] = target'[q]
        PROVE  target'[p] \in raced'
    <3>1. p # q
      BY <2>3
    <3>2. CASE InProgress(p) /\ kind'[p] = kind[p] /\ target'[p] = target[p]
               /\ InProgress(q) /\ kind'[q] = kind[q] /\ target'[q] = target[q]
      BY <1>1, <2>2, <2>3, <3>2 DEF RacesInv
    <3>3. CASE p = r /\ Starts(r)
      <4>1. InProgress(q) /\ kind'[q] = kind[q] /\ target'[q] = target[q]
        BY <2>1, <2>3, <3>1, <3>3
      <4> QED
        BY <2>3, <3>1, <3>3, <4>1 DEF Starts, Notes
    <3>4. CASE q = r /\ Starts(r)
      <4>1. InProgress(p) /\ kind'[p] = kind[p] /\ target'[p] = target[p]
        BY <2>1, <2>3, <3>1, <3>4
      <4>2. {kind'[r], kind[p]} = {"sign", "delete"}
        BY <2>3, <3>4, <4>1
      <4> QED
        BY <2>3, <3>1, <3>4, <4>1, <4>2 DEF Starts, Notes
    <3> QED
      BY <2>1, <2>3, <3>2, <3>3, <3>4
  <2>4. ASSUME NEW q \in Requests, kind'[q] = "sign", InProgress(q)'
        PROVE  target'[q] \in records' \/ target'[q] \in raced'
    <3>1. CASE q = r /\ Starts(r) /\ target'[r] \in records /\ UNCHANGED records
      BY <3>1
    <3>2. CASE InProgress(q) /\ kind'[q] = kind[q] /\ target'[q] = target[q]
      <4>1. target[q] \in records \/ target[q] \in raced
        BY <1>1, <2>4, <3>2 DEF RacesInv
      <4>2. target[q] \in records => target[q] \in records' \/ (pc[r] = "remove" /\ target[r] = target[q])
        <5>1. records \subseteq records' \/ (pc[r] = "remove" /\ records' = records \ {target[r]})
          BY <1>1 DEF Passes, Starts, stores, Goes
        <5> QED
          BY <5>1
      <4>3. pc[r] = "remove" => kind[r] = "delete" /\ InProgress(r)
        BY <1>1 DEF CourseInv, Fits, InProgress, Steps
      <4> QED
        BY <1>1, <2>2, <2>4, <3>2, <4>1, <4>2, <4>3 DEF RacesInv
    <3> QED
      BY <2>1, <2>4, <3>1, <3>2
  <2> QED
    BY <2>3, <2>4 DEF RacesInv, InProgress
<1>2. ASSUME RacesInv, UNCHANGED vars PROVE RacesInv'
  BY <1>2 DEF vars, stores, locals, RacesInv, InProgress
<1> QED
  BY <1>1, <1>2, Effect

LEMMA Races == Spec => []RacesInv
<1>1. Init => RacesInv
  BY DEF Init, RacesInv, InProgress, Steps
<1> QED
  BY <1>1, RacesNext, Courses, PTL DEF Spec

\* The object comes before the record and goes before it, and what a download is about
\* has been there.
ObjectsInv ==
  /\ RecordHasObject
  /\ \A d \in objects \ records : d \in raced \/ (d # Earlier /\ pc[d] \in {"save record", "error"})
  /\ \A r \in Requests :
       /\ pc[r] = "save record" => r \in objects
       /\ pc[r] = "stream" => target[r] \in objects \/ DeletionBegan(target[r])
       /\ pc[r] = "remove" => target[r] \notin objects \/ target[r] \in raced

LEMMA BegunStays ==
  ASSUME CourseInv, NEW r \in Requests, Others(r), Passes(r) \/ Starts(r)
  PROVE  \A d \in Documents : DeletionBegan(d) => \E q \in Requests : kind'[q] = "delete" /\ target'[q] = d
<1> SUFFICES ASSUME NEW d \in Documents, NEW q \in Requests, kind[q] = "delete", target[q] = d
             PROVE  kind'[q] = "delete" /\ target'[q] = d
  BY DEF DeletionBegan
<1>1. CASE q # r
  BY <1>1 DEF Others, Same
<1>2. CASE q = r
  BY <1>2 DEF Passes, Goes, Starts, CourseInv, Fits
<1> QED
  BY <1>1, <1>2

LEMMA ObjectsInit == Init => ObjectsInv
<1> SUFFICES ASSUME Init PROVE ObjectsInv
  OBVIOUS
<1>1. records = objects /\ \A r \in Requests : pc[r] = "idle"
  BY DEF Init
<1> QED
  BY <1>1 DEF ObjectsInv, RecordHasObject

LEMMA ObjectsNext == CourseInv /\ RacesInv /\ ObjectsInv /\ [Next]_vars => ObjectsInv'
<1>1. ASSUME CourseInv, RacesInv, ObjectsInv, NEW r \in Requests, RequestsType', Others(r), Passes(r) \/ Starts(r)
      PROVE  ObjectsInv'
  <2>0. /\ \A q \in Requests : target[q] \in Documents /\ q \in Documents /\ q # Earlier
        /\ objects \subseteq Documents /\ records \subseteq Documents
        /\ \A q \in Requests : Fits(q)
        /\ \A d \in records : d = Earlier \/ pc[d] # "save record"
        /\ raced \subseteq raced'
    BY <1>1, Typed, StorageAssumption DEF CourseInv, TypeOK, RequestsType, Documents, Settled, Others
  \* How bucket and database change.
  <2>1. \/ objects' = objects /\ records' = records
        \/ pc[r] = "save object" /\ pc'[r] = "save record" /\ objects' = objects \cup {r} /\ records' = records
        \/ pc[r] = "save record" /\ pc'[r] \in {"reply", "chunk"} /\ objects' = objects /\ records' = records \cup {r}
        \/ pc[r] = "erase" /\ pc'[r] = "remove" /\ objects' = objects \ {target[r]} /\ records' = records
        \/ pc[r] = "remove" /\ pc'[r] = "reply" /\ objects' = objects /\ records' = records \ {target[r]}
        \/ pc[r] = "overwrite" /\ objects' = objects \cup {target[r]} /\ records' = records
    BY <1>1 DEF Passes, Starts, stores, Goes
  <2>2. \A d \in records' : d \in records \/ (d = r /\ pc[r] = "save record" /\ objects' = objects)
    <3>1. CASE records' \subseteq records
      BY <3>1
    <3>2. CASE records' = records \cup {r} /\ pc[r] = "save record" /\ objects' = objects
      BY <3>2
    <3> QED
      BY <2>1, <3>1, <3>2
  <2>3. \A d \in objects' : \/ d \in objects
                            \/ d = r /\ pc[r] = "save object"
                            \/ d = target[r] /\ pc[r] = "overwrite"
    <3>1. CASE objects' \subseteq objects
      BY <3>1
    <3>2. CASE objects' = objects \cup {r} /\ pc[r] = "save object"
      BY <3>2
    <3>3. CASE objects' = objects \cup {target[r]} /\ pc[r] = "overwrite"
      BY <3>3
    <3> QED
      BY <2>1, <3>1, <3>2, <3>3
  <2>15. pc[r] = "overwrite" => kind[r] = "sign" /\ InProgress(r)
    BY <2>0 DEF Fits, InProgress, Steps
  <2>4. \A d \in Documents : DeletionBegan(d) => \E k \in Requests : kind'[k] = "delete" /\ target'[k] = d
    BY <1>1, BegunStays
  <2>5. pc[r] \in {"erase", "remove"} => DeletionBegan(target[r])
    BY <2>0 DEF Fits, DeletionBegan
  <2>6. \A d \in Documents : d \in objects' \/ d \notin objects \/ DeletionBegan(d)
    BY <2>1, <2>5
  <2>7. ASSUME NEW d \in records' PROVE d \in objects' \/ DeletionBegan(d)'
    <3>0. d \in records'
      BY <2>7
    <3>1. d \in Documents
      BY <2>0, <2>2, <3>0
    <3>2. CASE d \in records
      <4>1. d \in objects \/ DeletionBegan(d)
        BY <1>1, <3>2 DEF ObjectsInv, RecordHasObject
      <4> QED
        BY <2>4, <2>6, <3>1, <4>1 DEF DeletionBegan
    <3>3. CASE d \notin records
      <4>1. d = r /\ pc[r] = "save record" /\ objects' = objects
        BY <2>2, <3>0, <3>3
      <4> QED
        BY <1>1, <4>1 DEF ObjectsInv
    <3> QED
      BY <3>2, <3>3
  <2>8. ASSUME NEW d \in objects', d \notin records'
        PROVE  d \in raced' \/ (d # Earlier /\ pc'[d] \in {"save record", "error"})
    <3>0. CASE d \in raced
      BY <2>0, <3>0
    <3>4. CASE d = target[r] /\ pc[r] = "overwrite"
      <4>1. records' = records
        BY <2>1, <3>4
      <4> QED
        BY <1>1, <2>0, <2>8, <2>15, <3>4, <4>1 DEF RacesInv
    <3>1. CASE d \in objects \ records /\ d \notin raced
      <4>1. d # Earlier /\ pc[d] \in {"save record", "error"} /\ d \in Requests
        BY <1>1, <2>0, <3>1 DEF ObjectsInv, Documents
      <4>2. CASE d # r
        BY <1>1, <4>1, <4>2 DEF Others, Same
      <4>3. CASE d = r
        BY <1>1, <2>1, <2>8, <4>1, <4>3 DEF Passes, Starts, Goes
      <4> QED
        BY <4>1, <4>2, <4>3
    <3>2. CASE d \notin objects /\ pc[r] # "overwrite"
      BY <2>0, <2>1, <2>8, <3>2
    <3>3. CASE d \in objects /\ d \in records /\ d \notin raced
      <4>1. d = target[r] /\ pc[r] = "remove"
        BY <2>1, <2>8, <3>3
      <4> QED
        BY <1>1, <3>3, <4>1 DEF ObjectsInv
    <3> QED
      BY <2>3, <2>8, <3>0, <3>1, <3>2, <3>3, <3>4
  <2>9. ASSUME NEW q \in Requests, pc'[q] = "save record" PROVE q \in objects'
    <3>1. CASE q = r
      BY <1>1, <2>9, <3>1 DEF Passes, Starts, Goes, Steps
    <3>2. CASE q # r
      <4>1. q \in objects /\ q \notin records /\ pc[q] = "save record"
        BY <1>1, <2>0, <2>9, <3>2 DEF Others, Same, ObjectsInv
      <4>2. ~(pc[r] = "erase" /\ target[r] = q)
        <5>1. pc[r] = "erase" => Settled(target[r])
          BY <2>0 DEF Fits
        <5>2. ~Settled(q)
          BY <2>0, <4>1 DEF Settled
        <5> QED
          BY <5>1, <5>2
      <4> QED
        BY <2>1, <4>1, <4>2
    <3> QED
      BY <3>1, <3>2
  <2>10. ASSUME NEW d \in Documents, d \in objects \/ DeletionBegan(d)
        PROVE  d \in objects' \/ \E k \in Requests : kind'[k] = "delete" /\ target'[k] = d
    BY <2>4, <2>6, <2>10
  <2>11. ASSUME NEW q \in Requests, pc'[q] = "stream"
        PROVE  target'[q] \in objects' \/ \E k \in Requests : kind'[k] = "delete" /\ target'[k] = target'[q]
    <3>1. CASE Same(q)
      <4>1. target[q] \in objects \/ DeletionBegan(target[q])
        BY <1>1, <2>11, <3>1 DEF Same, ObjectsInv
      <4> QED
        BY <2>0, <2>10, <3>1, <4>1 DEF Same
    <3>2. CASE q = r /\ Starts(r)
      <4>1. target'[q] \in records
        BY <2>11, <3>2 DEF Starts
      <4> QED
        BY <1>1, <2>0, <2>10, <4>1 DEF ObjectsInv, RecordHasObject
    <3>3. CASE q = r /\ Passes(r)
      BY <2>11, <3>3 DEF Passes, Goes
    <3> QED
      BY <1>1, <3>1, <3>2, <3>3 DEF Others
  <2>12. ASSUME NEW q \in Requests, pc'[q] = "broken"
         PROVE  \E k \in Requests : kind'[k] = "delete" /\ target'[k] = target'[q]
    <3>1. CASE Same(q)
      <4>1. DeletionBegan(target[q])
        BY <1>1, <2>12, <3>1 DEF Same, ObjectsInv, RecordHasObject
      <4> QED
        BY <2>0, <2>4, <3>1, <4>1 DEF Same
    <3>2. CASE q = r /\ Starts(r)
      BY <2>12, <3>2 DEF Starts
    <3>3. CASE q = r /\ Passes(r)
      <4>1. pc[q] = "stream" /\ target[q] \notin objects /\ target'[q] = target[q]
        BY <2>12, <3>3 DEF Passes, Goes
      <4>2. DeletionBegan(target[q])
        BY <1>1, <4>1 DEF ObjectsInv
      <4> QED
        BY <2>0, <2>4, <4>1, <4>2
    <3> QED
      BY <1>1, <3>1, <3>2, <3>3 DEF Others
  <2>13. ASSUME NEW q \in Requests, pc'[q] = "remove" PROVE target'[q] \notin objects' \/ target'[q] \in raced'
    <3>1. CASE Same(q)
      <4>1. /\ kind[q] = "delete" /\ InProgress(q) /\ target'[q] = target[q] /\ Settled(target[q])
            /\ target[q] \notin objects \/ target[q] \in raced
        BY <1>1, <2>0, <2>13, <3>1 DEF Same, ObjectsInv, Fits, InProgress, Steps
      <4>2. ~(pc[r] = "save object" /\ target[q] = r)
        BY <2>0, <4>1 DEF Settled
      <4>3. pc[r] = "overwrite" /\ target[q] = target[r] => target[q] \in raced
        BY <1>1, <2>15, <4>1 DEF RacesInv
      <4> QED
        BY <2>0, <2>3, <4>1, <4>2, <4>3
    <3>2. CASE q = r /\ Starts(r)
      BY <2>13, <3>2 DEF Starts
    <3>3. CASE q = r /\ Passes(r)
      BY <2>13, <3>3 DEF Passes, Goes, Steps
    <3> QED
      BY <1>1, <3>1, <3>2, <3>3 DEF Others
  <2>14. RecordHasObject'
    BY <2>7, <2>12 DEF RecordHasObject, DeletionBegan
  <2> QED
    BY <2>8, <2>9, <2>11, <2>13, <2>14 DEF ObjectsInv, DeletionBegan
<1>2. ASSUME CourseInv, ObjectsInv, UNCHANGED vars PROVE ObjectsInv'
  <2>1. UNCHANGED <<objects, records, pc, kind, target, raced>>
    BY <1>2 DEF vars, stores, locals
  <2>2. \A d : DeletionBegan(d)' <=> DeletionBegan(d)
    BY <2>1 DEF DeletionBegan
  <2> QED
    BY <1>2, <2>1, <2>2 DEF ObjectsInv, RecordHasObject
<1> QED
  BY <1>1, <1>2, Effect

\* Bucket and database agree, but for what a request in progress or an aborted one, or a
\* signature applied during a deletion, explains.
THEOREM BucketAndDatabaseAgree == Spec => []StoresAgree
<1>1. CourseInv /\ ObjectsInv => StoresAgree
  <2> SUFFICES ASSUME CourseInv, ObjectsInv PROVE TypeOK /\ RecordHasObject /\ ObjectsAreReferenced
    BY DEF StoresAgree
  <2> QED
    BY DEF CourseInv, ObjectsInv, ObjectsAreReferenced, InProgress, Steps
<1> QED
  BY <1>1, Courses, Races, ObjectsInit, ObjectsNext, PTL DEF Spec

-----------------------------------------------------------------------------
(* The passages of a processed document *)

Held(d, p) == [doc |-> d, from |-> p.from, to |-> p.to] \in chunks

\* Each part is stored, or still to be.
PartsInv ==
  /\ \A d \in processed : \A p \in Range(ChunkText(length[d])) : Held(d, p)
  /\ \A r \in Requests : pc[r] = "chunk" =>
       \A p \in Range(ChunkText(length[r])) : Held(r, p) \/ p \in Range(pending[r])

LEMMA PartsInit == Init => PartsInv
<1> SUFFICES ASSUME Init PROVE PartsInv
  OBVIOUS
<1>1. PICK n \in Lengths :
        /\ length = [d \in Documents |-> IF d = Earlier THEN n ELSE 0]
        /\ \/ processed = {} /\ chunks = {}
           \/ processed = records /\ chunks = Stored(Earlier, Range(ChunkText(n)))
  BY DEF Init
<1>2. Earlier \in Documents /\ n \in Nat /\ records \subseteq {Earlier} /\ \A r \in Requests : pc[r] = "idle"
  BY StorageAssumption DEF Documents, Init
<1>3. length[Earlier] = n /\ Range(ChunkText(n)) \in SUBSET Part
  BY <1>1, <1>2, ChunkTextType
<1>4. ASSUME NEW d \in processed, NEW p \in Range(ChunkText(length[d])) PROVE Held(d, p)
  <2>1. d = Earlier /\ chunks = Stored(Earlier, Range(ChunkText(n)))
    BY <1>1, <1>2, <1>4
  <2>2. p \in Range(ChunkText(n))
    BY <1>3, <1>4, <2>1
  <2> QED
    BY <1>3, <2>1, <2>2, MembersOfStored DEF Held
<1> QED
  BY <1>2, <1>4 DEF PartsInv

LEMMA PartsNext == CourseInv /\ PartsInv /\ [Next]_vars => PartsInv'
<1>1. ASSUME CourseInv, PartsInv, NEW r \in Requests, RequestsType', Others(r), Passes(r) \/ Starts(r)
      PROVE  PartsInv'
  <2>0. RequestsType /\ r \in Documents /\ r # Earlier
    BY <1>1, Typed, StorageAssumption DEF CourseInv, Documents
  <2>1. \A c \in chunks : c \in chunks'
    <3>1. chunks' = chunks \/ \E s : chunks' = chunks \cup s
      BY <1>1 DEF Passes, Starts, stores
    <3> QED
      BY <3>1
  <2>2. \A d, p : Held(d, p) => Held(d, p)'
    BY <2>1 DEF Held
  <2>3. ASSUME NEW d \in processed', d \notin processed
        PROVE  d = r /\ pc[r] = "chunk" /\ pending[r] = <<>> /\ length'[r] = length[r]
    <3>1. d \in processed' /\ d \notin processed
      BY <2>3
    <3>2. \/ processed' \subseteq processed
          \/ processed' = processed \cup {r} /\ pc[r] = "chunk" /\ pending[r] = <<>> /\ length'[r] = length[r]
      BY <1>1 DEF Passes, Starts, stores, Goes
    <3>3. processed' = processed \cup {r} /\ pc[r] = "chunk" /\ pending[r] = <<>> /\ length'[r] = length[r]
      BY <3>1, <3>2
    <3> QED
      BY <3>1, <3>3
  <2>4. ASSUME NEW d \in processed PROVE length'[d] = length[d]
    <3>1. d \in records /\ d \in Documents
      BY <1>1, <2>4 DEF CourseInv, TypeOK
    <3>2. Settled(d)
      BY <1>1, <3>1 DEF CourseInv
    <3>3. d = r => pc[r] # "save record" /\ pc[r] # "idle"
      BY <2>0, <3>2 DEF Settled
    <3>4. d = r => length'[r] = length[r]
      BY <1>1, <3>3 DEF Passes, Starts, Goes
    <3> QED
      BY <1>1, <3>1, <3>4 DEF Others
  <2>5. ASSUME NEW d \in processed', NEW p \in Range(ChunkText(length'[d])) PROVE Held(d, p)'
    <3>1. CASE d \in processed
      <4>1. p \in Range(ChunkText(length[d]))
        BY <2>4, <2>5, <3>1
      <4>2. Held(d, p)
        BY <1>1, <3>1, <4>1 DEF PartsInv
      <4> QED
        BY <2>2, <4>2
    <3>2. CASE d \notin processed
      <4>1. d = r /\ pc[r] = "chunk" /\ pending[r] = <<>> /\ length'[r] = length[r]
        BY <2>3, <2>5, <3>2
      <4>2. Range(pending[r]) = {}
        BY <4>1 DEF Range
      <4>3. p \in Range(ChunkText(length[r]))
        BY <2>5, <4>1
      <4>4. Held(r, p)
        BY <1>1, <4>1, <4>2, <4>3 DEF PartsInv
      <4> QED
        BY <2>2, <4>1, <4>4
    <3> QED
      BY <3>1, <3>2
  <2>6. ASSUME NEW q \in Requests, pc'[q] = "chunk", NEW p \in Range(ChunkText(length'[q]))
        PROVE  Held(q, p)' \/ p \in Range(pending'[q])
    <3>1. CASE q # r
      <4>1. pc[q] = "chunk" /\ pending'[q] = pending[q] /\ length'[q] = length[q]
        BY <1>1, <2>6, <3>1 DEF Others, Same, Documents
      <4>2. Held(q, p) \/ p \in Range(pending[q])
        BY <1>1, <2>6, <4>1 DEF PartsInv
      <4> QED
        BY <2>2, <4>1, <4>2
    <3>2. CASE q = r /\ pc[r] = "save record"
      <4>1. pending'[r] = ChunkText(length'[r])
        BY <1>1, <2>6, <3>2 DEF Passes, Starts, Goes, Steps
      <4> QED
        BY <2>6, <3>2, <4>1
    <3>3. CASE q = r /\ pc[r] = "chunk"
      <4>1. /\ pending[r] # <<>> /\ pending'[r] = Tail(pending[r]) /\ length'[r] = length[r]
            /\ chunks' = chunks \cup Stored(r, {Head(pending[r])})
        BY <1>1, <2>6, <3>3 DEF Passes, Starts, Goes, Steps
      <4>2. Held(r, p) \/ p \in Range(pending[r])
        BY <1>1, <2>6, <3>3, <4>1 DEF PartsInv
      <4>3. Head(pending[r]) \in Part /\ Range(pending[r]) = {Head(pending[r])} \cup Range(Tail(pending[r]))
        BY <2>0, <4>1, HeadAndTail DEF RequestsType
      <4>4. CASE p = Head(pending[r])
        <5>1. [doc |-> r, from |-> p.from, to |-> p.to] \in Stored(r, {Head(pending[r])})
          BY <4>4 DEF Stored
        <5> QED
          BY <3>3, <4>1, <5>1 DEF Held
      <4> QED
        BY <2>2, <3>3, <4>1, <4>2, <4>3, <4>4
    <3> QED
      BY <1>1, <2>6, <3>1, <3>2, <3>3 DEF Passes, Starts, Goes, Steps
  <2> QED
    BY <2>5, <2>6 DEF PartsInv
<1>2. ASSUME CourseInv, PartsInv, UNCHANGED vars PROVE PartsInv'
  BY <1>2 DEF vars, stores, locals, PartsInv, Held
<1> QED
  BY <1>1, <1>2, Effect

\* In a document marked as processed, every passage of up to Overlap + 1 characters is
\* found in one piece, whatever the lengths, the size of the chunks and their overlap.
THEOREM PassagesAreKeptWhole == Spec => []PassagesAreWhole
<1>1. CourseInv /\ PartsInv => PassagesAreWhole
  <2> SUFFICES ASSUME CourseInv, PartsInv, NEW d \in processed, NEW a \in 0..length[d], a + Overlap + 1 <= length[d]
               PROVE  \E c \in chunks : c.doc = d /\ c.from <= a /\ a + Overlap + 1 <= c.to
    BY DEF PassagesAreWhole
  <2>1. length[d] \in Nat
    BY LengthsType DEF CourseInv, TypeOK
  <2>2. PICK p \in Range(ChunkText(length[d])) : p.from <= a /\ a + Overlap + 1 <= p.to
    BY <2>1, Coverage
  <2>3. [doc |-> d, from |-> p.from, to |-> p.to] \in chunks
    BY <2>2 DEF PartsInv, Held
  <2> QED
    BY <2>2, <2>3
<1> QED
  BY <1>1, Courses, PartsInit, PartsNext, PTL DEF Spec

-----------------------------------------------------------------------------
(* What a search answers *)

Found(r) == {c \in found[r] : c.doc \in records}

\* What was gone when a search began stays gone, and its answer has as many hits as there
\* are documents left to find them in.
AnswersInv ==
  \A r \in Requests :
    /\ \A d \in gone[r] : d \notin records /\ Settled(d)
    /\ kind[r] = "search" /\ pc[r] \in {"reply", "ok"} =>
         /\ \A c \in hits[r] : c.doc \notin gone[r]
         /\ Cardinality(hits[r]) \in Nat /\ Cardinality(hits[r]) >= Lesser(TopHits, Cardinality(Found(r)))

LEMMA AnswersInit == Init => AnswersInv
  BY DEF Init, AnswersInv

\* Only a document without a record gets one, and only one that is not settled.
LEMMA RecordsMove ==
  ASSUME CourseInv, NEW r \in Requests, Passes(r) \/ Starts(r)
  PROVE  \A d \in Documents : Settled(d) /\ d \in records' => d \in records
<1> SUFFICES ASSUME NEW d \in Documents, Settled(d), d \notin records PROVE d \notin records'
  OBVIOUS
<1>1. \/ records' = records
      \/ records' = records \ {target[r]}
      \/ records' = records \cup {r} /\ pc[r] = "save record"
  BY DEF Passes, Starts, stores, Goes
<1>2. pc[r] = "save record" => d # r
  BY StorageAssumption DEF Settled
<1>3. CASE records' = records \cup {r} /\ pc[r] = "save record"
  BY <1>2, <1>3
<1> QED
  BY <1>1, <1>3

LEMMA FewerFound ==
  ASSUME CourseInv, NEW r \in Requests, Passes(r) \/ Starts(r), NEW q \in Requests, found'[q] = found[q]
  PROVE  /\ Cardinality(Found(q)) \in Nat /\ Cardinality(Found(q)') \in Nat
         /\ Cardinality(Found(q)') <= Cardinality(Found(q))
<1>1. IsFiniteSet(found[q]) /\ \A c \in found[q] : Settled(c.doc) /\ c.doc \in Documents
  BY Typed DEF CourseInv, RequestsType, Chunk
<1>2. Found(q) \in SUBSET found[q]
  BY DEF Found
<1>3. IsFiniteSet(Found(q)) /\ Cardinality(Found(q)) \in Nat
  BY <1>1, <1>2, FS_Subset, FS_CardinalityType
<1>4. Found(q)' \in SUBSET Found(q)
  <2>1. \A c \in found[q] : c.doc \in records' => c.doc \in records
    BY <1>1, RecordsMove
  <2> QED
    BY <2>1 DEF Found
<1>5. IsFiniteSet(Found(q)') /\ Cardinality(Found(q)') <= Cardinality(Found(q))
  BY <1>3, <1>4, FS_Subset
<1> QED
  BY <1>3, <1>5, FS_CardinalityType

LEMMA AnswersNext == CourseInv /\ AnswersInv /\ [Next]_vars => AnswersInv'
<1>1. ASSUME CourseInv, AnswersInv, NEW r \in Requests, RequestsType', Others(r), Passes(r) \/ Starts(r), NEW q \in Requests
      PROVE  /\ \A d \in gone'[q] : d \notin records' /\ Settled(d)'
             /\ kind'[q] = "search" /\ pc'[q] \in {"reply", "ok"} =>
                  /\ \A c \in hits'[q] : c.doc \notin gone'[q]
                  /\ Cardinality(hits'[q]) \in Nat /\ Cardinality(hits'[q]) >= Lesser(TopHits, Cardinality(Found(q)'))
  <2>0. RequestsType
    BY <1>1, Typed DEF CourseInv
  <2>1. ASSUME NEW d \in gone'[q] PROVE d \notin records /\ Settled(d) /\ d \in Documents
    <3>1. CASE d \in gone[q]
      BY <1>1, <2>0, <3>1 DEF AnswersInv, RequestsType
    <3>2. CASE d \notin gone[q]
      <4>1. d \in Documents \ records /\ (d = Earlier \/ Deleted(d))
        BY <1>1, <2>1, <3>2 DEF Others, Same, Passes, Goes, Starts
      <4>2. Deleted(d) => Settled(d)
        BY <1>1 DEF Deleted, CourseInv, Fits
      <4> QED
        BY <4>1, <4>2 DEF Settled
    <3> QED
      BY <3>1, <3>2
  <2>2. \A d \in gone'[q] : d \notin records' /\ Settled(d)'
    <3>1. \A d \in Documents : Settled(d) => Settled(d)' /\ (d \notin records => d \notin records')
      BY <1>1, SettledStays, RecordsMove
    <3> QED
      BY <2>1, <3>1 DEF Settled
  <2>3. ASSUME kind'[q] = "search", pc'[q] \in {"reply", "ok"}
        PROVE  /\ \A c \in hits'[q] : c.doc \notin gone'[q]
               /\ Cardinality(hits'[q]) \in Nat /\ Cardinality(hits'[q]) >= Lesser(TopHits, Cardinality(Found(q)'))
    <3>1. CASE hits'[q] = hits[q] /\ gone'[q] = gone[q] /\ found'[q] = found[q] /\ kind[q] = "search" /\ pc[q] \in {"reply", "ok"}
      <4>1. /\ \A c \in hits[q] : c.doc \notin gone[q]
            /\ Cardinality(hits[q]) \in Nat /\ Cardinality(hits[q]) >= Lesser(TopHits, Cardinality(Found(q)))
        BY <1>1, <3>1 DEF AnswersInv
      <4>2. /\ Cardinality(Found(q)) \in Nat /\ Cardinality(Found(q)') \in Nat
            /\ Cardinality(Found(q)') <= Cardinality(Found(q))
        BY <1>1, <3>1, FewerFound
      <4>3. Cardinality(hits[q]) >= Lesser(TopHits, Cardinality(Found(q)'))
        BY <4>1, <4>2, StorageAssumption DEF Lesser
      <4> QED
        BY <3>1, <4>1, <4>3
    <3>2. CASE /\ q = r /\ records' = records /\ gone'[q] = gone[q] /\ found'[q] = found[q]
               /\ hits'[r] \in MostSimilar({c \in found[r] : c.doc \in records})
      <4>1. Found(q)' = Found(q)
        BY <3>2 DEF Found
      <4>2. hits'[q] \subseteq Found(q) /\ Cardinality(hits'[q]) = Lesser(TopHits, Cardinality(Found(q)))
        BY <3>2 DEF Found, MostSimilar
      <4>3. Cardinality(Found(q)) \in Nat
        BY <1>1, <3>2, FewerFound
      <4>4. \A c \in hits'[q] : c.doc \in records
        BY <4>2 DEF Found
      <4> QED
        BY <2>1, <4>1, <4>2, <4>3, <4>4, StorageAssumption DEF Lesser
    <3> QED
      <4>1. CASE q # r
        BY <1>1, <2>3, <3>1, <4>1 DEF Others, Same
      <4>2. CASE q = r /\ Starts(r)
        BY <2>3, <4>2 DEF Starts
      <4>3. CASE q = r /\ Passes(r)
        <5>1. pc[r] \in {"populate", "reply"}
          BY <1>1, <2>3, <4>3 DEF Passes, Goes, CourseInv, Fits, Uploads, Steps
        <5> QED
          BY <2>3, <3>1, <3>2, <4>3, <5>1 DEF Passes, Goes, Keeps, stores, Steps
      <4> QED
        BY <1>1, <4>1, <4>2, <4>3
  <2> QED
    BY <2>2, <2>3
<1>2. ASSUME CourseInv, AnswersInv, NEW r \in Requests, RequestsType', Others(r), Passes(r) \/ Starts(r)
      PROVE  AnswersInv'
  BY <1>1, <1>2 DEF AnswersInv
<1>3. ASSUME CourseInv, AnswersInv, UNCHANGED vars PROVE AnswersInv'
  BY <1>3 DEF vars, stores, locals, AnswersInv, Found, Settled
<1> QED
  BY <1>2, <1>3, Effect

\* A search does not show documents that were deleted before it began, although their
\* chunks remain and more may have been added since; nor do those chunks take the place
\* of others.
THEOREM SearchesAreCurrent == Spec => []SearchIsCurrent
<1>1. AnswersInv => SearchIsCurrent
  BY DEF AnswersInv, Found, SearchIsCurrent
<1> QED
  BY <1>1, Courses, AnswersInit, AnswersNext, PTL DEF Spec

=============================================================================
