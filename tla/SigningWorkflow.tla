-------------------------- MODULE SigningWorkflow --------------------------
(***************************************************************************)
(* What the signing feature promises about one document, without requests, *)
(* databases or buckets: a stage that moves from draft to fully signed, and *)
(* the stamps a reader finds on the stored PDF. A stage is only claimed    *)
(* once the stamp that justifies it is on the PDF.                         *)
(***************************************************************************)

VARIABLES
  stage,   \* "DRAFT", "SIGNED_BY_PARTY_A", "INVITATION_SENT", "FULLY_SIGNED", "DELETED"
  stamps   \* which parties' stamps the stored PDF carries, a subset of {"A", "B"}

vars == <<stage, stamps>>

Init == stage = "DRAFT" /\ stamps = {}

\* Party A's stamp is drawn while the document is a draft.
StampA ==
  /\ stage = "DRAFT"
  /\ stamps' = stamps \cup {"A"}
  /\ UNCHANGED stage

\* The draft becomes a signed document only with the stamp in place.
RecordA ==
  /\ stage = "DRAFT"
  /\ "A" \in stamps
  /\ stage' = "SIGNED_BY_PARTY_A"
  /\ UNCHANGED stamps

\* Inviting, and inviting again, needs Party A's signature.
Invite ==
  /\ stage = "SIGNED_BY_PARTY_A"
  /\ stage' = "INVITATION_SENT"
  /\ UNCHANGED stamps

\* Party B stamps a PDF that carries Party A's stamp.
StampB ==
  /\ stage \in {"INVITATION_SENT", "FULLY_SIGNED"}
  /\ "A" \in stamps
  /\ stamps' = stamps \cup {"B"}
  /\ UNCHANGED stage

RecordB ==
  /\ stage = "INVITATION_SENT"
  /\ {"A", "B"} \subseteq stamps
  /\ stage' = "FULLY_SIGNED"
  /\ UNCHANGED stamps

\* A deletion first destroys the PDF, then the document.
Erase == stamps' = {} /\ UNCHANGED stage

Delete ==
  /\ stamps = {}
  /\ stage' = "DELETED"
  /\ UNCHANGED stamps

Next == StampA \/ RecordA \/ Invite \/ StampB \/ RecordB \/ Erase \/ Delete

Spec == Init /\ [][Next]_vars
=============================================================================
