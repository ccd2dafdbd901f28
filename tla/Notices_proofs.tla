--------------------------- MODULE Notices_proofs ---------------------------
(***************************************************************************)
(* Theorems about Notices for any users and subscribers, and for any bound *)
(* on messages and failures.                                               *)
(***************************************************************************)
EXTENDS Notices, TLAPS

\* Where a group is, and goes on, lies behind what it has skipped.
GroupInv(g) ==
  /\ \A n \in skipped[g] : n < Behind(g)
  /\ position[g] # 0 => committed[g] <= position[g] /\ \A n \in skipped[g] : n < position[g]
  /\ committed[g] # 0 => \A n \in skipped[g] : n < committed[g]

\* The notifier is past handled messages only, and has done for its message what the step
\* it is at follows.
NotifierInv ==
  /\ position[Notifier] <= Len(assigned) + 1 /\ committed[Notifier] <= Len(assigned) + 1
  /\ shown \subseteq 1..Len(assigned)
  /\ GroupInv(Notifier)
  /\ \A o \in 1..Len(assigned) : o < position[Notifier] \/ o < committed[Notifier] =>
       o \in skipped[Notifier] \/ Notified(o)
  /\ step[Notifier] # "ready" => position[Notifier] \in 1..Len(assigned) /\ notices[position[Notifier]] > 0
  /\ step[Notifier] \in {"queue", "done"} => position[Notifier] \in shown
  /\ step[Notifier] = "done" => Notified(position[Notifier])

MailerInv ==
  /\ GroupInv(Mailer)
  /\ step[Mailer] \in {"ready", "done"}
  /\ step[Mailer] = "done" => position[Mailer] # 0
  /\ \A m \in MailOffsets :
       \/ m < position[Mailer]
       \/ m < committed[Mailer]
       \/ m = position[Mailer] /\ step[Mailer] = "done"
       => m \in skipped[Mailer] \/ mails[m] > 0

HandledInv == TypeOK /\ NotifierInv /\ MailerInv

\* What is still to be handled, possibly again, was repeated for failures only; the
\* message in hand has been repeated once more.
RepeatInv ==
  /\ \A o \in Offsets :
       notices[o] <= failures + (IF o < position[Notifier] \/ (o = position[Notifier] /\ step[Notifier] # "ready")
                                 THEN 1 ELSE 0)
  /\ \A m \in MailOffsets :
       mails[m] <= failures + (IF m < position[Mailer] \/ (m = position[Mailer] /\ step[Mailer] # "ready")
                               THEN 1 ELSE 0)

-----------------------------------------------------------------------------

LEMMA Assigned ==
  ASSUME TypeOK
  PROVE  /\ Len(assigned) \in Nat /\ Len(assigned) <= MaxMessages /\ MaxMessages \in Nat /\ MaxFailures \in Nat
         /\ 1..Len(assigned) \subseteq Offsets
         /\ Offsets \subseteq Nat \ {0} /\ MailOffsets \subseteq Nat \ {0}
  BY NoticesAssumption DEF TypeOK, Offsets, MailOffsets

LEMMA HandledInit == Init => HandledInv
<1> SUFFICES ASSUME Init PROVE HandledInv
  OBVIOUS
<1>1. TypeOK
  BY NoticesAssumption DEF Init, TypeOK, Groups
<1>2. /\ assigned = <<>> /\ shown = {}
      /\ \A g \in Groups : position[g] = 0 /\ committed[g] \in {0, 1} /\ skipped[g] = {} /\ step[g] = "ready"
      /\ Notifier \in Groups /\ Mailer \in Groups
  BY DEF Init, Groups
<1>3. NotifierInv
  BY <1>2 DEF NotifierInv, GroupInv
<1>4. MailerInv
  BY <1>1, <1>2, Assigned DEF MailerInv, GroupInv
<1> QED
  BY <1>1, <1>3, <1>4 DEF HandledInv

\* A new assignment disturbs nothing that was handled.
LEMMA AfterAssign ==
  ASSUME HandledInv, NEW u \in Users, Assign(u)
  PROVE  HandledInv'
<1> USE DEF HandledInv
<1>1. /\ assigned' = Append(assigned, u) /\ Len(assigned) < MaxMessages
      /\ UNCHANGED <<outbox, notices, shown, mails, position, begun, committed, skipped, step, failures>>
  BY DEF Assign, effects, consumer
<1>2. /\ Len(assigned') = Len(assigned) + 1 /\ Len(assigned) \in Nat
      /\ \A o \in 1..Len(assigned) : assigned'[o] = assigned[o]
  BY <1>1 DEF TypeOK
<1>3. TypeOK'
  BY <1>1, <1>2, Assigned DEF TypeOK
<1>4. position[Notifier] \in Nat /\ committed[Notifier] \in Nat /\ Notifier \in Groups /\ skipped[Notifier] \subseteq Nat
  BY DEF TypeOK, Groups
<1>5. \A o \in 1..Len(assigned) : Notified(o) => Notified(o)'
  BY <1>1, <1>2 DEF Notified, Queued
<1>6. GroupInv(Notifier)'
  BY <1>1, <1>2, <1>4 DEF NotifierInv, GroupInv, Behind
<1>7. NotifierInv'
  BY <1>1, <1>2, <1>4, <1>5, <1>6 DEF NotifierInv
<1>8. MailerInv'
  BY <1>1 DEF MailerInv, GroupInv, Behind, Mailer, Notifier
<1> QED
  BY <1>3, <1>7, <1>8

LEMMA AfterNotifier ==
  ASSUME HandledInv, Store \/ Broadcast \/ QueueMail
  PROVE  HandledInv'
<1> USE DEF HandledInv
<1> DEFINE o == position[Notifier]
<1>1. o \in Nat /\ step[Notifier] \in {"ready", "stored", "queue", "done"} /\ Notifier \in Groups /\ Mailer \in Groups
      /\ Notifier # Mailer
  BY DEF TypeOK, Groups, Notifier, Mailer
<1>2. /\ Len(assigned) \in Nat /\ \A p \in 1..Len(assigned) : p \in Offsets
      /\ o \in 1..Len(assigned) /\ o \in Offsets
  <2>1. Len(assigned) \in Nat /\ DOMAIN assigned = 1..Len(assigned)
    BY DEF TypeOK
  <2>2. o \in 1..Len(assigned)
    <3>1. CASE step[Notifier] = "ready"
      BY <2>1, <3>1 DEF Store, Broadcast, QueueMail
    <3>2. CASE step[Notifier] # "ready"
      BY <3>2 DEF NotifierInv
    <3> QED
      BY <3>1, <3>2
  <2> QED
    BY <2>1, <2>2, Assigned
<1>3. CASE Store
  <2>1. notices' \in [Offsets -> Nat] /\ notices'[o] > 0 /\ \A p \in Offsets : notices[p] > 0 => notices'[p] > 0
    BY <1>2, <1>3 DEF Store, TypeOK
  <2>2. step' \in [Groups -> {"ready", "stored", "queue", "done"}] /\ step'[Notifier] = "stored" /\ step'[Mailer] = step[Mailer]
    BY <1>1, <1>3 DEF Store, Goto, TypeOK
  <2>3. UNCHANGED <<assigned, outbox, shown, mails, position, begun, committed, skipped, failures>>
    BY <1>3 DEF Store, topics, consumer
  <2>4. TypeOK'
    BY <2>1, <2>2, <2>3 DEF TypeOK
  <2>5. GroupInv(Notifier)' /\ (GroupInv(Mailer) => GroupInv(Mailer)')
    BY <2>3 DEF NotifierInv, GroupInv, Behind
  <2>6. \A p \in 1..Len(assigned) : Notified(p) => Notified(p)'
    BY <1>2, <2>1, <2>3 DEF Notified, Queued
  <2>7. NotifierInv'
    BY <1>2, <2>1, <2>2, <2>3, <2>5, <2>6 DEF NotifierInv
  <2> QED
    BY <2>2, <2>3, <2>4, <2>5, <2>7 DEF MailerInv
<1>4. CASE Broadcast
  <2>1. UNCHANGED <<assigned, outbox, notices, mails, position, begun, committed, skipped, failures>>
        /\ shown' = shown \cup {o} /\ step[Notifier] = "stored"
    BY <1>4 DEF Broadcast, topics, consumer
  <2>2. /\ step' \in [Groups -> {"ready", "stored", "queue", "done"}] /\ step'[Mailer] = step[Mailer]
        /\ step'[Notifier] = IF assigned[o] \in Subscribers THEN "queue" ELSE "done"
    BY <1>1, <1>4 DEF Broadcast, Goto, TypeOK
  <2>3. TypeOK'
    BY <1>2, <2>1, <2>2 DEF TypeOK
  <2>4. \A p \in Offsets : Notified(p) => Notified(p)'
    BY <2>1 DEF Notified, Queued
  <2>5. step'[Notifier] = "done" => Notified(position[Notifier])'
    BY <2>1, <2>2 DEF NotifierInv, Notified
  <2>6. GroupInv(Notifier)' /\ (GroupInv(Mailer) => GroupInv(Mailer)')
    BY <2>1 DEF NotifierInv, GroupInv, Behind
  <2>7. notices'[position'[Notifier]] > 0 /\ position'[Notifier] \in 1..Len(assigned')
    BY <1>2, <2>1 DEF NotifierInv
  <2>8. shown' \subseteq 1..Len(assigned') /\ position'[Notifier] \in shown'
    BY <1>2, <2>1 DEF NotifierInv
  <2>9. NotifierInv'
    BY <1>2, <2>1, <2>4, <2>5, <2>6, <2>7, <2>8 DEF NotifierInv
  <2> QED
    BY <2>1, <2>2, <2>3, <2>6, <2>9 DEF MailerInv
<1>5. CASE QueueMail
  <2>1. UNCHANGED <<assigned, shown, notices, mails, position, begun, committed, skipped, failures>>
        /\ outbox' = Append(outbox, o) /\ step[Notifier] = "queue"
    BY <1>5 DEF QueueMail, effects, consumer
  <2>2. /\ step' \in [Groups -> {"ready", "stored", "queue", "done"}] /\ step'[Mailer] = step[Mailer]
        /\ step'[Notifier] = "done"
    BY <1>1, <1>5 DEF QueueMail, Goto, TypeOK
  <2>3. outbox' \in Seq(Offsets) /\ Queued(o)' /\ \A p \in Offsets : Queued(p) => Queued(p)'
    <3>1. outbox \in Seq(Offsets) /\ o \in Offsets
      BY <1>2 DEF TypeOK
    <3>2. /\ outbox' \in Seq(Offsets) /\ Len(outbox') = Len(outbox) + 1 /\ outbox'[Len(outbox) + 1] = o
          /\ \A m \in DOMAIN outbox : m \in DOMAIN outbox' /\ outbox'[m] = outbox[m]
      BY <2>1, <3>1
    <3>3. Len(outbox) + 1 \in DOMAIN outbox'
      BY <3>1, <3>2
    <3>4. Queued(o)'
      BY <2>1, <3>2, <3>3 DEF Queued
    <3>5. ASSUME NEW p \in Offsets, Queued(p) PROVE Queued(p)'
      BY <3>2, <3>5 DEF Queued
    <3> QED
      BY <3>2, <3>4, <3>5
  <2>4. TypeOK'
    BY <2>1, <2>2, <2>3 DEF TypeOK
  <2>5. \A p \in Offsets : Notified(p) => Notified(p)'
    BY <2>1, <2>3 DEF Notified
  <2>6. Notified(o)'
    BY <2>1, <2>3 DEF NotifierInv, Notified
  <2>7. GroupInv(Notifier)'
    BY <2>1 DEF NotifierInv, GroupInv, Behind
  <2>8. NotifierInv'
    BY <1>2, <2>1, <2>2, <2>5, <2>6, <2>7 DEF NotifierInv
  <2>9. ASSUME GroupInv(Mailer) PROVE GroupInv(Mailer)'
    <3>1. Len(outbox) \in Nat /\ Len(outbox') = Len(outbox) + 1
      BY <1>2, <2>1 DEF TypeOK
    <3>2. \A n \in skipped[Mailer] : n \in Nat
      BY <1>1 DEF TypeOK
    <3> QED
      BY <1>1, <2>1, <2>9, <3>1, <3>2 DEF GroupInv, Behind
  <2> QED
    BY <2>1, <2>2, <2>4, <2>8, <2>9 DEF MailerInv
<1> QED
  BY <1>3, <1>4, <1>5

LEMMA AfterSendMail ==
  ASSUME HandledInv, SendMail
  PROVE  HandledInv'
<1> USE DEF HandledInv
<1> DEFINE m == position[Mailer]
<1>1. /\ m \in Nat /\ Notifier \in Groups /\ Mailer \in Groups /\ Notifier # Mailer
      /\ outbox \in Seq(Offsets) /\ m \in DOMAIN outbox
  BY DEF SendMail, TypeOK, Groups, Notifier, Mailer
<1>2. m # 0
  BY <1>1
<1>3. /\ mails' \in [MailOffsets -> Nat]
      /\ \A l \in MailOffsets : mails[l] > 0 \/ l = m => mails'[l] > 0
  <2>1. mails \in [MailOffsets -> Nat] /\ mails' = [mails EXCEPT ![m] = mails[m] + 1]
    BY DEF SendMail, TypeOK
  <2>2. CASE m \in MailOffsets
    BY <2>1, <2>2
  <2>3. CASE m \notin MailOffsets
    BY <2>1, <2>3
  <2> QED
    BY <2>2, <2>3
<1>4. /\ step' \in [Groups -> {"ready", "stored", "queue", "done"}]
      /\ step'[Notifier] = step[Notifier] /\ step'[Mailer] = "done"
  BY <1>1 DEF SendMail, Goto, TypeOK
<1>5. UNCHANGED <<assigned, outbox, notices, shown, position, begun, committed, skipped, failures>>
  BY DEF SendMail, topics, consumer
<1>6. TypeOK'
  BY <1>3, <1>4, <1>5 DEF TypeOK
<1>7. NotifierInv'
  BY <1>4, <1>5 DEF NotifierInv, GroupInv, Behind, Notified, Queued
<1>8. MailerInv'
  BY <1>2, <1>3, <1>4, <1>5 DEF MailerInv, GroupInv, Behind
<1> QED
  BY <1>6, <1>7, <1>8

-----------------------------------------------------------------------------
(* The consumers *)

Runner(g) == Resolve(g) \/ Commit(g) \/ Throw(g) \/ Crash(g) \/ Join(g)

\* How the runner moves a group.
LEMMA RunnerEffect ==
  ASSUME TypeOK, NEW g \in Groups, Runner(g)
  PROVE  /\ UNCHANGED <<assigned, outbox, notices, shown, mails>>
         /\ failures' \in 0..MaxFailures /\ failures' >= failures
         /\ position' \in [Groups -> Nat] /\ begun' \in [Groups -> Nat]
         /\ committed' \in [Groups -> Nat] /\ skipped' \in [Groups -> SUBSET Nat]
         /\ step' \in [Groups -> {"ready", "stored", "queue", "done"}]
         /\ \A h \in Groups \ {g} : /\ position'[h] = position[h] /\ committed'[h] = committed[h]
                                    /\ step'[h] = step[h] /\ skipped'[h] = skipped[h]
         /\ \/ /\ step[g] = "done" /\ step'[g] = "ready" /\ committed'[g] = committed[g]
               /\ position'[g] = position[g] + 1 /\ failures' = failures /\ skipped'[g] = skipped[g]
            \/ /\ step'[g] = step[g] /\ committed'[g] = position[g] /\ position'[g] = position[g]
               /\ position[g] # 0 /\ failures' = failures /\ skipped'[g] = skipped[g]
            \/ /\ step[g] # "ready" /\ step'[g] = "ready" /\ committed'[g] = committed[g]
               /\ position'[g] = position[g] /\ failures' = failures + 1 /\ skipped'[g] = skipped[g]
            \/ /\ step'[g] = "ready" /\ committed'[g] = committed[g] /\ position[g] # 0 /\ position'[g] = 0
               /\ failures' = failures + 1 /\ skipped'[g] = skipped[g]
            \/ /\ step'[g] = step[g] /\ committed'[g] = committed[g] /\ failures' = failures
               /\ position[g] = 0 /\ committed[g] # 0
               /\ position'[g] = committed[g] /\ skipped'[g] = skipped[g]
            \/ /\ step'[g] = step[g] /\ committed'[g] = committed[g] /\ failures' = failures
               /\ position[g] = 0 /\ committed[g] = 0
               /\ position'[g] = Behind(g) /\ skipped'[g] = skipped[g] \cup Unhandled(g)
<1>1. /\ position \in [Groups -> Nat] /\ committed \in [Groups -> Nat] /\ begun \in [Groups -> Nat]
      /\ skipped \in [Groups -> SUBSET Nat]
      /\ step \in [Groups -> {"ready", "stored", "queue", "done"}] /\ failures \in 0..MaxFailures
      /\ MaxFailures \in Nat
  BY NoticesAssumption DEF TypeOK
<1>2. CASE Resolve(g)
  BY <1>1, <1>2 DEF Resolve, Goto, topics, effects
<1>3. CASE Commit(g)
  BY <1>1, <1>3 DEF Commit, topics, effects
<1>4. CASE Throw(g)
  BY <1>1, <1>4 DEF Throw, Goto, topics, effects, consumer
<1>5. CASE Crash(g)
  BY <1>1, <1>5 DEF Crash, Goto, topics, effects
<1>6. CASE Join(g)
  <2>1. Behind(g) \in Nat /\ Unhandled(g) \subseteq Nat
    <3>1. DOMAIN assigned = 1..Len(assigned) /\ DOMAIN outbox = 1..Len(outbox) /\ Len(assigned) \in Nat /\ Len(outbox) \in Nat
      BY DEF TypeOK
    <3> QED
      BY <3>1 DEF Behind, Unhandled
  <2>2. UNCHANGED <<assigned, outbox, notices, shown, mails, committed, step, failures>> /\ position[g] = 0
    BY <1>6 DEF Join, topics, effects
  <2>3. position' = [position EXCEPT ![g] = IF committed[g] = 0 THEN Behind(g) ELSE committed[g]]
        /\ begun' = [begun EXCEPT ![g] = position'[g]]
        /\ skipped' = IF committed[g] = 0 THEN [skipped EXCEPT ![g] = @ \cup Unhandled(g)] ELSE skipped
    BY <1>6 DEF Join
  <2> QED
    BY <1>1, <2>1, <2>2, <2>3
<1> QED
  BY <1>2, <1>3, <1>4, <1>5, <1>6 DEF Runner

\* What a group that never committed is about to skip lies before where it begins.
LEMMA SkippedBehind ==
  ASSUME TypeOK, NEW g \in Groups
  PROVE  Behind(g) \in Nat \ {0} /\ \A n \in Unhandled(g) : n \in Nat /\ n < Behind(g)
<1>1. DOMAIN assigned = 1..Len(assigned) /\ DOMAIN outbox = 1..Len(outbox) /\ Len(assigned) \in Nat /\ Len(outbox) \in Nat
  BY DEF TypeOK
<1> QED
  BY <1>1 DEF Behind, Unhandled

LEMMA GroupNext ==
  ASSUME TypeOK, NEW g \in Groups, Runner(g), step[g] # "ready" => position[g] # 0,
         NEW h \in Groups, GroupInv(h)
  PROVE  GroupInv(h)'
<1>1. /\ position[h] \in Nat /\ committed[h] \in Nat /\ Behind(h) \in Nat \ {0}
      /\ \A n \in skipped[h] : n \in Nat
      /\ \A n \in Unhandled(h) : n \in Nat /\ n < Behind(h)
  BY SkippedBehind DEF TypeOK
<1>2. Behind(h)' = Behind(h)
  BY RunnerEffect DEF Behind
<1>3. CASE h # g
  BY <1>2, <1>3, RunnerEffect DEF GroupInv
<1>4. CASE h = g
  <2>1. CASE skipped'[h] = skipped[h]
    <3>1. \/ position[h] # 0 /\ position'[h] = position[h] + 1 /\ committed'[h] = committed[h]
          \/ position[h] # 0 /\ position'[h] = position[h] /\ committed'[h] = position[h]
          \/ position'[h] = position[h] /\ committed'[h] = committed[h]
          \/ position'[h] \in {0, committed[h]} /\ committed'[h] = committed[h]
          \/ committed'[h] = 0 /\ position'[h] = Behind(h)
      BY <1>4, RunnerEffect
    <3> QED
      BY <1>1, <1>2, <2>1, <3>1 DEF GroupInv
  <2>2. CASE skipped'[h] # skipped[h]
    <3>1. /\ committed'[h] = committed[h] /\ committed[h] = 0
          /\ position'[h] = Behind(h) /\ skipped'[h] = skipped[h] \cup Unhandled(h)
      BY <1>4, <2>2, RunnerEffect
    <3>2. \A n \in skipped'[h] : n < Behind(h)
      BY <1>1, <3>1 DEF GroupInv
    <3> QED
      BY <1>1, <1>2, <3>1, <3>2 DEF GroupInv
  <2> QED
    BY <2>1, <2>2
<1> QED
  BY <1>3, <1>4

LEMMA AfterRunner ==
  ASSUME HandledInv, NEW g \in Groups, Runner(g)
  PROVE  HandledInv'
<1> USE DEF HandledInv
<1>1. Notifier \in Groups /\ Mailer \in Groups /\ g \in {Notifier, Mailer} /\ Notifier # Mailer
  BY DEF Groups, Notifier, Mailer
<1>2. TypeOK'
  BY RunnerEffect DEF TypeOK
<1>3. /\ Len(assigned) \in Nat /\ position[Notifier] \in Nat /\ position[Mailer] \in Nat
      /\ committed[Notifier] \in Nat /\ committed[Mailer] \in Nat
      /\ \A m \in MailOffsets : m \in Nat \ {0}
  BY <1>1, Assigned DEF TypeOK
<1>4. UNCHANGED <<assigned, outbox, notices, shown, mails>>
  BY RunnerEffect
<1>5. GroupInv(Notifier)' /\ GroupInv(Mailer)'
  <2>1. step[g] # "ready" => position[g] # 0
    BY <1>1, <1>3 DEF NotifierInv, MailerInv
  <2> QED
    BY <1>1, <2>1, GroupNext DEF NotifierInv, MailerInv
<1>6. \A o \in Offsets : Notified(o)' = Notified(o)
  BY <1>4 DEF Notified, Queued
<1>7. CASE g = Notifier
  <2>1. MailerInv'
    BY <1>1, <1>4, <1>5, <1>7, RunnerEffect DEF MailerInv
  <2>2. Behind(g) = Len(assigned) + 1 /\ Unhandled(g) = {o \in 1..Len(assigned) : ~Notified(o)}
    BY <1>3, <1>7 DEF Behind, Unhandled, TypeOK
  <2>3. step[Notifier] # "ready" => position[Notifier] # 0
    BY DEF NotifierInv
  <2>4. /\ position'[Notifier] <= Len(assigned) + 1 /\ committed'[Notifier] <= Len(assigned) + 1
        /\ step'[Notifier] # "ready" =>
             /\ position'[Notifier] = position[Notifier] /\ position[Notifier] # 0
             /\ step'[Notifier] = step[Notifier]
    BY <1>3, <1>7, <2>2, <2>3, RunnerEffect DEF NotifierInv
  <2>5. ASSUME NEW o \in 1..Len(assigned), o < position'[Notifier] \/ o < committed'[Notifier]
        PROVE  o \in skipped'[Notifier] \/ Notified(o)
    <3>1. skipped[Notifier] \subseteq skipped'[Notifier]
      BY <1>7, RunnerEffect
    <3>2. CASE o < position[Notifier] \/ o < committed[Notifier]
      BY <3>1, <3>2 DEF NotifierInv
    <3>3. CASE step[Notifier] = "done" /\ o = position[Notifier]
      BY <3>3 DEF NotifierInv
    <3>4. CASE o \in Unhandled(g) /\ skipped'[Notifier] = skipped[Notifier] \cup Unhandled(g)
      BY <3>4
    <3>5. CASE o \notin Unhandled(g)
      BY <2>2, <3>5
    <3>6. \/ /\ step[Notifier] = "done"
             /\ position'[Notifier] = position[Notifier] + 1 /\ committed'[Notifier] = committed[Notifier]
          \/ /\ position'[Notifier] \in {0, position[Notifier], committed[Notifier]}
             /\ committed'[Notifier] \in {position[Notifier], committed[Notifier]}
          \/ skipped'[Notifier] = skipped[Notifier] \cup Unhandled(g)
      BY <1>7, RunnerEffect
    <3> QED
      BY <1>3, <2>5, <3>2, <3>3, <3>4, <3>5, <3>6
  <2>6. \A o \in 1..Len(assigned) : o \in Offsets
    BY Assigned
  <2>7. NotifierInv'
    BY <1>4, <1>5, <1>6, <2>4, <2>5, <2>6 DEF NotifierInv
  <2> QED
    BY <1>2, <2>1, <2>7
<1>8. CASE g = Mailer
  <2>1. NotifierInv'
    <3>1. position'[Notifier] = position[Notifier] /\ committed'[Notifier] = committed[Notifier]
          /\ step'[Notifier] = step[Notifier] /\ skipped'[Notifier] = skipped[Notifier]
      BY <1>1, <1>8, RunnerEffect
    <3>2. \A o : Notified(o)' = Notified(o)
      BY <1>4 DEF Notified, Queued
    <3> QED
      BY <1>4, <1>5, <3>1, <3>2 DEF NotifierInv
  <2>2. Behind(g) = Len(outbox) + 1 /\ Len(outbox) \in Nat /\ Unhandled(g) = {m \in 1..Len(outbox) : mails[m] = 0}
    BY <1>1, <1>8 DEF Behind, Unhandled, TypeOK
  <2>3. step'[Mailer] \in {"ready", "done"} /\ (step'[Mailer] = "done" => position'[Mailer] # 0)
    BY <1>3, <1>8, RunnerEffect DEF MailerInv
  <2>4. ASSUME NEW m \in MailOffsets,
               \/ m < position'[Mailer]
               \/ m < committed'[Mailer]
               \/ m = position'[Mailer] /\ step'[Mailer] = "done"
        PROVE  m \in skipped'[Mailer] \/ mails[m] > 0
    <3>1. skipped[Mailer] \subseteq skipped'[Mailer] /\ mails[m] \in Nat
      BY <1>8, RunnerEffect DEF TypeOK
    <3>2. CASE \/ m < position[Mailer]
               \/ m < committed[Mailer]
               \/ m = position[Mailer] /\ step[Mailer] = "done"
      BY <3>1, <3>2 DEF MailerInv
    <3>3. CASE m < Behind(g) /\ skipped'[Mailer] = skipped[Mailer] \cup Unhandled(g)
      BY <1>3, <2>2, <3>1, <3>3
    <3> QED
      BY <1>3, <1>8, <2>3, <2>4, <3>2, <3>3, RunnerEffect DEF MailerInv
  <2>5. MailerInv'
    BY <1>4, <1>5, <2>3, <2>4 DEF MailerInv
  <2> QED
    BY <1>2, <2>1, <2>5
<1> QED
  BY <1>1, <1>7, <1>8

\* What a step is: something the environment, a handler or the runner does.
LEMMA Steps ==
  ASSUME [Next]_vars
  PROVE  \/ \E u \in Users : Assign(u)
         \/ Store \/ Broadcast \/ QueueMail
         \/ SendMail
         \/ \E g \in Groups : Runner(g)
         \/ UNCHANGED vars
  BY DEF Next, Handle, Runner

LEMMA HandledNext == HandledInv /\ [Next]_vars => HandledInv'
<1> SUFFICES ASSUME HandledInv, [Next]_vars PROVE HandledInv'
  OBVIOUS
<1>1. CASE UNCHANGED vars
  BY <1>1 DEF vars, topics, effects, consumer, HandledInv, TypeOK, NotifierInv, MailerInv, GroupInv, Behind, Notified, Queued
<1> QED
  BY <1>1, Steps, AfterAssign, AfterNotifier, AfterSendMail, AfterRunner

LEMMA AlwaysHandled == Spec => []HandledInv
  BY HandledInit, HandledNext, PTL DEF Spec

\* No crash, no exception and no rebalance makes a group that has committed skip a message:
\* what lies before where it is, or goes on, was handled to the end, unless a consumer of
\* the group began behind it before that commit.
THEOREM NothingIsSkipped == Spec => []CommittedIsHandled
<1>1. HandledInv => CommittedIsHandled
  <2> SUFFICES ASSUME HandledInv PROVE CommittedIsHandled
    OBVIOUS
  <2>1. /\ Len(assigned) \in Nat /\ \A o \in Offsets : o \in Nat \ {0}
        /\ \A g \in Groups : position[g] \in Nat /\ committed[g] \in Nat
        /\ Notifier \in Groups /\ Mailer \in Groups /\ Groups = {Notifier, Mailer}
    BY Assigned DEF HandledInv, TypeOK, Groups
  <2>2. \A o \in Offsets : o < position[Notifier] \/ o < committed[Notifier] =>
          o \in skipped[Notifier] \/ Notified(o)
    BY <2>1 DEF HandledInv, NotifierInv
  <2>3. \A m \in MailOffsets : m < position[Mailer] \/ m < committed[Mailer] =>
          m \in skipped[Mailer] \/ mails[m] > 0
    BY DEF HandledInv, MailerInv
  <2>4. \A g \in Groups : GroupInv(g)
    BY <2>1 DEF HandledInv, NotifierInv, MailerInv
  <2> QED
    BY <2>2, <2>3, <2>4 DEF CommittedIsHandled, HandledInv, GroupInv
<1> QED
  BY <1>1, AlwaysHandled, PTL

-----------------------------------------------------------------------------
(* How often a message is handled *)

LEMMA RepeatNext == HandledInv /\ RepeatInv /\ [Next]_vars => RepeatInv'
<1> SUFFICES ASSUME HandledInv, RepeatInv, [Next]_vars PROVE RepeatInv'
  OBVIOUS
<1>1. /\ Notifier \in Groups /\ Mailer \in Groups /\ Notifier # Mailer
      /\ position[Notifier] \in Nat /\ position[Mailer] \in Nat
      /\ committed[Notifier] \in Nat /\ committed[Mailer] \in Nat
      /\ \A o \in Offsets : o \in Nat \ {0} /\ notices[o] \in Nat
      /\ \A m \in MailOffsets : m \in Nat \ {0} /\ mails[m] \in Nat
      /\ failures \in Nat
      /\ notices \in [Offsets -> Nat] /\ mails \in [MailOffsets -> Nat]
      /\ step \in [Groups -> {"ready", "stored", "queue", "done"}]
  <2>1. TypeOK /\ Notifier \in Groups /\ Mailer \in Groups /\ Notifier # Mailer
    BY DEF HandledInv, Groups, Notifier, Mailer
  <2>2. Offsets \subseteq Nat \ {0} /\ MailOffsets \subseteq Nat \ {0} /\ failures \in Nat
    BY <2>1, Assigned DEF TypeOK
  <2> QED
    BY <2>1, <2>2 DEF TypeOK
<1>2. CASE Store
  <2> DEFINE p == position[Notifier]
  <2>1. /\ UNCHANGED <<mails, position, failures>> /\ notices' = [notices EXCEPT ![p] = @ + 1]
        /\ step[Notifier] = "ready" /\ step' = [step EXCEPT ![Notifier] = "stored"]
    BY <1>2 DEF Store, Goto, consumer
  <2>2. step'[Notifier] = "stored" /\ step'[Mailer] = step[Mailer]
    BY <1>1, <2>1
  <2>3. ASSUME NEW o \in Offsets
        PROVE  notices'[o] <= failures + (IF o < p \/ (o = p /\ step'[Notifier] # "ready") THEN 1 ELSE 0)
    <3>1. /\ notices'[o] = IF o = p THEN notices[o] + 1 ELSE notices[o]
          /\ notices[o] <= failures + (IF o < p THEN 1 ELSE 0)
      BY <1>1, <2>1 DEF RepeatInv
    <3> QED
      BY <1>1, <2>2, <3>1
  <2> QED
    BY <2>1, <2>2, <2>3 DEF RepeatInv
<1>3. CASE Broadcast \/ QueueMail
  <2>1. UNCHANGED <<notices, mails, position, failures>> /\ step'[Mailer] = step[Mailer] /\ step[Notifier] # "ready"
    BY <1>1, <1>3 DEF Broadcast, QueueMail, Goto, effects, consumer
  <2>2. step'[Notifier] # "ready"
    BY <1>1, <1>3 DEF Broadcast, QueueMail, Goto
  <2> QED
    BY <2>1, <2>2 DEF RepeatInv
<1>4. CASE SendMail
  BY <1>1, <1>4 DEF SendMail, Goto, consumer, RepeatInv
<1>5. ASSUME NEW g \in Groups, Runner(g) PROVE RepeatInv'
  <2>1. g \in {Notifier, Mailer} /\ TypeOK /\ UNCHANGED <<notices, mails>>
    BY <1>5, RunnerEffect DEF Groups, HandledInv
  <2>2. CASE g = Notifier
    <3>1. failures' \in Nat /\ failures' >= failures /\ position'[Mailer] = position[Mailer] /\ step'[Mailer] = step[Mailer]
      BY <1>1, <1>5, <2>1, <2>2, RunnerEffect
    <3>2. \/ failures' = failures + 1
          \/ position'[Notifier] = position[Notifier] /\ step'[Notifier] = step[Notifier]
          \/ step[Notifier] = "done" /\ position'[Notifier] = position[Notifier] + 1
          \/ position[Notifier] = 0 /\ step'[Notifier] = step[Notifier]
      BY <1>5, <2>1, <2>2, RunnerEffect
    <3>3. position'[Notifier] \in Nat
      BY <1>1, <1>5, <2>1, RunnerEffect
    <3> QED
      BY <1>1, <2>1, <3>1, <3>2, <3>3 DEF RepeatInv
  <2>3. CASE g = Mailer
    <3>1. failures' \in Nat /\ failures' >= failures /\ position'[Notifier] = position[Notifier] /\ step'[Notifier] = step[Notifier]
      BY <1>1, <1>5, <2>1, <2>3, RunnerEffect
    <3>2. \/ failures' = failures + 1
          \/ position'[Mailer] = position[Mailer] /\ step'[Mailer] = step[Mailer]
          \/ step[Mailer] = "done" /\ position'[Mailer] = position[Mailer] + 1
          \/ position[Mailer] = 0 /\ step'[Mailer] = step[Mailer]
      BY <1>5, <2>1, <2>3, RunnerEffect
    <3>3. position'[Mailer] \in Nat
      BY <1>1, <1>5, <2>1, RunnerEffect
    <3> QED
      BY <1>1, <2>1, <3>1, <3>2, <3>3 DEF RepeatInv
  <2> QED
    BY <2>1, <2>2, <2>3
<1>6. CASE UNCHANGED vars \/ \E u \in Users : Assign(u)
  BY <1>6 DEF vars, Assign, effects, consumer, RepeatInv
<1> QED
  BY <1>2, <1>3, <1>4, <1>5, <1>6, Steps

LEMMA Repeated == Spec => []RepeatInv
<1>1. Init => RepeatInv
  BY NoticesAssumption DEF Init, RepeatInv, Offsets, MailOffsets
<1> QED
  BY <1>1, RepeatNext, AlwaysHandled, PTL DEF Spec

\* A notification is stored again, and a mail is sent again, only for a handler that threw
\* or a consumer that crashed.
THEOREM RepetitionIsPaidFor == Spec => []RepeatsNeedFailures
<1>1. HandledInv /\ RepeatInv => RepeatsNeedFailures
  BY DEF HandledInv, TypeOK, RepeatInv, RepeatsNeedFailures
<1> QED
  BY <1>1, Repeated, AlwaysHandled, PTL

-----------------------------------------------------------------------------
(* The order of the mails *)

LEMMA OrderNext == HandledInv /\ MailsKeepTheOrder /\ [Next]_vars => MailsKeepTheOrder'
<1> SUFFICES ASSUME HandledInv, MailsKeepTheOrder, [Next]_vars PROVE MailsKeepTheOrder'
  OBVIOUS
<1>1. /\ outbox \in Seq(Offsets) /\ Len(outbox) \in Nat /\ DOMAIN outbox = 1..Len(outbox)
      /\ assigned \in Seq(Users) /\ Len(assigned) \in Nat
      /\ shown \subseteq 1..Len(assigned) /\ Notifier \in Groups
  BY DEF HandledInv, TypeOK, NotifierInv, Groups
<1>2. ASSUME NEW u \in Users, Assign(u) PROVE MailsKeepTheOrder'
  <2>1. assigned' = Append(assigned, u) /\ UNCHANGED <<outbox, shown, skipped>>
    BY <1>2 DEF Assign, effects, consumer
  <2>2. ASSUME NEW m \in DOMAIN outbox, NEW o \in 1..(outbox[m] - 1)
        PROVE  assigned'[o] = assigned[o]
    <3>1. outbox[m] \in 1..Len(assigned)
      BY <1>1 DEF MailsKeepTheOrder
    <3>2. o \in 1..Len(assigned)
      BY <1>1, <3>1
    <3> QED
      BY <1>1, <2>1, <3>2
  <2>3. ASSUME NEW m \in DOMAIN outbox, NEW o \in 1..(outbox[m] - 1), assigned'[o] \in Subscribers
        PROVE  o \in skipped[Notifier] \/ \E l \in 1..(m - 1) : outbox[l] = o
    BY <2>2, <2>3 DEF MailsKeepTheOrder
  <2>4. \A m \in DOMAIN outbox : outbox[m] \in shown
    BY DEF MailsKeepTheOrder
  <2>5. UNCHANGED outbox /\ UNCHANGED shown /\ UNCHANGED skipped
    BY <2>1
  <2>6. \A m \in DOMAIN outbox : \A o \in 1..(outbox[m] - 1) :
          assigned'[o] \in Subscribers => o \in skipped[Notifier] \/ \E l \in 1..(m - 1) : outbox[l] = o
    BY <2>3
  <2> QED
    BY <2>4, <2>5, <2>6 DEF MailsKeepTheOrder
\* The mail is queued last, and the mails of whatever the notifier is past were before it.
<1>3. CASE QueueMail
  <2> DEFINE p == position[Notifier]
             n == Len(outbox) + 1
  <2>1. /\ outbox' = Append(outbox, p) /\ UNCHANGED <<assigned, shown, skipped>>
        /\ p \in shown /\ p \in Offsets /\ p \in Nat
        /\ \A o \in 1..Len(assigned) : o < p => o \in skipped[Notifier] \/ Notified(o)
    BY <1>1, <1>3, Assigned DEF QueueMail, effects, consumer, HandledInv, NotifierInv, TypeOK
  <2>2. /\ DOMAIN outbox' = DOMAIN outbox \cup {n} /\ outbox'[n] = p
        /\ \A m \in DOMAIN outbox : outbox'[m] = outbox[m] /\ m \in Nat /\ m < n
        /\ n \in Nat /\ \A l \in 1..(n - 1) : l \in DOMAIN outbox
    BY <1>1, <2>1
  <2>3. ASSUME NEW o \in 1..(p - 1), assigned[o] \in Subscribers, o \notin skipped[Notifier]
        PROVE  \E l \in 1..(n - 1) : outbox'[l] = o
    <3>1. Queued(o)
      BY <1>1, <2>1, <2>3 DEF Notified
    <3> QED
      BY <1>1, <2>2, <3>1 DEF Queued
  <2>4. ASSUME NEW m \in DOMAIN outbox, NEW o \in 1..(outbox[m] - 1), assigned[o] \in Subscribers,
               o \notin skipped[Notifier]
        PROVE  \E l \in 1..(m - 1) : outbox'[l] = o
    <3>1. PICK l \in 1..(m - 1) : outbox[l] = o
      BY <2>4 DEF MailsKeepTheOrder
    <3> QED
      BY <1>1, <2>2, <3>1
  <2> QED
    BY <2>1, <2>2, <2>3, <2>4 DEF MailsKeepTheOrder
<1>4. CASE Broadcast
  BY <1>4 DEF Broadcast, topics, consumer, MailsKeepTheOrder
<1>5. ASSUME NEW g \in Groups, Runner(g) PROVE MailsKeepTheOrder'
  <2>1. UNCHANGED <<outbox, assigned, shown>> /\ skipped[Notifier] \subseteq skipped'[Notifier]
    BY <1>1, <1>5, RunnerEffect DEF HandledInv
  <2> QED
    BY <2>1 DEF MailsKeepTheOrder
<1>6. CASE UNCHANGED <<outbox, assigned, shown, skipped>>
  BY <1>6 DEF MailsKeepTheOrder
<1>7. \/ \E u \in Users : Assign(u)
      \/ QueueMail \/ Broadcast
      \/ \E g \in Groups : Runner(g)
      \/ UNCHANGED <<outbox, assigned, shown, skipped>>
  BY Steps DEF Store, SendMail, vars, topics, effects, consumer
<1> QED
  BY <1>2, <1>3, <1>4, <1>5, <1>6, <1>7

\* Mails are queued in the order of the assignments, each after its notification was shown,
\* but for those a consumer without an offset began behind; also when the notifier goes
\* back and queues some of them again.
THEOREM MailsAreInOrder == Spec => []MailsKeepTheOrder
<1>1. Init => MailsKeepTheOrder
  BY DEF Init, MailsKeepTheOrder
<1> QED
  BY <1>1, OrderNext, AlwaysHandled, PTL DEF Spec

=============================================================================
