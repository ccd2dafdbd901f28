--------------------------- MODULE Assistant_proofs ---------------------------
(***************************************************************************)
(* Theorems about Assistant, and about AuditTrail as its log, for any      *)
(* questions, servers and changes of the retention days.                   *)
(***************************************************************************)
EXTENDS Assistant, SequenceTheorems, TLAPS

-----------------------------------------------------------------------------
(* What an event does to the topic *)

\* The topic keeps its events at their offsets, and what was lost stays lost.
Grows ==
  /\ topic' \in Seq(Events) /\ lost' \subseteq Events /\ trouble' \in 0..MaxTrouble
  /\ Len(topic') >= Len(topic) /\ \A i \in 1..Len(topic) : topic'[i] = topic[i]
  /\ lost \subseteq lost'

LEMMA Logged ==
  ASSUME topic \in Seq(Events), lost \subseteq Events, trouble \in 0..MaxTrouble, NEW e \in Events, LogAction(e)
  PROVE  /\ Grows
         /\ \A i \in 1..Len(topic') : i > Len(topic) => topic'[i] = e
         /\ Len(topic') > Len(topic) \/ e \in lost'
<1>1. CASE topic' = Append(topic, e) /\ UNCHANGED <<lost, trouble>>
  BY <1>1 DEF Grows
<1>2. CASE topic' = topic \o <<e, e>> /\ Trouble /\ UNCHANGED lost
  <2>1. <<e, e>> \in Seq(Events) /\ Len(<<e, e>>) = 2 /\ \A i \in 1..2 : <<e, e>>[i] = e
    OBVIOUS
  <2>2. topic' \in Seq(Events) /\ Len(topic') = Len(topic) + 2
    BY <1>2, <2>1
  <2>3. \A i \in 1..Len(topic) : topic'[i] = topic[i]
    BY <1>2, <2>1
  <2>4. \A i \in 1..Len(topic') : i > Len(topic) => topic'[i] = e
    BY <1>2, <2>1, <2>2
  <2>5. trouble' \in 0..MaxTrouble
    BY <1>2, AuditAssumption DEF Trouble
  <2> QED
    BY <1>2, <2>2, <2>3, <2>4, <2>5 DEF Grows
<1>3. CASE lost' = lost \cup {e} /\ Trouble /\ UNCHANGED topic
  <2>1. trouble' \in 0..MaxTrouble
    BY <1>3, AuditAssumption DEF Trouble
  <2> QED
    BY <1>3, <2>1 DEF Grows
<1> QED
  BY <1>1, <1>2, <1>3 DEF LogAction

\* What was sent, in terms of offsets.
LEMMA SentAt ==
  ASSUME topic \in Seq(Events), NEW e
  PROVE  Sent(e) <=> e \in lost \/ \E i \in 1..Len(topic) : topic[i] = e
  BY DEF Sent, Range

LEMMA EventKinds ==
  ASSUME NEW a \in Asks
  PROVE  /\ Prompt(a) \in Events /\ Answer(a) \in Events /\ \A n \in 1..MaxTurns : Call(a, n) \in Events
         /\ Prompt(a).by = a /\ Prompt(a).what = "prompt" /\ Answer(a).by = a /\ Answer(a).what = "answer"
         /\ \A n \in 1..MaxTurns : Call(a, n).by = a /\ Call(a, n).what = "tool" /\ Call(a, n).turn = n
  BY DEF Events, Prompt, Answer, Call

-----------------------------------------------------------------------------
(* Types *)

Record == [event : Nat, days : Days]
Request == [at : {"idle", "save", "cache", "done"}, server : Servers \cup {None}, days : Days \cup {None},
            read : Days \cup {None}]

\* A change of the days that has begun and not ended.
Changing(c) == change[c].at \in {"save", "cache"}

\* The days can be changed only by a server that has found or created them.
ChangesFit ==
  /\ entries \in Seq(Record)
  /\ change \in [Changes -> Request]
  /\ \A s \in Servers : state[s] = "ready" => settings # <<>>
  /\ \A c \in Changes : Changing(c) =>
       change[c].server \in Servers /\ change[c].days \in Days /\ state[change[c].server] = "ready"

AuditTyped == AuditTypeOK /\ ChangesFit

QuestionsType ==
  /\ pc \in [Asks -> Steps \cup {"idle", "answered", "error"}]
  /\ turns \in [Asks -> 0..MaxTurns]
  /\ \A a \in Asks : pc[a] = "log tool" => turns[a] >= 1

TypeInv == topic \in Seq(Events) /\ lost \subseteq Events /\ AuditTyped /\ QuestionsType

\* What a step of the log's own parts leaves alone.
LEMMA AuditSteps ==
  ASSUME AuditNext
  PROVE  topic' = topic /\ lost' = lost
  BY DEF AuditNext, Handle, Store, StoreFails, Commit, Serve, Start, LoadSettings, FindNoSettings, CreateSettings,
     Assign, Crash, SaveDays, CacheDays, ChangeFails, ChangeDays

LEMMA TroubleType ==
  ASSUME trouble \in 0..MaxTrouble, Trouble
  PROVE  trouble' \in 0..MaxTrouble
  BY AuditAssumption DEF Trouble

LEMMA SettingsShape ==
  ASSUME NEW q \in Seq(Days), NEW d \in Days
  PROVE  /\ Append(q, d) \in Seq(Days) /\ Append(q, d) # <<>>
         /\ Append(q, d)[1] = IF q = <<>> THEN d ELSE q[1]
         /\ q # <<>> => /\ q[1] \in Days
                        /\ [q EXCEPT ![1] = d] \in Seq(Days) /\ [q EXCEPT ![1] = d] # <<>> /\ [q EXCEPT ![1] = d][1] = d
<1>1. Append(q, d) \in Seq(Days) /\ Append(q, d) # <<>>
  BY AppendProperties
<1>2. Append(q, d)[1] = IF q = <<>> THEN d ELSE q[1]
  OBVIOUS
<1>3. ASSUME q # <<>>
      PROVE  /\ q[1] \in Days
             /\ [q EXCEPT ![1] = d] \in Seq(Days) /\ [q EXCEPT ![1] = d] # <<>> /\ [q EXCEPT ![1] = d][1] = d
  <2>1. Len(q) \in Nat /\ 1 \in 1..Len(q)
    BY <1>3
  <2>2. /\ [q EXCEPT ![1] = d] \in Seq(Days) /\ Len([q EXCEPT ![1] = d]) = Len(q)
        /\ [q EXCEPT ![1] = d][1] = d
    BY <2>1, ExceptSeq
  <2>3. [q EXCEPT ![1] = d] # <<>>
    BY <2>1, <2>2
  <2> QED
    BY <2>1, <2>2, <2>3
<1> QED
  BY <1>1, <1>2, <1>3

LEMMA AuditTypeNext ==
  ASSUME topic \in Seq(Events), AuditTyped, AuditNext
  PROVE  AuditTyped'
<1>0. Len(topic) \in Nat /\ DOMAIN topic = 1..Len(topic) /\ topic' = topic
  BY AuditSteps
<1>1. ASSUME Store \/ StoreFails PROVE AuditTyped'
  <2>1. /\ reader \in Servers /\ next \in 1..Len(topic) /\ cached[reader] \in Days
        /\ next' = next + 1 /\ UNCHANGED <<reader, committed, setting>> /\ skipped' = skipped
    BY <1>0, <1>1 DEF Store, StoreFails, AuditTyped, AuditTypeOK
  <2>2. trouble' \in 0..MaxTrouble
    BY <1>1, TroubleType DEF Store, StoreFails, AuditTyped, AuditTypeOK
  <2>3. missed' \subseteq DOMAIN topic
    BY <1>0, <1>1, <2>1 DEF Store, StoreFails, AuditTyped, AuditTypeOK
  <2>4. entries' \in Seq(Record) /\ \A i \in DOMAIN entries' : entries'[i].event \in DOMAIN topic /\ entries'[i].days \in Days
    <3>1. CASE entries' = entries
      BY <3>1 DEF AuditTyped, AuditTypeOK, ChangesFit
    <3>2. CASE entries' = Append(entries, Entry(next))
      <4>1. Entry(next) \in Record /\ Entry(next).event \in DOMAIN topic /\ Entry(next).days \in Days
        BY <1>0, <2>1 DEF Entry, Record
      <4> QED
        BY <3>2, <4>1 DEF AuditTyped, AuditTypeOK, ChangesFit
    <3> QED
      BY <1>1, <3>1, <3>2 DEF Store, StoreFails
  <2> QED
    BY <1>0, <2>1, <2>2, <2>3, <2>4 DEF AuditTyped, AuditTypeOK, ChangesFit, Changing, setting
<1>2. ASSUME Commit PROVE AuditTyped'
  BY <1>0, <1>2 DEF Commit, AuditTyped, AuditTypeOK, ChangesFit, Changing, setting
<1>3. ASSUME NEW s \in Servers, Assign(s) PROVE AuditTyped'
  BY <1>0, <1>3, AuditAssumption DEF Assign, AuditTyped, AuditTypeOK, ChangesFit, Changing, setting
<1>4. ASSUME NEW s \in Servers, Serve(s) PROVE AuditTyped'
  <2>1. UNCHANGED <<delivery, change, trouble>>
    BY <1>4 DEF Serve, Start, LoadSettings, FindNoSettings, CreateSettings
  <2>2. state' \in [Servers -> Stages] /\ cached' \in [Servers -> Days] /\ settings' \in Seq(Days) /\ stale' \subseteq Servers
    <3>1. /\ state \in [Servers -> Stages] /\ cached \in [Servers -> Days] /\ settings \in Seq(Days) /\ stale \subseteq Servers
          /\ DefaultDays \in Days
      BY AuditAssumption DEF AuditTyped, AuditTypeOK
    <3>2. settings # <<>> => settings[1] \in Days
      BY <3>1
    <3>3. Append(settings, DefaultDays) \in Seq(Days)
      BY <3>1
    <3>4. CASE Start(s)
      BY <3>1, <3>4 DEF Start, Stages
    <3>5. CASE LoadSettings(s)
      BY <3>1, <3>2, <3>5 DEF LoadSettings, Stages
    <3>6. CASE FindNoSettings(s)
      BY <3>1, <3>6 DEF FindNoSettings, Stages
    <3>7. CASE CreateSettings(s)
      BY <3>1, <3>3, <3>7 DEF CreateSettings, Stages
    <3> QED
      BY <1>4, <3>4, <3>5, <3>6, <3>7 DEF Serve
  <2>3. \A t \in Servers : /\ state'[t] = "ready" => settings' # <<>>
                           /\ state[t] \in {"ready"} => state'[t] = "ready"
                           /\ state[t] # "down" => state'[t] # "down"
    BY <1>4 DEF Serve, Start, LoadSettings, FindNoSettings, CreateSettings, AuditTyped, AuditTypeOK, ChangesFit, Stages
  <2> QED
    BY <1>0, <2>1, <2>2, <2>3 DEF AuditTyped, AuditTypeOK, ChangesFit, Changing, delivery
<1>5. ASSUME NEW s \in Servers, Crash(s) PROVE AuditTyped'
  BY <1>0, <1>5, TroubleType, AuditAssumption DEF Crash, AuditTyped, AuditTypeOK, ChangesFit, Changing, Request, Idle, Stages
<1>6. ASSUME NEW c \in Changes, SaveDays(c) PROVE AuditTyped'
  <2>1. Changing(c) /\ change[c] \in Request /\ change[c].server \in Servers /\ change[c].days \in Days
        /\ settings # <<>> /\ settings \in Seq(Days)
    BY <1>6 DEF SaveDays, AuditTyped, AuditTypeOK, ChangesFit, Changing
  <2>2. settings' \in Seq(Days) /\ settings' # <<>>
    BY <1>6, <2>1, SettingsShape DEF SaveDays
  <2>3. UNCHANGED <<delivery, state, cached, trouble>> /\ stale' \subseteq Servers
    BY <1>6 DEF SaveDays, AuditTyped, AuditTypeOK
  <2>4. /\ change' \in [Changes -> Request]
        /\ \A b \in Changes : change'[b].server = change[b].server /\ change'[b].days = change[b].days
        /\ \A b \in Changes : Changing(b)' => Changing(b)
    BY <1>6, <2>1 DEF SaveDays, AuditTyped, ChangesFit, Request, Changing
  <2> QED
    BY <1>0, <2>2, <2>3, <2>4 DEF AuditTyped, AuditTypeOK, ChangesFit, delivery
<1>7. ASSUME NEW c \in Changes, CacheDays(c) PROVE AuditTyped'
  BY <1>0, <1>7 DEF CacheDays, AuditTyped, AuditTypeOK, ChangesFit, Changing, Request, Idle, delivery
<1>8. ASSUME NEW c \in Changes, ChangeFails(c) PROVE AuditTyped'
  BY <1>0, <1>8, TroubleType DEF ChangeFails, AuditTyped, AuditTypeOK, ChangesFit, Changing, Request, Idle, delivery
<1>9. ASSUME NEW c \in Changes, NEW s \in Servers, NEW d \in Days, ChangeDays(c, s, d) PROVE AuditTyped'
  BY <1>0, <1>9, TroubleType DEF ChangeDays, AuditTyped, AuditTypeOK, ChangesFit, Changing, Request, delivery
<1> QED
  BY <1>1, <1>2, <1>3, <1>4, <1>5, <1>6, <1>7, <1>8, <1>9 DEF AuditNext, Handle

-----------------------------------------------------------------------------
(* The cached days *)

\* A server that is up to date has cached the first stored setting, and one that is about to
\* create it would find the default. A change that runs alone has read what is stored
\* before it saves, and has stored its days after. The servers of changes that overlap
\* are stale until they start again.
CacheInv ==
  /\ \A s \in Servers \ stale :
       /\ state[s] = "ready" /\ (\A c \in Changes : Changing(c) => change[c].server # s) => cached[s] = settings[1]
       /\ state[s] = "creating" => settings = <<>> \/ settings[1] = DefaultDays
  /\ \A s \in Servers : state[s] \in {"loading", "creating"} => cached[s] = DefaultDays
  /\ \A c \in Changes : Changing(c) /\ change[c].server \notin stale =>
       /\ change[c].at = "save" => change[c].read = settings[1]
       /\ change[c].at = "cache" => change[c].days = settings[1]
  /\ \A c, b \in Changes : c # b /\ Changing(c) /\ Changing(b) => change[c].server \in stale

LEMMA CacheUnchanged ==
  ASSUME CacheInv, UNCHANGED <<setting>>
  PROVE  CacheInv'
  BY DEF CacheInv, Changing, setting

LEMMA CacheNext ==
  ASSUME topic \in Seq(Events), AuditTyped, CacheInv, AuditNext
  PROVE  CacheInv'
<1>0. /\ state \in [Servers -> Stages] /\ cached \in [Servers -> Days] /\ settings \in Seq(Days) /\ stale \subseteq Servers
      /\ change \in [Changes -> Request] /\ DefaultDays \in Days /\ None \notin Servers
      /\ \A s \in Servers : state[s] = "ready" => settings # <<>>
      /\ \A c \in Changes : Changing(c) =>
           change[c].server \in Servers /\ change[c].days \in Days /\ state[change[c].server] = "ready"
  BY AuditAssumption DEF AuditTyped, AuditTypeOK, ChangesFit
<1>1. ASSUME Handle \/ Commit PROVE CacheInv'
  BY <1>1, CacheUnchanged DEF Handle, Store, StoreFails, Commit, setting
<1>2. ASSUME NEW s \in Servers, Assign(s) PROVE CacheInv'
  BY <1>2, CacheUnchanged DEF Assign
<1>3. ASSUME NEW s \in Servers, Start(s) PROVE CacheInv'
  BY <1>0, <1>3 DEF Start, CacheInv, Changing, Stages
<1>4. ASSUME NEW s \in Servers, LoadSettings(s) PROVE CacheInv'
  BY <1>0, <1>4 DEF LoadSettings, CacheInv, Changing, Stages
<1>5. ASSUME NEW s \in Servers, FindNoSettings(s) PROVE CacheInv'
  BY <1>0, <1>5 DEF FindNoSettings, CacheInv, Changing, Stages
<1>6. ASSUME NEW s \in Servers, CreateSettings(s) PROVE CacheInv'
  <2>1. /\ settings'[1] = IF settings = <<>> THEN DefaultDays ELSE settings[1]
        /\ settings' # <<>>
    BY <1>0, <1>6, SettingsShape DEF CreateSettings
  <2>2. UNCHANGED <<cached, change, stale>> /\ state' = [state EXCEPT ![s] = "ready"] /\ state[s] = "creating"
    BY <1>6 DEF CreateSettings
  <2> QED
    BY <1>0, <2>1, <2>2 DEF CacheInv, Changing, Stages
<1>7. ASSUME NEW s \in Servers, Crash(s) PROVE CacheInv'
  BY <1>0, <1>7 DEF Crash, CacheInv, Changing, Stages, Request, Idle
<1>8. ASSUME NEW c \in Changes, SaveDays(c) PROVE CacheInv'
  <2>1. settings # <<>> /\ Changing(c) /\ change[c].server \in Servers
    BY <1>0, <1>8 DEF SaveDays, Changing
  <2>2. change[c].days = change[c].read => settings' = settings
    BY <1>8 DEF SaveDays
  <2>3. change[c].days # change[c].read => settings'[1] = change[c].days /\ settings' # <<>>
    BY <1>0, <1>8, <2>1, SettingsShape DEF SaveDays
  <2>4. UNCHANGED <<state, cached>> /\ stale' = stale \cup (Servers \ {change[c].server})
    BY <1>8 DEF SaveDays
  <2>5. /\ \A b \in Changes \ {c} : change'[b] = change[b]
        /\ change'[c].at = "cache" /\ change'[c].server = change[c].server /\ change'[c].days = change[c].days
        /\ change[c].at = "save"
    BY <1>0, <1>8 DEF SaveDays, Request
  <2> QED
    BY <1>0, <2>1, <2>2, <2>3, <2>4, <2>5 DEF CacheInv, Changing
<1>9. ASSUME NEW c \in Changes, CacheDays(c) PROVE CacheInv'
  BY <1>0, <1>9 DEF CacheDays, CacheInv, Changing, Request, Idle
<1>10. ASSUME NEW c \in Changes, ChangeFails(c) PROVE CacheInv'
  BY <1>0, <1>10 DEF ChangeFails, CacheInv, Changing, Request, Idle
<1>11. ASSUME NEW c \in Changes, NEW s \in Servers, NEW d \in Days, ChangeDays(c, s, d) PROVE CacheInv'
  BY <1>0, <1>11 DEF ChangeDays, CacheInv, Changing, Request, Idle
<1> QED
  BY <1>1, <1>2, <1>3, <1>4, <1>5, <1>6, <1>7, <1>8, <1>9, <1>10, <1>11 DEF AuditNext, Serve

-----------------------------------------------------------------------------
(* Steps of a question *)

\* How a question goes on without logging, and what it logs where.
Quiet(a) ==
  \/ pc[a] = "idle" /\ pc'[a] = "prompt" /\ turns'[a] = turns[a]
  \/ pc[a] \in {"classify", "write", "draw", "run tool"} /\ pc'[a] \in {"write", "draw", "log answer"} /\ turns'[a] = turns[a]
  \/ pc[a] = "write" /\ pc'[a] = "log tool" /\ turns'[a] = turns[a] + 1
  \/ pc[a] \in Steps /\ pc'[a] = "error" /\ turns'[a] = turns[a]

Logs(a, e) ==
  /\ turns'[a] = turns[a]
  /\ \/ pc[a] = "prompt" /\ pc'[a] = "classify" /\ e = Prompt(a)
     \/ pc[a] = "log tool" /\ pc'[a] = "run tool" /\ e = Call(a, turns[a])
     \/ pc[a] = "log answer" /\ pc'[a] = "answered" /\ e = Answer(a)

LEMMA Counting ==
  ASSUME NEW m \in Nat, NEW n \in 0..m
  PROVE  /\ n < m => n + 1 \in 0..m /\ n + 1 >= 1
         /\ n >= 1 => n \in 1..m
  OBVIOUS

LEMMA CountingOn ==
  ASSUME NEW n \in Nat, NEW k, k = n + 1, NEW i \in 1..k
  PROVE  i = k \/ i \in 1..n
  OBVIOUS

LEMMA QuestionEffect ==
  ASSUME TypeInv, NEW a \in Asks, Ask(a) \/ Proceed(a) \/ Abort(a)
  PROVE  /\ QuestionsType' /\ UNCHANGED <<delivery, setting>>
         /\ \A b \in Asks \ {a} : pc'[b] = pc[b] /\ turns'[b] = turns[b]
         /\ \/ UNCHANGED auditVars /\ Quiet(a)
            \/ \E e \in Events : LogAction(e) /\ Logs(a, e)
<1>0. /\ pc \in [Asks -> Steps \cup {"idle", "answered", "error"}] /\ turns \in [Asks -> 0..MaxTurns] /\ MaxTurns \in Nat
      /\ \A b \in Asks : pc[b] = "log tool" => turns[b] >= 1
  BY AssistantAssumption DEF TypeInv, QuestionsType
<1>1. CASE Ask(a)
  BY <1>0, <1>1 DEF Ask, Goto, Unlogged, Quiet, QuestionsType, Steps, auditVars
<1>2. CASE LogPrompt(a)
  <2>1. LogAction(Prompt(a)) /\ Logs(a, Prompt(a)) /\ Prompt(a) \in Events
    BY <1>0, <1>2, EventKinds DEF LogPrompt, Goto, Logs
  <2>2. QuestionsType' /\ UNCHANGED <<delivery, setting>> /\ \A b \in Asks \ {a} : pc'[b] = pc[b] /\ turns'[b] = turns[b]
    BY <1>0, <1>2 DEF LogPrompt, Goto, AuditKept, QuestionsType, Steps
  <2> QED
    BY <2>1, <2>2
<1>3. CASE Classify(a)
  BY <1>0, <1>3 DEF Classify, Goto, Unlogged, Quiet, QuestionsType, Steps, auditVars
<1>4. CASE CallTool(a)
  <2>1. /\ pc' = [pc EXCEPT ![a] = "log tool"] /\ turns' = [turns EXCEPT ![a] = turns[a] + 1] /\ turns[a] < MaxTurns
        /\ pc[a] = "write" /\ UNCHANGED auditVars
    BY <1>4 DEF CallTool, Goto, Unlogged
  <2>2. turns[a] + 1 \in 0..MaxTurns /\ turns[a] + 1 >= 1
    <3>1. MaxTurns \in Nat /\ turns[a] \in 0..MaxTurns
      BY <1>0
    <3> QED
      BY <2>1, <3>1, Counting
  <2>3. /\ pc'[a] = "log tool" /\ turns'[a] = turns[a] + 1
        /\ \A b \in Asks \ {a} : pc'[b] = pc[b] /\ turns'[b] = turns[b]
    BY <1>0, <2>1
  <2>4. QuestionsType'
    BY <1>0, <2>1, <2>2, <2>3 DEF QuestionsType, Steps
  <2>5. UNCHANGED <<delivery, setting>>
    BY <2>1 DEF auditVars
  <2> QED
    BY <2>1, <2>3, <2>4, <2>5 DEF Quiet
<1>5. CASE LogTool(a)
  <2>1. pc[a] = "log tool" /\ turns[a] >= 1 /\ turns[a] \in 0..MaxTurns
    BY <1>0, <1>5 DEF LogTool
  <2>2. Call(a, turns[a]) \in Events
    <3>1. turns[a] \in 1..MaxTurns
      BY <2>1, AssistantAssumption, Counting
    <3> QED
      BY <3>1, EventKinds
  <2>3. LogAction(Call(a, turns[a])) /\ Logs(a, Call(a, turns[a]))
    BY <1>0, <1>5 DEF LogTool, Goto, Logs
  <2>4. QuestionsType' /\ UNCHANGED <<delivery, setting>> /\ \A b \in Asks \ {a} : pc'[b] = pc[b] /\ turns'[b] = turns[b]
    BY <1>0, <1>5 DEF LogTool, Goto, AuditKept, QuestionsType, Steps
  <2> QED
    BY <2>2, <2>3, <2>4
<1>6. CASE RunTool(a)
  BY <1>0, <1>6 DEF RunTool, Goto, Unlogged, Quiet, QuestionsType, Steps, auditVars
<1>7. CASE Finish(a)
  BY <1>0, <1>7 DEF Finish, Goto, Unlogged, Quiet, QuestionsType, Steps, auditVars
<1>8. CASE Overloaded(a)
  BY <1>0, <1>8 DEF Overloaded, Goto, Unlogged, Quiet, QuestionsType, Steps, auditVars
<1>9. CASE LogAnswer(a)
  <2>1. LogAction(Answer(a)) /\ Logs(a, Answer(a)) /\ Answer(a) \in Events
    BY <1>0, <1>9, EventKinds DEF LogAnswer, Goto, Logs
  <2>2. QuestionsType' /\ UNCHANGED <<delivery, setting>> /\ \A b \in Asks \ {a} : pc'[b] = pc[b] /\ turns'[b] = turns[b]
    BY <1>0, <1>9 DEF LogAnswer, Goto, AuditKept, QuestionsType, Steps
  <2> QED
    BY <2>1, <2>2
<1>10. CASE Abort(a)
  BY <1>0, <1>10 DEF Abort, Goto, Unlogged, Quiet, QuestionsType, Steps, auditVars
<1> QED
  BY <1>1, <1>2, <1>3, <1>4, <1>5, <1>6, <1>7, <1>8, <1>9, <1>10 DEF Proceed

\* What a step is: one of the log's own parts, or a question logs something or nothing.
LEMMA Moves ==
  ASSUME TypeInv, [Next]_vars
  PROVE  \/ AuditNext /\ UNCHANGED <<pc, turns>>
         \/ \E a \in Asks : /\ QuestionsType' /\ UNCHANGED <<delivery, setting>>
                            /\ \A b \in Asks \ {a} : pc'[b] = pc[b] /\ turns'[b] = turns[b]
                            /\ \/ UNCHANGED auditVars /\ Quiet(a)
                               \/ \E e \in Events : LogAction(e) /\ Logs(a, e)
         \/ UNCHANGED vars
  BY QuestionEffect DEF Next

LEMMA GrownTypes ==
  ASSUME TypeInv, Grows, UNCHANGED <<delivery, setting>>
  PROVE  AuditTyped'
  BY DEF TypeInv, AuditTyped, AuditTypeOK, ChangesFit, Changing, Grows, delivery, setting

LEMMA TypeNext == TypeInv /\ [Next]_vars => TypeInv'
<1> SUFFICES ASSUME TypeInv, [Next]_vars PROVE TypeInv'
  OBVIOUS
<1>1. CASE AuditNext /\ UNCHANGED <<pc, turns>>
  BY <1>1, AuditSteps, AuditTypeNext DEF TypeInv, QuestionsType
<1>2. ASSUME NEW a \in Asks, QuestionsType', UNCHANGED auditVars PROVE TypeInv'
  BY <1>2 DEF TypeInv, AuditTyped, AuditTypeOK, ChangesFit, Changing, auditVars, delivery, setting
<1>3. ASSUME NEW a \in Asks, QuestionsType', UNCHANGED <<delivery, setting>>, NEW e \in Events, LogAction(e) PROVE TypeInv'
  <2>1. Grows
    BY <1>3, Logged DEF TypeInv, AuditTyped, AuditTypeOK
  <2> QED
    BY <1>3, <2>1, GrownTypes DEF TypeInv, Grows
<1>4. CASE UNCHANGED vars
  BY <1>4 DEF vars, TypeInv, QuestionsType, AuditTyped, AuditTypeOK, ChangesFit, Changing, auditVars, delivery, setting
<1> QED
  BY <1>1, <1>2, <1>3, <1>4, Moves

LEMMA TypeInit == Init => TypeInv
<1> SUFFICES ASSUME Init PROVE TypeInv
  OBVIOUS
<1>1. topic = <<>> /\ entries = <<>> /\ topic \in Seq(Events) /\ entries \in Seq(Record) /\ Len(topic) = 0
  BY DEF Init, AuditInit
<1>2. settings \in Seq(Days) /\ stale = {} /\ missed = {} /\ skipped = {} /\ lost = {}
  <2>1. settings = <<>> \/ \E d \in Days : settings = <<d>>
    BY DEF Init, AuditInit
  <2>2. settings \in Seq(Days)
    <3>1. <<>> \in Seq(Days)
      OBVIOUS
    <3>2. ASSUME NEW d \in Days, settings = <<d>> PROVE settings \in Seq(Days)
      BY <3>2
    <3> QED
      BY <2>1, <3>1, <3>2
  <2> QED
    BY <2>2 DEF Init, AuditInit
<1>3. ChangesFit
  BY <1>1 DEF Init, AuditInit, ChangesFit, Changing, Request, Idle
<1>4. AuditTypeOK
  BY <1>1, <1>2, AuditAssumption DEF Init, AuditInit, AuditTypeOK, Stages
<1>5. QuestionsType
  BY AssistantAssumption DEF Init, QuestionsType
<1> QED
  BY <1>1, <1>2, <1>3, <1>4, <1>5 DEF TypeInv, AuditTyped

LEMMA Typed == Spec => []TypeInv
  BY TypeInit, TypeNext, PTL DEF Spec

\* The topic carries events of questions, offsets lie within it, and the log's own parts
\* have their types.
THEOREM Typing == Spec => []TypeOK
<1>1. TypeInv => TypeOK
  BY DEF TypeInv, TypeOK, AuditTyped, QuestionsType
<1> QED
  BY <1>1, Typed, PTL

\* An entry is kept for the days that are stored, unless its server cannot know them.
THEOREM DaysAreAsConfigured == Spec => KeptAsConfigured
<1>1. Init => CacheInv
  BY DEF Init, AuditInit, CacheInv, Changing, Idle
<1>2. TypeInv /\ CacheInv /\ [Next]_vars => CacheInv'
  <2> SUFFICES ASSUME TypeInv, CacheInv, [Next]_vars PROVE CacheInv'
    OBVIOUS
  <2>1. CASE AuditNext
    BY <2>1, CacheNext DEF TypeInv
  <2>2. CASE UNCHANGED setting
    BY <2>2, CacheUnchanged
  <2> QED
    BY <2>1, <2>2, Moves DEF vars, auditVars
<1>3. ASSUME TypeInv, CacheInv, [Next]_vars
      PROVE  [entries' # entries /\ Settled(reader) => Last(entries').days = StoredDays]_auditVars
  <2> SUFFICES ASSUME entries' # entries, Settled(reader) PROVE Last(entries').days = StoredDays
    OBVIOUS
  <2>1. Store
    <3>1. AuditNext
      BY <1>3, Moves DEF vars, auditVars, delivery
    <3>2. Handle \/ entries' = entries
      BY <3>1 DEF AuditNext, Commit, Serve, Start, LoadSettings, FindNoSettings, CreateSettings, Assign, Crash, SaveDays,
         CacheDays, ChangeFails, ChangeDays, delivery
    <3> QED
      BY <3>2 DEF Handle, StoreFails
  <2>2. /\ reader \in Servers /\ entries \in Seq(Record) /\ next \in Nat /\ cached[reader] \in Days
        /\ Entry(next) \in Record /\ Entry(next).days = cached[reader]
    <3>1. reader \in Servers /\ entries \in Seq(Record) /\ cached \in [Servers -> Days] /\ next \in Nat
      BY <1>3, <2>1 DEF Store, TypeInv, AuditTyped, AuditTypeOK, ChangesFit
    <3> QED
      BY <3>1 DEF Entry, Record
  <2>3. Last(entries') = Entry(next)
    BY <2>1, <2>2 DEF Store, Last
  <2>4. cached[reader] = settings[1] /\ settings # <<>>
    BY <1>3, <2>2 DEF Settled, CacheInv, Changing, TypeInv, AuditTyped, ChangesFit
  <2> QED
    BY <2>2, <2>3, <2>4 DEF StoredDays
<1> QED
  BY <1>1, <1>2, <1>3, Typed, PTL DEF Spec, KeptAsConfigured

-----------------------------------------------------------------------------
(* What is logged, and in which order *)

\* What was sent stays sent, and what is logged is sent now.
LEMMA SentNext ==
  ASSUME TypeInv, [Next]_vars, NEW e, Sent(e)
  PROVE  Sent(e)'
<1>1. Grows \/ UNCHANGED <<topic, lost>>
  BY Moves, AuditSteps, Logged DEF vars, auditVars, TypeInv, AuditTyped, AuditTypeOK
<1>2. e \in lost \/ \E i \in 1..Len(topic) : topic[i] = e
  BY SentAt DEF TypeInv
<1>3. e \in lost' \/ \E i \in 1..Len(topic') : topic'[i] = e
  <2>1. CASE UNCHANGED <<topic, lost>>
    BY <1>2, <2>1
  <2>2. CASE Grows
    <3>1. Len(topic) \in Nat /\ Len(topic') \in Nat /\ Len(topic') >= Len(topic)
      BY <2>2 DEF TypeInv, Grows
    <3> QED
      BY <1>2, <2>2, <3>1 DEF Grows
  <2> QED
    BY <1>1, <2>1, <2>2
<1> QED
  BY <1>3, TypeNext, SentAt DEF TypeInv, Sent, Range

LEMMA SentNow ==
  ASSUME TypeInv, TypeInv', NEW e \in Events, LogAction(e)
  PROVE  Sent(e)'
<1>1. /\ \A i \in 1..Len(topic') : i > Len(topic) => topic'[i] = e
      /\ Len(topic') > Len(topic) \/ e \in lost'
  BY Logged DEF TypeInv, AuditTyped, AuditTypeOK
<1>2. Len(topic) \in Nat /\ Len(topic') \in Nat
  BY DEF TypeInv
<1>3. e \in lost' \/ \E i \in 1..Len(topic') : topic'[i] = e
  BY <1>1, <1>2
<1> QED
  BY <1>3 DEF TypeInv, Sent, Range

\* The prompt and the tools' calls of a question are sent before it goes on, its answer
\* before it is given.
AuditedInv ==
  \A a \in Asks :
    /\ pc[a] \notin {"idle", "prompt", "error"} => Sent(Prompt(a))
    /\ \A n \in 1..turns[a] : Sent(Call(a, n)) \/ (n = turns[a] /\ pc[a] \in {"log tool", "error"})
    /\ pc[a] = "answered" => Sent(Answer(a))

LEMMA AuditedNext == TypeInv /\ AuditedInv /\ [Next]_vars => AuditedInv'
<1> SUFFICES ASSUME TypeInv, AuditedInv, [Next]_vars, NEW a \in Asks
             PROVE  /\ pc'[a] \notin {"idle", "prompt", "error"} => Sent(Prompt(a))'
                    /\ \A n \in 1..turns'[a] : Sent(Call(a, n))' \/ (n = turns'[a] /\ pc'[a] \in {"log tool", "error"})
                    /\ pc'[a] = "answered" => Sent(Answer(a))'
  BY DEF AuditedInv, Prompt, Call, Answer
<1>1. turns[a] \in Nat /\ TypeInv'
  <2>1. turns[a] \in 0..MaxTurns
    BY DEF TypeInv, QuestionsType
  <2> QED
    BY <2>1, TypeNext, AssistantAssumption
<1>2. CASE pc'[a] = pc[a] /\ turns'[a] = turns[a]
  BY <1>2, SentNext DEF AuditedInv
<1>3. CASE Quiet(a)
  <2>1. pc'[a] \notin {"idle", "prompt", "error"} => Sent(Prompt(a))'
    BY <1>3, SentNext DEF Quiet, AuditedInv
  <2>2. ASSUME NEW n \in 1..turns'[a] PROVE Sent(Call(a, n))' \/ (n = turns'[a] /\ pc'[a] \in {"log tool", "error"})
    <3>1. CASE turns'[a] = turns[a]
      <4>1. Sent(Call(a, n)) \/ (n = turns[a] /\ pc[a] \in {"log tool", "error"})
        BY <2>2, <3>1 DEF AuditedInv
      <4> QED
        BY <1>3, <3>1, <4>1, SentNext DEF Quiet, Steps
    <3>2. CASE turns'[a] = turns[a] + 1 /\ pc'[a] = "log tool" /\ pc[a] = "write"
      <4>1. n = turns'[a] \/ n \in 1..turns[a]
        BY <1>1, <2>2, <3>2, CountingOn
      <4> QED
        BY <3>2, <4>1, SentNext DEF AuditedInv
    <3> QED
      BY <1>3, <3>1, <3>2 DEF Quiet
  <2> QED
    BY <1>3, <2>1, <2>2 DEF Quiet
<1>4. ASSUME NEW e \in Events, LogAction(e), Logs(a, e)
      PROVE  /\ pc'[a] \notin {"idle", "prompt", "error"} => Sent(Prompt(a))'
             /\ \A n \in 1..turns'[a] : Sent(Call(a, n))' \/ (n = turns'[a] /\ pc'[a] \in {"log tool", "error"})
             /\ pc'[a] = "answered" => Sent(Answer(a))'
  <2>1. Sent(e)'
    BY <1>1, <1>4, SentNow
  <2>2. pc'[a] \notin {"idle", "prompt", "error"} => Sent(Prompt(a))'
    BY <1>4, <2>1, SentNext DEF Logs, AuditedInv
  <2>3. ASSUME NEW n \in 1..turns'[a] PROVE Sent(Call(a, n))'
    BY <1>4, <2>1, <2>3, SentNext DEF Logs, AuditedInv
  <2>4. pc'[a] = "answered" => Sent(Answer(a))'
    BY <1>4, <2>1 DEF Logs
  <2> QED
    BY <2>2, <2>3, <2>4
<1> QED
  BY <1>2, <1>3, <1>4, Moves DEF vars

\* Whatever the assistant did, it tried to log before.
THEOREM QuestionsAreAudited == Spec => []AssistantIsAudited
<1>1. Init => AuditedInv
  BY DEF Init, AuditedInv
<1>2. TypeInv /\ AuditedInv => AssistantIsAudited
  BY DEF TypeInv, AuditedInv, AssistantIsAudited, TypeOK, AuditTyped, QuestionsType
<1> QED
  BY <1>1, <1>2, AuditedNext, Typed, PTL DEF Spec

-----------------------------------------------------------------------------
(* What the log stores *)

Passed(n) == n \in missed \cup skipped \/ \E i \in 1..Len(entries) : entries[i].event = n

\* What lies behind the offset the group is at or will go on at was dealt with, and what
\* lies before an entry was dealt with earlier.
PassedInv ==
  /\ \A n \in 1..Len(topic) : n < next \/ n < committed => Passed(n)
  /\ \A i \in 1..Len(entries) : \A n \in 1..Len(topic) : n < entries[i].event =>
       n \in missed \cup skipped \/ \E j \in 1..i : entries[j].event = n

LEMMA PassedSame ==
  ASSUME TypeInv, PassedInv, UNCHANGED <<topic, entries, next, committed>>,
         missed \subseteq missed', skipped \subseteq skipped'
  PROVE  PassedInv'
  BY DEF PassedInv, Passed

LEMMA PassedNext == TypeInv /\ PassedInv /\ [Next]_vars => PassedInv'
<1> SUFFICES ASSUME TypeInv, PassedInv, [Next]_vars PROVE PassedInv'
  OBVIOUS
<1>0. /\ Len(topic) \in Nat /\ entries \in Seq(Record) /\ Len(entries) \in Nat
      /\ DOMAIN entries = 1..Len(entries) /\ DOMAIN topic = 1..Len(topic)
      /\ \A i \in 1..Len(entries) : entries[i].event \in 1..Len(topic)
      /\ next \in 0..Len(topic) + 1 /\ committed \in 0..Len(topic) + 1
  BY DEF TypeInv, AuditTyped, AuditTypeOK, ChangesFit
<1>1. CASE Store
  <2>1. next \in 1..Len(topic) /\ next' = next + 1 /\ UNCHANGED <<topic, missed, skipped, committed>>
    BY <1>0, <1>1 DEF Store, TypeInv, AuditTyped, AuditTypeOK
  <2>2. /\ Len(entries') = Len(entries) + 1 /\ entries'[Len(entries) + 1].event = next
        /\ \A i \in 1..Len(entries) : entries'[i] = entries[i]
    <3>1. Entry(next).event = next
      BY DEF Entry
    <3> QED
      BY <1>0, <1>1, <3>1 DEF Store
  <2>3. ASSUME NEW n \in 1..Len(topic), Passed(n) PROVE Passed(n)'
    BY <1>0, <2>1, <2>2, <2>3 DEF Passed
  <2>4. ASSUME NEW n \in 1..Len(topic), n < next' \/ n < committed' PROVE Passed(n)'
    <3>1. CASE n = next
      BY <1>0, <2>2, <3>1 DEF Passed
    <3>2. CASE n # next
      <4>1. n < next \/ n < committed
        BY <1>0, <2>1, <2>4, <3>2
      <4> QED
        BY <2>3, <4>1 DEF PassedInv
    <3> QED
      BY <3>1, <3>2
  <2>5. ASSUME NEW i \in 1..Len(entries'), NEW n \in 1..Len(topic), n < entries'[i].event
        PROVE  n \in missed \cup skipped \/ \E j \in 1..i : entries'[j].event = n
    <3>1. CASE i = Len(entries) + 1
      <4>1. Passed(n)
        BY <2>2, <2>5, <3>1 DEF PassedInv
      <4> QED
        BY <1>0, <2>2, <3>1, <4>1 DEF Passed
    <3>2. CASE i # Len(entries) + 1
      <4>1. i \in 1..Len(entries) /\ entries'[i] = entries[i] /\ \A j \in 1..i : entries'[j] = entries[j]
        BY <1>0, <2>2, <3>2
      <4> QED
        BY <2>5, <4>1 DEF PassedInv
    <3> QED
      BY <3>1, <3>2
  <2> QED
    BY <2>1, <2>4, <2>5 DEF PassedInv, Passed
<1>2. CASE StoreFails
  <2>1. /\ next \in 1..Len(topic) /\ next' = next + 1 /\ UNCHANGED <<topic, entries, skipped, committed>>
        /\ missed' = missed \cup {next}
    BY <1>0, <1>2 DEF StoreFails, TypeInv, AuditTyped, AuditTypeOK
  <2>2. ASSUME NEW n \in 1..Len(topic), n < next' \/ n < committed' PROVE n = next \/ n < next \/ n < committed
    BY <1>0, <2>1, <2>2
  <2> QED
    BY <2>1, <2>2 DEF PassedInv, Passed
<1>3. CASE Commit
  <2>1. UNCHANGED <<topic, entries, missed, skipped, next>> /\ committed' = next
    BY <1>3 DEF Commit, delivery
  <2> QED
    BY <2>1 DEF PassedInv, Passed
<1>4. ASSUME NEW s \in Servers, Assign(s) PROVE PassedInv'
  <2>1. UNCHANGED <<topic, entries, missed, committed>> /\ skipped \subseteq skipped'
    BY <1>4 DEF Assign
  <2>2. committed = 0 => \A n \in 1..Len(topic) : Passed(n)'
    BY <1>0, <1>4 DEF Assign, Passed
  <2>3. committed # 0 => next' = committed
    BY <1>4 DEF Assign
  <2> QED
    BY <2>1, <2>2, <2>3 DEF PassedInv, Passed
<1>5. ASSUME NEW s \in Servers, Crash(s) PROVE PassedInv'
  BY <1>0, <1>5 DEF Crash, PassedInv, Passed
<1>6. ASSUME NEW s \in Servers, Serve(s) PROVE PassedInv'
  BY <1>6, PassedSame DEF Serve, Start, LoadSettings, FindNoSettings, CreateSettings, delivery
<1>7. ASSUME NEW c \in Changes,
             SaveDays(c) \/ CacheDays(c) \/ ChangeFails(c) \/ \E s \in Servers, d \in Days : ChangeDays(c, s, d)
      PROVE  PassedInv'
  BY <1>7, PassedSame DEF SaveDays, CacheDays, ChangeFails, ChangeDays, delivery
<1>8. CASE AuditNext
  BY <1>1, <1>2, <1>3, <1>4, <1>5, <1>6, <1>7, <1>8 DEF AuditNext, Handle
<1>9. CASE UNCHANGED auditVars
  BY <1>9, PassedSame DEF auditVars, delivery
\* Events that have come behind everything else are behind whatever was passed, too.
<1>10. CASE Grows /\ UNCHANGED delivery
  <2>1. Len(topic') \in Nat /\ Len(topic') >= Len(topic) /\ UNCHANGED <<entries, missed, skipped, next, committed>>
    BY <1>10 DEF Grows, delivery
  <2>2. ASSUME NEW n \in 1..Len(topic'), n < next \/ n < committed \/ \E i \in 1..Len(entries) : n < entries[i].event
        PROVE  n \in 1..Len(topic)
    BY <1>0, <2>1, <2>2
  <2> QED
    BY <2>1, <2>2 DEF PassedInv, Passed
<1>11. AuditNext \/ UNCHANGED auditVars \/ (Grows /\ UNCHANGED delivery)
  BY Moves, Logged DEF vars, TypeInv, AuditTyped, AuditTypeOK
<1> QED
  BY <1>8, <1>9, <1>10, <1>11

LEMMA PassedInit == Init => PassedInv
<1> SUFFICES ASSUME Init PROVE PassedInv
  OBVIOUS
<1>1. Len(topic) = 0 /\ Len(entries) = 0
  BY DEF Init, AuditInit
<1> QED
  BY <1>1 DEF PassedInv

LEMMA Passing == Spec => []PassedInv
  BY PassedInit, PassedNext, Typed, PTL DEF Spec

\* What the group is past, or will go on behind, is stored, unless storing it failed, or it
\* came before the group had an offset.
THEOREM NothingPassesUnseen == Spec => []NothingIsPassedOver
<1>1. TypeInv /\ PassedInv => NothingIsPassedOver
  BY DEF TypeInv, AuditTyped, ChangesFit, PassedInv, Passed, NothingIsPassedOver
<1> QED
  BY <1>1, Passing, Typed, PTL

-----------------------------------------------------------------------------
(* The order of the log *)

\* The prompt of a question comes before its other events on the topic, and once it is
\* answered nothing but repetitions of the answer follow.
OrderInv ==
  \A n \in 1..Len(topic) :
    /\ topic[n].what # "prompt" =>
         Prompt(topic[n].by) \in lost \/ \E m \in 1..n : topic[m] = Prompt(topic[n].by)
    /\ topic[n].what = "answer" =>
         /\ pc[topic[n].by] = "answered"
         /\ \A m \in n..Len(topic) : topic[m].by = topic[n].by => topic[m].what = "answer"

LEMMA OrderSame ==
  ASSUME TypeInv, OrderInv, UNCHANGED <<topic, lost>>, \A a \in Asks : pc[a] = "answered" => pc'[a] = "answered"
  PROVE  OrderInv'
<1>1. \A n \in 1..Len(topic) : topic[n].by \in Asks
  BY DEF TypeInv, Events, Prompt, Call, Answer
<1> QED
  BY <1>1 DEF OrderInv, Prompt

LEMMA LogsWhat ==
  ASSUME NEW a \in Asks, NEW e, Logs(a, e)
  PROVE  /\ e.by = a /\ e.what \in {"prompt", "tool", "answer"} /\ pc[a] # "answered"
         /\ e.what = "answer" => pc'[a] = "answered"
         /\ e.what # "prompt" => pc[a] \in {"log tool", "log answer"}
<1>1. CASE pc[a] = "prompt" /\ pc'[a] = "classify" /\ e = Prompt(a)
  BY <1>1 DEF Prompt
<1>2. CASE pc[a] = "log tool" /\ pc'[a] = "run tool" /\ e = Call(a, turns[a])
  BY <1>2 DEF Call
<1>3. CASE pc[a] = "log answer" /\ pc'[a] = "answered" /\ e = Answer(a)
  BY <1>3 DEF Answer
<1> QED
  BY <1>1, <1>2, <1>3 DEF Logs

LEMMA OrderNext == TypeInv /\ AuditedInv /\ OrderInv /\ [Next]_vars => OrderInv'
<1> SUFFICES ASSUME TypeInv, AuditedInv, OrderInv, [Next]_vars PROVE OrderInv'
  OBVIOUS
<1>1. CASE AuditNext /\ UNCHANGED <<pc, turns>>
  BY <1>1, AuditSteps, OrderSame
<1>2. CASE UNCHANGED vars
  BY <1>2, OrderSame DEF vars, auditVars
<1>3. ASSUME NEW a \in Asks, \A b \in Asks \ {a} : pc'[b] = pc[b], UNCHANGED auditVars, Quiet(a) PROVE OrderInv'
  BY <1>3, OrderSame DEF auditVars, Quiet, Steps
<1>4. ASSUME NEW a \in Asks, \A b \in Asks \ {a} : pc'[b] = pc[b], NEW e \in Events, LogAction(e), Logs(a, e)
      PROVE  OrderInv'
  <2>1. Grows /\ \A i \in 1..Len(topic') : i > Len(topic) => topic'[i] = e
    BY <1>4, Logged DEF TypeInv, AuditTyped, AuditTypeOK
  <2>2. Len(topic) \in Nat /\ Len(topic') \in Nat /\ Len(topic') >= Len(topic)
    BY <2>1 DEF TypeInv, Grows
  <2>3. /\ e.by = a /\ e.what \in {"prompt", "tool", "answer"} /\ pc[a] # "answered"
        /\ e.what = "answer" => pc'[a] = "answered"
        /\ e.what # "prompt" => pc[a] \in {"log tool", "log answer"}
    BY <1>4, LogsWhat
  <2>4. \A n \in 1..Len(topic) : topic[n].by \in Asks /\ topic[n].what \in {"prompt", "tool", "answer"}
    BY DEF TypeInv, Events, Prompt, Call, Answer
  <2>5. pc[a] # "answered" /\ (e.what = "answer" => pc'[a] = "answered")
    BY <2>3
  <2>6. \A n \in 1..Len(topic) : topic[n].what = "answer" => topic[n].by # a
    BY <2>5 DEF OrderInv
  <2>7. e.what # "prompt" => Prompt(a) \in lost \/ \E m \in 1..Len(topic) : topic[m] = Prompt(a)
    <3>1. e.what # "prompt" => Sent(Prompt(a))
      BY <2>3 DEF AuditedInv
    <3> QED
      BY <3>1, SentAt DEF TypeInv
  <2>8. ASSUME NEW n \in 1..Len(topic'), topic'[n].what # "prompt"
        PROVE  Prompt(topic'[n].by) \in lost' \/ \E m \in 1..n : topic'[m] = Prompt(topic'[n].by)
    <3>1. CASE n \in 1..Len(topic)
      <4>1. Prompt(topic[n].by) \in lost \/ \E m \in 1..n : topic[m] = Prompt(topic[n].by)
        BY <2>1, <2>8, <3>1 DEF OrderInv, Grows
      <4>2. topic'[n] = topic[n] /\ \A m \in 1..n : topic'[m] = topic[m]
        BY <2>1, <2>2, <3>1 DEF Grows
      <4> QED
        BY <2>1, <4>1, <4>2 DEF Grows
    <3>2. CASE n \notin 1..Len(topic)
      <4>1. n > Len(topic) /\ topic'[n] = e
        BY <2>1, <2>2, <2>8, <3>2
      <4>2. Prompt(a) \in lost' \/ \E m \in 1..Len(topic) : topic'[m] = Prompt(a)
        BY <2>1, <2>7, <2>8, <4>1 DEF Grows
      <4>3. 1..Len(topic) \subseteq 1..n
        BY <2>2, <4>1
      <4> QED
        BY <2>3, <4>1, <4>2, <4>3
    <3> QED
      BY <3>1, <3>2
  <2>9. ASSUME NEW n \in 1..Len(topic'), topic'[n].what = "answer"
        PROVE  /\ pc'[topic'[n].by] = "answered"
               /\ \A m \in n..Len(topic') : topic'[m].by = topic'[n].by => topic'[m].what = "answer"
    <3>1. CASE n \in 1..Len(topic)
      <4>1. topic'[n] = topic[n] /\ topic[n].by \in Asks \ {a}
        BY <2>1, <2>4, <2>6, <2>9, <3>1 DEF Grows
      <4>2. pc'[topic'[n].by] = "answered"
        BY <1>4, <2>9, <3>1, <4>1 DEF OrderInv
      <4>3. ASSUME NEW m \in n..Len(topic'), topic'[m].by = topic[n].by PROVE topic'[m].what = "answer"
        <5>1. m \in n..Len(topic) \/ topic'[m] = e
          BY <2>1, <2>2, <3>1, <4>3
        <5>2. m \in n..Len(topic) => topic'[m] = topic[m]
          BY <2>1, <2>2, <3>1 DEF Grows
        <5> QED
          BY <2>3, <2>9, <3>1, <4>1, <4>3, <5>1, <5>2 DEF OrderInv
      <4> QED
        BY <4>1, <4>2, <4>3
    <3>2. CASE n \notin 1..Len(topic)
      <4>1. n > Len(topic) /\ topic'[n] = e
        BY <2>1, <2>2, <2>9, <3>2
      <4>2. \A m \in n..Len(topic') : topic'[m] = e
        BY <2>1, <2>2, <2>9, <4>1
      <4> QED
        BY <2>3, <2>5, <2>9, <4>1, <4>2
    <3> QED
      BY <3>1, <3>2
  <2> QED
    BY <2>8, <2>9 DEF OrderInv, Prompt
<1> QED
  BY <1>1, <1>2, <1>3, <1>4, Moves

\* The log tells a question in its order: an answer has its prompt and its tool calls before
\* it, through crashes and repeated deliveries, unless one of them was lost.
THEOREM StoriesAreTold == Spec => []LogTellsTheStory
<1>1. Init => AuditedInv /\ OrderInv
  <2> SUFFICES ASSUME Init PROVE AuditedInv /\ OrderInv
    OBVIOUS
  <2>1. Len(topic) = 0
    BY DEF Init, AuditInit
  <2> QED
    BY <2>1 DEF Init, AuditedInv, OrderInv
<1>2. TypeInv /\ PassedInv /\ OrderInv => LogTellsTheStory
  <2> SUFFICES ASSUME TypeInv, PassedInv, OrderInv, NEW i \in DOMAIN entries, NEW n, n = entries[i].event
               PROVE  /\ topic[n].what # "prompt" =>
                           Stored(Prompt(topic[n].by), i) \/ Missing(Prompt(topic[n].by))
                      /\ topic[n].what = "answer" =>
                           \A k \in 1..turns[topic[n].by] : Call(topic[n].by, k) \in Range(topic) =>
                             Stored(Call(topic[n].by, k), i) \/ Missing(Call(topic[n].by, k))
    BY DEF LogTellsTheStory
  <2>1. i \in 1..Len(entries) /\ n \in 1..Len(topic) /\ Len(topic) \in Nat /\ Len(entries) \in Nat
    BY DEF TypeInv, AuditTyped, AuditTypeOK, ChangesFit
  \* An event that lies no later than an entry's is stored by then, or missing.
  <2>2. ASSUME NEW m \in 1..Len(topic), m <= n PROVE Stored(topic[m], i) \/ Missing(topic[m])
    <3>1. m = n => \E j \in 1..i : entries[j].event = m
      BY <2>1
    <3>2. m < n => m \in missed \cup skipped \/ \E j \in 1..i : entries[j].event = m
      BY <2>1, <2>2 DEF PassedInv
    <3> QED
      BY <2>1, <2>2, <3>1, <3>2 DEF Stored, Missing
  <2>3. ASSUME topic[n].what # "prompt" PROVE Stored(Prompt(topic[n].by), i) \/ Missing(Prompt(topic[n].by))
    <3>1. CASE Prompt(topic[n].by) \in lost
      BY <3>1 DEF Missing
    <3>2. ASSUME NEW m \in 1..n, topic[m] = Prompt(topic[n].by)
          PROVE  Stored(Prompt(topic[n].by), i) \/ Missing(Prompt(topic[n].by))
      BY <2>1, <2>2, <3>2
    <3> QED
      BY <2>1, <2>3, <3>1, <3>2 DEF OrderInv
  <2>4. ASSUME topic[n].what = "answer", NEW k \in 1..turns[topic[n].by], Call(topic[n].by, k) \in Range(topic)
        PROVE  Stored(Call(topic[n].by, k), i) \/ Missing(Call(topic[n].by, k))
    <3>1. PICK m \in 1..Len(topic) : topic[m] = Call(topic[n].by, k)
      BY <2>4 DEF Range, TypeInv
    <3>2. topic[m].by = topic[n].by /\ topic[m].what = "tool"
      BY <3>1 DEF Call
    <3>3. ~(m \in n..Len(topic))
      BY <2>1, <2>4, <3>2 DEF OrderInv
    <3>4. m <= n
      BY <2>1, <3>3
    <3> QED
      BY <2>2, <3>1, <3>4
  <2> QED
    BY <2>3, <2>4
<1> QED
  BY <1>1, <1>2, AuditedNext, OrderNext, Passing, Typed, PTL DEF Spec

=============================================================================
