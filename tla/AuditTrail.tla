----------------------------- MODULE AuditTrail -----------------------------
(***************************************************************************)
(* The audit log: events produced to the topic audit-logs, one consumer    *)
(* group that stores them, each with the date it expires, and the setting  *)
(* that says how many days that is, which every server caches.             *)
(*                                                                         *)
(* This module has the parts every user of the log shares: LogAction, the  *)
(* consumer and the setting. A module that EXTENDS it adds the actors that *)
(* call LogAction (see Assistant).                                         *)
(***************************************************************************)
EXTENDS Naturals, Sequences, FiniteSets, SequencesExt

CONSTANTS
  Servers,     \* processes of the application
  Changes,     \* requests to set the retention days
  Days,        \* retention days somebody may ask for
  DefaultDays, \* 30 in the code
  None,        \* an absent value
  MaxTrouble   \* bound: failing calls, crashes and changes of the days, together

ASSUME AuditAssumption ==
  /\ DefaultDays \in Days
  /\ None \notin Servers \cup Days
  /\ MaxTrouble \in Nat

VARIABLES
  topic,      \* the events on audit-logs, one partition
  lost,       \* events whose production failed
  entries,    \* stored entries in order: the event's offset, the days it is kept
  missed,     \* offsets the consumer failed to store
  skipped,    \* history: offsets that lay before the first one the group began at
  reader,     \* the server whose consumer has the partition
  begun,      \* the offset it began at
  next,       \* the offset it handles next
  committed,  \* the offset the group goes on at, 0 before the first commit
  settings,   \* auditRetentionDays of the SystemSettings documents, oldest first
  state,      \* per server: how far it has started
  cached,     \* per server: cachedRetentionDays
  change,     \* per request to set the days: its state
  stale,      \* history: servers that cannot know the stored days
  trouble     \* failing calls, crashes and changes so far

delivery == <<entries, missed, skipped, reader, begun, next, committed>>
setting  == <<settings, state, cached, change, stale>>
auditVars == <<topic, lost, delivery, setting, trouble>>

Idle == [at |-> "idle", server |-> None, days |-> None, read |-> None]

\* A new group, or one that has committed offsets; a database with settings or without.
AuditInit ==
  /\ topic = <<>> /\ lost = {}
  /\ entries = <<>> /\ missed = {} /\ skipped = {}
  /\ reader = None /\ begun = 0 /\ next = 0 /\ committed \in {0, 1}
  /\ settings \in {<<>>} \cup {<<d>> : d \in Days}
  /\ state = [s \in Servers |-> "down"]
  /\ cached = [s \in Servers |-> DefaultDays]
  /\ change = [c \in Changes |-> Idle]
  /\ stale = {}
  /\ trouble = 0

Trouble == trouble < MaxTrouble /\ trouble' = trouble + 1

-----------------------------------------------------------------------------
(* AuditProducerService *)

\* Whatever happens to the event, the caller goes on as if it had been produced. A
\* send that is tried again may add it twice.
LogAction(e) ==
  \/ topic' = Append(topic, e) /\ UNCHANGED <<lost, trouble>>
  \/ topic' = topic \o <<e, e>> /\ Trouble /\ UNCHANGED lost
  \/ lost' = lost \cup {e} /\ Trouble /\ UNCHANGED topic

-----------------------------------------------------------------------------
(* AuditConsumerService *)

\* A server's consumer joins as it starts, before or after the settings are loaded. It
\* goes on at the committed offset, and without one at the end of the topic, since the
\* subscription does not say fromBeginning.
Assign(s) ==
  /\ reader = None
  /\ state[s] # "down"
  /\ reader' = s
  /\ IF committed = 0
     THEN /\ next' = Len(topic) + 1
          /\ skipped' = skipped \cup (1..Len(topic) \ {entries[i].event : i \in DOMAIN entries})
     ELSE next' = committed /\ UNCHANGED skipped
  /\ begun' = next'
  /\ UNCHANGED <<topic, lost, entries, missed, committed, setting, trouble>>

Entry(n) == [event |-> n, days |-> cached[reader]]

\* Faulty variant: messages are handled side by side.
StoreAnyOrder ==
  /\ reader # None
  /\ \E n \in next..Len(topic) : entries' = Append(entries, Entry(n))
  /\ next' = next + 1
  /\ UNCHANGED <<topic, lost, missed, skipped, reader, begun, committed, setting, trouble>>

\* The entry is kept for as many days as this server has cached.
Store ==
  /\ reader # None
  /\ next <= Len(topic)
  /\ entries' = Append(entries, Entry(next))
  /\ next' = next + 1
  /\ UNCHANGED <<topic, lost, missed, skipped, reader, begun, committed, setting, trouble>>

\* A failure to store is logged, and the message counts as handled.
StoreFails ==
  /\ reader # None
  /\ next <= Len(topic)
  /\ Trouble
  /\ missed' = missed \cup {next}
  /\ next' = next + 1
  /\ UNCHANGED <<topic, lost, entries, skipped, reader, begun, committed, setting>>

\* Faulty variant: what was handed out is committed.
CommitAhead ==
  /\ reader # None
  /\ next <= Len(topic)
  /\ committed' = next + 1
  /\ UNCHANGED <<topic, lost, entries, missed, skipped, reader, begun, next, setting, trouble>>

\* The runner commits what was handled, now and then.
Commit ==
  /\ reader # None
  /\ next > begun
  /\ next # committed
  /\ committed' = next
  /\ UNCHANGED <<topic, lost, entries, missed, skipped, reader, begun, next, setting, trouble>>

-----------------------------------------------------------------------------
(* SystemSettingsService and the life of a server *)

Start(s) ==
  /\ state[s] = "down"
  /\ state' = [state EXCEPT ![s] = "loading"]
  /\ cached' = [cached EXCEPT ![s] = DefaultDays]
  /\ UNCHANGED <<topic, lost, delivery, settings, change, stale, trouble>>

\* Faulty variant: what was found in the database is not kept.
LoadSettingsUnread(s) ==
  /\ state[s] = "loading"
  /\ settings # <<>>
  /\ state' = [state EXCEPT ![s] = "ready"]
  /\ stale' = stale \ {s}
  /\ UNCHANGED <<topic, lost, delivery, settings, cached, change, trouble>>

LoadSettings(s) ==
  /\ state[s] = "loading"
  /\ settings # <<>>
  /\ state' = [state EXCEPT ![s] = "ready"]
  /\ cached' = [cached EXCEPT ![s] = settings[1]]
  /\ stale' = stale \ {s}
  /\ UNCHANGED <<topic, lost, delivery, settings, change, trouble>>

FindNoSettings(s) ==
  /\ state[s] = "loading"
  /\ settings = <<>>
  /\ state' = [state EXCEPT ![s] = "creating"]
  /\ stale' = stale \ {s}
  /\ UNCHANGED <<topic, lost, delivery, settings, cached, change, trouble>>

\* Another server may have created them, too: then there are two documents.
CreateSettings(s) ==
  /\ state[s] = "creating"
  /\ settings' = Append(settings, DefaultDays)
  /\ state' = [state EXCEPT ![s] = "ready"]
  /\ UNCHANGED <<topic, lost, delivery, cached, change, stale, trouble>>

\* A server serves requests once it is ready, and then there are settings to find:
\* the branch that creates them is never taken here.
ChangeDays(c, s, d) ==
  /\ change[c] = Idle
  /\ state[s] = "ready"
  /\ Trouble
  /\ change' = [change EXCEPT ![c] = [at |-> "save", server |-> s, days |-> d, read |-> settings[1]]]
  /\ stale' = IF \E b \in Changes : change[b].at \in {"save", "cache"}
              THEN Servers ELSE stale
  /\ UNCHANGED <<topic, lost, delivery, settings, state, cached>>

\* Saving writes what has changed: nothing if the days are the ones that were read.
SaveDays(c) ==
  /\ change[c].at = "save"
  /\ settings' = IF change[c].days = change[c].read THEN settings
                 ELSE [settings EXCEPT ![1] = change[c].days]
  /\ change' = [change EXCEPT ![c].at = "cache"]
  /\ stale' = stale \cup (Servers \ {change[c].server})
  /\ UNCHANGED <<topic, lost, delivery, state, cached, trouble>>

CacheDays(c) ==
  /\ change[c].at = "cache"
  /\ cached' = [cached EXCEPT ![change[c].server] = change[c].days]
  /\ change' = [change EXCEPT ![c] = [Idle EXCEPT !.at = "done"]]
  /\ UNCHANGED <<topic, lost, delivery, settings, state, stale, trouble>>

\* Before or after the days were saved.
ChangeFails(c) ==
  /\ change[c].at \in {"save", "cache"}
  /\ Trouble
  /\ stale' = stale \cup {change[c].server}
  /\ change' = [change EXCEPT ![c] = [Idle EXCEPT !.at = "done"]]
  /\ UNCHANGED <<topic, lost, delivery, settings, state, cached>>

\* The group goes on with another server, or with this one when it has started again,
\* at the offset that was committed.
Crash(s) ==
  /\ state[s] # "down"
  /\ Trouble
  /\ state' = [state EXCEPT ![s] = "down"]
  /\ change' = [c \in Changes |-> IF change[c].server = s THEN [Idle EXCEPT !.at = "done"] ELSE change[c]]
  /\ reader' = IF reader = s THEN None ELSE reader
  /\ next' = IF reader = s THEN 0 ELSE next
  /\ begun' = IF reader = s THEN 0 ELSE begun
  /\ UNCHANGED <<topic, lost, entries, missed, skipped, committed, settings, cached, stale>>

-----------------------------------------------------------------------------

Serve(s)  == Start(s) \/ LoadSettings(s) \/ FindNoSettings(s) \/ CreateSettings(s)
Handle    == Store \/ StoreFails
AuditNext ==
  \/ Handle \/ Commit
  \/ \E s \in Servers : Serve(s) \/ Assign(s) \/ Crash(s)
  \/ \E c \in Changes : \/ SaveDays(c) \/ CacheDays(c) \/ ChangeFails(c)
                        \/ \E s \in Servers, d \in Days : ChangeDays(c, s, d)

-----------------------------------------------------------------------------
(* Properties *)

Stages == {"down", "loading", "creating", "ready"}

\* Offsets lie within the topic, the setting is one somebody asked for, and only a
\* server that is up has the partition.
AuditTypeOK ==
  /\ \A i \in DOMAIN entries : entries[i].event \in DOMAIN topic /\ entries[i].days \in Days
  /\ missed \subseteq DOMAIN topic /\ skipped \subseteq DOMAIN topic
  /\ reader \in Servers \cup {None}
  /\ IF reader = None THEN next = 0 ELSE next \in 1..Len(topic) + 1 /\ state[reader] # "down"
  /\ committed \in 0..Len(topic) + 1
  /\ settings \in Seq(Days)
  /\ state \in [Servers -> Stages] /\ cached \in [Servers -> Days]
  /\ stale \subseteq Servers
  /\ trouble \in 0..MaxTrouble

StoredDays == IF settings = <<>> THEN DefaultDays ELSE settings[1]

\* The server has loaded the setting and could know of every change to it.
Settled(s) ==
  /\ state[s] = "ready"
  /\ s \notin stale
  /\ \A c \in Changes : change[c].at \notin {"save", "cache"}

\* An entry is kept for the days that are stored in the database, however often they
\* were changed, unless its server was still starting, another one has changed
\* them since it started, or two changes overlapped.
KeptAsConfigured ==
  [][entries' # entries /\ Settled(reader) => Last(entries').days = StoredDays]_auditVars

\* What the group is past, or will go on behind, is stored, unless storing it failed, or
\* it came before the group had an offset: crashes and takeovers lose nothing.
NothingIsPassedOver ==
  \A n \in 1..Len(topic) : n < next \/ n < committed =>
    n \in missed \cup skipped \/ \E i \in DOMAIN entries : entries[i].event = n
=============================================================================
