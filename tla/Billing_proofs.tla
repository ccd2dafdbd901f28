--------------------------- MODULE Billing_proofs ---------------------------
(***************************************************************************)
(* Theorems about Billing for any number of users, checkout sessions,      *)
(* customers and calls, and for any bound on events and failures.          *)
(***************************************************************************)
EXTENDS Billing, TLAPS

-----------------------------------------------------------------------------
(* Types, and what a call and Stripe's objects hold at each stage *)

\* The local variables of a call fit its step.
CallFits(c) ==
  /\ call[c].step \in CheckoutSteps => call[c].user \in Users
  /\ call[c].step \in {"link", "open"} => call[c].customer \in Customers
  /\ call[c].step \in {"store", "announce", "answer"} => call[c].event \in DOMAIN events
  /\ call[c].step \in {"store", "announce"} =>
       /\ call[c].user \in Users
       /\ call[c].session = events[call[c].event].session
  /\ call[c].step = "store" /\ events[call[c].event].type = "completed" =>
       call[c].user = session[call[c].session].user
  /\ call[c].step = "verify" =>
       /\ call[c].user \in Users /\ call[c].session \in Sessions
       /\ session[call[c].session].user = call[c].user
       /\ session[call[c].session].paid

\* A subscription is that of a session a customer has completed.
SessionFits(s) ==
  /\ session[s].user # None => session[s].customer \in Customers
  /\ session[s].paid => subscription[s] # "none"
  /\ subscription[s] # "none" =>
       /\ session[s].user # None
       /\ \E i \in DOMAIN events : events[i].type = "completed" /\ events[i].session = s

EventFits(i) ==
  /\ subscription[events[i].session] # "none"
  /\ events[i].type = "completed" => events[i].status \in {"trialing", "active"}

TypeInv ==
  /\ TypeOK
  /\ \A c \in Calls : CallFits(c)
  /\ \A s \in Sessions : SessionFits(s)
  /\ \A i \in DOMAIN events : EventFits(i)

\* A customer belongs to one user, wherever it is written: in an account, in a call that is
\* about to link it or to open a session for it, or in a session.
Holds(u, k) ==
  \/ account[u].customer = k
  \/ \E c \in Calls : call[c].step \in {"link", "open"} /\ call[c].user = u /\ call[c].customer = k
  \/ \E s \in Sessions : session[s].user = u /\ session[s].customer = k

CustomerInv ==
  \A k \in Customers : \A u \in Users : Holds(u, k) =>
    k \in created /\ \A v \in Users : Holds(v, k) => u = v

\* The inductive strengthening of EventsFindTheAccount: a user whose checkouts never
\* overlapped has one at a time, which finds or makes the user's only customer.
CheckoutFits(c) ==
  LET u == call[c].user IN
  call[c].step \in CheckoutSteps /\ u \notin raced =>
    /\ \A d \in Calls : call[d].step \in CheckoutSteps /\ call[d].user = u => c = d
    /\ call[c].step \in {"create", "link"} => account[u].customer = None
    /\ call[c].step = "open" => account[u].customer = call[c].customer

FindInv ==
  /\ EventsFindTheAccount
  /\ \A c \in Calls : CheckoutFits(c)

\* What storing an event makes of the account's status.
Effect(e) == IF e.type = "completed" THEN "active" ELSE e.status

Buyer(i) == session[events[i].session].user

\* The account of a user for whom events were stored in their order shows the newest of
\* them, and an event that is past its storing is not newer than that.
StatusInv ==
  /\ \A c \in Calls : call[c].step \in {"store", "announce"} => call[c].user = Buyer(call[c].event)
  /\ \A u \in Users :
       /\ newest[u] # 0 => Buyer(newest[u]) = u
       /\ u \notin late /\ newest[u] # 0 => account[u].status = Effect(events[newest[u]])
  /\ \A i \in DOMAIN events :
       i \in answered \/ (\E c \in Calls : call[c].step \in {"announce", "answer"} /\ call[c].event = i)
         => Buyer(i) \in raced \/ newest[Buyer(i)] >= i

\* The last event of a subscription tells its status.
LastTells ==
  \A s \in Sessions : subscription[s] # "none" =>
    \E i \in DOMAIN events :
      /\ events[i].session = s /\ events[i].status = subscription[s]
      /\ \A j \in DOMAIN events : j > i => events[j].session # s

EventType == [type : {"completed", "updated", "deleted"}, session : Sessions, status : Statuses]
SessionType == [user : Users \cup {None}, customer : Customers \cup {None}, paid : BOOLEAN]
CallType  == [step : {"idle", "create", "link", "open", "store", "announce", "answer", "verify"},
              user : Users \cup {None}, session : Sessions \cup {None},
              customer : Customers \cup {None}, event : 0..Len(events)]

LEMMA TypeInit == Init => TypeInv
<1> SUFFICES ASSUME Init PROVE TypeInv
  OBVIOUS
<1>1. TypeOK
  BY BillingAssumption DEF Init, TypeOK, Idle
<1>2. \A c \in Calls : CallFits(c)
  BY DEF Init, Idle, CallFits, CheckoutSteps
<1>3. \A s \in Sessions : SessionFits(s)
  BY DEF Init, SessionFits
<1>4. \A i \in DOMAIN events : EventFits(i)
  BY DEF Init
<1> QED
  BY <1>1, <1>2, <1>3, <1>4 DEF TypeInv

LEMMA EventTypes ==
  ASSUME TypeOK
  PROVE  /\ events \in Seq(EventType) /\ Len(events) \in Nat /\ DOMAIN events = 1..Len(events)
         /\ \A i \in DOMAIN events :
              events[i] \in EventType /\ events[i].session \in Sessions /\ events[i].status \in Statuses
<1>1. events \in Seq(EventType)
  BY DEF TypeOK, EventType
<1>2. Len(events) \in Nat /\ DOMAIN events = 1..Len(events) /\ \A i \in DOMAIN events : events[i] \in EventType
  BY <1>1
<1> QED
  BY <1>1, <1>2 DEF EventType

\* An event that Stripe emits comes after the others.
LEMMA EmitEffect ==
  ASSUME TypeOK, NEW type \in {"completed", "updated", "deleted"}, NEW s \in Sessions, NEW status \in Statuses,
         Emit(type, s, status)
  PROVE  /\ events' \in Seq(EventType)
         /\ Len(events') = Len(events) + 1 /\ Len(events) \in Nat
         /\ \A i \in DOMAIN events : i \in DOMAIN events' /\ events'[i] = events[i]
         /\ events'[Len(events')] = [type |-> type, session |-> s, status |-> status]
         /\ DOMAIN events' = DOMAIN events \cup {Len(events')}
         /\ \A i \in DOMAIN events : i < Len(events')
  BY DEF TypeOK, Emit, EventType

\* What the calls, the accounts and the history hold stays well typed as Stripe emits.
LEMMA EmitType ==
  ASSUME TypeOK, events' \in Seq(EventType), Len(events') = Len(events) + 1,
         UNCHANGED <<account, created, answered, call, announced, failures, history>>,
         session' \in [Sessions -> SessionType],
         subscription' \in [Sessions -> Statuses \cup {"none"}]
  PROVE  TypeOK'
<1>1. Len(events) \in Nat /\ DOMAIN events = 1..Len(events) /\ DOMAIN events' = 1..(Len(events) + 1)
  BY DEF TypeOK
<1>2. 0..Len(events) \subseteq 0..Len(events') /\ answered' \subseteq DOMAIN events'
  BY <1>1 DEF TypeOK
<1>3. call' \in [Calls -> CallType']
  BY <1>2 DEF TypeOK, CallType
<1>4. newest' \in [Users -> 0..Len(events')]
  BY <1>2 DEF TypeOK, history
<1> QED
  BY <1>2, <1>3, <1>4 DEF TypeOK, CallType, EventType, SessionType, history

LEMMA TypeComplete ==
  ASSUME TypeInv, NEW s \in Sessions, CompleteCheckout(s)
  PROVE  TypeInv'
<1> USE DEF TypeInv
<1>1. PICK status \in {"trialing", "active"} :
        /\ subscription' = [subscription EXCEPT ![s] = status]
        /\ session' = [session EXCEPT ![s].paid = (status = "active")]
        /\ Emit("completed", s, status)
  BY DEF CompleteCheckout
<1>2. /\ events' \in Seq(EventType)
      /\ Len(events') = Len(events) + 1
      /\ \A i \in DOMAIN events : i \in DOMAIN events' /\ events'[i] = events[i]
      /\ events'[Len(events')] = [type |-> "completed", session |-> s, status |-> status]
      /\ DOMAIN events' = DOMAIN events \cup {Len(events')}
  BY <1>1, EmitEffect DEF Statuses
<1>3. UNCHANGED <<account, created, answered, call, announced, failures, history>> /\ session[s].user # None
  BY DEF CompleteCheckout
<1>4. session' \in [Sessions -> SessionType]
      /\ subscription' \in [Sessions -> Statuses \cup {"none"}]
  <2>1. subscription' \in [Sessions -> Statuses \cup {"none"}]
    BY <1>1 DEF TypeOK, Statuses
  <2>2. PICK b \in BOOLEAN : session' = [session EXCEPT ![s].paid = b]
    BY <1>1
  <2>3. session' \in [Sessions -> SessionType]
    <3>1. session[s] \in SessionType /\ session \in [Sessions -> SessionType]
      BY DEF TypeOK, SessionType
    <3>2. [session[s] EXCEPT !.paid = b] \in SessionType
      BY <3>1 DEF SessionType
    <3>3. session' \in [Sessions -> SessionType]
      BY <2>2, <3>1, <3>2
    <3> QED
      BY <3>3
  <2> QED
    BY <2>1, <2>3
<1>5. TypeOK'
  BY <1>2, <1>3, <1>4, EmitType
<1>6. /\ \A p \in Sessions : session'[p].user = session[p].user /\ session'[p].customer = session[p].customer
      /\ \A p \in Sessions \ {s} : session'[p] = session[p] /\ subscription'[p] = subscription[p]
      /\ subscription'[s] = status
  BY <1>1 DEF TypeOK
<1>7. \A p \in Sessions : SessionFits(p)'
  BY <1>2, <1>3, <1>6 DEF SessionFits
<1>8. \A i \in DOMAIN events : events[i].session \in Sessions
  BY EventTypes
<1>9. \A i \in DOMAIN events' : EventFits(i)'
  BY <1>2, <1>6, <1>8 DEF EventFits
<1>10. \A p \in Sessions : session[p].paid => session'[p].paid
  BY <1>1, <1>6, <1>3 DEF SessionFits, TypeOK, CompleteCheckout
<1>11. ASSUME NEW c \in Calls PROVE CallFits(c)'
  <2>1. CallFits(c) /\ call'[c] = call[c]
    BY <1>3
  <2>2. call[c].event \in DOMAIN events => events'[call[c].event] = events[call[c].event]
                                            /\ events[call[c].event].session \in Sessions
    BY <1>2, <1>8
  <2> QED
    BY <1>2, <1>6, <1>10, <2>1, <2>2 DEF CallFits
<1> QED
  BY <1>5, <1>7, <1>9, <1>11

LEMMA TypeChange ==
  ASSUME TypeInv, NEW s \in Sessions, ChangeSubscription(s)
  PROVE  TypeInv'
<1> USE DEF TypeInv
<1>1. PICK status \in Statuses :
        /\ subscription' = [subscription EXCEPT ![s] = status]
        /\ Emit(IF status = "canceled" THEN "deleted" ELSE "updated", s, status)
  BY DEF ChangeSubscription
<1>2. PICK type \in {"updated", "deleted"} : Emit(type, s, status)
  BY <1>1
<1>3. /\ events' \in Seq(EventType)
      /\ Len(events') = Len(events) + 1
      /\ \A i \in DOMAIN events : i \in DOMAIN events' /\ events'[i] = events[i]
      /\ events'[Len(events')] = [type |-> type, session |-> s, status |-> status]
      /\ DOMAIN events' = DOMAIN events \cup {Len(events')}
  <2>1. type \in {"completed", "updated", "deleted"}
    OBVIOUS
  <2> QED
    BY <1>2, <2>1, EmitEffect
<1>4. /\ UNCHANGED <<account, created, session, answered, call, announced, failures, history>>
      /\ subscription[s] \in Statuses
  BY DEF ChangeSubscription
<1>5. subscription' \in [Sessions -> Statuses \cup {"none"}]
  BY <1>1 DEF TypeOK
<1>6. session' \in [Sessions -> SessionType]
  BY <1>4 DEF TypeOK, SessionType
<1>7. TypeOK'
  BY <1>3, <1>4, <1>5, <1>6, EmitType
<1>8. \A p \in Sessions : subscription'[p] # "none" <=> subscription[p] # "none"
  BY <1>1, <1>4 DEF TypeOK, Statuses
<1>9. \A p \in Sessions : SessionFits(p)'
  BY <1>3, <1>4, <1>8 DEF SessionFits
<1>10. \A i \in DOMAIN events : events[i].session \in Sessions
  BY EventTypes
<1>11. \A i \in DOMAIN events' : EventFits(i)'
  BY <1>3, <1>4, <1>8, <1>10 DEF EventFits, Statuses
<1>12. ASSUME NEW c \in Calls PROVE CallFits(c)'
  BY <1>3, <1>4 DEF CallFits
<1> QED
  BY <1>7, <1>9, <1>11, <1>12

\* A call that changes leaves the others on their course.
LEMMA OthersStayOnCourse ==
  ASSUME TypeInv, NEW c \in Calls, NEW k \in CallType, call' = [call EXCEPT ![c] = k], UNCHANGED events,
         session' \in [Sessions -> SessionType],
         \A s \in Sessions : session[s].user # None => session'[s] = session[s],
         CallFits(c)'
  PROVE  /\ call' \in [Calls -> CallType'] /\ CallType' = CallType
         /\ \A d \in Calls : CallFits(d)'
<1>1. call \in [Calls -> CallType]
  BY DEF TypeInv, TypeOK, CallType
<1>2. CallType' = CallType
  BY DEF CallType
<1>3. \A d \in Calls \ {c} : call'[d] = call[d]
  BY <1>1
<1>4. ASSUME NEW d \in Calls \ {c} PROVE CallFits(d)'
  <2>1. CallFits(d) /\ call'[d] = call[d]
    BY <1>3 DEF TypeInv
  <2>2. \A i \in DOMAIN events : events[i].session \in Sessions /\ session[events[i].session].user # None
    BY EventTypes DEF TypeInv, EventFits, SessionFits
  <2>3. \A s \in Sessions : session[s].paid => session[s].user # None
    BY DEF TypeInv, SessionFits
  <2> QED
    BY <2>1, <2>2, <2>3 DEF CallFits
<1> QED
  BY <1>1, <1>2, <1>4

\* What storing an event makes of an account is an account.
LEMMA StoredAccount ==
  ASSUME NEW a \in [customer : Customers \cup {None}, subscription : Sessions \cup {None}, status : Statuses \cup {"none"}],
         NEW s \in Sessions
  PROVE  /\ Activated(a, s) \in [customer : Customers \cup {None}, subscription : Sessions \cup {None},
                                 status : Statuses \cup {"none"}]
         /\ \A status \in Statuses :
              [a EXCEPT !.status = status] \in [customer : Customers \cup {None}, subscription : Sessions \cup {None},
                                                status : Statuses \cup {"none"}]
  BY DEF Activated, Statuses

\* The rest of the state, while Stripe emits nothing.
OthersType ==
  /\ account \in [Users -> [customer : Customers \cup {None},
                            subscription : Sessions \cup {None},
                            status : Statuses \cup {"none"}]]
  /\ created \subseteq Customers
  /\ session \in [Sessions -> SessionType]
  /\ answered \subseteq DOMAIN events
  /\ announced \subseteq Sessions
  /\ failures \in 0..MaxFailures
  /\ newest \in [Users -> 0..Len(events)]
  /\ late \subseteq Users
  /\ raced \subseteq Users

LEMMA TypeCall ==
  ASSUME TypeInv, NEW c \in Calls, NEW k \in CallType, call' = [call EXCEPT ![c] = k],
         UNCHANGED <<subscription, events>>,
         \A s \in Sessions : session[s].user # None => session'[s] = session[s],
         OthersType', \A s \in Sessions : SessionFits(s)', CallFits(c)'
  PROVE  TypeInv'
<1>1. /\ call' \in [Calls -> CallType'] /\ CallType' = CallType
      /\ \A d \in Calls : CallFits(d)'
  BY OthersStayOnCourse DEF OthersType
<1>2. \A i \in DOMAIN events' : EventFits(i)'
  BY DEF TypeInv, EventFits
<1>3. TypeOK'
  BY <1>1 DEF TypeInv, TypeOK, OthersType, CallType, SessionType
<1> QED
  BY <1>1, <1>2, <1>3 DEF TypeInv

\* A call that only moves on, or ends, or begins.
LEMMA TypeMove ==
  ASSUME TypeInv, NEW c \in Calls, NEW k \in CallType, call' = [call EXCEPT ![c] = k],
         UNCHANGED <<session, subscription, events>>, OthersType', CallFits(c)'
  PROVE  TypeInv'
<1>1. \A s \in Sessions : SessionFits(s)'
  BY DEF TypeInv, SessionFits
<1> QED
  BY <1>1, TypeCall

LEMMA OthersHold ==
  ASSUME TypeInv
  PROVE  OthersType /\ call \in [Calls -> CallType] /\ \A c \in Calls : call[c] \in CallType
<1>1. OthersType
  BY DEF TypeInv, TypeOK, OthersType, SessionType
<1>2. call \in [Calls -> CallType]
  BY DEF TypeInv, TypeOK, CallType
<1> QED
  BY <1>1, <1>2

LEMMA IdleCall ==
  ASSUME TypeInv, NEW c \in Calls, call' = [call EXCEPT ![c] = Idle]
  PROVE  Idle \in CallType /\ CallFits(c)'
<1>1. Idle \in CallType
  <2>1. 0 \in 0..Len(events)
    BY EventTypes DEF TypeInv
  <2> QED
    BY <2>1 DEF Idle, CallType
<1>2. call'[c] = Idle
  BY OthersHold
<1> QED
  BY <1>1, <1>2 DEF Idle, CallFits, CheckoutSteps

LEMMA TypeBegin ==
  ASSUME TypeInv, NEW c \in Calls, NEW u \in Users,
         BeginCheckout(c, u) \/ \E s \in Sessions : Verify(c, u, s)
  PROVE  TypeInv'
<1>1. 0 \in 0..Len(events) /\ OthersType /\ call \in [Calls -> CallType]
  BY EventTypes, OthersHold DEF TypeInv
<1>2. CASE BeginCheckout(c, u)
  <2> DEFINE k == [Idle EXCEPT !.step = IF account[u].customer = None THEN "create" ELSE "open",
                               !.user = u, !.customer = account[u].customer]
  <2>1. k \in CallType /\ k.step \in {"create", "open"} /\ k.user = u
        /\ (k.step = "open" => k.customer \in Customers)
    BY <1>1 DEF Idle, CallType, OthersType
  <2>2. call' = [call EXCEPT ![c] = k]
    BY <1>2 DEF BeginCheckout
  <2> HIDE DEF k
  <2>3. call'[c] = k
    BY <1>1, <2>2
  <2>4. CallFits(c)'
    BY <2>1, <2>3 DEF CallFits
  <2>5. OthersType'
    BY <1>1, <1>2 DEF OthersType, BeginCheckout, stripe
  <2> QED
    BY <1>2, <2>1, <2>2, <2>4, <2>5, TypeMove DEF BeginCheckout, stripe
<1>3. ASSUME NEW s \in Sessions, Verify(c, u, s) PROVE TypeInv'
  <2> DEFINE k == [Idle EXCEPT !.step = "verify", !.user = u, !.session = s]
  <2>1. k \in CallType /\ k.step = "verify" /\ k.user = u /\ k.session = s
    BY <1>1 DEF Idle, CallType
  <2>2. call' = [call EXCEPT ![c] = k]
    BY <1>3 DEF Verify
  <2> HIDE DEF k
  <2>3. call'[c] = k
    BY <1>1, <2>2
  <2>4. CallFits(c)'
    BY <1>3, <2>1, <2>3 DEF CallFits, Verify, stripe, CheckoutSteps
  <2>5. OthersType'
    BY <1>1, <1>3 DEF OthersType, Verify, stripe, history
  <2> QED
    BY <1>3, <2>1, <2>2, <2>4, <2>5, TypeMove DEF Verify, stripe
<1> QED
  BY <1>2, <1>3

\* The user that the webhook picks is one that the event is about.
LEMMA Picked ==
  ASSUME NEW e, Addressee(e) # {}
  PROVE  (CHOOSE u \in Addressee(e) : TRUE) \in Addressee(e)
<1>1. \E u \in Addressee(e) : TRUE
  OBVIOUS
<1> QED
  BY <1>1

\* What a delivery makes of the call: it is to be stored for somebody the event is
\* about, or to be answered if it is about nobody.
LEMMA DeliverEffect ==
  ASSUME TypeInv, NEW c \in Calls, NEW i \in DOMAIN events, Deliver(c, i)
  PROVE  \E k \in CallType :
           /\ call' = [call EXCEPT ![c] = k] /\ k.event = i
           /\ \/ Addressee(events[i]) = {} /\ k.step = "answer"
              \/ /\ k.step = "store" /\ k.session = events[i].session
                 /\ k.user \in Users /\ k.user \in Addressee(events[i])
<1>1. i \in 0..Len(events) /\ events[i].session \in Sessions
  BY EventTypes DEF TypeInv
<1>2. CASE Addressee(events[i]) = {}
  <2> DEFINE k == [Idle EXCEPT !.step = "answer", !.event = i]
  <2>1. k \in CallType /\ k.step = "answer" /\ k.event = i
    BY <1>1 DEF Idle, CallType
  <2>2. call' = [call EXCEPT ![c] = k]
    BY <1>2 DEF Deliver
  <2> HIDE DEF k
  <2> QED
    BY <1>2, <2>1, <2>2
<1>3. CASE Addressee(events[i]) # {}
  <2> DEFINE w == CHOOSE u \in Addressee(events[i]) : TRUE
             k == [Idle EXCEPT !.step = "store", !.event = i, !.session = events[i].session, !.user = w]
  <2>1. w \in Addressee(events[i])
    BY <1>3, Picked
  <2>2. Addressee(events[i]) \subseteq Users
    <3>1. session[events[i].session].user \in Users
      BY <1>1, OthersHold DEF TypeInv, EventFits, SessionFits, OthersType, SessionType
    <3> QED
      BY <3>1 DEF Addressee
  <2>3. call' = [call EXCEPT ![c] = k]
    BY <1>3 DEF Deliver
  <2> HIDE DEF w
  <2>4. k \in CallType /\ k.step = "store" /\ k.event = i /\ k.session = events[i].session /\ k.user = w
    BY <1>1, <2>1, <2>2 DEF Idle, CallType
  <2> HIDE DEF k
  <2> QED
    BY <2>1, <2>2, <2>3, <2>4
<1> QED
  BY <1>2, <1>3

LEMMA TypeDeliver ==
  ASSUME TypeInv, NEW c \in Calls, NEW i \in DOMAIN events, Deliver(c, i)
  PROVE  TypeInv'
<1>1. UNCHANGED <<account, stripe, answered, announced, failures, history>>
  BY DEF Deliver
<1>2. PICK k \in CallType :
        /\ call' = [call EXCEPT ![c] = k] /\ k.event = i
        /\ \/ Addressee(events[i]) = {} /\ k.step = "answer"
           \/ /\ k.step = "store" /\ k.session = events[i].session
              /\ k.user \in Users /\ k.user \in Addressee(events[i])
  BY DeliverEffect
<1>3. call'[c] = k
  BY <1>2, OthersHold
<1>4. CallFits(c)'
  BY <1>1, <1>2, <1>3 DEF CallFits, CheckoutSteps, Addressee, stripe
<1>5. OthersType'
  BY <1>1, OthersHold DEF OthersType, stripe, history
<1> QED
  BY <1>1, <1>2, <1>4, <1>5, TypeMove DEF stripe

\* What the steps of a call do to it.
LEMMA StepCall ==
  ASSUME TypeInv, NEW c \in Calls
  PROVE  /\ CreateCustomer(c) => \E m \in Customers \ created :
              /\ created' = created \cup {m}
              /\ call' = [call EXCEPT ![c] = [call[c] EXCEPT !.step = "link", !.customer = m]]
         /\ LinkCustomer(c) => call' = [call EXCEPT ![c] = [call[c] EXCEPT !.step = "open"]]
         /\ StoreEvent(c) =>
              call' = [call EXCEPT ![c] = [call[c] EXCEPT
                         !.step = IF events[call[c].event].type = "completed" THEN "announce" ELSE "answer"]]
         /\ Announce(c) => call' = [call EXCEPT ![c] = [call[c] EXCEPT !.step = "answer"]]
         /\ OpenSession(c) \/ Answer(c) \/ StoreVerified(c) \/ Fail(c) =>
              call' = [call EXCEPT ![c] = Idle]
<1>1. call \in [Calls -> CallType] /\ call[c] \in CallType
  BY OthersHold
<1>2. CreateCustomer(c) => \E m \in Customers \ created :
        /\ created' = created \cup {m}
        /\ call' = [call EXCEPT ![c] = [call[c] EXCEPT !.step = "link", !.customer = m]]
  BY <1>1 DEF CreateCustomer, CallType
<1>3. LinkCustomer(c) => call' = [call EXCEPT ![c] = [call[c] EXCEPT !.step = "open"]]
  BY <1>1 DEF LinkCustomer, CallType
<1>4. StoreEvent(c) =>
        call' = [call EXCEPT ![c] = [call[c] EXCEPT
                   !.step = IF events[call[c].event].type = "completed" THEN "announce" ELSE "answer"]]
  BY <1>1 DEF StoreEvent, CallType
<1>5. Announce(c) => call' = [call EXCEPT ![c] = [call[c] EXCEPT !.step = "answer"]]
  BY <1>1 DEF Announce, CallType
<1>6. OpenSession(c) \/ Answer(c) \/ StoreVerified(c) \/ Fail(c) => call' = [call EXCEPT ![c] = Idle]
  BY DEF OpenSession, Answer, StoreVerified, Fail, Finish
<1> QED
  BY <1>2, <1>3, <1>4, <1>5, <1>6

\* The completion that a verified session's account is noted with.
LEMMA CompletionIs ==
  ASSUME TypeInv, NEW s \in Sessions, subscription[s] # "none"
  PROVE  /\ CompletionOf(s) \in DOMAIN events
         /\ events[CompletionOf(s)].type = "completed" /\ events[CompletionOf(s)].session = s
<1>1. \E i \in DOMAIN events : events[i].type = "completed" /\ events[i].session = s
  BY DEF TypeInv, SessionFits
<1> QED
  BY <1>1 DEF CompletionOf

\* Noting how far the stored state lags.
LEMMA NoteType ==
  ASSUME TypeInv, NEW u \in Users, NEW i \in DOMAIN events, Note(u, i)
  PROVE  newest' \in [Users -> 0..Len(events)] /\ late' \subseteq Users /\ raced' = raced
<1>1. i \in 0..Len(events) /\ newest \in [Users -> 0..Len(events)]
  BY EventTypes, OthersHold DEF TypeInv, OthersType
<1> QED
  BY <1>1, OthersHold DEF Note, OthersType

LEMMA TypeContinue ==
  ASSUME TypeInv, NEW c \in Calls, Continue(c) \/ Fail(c)
  PROVE  TypeInv'
<1>1. OthersType /\ call \in [Calls -> CallType] /\ call[c] \in CallType /\ CallFits(c)
  BY OthersHold DEF TypeInv
<1>2. CASE CreateCustomer(c)
  <2>1. PICK m \in Customers \ created :
          /\ created' = created \cup {m}
          /\ call' = [call EXCEPT ![c] = [call[c] EXCEPT !.step = "link", !.customer = m]]
    BY <1>2, StepCall
  <2> DEFINE k == [call[c] EXCEPT !.step = "link", !.customer = m]
  <2>2. k \in CallType /\ k.step = "link" /\ k.customer = m /\ k.user = call[c].user
    BY <1>1 DEF CallType
  <2> HIDE DEF k
  <2>3. call' = [call EXCEPT ![c] = k] /\ call'[c] = k
    BY <1>1, <2>1 DEF k
  <2>4. UNCHANGED <<account, session, subscription, events, answered, announced, failures, history>>
        /\ call[c].step = "create"
    BY <1>2 DEF CreateCustomer
  <2>5. CallFits(c)'
    BY <1>1, <2>2, <2>3, <2>4 DEF CallFits, CheckoutSteps
  <2>6. OthersType'
    BY <1>1, <2>1, <2>4 DEF OthersType, history
  <2> QED
    BY <2>2, <2>3, <2>4, <2>5, <2>6, TypeMove
<1>3. CASE LinkCustomer(c)
  <2> DEFINE k == [call[c] EXCEPT !.step = "open"]
  <2>1. k \in CallType /\ k.step = "open" /\ k.customer = call[c].customer /\ k.user = call[c].user
    BY <1>1 DEF CallType
  <2>2. call' = [call EXCEPT ![c] = k]
    BY <1>3, StepCall
  <2> HIDE DEF k
  <2>3. call'[c] = k
    BY <1>1, <2>2
  <2>4. /\ account' = [account EXCEPT ![call[c].user].customer = call[c].customer]
        /\ UNCHANGED <<stripe, answered, announced, failures, history>>
        /\ call[c].step = "link"
    BY <1>3 DEF LinkCustomer
  <2>5. CallFits(c)'
    BY <1>1, <2>1, <2>3, <2>4 DEF CallFits, CheckoutSteps
  <2>6. call[c].user \in Users /\ call[c].customer \in Customers
    BY <1>1, <2>4 DEF CallFits, CheckoutSteps
  <2>7. OthersType'
    BY <1>1, <2>4, <2>6 DEF OthersType, history, stripe
  <2> QED
    BY <2>1, <2>2, <2>4, <2>5, <2>7, TypeMove DEF stripe
<1>4. CASE OpenSession(c)
  <2>1. PICK s \in Sessions :
          /\ session[s].user = None
          /\ session' = [session EXCEPT ![s].user = call[c].user, ![s].customer = call[c].customer]
    BY <1>4 DEF OpenSession
  <2>2. /\ UNCHANGED <<account, created, subscription, events, answered, announced, failures, history>>
        /\ call[c].step = "open"
    BY <1>4 DEF OpenSession
  <2>3. call[c].user \in Users /\ call[c].customer \in Customers
    BY <1>1, <2>2 DEF CallFits, CheckoutSteps
  <2>4. session[s] \in SessionType
    BY <1>1 DEF OthersType
  <2> DEFINE e == [session[s] EXCEPT !.user = call[c].user, !.customer = call[c].customer]
  <2>5. e \in SessionType /\ e.user = call[c].user /\ e.customer = call[c].customer /\ e.paid = session[s].paid
    BY <2>3, <2>4 DEF SessionType
  <2>6. session' = [session EXCEPT ![s] = e]
    BY <1>1, <2>1, <2>4 DEF OthersType, SessionType
  <2> HIDE DEF e
  <2>7. session' \in [Sessions -> SessionType] /\ session'[s] = e /\ \A p \in Sessions \ {s} : session'[p] = session[p]
    BY <1>1, <2>5, <2>6 DEF OthersType
  <2>8. \A p \in Sessions : SessionFits(p)'
    BY <2>1, <2>2, <2>3, <2>5, <2>7, BillingAssumption DEF SessionFits, TypeInv
  <2>9. OthersType'
    BY <1>1, <2>2, <2>7 DEF OthersType, history
  <2>10. call' = [call EXCEPT ![c] = Idle]
    BY <1>4, StepCall
  <2> QED
    BY <2>1, <2>2, <2>7, <2>8, <2>9, <2>10, IdleCall, TypeCall
<1>5. CASE StoreEvent(c)
  <2> DEFINE e == events[call[c].event]
             k == [call[c] EXCEPT !.step = IF e.type = "completed" THEN "announce" ELSE "answer"]
  <2>1. call[c].event \in DOMAIN events /\ call[c].user \in Users /\ call[c].session = e.session
        /\ call[c].step = "store"
    BY <1>1, <1>5 DEF CallFits, StoreEvent
  <2>2. /\ account' = [account EXCEPT ![call[c].user] =
                         IF e.type = "completed" THEN Activated(@, e.session) ELSE [@ EXCEPT !.status = e.status]]
        /\ Note(call[c].user, call[c].event)
        /\ UNCHANGED <<stripe, answered, announced, failures>>
    BY <1>5 DEF StoreEvent
  <2>3. e.session \in Sessions /\ e.status \in Statuses
    BY <2>1, EventTypes DEF TypeInv
  <2>4. call' = [call EXCEPT ![c] = k]
    BY <1>5, StepCall
  <2>5. k \in CallType /\ k.step \in {"announce", "answer"} /\ k.event = call[c].event /\ k.user = call[c].user
        /\ k.session = call[c].session
    BY <1>1 DEF CallType
  <2> HIDE DEF k
  <2>6. call'[c] = k
    BY <1>1, <2>4
  <2>7. CallFits(c)'
    BY <2>1, <2>2, <2>5, <2>6 DEF CallFits, CheckoutSteps, stripe
  <2>8. newest' \in [Users -> 0..Len(events)] /\ late' \subseteq Users /\ raced' = raced
    BY <2>1, <2>2, NoteType
  <2> HIDE DEF e
  <2>9. account' \in [Users -> [customer : Customers \cup {None}, subscription : Sessions \cup {None},
                                status : Statuses \cup {"none"}]]
    <3> DEFINE u == call[c].user
               a == IF e.type = "completed" THEN Activated(account[u], e.session) ELSE [account[u] EXCEPT !.status = e.status]
    <3>1. account' = [account EXCEPT ![u] = a] /\ u \in Users
      BY <2>1, <2>2
    <3>2. a \in [customer : Customers \cup {None}, subscription : Sessions \cup {None}, status : Statuses \cup {"none"}]
      BY <1>1, <2>3, <3>1, StoredAccount DEF OthersType
    <3> HIDE DEF a, u
    <3> QED
      BY <1>1, <3>1, <3>2 DEF OthersType
  <2>10. OthersType'
    BY <1>1, <2>2, <2>8, <2>9 DEF OthersType, stripe
  <2> QED
    BY <2>2, <2>4, <2>5, <2>7, <2>10, TypeMove DEF stripe
<1>6. CASE Announce(c)
  <2> DEFINE k == [call[c] EXCEPT !.step = "answer"]
  <2>1. k \in CallType /\ k.step = "answer" /\ k.event = call[c].event
    BY <1>1 DEF CallType
  <2>2. call' = [call EXCEPT ![c] = k]
    BY <1>6, StepCall
  <2> HIDE DEF k
  <2>3. call'[c] = k
    BY <1>1, <2>2
  <2>4. /\ announced' = announced \cup {call[c].session} /\ call[c].step = "announce"
        /\ UNCHANGED <<account, stripe, answered, failures, history>>
    BY <1>6 DEF Announce
  <2>5. call[c].event \in DOMAIN events /\ call[c].session \in Sessions
    BY <1>1, <2>4, EventTypes DEF CallFits, TypeInv
  <2>6. CallFits(c)'
    BY <2>1, <2>3, <2>4, <2>5 DEF CallFits, CheckoutSteps, stripe
  <2>7. OthersType'
    BY <1>1, <2>4, <2>5 DEF OthersType, stripe, history
  <2> QED
    BY <2>1, <2>2, <2>4, <2>6, <2>7, TypeMove DEF stripe
<1>7. CASE Answer(c)
  <2>1. /\ answered' = answered \cup {call[c].event} /\ call[c].event \in DOMAIN events
        /\ UNCHANGED <<account, stripe, announced, failures, history>>
    BY <1>1, <1>7 DEF Answer, CallFits
  <2>2. OthersType'
    BY <1>1, <2>1 DEF OthersType, stripe, history
  <2> QED
    BY <1>7, <2>1, <2>2, StepCall, IdleCall, TypeMove DEF stripe
<1>8. CASE StoreVerified(c)
  <2>1. call[c].user \in Users /\ call[c].session \in Sessions /\ session[call[c].session].paid
    BY <1>1, <1>8 DEF StoreVerified, CallFits
  <2>2. /\ account' = [account EXCEPT ![call[c].user] = Activated(@, call[c].session)]
        /\ Note(call[c].user, CompletionOf(call[c].session))
        /\ UNCHANGED <<stripe, answered, announced, failures>>
    BY <1>8 DEF StoreVerified
  <2>3. CompletionOf(call[c].session) \in DOMAIN events
    BY <2>1, CompletionIs DEF TypeInv, SessionFits
  <2>4. newest' \in [Users -> 0..Len(events)] /\ late' \subseteq Users /\ raced' = raced
    BY <2>1, <2>2, <2>3, NoteType
  <2>5. account' \in [Users -> [customer : Customers \cup {None}, subscription : Sessions \cup {None},
                                status : Statuses \cup {"none"}]]
    BY <1>1, <2>1, <2>2, StoredAccount DEF OthersType
  <2>6. OthersType'
    BY <1>1, <2>2, <2>4, <2>5 DEF OthersType, stripe
  <2> QED
    BY <1>8, <2>2, <2>6, StepCall, IdleCall, TypeMove DEF stripe
<1>9. CASE Fail(c)
  <2>1. failures' \in 0..MaxFailures
    BY <1>1, <1>9, BillingAssumption DEF Fail, OthersType
  <2>2. UNCHANGED <<account, stripe, answered, announced, history>>
    BY <1>9 DEF Fail
  <2>3. OthersType'
    BY <1>1, <2>1, <2>2 DEF OthersType, stripe, history
  <2> QED
    BY <1>9, <2>2, <2>3, StepCall, IdleCall, TypeMove DEF stripe
<1> QED
  BY <1>2, <1>3, <1>4, <1>5, <1>6, <1>7, <1>8, <1>9 DEF Continue

LEMMA TypeNext == TypeInv /\ [Next]_vars => TypeInv'
<1> SUFFICES ASSUME TypeInv, [Next]_vars PROVE TypeInv'
  OBVIOUS
<1>1. CASE UNCHANGED vars
  <2>1. TypeOK'
    BY <1>1 DEF TypeInv, TypeOK, vars, stripe, history
  <2> QED
    BY <1>1, <2>1 DEF TypeInv, CallFits, SessionFits, EventFits, vars, stripe
<1> QED
  BY <1>1, TypeComplete, TypeChange, TypeContinue, TypeBegin, TypeDeliver DEF Next

\* Every state of the payments is well typed; in particular the account's status
\* is one of Stripe's or none, through both ways it is stored.
THEOREM Typing == Spec => []TypeOK
<1>1. Spec => []TypeInv
  BY TypeInit, TypeNext, PTL DEF Spec
<1> QED
  BY <1>1, PTL DEF TypeInv

-----------------------------------------------------------------------------
(* What a step leaves and what it changes *)

\* Stripe's objects stay what they are about, and history is not forgotten.
LEMMA Kept ==
  ASSUME TypeInv, [Next]_vars
  PROVE  /\ \A s \in Sessions : session[s].user # None =>
              session'[s].user = session[s].user /\ session'[s].customer = session[s].customer
         /\ \A s \in Sessions : subscription[s] # "none" => subscription'[s] # "none"
         /\ \A i \in DOMAIN events : i \in DOMAIN events' /\ events'[i] = events[i]
         /\ raced \subseteq raced' /\ late \subseteq late'
<1> DEFINE Goal ==
      /\ \A s \in Sessions : session[s].user # None =>
           session'[s].user = session[s].user /\ session'[s].customer = session[s].customer
      /\ \A s \in Sessions : subscription[s] # "none" => subscription'[s] # "none"
      /\ \A i \in DOMAIN events : i \in DOMAIN events' /\ events'[i] = events[i]
      /\ raced \subseteq raced' /\ late \subseteq late'
<1>1. session \in [Sessions -> SessionType] /\ subscription \in [Sessions -> Statuses \cup {"none"}] /\ TypeOK
  BY OthersHold DEF OthersType, TypeInv, TypeOK
<1>2. ASSUME NEW s \in Sessions, CompleteCheckout(s) PROVE Goal
  <2>1. PICK status \in {"trialing", "active"} :
          /\ subscription' = [subscription EXCEPT ![s] = status]
          /\ session' = [session EXCEPT ![s].paid = (status = "active")]
          /\ Emit("completed", s, status)
    BY <1>2 DEF CompleteCheckout
  <2>2. \A p \in Sessions : session'[p].user = session[p].user /\ session'[p].customer = session[p].customer
    BY <1>1, <2>1 DEF SessionType
  <2>3. \A p \in Sessions : subscription[p] # "none" => subscription'[p] # "none"
    BY <1>1, <2>1
  <2>4. \A i \in DOMAIN events : i \in DOMAIN events' /\ events'[i] = events[i]
    BY <1>1, <2>1, EmitEffect DEF Statuses
  <2> QED
    BY <1>2, <2>2, <2>3, <2>4 DEF CompleteCheckout, history
<1>3. ASSUME NEW s \in Sessions, ChangeSubscription(s) PROVE Goal
  <2>1. PICK status \in Statuses :
          /\ subscription' = [subscription EXCEPT ![s] = status]
          /\ Emit(IF status = "canceled" THEN "deleted" ELSE "updated", s, status)
    BY <1>3 DEF ChangeSubscription
  <2>2. PICK type \in {"completed", "updated", "deleted"} : Emit(type, s, status)
    BY <2>1
  <2>3. \A p \in Sessions : subscription[p] # "none" => subscription'[p] # "none"
    BY <1>1, <2>1 DEF Statuses
  <2>4. \A i \in DOMAIN events : i \in DOMAIN events' /\ events'[i] = events[i]
    BY <1>1, <2>2, EmitEffect
  <2> QED
    BY <1>3, <2>3, <2>4 DEF ChangeSubscription, history
<1>4. ASSUME NEW c \in Calls, OpenSession(c) PROVE Goal
  BY <1>1, <1>4 DEF OpenSession, history
<1>5. ASSUME NEW c \in Calls, CreateCustomer(c) \/ LinkCustomer(c) \/ Announce(c) \/ Answer(c) \/ Fail(c)
      PROVE  Goal
  BY <1>5 DEF CreateCustomer, LinkCustomer, Announce, Answer, Fail, stripe, history
<1>6. ASSUME NEW c \in Calls, StoreEvent(c) \/ StoreVerified(c) PROVE Goal
  BY <1>6 DEF StoreEvent, StoreVerified, Note, stripe
<1>7. ASSUME NEW c \in Calls, NEW u \in Users, BeginCheckout(c, u) \/ \E s \in Sessions : Verify(c, u, s)
      PROVE  Goal
  BY <1>7 DEF BeginCheckout, Verify, stripe, history
<1>8. ASSUME NEW c \in Calls, NEW i \in DOMAIN events, Deliver(c, i) PROVE Goal
  BY <1>8 DEF Deliver, stripe, history
<1>9. CASE UNCHANGED vars
  BY <1>9 DEF vars, stripe, history
<1> QED
  BY <1>2, <1>3, <1>4, <1>5, <1>6, <1>7, <1>8, <1>9 DEF Next, Continue

\* The account a call stores to: it links a customer, or activates or changes what the
\* user who bought the session has.
LEMMA AccountEffect ==
  ASSUME TypeInv, [Next]_vars
  PROVE  \/ UNCHANGED <<account, newest, late>>
         \/ \E c \in Calls : /\ LinkCustomer(c) /\ call[c].user \in Users /\ call[c].customer \in Customers
                             /\ UNCHANGED <<newest, late>>
                             /\ account' = [account EXCEPT ![call[c].user].customer = call[c].customer]
         \/ \E c \in Calls, u \in Users, i \in DOMAIN events :
              /\ call[c].user = u /\ Note(u, i)
              /\ account'[u].status = Effect(events[i])
              /\ account'[u].customer = account[u].customer
              /\ \A v \in Users \ {u} : account'[v] = account[v]
              /\ \/ account'[u].subscription = account[u].subscription /\ StoreEvent(c) /\ call[c].event = i
                 \/ account'[u].subscription = events[i].session /\ session[events[i].session].user = u
<1>1. OthersType /\ \A c \in Calls : CallFits(c)
  BY OthersHold DEF TypeInv
<1>2. ASSUME NEW c \in Calls, LinkCustomer(c)
      PROVE  /\ call[c].user \in Users /\ call[c].customer \in Customers
             /\ UNCHANGED <<newest, late>>
             /\ account' = [account EXCEPT ![call[c].user].customer = call[c].customer]
  BY <1>1, <1>2 DEF LinkCustomer, CallFits, CheckoutSteps, history
<1>3. ASSUME NEW c \in Calls, StoreEvent(c)
      PROVE  \E u \in Users, i \in DOMAIN events :
               /\ call[c].event = i /\ call[c].user = u /\ Note(u, i)
               /\ account'[u].status = Effect(events[i])
               /\ account'[u].customer = account[u].customer
               /\ \A v \in Users \ {u} : account'[v] = account[v]
               /\ \/ account'[u].subscription = account[u].subscription
                  \/ account'[u].subscription = events[i].session /\ session[events[i].session].user = u
  <2> DEFINE i == call[c].event
             u == call[c].user
             e == events[i]
  <2>1. /\ i \in DOMAIN events /\ u \in Users /\ call[c].session = e.session
        /\ e.type = "completed" => u = session[e.session].user
    BY <1>1, <1>3 DEF CallFits, StoreEvent
  <2>2. /\ account' = [account EXCEPT ![u] = IF e.type = "completed" THEN Activated(@, e.session)
                                             ELSE [@ EXCEPT !.status = e.status]]
        /\ Note(u, i)
    BY <1>3 DEF StoreEvent
  <2>3. e.session \in Sessions /\ e.status \in Statuses
    BY <2>1, EventTypes DEF TypeInv
  <2> HIDE DEF e
  <2>4. /\ account'[u].status = IF e.type = "completed" THEN "active" ELSE e.status
        /\ account'[u].customer = account[u].customer
        /\ \A v \in Users \ {u} : account'[v] = account[v]
        /\ IF e.type = "completed" THEN account'[u].subscription = e.session
                                   ELSE account'[u].subscription = account[u].subscription
    BY <1>1, <2>1, <2>2, <2>3 DEF OthersType, Activated
  <2>5. /\ account'[u].status = Effect(e)
        /\ \/ account'[u].subscription = account[u].subscription
           \/ account'[u].subscription = e.session /\ session[e.session].user = u
    BY <2>1, <2>4 DEF Effect
  <2> QED
    BY <2>1, <2>2, <2>4, <2>5 DEF e
<1>4. ASSUME NEW c \in Calls, StoreVerified(c)
      PROVE  \E u \in Users, i \in DOMAIN events :
               /\ call[c].user = u /\ Note(u, i)
               /\ account'[u].status = Effect(events[i])
               /\ account'[u].customer = account[u].customer
               /\ \A v \in Users \ {u} : account'[v] = account[v]
               /\ account'[u].subscription = events[i].session /\ session[events[i].session].user = u
  <2> DEFINE u == call[c].user
             s == call[c].session
             i == CompletionOf(s)
  <2>1. u \in Users /\ s \in Sessions /\ session[s].user = u /\ session[s].paid
    BY <1>1, <1>4 DEF CallFits, StoreVerified
  <2>2. account' = [account EXCEPT ![u] = Activated(@, s)] /\ Note(u, i)
    BY <1>4 DEF StoreVerified
  <2>3. i \in DOMAIN events /\ events[i].type = "completed" /\ events[i].session = s
    BY <2>1, CompletionIs DEF TypeInv, SessionFits
  <2> HIDE DEF i
  <2>4. /\ account'[u].status = "active"
        /\ account'[u].customer = account[u].customer
        /\ \A v \in Users \ {u} : account'[v] = account[v]
        /\ account'[u].subscription = s
    BY <1>1, <2>1, <2>2 DEF OthersType, Activated
  <2> QED
    BY <2>1, <2>2, <2>3, <2>4 DEF Effect
<1>5. ASSUME ~(\E c \in Calls : LinkCustomer(c) \/ StoreEvent(c) \/ StoreVerified(c))
      PROVE  UNCHANGED <<account, newest, late>>
  BY <1>5 DEF Next, Continue, CompleteCheckout, ChangeSubscription, CreateCustomer, OpenSession, Announce, Answer,
     Fail, BeginCheckout, Verify, Deliver, vars, stripe, history
<1> QED
  BY <1>2, <1>3, <1>4, <1>5

-----------------------------------------------------------------------------
(* A subscription serves its buyer *)

LEMMA BuyerNext == TypeInv /\ SubscriptionServesItsBuyer /\ [Next]_vars => SubscriptionServesItsBuyer'
<1> SUFFICES ASSUME TypeInv, SubscriptionServesItsBuyer, [Next]_vars, NEW u \in Users,
                    account'[u].subscription # None
             PROVE  LET s == account'[u].subscription IN session'[s].user = u /\ subscription'[s] # "none"
  BY DEF SubscriptionServesItsBuyer
<1> DEFINE s == account'[u].subscription
<1>1. account' \in [Users -> [customer : Customers \cup {None}, subscription : Sessions \cup {None},
                              status : Statuses \cup {"none"}]]
  BY TypeNext, OthersHold DEF TypeInv, TypeOK
<1>2. s \in Sessions
  BY <1>1
<1>3. session[s].user = u /\ subscription[s] # "none"
  <2>1. CASE s = account[u].subscription
    BY <2>1 DEF SubscriptionServesItsBuyer
  <2>2. CASE s # account[u].subscription
    <3>1. PICK i \in DOMAIN events : s = events[i].session /\ session[s].user = u
      <4>1. ASSUME NEW c \in Calls, call[c].user \in Users,
                   account' = [account EXCEPT ![call[c].user].customer = call[c].customer]
            PROVE  s = account[u].subscription
        BY <4>1, OthersHold DEF OthersType
      <4> QED
        BY <2>2, <4>1, AccountEffect
    <3> QED
      BY <3>1 DEF TypeInv, EventFits
  <2> QED
    BY <2>1, <2>2
<1>4. u # None
  BY BillingAssumption
<1> QED
  BY <1>2, <1>3, <1>4, Kept

LEMMA Types == Spec => []TypeInv
  BY TypeInit, TypeNext, PTL DEF Spec

\* Neither the webhook nor verifySession ever links a subscription to an account other
\* than that of the user who bought it, in whatever order and however often events
\* arrive.
THEOREM SubscriptionIsTheBuyers == Spec => []SubscriptionServesItsBuyer
<1>1. Init => SubscriptionServesItsBuyer
  BY DEF Init, SubscriptionServesItsBuyer
<1> QED
  BY <1>1, BuyerNext, Types, PTL DEF Spec

-----------------------------------------------------------------------------
(* A Stripe customer belongs to one user *)

\* How a call gets to a step of a checkout, and the step before it.
CheckoutMoves(c) ==
  \/ call'[c] = call[c]
  \/ /\ BeginCheckout(c, call'[c].user)
     /\ call'[c].user \in Users /\ call'[c].customer = account[call'[c].user].customer
     /\ call'[c].step = IF call'[c].customer = None THEN "create" ELSE "open"
  \/ /\ CreateCustomer(c)
     /\ call'[c].step = "link" /\ call'[c].user = call[c].user
     /\ call'[c].customer \in Customers \ created /\ created' = created \cup {call'[c].customer}
  \/ /\ LinkCustomer(c)
     /\ call'[c].step = "open" /\ call'[c].user = call[c].user /\ call'[c].customer = call[c].customer

LEMMA CheckoutEffect ==
  ASSUME TypeInv, [Next]_vars, NEW c \in Calls, call'[c].step \in CheckoutSteps
  PROVE  /\ CheckoutMoves(c)
         /\ call'[c] # call[c] => \A d \in Calls \ {c} : call'[d] = call[d]
<1>1. call \in [Calls -> CallType]
  BY OthersHold
<1>2. Idle.step \notin CheckoutSteps /\ \A k \in {"store", "announce", "answer", "verify"} : k \notin CheckoutSteps
  BY DEF Idle, CheckoutSteps
<1>3. ASSUME NEW d \in Calls, CreateCustomer(d)
      PROVE  CheckoutMoves(c) /\ (call'[c] # call[c] => \A b \in Calls \ {c} : call'[b] = call[b])
  <2>1. PICK m \in Customers \ created :
          /\ created' = created \cup {m}
          /\ call' = [call EXCEPT ![d] = [call[d] EXCEPT !.step = "link", !.customer = m]]
    BY <1>3, StepCall
  <2> QED
    BY <1>1, <1>3, <2>1 DEF CheckoutMoves, CallType
<1>4. ASSUME NEW d \in Calls, LinkCustomer(d)
      PROVE  CheckoutMoves(c) /\ (call'[c] # call[c] => \A b \in Calls \ {c} : call'[b] = call[b])
  <2>1. call' = [call EXCEPT ![d] = [call[d] EXCEPT !.step = "open"]]
    BY <1>4, StepCall
  <2> QED
    BY <1>1, <1>4, <2>1 DEF CheckoutMoves, CallType
<1>5. ASSUME NEW d \in Calls, StoreEvent(d) \/ Announce(d)
      PROVE  CheckoutMoves(c) /\ call'[c] = call[c]
  <2>1. PICK step \in {"announce", "answer"} : call' = [call EXCEPT ![d] = [call[d] EXCEPT !.step = step]]
    BY <1>5, StepCall
  <2> QED
    BY <1>1, <1>2, <2>1 DEF CheckoutMoves, CallType
<1>6. ASSUME NEW d \in Calls, OpenSession(d) \/ Answer(d) \/ StoreVerified(d) \/ Fail(d)
      PROVE  CheckoutMoves(c) /\ call'[c] = call[c]
  <2>1. call' = [call EXCEPT ![d] = Idle]
    BY <1>6, StepCall
  <2> QED
    BY <1>1, <1>2, <2>1 DEF CheckoutMoves
<1>7. ASSUME NEW d \in Calls, NEW u \in Users, BeginCheckout(d, u)
      PROVE  CheckoutMoves(c) /\ (call'[c] # call[c] => \A b \in Calls \ {c} : call'[b] = call[b])
  <2> DEFINE k == [Idle EXCEPT !.step = IF account[u].customer = None THEN "create" ELSE "open",
                               !.user = u, !.customer = account[u].customer]
  <2>1. k.user = u /\ k.customer = account[u].customer
        /\ k.step = IF account[u].customer = None THEN "create" ELSE "open"
    BY DEF Idle
  <2>2. call' = [call EXCEPT ![d] = k]
    BY <1>7 DEF BeginCheckout
  <2> HIDE DEF k
  <2> QED
    BY <1>1, <1>7, <2>1, <2>2 DEF CheckoutMoves
<1>8. ASSUME NEW d \in Calls, NEW u \in Users, NEW s \in Sessions, Verify(d, u, s)
      PROVE  CheckoutMoves(c) /\ call'[c] = call[c]
  <2> DEFINE k == [Idle EXCEPT !.step = "verify", !.user = u, !.session = s]
  <2>1. k.step = "verify" /\ call' = [call EXCEPT ![d] = k]
    BY <1>8 DEF Verify, Idle
  <2> HIDE DEF k
  <2> QED
    BY <1>1, <1>2, <2>1 DEF CheckoutMoves
<1>9. ASSUME NEW d \in Calls, NEW i \in DOMAIN events, Deliver(d, i)
      PROVE  CheckoutMoves(c) /\ call'[c] = call[c]
  <2>1. PICK k \in CallType : call' = [call EXCEPT ![d] = k] /\ k.step \in {"answer", "store"}
    BY <1>9, DeliverEffect
  <2> QED
    BY <1>1, <1>2, <2>1 DEF CheckoutMoves
<1>10. CASE UNCHANGED call
  BY <1>10 DEF CheckoutMoves
<1> QED
  BY <1>3, <1>4, <1>5, <1>6, <1>7, <1>8, <1>9, <1>10 DEF Next, Continue, CompleteCheckout, ChangeSubscription, vars

\* A session is opened by a call, for the user and the customer the call holds.
LEMMA SessionEffect ==
  ASSUME TypeInv, [Next]_vars, NEW s \in Sessions, session'[s].user # None
  PROVE  \/ session'[s].user = session[s].user /\ session'[s].customer = session[s].customer
         \/ \E c \in Calls : /\ call[c].step = "open" /\ UNCHANGED <<account, raced>>
                             /\ session'[s].user = call[c].user /\ session'[s].customer = call[c].customer
<1>1. CASE session[s].user # None
  BY <1>1, Kept
<1>2. CASE session[s].user = None
  <2>1. ASSUME NEW c \in Calls, OpenSession(c)
        PROVE  \/ session'[s].user = session[s].user /\ session'[s].customer = session[s].customer
               \/ /\ call[c].step = "open" /\ UNCHANGED <<account, raced>>
                  /\ session'[s].user = call[c].user /\ session'[s].customer = call[c].customer
    BY <2>1, OthersHold DEF OpenSession, OthersType, SessionType, history
  <2>2. ASSUME NEW p \in Sessions, CompleteCheckout(p)
        PROVE  session'[s].user = session[s].user /\ session'[s].customer = session[s].customer
    BY <2>2, OthersHold DEF CompleteCheckout, OthersType, SessionType
  <2>3. CASE UNCHANGED session
    BY <2>3
  <2> QED
    BY <2>1, <2>2, <2>3 DEF Next, Continue, ChangeSubscription, CreateCustomer, LinkCustomer, StoreEvent, Announce,
       Answer, StoreVerified, Fail, BeginCheckout, Verify, Deliver, vars, stripe
<1> QED
  BY <1>1, <1>2

\* Who holds a customer after a step held it before, or has just created it.
LEMMA HoldsEffect ==
  ASSUME TypeInv, [Next]_vars, NEW u \in Users, NEW k \in Customers, Holds(u, k)'
  PROVE  \/ Holds(u, k)
         \/ \E c \in Calls : /\ call'[c] # call[c] /\ call'[c].step = "link" /\ call'[c].user = u
                             /\ k \notin created /\ k \in created'
<1>1. CASE account'[u].customer = k
  <2>1. ASSUME NEW c \in Calls, LinkCustomer(c), call[c].user \in Users,
               account' = [account EXCEPT ![call[c].user].customer = call[c].customer]
        PROVE  Holds(u, k)
    <3>1. account'[u].customer = IF u = call[c].user THEN call[c].customer ELSE account[u].customer
      BY <2>1, OthersHold DEF OthersType
    <3>2. call[c].step = "link"
      BY <2>1 DEF LinkCustomer
    <3> QED
      BY <1>1, <3>1, <3>2 DEF Holds
  <2>2. ASSUME account'[u].customer = account[u].customer PROVE Holds(u, k)
    BY <1>1, <2>2 DEF Holds
  <2> QED
    BY <2>1, <2>2, AccountEffect
<1>2. CASE \E c \in Calls : call'[c].step \in {"link", "open"} /\ call'[c].user = u /\ call'[c].customer = k
  <2>1. PICK c \in Calls : call'[c].step \in {"link", "open"} /\ call'[c].user = u /\ call'[c].customer = k
    BY <1>2
  <2>2. CheckoutMoves(c)
    BY <2>1, CheckoutEffect DEF CheckoutSteps
  <2>3. CASE CreateCustomer(c) /\ call'[c].customer \in Customers \ created /\ created' = created \cup {call'[c].customer}
             /\ call'[c].step = "link"
    BY <2>1, <2>3 DEF CreateCustomer
  <2>4. CASE LinkCustomer(c) /\ call'[c].user = call[c].user /\ call'[c].customer = call[c].customer
    BY <2>1, <2>4 DEF LinkCustomer, Holds
  <2>5. CASE call'[c] = call[c] \/ call'[c].customer = account[call'[c].user].customer
    BY <2>1, <2>5 DEF Holds
  <2> QED
    BY <2>2, <2>3, <2>4, <2>5 DEF CheckoutMoves
<1>3. CASE \E s \in Sessions : session'[s].user = u /\ session'[s].customer = k
  <2>1. PICK s \in Sessions : session'[s].user = u /\ session'[s].customer = k
    BY <1>3
  <2>2. session'[s].user # None
    BY <2>1, BillingAssumption
  <2> QED
    BY <2>1, <2>2, SessionEffect DEF Holds
<1> QED
  BY <1>1, <1>2, <1>3 DEF Holds

LEMMA CustomerNext == TypeInv /\ CustomerInv /\ [Next]_vars => CustomerInv'
<1> SUFFICES ASSUME TypeInv, CustomerInv, [Next]_vars,
                    NEW k \in Customers, NEW u \in Users, Holds(u, k)'
             PROVE  k \in created' /\ \A v \in Users : Holds(v, k)' => u = v
  BY DEF CustomerInv
<1>1. created \subseteq created'
  BY DEF Next, Continue, CompleteCheckout, ChangeSubscription, CreateCustomer, LinkCustomer, OpenSession,
     StoreEvent, Announce, Answer, StoreVerified, Fail, BeginCheckout, Verify, Deliver, vars, stripe
<1>2. CASE k \in created
  <2>1. \A w \in Users : Holds(w, k)' => Holds(w, k)
    BY <1>2, HoldsEffect
  <2> QED
    BY <1>1, <1>2, <2>1 DEF CustomerInv
<1>3. CASE k \notin created
  <2>1. \A w \in Users : ~Holds(w, k)
    BY <1>3 DEF CustomerInv
  <2>2. \A w \in Users : Holds(w, k)' =>
          k \in created' /\ \E c \in Calls : call'[c] # call[c] /\ call'[c].step = "link" /\ call'[c].user = w
    BY <2>1, HoldsEffect
  <2>3. ASSUME NEW c \in Calls, NEW d \in Calls, call'[c] # call[c], call'[c].step = "link", call'[d] # call[d]
        PROVE  c = d
    BY <2>3, CheckoutEffect DEF CheckoutSteps
  <2> QED
    BY <2>2, <2>3
<1> QED
  BY <1>2, <1>3

LEMMA CustomersAreOwned == Spec => []CustomerInv
<1>1. Init => CustomerInv
  BY BillingAssumption DEF Init, Idle, CustomerInv, Holds
<1> QED
  BY <1>1, CustomerNext, Types, PTL DEF Spec

-----------------------------------------------------------------------------
(* The events of a user's sessions find the account *)

\* Only the call that links a customer changes the one an account has.
LEMMA CustomerEffect ==
  ASSUME TypeInv, [Next]_vars, NEW u \in Users
  PROVE  \/ account'[u].customer = account[u].customer
         \/ \E c \in Calls : /\ LinkCustomer(c) /\ call[c].user = u
                             /\ account'[u].customer = call[c].customer /\ call'[c].step = "open"
<1>1. ASSUME NEW c \in Calls, LinkCustomer(c), call[c].user \in Users,
             account' = [account EXCEPT ![call[c].user].customer = call[c].customer]
      PROVE  \/ account'[u].customer = account[u].customer
             \/ call[c].user = u /\ account'[u].customer = call[c].customer /\ call'[c].step = "open"
  <2>1. account'[u].customer = IF u = call[c].user THEN call[c].customer ELSE account[u].customer
    BY <1>1, OthersHold DEF OthersType
  <2>2. call'[c].step = "open"
    <3>1. call \in [Calls -> CallType] /\ call' = [call EXCEPT ![c] = [call[c] EXCEPT !.step = "open"]]
      BY <1>1, OthersHold, StepCall
    <3> QED
      BY <3>1 DEF CallType
  <2> QED
    BY <2>1, <2>2
<1> QED
  BY <1>1, AccountEffect

LEMMA FindSessions == TypeInv /\ FindInv /\ [Next]_vars => EventsFindTheAccount'
<1> SUFFICES ASSUME TypeInv, FindInv, [Next]_vars, NEW s \in Sessions,
                    session'[s].user # None, session'[s].user \notin raced'
             PROVE  session'[s].customer = account'[session'[s].user].customer
  BY DEF EventsFindTheAccount
<1> DEFINE u == session'[s].user
<1>1. u \notin raced /\ u \in Users
  BY TypeNext, OthersHold, Kept DEF TypeInv, TypeOK
<1>2. CASE session'[s].user = session[s].user /\ session'[s].customer = session[s].customer
  <2>1. session[s].customer = account[u].customer /\ session[s].customer \in Customers
    BY <1>1, <1>2 DEF FindInv, EventsFindTheAccount, TypeInv, SessionFits
  <2>2. ASSUME NEW c \in Calls, LinkCustomer(c), call[c].user = u PROVE FALSE
    BY <1>1, <2>1, <2>2, BillingAssumption DEF FindInv, CheckoutFits, LinkCustomer, CheckoutSteps
  <2> QED
    BY <1>1, <1>2, <2>1, <2>2, CustomerEffect
<1>3. ASSUME NEW c \in Calls, call[c].step = "open", UNCHANGED <<account, raced>>,
             session'[s].user = call[c].user, session'[s].customer = call[c].customer
      PROVE  session'[s].customer = account'[u].customer
  BY <1>1, <1>3 DEF FindInv, CheckoutFits, CheckoutSteps
<1> QED
  BY <1>2, <1>3, SessionEffect

LEMMA FindCheckouts ==
  ASSUME TypeInv, FindInv, [Next]_vars, NEW c \in Calls
  PROVE  CheckoutFits(c)'
<1> SUFFICES ASSUME call'[c].step \in CheckoutSteps, call'[c].user \notin raced'
             PROVE  /\ \A d \in Calls : call'[d].step \in CheckoutSteps /\ call'[d].user = call'[c].user => c = d
                    /\ call'[c].step \in {"create", "link"} => account'[call'[c].user].customer = None
                    /\ call'[c].step = "open" => account'[call'[c].user].customer = call'[c].customer
  BY DEF CheckoutFits
<1> DEFINE u == call'[c].user
<1>1. u \in Users /\ u \notin raced
  BY TypeNext, Kept DEF TypeInv, CallFits
<1>2. CheckoutMoves(c) /\ (call'[c] # call[c] => \A d \in Calls \ {c} : call'[d] = call[d])
  BY CheckoutEffect
\* A checkout that begins is the user's only one, or the user's checkouts have raced.
<1>3. ASSUME NEW d \in Calls, NEW b \in Calls, BeginCheckout(d, u), call[b].step \in CheckoutSteps, call[b].user = u
      PROVE  FALSE
  BY <1>3 DEF BeginCheckout
<1>4. ASSUME NEW d \in Calls, call'[d].step \in CheckoutSteps, call'[d].user = u PROVE c = d
  <2>1. SUFFICES ASSUME c # d PROVE FALSE
    OBVIOUS
  <2>2. CheckoutMoves(d) /\ (call'[d] # call[d] => \A b \in Calls \ {d} : call'[b] = call[b])
    BY <1>4, CheckoutEffect
  <2>3. ASSUME NEW b \in Calls, call'[b].user = u, CheckoutMoves(b), ~BeginCheckout(b, u),
               call'[b].step \in CheckoutSteps
        PROVE  call[b].step \in CheckoutSteps /\ call[b].user = u
    BY <2>3 DEF CheckoutMoves, CreateCustomer, LinkCustomer, CheckoutSteps
  <2>4. ASSUME NEW b \in Calls, BeginCheckout(b, u), call[b].step \in CheckoutSteps PROVE FALSE
    BY <2>4 DEF BeginCheckout, Busy, CheckoutSteps
  <2>5. CASE BeginCheckout(c, u)
    <3>1. call[c].step \notin CheckoutSteps
      BY <2>4, <2>5
    <3>2. call'[d] = call[d]
      BY <1>2, <2>1, <3>1
    <3> QED
      BY <1>3, <1>4, <2>5, <3>2
  <2>6. CASE BeginCheckout(d, u)
    <3>1. call[d].step \notin CheckoutSteps
      BY <2>4, <2>6
    <3>2. call'[c] = call[c]
      BY <1>4, <2>1, <2>2, <3>1
    <3> QED
      BY <1>3, <2>6, <3>2
  <2>7. CASE ~BeginCheckout(c, u) /\ ~BeginCheckout(d, u)
    BY <1>1, <1>2, <1>4, <2>1, <2>2, <2>3, <2>7 DEF FindInv, CheckoutFits
  <2> QED
    BY <2>5, <2>6, <2>7
<1>5. CASE call'[c] = call[c]
  <2>1. account'[u].customer = account[u].customer
    <3>1. ASSUME NEW d \in Calls, LinkCustomer(d), call[d].user = u, call'[d].step = "open" PROVE FALSE
      <4>1. c = d
        BY <1>4, <3>1, <1>1, <1>5 DEF FindInv, CheckoutFits, LinkCustomer, CheckoutSteps
      <4> QED
        BY <1>5, <3>1, <4>1 DEF LinkCustomer
    <3> QED
      BY <1>1, <3>1, CustomerEffect
  <2> QED
    BY <1>1, <1>4, <1>5, <2>1 DEF FindInv, CheckoutFits
<1>6. CASE BeginCheckout(c, u) /\ call'[c].customer = account[u].customer
           /\ call'[c].step = IF call'[c].customer = None THEN "create" ELSE "open"
  BY <1>4, <1>6 DEF BeginCheckout
<1>7. CASE CreateCustomer(c) /\ call'[c].step = "link" /\ call'[c].user = call[c].user
  BY <1>1, <1>4, <1>7 DEF CreateCustomer, FindInv, CheckoutFits, CheckoutSteps
<1>8. CASE LinkCustomer(c) /\ call'[c].step = "open" /\ call'[c].user = call[c].user
           /\ call'[c].customer = call[c].customer
  <2>1. account' = [account EXCEPT ![u].customer = call[c].customer]
    BY <1>8 DEF LinkCustomer
  <2>2. account'[u].customer = call'[c].customer
    BY <1>1, <1>8, <2>1, OthersHold DEF OthersType
  <2> QED
    BY <1>4, <1>8, <2>2
<1> QED
  BY <1>2, <1>5, <1>6, <1>7, <1>8 DEF CheckoutMoves

LEMMA FindNext == TypeInv /\ FindInv /\ [Next]_vars => FindInv'
  BY FindSessions, FindCheckouts DEF FindInv

LEMMA Found == Spec => []FindInv
<1>1. Init => FindInv
  BY DEF Init, FindInv, EventsFindTheAccount, CheckoutFits, Idle, CheckoutSteps
<1> QED
  BY <1>1, FindNext, Types, PTL DEF Spec

\* A change of a subscription finds the account of the user who bought it, since every
\* session was opened for the customer the account has, unless the user's checkouts
\* overlapped.
THEOREM ChangesFindTheAccount == Spec => []EventsFindTheAccount
  BY Found, PTL DEF FindInv

-----------------------------------------------------------------------------
(* The account shows what Stripe has *)

\* How a call of the webhook gets to its step.
WebhookMoves(c) ==
  \/ call'[c] = call[c]
  \/ \E i \in DOMAIN events :
       /\ call'[c].event = i /\ UNCHANGED <<account, raced, newest>>
       /\ \/ Addressee(events[i]) = {} /\ call'[c].step = "answer"
          \/ call'[c].step = "store" /\ call'[c].user \in Users /\ call'[c].user \in Addressee(events[i])
  \/ StoreEvent(c) /\ call'[c].user = call[c].user /\ call'[c].event = call[c].event
  \/ call[c].step = "announce" /\ call'[c].step = "answer" /\ call'[c].event = call[c].event

LEMMA WebhookEffect ==
  ASSUME TypeInv, [Next]_vars, NEW c \in Calls, call'[c].step \in {"store", "announce", "answer"}
  PROVE  WebhookMoves(c)
<1>1. call \in [Calls -> CallType]
  BY OthersHold
<1>2. ASSUME NEW d \in Calls, NEW i \in DOMAIN events, Deliver(d, i) PROVE WebhookMoves(c)
  <2>1. PICK k \in CallType :
          /\ call' = [call EXCEPT ![d] = k] /\ k.event = i
          /\ \/ Addressee(events[i]) = {} /\ k.step = "answer"
             \/ k.step = "store" /\ k.user \in Users /\ k.user \in Addressee(events[i])
    BY <1>2, DeliverEffect
  <2>2. UNCHANGED <<account, raced, newest>>
    BY <1>2 DEF Deliver, history
  <2> QED
    BY <1>1, <2>1, <2>2 DEF WebhookMoves
<1>3. ASSUME NEW d \in Calls, StoreEvent(d) PROVE WebhookMoves(c)
  <2>1. PICK step \in {"announce", "answer"} : call' = [call EXCEPT ![d] = [call[d] EXCEPT !.step = step]]
    BY <1>3, StepCall
  <2> QED
    BY <1>1, <1>3, <2>1 DEF WebhookMoves, CallType
<1>4. ASSUME NEW d \in Calls, Announce(d) PROVE WebhookMoves(c)
  <2>1. call' = [call EXCEPT ![d] = [call[d] EXCEPT !.step = "answer"]] /\ call[d].step = "announce"
    BY <1>4, StepCall DEF Announce
  <2> QED
    BY <1>1, <2>1 DEF WebhookMoves, CallType
<1>5. ASSUME NEW d \in Calls, OpenSession(d) \/ Answer(d) \/ StoreVerified(d) \/ Fail(d) PROVE WebhookMoves(c)
  <2>1. call' = [call EXCEPT ![d] = Idle]
    BY <1>5, StepCall
  <2> QED
    BY <1>1, <2>1 DEF WebhookMoves, Idle
<1>6. ASSUME NEW d \in Calls, NEW u \in Users, NEW s \in Sessions, Verify(d, u, s) PROVE WebhookMoves(c)
  <2> DEFINE k == [Idle EXCEPT !.step = "verify", !.user = u, !.session = s]
  <2>1. k.step = "verify" /\ call' = [call EXCEPT ![d] = k]
    BY <1>6 DEF Verify, Idle
  <2> HIDE DEF k
  <2> QED
    BY <1>1, <2>1 DEF WebhookMoves
<1>7. ASSUME NEW d \in Calls, NEW u \in Users, BeginCheckout(d, u) PROVE WebhookMoves(c)
  <2> DEFINE k == [Idle EXCEPT !.step = IF account[u].customer = None THEN "create" ELSE "open",
                               !.user = u, !.customer = account[u].customer]
  <2>1. k.step \in {"create", "open"} /\ call' = [call EXCEPT ![d] = k]
    BY <1>7 DEF BeginCheckout, Idle
  <2> HIDE DEF k
  <2> QED
    BY <1>1, <2>1 DEF WebhookMoves
<1>8. ASSUME NEW d \in Calls, CreateCustomer(d) \/ LinkCustomer(d) PROVE WebhookMoves(c)
  <2>1. CASE CreateCustomer(d)
    <3>1. PICK m \in Customers : call' = [call EXCEPT ![d] = [call[d] EXCEPT !.step = "link", !.customer = m]]
      BY <2>1, StepCall
    <3> QED
      BY <1>1, <3>1 DEF WebhookMoves, CallType
  <2>2. CASE LinkCustomer(d)
    <3>1. call' = [call EXCEPT ![d] = [call[d] EXCEPT !.step = "open"]]
      BY <2>2, StepCall
    <3> QED
      BY <1>1, <3>1 DEF WebhookMoves, CallType
  <2> QED
    BY <1>8, <2>1, <2>2
<1>9. CASE UNCHANGED call
  BY <1>9 DEF WebhookMoves
<1> QED
  BY <1>2, <1>3, <1>4, <1>5, <1>6, <1>7, <1>8, <1>9 DEF Next, Continue, CompleteCheckout, ChangeSubscription, vars

BuyerNow(i) == session'[events'[i].session].user

\* Who bought the subscription of an event does not change.
LEMMA BuyersStay ==
  ASSUME TypeInv, [Next]_vars, NEW i \in DOMAIN events
  PROVE  BuyerNow(i) = Buyer(i) /\ Buyer(i) \in Users /\ events'[i] = events[i]
<1>1. events[i].session \in Sessions
  BY EventTypes DEF TypeInv
<1>2. session[events[i].session].user # None /\ session[events[i].session].user \in Users \cup {None}
  BY <1>1, OthersHold DEF TypeInv, EventFits, SessionFits, OthersType, SessionType
<1> QED
  BY <1>1, <1>2, Kept DEF Buyer, BuyerNow

\* What is newest for a user only grows, and where it grows the account is changed.
LEMMA NewestEffect ==
  ASSUME TypeInv, [Next]_vars
  PROVE  /\ \A u \in Users : newest[u] \in Nat /\ newest'[u] \in Nat /\ newest'[u] >= newest[u]
         /\ \/ UNCHANGED <<newest, late>> /\ \A u \in Users : account'[u].status = account[u].status
            \/ \E c \in Calls, u \in Users, i \in DOMAIN events :
                 /\ call[c].user = u
                 /\ \/ StoreEvent(c) /\ call[c].event = i
                    \/ session[events[i].session].user = u
                 /\ account'[u].status = Effect(events[i])
                 /\ newest'[u] = IF i > newest[u] THEN i ELSE newest[u]
                 /\ i < newest[u] => u \in late'
                 /\ late \subseteq late'
                 /\ \A v \in Users \ {u} : newest'[v] = newest[v] /\ account'[v] = account[v]
<1>1. \A u \in Users : newest[u] \in 0..Len(events)
  BY OthersHold DEF OthersType
<1>2. Len(events) \in Nat /\ \A i \in DOMAIN events : i \in Nat
  BY EventTypes DEF TypeInv
<1>3. ASSUME NEW u \in Users, NEW i \in DOMAIN events, Note(u, i)
      PROVE  /\ newest'[u] = IF i > newest[u] THEN i ELSE newest[u]
             /\ i < newest[u] => u \in late'
             /\ late \subseteq late'
             /\ \A v \in Users \ {u} : newest'[v] = newest[v]
  BY <1>3, OthersHold DEF Note, OthersType
<1>4. \/ UNCHANGED <<newest, late>> /\ \A u \in Users : account'[u].status = account[u].status
      \/ \E c \in Calls, u \in Users, i \in DOMAIN events :
           /\ call[c].user = u
           /\ \/ StoreEvent(c) /\ call[c].event = i
              \/ session[events[i].session].user = u
           /\ account'[u].status = Effect(events[i])
           /\ Note(u, i)
           /\ \A v \in Users \ {u} : account'[v] = account[v]
  <2>1. ASSUME NEW c \in Calls, call[c].user \in Users,
               account' = [account EXCEPT ![call[c].user].customer = call[c].customer]
        PROVE  \A u \in Users : account'[u].status = account[u].status
    BY <2>1, OthersHold DEF OthersType
  <2> QED
    BY <2>1, AccountEffect
<1> QED
  BY <1>1, <1>2, <1>3, <1>4

LEMMA StatusCalls ==
  ASSUME TypeInv, CustomerInv, StatusInv, [Next]_vars, NEW c \in Calls, call'[c].step \in {"store", "announce"}
  PROVE  call'[c].user = BuyerNow(call'[c].event)
<1>1. WebhookMoves(c)
  BY WebhookEffect
<1>2. CASE call'[c] = call[c]
  <2>1. call[c].event \in DOMAIN events
    BY <1>2 DEF TypeInv, CallFits
  <2> QED
    BY <1>2, <2>1, BuyersStay DEF StatusInv
<1>3. ASSUME NEW i \in DOMAIN events, call'[c].event = i, call'[c].user \in Users,
             call'[c].user \in Addressee(events[i])
      PROVE  call'[c].user = BuyerNow(i)
  <2> DEFINE s == events[i].session
             u == call'[c].user
  <2>1. BuyerNow(i) = Buyer(i) /\ Buyer(i) \in Users /\ s \in Sessions
    BY BuyersStay, EventTypes DEF TypeInv
  <2>2. CASE events[i].type = "completed"
    BY <1>3, <2>1, <2>2 DEF Addressee, Buyer
  <2>3. CASE events[i].type # "completed"
    <3>1. account[u].customer = session[s].customer
      BY <1>3, <2>3 DEF Addressee
    <3>2. session[s].customer \in Customers
      BY <2>1 DEF TypeInv, EventFits, SessionFits
    <3>3. Holds(u, session[s].customer) /\ Holds(Buyer(i), session[s].customer)
      BY <2>1, <3>1 DEF Holds, Buyer
    <3> QED
      BY <1>3, <2>1, <3>2, <3>3 DEF CustomerInv
  <2> QED
    BY <2>2, <2>3
<1>4. CASE StoreEvent(c) /\ call'[c].user = call[c].user /\ call'[c].event = call[c].event
  <2>1. call[c].event \in DOMAIN events /\ call[c].step = "store"
    BY <1>4 DEF TypeInv, CallFits, StoreEvent
  <2> QED
    BY <1>4, <2>1, BuyersStay DEF StatusInv
<1> QED
  BY <1>1, <1>2, <1>3, <1>4 DEF WebhookMoves

LEMMA StatusAccounts ==
  ASSUME TypeInv, StatusInv, [Next]_vars, NEW v \in Users, newest'[v] # 0
  PROVE  /\ BuyerNow(newest'[v]) = v
         /\ v \notin late' => account'[v].status = Effect(events'[newest'[v]])
<1>1. \A u \in Users : newest[u] \in 0..Len(events)
  BY OthersHold DEF OthersType
<1>2. DOMAIN events = 1..Len(events) /\ Len(events) \in Nat
  BY EventTypes DEF TypeInv
<1>3. newest[v] # 0 => /\ newest[v] \in DOMAIN events
                       /\ BuyerNow(newest[v]) = v
                       /\ events'[newest[v]] = events[newest[v]]
  BY <1>1, <1>2, BuyersStay DEF StatusInv
<1>4. CASE UNCHANGED <<newest, late>> /\ account'[v].status = account[v].status
  BY <1>3, <1>4 DEF StatusInv
<1>5. ASSUME NEW c \in Calls, NEW u \in Users, NEW i \in DOMAIN events,
             call[c].user = u,
             (StoreEvent(c) /\ call[c].event = i) \/ session[events[i].session].user = u,
             account'[u].status = Effect(events[i]),
             newest'[u] = IF i > newest[u] THEN i ELSE newest[u],
             i < newest[u] => u \in late',
             late \subseteq late',
             \A w \in Users \ {u} : newest'[w] = newest[w] /\ account'[w] = account[w]
      PROVE  /\ BuyerNow(newest'[v]) = v
             /\ v \notin late' => account'[v].status = Effect(events'[newest'[v]])
  <2>1. Buyer(i) = u
    BY <1>5 DEF StatusInv, StoreEvent, Buyer
  <2>2. BuyerNow(i) = u /\ events'[i] = events[i]
    BY <2>1, BuyersStay
  <2>3. CASE v # u
    BY <1>3, <1>5, <2>3 DEF StatusInv
  <2>4. CASE v = u
    <3>1. i \in Nat /\ newest[u] \in Nat
      BY <1>1, <1>2
    <3>2. CASE i >= newest[u]
      <4>1. newest'[u] = i
        BY <1>5, <3>1, <3>2
      <4> QED
        BY <1>5, <2>2, <2>4, <4>1
    <3>3. CASE i < newest[u]
      BY <1>3, <1>5, <2>4, <3>1, <3>3
    <3> QED
      BY <3>1, <3>2, <3>3
  <2> QED
    BY <2>3, <2>4
<1> QED
  BY <1>4, <1>5, NewestEffect

LEMMA StatusAnswers ==
  ASSUME TypeInv, FindInv, StatusInv, [Next]_vars, NEW i \in DOMAIN events',
         i \in answered' \/ \E c \in Calls : call'[c].step \in {"announce", "answer"} /\ call'[c].event = i
  PROVE  BuyerNow(i) \in raced' \/ newest'[BuyerNow(i)] >= i
\* Whoever was stored or answered before stays so.
<1>1. ASSUME i \in DOMAIN events, Buyer(i) \in raced \/ newest[Buyer(i)] >= i
      PROVE  BuyerNow(i) \in raced' \/ newest'[BuyerNow(i)] >= i
  <2>1. BuyerNow(i) = Buyer(i) /\ Buyer(i) \in Users /\ raced \subseteq raced' /\ i \in Nat
    BY <1>1, BuyersStay, Kept, EventTypes DEF TypeInv
  <2>2. newest[Buyer(i)] \in Nat /\ newest'[Buyer(i)] \in Nat /\ newest'[Buyer(i)] >= newest[Buyer(i)]
    BY <2>1, NewestEffect
  <2> QED
    BY <1>1, <2>1, <2>2
<1>2. CASE i \in answered'
  <2>1. i \in answered \/ \E c \in Calls : call[c].step = "answer" /\ call[c].event = i
    BY <1>2 DEF Next, Continue, CompleteCheckout, ChangeSubscription, CreateCustomer, LinkCustomer, OpenSession,
       StoreEvent, Announce, Answer, StoreVerified, Fail, BeginCheckout, Verify, Deliver, vars
  <2>2. i \in DOMAIN events
    BY <2>1, OthersHold DEF OthersType, TypeInv, CallFits
  <2> QED
    BY <1>1, <2>1, <2>2 DEF StatusInv
<1>3. ASSUME NEW c \in Calls, call'[c].step \in {"announce", "answer"}, call'[c].event = i
      PROVE  BuyerNow(i) \in raced' \/ newest'[BuyerNow(i)] >= i
  <2>1. WebhookMoves(c)
    BY <1>3, WebhookEffect
  <2>2. CASE call'[c] = call[c] \/ (call[c].step = "announce" /\ call'[c].event = call[c].event)
    <3>1. call[c].step \in {"announce", "answer"} /\ call[c].event = i
      BY <1>3, <2>2
    <3>2. i \in DOMAIN events
      BY <3>1 DEF TypeInv, CallFits
    <3> QED
      BY <1>1, <3>1, <3>2 DEF StatusInv
\* Nobody was found for the event: the account has another customer than the session.
  <2>3. CASE i \in DOMAIN events /\ UNCHANGED <<account, raced, newest>> /\ Addressee(events[i]) = {}
    <3>1. Buyer(i) \in Users /\ events[i].session \in Sessions
      BY <2>3, BuyersStay, EventTypes DEF TypeInv
    <3>2. events[i].type # "completed" /\ account[Buyer(i)].customer # session[events[i].session].customer
      BY <2>3, <3>1 DEF Addressee, Buyer
    <3>3. Buyer(i) \in raced
      BY <3>1, <3>2, BillingAssumption DEF FindInv, EventsFindTheAccount, Buyer
    <3> QED
      BY <1>1, <2>3, <3>3
  <2>4. CASE StoreEvent(c) /\ call'[c].event = call[c].event
    <3>1. i \in DOMAIN events /\ call[c].event = i /\ call[c].user = Buyer(i) /\ i \in Nat
      BY <1>3, <2>4, EventTypes DEF TypeInv, CallFits, StoreEvent, StatusInv
    <3>2. Buyer(i) \in Users /\ BuyerNow(i) = Buyer(i)
      BY <3>1, BuyersStay
    <3>3. newest'[Buyer(i)] = IF i > newest[Buyer(i)] THEN i ELSE newest[Buyer(i)]
      BY <2>4, <3>1, <3>2, OthersHold DEF StoreEvent, Note, OthersType
    <3>4. newest[Buyer(i)] \in Nat
      BY <3>2, NewestEffect
    <3> QED
      BY <3>1, <3>2, <3>3, <3>4
  <2> QED
    BY <1>3, <2>1, <2>2, <2>3, <2>4 DEF WebhookMoves
<1> QED
  BY <1>2, <1>3

LEMMA StatusNext == TypeInv /\ CustomerInv /\ FindInv /\ StatusInv /\ [Next]_vars => StatusInv'
<1> SUFFICES ASSUME TypeInv, CustomerInv, FindInv, StatusInv, [Next]_vars PROVE StatusInv'
  OBVIOUS
<1>1. \A c \in Calls : call'[c].step \in {"store", "announce"} => call'[c].user = BuyerNow(call'[c].event)
  BY StatusCalls
<1>2. \A u \in Users : /\ newest'[u] # 0 => BuyerNow(newest'[u]) = u
                       /\ u \notin late' /\ newest'[u] # 0 => account'[u].status = Effect(events'[newest'[u]])
  BY StatusAccounts
<1>3. \A i \in DOMAIN events' :
        i \in answered' \/ (\E c \in Calls : call'[c].step \in {"announce", "answer"} /\ call'[c].event = i)
          => BuyerNow(i) \in raced' \/ newest'[BuyerNow(i)] >= i
  BY StatusAnswers
<1> QED
  BY <1>1, <1>2, <1>3 DEF StatusInv, Buyer, BuyerNow, Effect

LEMMA LastComplete ==
  ASSUME TypeInv, LastTells, NEW s \in Sessions, NEW type \in {"completed", "updated", "deleted"},
         NEW status \in Statuses, Emit(type, s, status), subscription' = [subscription EXCEPT ![s] = status]
  PROVE  LastTells'
<1>1. PICK n \in Nat :
        /\ \A i \in DOMAIN events : i \in DOMAIN events' /\ events'[i] = events[i]
        /\ n \in DOMAIN events' /\ events'[n].session = s /\ events'[n].status = status
        /\ \A j \in DOMAIN events' : j \in DOMAIN events \/ j = n
        /\ \A i \in DOMAIN events : i < n
        /\ \A i \in DOMAIN events : i \in Nat
  <2>1. TypeOK /\ \A i \in DOMAIN events : i \in Nat
    BY EventTypes DEF TypeInv
  <2>2. /\ Len(events') = Len(events) + 1 /\ Len(events) \in Nat
        /\ \A i \in DOMAIN events : i \in DOMAIN events' /\ events'[i] = events[i]
        /\ events'[Len(events')] = [type |-> type, session |-> s, status |-> status]
        /\ DOMAIN events' = DOMAIN events \cup {Len(events')}
        /\ \A i \in DOMAIN events : i < Len(events')
    BY <2>1, EmitEffect
  <2> DEFINE n == Len(events')
  <2>3. n \in Nat /\ n \in DOMAIN events' /\ events'[n].session = s /\ events'[n].status = status
    BY <2>2
  <2> HIDE DEF n
  <2>4. \A j \in DOMAIN events' : j \in DOMAIN events \/ j = n
    BY <2>2 DEF n
  <2>5. \A i \in DOMAIN events : i < n
    BY <2>2 DEF n
  <2> QED
    BY <2>1, <2>2, <2>3, <2>4, <2>5
<1>2. subscription \in [Sessions -> Statuses \cup {"none"}]
  BY DEF TypeInv, TypeOK
<1>3. ASSUME NEW p \in Sessions, subscription'[p] # "none"
      PROVE  \E i \in DOMAIN events' :
               /\ events'[i].session = p /\ events'[i].status = subscription'[p]
               /\ \A j \in DOMAIN events' : j > i => events'[j].session # p
  <2>1. CASE p = s
    <3>1. \A j \in DOMAIN events' : ~(j > n)
      BY <1>1
    <3>2. subscription'[p] = status
      BY <1>2, <2>1
    <3> QED
      BY <1>1, <2>1, <3>1, <3>2
  <2>2. CASE p # s
    <3>1. subscription[p] # "none" /\ subscription'[p] = subscription[p]
      BY <1>2, <1>3, <2>2
    <3>2. PICK i \in DOMAIN events :
            /\ events[i].session = p /\ events[i].status = subscription[p]
            /\ \A j \in DOMAIN events : j > i => events[j].session # p
      BY <3>1 DEF LastTells
    <3>3. i \in DOMAIN events' /\ events'[i] = events[i]
      BY <1>1
    <3>4. ASSUME NEW j \in DOMAIN events', j > i PROVE events'[j].session # p
      BY <1>1, <2>2, <3>2, <3>4
    <3> QED
      BY <3>1, <3>2, <3>3, <3>4
  <2> QED
    BY <2>1, <2>2
<1> QED
  BY <1>3 DEF LastTells

LEMMA LastNext == TypeInv /\ LastTells /\ [Next]_vars => LastTells'
<1> SUFFICES ASSUME TypeInv, LastTells, [Next]_vars PROVE LastTells'
  OBVIOUS
<1>1. ASSUME NEW s \in Sessions, CompleteCheckout(s) PROVE LastTells'
  BY <1>1, LastComplete DEF CompleteCheckout, Statuses
<1>2. ASSUME NEW s \in Sessions, ChangeSubscription(s) PROVE LastTells'
  <2>1. PICK status \in Statuses, type \in {"completed", "updated", "deleted"} :
          subscription' = [subscription EXCEPT ![s] = status] /\ Emit(type, s, status)
    BY <1>2 DEF ChangeSubscription
  <2> QED
    BY <2>1, LastComplete
<1>3. CASE UNCHANGED <<events, subscription>>
  BY <1>3 DEF LastTells
<1>4. \/ \E s \in Sessions : CompleteCheckout(s) \/ ChangeSubscription(s)
      \/ UNCHANGED <<events, subscription>>
  BY DEF Next, Continue, CreateCustomer, LinkCustomer, OpenSession, StoreEvent, Announce, Answer,
     StoreVerified, Fail, BeginCheckout, Verify, Deliver, vars, stripe
<1> QED
  BY <1>1, <1>2, <1>3, <1>4

LEMMA StatusesAreOrdered == Spec => [](StatusInv /\ LastTells)
<1>1. Init => StatusInv /\ LastTells
  BY DEF Init, Idle, StatusInv, LastTells
<1> QED
  BY <1>1, StatusNext, LastNext, Types, CustomersAreOwned, Found, PTL DEF Spec

LEMMA StatusFollows == TypeInv /\ StatusInv /\ LastTells => StatusFollowsStripe
<1> SUFFICES ASSUME TypeInv, StatusInv, LastTells, NEW u \in Users \ (late \cup raced), NEW s \in Sessions,
                    AllDelivered, Bought(u) = {s}
             PROVE  \/ account[u].status = subscription[s]
                    \/ account[u].status = "active" /\ subscription[s] = "trialing"
  BY DEF StatusFollowsStripe
<1>1. session[s].user = u /\ subscription[s] # "none"
  BY DEF Bought
<1>2. PICK i \in DOMAIN events :
        /\ events[i].session = s /\ events[i].status = subscription[s]
        /\ \A j \in DOMAIN events : j > i => events[j].session # s
  BY <1>1 DEF LastTells
\* The last event of the subscription has been answered, so it was stored.
<1>3. newest[u] >= i
  BY <1>1, <1>2 DEF StatusInv, AllDelivered, Buyer
<1>4. /\ DOMAIN events = 1..Len(events) /\ Len(events) \in Nat
      /\ newest[u] \in 0..Len(events)
      /\ \A j \in DOMAIN events : events[j].session \in Sessions
  BY EventTypes, OthersHold DEF TypeInv, OthersType
<1>5. newest[u] \in DOMAIN events /\ newest[u] # 0
  BY <1>2, <1>3, <1>4
\* Nothing newer was stored, as the user bought nothing else.
<1>6. events[newest[u]].session \in Bought(u)
  BY <1>4, <1>5 DEF StatusInv, Buyer, Bought, TypeInv, EventFits
<1>7. newest[u] = i
  BY <1>2, <1>3, <1>4, <1>5, <1>6
<1>8. account[u].status = Effect(events[i])
  BY <1>5, <1>7 DEF StatusInv
<1> QED
  BY <1>2, <1>8 DEF Effect, TypeInv, EventFits

\* Once every event is answered, an account whose events were stored in order, and which
\* bought one subscription, shows the status Stripe has.
THEOREM StatusIsStripes == Spec => []StatusFollowsStripe
  BY StatusFollows, StatusesAreOrdered, Types, PTL

=============================================================================
