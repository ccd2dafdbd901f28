------------------------------ MODULE Billing ------------------------------
(***************************************************************************)
(* PaymentsService and the account fields it keeps in step with Stripe.    *)
(*                                                                         *)
(* A call is one HTTP request: a user opening a checkout or verifying one, *)
(* or Stripe delivering an event to the webhook. A call is interrupted at  *)
(* every await. Stripe itself is the environment: it completes checkouts,  *)
(* changes subscriptions, and delivers each event at least once, in any    *)
(* order, until the webhook has answered it.                               *)
(*                                                                         *)
(* A checkout session and the subscription it creates share one name. The  *)
(* plan is written together with the subscription and has no field here.   *)
(***************************************************************************)
EXTENDS Naturals, Sequences, FiniteSets

CONSTANTS
  Users,
  Sessions,      \* checkout sessions, each with the subscription it may create
  Customers,     \* Stripe customers
  Calls,         \* requests that are served at the same time
  None,          \* an absent value
  MaxEvents,     \* bound: events Stripe emits
  MaxFailures    \* bound: calls that end in an error

ASSUME BillingAssumption ==
  /\ None \notin Users \cup Sessions \cup Customers
  /\ MaxEvents \in Nat
  /\ MaxFailures \in Nat

VARIABLES
  account,      \* per user: stripeCustomerId, stripeSubscriptionId, stripeSubscriptionStatus
  created,      \* Stripe: the customers that exist
  session,      \* Stripe: the checkout sessions
  subscription, \* Stripe: the status of each session's subscription
  events,       \* Stripe: the events in the order they were emitted
  answered,     \* Stripe: the events the webhook has answered with success
  call,         \* per call: what it does, and the local variables it does it with
  announced,    \* sessions with a message on the topic subscription.activated
  failures,     \* how many calls have failed
  newest,       \* history: per user, the newest event whose effect was stored
  late,         \* history: users for whom an older event was stored after a newer one
  raced         \* history: users whose checkout requests overlapped

stripe  == <<created, session, subscription, events>>
history == <<newest, late, raced>>
vars    == <<account, stripe, answered, call, announced, failures, history>>

Statuses == {"trialing", "active", "past_due", "canceled"}

Idle == [step |-> "idle", user |-> None, session |-> None, customer |-> None, event |-> 0]

Init ==
  /\ account = [u \in Users |-> [customer |-> None, subscription |-> None, status |-> "none"]]
  /\ created = {}
  /\ session = [s \in Sessions |-> [user |-> None, customer |-> None, paid |-> FALSE]]
  /\ subscription = [s \in Sessions |-> "none"]
  /\ events = <<>>
  /\ answered = {}
  /\ call = [c \in Calls |-> Idle]
  /\ announced = {}
  /\ failures = 0
  /\ newest = [u \in Users |-> 0]
  /\ late = {}
  /\ raced = {}

Busy(c) == call[c].step # "idle"

\* The call ends and its local variables go with it.
Finish(c) == call' = [call EXCEPT ![c] = Idle]

-----------------------------------------------------------------------------
(* createCheckoutSession *)

CheckoutSteps == {"create", "link", "open"}

\* Bound: a checkout begins only while sessions and customers are left for it.
RoomForCheckout(u) ==
  LET at(steps) == Cardinality({d \in Calls : call[d].step \in steps})
  IN /\ at(CheckoutSteps) < Cardinality({s \in Sessions : session[s].user = None})
     /\ account[u].customer = None => at({"create"}) < Cardinality(Customers \ created)

\* Faulty variant: every checkout makes a customer.
BeginCheckoutAnew(c, u) ==
  /\ ~Busy(c)
  /\ RoomForCheckout(u)
  /\ created # Customers
  /\ call' = [call EXCEPT ![c] = [Idle EXCEPT !.step = "create", !.user = u]]
  /\ raced' = IF \E d \in Calls : call[d].step \in CheckoutSteps /\ call[d].user = u
              THEN raced \cup {u} ELSE raced
  /\ UNCHANGED <<account, stripe, answered, announced, failures, newest, late>>

\* The user is read; a user without a customer gets one.
BeginCheckout(c, u) ==
  /\ ~Busy(c)
  /\ RoomForCheckout(u)
  /\ call' = [call EXCEPT ![c] = [Idle EXCEPT
                !.step = IF account[u].customer = None THEN "create" ELSE "open",
                !.user = u, !.customer = account[u].customer]]
  /\ raced' = IF \E d \in Calls : call[d].step \in CheckoutSteps /\ call[d].user = u
              THEN raced \cup {u} ELSE raced
  /\ UNCHANGED <<account, stripe, answered, announced, failures, newest, late>>

CreateCustomer(c) ==
  /\ call[c].step = "create"
  /\ \E k \in Customers \ created :
       /\ created' = created \cup {k}
       /\ call' = [call EXCEPT ![c].step = "link", ![c].customer = k]
  /\ UNCHANGED <<account, session, subscription, events, answered, announced, failures, history>>

LinkCustomer(c) ==
  /\ call[c].step = "link"
  /\ account' = [account EXCEPT ![call[c].user].customer = call[c].customer]
  /\ call' = [call EXCEPT ![c].step = "open"]
  /\ UNCHANGED <<stripe, answered, announced, failures, history>>

\* Stripe opens the session for the customer the call holds.
OpenSession(c) ==
  /\ call[c].step = "open"
  /\ \E s \in Sessions :
       /\ session[s].user = None
       /\ session' = [session EXCEPT ![s].user = call[c].user, ![s].customer = call[c].customer]
  /\ Finish(c)
  /\ UNCHANGED <<account, created, subscription, events, answered, announced, failures, history>>

-----------------------------------------------------------------------------
(* Stripe *)

Emit(type, s, status) ==
  /\ Len(events) < MaxEvents
  /\ events' = Append(events, [type |-> type, session |-> s, status |-> status])

\* The customer completes the checkout; a plan with a trial is not paid yet.
CompleteCheckout(s) ==
  /\ session[s].user # None
  /\ subscription[s] = "none"
  /\ \E status \in {"trialing", "active"} :
       /\ subscription' = [subscription EXCEPT ![s] = status]
       /\ session' = [session EXCEPT ![s].paid = (status = "active")]
       /\ Emit("completed", s, status)
  /\ UNCHANGED <<account, created, answered, call, announced, failures, history>>

\* Renewals, failed payments, and changes made in the billing portal.
ChangeSubscription(s) ==
  /\ subscription[s] \in Statuses \ {"canceled"}
  /\ \E status \in Statuses \ {"trialing", subscription[s]} :
       /\ subscription' = [subscription EXCEPT ![s] = status]
       /\ Emit(IF status = "canceled" THEN "deleted" ELSE "updated", s, status)
  /\ UNCHANGED <<account, created, session, answered, call, announced, failures, history>>

-----------------------------------------------------------------------------
(* handleWebhook *)

\* Faulty variant: the end of a subscription is an unhandled event.
AddresseeUnlessDeleted(e) ==
  CASE e.type = "completed" -> {session[e.session].user}
    [] e.type = "updated"   -> {u \in Users : account[u].customer = session[e.session].customer}
    [] e.type = "deleted"   -> {}

\* The user an event is about: named in the session's metadata for a completed
\* checkout, found by the Stripe customer for a change of a subscription.
Addressee(e) ==
  IF e.type = "completed"
  THEN {session[e.session].user}
  ELSE {u \in Users : account[u].customer = session[e.session].customer}

\* The event arrives, possibly again, and the user is looked up. An event about
\* nobody is answered at once.
Deliver(c, i) ==
  /\ ~Busy(c)
  /\ call' = [call EXCEPT ![c] =
                IF Addressee(events[i]) = {}
                THEN [Idle EXCEPT !.step = "answer", !.event = i]
                ELSE [Idle EXCEPT !.step = "store", !.event = i, !.session = events[i].session,
                                  !.user = CHOOSE u \in Addressee(events[i]) : TRUE]]
  /\ UNCHANGED <<account, stripe, answered, announced, failures, history>>

\* How far the stored state lags behind Stripe.
Note(u, i) ==
  /\ newest' = [newest EXCEPT ![u] = IF i > @ THEN i ELSE @]
  /\ late' = IF i < newest[u] THEN late \cup {u} ELSE late
  /\ UNCHANGED raced

\* Faulty variant: the session's payment status is stored.
ActivatedAsPaid(a, s) == [a EXCEPT !.subscription = s, !.status = "paid"]

\* What a completed checkout writes to the account, whatever the status of the
\* subscription is by now.
Activated(a, s) == [a EXCEPT !.subscription = s, !.status = "active"]

StoreEvent(c) ==
  LET e == events[call[c].event]
      u == call[c].user
  IN /\ call[c].step = "store"
     /\ account' = [account EXCEPT ![u] =
                      IF e.type = "completed" THEN Activated(@, e.session)
                      ELSE [@ EXCEPT !.status = e.status]]
     /\ call' = [call EXCEPT ![c].step = IF e.type = "completed" THEN "announce" ELSE "answer"]
     /\ Note(u, call[c].event)
     /\ UNCHANGED <<stripe, answered, announced, failures>>

Announce(c) ==
  /\ call[c].step = "announce"
  /\ announced' = announced \cup {call[c].session}
  /\ call' = [call EXCEPT ![c].step = "answer"]
  /\ UNCHANGED <<account, stripe, answered, failures, history>>

Answer(c) ==
  /\ call[c].step = "answer"
  /\ answered' = answered \cup {call[c].event}
  /\ Finish(c)
  /\ UNCHANGED <<account, stripe, announced, failures, history>>

-----------------------------------------------------------------------------
(* verifySession *)

\* Faulty variant: whoever knows a paid session verifies it.
VerifyAnyone(c, u, s) ==
  /\ ~Busy(c)
  /\ session[s].paid
  /\ call' = [call EXCEPT ![c] = [Idle EXCEPT !.step = "verify", !.user = u, !.session = s]]
  /\ UNCHANGED <<account, stripe, answered, announced, failures, history>>

\* The user comes back from the checkout with the session's id.
Verify(c, u, s) ==
  /\ ~Busy(c)
  /\ session[s].paid
  /\ session[s].user = u
  /\ call' = [call EXCEPT ![c] = [Idle EXCEPT !.step = "verify", !.user = u, !.session = s]]
  /\ UNCHANGED <<account, stripe, answered, announced, failures, history>>

CompletionOf(s) == CHOOSE i \in DOMAIN events : events[i].type = "completed" /\ events[i].session = s

StoreVerified(c) ==
  /\ call[c].step = "verify"
  /\ account' = [account EXCEPT ![call[c].user] = Activated(@, call[c].session)]
  /\ Finish(c)
  /\ Note(call[c].user, CompletionOf(call[c].session))
  /\ UNCHANGED <<stripe, answered, announced, failures>>

-----------------------------------------------------------------------------
(* Any awaited call may throw, before or after it took effect: the request is   *)
(* answered with an error, what it stored stays, and Stripe delivers again.     *)

\* Faulty variant: the webhook answers with success even so.
FailUnnoticed(c) ==
  /\ Busy(c)
  /\ failures < MaxFailures
  /\ failures' = failures + 1
  /\ answered' = IF call[c].event = 0 THEN answered ELSE answered \cup {call[c].event}
  /\ Finish(c)
  /\ UNCHANGED <<account, stripe, announced, history>>

Fail(c) ==
  /\ Busy(c)
  /\ failures < MaxFailures
  /\ failures' = failures + 1
  /\ Finish(c)
  /\ UNCHANGED <<account, stripe, answered, announced, history>>

Continue(c) ==
  \/ CreateCustomer(c) \/ LinkCustomer(c) \/ OpenSession(c)
  \/ StoreEvent(c) \/ Announce(c) \/ Answer(c) \/ StoreVerified(c)

Next ==
  \/ \E s \in Sessions : CompleteCheckout(s) \/ ChangeSubscription(s)
  \/ \E c \in Calls :
       \/ Continue(c)
       \/ Fail(c)
       \/ \E u \in Users : \/ BeginCheckout(c, u)
                           \/ \E s \in Sessions : Verify(c, u, s)
       \/ \E i \in DOMAIN events : Deliver(c, i)

Spec == Init /\ [][Next]_vars

\* A request that is running goes on, and Stripe delivers an event it has had no
\* answer to again and again.
Redeliver(i) == i \in DOMAIN events \ answered /\ \E c \in Calls : Deliver(c, i)

Fairness ==
  /\ \A c \in Calls : WF_vars(Continue(c))
  /\ \A i \in 1..MaxEvents : SF_vars(Redeliver(i))

FairSpec == Spec /\ Fairness

-----------------------------------------------------------------------------
(* Properties *)

\* Accounts, Stripe's objects and the calls' local variables have their types.
TypeOK ==
  /\ account \in [Users -> [customer : Customers \cup {None},
                            subscription : Sessions \cup {None},
                            status : Statuses \cup {"none"}]]
  /\ created \subseteq Customers
  /\ session \in [Sessions -> [user : Users \cup {None}, customer : Customers \cup {None},
                               paid : BOOLEAN]]
  /\ subscription \in [Sessions -> Statuses \cup {"none"}]
  /\ events \in Seq([type : {"completed", "updated", "deleted"}, session : Sessions,
                     status : Statuses])
  /\ answered \subseteq DOMAIN events
  /\ call \in [Calls -> [step : {"idle", "create", "link", "open", "store", "announce",
                                 "answer", "verify"},
                         user : Users \cup {None}, session : Sessions \cup {None},
                         customer : Customers \cup {None}, event : 0..Len(events)]]
  /\ announced \subseteq Sessions
  /\ failures \in 0..MaxFailures
  /\ newest \in [Users -> 0..Len(events)]
  /\ late \subseteq Users
  /\ raced \subseteq Users

\* A subscription is only ever linked to the account of the user who bought it,
\* through the webhook or through verifySession, and only once it exists.
SubscriptionServesItsBuyer ==
  \A u \in Users : LET s == account[u].subscription IN
    s # None => session[s].user = u /\ subscription[s] # "none"

\* Every checkout session of a user belongs to the Stripe customer stored for the
\* user, so that the events of its subscription find the account again. Two
\* first checkouts that overlap create two customers and break it.
EventsFindTheAccount ==
  \A s \in Sessions : LET u == session[s].user IN
    u # None /\ u \notin raced => session[s].customer = account[u].customer

Bought(u) == {s \in Sessions : session[s].user = u /\ subscription[s] # "none"}

AllDelivered ==
  /\ answered = DOMAIN events
  /\ \A c \in Calls : ~Busy(c)

\* Once every event has been answered, the account shows the status Stripe has,
\* a trial counting as active. Events stored out of order, a second
\* subscription and a second customer are what breaks it: the webhook compares
\* neither the event's age nor its subscription with the account.
StatusFollowsStripe ==
  \A u \in Users \ (late \cup raced) : \A s \in Sessions :
    AllDelivered /\ Bought(u) = {s} =>
      \/ account[u].status = subscription[s]
      \/ account[u].status = "active" /\ subscription[s] = "trialing"

\* A completed checkout is announced in the end, however often the webhook fails
\* and whether or not the account was activated before.
CompletedIsAnnounced ==
  \A s \in Sessions : subscription[s] # "none" ~> s \in announced

=============================================================================
