---------------------------- MODULE Subscriptions ----------------------------
(***************************************************************************)
(* The subscription rows of one customer: the calls of SubscriptionService *)
(* (backend/app/services/subscription_service.py), the Stripe webhooks     *)
(* that StripeService.process_webhook_event applies to the same rows       *)
(* (stripe_service.py), and Stripe itself, which bills whether or not a    *)
(* row knows of it.                                                        *)
(*                                                                         *)
(* A call or a webhook selects rows, works on its copy and commits the     *)
(* columns it changed (sessions do not flush before the commit). Calls to  *)
(* the Stripe SDK block; they take effect at Stripe before the commit and  *)
(* are not undone when it fails. Stripe numbers its events in the order it *)
(* raises them and delivers each until it is answered with 200: in any     *)
(* order, several times and concurrently.                                  *)
(***************************************************************************)
EXTENDS Integers, Sequences, FiniteSets

CONSTANTS
  Calls,      \* requests of the customer in flight at a time
  Hooks,      \* webhook deliveries in flight at a time
  Subs,       \* Stripe subscriptions
  NoSub,      \* stripe_subscription_id of a row before its checkout completes
  Outcomes,   \* statuses in which Stripe may leave a subscription after a period
  MaxRows,    \* bound: rows of the customer
  MaxEvents   \* bound: events Stripe raises

ASSUME SubscriptionConstants ==
  /\ NoSub \notin Subs
  /\ Outcomes \subseteq {"active", "past_due", "unpaid", "paused"}
  /\ MaxRows \in Nat \ {0} /\ MaxEvents \in Nat \ {0}

VARIABLES
  rows,       \* customer_subscriptions
  calls,      \* service calls in flight
  hooks,      \* webhook requests in flight
  stripe,     \* the subscriptions at Stripe
  sessions,   \* Checkout sessions handed to the customer and not completed
  events,     \* events raised by Stripe, numbered by their position
  log,        \* webhook_events: numbers of the events stored
  payments,   \* payment rows written for each event
  entangled   \* history: Stripe subscriptions one of whose events was read before an earlier one
              \* was stored, or whose row a call or a webhook commits that read it as another's

vars == <<rows, calls, hooks, stripe, sessions, events, log, payments, entangled>>

LiveStatus == {"active", "trialing"}
Statuses == LiveStatus \cup {"past_due", "canceled", "unpaid", "paused"}
Ops == {"upgrade", "downgrade", "cancelAtEnd", "cancelNow", "reactivate"}
Kinds == {"completed", "paid", "failed", "updated", "deleted"}

Row == [status : Statuses, sub : Subs \cup {NoSub}, cancelEnd : BOOLEAN, trialUsed : BOOLEAN]
StripeSub == [status : Statuses \cup {"none"}, cancelEnd : BOOLEAN]
Event == [kind : Kinds, sub : Subs, status : Statuses, cancelEnd : BOOLEAN]

(* The row create_subscription adds; every paid plan has trial days, so    *)
(* that a checkout and start_trial both add a trial.                       *)
NewRow == [status |-> "trialing", sub |-> NoSub, cancelEnd |-> FALSE, trialUsed |-> TRUE]

IdleCall == [pc |-> "idle", op |-> "none", id |-> 0, old |-> NewRow, new |-> NewRow]
IdleHook == [pc |-> "idle", event |-> 0, id |-> 0, old |-> NewRow, new |-> NewRow]

TypeOK ==
  /\ rows \in Seq(Row) /\ Len(rows) <= MaxRows
  /\ calls \in [Calls -> [pc : {"idle", "untried", "inserting", "read", "writing"},
                          op : Ops \cup {"none", "checkout", "trial"},
                          id : 0..MaxRows, old : Row, new : Row]]
  /\ hooks \in [Hooks -> [pc : {"idle", "applied", "raised"},
                          event : 0..MaxEvents, id : 0..MaxRows, old : Row, new : Row]]
  /\ stripe \in [Subs -> StripeSub]
  /\ sessions \in 0..MaxRows
  /\ events \in Seq(Event) /\ Len(events) <= MaxEvents
  /\ log \subseteq 1..Len(events)
  /\ payments \in [1..MaxEvents -> Nat]
  /\ entangled \subseteq Subs

Init ==
  /\ rows = <<>>
  /\ calls = [c \in Calls |-> IdleCall]
  /\ hooks = [h \in Hooks |-> IdleHook]
  /\ stripe = [s \in Subs |-> [status |-> "none", cancelEnd |-> FALSE]]
  /\ sessions = 0
  /\ events = <<>>
  /\ log = {}
  /\ payments = [n \in 1..MaxEvents |-> 0]
  /\ entangled = {}

Ids == 1..Len(rows)
WithStatus(S) == {i \in Ids : rows[i].status \in S}
CarriedBy(s) == {i \in Ids : rows[i].sub = s}

(* Mutant: a commit that writes every column.                              *)
MergeAll(now, old, new) == new

(* A commit writes the columns whose value differs from the one read.      *)
Merge(now, old, new) ==
  [col \in DOMAIN now |-> IF new[col] = old[col] THEN now[col] ELSE new[col]]

(***************************************************************************)
(* Creation: create_checkout and start_trial                               *)
(***************************************************************************)

(* start_trial refuses a customer with exactly one trial used, and raises  *)
(* MultipleResultsFound with more than one.                                *)
ChecksTrial(c) ==
  /\ calls[c].pc = "idle"
  /\ \A i \in Ids : ~rows[i].trialUsed
  /\ calls' = [calls EXCEPT ![c] = [@ EXCEPT !.pc = "untried", !.op = "trial"]]
  /\ UNCHANGED <<rows, hooks, stripe, sessions, events, log, payments, entangled>>

(* create_subscription goes on only without an active or trialing row.     *)
ChecksLive(c) ==
  LET free == WithStatus(LiveStatus) = {} IN
  /\ \/ calls[c].pc = "untried"
     \/ calls[c].pc = "idle" /\ free
  /\ calls' = [calls EXCEPT ![c] =
       IF free THEN [@ EXCEPT !.pc = "inserting",
                              !.op = IF calls[c].op = "trial" THEN "trial" ELSE "checkout"]
       ELSE IdleCall]
  /\ UNCHANGED <<rows, hooks, stripe, sessions, events, log, payments, entangled>>

(* The row grants its features from here on; the customer of a checkout is *)
(* then sent to the page on which to pay.                                  *)
Inserts(c) ==
  /\ calls[c].pc = "inserting"
  /\ Len(rows) < MaxRows
  /\ calls[c].op = "checkout" => sessions < MaxRows
  /\ rows' = Append(rows, NewRow)
  /\ sessions' = IF calls[c].op = "checkout" THEN sessions + 1 ELSE sessions
  /\ calls' = [calls EXCEPT ![c] = IdleCall]
  /\ UNCHANGED <<hooks, stripe, events, log, payments, entangled>>

(***************************************************************************)
(* Changes: upgrade, downgrade, cancel, reactivate                         *)
(***************************************************************************)

(* Rows the call selects; it goes on with exactly one, refuses with none   *)
(* and raises MultipleResultsFound with more.                              *)
Selected(op) ==
  CASE op = "upgrade" -> WithStatus(LiveStatus)
    [] op = "downgrade" -> WithStatus({"active"})
    [] op \in {"cancelAtEnd", "cancelNow"} -> WithStatus(LiveStatus \cup {"past_due"})
    [] op = "reactivate" -> {i \in WithStatus({"active", "canceled"}) : rows[i].cancelEnd}

(* The row after the assignments of the call. The plan columns that an     *)
(* upgrade writes are not part of the model.                               *)
Changed(op, r) ==
  CASE op = "cancelAtEnd" -> [r EXCEPT !.cancelEnd = TRUE]
    [] op = "cancelNow" -> [r EXCEPT !.status = "canceled"]
    [] op = "reactivate" -> [r EXCEPT !.cancelEnd = FALSE, !.status = "active"]
    [] OTHER -> r

ReadsRow(c) ==
  /\ calls[c].pc = "idle"
  /\ \E op \in Ops, i \in Ids :
       /\ Selected(op) = {i}
       /\ calls' = [calls EXCEPT ![c] = [pc |-> "read", op |-> op, id |-> i,
                                         old |-> rows[i], new |-> Changed(op, rows[i])]]
  /\ UNCHANGED <<rows, hooks, stripe, sessions, events, log, payments, entangled>>

(* The subscription at Stripe after the SDK call, and the event it raises. *)
AtStripe(op, s) ==
  CASE op = "cancelAtEnd" -> [stripe[s] EXCEPT !.cancelEnd = TRUE]
    [] op = "cancelNow" -> [stripe[s] EXCEPT !.status = "canceled"]
    [] op = "reactivate" -> [stripe[s] EXCEPT !.cancelEnd = FALSE]
    [] OTHER -> stripe[s]

Raised(kind, s, at) == [kind |-> kind, sub |-> s, status |-> at.status, cancelEnd |-> at.cancelEnd]
Room(n) == Len(events) + n <= MaxEvents

AsksStripe(c) ==
  LET s == calls[c].old.sub
      at == AtStripe(calls[c].op, s)
  IN /\ calls[c].pc = "read"
     /\ s # NoSub
     /\ stripe[s].status # "canceled"
     /\ Room(1)
     /\ stripe' = [stripe EXCEPT ![s] = at]
     /\ events' = Append(events, Raised(IF at.status = "canceled" THEN "deleted" ELSE "updated", s, at))
     /\ calls' = [calls EXCEPT ![c].pc = "writing"]
     /\ UNCHANGED <<rows, hooks, sessions, log, payments, entangled>>

(* A row without a Stripe subscription is changed without asking Stripe.   *)
NeedsNoStripe(c) ==
  /\ calls[c].pc = "read"
  /\ calls[c].old.sub = NoSub
  /\ calls' = [calls EXCEPT ![c].pc = "writing"]
  /\ UNCHANGED <<rows, hooks, stripe, sessions, events, log, payments, entangled>>

CommitsChange(c) ==
  LET k == calls[c] IN
  /\ k.pc = "writing"
  /\ rows' = [rows EXCEPT ![k.id] = Merge(@, k.old, k.new)]
  /\ entangled' = IF rows[k.id].sub = k.old.sub THEN entangled ELSE entangled \cup {rows[k.id].sub}
  /\ calls' = [calls EXCEPT ![c] = IdleCall]
  /\ UNCHANGED <<hooks, stripe, sessions, events, log, payments>>

(* Stripe refuses the call or cannot be reached, or the commit fails.      *)
CallFails(c) ==
  /\ calls[c].pc \in {"inserting", "writing"} \/ (calls[c].pc = "read" /\ calls[c].old.sub # NoSub)
  /\ calls' = [calls EXCEPT ![c] = IdleCall]
  /\ UNCHANGED <<rows, hooks, stripe, sessions, events, log, payments, entangled>>

(***************************************************************************)
(* Webhooks: process_webhook_event                                         *)
(***************************************************************************)

(* Mutant: an event finds only a row that is still live.                   *)
MatchedLive(e) ==
  IF e.kind = "completed" THEN WithStatus({"trialing"}) ELSE CarriedBy(e.sub) \cap WithStatus(LiveStatus)

(* The rows the handler selects: a completed checkout names the customer   *)
(* only and takes the trialing row, the others name the subscription.      *)
Matched(e) == IF e.kind = "completed" THEN WithStatus({"trialing"}) ELSE CarriedBy(e.sub)

(* The row after the handler's assignments.                                *)
Applied(e, r) ==
  CASE e.kind = "completed" -> [r EXCEPT !.sub = e.sub, !.status = "active"]
    [] e.kind = "paid" -> [r EXCEPT !.status = "active"]
    [] e.kind = "failed" -> [r EXCEPT !.status = "past_due"]
    [] e.kind = "updated" -> [r EXCEPT !.status = e.status, !.cancelEnd = e.cancelEnd]
    [] e.kind = "deleted" -> [r EXCEPT !.status = "canceled"]

(* The handler of an event that finds no row does nothing, and the event is *)
(* stored; the handler of one that finds several raises.                   *)
HookOf(n) ==
  LET e == events[n]
      found == Matched(e)
  IN IF Cardinality(found) # 1
     THEN {[IdleHook EXCEPT !.pc = IF found = {} THEN "applied" ELSE "raised", !.event = n]}
     ELSE {[pc |-> "applied", event |-> n, id |-> i, old |-> rows[i], new |-> Applied(e, rows[i])] : i \in found}

(* Redelivery of a stored event is answered with already_processed and     *)
(* changes nothing.                                                        *)
HookReads(h, n) ==
  /\ hooks[h].pc = "idle"
  /\ n \in 1..Len(events) /\ n \notin log
  /\ \E k \in HookOf(n) : hooks' = [hooks EXCEPT ![h] = k]
  /\ entangled' = IF \E m \in 1..(n - 1) : m \notin log /\ events[m].sub = events[n].sub
                  THEN entangled \cup {events[n].sub} ELSE entangled
  /\ UNCHANGED <<rows, calls, stripe, sessions, events, log, payments>>

(* Mutant: the log of events has no unique constraint.                     *)
StorableTwice(k) == k.id # 0 /\ k.new.sub # k.old.sub => CarriedBy(k.new.sub) \subseteq {k.id}

(* The constraints of a commit: one stored row per event, and one row per  *)
(* Stripe subscription.                                                    *)
Storable(k) ==
  /\ k.event \notin log
  /\ k.id # 0 /\ k.new.sub # k.old.sub => CarriedBy(k.new.sub) \subseteq {k.id}

(* The event, the row and the payment are committed together.              *)
HookCommits(h) ==
  LET k == hooks[h] IN
  /\ k.pc = "applied"
  /\ Storable(k)
  /\ log' = log \cup {k.event}
  /\ rows' = IF k.id = 0 THEN rows ELSE [rows EXCEPT ![k.id] = Merge(@, k.old, k.new)]
  /\ payments' = IF k.id # 0 /\ events[k.event].kind = "paid"
                 THEN [payments EXCEPT ![k.event] = @ + 1] ELSE payments
  /\ entangled' = IF k.id # 0 /\ rows'[k.id].sub # events[k.event].sub
                  THEN entangled \cup {rows'[k.id].sub} ELSE entangled
  /\ hooks' = [hooks EXCEPT ![h] = IdleHook]
  /\ UNCHANGED <<calls, stripe, sessions, events>>

(* A constraint refuses the commit, or the database fails, or the handler  *)
(* raised: counting the retry on an event that was never flushed raises    *)
(* again, past the commit. The answer is 500, and Stripe delivers the      *)
(* event again.                                                            *)
HookFails(h) ==
  /\ hooks[h].pc # "idle"
  /\ hooks' = [hooks EXCEPT ![h] = IdleHook]
  /\ UNCHANGED <<rows, calls, stripe, sessions, events, log, payments, entangled>>

(***************************************************************************)
(* Stripe                                                                  *)
(***************************************************************************)

(* The customer completes a Checkout session: a subscription starts.       *)
PaysCheckout(s) ==
  LET at == [status |-> "trialing", cancelEnd |-> FALSE] IN
  /\ sessions > 0
  /\ stripe[s].status = "none"
  /\ Room(2)
  /\ sessions' = sessions - 1
  /\ stripe' = [stripe EXCEPT ![s] = at]
  /\ events' = events \o <<Raised("completed", s, at), Raised("paid", s, at)>>
  /\ UNCHANGED <<rows, calls, hooks, log, payments, entangled>>

(* A period is paid, is not, or collection is paused or given up.          *)
Bills(s) ==
  \E st \in Outcomes :
    LET at == [stripe[s] EXCEPT !.status = st]
        bill == CASE st = "active" -> <<Raised("paid", s, at)>>
                  [] st = "past_due" -> <<Raised("failed", s, at)>>
                  [] OTHER -> <<>>
    IN /\ stripe[s].status \notin {"none", "canceled"}
       /\ Room(Len(bill) + 1)
       /\ stripe' = [stripe EXCEPT ![s] = at]
       /\ events' = events \o bill \o <<Raised("updated", s, at)>>
       /\ UNCHANGED <<rows, calls, hooks, sessions, log, payments, entangled>>

(* The period of a cancelled subscription, or the patience, ends.          *)
EndsSubscription(s) ==
  LET at == [stripe[s] EXCEPT !.status = "canceled"] IN
  /\ stripe[s].status \in {"past_due", "unpaid"} \/ stripe[s].cancelEnd
  /\ stripe[s].status # "canceled"
  /\ Room(1)
  /\ stripe' = [stripe EXCEPT ![s] = at]
  /\ events' = Append(events, Raised("deleted", s, at))
  /\ UNCHANGED <<rows, calls, hooks, sessions, log, payments, entangled>>

------------------------------------------------------------------------------

CallStep(c) ==
  \/ ChecksTrial(c) \/ ChecksLive(c) \/ Inserts(c)
  \/ ReadsRow(c) \/ AsksStripe(c) \/ NeedsNoStripe(c) \/ CommitsChange(c) \/ CallFails(c)

HookStep(h) == (\E n \in 1..MaxEvents : HookReads(h, n)) \/ HookCommits(h) \/ HookFails(h)

StripeStep(s) == PaysCheckout(s) \/ Bills(s) \/ EndsSubscription(s)

Next ==
  \/ \E c \in Calls : CallStep(c)
  \/ \E h \in Hooks : HookStep(h)
  \/ \E s \in Subs : StripeStep(s)

Spec == Init /\ [][Next]_vars

------------------------------------------------------------------------------

(* However often process_webhook_event is called with an invoice.paid      *)
(* event, and however many of the calls run at once, it leaves at most one *)
(* payment row, and none before the event is stored.                       *)
BookedOnce == \A n \in 1..MaxEvents : payments[n] <= IF n \in log THEN 1 ELSE 0

(* An orderly, linked subscription has every stored payment in the books;  *)
(* one whose invoice.paid was handled before its checkout is entangled.    *)
BookedWhenOrderly ==
  \A n \in log :
    LET s == events[n].sub IN
    events[n].kind = "paid" /\ s \notin entangled /\ CarriedBy(s) # {} => payments[n] = 1

(* A row agrees with Stripe: a trial at Stripe may be active here.         *)
Agrees(status, at) == status = at \/ {status, at} \subseteq LiveStatus

(* When all events of a linked subscription are stored, its row has the    *)
(* status Stripe has, although calls change both in two steps of which the *)
(* second may fail or come late: the events repair that. Only an entangled *)
(* subscription may be left with another status.                           *)
StripeSync ==
  \A i \in Ids :
    LET s == rows[i].sub IN
    (/\ s \notin entangled \cup {NoSub}
     /\ \A n \in 1..Len(events) : events[n].sub = s => n \in log)
    => Agrees(rows[i].status, stripe[s].status)
==============================================================================
