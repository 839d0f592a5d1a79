------------------------- MODULE SubscriptionsProofs -------------------------
(***************************************************************************)
(* Proofs about Subscriptions, for any number of concurrent calls and      *)
(* deliveries, of Stripe subscriptions, of rows and of events.             *)
(***************************************************************************)
EXTENDS Subscriptions, FiniteSetTheorems, TLAPS

(***************************************************************************)
(* What the unique constraint on webhook_events.stripe_event_id gives,     *)
(* whatever else goes on: deliveries in any number and order, commits that *)
(* fail, calls of the customer and changes at Stripe in between.           *)
(***************************************************************************)

Books == payments \in [1..MaxEvents -> Nat]

PaymentInv == Books /\ BookedOnce

(* The books start empty.                                                  *)
LEMMA InitBooks == Init => PaymentInv
  BY DEF Init, PaymentInv, Books, BookedOnce

(* The commit of a webhook; no other step touches the books or the log.    *)
LEMMA CommitStep ==
  ASSUME NEW h \in Hooks, PaymentInv, HookCommits(h)
  PROVE  PaymentInv'
<1> DEFINE e == hooks[h].event
<1>1. e \notin log /\ log' = log \cup {e}
  BY DEF HookCommits, Storable
<1>2. \/ payments' = payments
      \/ payments' = [payments EXCEPT ![e] = @ + 1]
  BY DEF HookCommits
<1> HIDE DEF e
<1>3. Books'
  BY <1>2 DEF PaymentInv, Books
<1>4. ASSUME NEW n \in 1..MaxEvents
      PROVE  payments'[n] <= IF n \in log' THEN 1 ELSE 0
  <2>1. payments[n] \in Nat /\ payments[n] <= IF n \in log THEN 1 ELSE 0
    BY DEF PaymentInv, Books, BookedOnce
  <2>2. CASE n = e
    (* The event was not stored, hence not booked. *)
    <3>1. payments[n] = 0
      BY <1>1, <2>1, <2>2
    <3>2. payments'[n] = 0 \/ payments'[n] = 1
      <4>1. CASE payments' = payments
        BY <3>1, <4>1
      <4>2. CASE payments' = [payments EXCEPT ![e] = @ + 1]
        <5>1. payments'[n] = payments[n] + 1
          BY <2>2, <4>2 DEF PaymentInv, Books
        <5> QED BY <3>1, <5>1
      <4> QED BY <1>2, <4>1, <4>2
    <3> QED BY <1>1, <2>2, <3>2
  <2>3. CASE n # e
    <3>1. payments'[n] = payments[n]
      BY <1>2, <2>3 DEF PaymentInv, Books
    <3> QED BY <1>1, <2>1, <2>3, <3>1
  <2> QED BY <2>2, <2>3
<1>5. BookedOnce'
  BY <1>4 DEF BookedOnce
<1> QED BY <1>3, <1>5 DEF PaymentInv

(* Every step keeps the books.                                             *)
LEMMA StepBooks == PaymentInv /\ [Next]_vars => PaymentInv'
<1> SUFFICES ASSUME PaymentInv, [Next]_vars PROVE PaymentInv'
  OBVIOUS
<1>1. CASE payments' = payments /\ log' = log
  BY <1>1 DEF PaymentInv, Books, BookedOnce
<1>2. CASE \E h \in Hooks : HookCommits(h)
  BY <1>2, CommitStep
<1>3. CASE UNCHANGED vars
  BY <1>1, <1>3 DEF vars
<1>4. CASE \E c \in Calls : CallStep(c)
  <2>1. payments' = payments /\ log' = log
    BY <1>4 DEF CallStep, ChecksTrial, ChecksLive, Inserts, ReadsRow, AsksStripe, NeedsNoStripe,
                CommitsChange, CallFails
  <2> QED BY <1>1, <2>1
<1>5. CASE \E h \in Hooks : (\E n \in 1..MaxEvents : HookReads(h, n)) \/ HookFails(h)
  <2>1. payments' = payments /\ log' = log
    BY <1>5 DEF HookReads, HookFails
  <2> QED BY <1>1, <2>1
<1>6. CASE \E s \in Subs : StripeStep(s)
  <2>1. payments' = payments /\ log' = log
    BY <1>6 DEF StripeStep, PaysCheckout, Bills, EndsSubscription
  <2> QED BY <1>1, <2>1
<1> QED BY <1>2, <1>3, <1>4, <1>5, <1>6 DEF Next, HookStep

(* An invoice.paid event leaves at most one payment row, for any number of *)
(* deliveries of any number of events at once, and none before the event   *)
(* is stored. (HookCommits of process_webhook_event, unique stripe_event_id)*)
THEOREM PaymentsBookedOnce == Spec => []BookedOnce
<1>1. PaymentInv => BookedOnce
  BY DEF PaymentInv
<1> QED BY <1>1, InitBooks, StepBooks, PTL DEF Spec

(***************************************************************************)
(* The rows follow Stripe, and the books the payments.                     *)
(***************************************************************************)
CallRec == [pc : {"idle", "untried", "inserting", "read", "writing"},
            op : Ops \cup {"none", "checkout", "trial"},
            id : 0..MaxRows, old : Row, new : Row]
HookRec == [pc : {"idle", "applied", "raised"},
            event : 0..MaxEvents, id : 0..MaxRows, old : Row, new : Row]

Numbers == 1..Len(events)
Started(s) == stripe[s].status # "none"
Gone(s) == stripe[s].status = "canceled"

(* What the kind of an event says of the status it reports.                *)
EventMeans(e) ==
  /\ e.kind = "completed" => e.status = "trialing"
  /\ e.kind = "paid" => e.status \in LiveStatus
  /\ e.kind = "failed" => e.status = "past_due"
  /\ e.kind = "deleted" => e.status = "canceled"

(* Events are raised for subscriptions that have started; only one that is *)
(* over reports it; the completed checkout comes first, and once; the last *)
(* event of a subscription reports the status it is in. Only one that has  *)
(* started can be cancelled at the end of its period.                      *)
EventInv ==
  /\ \A n \in Numbers :
       /\ EventMeans(events[n]) /\ Started(events[n].sub)
       /\ events[n].status = "canceled" => Gone(events[n].sub)
       /\ \E m \in 1..n : events[m].sub = events[n].sub /\ events[m].kind = "completed"
       /\ events[n].kind = "completed" =>
            \A m \in Numbers : events[m].sub = events[n].sub => n <= m
  /\ \A s \in Subs : stripe[s].cancelEnd => Started(s)
  /\ \A s \in Subs : Started(s) =>
       \E n \in Numbers : /\ events[n].sub = s /\ events[n].status = stripe[s].status
                          /\ \A m \in Numbers : events[m].sub = s => m <= n

(* A row is linked when its completed checkout is stored, and one Stripe   *)
(* subscription has one row.                                               *)
LinkInv ==
  /\ \A i \in Ids : rows[i].sub # NoSub =>
       \E m \in log : events[m].kind = "completed" /\ events[m].sub = rows[i].sub
  /\ \A i, j \in Ids : rows[i].sub = rows[j].sub /\ rows[i].sub # NoSub => i = j

(* What a call remembers of the row it read: a status it will write over   *)
(* another is that of a subscription that is over.                         *)
CallGood(c) ==
  LET k == calls[c] IN
  k.pc \in {"read", "writing"} =>
    /\ k.id \in Ids /\ k.op \in Ops /\ k.new = Changed(k.op, k.old)
    /\ k.op = "reactivate" => k.old.status \in {"active", "canceled"}
    /\ k.old.sub # NoSub => rows[k.id].sub # NoSub /\ Started(k.old.sub)
    /\ k.old.sub \notin entangled \cup {NoSub} =>
         /\ k.old.status = "canceled" => Gone(k.old.sub)
         /\ k.pc = "writing" /\ k.new.status # k.old.status =>
              k.new.status = "canceled" /\ Gone(k.old.sub)

(* What a webhook request remembers of its event and of the row it read:   *)
(* unless the subscription is entangled, the events before it are stored,  *)
(* no other row carries the subscription, and the row still has the status *)
(* it had, or the one of a subscription that is over.                      *)
HookGood(h) ==
  LET k == hooks[h]
      e == events[k.event]
  IN k.pc # "idle" =>
    /\ k.event \in Numbers /\ k.id \in 0..Len(rows)
    /\ k.id # 0 =>
         /\ k.new = Applied(e, k.old)
         /\ e.kind = "completed" => k.old.status = "trialing" /\ k.old.sub # e.sub
         /\ e.kind # "completed" => k.old.sub = e.sub /\ rows[k.id].sub # NoSub
    /\ e.sub \notin entangled =>
         /\ \A m \in 1..(k.event - 1) : events[m].sub = e.sub => m \in log
         /\ e.kind # "completed" => CarriedBy(e.sub) \subseteq {k.id}
         /\ (e.kind # "completed" /\ k.event \notin log /\ k.id # 0 /\ rows[k.id].sub = e.sub) =>
              \/ rows[k.id].status = k.old.status
              \/ rows[k.id].status = "canceled" /\ Gone(e.sub)

(* The events of a subscription that is not entangled are stored in order. *)
StoredInOrder ==
  \A n \in log : events[n].sub \notin entangled =>
    \A m \in 1..n : events[m].sub = events[n].sub => m \in log

(* A linked row that is canceled has a subscription that is over.          *)
CanceledRows ==
  \A i \in Ids : rows[i].status = "canceled" /\ rows[i].sub \notin entangled \cup {NoSub} =>
    Gone(rows[i].sub)

(* A linked row has the status of the last event that is stored, or is     *)
(* canceled with its subscription.                                         *)
RowFollows ==
  \A i \in Ids, n \in log :
    (/\ rows[i].sub \notin entangled /\ events[n].sub = rows[i].sub
     /\ \A m \in log : events[m].sub = rows[i].sub => m <= n)
    => \/ Agrees(rows[i].status, events[n].status)
       \/ rows[i].status = "canceled" /\ Gone(rows[i].sub)

(* The inductive invariant of BookedWhenOrderly and StripeSync.            *)
SyncInv ==
  /\ TypeOK /\ BookedOnce /\ EventInv /\ LinkInv
  /\ \A c \in Calls : CallGood(c)
  /\ \A h \in Hooks : HookGood(h)
  /\ StoredInOrder /\ CanceledRows /\ RowFollows /\ BookedWhenOrderly

(***************************************************************************)
(* Lemmas about the operators.                                             *)
(***************************************************************************)
(* TypeOK, with the names of the record sets.                              *)
LEMMA TypeNames ==
  ASSUME TypeOK
  PROVE  /\ rows \in Seq(Row) /\ Len(rows) \in Nat /\ \A i \in Ids : rows[i] \in Row
         /\ calls \in [Calls -> CallRec] /\ hooks \in [Hooks -> HookRec]
         /\ events \in Seq(Event) /\ Len(events) \in Nat /\ \A n \in Numbers : events[n] \in Event
         /\ Numbers \subseteq 1..MaxEvents
BY SubscriptionConstants DEF TypeOK, CallRec, HookRec, Ids, Numbers

(* A row that a checkout or a trial adds, and calls not in flight.         *)
LEMMA IdleTypes ==
  /\ NewRow \in Row /\ NewRow.sub = NoSub
  /\ IdleCall \in CallRec /\ IdleCall.pc = "idle"
  /\ IdleHook \in HookRec /\ IdleHook.pc = "idle"
<1>1. NewRow \in Row /\ NewRow.sub = NoSub
  BY DEF NewRow, Row, Statuses, LiveStatus
<1>2. 0 \in 0..MaxRows /\ 0 \in 0..MaxEvents
  BY SubscriptionConstants
<1> QED BY <1>1, <1>2 DEF IdleCall, IdleHook, CallRec, HookRec

(* A commit merges column by column.                                       *)
LEMMA MergeRow ==
  ASSUME NEW now \in Row, NEW old \in Row, NEW new \in Row
  PROVE  /\ Merge(now, old, new) \in Row
         /\ Merge(now, old, new).status = IF new.status = old.status THEN now.status ELSE new.status
         /\ Merge(now, old, new).sub = IF new.sub = old.sub THEN now.sub ELSE new.sub
<1>1. DOMAIN now = {"status", "sub", "cancelEnd", "trialUsed"}
  BY DEF Row
<1>2. Merge(now, old, new) =
        [status |-> IF new.status = old.status THEN now.status ELSE new.status,
         sub |-> IF new.sub = old.sub THEN now.sub ELSE new.sub,
         cancelEnd |-> IF new.cancelEnd = old.cancelEnd THEN now.cancelEnd ELSE new.cancelEnd,
         trialUsed |-> IF new.trialUsed = old.trialUsed THEN now.trialUsed ELSE new.trialUsed]
  BY <1>1 DEF Merge
<1> QED BY <1>2 DEF Row

(* A call of the customer leaves the link of its row, and writes a status  *)
(* only when it cancels or reactivates.                                    *)
LEMMA ChangedRow ==
  ASSUME NEW op \in Ops, NEW r \in Row
  PROVE  /\ Changed(op, r) \in Row /\ Changed(op, r).sub = r.sub
         /\ op = "cancelNow" => Changed(op, r).status = "canceled"
         /\ op = "reactivate" => Changed(op, r).status = "active"
         /\ op \notin {"cancelNow", "reactivate"} => Changed(op, r).status = r.status
BY DEF Ops, Changed, Row, Statuses, LiveStatus

(* An event leaves the row it found in a status that agrees with its own,  *)
(* and links it only when it is a completed checkout.                      *)
LEMMA AppliedRow ==
  ASSUME NEW e \in Event, EventMeans(e), NEW r \in Row
  PROVE  /\ Applied(e, r) \in Row
         /\ Applied(e, r).sub = IF e.kind = "completed" THEN e.sub ELSE r.sub
         /\ e.kind = "completed" => Applied(e, r).status = "active"
         /\ Agrees(Applied(e, r).status, e.status)
         /\ Applied(e, r).status = "canceled" => e.status = "canceled"
<1>1. e.kind \in Kinds /\ e.sub \in Subs /\ e.status \in Statuses /\ e.cancelEnd \in BOOLEAN
  BY DEF Event
<1>2. CASE e.kind = "completed"
  BY <1>1, <1>2 DEF Applied, EventMeans, Agrees, Row, Statuses, LiveStatus
<1>3. CASE e.kind = "paid"
  BY <1>1, <1>3 DEF Applied, EventMeans, Agrees, Row, Statuses, LiveStatus
<1>4. CASE e.kind = "failed"
  BY <1>1, <1>4 DEF Applied, EventMeans, Agrees, Row, Statuses, LiveStatus
<1>5. CASE e.kind = "updated"
  BY <1>1, <1>5 DEF Applied, EventMeans, Agrees, Row, Statuses, LiveStatus
<1>6. CASE e.kind = "deleted"
  BY <1>1, <1>6 DEF Applied, EventMeans, Agrees, Row, Statuses, LiveStatus
<1> QED BY <1>1, <1>2, <1>3, <1>4, <1>5, <1>6 DEF Kinds

(* Writing one row of the table.                                           *)
LEMMA WriteRow ==
  ASSUME NEW t \in Seq(Row), NEW i \in 1..Len(t), NEW r \in Row
  PROVE  /\ [t EXCEPT ![i] = r] \in Seq(Row) /\ Len([t EXCEPT ![i] = r]) = Len(t)
         /\ [t EXCEPT ![i] = r][i] = r
         /\ \A j \in 1..Len(t) : j # i => [t EXCEPT ![i] = r][j] = t[j]
OBVIOUS

(* The completed checkout of a subscription is the only one, and no row is *)
(* linked before it is stored.                                             *)
LEMMA NotLinkedYet ==
  ASSUME TypeOK, EventInv, LinkInv, NEW n \in Numbers, n \notin log, events[n].kind = "completed"
  PROVE  CarriedBy(events[n].sub) = {}
<1> SUFFICES ASSUME NEW i \in Ids, rows[i].sub = events[n].sub PROVE FALSE
  BY DEF CarriedBy
<1>1. events[n].sub \in Subs
  BY TypeNames DEF Event
<1>2. PICK m \in log : events[m].kind = "completed" /\ events[m].sub = events[n].sub
  BY <1>1, SubscriptionConstants DEF LinkInv
<1>3. m \in Numbers
  BY DEF TypeOK, Numbers
<1>4. n <= m /\ m <= n
  BY <1>2, <1>3 DEF EventInv
<1> QED BY <1>3, <1>4 DEF Numbers

(* A step that stores no event, raises none and links no row keeps the     *)
(* invariant, if a status it writes is that of a subscription that is over *)
(* and the call or the webhook that takes it remembers well.               *)
LEMMA RowsKeep ==
  ASSUME SyncInv, TypeOK', UNCHANGED <<stripe, events, log, payments>>,
         entangled \subseteq entangled', Len(rows') = Len(rows),
         \A i \in Ids : rows'[i].sub = rows[i].sub,
         \A i \in Ids : rows[i].sub \notin entangled' \cup {NoSub} =>
           \/ rows'[i].status = rows[i].status
           \/ rows'[i].status = "canceled" /\ Gone(rows[i].sub),
         \A c \in Calls : calls'[c] # calls[c] => CallGood(c)',
         \A h \in Hooks : hooks'[h] # hooks[h] => HookGood(h)'
  PROVE  SyncInv'
<1>1. Ids' = Ids
  BY DEF Ids
<1>2. BookedOnce' /\ EventInv' /\ StoredInOrder'
  <2>1. BookedOnce'
    BY DEF SyncInv, BookedOnce
  <2>2. EventInv'
    BY DEF SyncInv, EventInv, Numbers, EventMeans, Started, Gone
  <2>3. StoredInOrder'
    BY DEF SyncInv, StoredInOrder
  <2> QED BY <2>1, <2>2, <2>3
<1>3. LinkInv'
  BY <1>1 DEF SyncInv, LinkInv
<1>4. ASSUME NEW c \in Calls PROVE CallGood(c)'
  <2> SUFFICES ASSUME calls'[c] = calls[c] PROVE CallGood(c)'
    OBVIOUS
  <2>1. CallGood(c)
    BY DEF SyncInv
  <2> QED BY <1>1, <2>1 DEF CallGood, Started, Gone
<1>5. ASSUME NEW h \in Hooks PROVE HookGood(h)'
  <2> SUFFICES ASSUME hooks'[h] = hooks[h], hooks[h].pc # "idle" PROVE HookGood(h)'
    BY DEF HookGood
  <2>1. HookGood(h)
    BY DEF SyncInv
  <2> DEFINE k == hooks[h]
             e == events[k.event]
  <2>0. k.event \in Numbers /\ k.id \in 0..Len(rows)
    BY <2>1 DEF HookGood
  <2>a. e \in Event
    BY <2>0, TypeNames DEF SyncInv
  <2>2. k.event \in Numbers /\ k.id \in 0..Len(rows) /\ e.sub \in Subs /\ e.sub # NoSub
    BY <2>0, <2>a, SubscriptionConstants DEF Event
  <2>3. k.id # 0 => k.id \in Ids /\ rows'[k.id].sub = rows[k.id].sub
    BY <2>2, TypeNames DEF Ids, SyncInv
  <2>4. CarriedBy(e.sub)' = CarriedBy(e.sub)
    BY <1>1 DEF CarriedBy
  <2> HIDE DEF k, e
  <2>5. e.sub \notin entangled' =>
          /\ \A m \in 1..(k.event - 1) : events[m].sub = e.sub => m \in log
          /\ e.kind # "completed" => CarriedBy(e.sub) \subseteq {k.id}
          /\ (e.kind # "completed" /\ k.event \notin log /\ k.id # 0 /\ rows'[k.id].sub = e.sub) =>
               \/ rows'[k.id].status = k.old.status
               \/ rows'[k.id].status = "canceled" /\ Gone(e.sub)
    BY <2>1, <2>2, <2>3 DEF HookGood, k, e
  <2>6. k.event \in Numbers' /\ k.id \in 0..Len(rows')
    BY <2>2 DEF Numbers
  <2>7. k.id # 0 =>
         /\ k.new = Applied(e, k.old)
         /\ e.kind = "completed" => k.old.status = "trialing" /\ k.old.sub # e.sub
         /\ e.kind # "completed" => k.old.sub = e.sub /\ rows'[k.id].sub # NoSub
    BY <2>1, <2>3 DEF HookGood, k, e
  <2>8. hooks'[h] = k /\ events'[k.event] = e /\ e' = e /\ events' = events /\ log' = log
        /\ Gone(e.sub)' = Gone(e.sub)
    BY DEF k, e, Gone
  <2> QED BY <2>4, <2>5, <2>6, <2>7, <2>8 DEF HookGood
<1>6. CanceledRows'
  BY <1>1 DEF SyncInv, CanceledRows, Gone
<1>7. RowFollows'
  <2> SUFFICES ASSUME NEW i \in Ids, NEW n \in log, rows'[i].sub \notin entangled',
                      events[n].sub = rows'[i].sub,
                      \A m \in log : events[m].sub = rows'[i].sub => m <= n
               PROVE  \/ Agrees(rows'[i].status, events[n].status)
                      \/ rows'[i].status = "canceled" /\ Gone(rows'[i].sub)
    BY <1>1 DEF RowFollows, Gone
  <2>1. rows[i].sub # NoSub
    BY TypeNames, SubscriptionConstants DEF SyncInv, TypeOK, Numbers, Event
  <2> QED BY <2>1 DEF SyncInv, RowFollows
<1>8. BookedWhenOrderly'
  <2> SUFFICES ASSUME NEW n \in log, events[n].kind = "paid", events[n].sub \notin entangled,
                      CarriedBy(events[n].sub)' # {}
               PROVE  payments[n] = 1
    BY DEF BookedWhenOrderly
  <2>1. CarriedBy(events[n].sub)' = CarriedBy(events[n].sub)
    BY <1>1 DEF CarriedBy
  <2> QED BY <2>1 DEF SyncInv, BookedWhenOrderly
<1> QED BY <1>2, <1>3, <1>4, <1>5, <1>6, <1>7, <1>8 DEF SyncInv

(***************************************************************************)
(* The steps of a call.                                                    *)
(***************************************************************************)
(* A step that changes one call only needs that call to remember well.     *)
LEMMA CallOnly ==
  ASSUME SyncInv, NEW c \in Calls,
         UNCHANGED <<rows, hooks, stripe, sessions, events, log, payments, entangled>>,
         calls' \in [Calls -> CallRec],
         \A d \in Calls : d # c => calls'[d] = calls[d],
         CallGood(c)'
  PROVE  SyncInv'
<1>1. TypeOK'
  BY DEF SyncInv, TypeOK, CallRec
<1> QED BY <1>1, RowsKeep

(* A call that ends, or that creates a row, remembers nothing.             *)
LEMMA CallForgets ==
  ASSUME SyncInv, NEW c \in Calls, ChecksTrial(c) \/ ChecksLive(c) \/ CallFails(c)
  PROVE  SyncInv'
<1>1. calls \in [Calls -> CallRec]
  BY TypeNames DEF SyncInv
<1>2. PICK k \in CallRec : calls' = [calls EXCEPT ![c] = k] /\ k.pc \notin {"read", "writing"}
  <2>1. CASE ChecksTrial(c)
    <3>1. [calls[c] EXCEPT !.pc = "untried", !.op = "trial"] \in CallRec
      BY <1>1 DEF CallRec
    <3> QED BY <1>1, <2>1, <3>1 DEF ChecksTrial, CallRec
  <2>2. CASE ChecksLive(c)
    <3> DEFINE op == IF calls[c].op = "trial" THEN "trial" ELSE "checkout"
    <3>1. [calls[c] EXCEPT !.pc = "inserting", !.op = op] \in CallRec
      BY <1>1 DEF CallRec
    <3>2. [calls[c] EXCEPT !.pc = "inserting", !.op = op].pc = "inserting"
      BY <1>1 DEF CallRec
    <3>3. calls' = [calls EXCEPT ![c] = [calls[c] EXCEPT !.pc = "inserting", !.op = op]]
          \/ calls' = [calls EXCEPT ![c] = IdleCall]
      BY <1>1, <2>2 DEF ChecksLive
    <3> QED BY <3>1, <3>2, <3>3, IdleTypes
  <2>3. CASE CallFails(c)
    BY <2>3, IdleTypes DEF CallFails
  <2> QED BY <2>1, <2>2, <2>3
<1>3. UNCHANGED <<rows, hooks, stripe, sessions, events, log, payments, entangled>>
  BY DEF ChecksTrial, ChecksLive, CallFails
<1>4. calls' \in [Calls -> CallRec] /\ calls'[c] = k /\ \A d \in Calls : d # c => calls'[d] = calls[d]
  BY <1>1, <1>2
<1>5. CallGood(c)'
  BY <1>2, <1>4 DEF CallGood
<1> QED BY <1>3, <1>4, <1>5, CallOnly

(* A call that reads a row remembers what the invariant says of the row.   *)
LEMMA CallReads ==
  ASSUME SyncInv, NEW c \in Calls, ReadsRow(c)
  PROVE  SyncInv'
<1>1. calls \in [Calls -> CallRec] /\ rows \in Seq(Row) /\ Len(rows) \in Nat /\ Len(rows) <= MaxRows
  BY TypeNames DEF SyncInv, TypeOK
<1>2. PICK op \in Ops, i \in Ids :
        /\ Selected(op) = {i}
        /\ calls' = [calls EXCEPT ![c] = [pc |-> "read", op |-> op, id |-> i,
                                          old |-> rows[i], new |-> Changed(op, rows[i])]]
  BY DEF ReadsRow
<1> DEFINE k == [pc |-> "read", op |-> op, id |-> i, old |-> rows[i], new |-> Changed(op, rows[i])]
<1>3. rows[i] \in Row /\ Changed(op, rows[i]) \in Row /\ i \in 0..MaxRows
  BY <1>1, ChangedRow, SubscriptionConstants DEF Ids
<1>4. k \in CallRec
  BY <1>3 DEF CallRec
<1>5. k.pc = "read" /\ k.op = op /\ k.id = i /\ k.old = rows[i] /\ k.new = Changed(op, rows[i])
  OBVIOUS
<1> HIDE DEF k
<1>6. calls' \in [Calls -> CallRec] /\ calls'[c] = k /\ \A d \in Calls : d # c => calls'[d] = calls[d]
  BY <1>1, <1>2, <1>4 DEF k
<1>7. UNCHANGED <<rows, hooks, stripe, sessions, events, log, payments, entangled>>
  BY DEF ReadsRow
<1>8. op = "reactivate" => rows[i].status \in {"active", "canceled"}
  BY <1>2 DEF Selected, WithStatus
<1>9. rows[i].sub # NoSub => Started(rows[i].sub)
  BY DEF SyncInv, LinkInv, EventInv, TypeOK, Numbers
<1>10. rows[i].sub \notin entangled \cup {NoSub} /\ rows[i].status = "canceled" => Gone(rows[i].sub)
  BY DEF SyncInv, CanceledRows
<1>11. CallGood(c)'
  BY <1>5, <1>6, <1>7, <1>8, <1>9, <1>10 DEF CallGood, Ids, Started, Gone
<1> QED BY <1>6, <1>7, <1>11, CallOnly

(* A row that has no Stripe subscription is written without asking Stripe. *)
LEMMA CallSkipsStripe ==
  ASSUME SyncInv, NEW c \in Calls, NeedsNoStripe(c)
  PROVE  SyncInv'
<1>1. calls \in [Calls -> CallRec]
  BY TypeNames DEF SyncInv
<1> DEFINE k == [calls[c] EXCEPT !.pc = "writing"]
<1>2. k \in CallRec /\ k.pc = "writing" /\ k.op = calls[c].op /\ k.id = calls[c].id
      /\ k.old = calls[c].old /\ k.new = calls[c].new
  BY <1>1 DEF CallRec
<1>3. calls' = [calls EXCEPT ![c] = k]
  BY DEF NeedsNoStripe
<1> HIDE DEF k
<1>4. calls' \in [Calls -> CallRec] /\ calls'[c] = k /\ \A d \in Calls : d # c => calls'[d] = calls[d]
  BY <1>1, <1>2, <1>3
<1>5. UNCHANGED <<rows, hooks, stripe, sessions, events, log, payments, entangled>>
  BY DEF NeedsNoStripe
<1>6. CallGood(c) /\ calls[c].pc = "read" /\ calls[c].old.sub = NoSub
  BY DEF SyncInv, NeedsNoStripe
<1>7. CallGood(c)'
  BY <1>2, <1>4, <1>5, <1>6 DEF CallGood, Ids
<1> QED BY <1>4, <1>5, <1>7, CallOnly

(* A new row has no Stripe subscription, and none of the others moves.     *)
LEMMA RowAdded ==
  ASSUME SyncInv, NEW c \in Calls, Inserts(c)
  PROVE  SyncInv'
<1>1. /\ calls \in [Calls -> CallRec] /\ hooks \in [Hooks -> HookRec]
      /\ rows \in Seq(Row) /\ Len(rows) \in Nat /\ \A i \in Ids : rows[i] \in Row
  BY TypeNames DEF SyncInv
<1>2. calls' = [calls EXCEPT ![c] = IdleCall] /\ rows' = Append(rows, NewRow) /\ Len(rows) < MaxRows
      /\ UNCHANGED <<hooks, stripe, events, log, payments, entangled>>
  BY DEF Inserts
<1> DEFINE n == Len(rows) + 1
<1>3. rows' \in Seq(Row) /\ Len(rows') = n /\ Len(rows') <= MaxRows /\ rows'[n] = NewRow
      /\ \A i \in Ids : rows'[i] = rows[i]
  BY <1>1, <1>2, IdleTypes, SubscriptionConstants DEF Ids
<1>4. Ids' = Ids \cup {n} /\ n \notin Ids /\ \A i \in Ids' : i # n => i \in Ids /\ rows'[i] = rows[i]
  BY <1>1, <1>3 DEF Ids
<1>5. rows'[n].sub = NoSub /\ rows'[n].status = "trialing"
  BY <1>3 DEF NewRow
<1>6. Len(rows') \in Nat /\ Len(rows) <= Len(rows')
  BY <1>1, <1>3
<1> HIDE DEF n
<1>7. TypeOK' /\ BookedOnce' /\ EventInv' /\ LinkInv'
  <2>1. TypeOK'
    <3>1. sessions' \in 0..MaxRows
      <4>1. sessions \in 0..MaxRows /\ MaxRows \in Nat
        BY SubscriptionConstants DEF SyncInv, TypeOK
      <4>2. sessions' = sessions \/ (sessions' = sessions + 1 /\ sessions < MaxRows)
        BY DEF Inserts
      <4> QED BY <4>1, <4>2
    <3>2. calls' \in [Calls -> CallRec]
      BY <1>1, <1>2, IdleTypes
    <3> QED BY <1>2, <1>3, <3>1, <3>2 DEF SyncInv, TypeOK, CallRec
  <2>2. BookedOnce'
    BY <1>2 DEF SyncInv, BookedOnce
  <2>3. EventInv'
    BY <1>2 DEF SyncInv, EventInv, Numbers, EventMeans, Started, Gone
  <2>4. LinkInv'
    <3>1. ASSUME NEW i \in Ids', rows'[i].sub # NoSub PROVE i \in Ids /\ rows'[i] = rows[i]
      BY <1>4, <1>5, <3>1
    <3>2. LinkInv
      BY DEF SyncInv
    <3>3. ASSUME NEW i \in Ids', rows'[i].sub # NoSub
          PROVE  \E m \in log' : events'[m].kind = "completed" /\ events'[m].sub = rows'[i].sub
      BY <1>2, <3>1, <3>2, <3>3 DEF LinkInv
    <3>4. ASSUME NEW i \in Ids', NEW j \in Ids', rows'[i].sub = rows'[j].sub, rows'[i].sub # NoSub
          PROVE  i = j
      BY <3>1, <3>2, <3>4 DEF LinkInv
    <3> QED BY <3>3, <3>4 DEF LinkInv
  <2> QED BY <2>1, <2>2, <2>3, <2>4
<1>8. ASSUME NEW s, s # NoSub PROVE CarriedBy(s)' = CarriedBy(s)
  BY <1>4, <1>5, <1>8 DEF CarriedBy
<1>9. ASSUME NEW d \in Calls PROVE CallGood(d)'
  <2>1. CASE d = c
    BY <1>1, <1>2, <2>1, IdleTypes DEF CallGood
  <2>2. CASE d # c
    <3>1. CallGood(d) /\ calls'[d] = calls[d]
      BY <1>1, <1>2, <2>2 DEF SyncInv
    <3>2. calls[d].id \in Ids => calls[d].id \in Ids' /\ rows'[calls[d].id] = rows[calls[d].id]
      BY <1>3, <1>4
    <3> QED BY <1>2, <3>1, <3>2 DEF CallGood, Started, Gone
  <2> QED BY <2>1, <2>2
<1>10. ASSUME NEW h \in Hooks PROVE HookGood(h)'
  <2>1. HookGood(h)
    BY DEF SyncInv
  <2> DEFINE k == hooks[h]
  <2> SUFFICES ASSUME k.pc # "idle" PROVE HookGood(h)'
    BY <1>2 DEF HookGood
  <2>2. k.event \in Numbers /\ k.id \in 0..Len(rows) /\ events[k.event].sub \in Subs
    BY <2>1, TypeNames DEF HookGood, SyncInv, Event
  <2>3. CarriedBy(events[k.event].sub)' = CarriedBy(events[k.event].sub)
    BY <1>2, <1>8, <2>2, SubscriptionConstants
  <2>4. k.id # 0 => k.id \in Ids /\ rows'[k.id] = rows[k.id]
    BY <1>1, <1>3, <2>2 DEF Ids
  <2>5. k.id \in 0..Len(rows')
    BY <1>1, <1>6, <2>2
  <2>6. events[k.event].sub # NoSub
    BY <2>2, SubscriptionConstants
  <2> HIDE DEF k
  <2> QED BY <1>2, <1>8, <2>1, <2>2, <2>3, <2>4, <2>5, <2>6 DEF HookGood, k, Numbers, Gone
<1>11. StoredInOrder' /\ CanceledRows'
  BY <1>2, <1>4, <1>5 DEF SyncInv, StoredInOrder, CanceledRows, Gone
<1>12. RowFollows'
  <2> SUFFICES ASSUME NEW i \in Ids', NEW m \in log', rows'[i].sub \notin entangled',
                      events'[m].sub = rows'[i].sub,
                      \A l \in log' : events'[l].sub = rows'[i].sub => l <= m
               PROVE  \/ Agrees(rows'[i].status, events'[m].status)
                      \/ rows'[i].status = "canceled" /\ Gone(rows[i].sub)'
    BY <1>4, <1>5 DEF RowFollows
  <2>1. m \in Numbers /\ events[m].sub \in Subs
    BY <1>2, TypeNames DEF SyncInv, TypeOK, Numbers, Event
  <2>2. i \in Ids /\ rows'[i] = rows[i]
    BY <1>2, <1>4, <1>5, <2>1, SubscriptionConstants
  <2> QED BY <1>2, <2>2 DEF SyncInv, RowFollows, Gone
<1>13. BookedWhenOrderly'
  <2> SUFFICES ASSUME NEW m \in log, events[m].kind = "paid", events[m].sub \notin entangled,
                      CarriedBy(events[m].sub)' # {}
               PROVE  payments[m] = 1
    BY <1>2 DEF BookedWhenOrderly
  <2>0. m \in Numbers
    BY DEF SyncInv, TypeOK, Numbers
  <2>1. events[m].sub # NoSub
    BY <2>0, TypeNames, SubscriptionConstants DEF SyncInv, Event
  <2>2. CarriedBy(events[m].sub) # {}
    BY <1>2, <1>8, <2>1
  <2> QED BY <2>2 DEF SyncInv, BookedWhenOrderly
<1> QED BY <1>7, <1>9, <1>10, <1>11, <1>12, <1>13 DEF SyncInv

(* A call that commits writes the status of a row only when it knows that  *)
(* the subscription is over, or read the row as that of another one.       *)
LEMMA ChangeCommitted ==
  ASSUME SyncInv, NEW c \in Calls, CommitsChange(c)
  PROVE  SyncInv'
<1> DEFINE k == calls[c]
           now == rows[k.id]
           r == Merge(now, k.old, k.new)
<1>1. k.pc = "writing" /\ rows' = [rows EXCEPT ![k.id] = r]
      /\ entangled' = (IF now.sub = k.old.sub THEN entangled ELSE entangled \cup {now.sub})
      /\ calls' = [calls EXCEPT ![c] = IdleCall] /\ UNCHANGED <<hooks, stripe, sessions, events, log, payments>>
  BY DEF CommitsChange
<1>2. /\ calls \in [Calls -> CallRec] /\ rows \in Seq(Row) /\ Len(rows) \in Nat
      /\ k \in CallRec /\ CallGood(c)
  BY TypeNames DEF SyncInv
<1>3. k.id \in Ids /\ k.op \in Ops /\ k.new = Changed(k.op, k.old) /\ k.old \in Row
  BY <1>1, <1>2 DEF CallGood, CallRec
<1>4. now \in Row /\ k.new \in Row /\ k.new.sub = k.old.sub
  BY <1>2, <1>3, ChangedRow DEF Ids
<1>5. /\ r \in Row /\ r.sub = now.sub
      /\ r.status = IF k.new.status = k.old.status THEN now.status ELSE k.new.status
  BY <1>3, <1>4, MergeRow
<1>6. now.sub # k.old.sub => now.sub \in Subs
  BY <1>1, <1>2, <1>4 DEF CallGood, Row
<1>7. k.old.sub \notin entangled \cup {NoSub} /\ k.new.status # k.old.status =>
        k.new.status = "canceled" /\ Gone(k.old.sub)
  BY <1>1, <1>2 DEF CallGood
<1> HIDE DEF r
<1>8. rows' \in Seq(Row) /\ Len(rows') = Len(rows) /\ rows'[k.id] = r
      /\ \A i \in Ids : i # k.id => rows'[i] = rows[i]
  BY <1>1, <1>2, <1>3, <1>5, WriteRow DEF Ids
<1>9. \A i \in Ids : rows'[i].sub = rows[i].sub
  BY <1>5, <1>8
<1>10. \A i \in Ids : rows[i].sub \notin entangled' \cup {NoSub} =>
         \/ rows'[i].status = rows[i].status
         \/ rows'[i].status = "canceled" /\ Gone(rows[i].sub)
  BY <1>1, <1>5, <1>7, <1>8
<1>11. TypeOK'
  <2>1. calls' \in [Calls -> CallRec]
    BY <1>1, <1>2, IdleTypes
  <2>2. entangled' \subseteq Subs
    BY <1>1, <1>6 DEF SyncInv, TypeOK
  <2> QED BY <1>1, <1>8, <2>1, <2>2 DEF SyncInv, TypeOK, CallRec
<1>12. \A d \in Calls : calls'[d] # calls[d] => CallGood(d)'
  BY <1>1, <1>2, IdleTypes DEF CallGood
<1>13. entangled \subseteq entangled'
  BY <1>1
<1> QED BY <1>1, <1>8, <1>9, <1>10, <1>11, <1>12, <1>13, RowsKeep

(***************************************************************************)
(* The steps of a webhook.                                                 *)
(***************************************************************************)
(* A step that changes one webhook request only needs that request to      *)
(* remember well.                                                          *)
LEMMA HookOnly ==
  ASSUME SyncInv, NEW h \in Hooks,
         UNCHANGED <<rows, calls, stripe, sessions, events, log, payments>>,
         hooks' \in [Hooks -> HookRec],
         \A g \in Hooks : g # h => hooks'[g] = hooks[g],
         entangled \subseteq entangled', entangled' \subseteq Subs,
         HookGood(h)'
  PROVE  SyncInv'
<1>1. TypeOK'
  BY DEF SyncInv, TypeOK, HookRec
<1> QED BY <1>1, RowsKeep

(* A request that fails is forgotten.                                      *)
LEMMA HookForgets ==
  ASSUME SyncInv, NEW h \in Hooks, HookFails(h)
  PROVE  SyncInv'
<1>1. hooks \in [Hooks -> HookRec] /\ entangled \subseteq Subs
  BY TypeNames DEF SyncInv, TypeOK
<1>2. hooks' = [hooks EXCEPT ![h] = IdleHook]
      /\ UNCHANGED <<rows, calls, stripe, sessions, events, log, payments, entangled>>
  BY DEF HookFails
<1>3. hooks' \in [Hooks -> HookRec] /\ hooks'[h] = IdleHook
      /\ \A g \in Hooks : g # h => hooks'[g] = hooks[g]
  BY <1>1, <1>2, IdleTypes
<1>4. HookGood(h)'
  BY <1>3, IdleTypes DEF HookGood
<1> QED BY <1>1, <1>2, <1>3, <1>4, HookOnly

(* What the handler of event n selects, and the request remembers.         *)
LEMMA HookFound ==
  ASSUME SyncInv, NEW n \in Numbers, n \notin log, NEW k \in HookOf(n)
  PROVE  /\ k \in HookRec /\ k.pc # "idle" /\ k.event = n /\ k.id \in 0..Len(rows)
         /\ k.id # 0 =>
              /\ k.old = rows[k.id] /\ k.new = Applied(events[n], rows[k.id])
              /\ events[n].kind = "completed" => rows[k.id].status = "trialing" /\ rows[k.id].sub # events[n].sub
              /\ events[n].kind # "completed" => rows[k.id].sub = events[n].sub
         /\ events[n].kind # "completed" => CarriedBy(events[n].sub) \subseteq {k.id}
<1> DEFINE e == events[n]
           found == Matched(e)
<1>1. /\ rows \in Seq(Row) /\ Len(rows) \in Nat /\ Len(rows) <= MaxRows /\ \A i \in Ids : rows[i] \in Row
      /\ e \in Event /\ EventMeans(e) /\ n \in 0..MaxEvents /\ e.sub \in Subs
  BY TypeNames DEF SyncInv, TypeOK, EventInv, Event
<1>2. found \subseteq Ids
  BY DEF Matched, WithStatus, CarriedBy
<1>3. e.kind # "completed" => found = CarriedBy(e.sub) /\ \A i, j \in found : i = j
  BY <1>1, SubscriptionConstants DEF SyncInv, LinkInv, Matched, CarriedBy
<1>4. CASE Cardinality(found) # 1
  <2> DEFINE pc == IF found = {} THEN "applied" ELSE "raised"
  <2>1. k = [IdleHook EXCEPT !.pc = pc, !.event = n]
    BY <1>4 DEF HookOf
  <2>2. pc \in {"applied", "raised"}
    OBVIOUS
  <2> HIDE DEF pc
  <2>3. k \in HookRec /\ k.pc = pc /\ k.event = n /\ k.id = 0
    BY <1>1, <2>1, <2>2, IdleTypes DEF IdleHook, HookRec
  <2>4. e.kind # "completed" => found = {}
    <3> SUFFICES ASSUME e.kind # "completed", NEW i \in found PROVE FALSE
      OBVIOUS
    <3>1. found = {i}
      BY <1>3
    <3> QED BY <1>4, <3>1, FS_Singleton
  <2> QED BY <1>1, <1>3, <2>2, <2>3, <2>4
<1>5. CASE Cardinality(found) = 1
  <2>1. PICK i \in found : k = [pc |-> "applied", event |-> n, id |-> i, old |-> rows[i],
                                new |-> Applied(e, rows[i])]
    BY <1>5 DEF HookOf
  <2>2. i \in Ids /\ i \in 1..Len(rows) /\ i \in 0..MaxRows /\ rows[i] \in Row
    BY <1>1, <1>2, SubscriptionConstants DEF Ids
  <2>3. Applied(e, rows[i]) \in Row
    BY <1>1, <2>2, AppliedRow
  <2>4. k \in HookRec /\ k.pc = "applied" /\ k.event = n /\ k.id = i /\ k.old = rows[i]
        /\ k.new = Applied(e, rows[i])
    BY <1>1, <2>1, <2>2, <2>3 DEF HookRec
  <2>5. e.kind = "completed" => rows[i].status = "trialing" /\ rows[i].sub # e.sub
    <3>1. e.kind = "completed" => CarriedBy(e.sub) = {}
      BY NotLinkedYet DEF SyncInv
    <3> QED BY <2>2, <3>1 DEF Matched, WithStatus, CarriedBy
  <2>6. e.kind # "completed" => rows[i].sub = e.sub /\ CarriedBy(e.sub) \subseteq {i}
    BY <1>3 DEF CarriedBy
  <2> QED BY <1>1, <2>2, <2>4, <2>5, <2>6
<1>6. Cardinality(found) = 1 \/ Cardinality(found) # 1
  OBVIOUS
<1> QED BY <1>4, <1>5, <1>6

(* A request that reads before an earlier event of its subscription is     *)
(* stored entangles it; the others find the row as the invariant says.     *)
LEMMA HookBegins ==
  ASSUME SyncInv, NEW h \in Hooks, NEW n \in 1..MaxEvents, HookReads(h, n)
  PROVE  SyncInv'
<1> DEFINE e == events[n]
<1>1. hooks \in [Hooks -> HookRec] /\ entangled \subseteq Subs
  BY TypeNames DEF SyncInv, TypeOK
<1>2. n \in Numbers /\ n \notin log /\ UNCHANGED <<rows, calls, stripe, sessions, events, log, payments>>
  BY DEF HookReads, Numbers
<1>3. PICK k \in HookOf(n) : hooks' = [hooks EXCEPT ![h] = k]
  BY DEF HookReads
<1>4. e.sub \in Subs /\ e.sub # NoSub
  BY <1>2, TypeNames, SubscriptionConstants DEF SyncInv, Event
<1>5. entangled \subseteq entangled' /\ entangled' \subseteq Subs
      /\ (e.sub \notin entangled' => \A m \in 1..(n - 1) : events[m].sub = e.sub => m \in log)
  BY <1>1, <1>4 DEF HookReads
<1>6. hooks' \in [Hooks -> HookRec] /\ hooks'[h] = k /\ \A g \in Hooks : g # h => hooks'[g] = hooks[g]
  BY <1>1, <1>2, <1>3, HookFound
<1>7. CarriedBy(e.sub)' = CarriedBy(e.sub)
  BY <1>2 DEF CarriedBy, Ids
<1>8. e' = e /\ events'[n] = e /\ Gone(e.sub)' = Gone(e.sub)
  BY <1>2 DEF Gone
<1>9. /\ k.pc # "idle" /\ k.event = n /\ k.id \in 0..Len(rows)
      /\ k.id # 0 =>
           /\ k.old = rows[k.id] /\ k.new = Applied(e, rows[k.id])
           /\ e.kind = "completed" => rows[k.id].status = "trialing" /\ rows[k.id].sub # e.sub
           /\ e.kind # "completed" => rows[k.id].sub = e.sub
      /\ e.kind # "completed" => CarriedBy(e.sub) \subseteq {k.id}
  <2>1. SyncInv /\ n \in Numbers /\ n \notin log /\ k \in HookOf(n)
    BY <1>2
  <2> QED BY ONLY <2>1, HookFound
<1> HIDE DEF e
<1>10. HookGood(h)'
  BY <1>2, <1>4, <1>5, <1>6, <1>7, <1>8, <1>9 DEF HookGood, Numbers
<1> QED BY <1>2, <1>5, <1>6, <1>10, HookOnly

(***************************************************************************)
(* The steps of Stripe, and of a call that asks it.                        *)
(***************************************************************************)
(* Stripe changes one subscription and raises events that report it, the   *)
(* first of them, when it starts, the completed checkout.                  *)
LEMMA StripeRaises ==
  ASSUME SyncInv, NEW s \in Subs, NEW at \in StripeSub,
         UNCHANGED <<rows, hooks, log, payments, entangled>>,
         stripe' = [stripe EXCEPT ![s] = at], at.status # "none",
         Gone(s) => at.status = "canceled",
         sessions' \in 0..MaxRows, calls' \in [Calls -> CallRec],
         \A c \in Calls : calls'[c] # calls[c] => CallGood(c)',
         events' \in Seq(Event), Len(events') <= MaxEvents, Len(events) < Len(events'),
         \A n \in Numbers : events'[n] = events[n],
         \A n \in Numbers' : n > Len(events) =>
           /\ events'[n].sub = s /\ events'[n].status = at.status /\ EventMeans(events'[n])
           /\ events'[n].kind = "completed" <=> ~Started(s) /\ n = Len(events) + 1
  PROVE  SyncInv'
<1> DEFINE last == Len(events')
<1>1. Len(events) \in Nat /\ last \in Nat /\ Numbers \subseteq Numbers' /\ log \subseteq Numbers
      /\ last \in Numbers' /\ last > Len(events) /\ Len(events) + 1 \in Numbers'
  BY DEF SyncInv, TypeOK, Numbers
<1>2. \A n \in Numbers' : n \in Numbers \/ n > Len(events)
  BY <1>1 DEF Numbers
<1>3. \A n \in Numbers : n \in Nat /\ n >= 1 /\ n <= Len(events)
  BY <1>1 DEF Numbers
<1>4. \A n \in Numbers' : n \in Nat /\ n >= 1 /\ n <= last
  BY <1>1 DEF Numbers
<1>5. stripe \in [Subs -> StripeSub] /\ stripe' \in [Subs -> StripeSub] /\ stripe'[s] = at
      /\ \A x \in Subs : x # s => stripe'[x] = stripe[x]
  BY DEF SyncInv, TypeOK
<1>6. \A x \in Subs : (Gone(x) => stripe'[x].status = "canceled") /\ (Started(x) => stripe'[x].status # "none")
  BY <1>5 DEF Gone, Started
<1>7. \A n \in Numbers : events[n].sub \in Subs
  BY TypeNames DEF SyncInv, Event
<1> HIDE DEF last
<1>8. TypeOK' /\ BookedOnce'
  <2>1. log \subseteq 1..Len(events')
    BY <1>1 DEF Numbers
  <2>2. TypeOK'
    BY <1>5, <2>1 DEF SyncInv, TypeOK, CallRec
  <2>3. BookedOnce'
    BY DEF SyncInv, BookedOnce
  <2> QED BY <2>2, <2>3
<1>9. EventInv'
  <2> USE DEF SyncInv
  <2>1. ASSUME NEW n \in Numbers'
        PROVE  /\ EventMeans(events'[n]) /\ stripe'[events'[n].sub].status # "none"
               /\ events'[n].status = "canceled" => stripe'[events'[n].sub].status = "canceled"
    <3>1. CASE n \in Numbers
      <4>1. EventMeans(events[n]) /\ Started(events[n].sub) /\ events'[n] = events[n]
            /\ events[n].sub \in Subs
            /\ (events[n].status = "canceled" => Gone(events[n].sub))
        BY <1>7, <3>1 DEF EventInv
      <4> QED BY <1>6, <4>1
    <3>2. CASE n > Len(events)
      BY <1>5, <2>1, <3>2
    <3> QED BY <1>2, <3>1, <3>2
  <2>2. ASSUME NEW n \in Numbers'
        PROVE  \E m \in 1..n : events'[m].sub = events'[n].sub /\ events'[m].kind = "completed"
    <3>1. CASE n \in Numbers
      <4>1. PICK m \in 1..n : events[m].sub = events[n].sub /\ events[m].kind = "completed"
        BY <3>1 DEF EventInv
      <4>2. m \in Numbers
        BY <1>1, <1>3, <3>1 DEF Numbers
      <4> QED BY <3>1, <4>1, <4>2
    <3>2. CASE n > Len(events) /\ ~Started(s)
      <4>1. Len(events) + 1 \in 1..n
        BY <1>1, <1>4, <3>2
      <4>2. Len(events) + 1 > Len(events)
        BY <1>1
      <4> QED BY <1>1, <3>2, <4>1, <4>2
    <3>3. CASE n > Len(events) /\ Started(s)
      <4>1. PICK l \in Numbers : events[l].sub = s
        BY <3>3 DEF EventInv
      <4>2. PICK m \in 1..l : events[m].sub = events[l].sub /\ events[m].kind = "completed"
        BY <4>1 DEF EventInv
      <4>3. m \in Numbers /\ m \in 1..n
        BY <1>1, <1>3, <1>4, <3>3, <4>1 DEF Numbers
      <4> QED BY <3>3, <4>1, <4>2, <4>3
    <3> QED BY <1>2, <3>1, <3>2, <3>3
  <2>3. ASSUME NEW n \in Numbers', NEW m \in Numbers',
               events'[n].kind = "completed", events'[m].sub = events'[n].sub
        PROVE  n <= m
    <3>1. CASE n \in Numbers /\ m \in Numbers
      BY <2>3, <3>1 DEF EventInv
    <3>2. CASE n \in Numbers /\ m > Len(events)
      BY <1>1, <1>3, <1>4, <3>2
    <3>3. CASE n > Len(events) /\ m \in Numbers
      <4>1. ~Started(s) /\ events[m].sub = s
        BY <2>3, <3>3
      <4> QED BY <3>3, <4>1 DEF EventInv
    <3>4. CASE n > Len(events) /\ m > Len(events)
      BY <1>1, <1>4, <2>3, <3>4
    <3> QED BY <1>2, <3>1, <3>2, <3>3, <3>4
  <2>4. ASSUME NEW x \in Subs, stripe'[x].status # "none"
        PROVE  \E n \in Numbers' : /\ events'[n].sub = x /\ events'[n].status = stripe'[x].status
                                   /\ \A m \in Numbers' : events'[m].sub = x => m <= n
    <3>1. CASE x = s
      BY <1>1, <1>4, <1>5, <3>1
    <3>2. CASE x # s
      <4>1. Started(x) /\ stripe'[x] = stripe[x]
        BY <1>5, <2>4, <3>2 DEF Started
      <4>2. PICK n \in Numbers : /\ events[n].sub = x /\ events[n].status = stripe[x].status
                                 /\ \A m \in Numbers : events[m].sub = x => m <= n
        BY <4>1 DEF EventInv
      <4>3. \A m \in Numbers' : events'[m].sub = x => m <= n
        BY <1>2, <3>2, <4>2
      <4> QED BY <1>1, <4>1, <4>2, <4>3
    <3> QED BY <3>1, <3>2
  <2>5. \A x \in Subs : stripe'[x].cancelEnd => stripe'[x].status # "none"
    BY <1>5 DEF EventInv, Started
  <2> QED BY <2>1, <2>2, <2>3, <2>4, <2>5 DEF EventInv, Started, Gone
<1>10. LinkInv'
  <2>1. LinkInv /\ Ids' = Ids /\ rows' = rows /\ log' = log /\ \A m \in log : events'[m] = events[m]
    BY <1>1 DEF SyncInv, Ids
  <2> QED BY ONLY <2>1 DEF LinkInv
<1>11. ASSUME NEW c \in Calls PROVE CallGood(c)'
  <2> SUFFICES ASSUME calls'[c] = calls[c] PROVE CallGood(c)'
    OBVIOUS
  <2>1. CallGood(c) /\ calls[c].old.sub \in Subs \cup {NoSub}
    BY TypeNames DEF SyncInv, CallRec, Row
  <2> DEFINE x == calls[c].old.sub
  <2>2. x # NoSub => (Gone(x) => stripe'[x].status = "canceled") /\ (Started(x) => stripe'[x].status # "none")
    BY <1>6, <2>1
  <2> QED BY <2>1, <2>2 DEF CallGood, Started, Gone, Ids
<1>12. ASSUME NEW h \in Hooks PROVE HookGood(h)'
  <2> SUFFICES ASSUME hooks[h].pc # "idle" PROVE HookGood(h)'
    BY DEF HookGood
  <2> DEFINE k == hooks[h]
             e == events[k.event]
  <2>1. HookGood(h)
    BY DEF SyncInv
  <2>2. k.event \in Numbers /\ k.event \in Numbers' /\ events'[k.event] = e /\ e' = e /\ e.sub \in Subs
    BY <1>1, <1>7, <2>1 DEF HookGood
  <2>3. \A m \in 1..(k.event - 1) : events'[m] = events[m]
    <3>1. \A m \in 1..(k.event - 1) : m \in Numbers
      BY <1>1, <1>3, <2>2 DEF Numbers
    <3> QED BY <3>1
  <2>4. CarriedBy(e.sub)' = CarriedBy(e.sub)
    BY <2>2 DEF CarriedBy, Ids
  <2>5. Gone(e.sub) => Gone(e.sub)'
    BY <1>6, <2>2 DEF Gone
  <2>6. hooks'[h] = k
    OBVIOUS
  <2> HIDE DEF k, e
  <2>7. /\ k.id \in 0..Len(rows)
        /\ k.id # 0 =>
             /\ k.new = Applied(e, k.old)
             /\ e.kind = "completed" => k.old.status = "trialing" /\ k.old.sub # e.sub
             /\ e.kind # "completed" => k.old.sub = e.sub /\ rows[k.id].sub # NoSub
        /\ e.sub \notin entangled =>
             /\ \A m \in 1..(k.event - 1) : events[m].sub = e.sub => m \in log
             /\ e.kind # "completed" => CarriedBy(e.sub) \subseteq {k.id}
             /\ (e.kind # "completed" /\ k.event \notin log /\ k.id # 0 /\ rows[k.id].sub = e.sub) =>
                  \/ rows[k.id].status = k.old.status
                  \/ rows[k.id].status = "canceled" /\ Gone(e.sub)
    BY <2>1 DEF HookGood, k, e
  <2> QED BY <2>2, <2>3, <2>4, <2>5, <2>6, <2>7 DEF HookGood
<1>13. StoredInOrder'
  <2>1. \A n \in log : \A m \in 1..n : m \in Numbers
    BY <1>1, <1>3 DEF Numbers
  <2> QED BY <1>1, <2>1 DEF SyncInv, StoredInOrder
<1>14. CanceledRows'
  <2>1. \A i \in Ids : rows[i].sub \in Subs \cup {NoSub}
    BY TypeNames DEF SyncInv, Row
  <2> QED BY <1>6, <2>1 DEF SyncInv, CanceledRows, Gone, Ids
<1>15. RowFollows'
  <2> SUFFICES ASSUME NEW i \in Ids, NEW n \in log, rows[i].sub \notin entangled, events'[n].sub = rows[i].sub,
                      \A m \in log : events'[m].sub = rows[i].sub => m <= n
               PROVE  \/ Agrees(rows[i].status, events'[n].status)
                      \/ rows[i].status = "canceled" /\ stripe'[rows[i].sub].status = "canceled"
    BY DEF RowFollows, Ids, Gone
  <2>1. \A m \in log : events'[m] = events[m]
    BY <1>1
  <2>2. rows[i].sub \in Subs
    BY <1>1, <1>7, <2>1
  <2> QED BY <1>6, <2>1, <2>2 DEF SyncInv, RowFollows
<1>16. BookedWhenOrderly'
  <2> SUFFICES ASSUME NEW n \in log, events'[n].kind = "paid", events'[n].sub \notin entangled,
                      CarriedBy(events[n].sub)' # {}
               PROVE  payments[n] = 1
    BY <1>1 DEF BookedWhenOrderly
  <2>1. events'[n] = events[n]
    BY <1>1
  <2>2. CarriedBy(events[n].sub)' = CarriedBy(events[n].sub)
    BY <2>1 DEF CarriedBy, Ids
  <2> QED BY <2>1, <2>2 DEF SyncInv, BookedWhenOrderly
<1> QED BY <1>8, <1>9, <1>10, <1>11, <1>12, <1>13, <1>14, <1>15, <1>16 DEF SyncInv

(* An event reports the subscription as it is.                             *)
LEMMA RaisedEvent ==
  ASSUME NEW kind \in Kinds, NEW s \in Subs, NEW at \in StripeSub, at.status # "none"
  PROVE  /\ Raised(kind, s, at) \in Event /\ Raised(kind, s, at).kind = kind
         /\ Raised(kind, s, at).sub = s /\ Raised(kind, s, at).status = at.status
BY DEF Raised, Event, StripeSub

(* The list of events with one or two more.                                *)
LEMMA OneMore ==
  ASSUME NEW t \in Seq(Event), NEW a \in Event
  PROVE  /\ Append(t, a) \in Seq(Event) /\ Len(Append(t, a)) = Len(t) + 1
         /\ \A n \in 1..Len(t) : Append(t, a)[n] = t[n]
         /\ Append(t, a)[Len(t) + 1] = a
         /\ t \o <<>> \o <<a>> = Append(t, a)
OBVIOUS

LEMMA TwoMore ==
  ASSUME NEW t \in Seq(Event), NEW a \in Event, NEW b \in Event
  PROVE  /\ t \o <<a, b>> \in Seq(Event) /\ Len(t \o <<a, b>>) = Len(t) + 2
         /\ \A n \in 1..Len(t) : (t \o <<a, b>>)[n] = t[n]
         /\ (t \o <<a, b>>)[Len(t) + 1] = a /\ (t \o <<a, b>>)[Len(t) + 2] = b
         /\ t \o <<a>> \o <<b>> = t \o <<a, b>>
<1>1. t \o <<a, b>> \in Seq(Event) /\ Len(t \o <<a, b>>) = Len(t) + 2
  OBVIOUS
<1>2. \A n \in 1..Len(t) : (t \o <<a, b>>)[n] = t[n]
  OBVIOUS
<1>3. (t \o <<a, b>>)[Len(t) + 1] = a /\ (t \o <<a, b>>)[Len(t) + 2] = b
  OBVIOUS
<1>4. t \o <<a>> \o <<b>> = t \o <<a, b>>
  <2>1. t \o <<a>> = Append(t, a) /\ Append(t, a) \in Seq(Event)
    OBVIOUS
  <2>2. ASSUME NEW u \in Seq(Event) PROVE u \o <<b>> = Append(u, b)
    OBVIOUS
  <2>3. t \o <<a, b>> = Append(Append(t, a), b)
    OBVIOUS
  <2> QED BY <2>1, <2>2, <2>3
<1> QED BY <1>1, <1>2, <1>3, <1>4

(* A change at Stripe that raises one event, or an invoice and one.        *)
LEMMA StripeReports ==
  ASSUME SyncInv, NEW s \in Subs, NEW at \in StripeSub,
         UNCHANGED <<rows, hooks, log, payments, entangled>>,
         stripe' = [stripe EXCEPT ![s] = at], at.status # "none",
         Gone(s) => at.status = "canceled",
         sessions' \in 0..MaxRows, calls' \in [Calls -> CallRec],
         \A c \in Calls : calls'[c] # calls[c] => CallGood(c)',
         NEW a \in Event, NEW b \in Event, EventMeans(a), EventMeans(b),
         a.sub = s, b.sub = s, a.status = at.status, b.status = at.status,
         a.kind = "completed" <=> ~Started(s), b.kind # "completed",
         \/ events' = Append(events, a) /\ Room(1)
         \/ events' = events \o <<a, b>> /\ Room(2)
  PROVE  SyncInv'
<1>1. events \in Seq(Event) /\ Len(events) \in Nat
  BY TypeNames DEF SyncInv
<1>2. CASE events' = Append(events, a) /\ Room(1)
  <2>1. events' \in Seq(Event) /\ Len(events') = Len(events) + 1 /\ events'[Len(events) + 1] = a
        /\ \A n \in Numbers : events'[n] = events[n]
    BY <1>1, <1>2, OneMore DEF Numbers
  <2>2. Len(events') <= MaxEvents /\ Len(events) < Len(events')
    BY <1>1, <1>2, <2>1 DEF Room
  <2>3. \A n \in Numbers' : n > Len(events) => n = Len(events) + 1
    BY <1>1, <2>1 DEF Numbers
  <2>4. \A n \in Numbers' : n > Len(events) =>
          /\ events'[n].sub = s /\ events'[n].status = at.status /\ EventMeans(events'[n])
          /\ events'[n].kind = "completed" <=> ~Started(s) /\ n = Len(events) + 1
    BY <2>1, <2>3
  <2> QED BY <2>1, <2>2, <2>4, StripeRaises
<1>3. CASE events' = events \o <<a, b>> /\ Room(2)
  <2>1. events' \in Seq(Event) /\ Len(events') = Len(events) + 2
        /\ events'[Len(events) + 1] = a /\ events'[Len(events) + 2] = b
        /\ \A n \in Numbers : events'[n] = events[n]
    BY <1>1, <1>3, TwoMore DEF Numbers
  <2>2. Len(events') <= MaxEvents /\ Len(events) < Len(events') /\ Len(events) + 1 # Len(events) + 2
    BY <1>1, <1>3, <2>1 DEF Room
  <2>3. \A n \in Numbers' : n > Len(events) => n = Len(events) + 1 \/ n = Len(events) + 2
    BY <1>1, <2>1 DEF Numbers
  <2>4. \A n \in Numbers' : n > Len(events) =>
          /\ events'[n].sub = s /\ events'[n].status = at.status /\ EventMeans(events'[n])
          /\ events'[n].kind = "completed" <=> ~Started(s) /\ n = Len(events) + 1
    BY <2>1, <2>2, <2>3
  <2> QED BY <2>1, <2>2, <2>4, StripeRaises
<1> QED BY <1>2, <1>3

(* A subscription starts, is billed or ends.                               *)
LEMMA StripeActs ==
  ASSUME SyncInv, NEW s \in Subs, StripeStep(s)
  PROVE  SyncInv'
<1>1. /\ calls \in [Calls -> CallRec] /\ stripe[s] \in StripeSub /\ sessions \in 0..MaxRows
      /\ events \in Seq(Event) /\ MaxRows \in Nat
  BY TypeNames, SubscriptionConstants DEF SyncInv, TypeOK
<1>2. CASE PaysCheckout(s)
  <2> DEFINE at == [status |-> "trialing", cancelEnd |-> FALSE]
             a == Raised("completed", s, at)
             b == Raised("paid", s, at)
  <2>1. at \in StripeSub /\ at.status = "trialing"
    BY DEF StripeSub, Statuses, LiveStatus
  <2>2. /\ UNCHANGED <<rows, calls, hooks, log, payments, entangled>> /\ stripe' = [stripe EXCEPT ![s] = at]
        /\ events' = events \o <<a, b>> /\ Room(2) /\ ~Started(s) /\ sessions > 0 /\ sessions' = sessions - 1
    BY <1>2 DEF PaysCheckout, Started
  <2> HIDE DEF at
  <2>3. /\ a \in Event /\ a.kind = "completed" /\ a.sub = s /\ a.status = at.status
        /\ b \in Event /\ b.kind = "paid" /\ b.sub = s /\ b.status = at.status
    BY <2>1, RaisedEvent DEF Kinds
  <2> HIDE DEF a, b
  <2>4. EventMeans(a) /\ EventMeans(b) /\ b.kind # "completed"
    BY <2>1, <2>3 DEF EventMeans, LiveStatus
  <2>5. sessions' \in 0..MaxRows
    BY <1>1, <2>2
  <2>6. Gone(s) => at.status = "canceled"
    BY <2>2 DEF Gone, Started
  <2> QED BY <1>1, <2>1, <2>2, <2>3, <2>4, <2>5, <2>6, StripeReports
<1>3. CASE Bills(s)
  <2>1. PICK st \in Outcomes :
          LET at == [stripe[s] EXCEPT !.status = st]
              bill == CASE st = "active" -> <<Raised("paid", s, at)>>
                        [] st = "past_due" -> <<Raised("failed", s, at)>>
                        [] OTHER -> <<>>
          IN /\ stripe[s].status \notin {"none", "canceled"}
             /\ Room(Len(bill) + 1)
             /\ stripe' = [stripe EXCEPT ![s] = at]
             /\ events' = events \o bill \o <<Raised("updated", s, at)>>
             /\ UNCHANGED <<rows, calls, hooks, sessions, log, payments, entangled>>
    BY <1>3 DEF Bills
  <2> DEFINE at == [stripe[s] EXCEPT !.status = st]
             b == Raised("updated", s, at)
  <2>2. /\ st \in {"active", "past_due", "unpaid", "paused"} /\ Started(s) /\ ~Gone(s)
        /\ stripe' = [stripe EXCEPT ![s] = at]
        /\ UNCHANGED <<rows, calls, hooks, sessions, log, payments, entangled>>
    BY <2>1, SubscriptionConstants DEF Started, Gone
  <2>3. at \in StripeSub /\ at.status = st
    BY <1>1, <2>2 DEF StripeSub, Statuses, LiveStatus
  <2> HIDE DEF at
  <2>4. b \in Event /\ b.kind = "updated" /\ b.sub = s /\ b.status = st
    BY <2>2, <2>3, RaisedEvent DEF Kinds
  <2>5. EventMeans(b)
    BY <2>4 DEF EventMeans
  <2>6. CASE st = "active" \/ st = "past_due"
    <3> DEFINE a == Raised(IF st = "active" THEN "paid" ELSE "failed", s, at)
    <3>1. a \in Event /\ a.sub = s /\ a.status = st
          /\ (IF st = "active" THEN a.kind = "paid" ELSE a.kind = "failed")
      BY <2>2, <2>3, RaisedEvent DEF Kinds
    <3>2. EventMeans(a) /\ a.kind # "completed"
      BY <2>6, <3>1 DEF EventMeans, LiveStatus
    <3>3. Room(Len(<<a>>) + 1) /\ events' = events \o <<a>> \o <<b>>
      BY <2>1, <2>6 DEF at
    <3> HIDE DEF a, b
    <3>4. Room(2) /\ events' = events \o <<a, b>>
      <4>1. Len(<<a>>) + 1 = 2
        OBVIOUS
      <4>2. events \o <<a>> \o <<b>> = events \o <<a, b>>
        <5>1. events \in Seq(Event) /\ a \in Event /\ b \in Event
          BY <1>1, <2>4, <3>1
        <5> QED BY ONLY <5>1, TwoMore
      <4> QED BY <3>3, <4>1, <4>2
    <3> QED BY <1>1, <2>2, <2>3, <2>4, <2>5, <3>1, <3>2, <3>4, StripeReports
  <2>7. CASE st # "active" /\ st # "past_due"
    <3>1. Room(Len(<<>>) + 1) /\ events' = events \o <<>> \o <<b>>
      BY <2>1, <2>7 DEF at
    <3> HIDE DEF b
    <3>2. Room(1) /\ events' = Append(events, b)
      <4>1. Len(<<>>) + 1 = 1
        OBVIOUS
      <4> QED BY <1>1, <2>4, <3>1, <4>1, OneMore
    <3> QED BY <1>1, <2>2, <2>3, <2>4, <2>5, <3>2, StripeReports
  <2> QED BY <2>6, <2>7
<1>4. CASE EndsSubscription(s)
  <2> DEFINE at == [stripe[s] EXCEPT !.status = "canceled"]
             a == Raised("deleted", s, at)
  <2>1. at \in StripeSub /\ at.status = "canceled"
    BY <1>1 DEF StripeSub, Statuses
  <2>2. /\ UNCHANGED <<rows, calls, hooks, sessions, log, payments, entangled>>
        /\ stripe' = [stripe EXCEPT ![s] = at] /\ events' = Append(events, a) /\ Room(1)
    BY <1>4 DEF EndsSubscription
  <2>3. Started(s)
    BY <1>4 DEF EndsSubscription, SyncInv, EventInv, Started
  <2> HIDE DEF at
  <2>4. a \in Event /\ a.kind = "deleted" /\ a.sub = s /\ a.status = "canceled"
    BY <2>1, RaisedEvent DEF Kinds
  <2>5. EventMeans(a)
    BY <2>4 DEF EventMeans
  <2> HIDE DEF a
  <2> QED BY <1>1, <2>1, <2>2, <2>3, <2>4, <2>5, StripeReports
<1> QED BY <1>2, <1>3, <1>4 DEF StripeStep

(* A call that asks Stripe knows, when it has cancelled a subscription,    *)
(* that it is over; one that is over refuses to be reactivated.            *)
LEMMA CallAsks ==
  ASSUME SyncInv, NEW c \in Calls, AsksStripe(c)
  PROVE  SyncInv'
<1> DEFINE k == calls[c]
           s == k.old.sub
           at == AtStripe(k.op, s)
           kind == IF at.status = "canceled" THEN "deleted" ELSE "updated"
           a == Raised(kind, s, at)
           w == [k EXCEPT !.pc = "writing"]
<1>1. /\ calls \in [Calls -> CallRec] /\ k \in CallRec /\ k.old \in Row /\ sessions \in 0..MaxRows
      /\ stripe \in [Subs -> StripeSub]
  BY TypeNames DEF SyncInv, TypeOK, CallRec
<1>2. /\ k.pc = "read" /\ s # NoSub /\ stripe[s].status # "canceled" /\ Room(1)
      /\ stripe' = [stripe EXCEPT ![s] = at] /\ events' = Append(events, a)
      /\ calls' = [calls EXCEPT ![c] = w]
      /\ UNCHANGED <<rows, hooks, sessions, log, payments, entangled>>
  BY DEF AsksStripe
<1>3. CallGood(c) /\ k.op \in Ops /\ k.new = Changed(k.op, k.old) /\ s \in Subs /\ Started(s)
  BY <1>1, <1>2 DEF SyncInv, CallGood, Row
<1>4. at \in StripeSub /\ at.status = (IF k.op = "cancelNow" THEN "canceled" ELSE stripe[s].status)
  <2>1. stripe[s] \in StripeSub
    BY <1>1, <1>3
  <2> HIDE DEF s
  <2> QED BY <1>3, <2>1 DEF AtStripe, Ops, StripeSub, Statuses
<1>5. at.status # "none"
  BY <1>3, <1>4 DEF Started
<1>6. w \in CallRec /\ w.pc = "writing" /\ w.op = k.op /\ w.id = k.id /\ w.old = k.old /\ w.new = k.new
  BY <1>1 DEF CallRec
<1> HIDE DEF at, w
<1>7. kind \in Kinds /\ kind # "completed"
  BY DEF Kinds
<1>8. kind = "deleted" <=> at.status = "canceled"
  OBVIOUS
<1>9. kind \in {"deleted", "updated"}
  OBVIOUS
<1> HIDE DEF kind
<1>10. a \in Event /\ a.kind = kind /\ a.sub = s /\ a.status = at.status
  BY <1>3, <1>4, <1>5, <1>7, RaisedEvent
<1> HIDE DEF a
<1>11. EventMeans(a)
  BY <1>8, <1>9, <1>10 DEF EventMeans
<1>12. calls' \in [Calls -> CallRec] /\ calls'[c] = w /\ \A d \in Calls : d # c => calls'[d] = calls[d]
  BY <1>1, <1>2, <1>6
<1>13. stripe'[s] = at
  BY <1>1, <1>2, <1>3
<1>14. k.new.status # k.old.status /\ s \notin entangled => k.new.status = "canceled" /\ at.status = "canceled"
  <2> SUFFICES ASSUME k.new.status # k.old.status, s \notin entangled
               PROVE  k.new.status = "canceled" /\ at.status = "canceled"
    OBVIOUS
  <2>1. CASE k.op = "cancelNow"
    BY <1>1, <1>3, <1>4, <2>1, ChangedRow
  <2>2. CASE k.op = "reactivate"
    <3>1. k.old.status = "canceled"
      BY <1>1, <1>2, <1>3, <2>2, ChangedRow DEF CallGood
    <3>2. Gone(s)
      BY <1>2, <1>3, <3>1 DEF CallGood
    <3> QED BY <1>2, <3>2 DEF Gone
  <2>3. CASE k.op \notin {"cancelNow", "reactivate"}
    BY <1>1, <1>3, <2>3, ChangedRow
  <2> QED BY <2>1, <2>2, <2>3
<1>15. k.old.status = "canceled" /\ s \notin entangled => at.status = "canceled"
  BY <1>2, <1>3 DEF CallGood, Gone
<1>16. CallGood(c)'
  BY <1>2, <1>3, <1>5, <1>6, <1>12, <1>13, <1>14, <1>15 DEF CallGood, Started, Gone, Ids
<1>17. Gone(s) => at.status = "canceled"
  BY <1>2 DEF Gone
<1> HIDE DEF s, k
<1> QED BY <1>1, <1>2, <1>3, <1>4, <1>5, <1>7, <1>10, <1>11, <1>12, <1>16, <1>17, StripeReports

(***************************************************************************)
(* The commit of a webhook.                                                *)
(***************************************************************************)
(* What the commit of event e, read by request k, does to the row k.id.    *)
RowWritten(k, e) ==
  LET r == rows'[k.id] IN
  /\ k.old \in Row /\ k.new = Applied(e, k.old)
  /\ r.sub = IF e.kind = "completed" THEN e.sub ELSE rows[k.id].sub
  /\ r.sub \in Subs /\ (r.sub # e.sub => r.sub \in entangled')
  /\ r.status = IF k.new.status = k.old.status THEN rows[k.id].status ELSE k.new.status
  /\ e.kind = "completed" => r.status = "active"

(* A request that commits stores an event for the first time and writes at *)
(* most the row it read.                                                   *)
LEMMA CommitWrites ==
  ASSUME SyncInv, NEW h \in Hooks, HookCommits(h), NEW k, k = hooks[h], NEW e, e = events[k.event]
  PROVE  /\ k.pc # "idle" /\ k.event \in Numbers /\ k.event \notin log /\ k.id \in 0..Len(rows)
         /\ e \in Event /\ EventMeans(e) /\ log' = log \cup {k.event}
         /\ rows' \in Seq(Row) /\ Len(rows') = Len(rows) /\ \A i \in Ids : i # k.id => rows'[i] = rows[i]
         /\ entangled \subseteq entangled' /\ entangled' \subseteq Subs
         /\ e.kind = "completed" => CarriedBy(e.sub) = {}
         /\ k.id # 0 => RowWritten(k, e)
<1>1. /\ k \in HookRec /\ k.old \in Row /\ rows \in Seq(Row) /\ Len(rows) \in Nat
      /\ \A i \in Ids : rows[i] \in Row
      /\ entangled \subseteq Subs
  BY TypeNames DEF SyncInv, TypeOK, HookRec
<1>2. HookGood(h)
  BY DEF SyncInv
<1>3. k.pc # "idle" /\ k.event \in Numbers /\ k.event \notin log /\ k.id \in 0..Len(rows)
      /\ log' = log \cup {k.event}
  BY <1>2 DEF HookCommits, Storable, HookGood
<1>4. e \in Event /\ EventMeans(e) /\ e.sub \in Subs /\ e.sub # NoSub
  BY <1>3, TypeNames, SubscriptionConstants DEF SyncInv, EventInv, Event
<1>5. e.kind = "completed" => CarriedBy(e.sub) = {}
  BY <1>3, NotLinkedYet DEF SyncInv
<1>6. CASE k.id = 0
  <2>1. rows' = rows /\ entangled' = entangled
    BY <1>6 DEF HookCommits
  <2> QED BY <1>1, <1>3, <1>4, <1>5, <1>6, <2>1
<1>7. CASE k.id # 0
  <2> DEFINE now == rows[k.id]
             r == Merge(now, k.old, k.new)
  <2>1. rows' = [rows EXCEPT ![k.id] = r]
        /\ entangled' = (IF rows'[k.id].sub # e.sub THEN entangled \cup {rows'[k.id].sub} ELSE entangled)
    BY <1>7 DEF HookCommits
  <2>2. k.id \in Ids /\ now \in Row
    BY <1>1, <1>3, <1>7 DEF Ids
  <2>3. /\ k.new = Applied(e, k.old)
        /\ e.kind = "completed" => k.old.status = "trialing" /\ k.old.sub # e.sub
        /\ e.kind # "completed" => k.old.sub = e.sub /\ now.sub # NoSub
    BY <1>2, <1>3, <1>7 DEF HookGood
  <2>4. /\ k.new \in Row /\ k.new.sub = IF e.kind = "completed" THEN e.sub ELSE k.old.sub
        /\ e.kind = "completed" => k.new.status = "active"
    BY <1>1, <1>4, <2>3, AppliedRow
  <2>5. /\ r \in Row
        /\ r.status = IF k.new.status = k.old.status THEN now.status ELSE k.new.status
        /\ r.sub = IF k.new.sub = k.old.sub THEN now.sub ELSE k.new.sub
    BY <1>1, <2>2, <2>4, MergeRow
  <2> HIDE DEF r
  <2>6. rows' \in Seq(Row) /\ Len(rows') = Len(rows) /\ rows'[k.id] = r
        /\ \A i \in Ids : i # k.id => rows'[i] = rows[i]
    BY <1>1, <2>1, <2>2, <2>5, WriteRow DEF Ids
  <2>7. r.sub = (IF e.kind = "completed" THEN e.sub ELSE now.sub) /\ r.sub \in Subs
    BY <1>4, <2>2, <2>3, <2>4, <2>5 DEF Row
  <2>8. e.kind = "completed" => r.status = "active"
    BY <2>3, <2>4, <2>5
  <2>9. RowWritten(k, e)
    <3>1. r.sub # e.sub => r.sub \in entangled'
      BY <2>1, <2>6
    <3>2. k.old \in Row
      BY <1>1
    <3> QED BY ONLY <2>3, <2>5, <2>6, <2>7, <2>8, <3>1, <3>2 DEF RowWritten, now
  <2> QED BY <1>1, <1>3, <1>4, <1>5, <2>1, <2>6, <2>7, <2>9
<1> QED BY <1>6, <1>7

(* The commit of a webhook keeps the invariant.                            *)
LEMMA WebhookCommitted ==
  ASSUME SyncInv, NEW h \in Hooks, HookCommits(h)
  PROVE  SyncInv'
<1> PICK k : k = hooks[h]
  OBVIOUS
<1> PICK e : e = events[k.event]
  OBVIOUS
<1> DEFINE n == k.event
           id == k.id
<1>1. /\ k.pc # "idle" /\ n \in Numbers /\ n \notin log /\ id \in 0..Len(rows)
      /\ e \in Event /\ EventMeans(e) /\ log' = log \cup {n}
      /\ rows' \in Seq(Row) /\ Len(rows') = Len(rows) /\ \A i \in Ids : i # id => rows'[i] = rows[i]
      /\ entangled \subseteq entangled' /\ entangled' \subseteq Subs
      /\ e.kind = "completed" => CarriedBy(e.sub) = {}
      /\ id # 0 => RowWritten(k, e)
  BY CommitWrites
<1>2. /\ rows \in Seq(Row) /\ Len(rows) \in Nat /\ \A i \in Ids : rows[i] \in Row
      /\ calls \in [Calls -> CallRec] /\ hooks \in [Hooks -> HookRec]
      /\ Len(events) \in Nat /\ log \subseteq Numbers /\ \A m \in Numbers : events[m] \in Event
  BY TypeNames DEF SyncInv, TypeOK, Numbers
<1>3. hooks' = [hooks EXCEPT ![h] = IdleHook] /\ UNCHANGED <<calls, stripe, sessions, events>>
  BY DEF HookCommits
<1>4. Ids' = Ids /\ 0 \notin Ids
  BY <1>1, <1>2 DEF Ids
<1>5. e.sub \in Subs /\ e.sub # NoSub
  BY <1>1, SubscriptionConstants DEF Event
<1>6. \A i \in Ids : rows'[i].sub = IF i = id /\ e.kind = "completed" THEN e.sub ELSE rows[i].sub
  BY <1>1, <1>4 DEF RowWritten
<1>7. \A m \in Numbers : m \in Nat /\ m >= 1 /\ m <= Len(events)
  BY <1>2 DEF Numbers
<1>8. HookGood(h)
  BY DEF SyncInv
(* Stored events come in the order of their numbers. *)
<1>9. \A m \in log : events[m].sub = e.sub /\ e.sub \notin entangled => m < n
  <2> SUFFICES ASSUME NEW m \in log, events[m].sub = e.sub, e.sub \notin entangled, ~(m < n) PROVE FALSE
    OBVIOUS
  <2>1. n \in 1..m
    BY <1>1, <1>2, <1>7
  <2> QED BY <1>1, <2>1 DEF SyncInv, StoredInOrder
<1>10. e.sub \notin entangled => \A m \in 1..(n - 1) : events[m].sub = e.sub => m \in log
  BY <1>1, <1>8 DEF HookGood
(* The other rows do not carry the subscription of the event. *)
<1>11. \A i \in Ids : i # id /\ e.sub \notin entangled => rows[i].sub # e.sub
  <2>1. e.kind # "completed" /\ e.sub \notin entangled => CarriedBy(e.sub) \subseteq {id}
    BY <1>1, <1>8 DEF HookGood
  <2> QED BY <1>1, <2>1 DEF CarriedBy
<1> HIDE DEF n, id
<1>12. TypeOK'
  <2>1. hooks' \in [Hooks -> HookRec]
    BY <1>2, <1>3, IdleTypes
  <2>2. payments' \in [1..MaxEvents -> Nat]
    <3>1. payments \in [1..MaxEvents -> Nat]
      BY DEF SyncInv, TypeOK
    <3>2. payments' = payments \/ payments' = [payments EXCEPT ![hooks[h].event] = @ + 1]
      BY DEF HookCommits
    <3> QED BY <3>1, <3>2
  <2>3. log' \subseteq 1..Len(events)
    BY <1>1, <1>2 DEF Numbers
  <2> QED BY <1>1, <1>3, <2>1, <2>2, <2>3 DEF SyncInv, TypeOK, HookRec
<1>13. BookedOnce'
  BY CommitStep DEF SyncInv, TypeOK, PaymentInv, Books
<1>14. EventInv'
  BY <1>3 DEF SyncInv, EventInv, Numbers, EventMeans, Started, Gone
<1>15. LinkInv'
  <2>1. LinkInv
    BY DEF SyncInv
  <2>2. ASSUME NEW i \in Ids, rows'[i].sub # NoSub
        PROVE  \E m \in log' : events[m].kind = "completed" /\ events[m].sub = rows'[i].sub
    <3>1. CASE i = id /\ e.kind = "completed"
      BY <1>1, <1>6, <3>1 DEF n
    <3>2. CASE ~(i = id /\ e.kind = "completed")
      <4>1. rows'[i].sub = rows[i].sub
        BY <1>6, <3>2
      <4> QED BY <1>1, <2>1, <2>2, <4>1 DEF LinkInv
    <3> QED BY <3>1, <3>2
  <2>3. ASSUME NEW i \in Ids, NEW j \in Ids, rows'[i].sub = rows'[j].sub, rows'[i].sub # NoSub
        PROVE  i = j
    <3>1. CASE e.kind = "completed"
      <4>1. \A l \in Ids : rows[l].sub # e.sub
        BY <1>1, <3>1 DEF CarriedBy
      <4> QED BY <1>6, <2>1, <2>3, <4>1 DEF LinkInv
    <3>2. CASE e.kind # "completed"
      BY <1>6, <2>1, <2>3, <3>2 DEF LinkInv
    <3> QED BY <3>1, <3>2
  <2> QED BY <1>3, <1>4, <2>2, <2>3 DEF LinkInv
<1>16. ASSUME NEW c \in Calls PROVE CallGood(c)'
  <2>1. CallGood(c)
    BY DEF SyncInv
  <2>2. \A i \in Ids : rows[i].sub # NoSub => rows'[i].sub # NoSub
    BY <1>5, <1>6
  <2> QED BY <1>1, <1>3, <1>4, <2>1, <2>2 DEF CallGood, Started, Gone
<1>17. StoredInOrder'
  <2> SUFFICES ASSUME NEW m \in log', events[m].sub \notin entangled',
                      NEW l \in 1..m, events[l].sub = events[m].sub
               PROVE  l \in log'
    BY <1>3 DEF StoredInOrder
  <2>1. CASE m \in log
    BY <1>1, <2>1 DEF SyncInv, StoredInOrder
  <2>2. CASE m = n
    <3>1. l = n \/ l \in 1..(n - 1)
      BY <1>1, <1>7, <2>2
    <3> QED BY <1>1, <1>10, <2>2, <3>1 DEF n
  <2> QED BY <1>1, <2>1, <2>2
<1>18. CanceledRows'
  <2> SUFFICES ASSUME NEW i \in Ids, rows'[i].status = "canceled", rows'[i].sub \notin entangled' \cup {NoSub}
               PROVE  Gone(rows'[i].sub)
    BY <1>3, <1>4 DEF CanceledRows, Gone
  <2>1. CASE i # id
    BY <1>1, <2>1 DEF SyncInv, CanceledRows
  <2>2. CASE i = id
    <3>1. RowWritten(k, e) /\ id # 0
      BY <1>1, <1>4, <2>2
    <3>2. rows'[i].sub = e.sub /\ e.kind # "completed" /\ rows[i].sub = e.sub
      BY <2>2, <3>1 DEF RowWritten, id
    <3>3. CASE rows[i].status = "canceled"
      BY <1>1, <3>2, <3>3 DEF SyncInv, CanceledRows
    <3>4. CASE rows[i].status # "canceled"
      <4>1. Applied(e, k.old).status = "canceled"
        BY <2>2, <3>1, <3>4 DEF RowWritten, id
      <4>2. e.status = "canceled"
        BY <1>1, <3>1, <4>1, AppliedRow DEF RowWritten
      <4> QED BY <1>1, <3>2, <4>2 DEF SyncInv, EventInv, n
    <3> QED BY <3>3, <3>4
  <2> QED BY <2>1, <2>2
(* Another row carries another subscription; the row of the event has the  *)
(* status of the event, which is the last one stored.                      *)
<1>19. RowFollows'
  <2> SUFFICES ASSUME NEW i \in Ids, NEW l \in log', rows'[i].sub \notin entangled',
                      events[l].sub = rows'[i].sub,
                      \A m \in log' : events[m].sub = rows'[i].sub => m <= l
               PROVE  \/ Agrees(rows'[i].status, events[l].status)
                      \/ rows'[i].status = "canceled" /\ Gone(rows'[i].sub)
    BY <1>3, <1>4 DEF RowFollows, Gone
  <2>1. CASE i # id
    <3>1. rows'[i] = rows[i] /\ rows[i].sub \notin entangled
      BY <1>1, <2>1
    <3>2. rows[i].sub # e.sub
      BY <1>11, <2>1, <3>1
    <3>3. l # n
      BY <3>1, <3>2 DEF n
    <3> QED BY <1>1, <3>1, <3>3 DEF SyncInv, RowFollows
  <2>2. CASE i = id
    <3>1. RowWritten(k, e) /\ id # 0
      BY <1>1, <1>4, <2>2
    <3>2. rows'[i].sub = e.sub /\ e.sub \notin entangled
      BY <1>1, <2>2, <3>1 DEF RowWritten, id
    <3>3. n <= l
      BY <1>1, <3>2 DEF n
    <3>4. l = n /\ events[l] = e
      <4>1. l \in log => l < n
        BY <1>9, <3>2
      <4>2. l \in Nat /\ n \in Nat
        BY <1>1, <1>2, <1>7
      <4> QED BY <1>1, <3>3, <4>1, <4>2 DEF n
    <3>5. Agrees(k.new.status, e.status)
      <4>1. k.old \in Row /\ k.new = Applied(e, k.old)
        BY <3>1 DEF RowWritten
      <4>2. e \in Event /\ EventMeans(e)
        BY <1>1
      <4> QED BY ONLY <4>1, <4>2, AppliedRow
    <3>6. CASE rows'[i].status = k.new.status
      BY <3>4, <3>5, <3>6
    <3>7. CASE rows'[i].status # k.new.status
      <4>1. k.new.status = k.old.status /\ rows'[i].status = rows[i].status
        BY <2>2, <3>1, <3>7 DEF RowWritten, id
      <4>2. e.kind # "completed"
        <5>1. e.kind = "completed" => k.new.status = "active"
          BY <1>1, <3>1, AppliedRow DEF RowWritten
        <5> QED BY <2>2, <3>1, <3>7, <5>1 DEF RowWritten, id
      <4>3. rows[i].sub = e.sub
        BY <1>6, <3>2, <4>2
      <4>4. rows[i].status = k.old.status \/ (rows[i].status = "canceled" /\ Gone(e.sub))
        BY <1>1, <1>8, <2>2, <3>1, <3>2, <4>2, <4>3 DEF HookGood, id, n
      <4> QED BY <3>2, <3>4, <3>5, <4>1, <4>4
    <3> QED BY <3>6, <3>7
  <2> QED BY <2>1, <2>2
<1>20. BookedWhenOrderly'
  <2> SUFFICES ASSUME NEW m \in log', events[m].kind = "paid", events[m].sub \notin entangled',
                      NEW i \in Ids, rows'[i].sub = events[m].sub
               PROVE  payments'[m] = 1
    BY <1>3, <1>4 DEF BookedWhenOrderly, CarriedBy
  <2>1. payments \in [1..MaxEvents -> Nat] /\ m \in 1..MaxEvents /\ m \in Numbers
    BY <1>1, <1>2, TypeNames DEF SyncInv, TypeOK
  <2>2. CASE m = n
    <3>1. e = events[m] /\ e.sub \notin entangled
      BY <1>1, <2>2 DEF n
    <3>2. i = id /\ id # 0
      BY <1>4, <1>6, <1>11, <3>1
    <3>3. payments' = [payments EXCEPT ![m] = @ + 1]
      BY <2>2, <3>1, <3>2 DEF HookCommits, n, id
    <3>4. payments[m] = 0
      BY <1>1, <2>1, <2>2 DEF SyncInv, BookedOnce
    <3> QED BY <2>1, <3>3, <3>4
  <2>3. CASE m # n
    <3>1. m \in log /\ events[m].sub \notin entangled
      BY <1>1, <2>3
    <3>2. payments'[m] = payments[m]
      BY <2>1, <2>3 DEF HookCommits, n
    <3>3. rows[i].sub = events[m].sub
      <4> SUFFICES ASSUME i = id, e.kind = "completed", events[m].sub = e.sub PROVE FALSE
        BY <1>6
      <4>1. n <= m
        BY <1>1, <2>1 DEF SyncInv, EventInv, n
      <4>2. m < n
        BY <1>9, <3>1
      <4> QED BY <1>1, <1>7, <2>1, <4>1, <4>2
    <3> QED BY <3>1, <3>2, <3>3 DEF SyncInv, BookedWhenOrderly, CarriedBy
  <2> QED BY <2>2, <2>3
(* Of two requests that hold unstored events of one subscription, one has  *)
(* read too early.                                                         *)
<1>21. ASSUME NEW g \in Hooks PROVE HookGood(g)'
  <2>1. CASE g = h
    BY <1>2, <1>3, <2>1, IdleTypes DEF HookGood
  <2>2. CASE g # h /\ hooks[g].pc = "idle"
    BY <1>3, <2>2 DEF HookGood
  <2>3. CASE g # h /\ hooks[g].pc # "idle"
    <3> PICK q : q = hooks[g]
      OBVIOUS
    <3> PICK f : f = events[q.event]
      OBVIOUS
    <3>1. HookGood(g) /\ hooks'[g] = q /\ events'[q.event] = f
      BY <1>3, <2>3 DEF SyncInv
    <3>2. q.event \in Numbers /\ q.id \in 0..Len(rows) /\ f.sub \in Subs /\ f.sub # NoSub
      BY <1>2, <2>3, <3>1, SubscriptionConstants DEF HookGood, Event
    <3>3. q.id # 0 => q.id \in Ids /\ (rows[q.id].sub # NoSub => rows'[q.id].sub # NoSub)
      BY <1>2, <1>5, <1>6, <3>2 DEF Ids
    <3>4. q.id # 0 =>
            /\ q.new = Applied(f, q.old)
            /\ f.kind = "completed" => q.old.status = "trialing" /\ q.old.sub # f.sub
            /\ f.kind # "completed" => q.old.sub = f.sub /\ rows'[q.id].sub # NoSub
      BY <2>3, <3>1, <3>3 DEF HookGood
    <3>5. f.sub \notin entangled => \A m \in 1..(q.event - 1) : events[m].sub = f.sub => m \in log
      BY <2>3, <3>1 DEF HookGood
    <3>6. ASSUME f.sub \notin entangled, f.kind # "completed", NEW i \in Ids, rows'[i].sub = f.sub
          PROVE  i = q.id
      <4>1. rows[i].sub = f.sub
        <5> SUFFICES ASSUME i = id, e.kind = "completed", e.sub = f.sub PROVE FALSE
          BY <1>6, <3>6
        <5>1. n <= q.event /\ n # q.event
          BY <1>1, <3>2, <3>6 DEF SyncInv, EventInv, n
        <5>2. n \in 1..(q.event - 1)
          BY <1>1, <1>7, <3>2, <5>1
        <5> QED BY <1>1, <3>5, <3>6, <5>2 DEF n
      <4>2. CarriedBy(f.sub) \subseteq {q.id}
        BY <2>3, <3>1, <3>6 DEF HookGood
      <4> QED BY <4>1, <4>2 DEF CarriedBy
    <3>7. ASSUME f.sub \notin entangled', f.kind # "completed", q.event \notin log', q.id # 0,
                 rows'[q.id].sub = f.sub
          PROVE  \/ rows'[q.id].status = q.old.status
                 \/ rows'[q.id].status = "canceled" /\ Gone(f.sub)
      <4>1. CASE q.id # id
        <5>1. rows'[q.id] = rows[q.id]
          BY <1>1, <3>3, <3>7, <4>1
        <5> QED BY <1>1, <2>3, <3>1, <3>7, <5>1 DEF HookGood
      <4>2. CASE q.id = id
        <5>1. f.sub = e.sub
          BY <1>1, <3>7, <4>2 DEF RowWritten, id
        <5>2. q.event # n /\ q.event \notin log /\ e.sub \notin entangled
          BY <1>1, <3>7, <5>1
        <5>3. q.event \in 1..(n - 1) \/ n \in 1..(q.event - 1)
          BY <1>1, <1>7, <3>2, <5>2
        <5> QED BY <1>1, <1>10, <3>5, <5>1, <5>2, <5>3 DEF n
      <4> QED BY <4>1, <4>2
    <3>8. f.sub \notin entangled' /\ f.kind # "completed" => CarriedBy(f.sub)' \subseteq {q.id}
      BY <1>1, <1>4, <3>6 DEF CarriedBy
    <3>9. f.sub \notin entangled' => \A m \in 1..(q.event - 1) : events'[m].sub = f.sub => m \in log'
      BY <1>1, <1>3, <3>5
    <3>10. q.event \in Numbers' /\ q.id \in 0..Len(rows') /\ (Gone(f.sub) => Gone(f.sub)')
      BY <1>1, <1>3, <3>2 DEF Numbers, Gone
    <3> QED BY <3>1, <3>4, <3>7, <3>8, <3>9, <3>10 DEF HookGood
  <2> QED BY <2>1, <2>2, <2>3
<1> QED BY <1>12, <1>13, <1>14, <1>15, <1>16, <1>17, <1>18, <1>19, <1>20, <1>21 DEF SyncInv

(***************************************************************************)
(* The invariant and what follows from it.                                 *)
(***************************************************************************)
(* No row, no event and nothing in flight.                                 *)
LEMMA SyncInit == Init => SyncInv
<1> SUFFICES ASSUME Init PROVE SyncInv
  OBVIOUS
<1>1. Len(rows) = 0 /\ Ids = {} /\ Numbers = {} /\ log = {}
  BY DEF Init, Ids, Numbers
<1>2. TypeOK
  <2>1. rows \in Seq(Row) /\ events \in Seq(Event) /\ 0 \in 0..MaxRows /\ Len(events) = 0
        /\ Len(rows) <= MaxRows /\ Len(events) <= MaxEvents
    BY <1>1, SubscriptionConstants DEF Init
  <2>2. [status |-> "none", cancelEnd |-> FALSE] \in StripeSub
    BY DEF StripeSub
  <2>3. stripe \in [Subs -> StripeSub]
    BY <2>2 DEF Init
  <2>4. calls \in [Calls -> CallRec] /\ hooks \in [Hooks -> HookRec]
    BY IdleTypes DEF Init
  <2> QED BY <2>1, <2>3, <2>4 DEF Init, TypeOK, CallRec, HookRec
<1>3. BookedOnce
  BY InitBooks DEF PaymentInv
<1>4. EventInv
  BY <1>1 DEF Init, EventInv, Started
<1>5. LinkInv /\ StoredInOrder /\ CanceledRows /\ RowFollows /\ BookedWhenOrderly
  BY <1>1 DEF LinkInv, StoredInOrder, CanceledRows, RowFollows, BookedWhenOrderly
<1>6. \A c \in Calls : CallGood(c)
  BY IdleTypes DEF Init, CallGood
<1>7. \A h \in Hooks : HookGood(h)
  BY IdleTypes DEF Init, HookGood
<1> QED BY <1>2, <1>3, <1>4, <1>5, <1>6, <1>7 DEF SyncInv

(* Every step keeps the invariant.                                         *)
LEMMA SyncStep == SyncInv /\ [Next]_vars => SyncInv'
<1> SUFFICES ASSUME SyncInv, [Next]_vars PROVE SyncInv'
  OBVIOUS
<1>1. ASSUME NEW c \in Calls, CallStep(c) PROVE SyncInv'
  BY <1>1, CallForgets, RowAdded, CallReads, CallAsks, CallSkipsStripe, ChangeCommitted DEF CallStep
<1>2. ASSUME NEW h \in Hooks, HookStep(h) PROVE SyncInv'
  BY <1>2, HookBegins, WebhookCommitted, HookForgets DEF HookStep
<1>3. ASSUME NEW s \in Subs, StripeStep(s) PROVE SyncInv'
  BY <1>3, StripeActs
<1>4. CASE UNCHANGED vars
  <2>1. TypeOK'
    BY <1>4 DEF vars, SyncInv, TypeOK
  <2> QED BY <1>4, <2>1, RowsKeep DEF vars
<1> QED BY <1>1, <1>2, <1>3, <1>4 DEF Next

(* Hence the invariant holds in every behaviour.                           *)
LEMMA SyncInvariant == Spec => []SyncInv
BY SyncInit, SyncStep, PTL DEF Spec

(* All variables keep their types, whatever the customer, the deliveries   *)
(* and Stripe do.                                                          *)
THEOREM TypeCorrect == Spec => []TypeOK
<1>1. SyncInv => TypeOK
  BY DEF SyncInv
<1> QED BY <1>1, SyncInvariant, PTL

(* The payments of a linked subscription are in the books, one for each    *)
(* invoice.paid that is stored, unless the subscription is entangled.      *)
(* (_handle_invoice_paid finds the row of the subscription.)               *)
THEOREM PaymentsBookedWhenOrderly == Spec => []BookedWhenOrderly
<1>1. SyncInv => BookedWhenOrderly
  BY DEF SyncInv
<1> QED BY <1>1, SyncInvariant, PTL

(* A linked row that has seen all the events of its subscription agrees    *)
(* with it: the last event reports what Stripe has.                        *)
LEMMA FollowsToTheEnd == SyncInv => StripeSync
<1> SUFFICES ASSUME SyncInv, NEW i \in Ids, rows[i].sub \notin entangled \cup {NoSub},
                    \A n \in Numbers : events[n].sub = rows[i].sub => n \in log
             PROVE  Agrees(rows[i].status, stripe[rows[i].sub].status)
  BY DEF StripeSync, Numbers
<1> DEFINE s == rows[i].sub
<1>1. log \subseteq Numbers /\ s \in Subs
  BY TypeNames DEF SyncInv, TypeOK, Numbers, Row
<1>2. Started(s)
  BY <1>1 DEF SyncInv, LinkInv, EventInv
<1>3. PICK n \in Numbers : /\ events[n].sub = s /\ events[n].status = stripe[s].status
                           /\ \A m \in Numbers : events[m].sub = s => m <= n
  BY <1>1, <1>2 DEF SyncInv, EventInv
<1>4. n \in log /\ \A m \in log : events[m].sub = s => m <= n
  BY <1>1, <1>3
<1>5. \/ Agrees(rows[i].status, events[n].status)
      \/ rows[i].status = "canceled" /\ Gone(s)
  BY <1>3, <1>4 DEF SyncInv, RowFollows
<1> QED BY <1>3, <1>5 DEF Agrees, Gone

(* The rows follow Stripe: with any number of calls that change both in    *)
(* two steps, of deliveries in any order, repeated and concurrent, and of  *)
(* Stripe subscriptions, a linked row whose events are all stored agrees   *)
(* with its subscription, unless that is entangled.                        *)
THEOREM RowsFollowStripe == Spec => []StripeSync
BY FollowsToTheEnd, SyncInvariant, PTL
==============================================================================
