---------------------------- MODULE RiskCounters ----------------------------
(***************************************************************************)
(* RiskManagementEngine (backend/app/risk/engine.py) on the risk_profiles  *)
(* row of one user: update_trade_result after every closed trade,          *)
(* validate_trade before every order, pause_trading and resume_trading.    *)
(*                                                                         *)
(* Each of them selects the row at its start, works on that copy across    *)
(* further awaits, and commits the columns whose value differs from the    *)
(* one it read; nothing locks the row in between.  Any of them may be      *)
(* cancelled or fail on the way, which leaves the row as it was.           *)
(*                                                                         *)
(* The daily, weekly and monthly counters always take the same additions   *)
(* and nothing resets any of them, so they are one counter, loss, compared *)
(* with the smallest of the three limits.                                  *)
(***************************************************************************)
EXTENDS Integers, FiniteSets

CONSTANTS
  Monitor,         \* the position-monitor task
  CloseRequests,   \* POST /trades/{id}/close requests
  Checks,          \* execute_signal calls that validate a trade
  Users,           \* pause and resume requests
  Losses,          \* amounts a closed trade may have lost; 0 for a trade that did not lose
  LossLimit,       \* the smallest of the loss limits
  DrawdownLoss,    \* the loss at which current_drawdown reaches max_drawdown_percent
  StreakLimit,     \* max_consecutive_losses
  MaxResults       \* bound: trades closed in a behaviour

Writers == CloseRequests \cup {Monitor}

ASSUME RiskConstants ==
  /\ Monitor \notin CloseRequests
  /\ Losses \subseteq Nat
  /\ LossLimit \in Nat \ {0} /\ DrawdownLoss \in Nat
  /\ StreakLimit \in Nat \ {0}
  /\ MaxResults \in Nat

VARIABLES
  row,      \* the committed row
  sess,     \* update_trade_result calls in flight
  check,    \* validate_trade calls in flight
  user,     \* pause and resume calls in flight
  kept,     \* history: an exact account of the results that were committed
  results,  \* number of results handed in so far
  early,      \* history: checks that had read the row when a pause was committed
  overlapped  \* history: whether two results were ever in flight together

vars == <<row, sess, check, user, kept, results, early, overlapped>>

Row == [loss : Nat, streak : Nat, paused : BOOLEAN]
NewRow == [loss |-> 0, streak |-> 0, paused |-> FALSE]

IdleSession == [pc |-> "idle", base |-> NewRow, next |-> NewRow, lost |-> 0]
IdleCheck == [pc |-> "idle", copy |-> NewRow]
IdleUser == [pc |-> "idle", base |-> NewRow]

TypeOK ==
  /\ row \in Row
  /\ sess \in [Writers -> [pc : {"idle", "writing"}, base : Row, next : Row, lost : Nat]]
  /\ check \in [Checks -> [pc : {"idle", "read", "allowed", "refused", "raised"}, copy : Row]]
  /\ user \in [Users -> [pc : {"idle", "pause", "resume"}, base : Row]]
  /\ kept \in [loss : Nat, streak : Nat]
  /\ results \in 0..MaxResults
  /\ early \subseteq Checks
  /\ overlapped \in BOOLEAN

Init ==
  /\ row = NewRow
  /\ sess = [w \in Writers |-> IdleSession]
  /\ check = [k \in Checks |-> IdleCheck]
  /\ user = [u \in Users |-> IdleUser]
  /\ kept = [loss |-> 0, streak |-> 0]
  /\ results = 0
  /\ early = {}
  /\ overlapped = FALSE

(***************************************************************************)
(* The commit of a session: the columns whose value was changed.           *)
(***************************************************************************)
\* Mutant: the streak is not among the columns written.
MergeLossOnly(current, base, next) ==
  [current EXCEPT !.loss = IF next.loss # base.loss THEN next.loss ELSE @,
                  !.paused = IF next.paused # base.paused THEN next.paused ELSE @]

\* Mutant: every column is written.
MergeAll(current, base, next) == next

Merge(current, base, next) ==
  [loss   |-> IF next.loss # base.loss THEN next.loss ELSE current.loss,
   streak |-> IF next.streak # base.streak THEN next.streak ELSE current.streak,
   paused |-> IF next.paused # base.paused THEN next.paused ELSE current.paused]

\* Mutant: a winning trade takes one loss off the streak.
AddResultStepsBack(counters, lost) ==
  [counters EXCEPT !.loss = @ + lost, !.streak = IF lost > 0 THEN @ + 1 ELSE @ - 1]

\* update_trade_result's arithmetic, on a row or on the exact account: a losing
\* trade adds its loss and lengthens the streak, any other ends the streak.
AddLoss(counters, lost) == [counters EXCEPT !.loss = @ + lost]
StepStreak(counters, lost) == [counters EXCEPT !.streak = IF lost > 0 THEN @ + 1 ELSE 0]
AddResult(counters, lost) == StepStreak(AddLoss(counters, lost), lost)

(***************************************************************************)
(* update_trade_result.                                                    *)
(***************************************************************************)
Pending(w) == sess[w].pc = "writing"

\* A closed trade's result: the row is read and the counters are set on the
\* copy; then the balance is read and the commit sent.
TakeResult(w, lost) ==
  /\ sess[w].pc = "idle"
  /\ results < MaxResults
  /\ sess' = [sess EXCEPT ![w] = [pc |-> "writing", base |-> row,
                                 next |-> AddResult(row, lost), lost |-> lost]]
  /\ results' = results + 1
  /\ overlapped' = (overlapped \/ \E v \in Writers : Pending(v))
  /\ UNCHANGED <<row, check, user, kept, early>>

CommitResult(w) ==
  /\ sess[w].pc = "writing"
  /\ row' = Merge(row, sess[w].base, sess[w].next)
  /\ kept' = AddResult(kept, sess[w].lost)
  /\ sess' = [sess EXCEPT ![w] = IdleSession]
  /\ UNCHANGED <<check, user, results, early, overlapped>>

\* Mutant: the failing update has written the counters of its copy.
ResultLostFlushed(w) ==
  /\ sess[w].pc = "writing"
  /\ row' = Merge(row, sess[w].base, sess[w].next)
  /\ sess' = [sess EXCEPT ![w] = IdleSession]
  /\ UNCHANGED <<check, user, kept, results, early, overlapped>>

\* The select or the commit raises, or the task is cancelled before the commit: the
\* result is in no counter, and nothing hands it in again.
ResultLost(w) ==
  /\ sess[w].pc = "writing"
  /\ sess' = [sess EXCEPT ![w] = IdleSession]
  /\ UNCHANGED <<row, check, user, kept, results, early, overlapped>>

(***************************************************************************)
(* validate_trade: the row is read first, and every gate works on that     *)
(* copy; the trade counts and the balance are awaited in between.          *)
(***************************************************************************)
LossReached(p) == p.loss > 0 /\ p.loss >= LossLimit
DrawdownReached(p) == p.loss >= DrawdownLoss
StreakReached(p) == p.streak >= StreakLimit

\* Mutant: the pause is not looked at.
BlockedUnpaused(p) == LossReached(p) \/ DrawdownReached(p) \/ StreakReached(p)

Blocked(p) == p.paused \/ LossReached(p) \/ DrawdownReached(p) \/ StreakReached(p)

ReadProfile(k) ==
  /\ check[k].pc = "idle"
  /\ check' = [check EXCEPT ![k] = [pc |-> "read", copy |-> row]]
  /\ early' = early \ {k}
  /\ UNCHANGED <<row, sess, user, kept, results, overlapped>>

Verdict(k, v) == check' = [check EXCEPT ![k].pc = v]

\* Paused, no stop loss, loss limit, consecutive losses, open trades, weekend; or
\* one of the awaits raised.
Refuse(k) ==
  /\ check[k].pc = "read"
  /\ Verdict(k, "refused")
  /\ UNCHANGED <<row, sess, user, kept, results, early, overlapped>>

\* _check_drawdown pauses trading before it refuses; the gates before it passed.
RefuseAndPause(k) ==
  LET p == check[k].copy IN
  /\ check[k].pc = "read"
  /\ ~p.paused /\ ~LossReached(p) /\ DrawdownReached(p)
  /\ row' = [row EXCEPT !.paused = TRUE]
  /\ early' = early \cup {c \in Checks : check[c].pc = "read" /\ ~check[c].copy.paused}
  /\ Verdict(k, "refused")
  /\ UNCHANGED <<sess, user, kept, results, overlapped>>

\* Every gate passed.  The last comparison, of the sized position's risk with the
\* maximum, multiplies a float by a Decimal and raises when the balance is
\* positive; otherwise the size is zero and the trade is allowed.
Allow(k) ==
  /\ check[k].pc = "read"
  /\ ~Blocked(check[k].copy)
  /\ \E v \in {"allowed", "raised"} : Verdict(k, v)
  /\ UNCHANGED <<row, sess, user, kept, results, early, overlapped>>

\* execute_signal is done with the verdict.
EndCheck(k) ==
  /\ check[k].pc \in {"allowed", "refused", "raised"}
  /\ check' = [check EXCEPT ![k] = IdleCheck]
  /\ UNCHANGED <<row, sess, user, kept, results, early, overlapped>>

(***************************************************************************)
(* pause_trading and resume_trading.                                       *)
(***************************************************************************)
UserReads(u, what) ==
  /\ user[u].pc = "idle"
  /\ user' = [user EXCEPT ![u] = [pc |-> what, base |-> row]]
  /\ UNCHANGED <<row, sess, check, kept, results, early, overlapped>>

UserCommits(u) ==
  LET next == [user[u].base EXCEPT !.paused = (user[u].pc = "pause")] IN
  /\ user[u].pc # "idle"
  /\ row' = Merge(row, user[u].base, next)
  /\ early' = IF row'.paused
              THEN early \cup {c \in Checks : check[c].pc = "read" /\ ~check[c].copy.paused}
              ELSE early
  /\ user' = [user EXCEPT ![u] = IdleUser]
  /\ UNCHANGED <<sess, check, kept, results, overlapped>>

\* The request fails or is cancelled before its commit.
UserFails(u) ==
  /\ user[u].pc # "idle"
  /\ user' = [user EXCEPT ![u] = IdleUser]
  /\ UNCHANGED <<row, sess, check, kept, results, early, overlapped>>

WriterStep(w) == CommitResult(w) \/ ResultLost(w) \/ \E lost \in Losses : TakeResult(w, lost)

CheckStep(k) == ReadProfile(k) \/ Refuse(k) \/ RefuseAndPause(k) \/ Allow(k) \/ EndCheck(k)

UserStep(u) == UserCommits(u) \/ UserFails(u) \/ \E what \in {"pause", "resume"} : UserReads(u, what)

Next ==
  \/ \E w \in Writers : WriterStep(w)
  \/ \E k \in Checks : CheckStep(k)
  \/ \E u \in Users : UserStep(u)

Spec == Init /\ [][Next]_vars

(***************************************************************************)
(* Properties.                                                             *)
(***************************************************************************)
\* Whatever order the sessions read and write in, and whichever of them fail, the
\* counter never shows more than the losses whose update was committed.
NoPhantomLoss == row.loss <= kept.loss

\* Nothing but a resume request ends a pause: a call that read the row before
\* the pause and commits after it leaves the pause alone.
PauseSurvives ==
  [][row.paused /\ ~row'.paused => \E u \in Users : user[u].pc = "resume"]_vars

\* While trading is paused, a trade is allowed only to a call that had read the
\* profile before the pause was committed.
PauseHonoured ==
  [][\A k \in Checks :
       (row.paused /\ check[k].pc = "read" /\ check'[k].pc = "allowed") => k \in early]_vars

\* What NoPhantomLoss and PauseSurvives rest on: a result about to be committed
\* is no larger than the losses committed so far and its own, and carries the
\* pause it read.
WritesInv ==
  /\ NoPhantomLoss
  /\ \A w \in Writers : Pending(w) =>
       /\ sess[w].next.loss <= kept.loss + sess[w].lost
       /\ sess[w].next.paused = sess[w].base.paused

\* update_trade_result: "Update risk metrics after trade close": the counters of
\* the row are those of the results that were committed, each added once.
CountersExact == row.loss = kept.loss /\ row.streak = kept.streak

\* The counters are exact until two results have been in flight together: a result
\* lost to a failure or a cancellation takes no other with it, and one that was
\* committed has read every one committed before it.
ExactUnlessOverlapped == ~overlapped => CountersExact

\* What ExactUnlessOverlapped rests on: a result in flight alone was computed from
\* the counters the row still has.
ExactInv ==
  ~overlapped =>
    /\ CountersExact
    /\ \A v, w \in Writers : Pending(v) /\ Pending(w) => v = w
    /\ \A w \in Writers : Pending(w) =>
         LET next == AddResult(sess[w].base, sess[w].lost) IN
         /\ sess[w].base.loss = row.loss /\ sess[w].base.streak = row.streak
         /\ sess[w].next.loss = next.loss /\ sess[w].next.streak = next.streak
=============================================================================
