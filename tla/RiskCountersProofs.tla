------------------------- MODULE RiskCountersProofs -------------------------
(***************************************************************************)
(* Proofs about RiskCounters, for any number of close requests, checks and *)
(* users and any losses and limits.                                        *)
(***************************************************************************)
EXTENDS RiskCounters, TLAPS

\* A commit builds a row from a row.
LEMMA MergeType ==
  ASSUME NEW current \in Row, NEW base \in Row, NEW next \in Row
  PROVE  Merge(current, base, next) \in Row
BY DEF Merge, Row

\* A result added to a row gives a row with the same pause.
LEMMA AddResultType ==
  ASSUME NEW p \in Row, NEW lost \in Nat
  PROVE  /\ AddResult(p, lost) \in Row
         /\ AddResult(p, lost).loss = p.loss + lost
         /\ AddResult(p, lost).paused = p.paused
<1>1. /\ AddLoss(p, lost) \in Row
      /\ AddLoss(p, lost).loss = p.loss + lost
      /\ AddLoss(p, lost).paused = p.paused
  BY DEF AddLoss, Row
<1>2. ASSUME NEW q \in Row
      PROVE  /\ StepStreak(q, lost) \in Row
             /\ StepStreak(q, lost).loss = q.loss
             /\ StepStreak(q, lost).paused = q.paused
  BY DEF StepStreak, Row
<1>3. QED
  BY <1>1, <1>2 DEF AddResult

\* Equal counters stay equal when the same result is added to both.
LEMMA AddResultAgrees ==
  ASSUME NEW p \in Row, NEW a \in [loss : Nat, streak : Nat], NEW lost \in Nat,
         p.loss = a.loss, p.streak = a.streak
  PROVE  /\ AddResult(p, lost).loss = AddResult(a, lost).loss
         /\ AddResult(p, lost).streak = AddResult(a, lost).streak
<1>1. /\ AddLoss(p, lost) \in Row
      /\ AddLoss(p, lost).loss = p.loss + lost
      /\ AddLoss(p, lost).streak = p.streak
  BY DEF AddLoss, Row
<1>2. /\ AddLoss(a, lost) \in [loss : Nat, streak : Nat]
      /\ AddLoss(a, lost).loss = a.loss + lost
      /\ AddLoss(a, lost).streak = a.streak
  BY DEF AddLoss
<1>3. ASSUME NEW q \in Row, NEW b \in [loss : Nat, streak : Nat],
             q.loss = b.loss, q.streak = b.streak
      PROVE  /\ StepStreak(q, lost).loss = StepStreak(b, lost).loss
             /\ StepStreak(q, lost).streak = StepStreak(b, lost).streak
  BY <1>3 DEF StepStreak, Row
<1>4. QED
  BY <1>1, <1>2, <1>3 DEF AddResult

\* The exact account takes a result the same way.
LEMMA AddKeptType ==
  ASSUME NEW a \in [loss : Nat, streak : Nat], NEW lost \in Nat
  PROVE  /\ AddResult(a, lost) \in [loss : Nat, streak : Nat]
         /\ AddResult(a, lost).loss = a.loss + lost
<1>1. /\ AddLoss(a, lost) \in [loss : Nat, streak : Nat]
      /\ AddLoss(a, lost).loss = a.loss + lost
  BY DEF AddLoss
<1>2. ASSUME NEW b \in [loss : Nat, streak : Nat]
      PROVE  /\ StepStreak(b, lost) \in [loss : Nat, streak : Nat]
             /\ StepStreak(b, lost).loss = b.loss
  BY DEF StepStreak
<1>3. QED
  BY <1>1, <1>2 DEF AddResult

\* The steps of update_trade_result keep the state typed.
LEMMA WriterTypes ==
  ASSUME TypeOK, NEW w \in Writers, WriterStep(w)
  PROVE  TypeOK'
<1>1. CASE CommitResult(w)
  <2>1. row' \in Row
    BY <1>1, MergeType DEF TypeOK, CommitResult
  <2>2. IdleSession \in [pc : {"idle", "writing"}, base : Row, next : Row, lost : Nat]
    BY DEF IdleSession, NewRow, Row
  <2>3. kept' \in [loss : Nat, streak : Nat]
    BY <1>1, AddKeptType DEF TypeOK, CommitResult
  <2>4. sess' \in [Writers -> [pc : {"idle", "writing"}, base : Row, next : Row, lost : Nat]]
    BY <1>1, <2>2 DEF TypeOK, CommitResult
  <2>5. QED
    BY <1>1, <2>1, <2>3, <2>4 DEF TypeOK, CommitResult
<1>2. ASSUME NEW lost \in Losses, TakeResult(w, lost) PROVE TypeOK'
  <2>1. lost \in Nat /\ row \in Row /\ MaxResults \in Nat
    BY RiskConstants DEF TypeOK
  <2>2. [pc |-> "writing", base |-> row, next |-> AddResult(row, lost), lost |-> lost]
          \in [pc : {"idle", "writing"}, base : Row, next : Row, lost : Nat]
    BY <2>1, AddResultType
  <2>3. results' \in 0..MaxResults
    BY <1>2, <2>1 DEF TypeOK, TakeResult
  <2>4. sess' \in [Writers -> [pc : {"idle", "writing"}, base : Row, next : Row, lost : Nat]]
    BY <1>2, <2>2 DEF TypeOK, TakeResult
  <2>5. QED
    BY <1>2, <2>3, <2>4 DEF TypeOK, TakeResult
<1>3. CASE ResultLost(w)
  <2>1. IdleSession \in [pc : {"idle", "writing"}, base : Row, next : Row, lost : Nat]
    BY DEF IdleSession, NewRow, Row
  <2>2. sess' \in [Writers -> [pc : {"idle", "writing"}, base : Row, next : Row, lost : Nat]]
    BY <1>3, <2>1 DEF TypeOK, ResultLost
  <2>3. QED
    BY <1>3, <2>2 DEF TypeOK, ResultLost
<1>4. QED
  BY <1>1, <1>2, <1>3 DEF WriterStep

\* The steps of validate_trade keep the state typed.
LEMMA CheckTypes ==
  ASSUME TypeOK, NEW k \in Checks, CheckStep(k)
  PROVE  TypeOK'
<1> DEFINE CheckState == [pc : {"idle", "read", "allowed", "refused", "raised"}, copy : Row]
<1>1. check \in [Checks -> CheckState] /\ row \in Row /\ IdleCheck \in CheckState
  BY DEF TypeOK, IdleCheck, NewRow, Row
<1>2. ASSUME NEW v \in {"allowed", "refused", "raised"}, Verdict(k, v)
      PROVE  check' \in [Checks -> CheckState]
  BY <1>1, <1>2 DEF Verdict
<1>3. CASE ReadProfile(k)
  <2>1. check' \in [Checks -> CheckState]
    BY <1>1, <1>3 DEF ReadProfile
  <2>2. QED
    BY <1>3, <2>1 DEF TypeOK, ReadProfile
<1>4. CASE Refuse(k)
  BY <1>2, <1>4 DEF TypeOK, Refuse
<1>5. CASE RefuseAndPause(k)
  <2>1. row' \in Row
    BY <1>1, <1>5 DEF RefuseAndPause, Row
  <2>2. QED
    BY <1>2, <1>5, <2>1 DEF TypeOK, RefuseAndPause
<1>6. CASE Allow(k)
  BY <1>2, <1>6 DEF TypeOK, Allow
<1>7. CASE EndCheck(k)
  <2>1. check' \in [Checks -> CheckState]
    BY <1>1, <1>7 DEF EndCheck
  <2>2. QED
    BY <1>7, <2>1 DEF TypeOK, EndCheck
<1>8. QED
  BY <1>3, <1>4, <1>5, <1>6, <1>7 DEF CheckStep

\* The steps of pause_trading and resume_trading keep the state typed.
LEMMA UserTypes ==
  ASSUME TypeOK, NEW u \in Users, UserStep(u)
  PROVE  TypeOK'
<1> DEFINE UserState == [pc : {"idle", "pause", "resume"}, base : Row]
<1>1. user \in [Users -> UserState] /\ row \in Row /\ IdleUser \in UserState
  BY DEF TypeOK, IdleUser, NewRow, Row
<1>2. ASSUME NEW what \in {"pause", "resume"}, UserReads(u, what) PROVE TypeOK'
  <2>1. user' \in [Users -> UserState]
    BY <1>1, <1>2 DEF UserReads
  <2>2. QED
    BY <1>2, <2>1 DEF TypeOK, UserReads
<1>3. CASE UserCommits(u)
  <2>1. [user[u].base EXCEPT !.paused = (user[u].pc = "pause")] \in Row
    BY <1>1 DEF Row
  <2>2. row' \in Row
    BY <1>1, <1>3, <2>1, MergeType DEF UserCommits
  <2>3. early' \subseteq Checks
    BY <1>3 DEF UserCommits, TypeOK
  <2>4. user' \in [Users -> UserState]
    BY <1>1, <1>3 DEF UserCommits
  <2>5. QED
    BY <1>3, <2>2, <2>3, <2>4 DEF TypeOK, UserCommits
<1>4. CASE UserFails(u)
  <2>1. user' \in [Users -> UserState]
    BY <1>1, <1>4 DEF UserFails
  <2>2. QED
    BY <1>4, <2>1 DEF TypeOK, UserFails
<1>5. QED
  BY <1>2, <1>3, <1>4 DEF UserStep

\* The row, the calls in flight and the accounts keep their types.
THEOREM TypeCorrect == Spec => []TypeOK
<1>1. Init => TypeOK
  <2>1. NewRow \in Row /\ MaxResults \in Nat
    BY RiskConstants DEF NewRow, Row
  <2>2. /\ IdleSession \in [pc : {"idle", "writing"}, base : Row, next : Row, lost : Nat]
        /\ IdleCheck \in [pc : {"idle", "read", "allowed", "refused", "raised"}, copy : Row]
        /\ IdleUser \in [pc : {"idle", "pause", "resume"}, base : Row]
    BY <2>1 DEF IdleSession, IdleCheck, IdleUser
  <2>3. ASSUME Init
        PROVE  /\ sess \in [Writers -> [pc : {"idle", "writing"}, base : Row, next : Row, lost : Nat]]
               /\ check \in [Checks -> [pc : {"idle", "read", "allowed", "refused", "raised"},
                                       copy : Row]]
               /\ user \in [Users -> [pc : {"idle", "pause", "resume"}, base : Row]]
    BY <2>2, <2>3 DEF Init
  <2>4. ASSUME Init
        PROVE  /\ row \in Row /\ kept \in [loss : Nat, streak : Nat]
               /\ results \in 0..MaxResults /\ early \subseteq Checks /\ overlapped \in BOOLEAN
    <3>1. kept \in [loss : Nat, streak : Nat] /\ early \subseteq Checks
      BY <2>4 DEF Init
    <3>2. overlapped \in BOOLEAN
      BY <2>4 DEF Init
    <3>3. row \in Row /\ results \in 0..MaxResults
      BY <2>1, <2>4 DEF Init
    <3>4. QED
      BY <3>1, <3>2, <3>3
  <2>5. QED
    BY <2>3, <2>4 DEF TypeOK
<1>2. TypeOK /\ [Next]_vars => TypeOK'
  <2> SUFFICES ASSUME TypeOK, [Next]_vars PROVE TypeOK'
    OBVIOUS
  <2>1. CASE UNCHANGED vars
    BY <2>1 DEF vars, TypeOK
  <2>2. QED
    BY <2>1, WriterTypes, CheckTypes, UserTypes DEF Next
<1>3. QED
  BY <1>1, <1>2, PTL DEF Spec

\* update_trade_result writes no pause and at most the committed losses and its own,
\* and the other calls write no counter.
THEOREM WritesSound == Spec => []WritesInv
<1>1. Init => WritesInv
  BY DEF Init, WritesInv, NoPhantomLoss, Pending, IdleSession, NewRow
<1>2. TypeOK /\ WritesInv /\ [Next]_vars => WritesInv'
  <2> SUFFICES ASSUME TypeOK, WritesInv, [Next]_vars PROVE WritesInv'
    OBVIOUS
  <2>1. ASSUME NEW w \in Writers, CommitResult(w) PROVE WritesInv'
    <3>1. /\ row \in Row /\ kept \in [loss : Nat, streak : Nat]
          /\ \A v \in Writers : sess[v].lost \in Nat /\ sess[v].next.loss \in Nat
      BY DEF TypeOK, Row
    <3>2. kept'.loss = kept.loss + sess[w].lost
      BY <2>1, <3>1, AddKeptType DEF CommitResult
    <3>3. row'.loss = row.loss \/ row'.loss = sess[w].next.loss
      BY <2>1 DEF CommitResult, Merge
    <3>4. row.loss <= kept.loss /\ sess[w].next.loss <= kept.loss + sess[w].lost
      BY <2>1 DEF CommitResult, WritesInv, NoPhantomLoss, Pending
    <3>5. row.loss \in Nat /\ kept.loss \in Nat
      BY <3>1 DEF Row
    <3>6. row'.loss <= kept'.loss
      BY <3>1, <3>2, <3>3, <3>4, <3>5
    <3>7. \A v \in Writers : Pending(v)' => v # w /\ Pending(v) /\ sess'[v] = sess[v]
      BY <2>1 DEF CommitResult, Pending, IdleSession, TypeOK
    <3>8. ASSUME NEW v \in Writers, Pending(v)'
          PROVE  /\ sess'[v].next.loss <= kept'.loss + sess'[v].lost
                 /\ sess'[v].next.paused = sess'[v].base.paused
      <4>1. /\ sess[v].next.loss <= kept.loss + sess[v].lost
            /\ sess[v].next.paused = sess[v].base.paused
            /\ sess'[v] = sess[v]
        BY <3>7, <3>8 DEF WritesInv
      <4>2. QED
        BY <3>1, <3>2, <3>5, <4>1
    <3>9. QED
      BY <3>6, <3>8 DEF WritesInv, NoPhantomLoss
  <2>2. ASSUME NEW w \in Writers, NEW lost \in Losses, TakeResult(w, lost) PROVE WritesInv'
    <3>1. lost \in Nat /\ row \in Row /\ kept \in [loss : Nat, streak : Nat]
      BY RiskConstants DEF TypeOK
    <3>2. kept' = kept /\ row' = row
      BY <2>2 DEF TakeResult
    <3>3. /\ sess'[w].next.loss = row.loss + lost /\ sess'[w].lost = lost
          /\ sess'[w].next.paused = sess'[w].base.paused
          /\ \A v \in Writers \ {w} : sess'[v] = sess[v]
      BY <2>2, <3>1, AddResultType DEF TakeResult, TypeOK
    <3>4. row.loss \in Nat /\ kept.loss \in Nat /\ row.loss <= kept.loss
      BY <3>1 DEF Row, WritesInv, NoPhantomLoss
    <3>5. \A v \in Writers : Pending(v)' =>
            /\ sess'[v].next.loss <= kept'.loss + sess'[v].lost
            /\ sess'[v].next.paused = sess'[v].base.paused
      BY <3>1, <3>2, <3>3, <3>4 DEF WritesInv, Pending
    <3>6. QED
      BY <3>2, <3>4, <3>5 DEF WritesInv, NoPhantomLoss
  <2>3. ASSUME UNCHANGED <<sess, kept>>, row'.loss = row.loss PROVE WritesInv'
    BY <2>3 DEF WritesInv, NoPhantomLoss, Pending
  <2>4. ASSUME NEW k \in Checks, CheckStep(k) PROVE WritesInv'
    BY <2>3, <2>4 DEF CheckStep, ReadProfile, Refuse, RefuseAndPause, Allow, EndCheck, TypeOK, Row
  <2>5. ASSUME NEW u \in Users, UserStep(u) PROVE WritesInv'
    <3>1. \A v \in Users : user[v].base \in Row
      BY DEF TypeOK
    <3>2. QED
      BY <2>3, <2>5, <3>1 DEF UserStep, UserReads, UserCommits, UserFails, Merge, Row
  <2>6. CASE UNCHANGED vars
    BY <2>3, <2>6 DEF vars
  <2>7. ASSUME NEW w \in Writers, ResultLost(w) PROVE WritesInv'
    <3>1. /\ row' = row /\ kept' = kept
          /\ \A v \in Writers : Pending(v)' => Pending(v) /\ sess'[v] = sess[v]
      BY <2>7 DEF ResultLost, Pending, IdleSession, TypeOK
    <3>2. QED
      BY <3>1 DEF WritesInv, NoPhantomLoss
  <2>8. QED
    BY <2>1, <2>2, <2>4, <2>5, <2>6, <2>7 DEF Next, WriterStep
<1>3. QED
  BY <1>1, <1>2, TypeCorrect, PTL DEF Spec

\* The loss counter of the row never exceeds what the closed trades lost.
THEOREM LossNeverOverstated == Spec => []NoPhantomLoss
<1>1. WritesInv => NoPhantomLoss
  BY DEF WritesInv
<1>2. QED
  BY <1>1, WritesSound, PTL

\* Only a resume request ends a pause.
THEOREM PausesSurvive == Spec => PauseSurvives
<1>1. TypeOK /\ WritesInv /\ [Next]_vars =>
        (row.paused /\ ~row'.paused => \E u \in Users : user[u].pc = "resume")
  <2> SUFFICES ASSUME TypeOK, WritesInv, [Next]_vars, row.paused, ~row'.paused
               PROVE  \E u \in Users : user[u].pc = "resume"
    OBVIOUS
  <2>1. ASSUME NEW w \in Writers, WriterStep(w) PROVE FALSE
    <3>1. CASE CommitResult(w)
      <4>1. sess[w].next.paused = sess[w].base.paused
        BY <3>1 DEF CommitResult, WritesInv, Pending
      <4>2. row'.paused = row.paused
        BY <3>1, <4>1 DEF CommitResult, Merge
      <4>3. QED
        BY <4>2
    <3>2. CASE \E lost \in Losses : TakeResult(w, lost)
      BY <3>2 DEF TakeResult
    <3>3. CASE ResultLost(w)
      BY <3>3 DEF ResultLost
    <3>4. QED
      BY <2>1, <3>1, <3>2, <3>3 DEF WriterStep
  <2>2. ASSUME NEW k \in Checks, CheckStep(k) PROVE FALSE
    BY <2>2 DEF CheckStep, ReadProfile, Refuse, RefuseAndPause, Allow, EndCheck, TypeOK, Row
  <2>3. ASSUME NEW u \in Users, UserStep(u) PROVE user[u].pc = "resume"
    <3>1. user[u].base \in Row /\ user[u].pc \in {"idle", "pause", "resume"}
      BY DEF TypeOK
    <3>2. CASE UserCommits(u)
      <4>1. CASE user[u].pc = "pause"
        BY <3>1, <3>2, <4>1 DEF UserCommits, Merge, Row
      <4>2. QED
        BY <3>1, <3>2, <4>1 DEF UserCommits
    <3>3. CASE \E what \in {"pause", "resume"} : UserReads(u, what)
      BY <3>3 DEF UserReads
    <3>4. CASE UserFails(u)
      BY <3>4 DEF UserFails
    <3>5. QED
      BY <2>3, <3>2, <3>3, <3>4 DEF UserStep
  <2>4. QED
    BY <2>1, <2>2, <2>3 DEF Next, vars
<1>2. QED
  BY <1>1, TypeCorrect, WritesSound, PTL DEF Spec, PauseSurvives

\* A result in flight alone was computed from the counters the row still has.
LEMMA ExactStep ==
  ASSUME TypeOK, ExactInv, [Next]_vars
  PROVE  ExactInv'
<1>1. ASSUME UNCHANGED <<sess, kept, overlapped>>, row'.loss = row.loss, row'.streak = row.streak
      PROVE  ExactInv'
  BY <1>1 DEF ExactInv, CountersExact, Pending
<1>2. ASSUME NEW w \in Writers, CommitResult(w) PROVE ExactInv'
  <2> SUFFICES ASSUME ~overlapped' PROVE ExactInv'
    BY DEF ExactInv
  <2> DEFINE next == AddResult(sess[w].base, sess[w].lost)
  <2>1. /\ \A v \in Writers : Pending(v) <=> v = w
        /\ sess[w].base.loss = row.loss /\ sess[w].base.streak = row.streak
        /\ sess[w].next.loss = next.loss /\ sess[w].next.streak = next.streak
        /\ row.loss = kept.loss /\ row.streak = kept.streak
        /\ kept' = AddResult(kept, sess[w].lost)
    BY <1>2 DEF CommitResult, ExactInv, CountersExact, Pending
  <2>2. /\ sess[w].base \in Row /\ sess[w].lost \in Nat
        /\ kept \in [loss : Nat, streak : Nat]
    BY DEF TypeOK
  <2>3. next.loss = kept'.loss /\ next.streak = kept'.streak
    BY <2>1, <2>2, AddResultAgrees
  <2>4. row'.loss = sess[w].next.loss /\ row'.streak = sess[w].next.streak
    BY <1>2, <2>1 DEF CommitResult, Merge
  <2>5. \A v \in Writers : ~Pending(v)'
    BY <1>2, <2>1 DEF CommitResult, Pending, IdleSession, TypeOK
  <2>6. QED
    BY <2>1, <2>3, <2>4, <2>5 DEF ExactInv, CountersExact
<1>3. ASSUME NEW w \in Writers, NEW lost \in Losses, TakeResult(w, lost) PROVE ExactInv'
  <2> SUFFICES ASSUME ~overlapped' PROVE ExactInv'
    BY DEF ExactInv
  <2>1. /\ \A v \in Writers : ~Pending(v)
        /\ row.loss = kept.loss /\ row.streak = kept.streak
        /\ row' = row /\ kept' = kept
    BY <1>3 DEF TakeResult, ExactInv, CountersExact
  <2>2. /\ sess'[w].base = row /\ sess'[w].next = AddResult(row, lost) /\ sess'[w].lost = lost
        /\ sess'[w].pc = "writing"
        /\ \A v \in Writers \ {w} : sess'[v] = sess[v]
    BY <1>3 DEF TakeResult, TypeOK
  <2>3. \A v \in Writers : Pending(v)' <=> v = w
    BY <2>1, <2>2 DEF Pending
  <2>4. QED
    BY <2>1, <2>2, <2>3 DEF ExactInv, CountersExact
<1>4. ASSUME NEW k \in Checks, CheckStep(k) PROVE ExactInv'
  BY <1>1, <1>4 DEF CheckStep, ReadProfile, Refuse, RefuseAndPause, Allow, EndCheck, TypeOK, Row
<1>5. ASSUME NEW u \in Users, UserStep(u) PROVE ExactInv'
  <2>1. \A v \in Users : user[v].base \in Row
    BY DEF TypeOK
  <2>2. QED
    BY <1>1, <1>5, <2>1 DEF UserStep, UserReads, UserCommits, UserFails, Merge, Row
<1>6. CASE UNCHANGED vars
  BY <1>1, <1>6 DEF vars
<1>7. ASSUME NEW w \in Writers, ResultLost(w) PROVE ExactInv'
  <2>1. /\ row' = row /\ kept' = kept /\ overlapped' = overlapped
        /\ \A v \in Writers : Pending(v)' => Pending(v) /\ sess'[v] = sess[v]
    BY <1>7 DEF ResultLost, Pending, IdleSession, TypeOK
  <2>2. QED
    BY <2>1 DEF ExactInv, CountersExact
<1>8. QED
  BY <1>2, <1>3, <1>4, <1>5, <1>6, <1>7 DEF Next, WriterStep

\* As long as no two results were in flight together, the row's counters are
\* those of an exact account of the results whose update was committed: a failed
\* or cancelled update takes no other result with it.
THEOREM ExactWhenSerial == Spec => []ExactUnlessOverlapped
<1>1. Init => ExactInv
  BY DEF Init, ExactInv, CountersExact, Pending, IdleSession, NewRow
<1>2. ExactInv => ExactUnlessOverlapped
  BY DEF ExactInv, ExactUnlessOverlapped
<1>3. QED
  BY <1>1, <1>2, ExactStep, TypeCorrect, PTL DEF Spec

\* What PauseHonoured rests on: a check that goes on with an unpaused copy of a
\* paused row had read it before a pause was committed.
PauseSeen ==
  \A k \in Checks : check[k].pc = "read" /\ row.paused => check[k].copy.paused \/ k \in early

\* A step that leaves the pause where it was reads it correctly, and one that sets
\* it takes note of the checks that are under way.
LEMMA PauseSeenStep ==
  ASSUME TypeOK, WritesInv, PauseSeen, [Next]_vars
  PROVE  PauseSeen'
<1>1. ASSUME UNCHANGED <<check, early>>, row'.paused = row.paused PROVE PauseSeen'
  BY <1>1 DEF PauseSeen
<1>2. ASSUME NEW w \in Writers, CommitResult(w) PROVE PauseSeen'
  <2>1. sess[w].next.paused = sess[w].base.paused
    BY <1>2 DEF CommitResult, WritesInv, Pending
  <2>2. row'.paused = row.paused
    BY <1>2, <2>1 DEF CommitResult, Merge
  <2>3. QED
    BY <1>1, <1>2, <2>2 DEF CommitResult
<1>3. ASSUME NEW w \in Writers, NEW lost \in Losses, TakeResult(w, lost) PROVE PauseSeen'
  BY <1>1, <1>3 DEF TakeResult
<1>4. ASSUME NEW k \in Checks, CheckStep(k) PROVE PauseSeen'
  <2>1. CASE ReadProfile(k)
    <3>1. /\ check'[k].copy = row /\ row' = row
          /\ \A c \in Checks \ {k} : check'[c] = check[c] /\ (c \in early' <=> c \in early)
      BY <2>1 DEF ReadProfile, TypeOK
    <3>2. QED
      BY <3>1 DEF PauseSeen
  <2>2. CASE RefuseAndPause(k)
    <3>1. /\ check'[k].pc = "refused"
          /\ \A c \in Checks \ {k} : check'[c] = check[c]
          /\ early' = early \cup {c \in Checks : check[c].pc = "read" /\ ~check[c].copy.paused}
      BY <2>2 DEF RefuseAndPause, Verdict, TypeOK
    <3>2. QED
      BY <3>1 DEF PauseSeen
  <2>3. CASE Refuse(k) \/ Allow(k) \/ EndCheck(k)
    <3>1. /\ row' = row /\ early' = early /\ check'[k].pc # "read"
          /\ \A c \in Checks \ {k} : check'[c] = check[c]
      BY <2>3 DEF Refuse, Allow, EndCheck, Verdict, IdleCheck, TypeOK
    <3>2. QED
      BY <3>1 DEF PauseSeen
  <2>4. QED
    BY <1>4, <2>1, <2>2, <2>3 DEF CheckStep
<1>5. ASSUME NEW u \in Users, UserStep(u) PROVE PauseSeen'
  <2>1. CASE \E what \in {"pause", "resume"} : UserReads(u, what)
    BY <1>1, <2>1 DEF UserReads
  <2>2. CASE UserCommits(u)
    <3>1. check' = check
      BY <2>2 DEF UserCommits
    <3>2. row'.paused =>
            early' = early \cup {c \in Checks : check[c].pc = "read" /\ ~check[c].copy.paused}
      BY <2>2 DEF UserCommits
    <3>3. QED
      BY <3>1, <3>2 DEF PauseSeen
  <2>3. CASE UserFails(u)
    BY <1>1, <2>3 DEF UserFails
  <2>4. QED
    BY <1>5, <2>1, <2>2, <2>3 DEF UserStep
<1>6. CASE UNCHANGED vars
  BY <1>1, <1>6 DEF vars
<1>7. ASSUME NEW w \in Writers, ResultLost(w) PROVE PauseSeen'
  BY <1>1, <1>7 DEF ResultLost
<1>8. QED
  BY <1>2, <1>3, <1>4, <1>5, <1>6, <1>7 DEF Next, WriterStep

\* validate_trade allows a trade of a paused account only to a call that had read the
\* profile before the pause was committed, however many checks, results and pauses
\* are under way.
THEOREM PausesHonoured == Spec => PauseHonoured
<1>1. Init => PauseSeen
  BY DEF Init, PauseSeen, IdleCheck
<1>2. TypeOK /\ PauseSeen /\ [Next]_vars =>
        \A k \in Checks :
          (row.paused /\ check[k].pc = "read" /\ check'[k].pc = "allowed") => k \in early
  <2> SUFFICES ASSUME TypeOK, PauseSeen, [Next]_vars, NEW k \in Checks,
                      row.paused, check[k].pc = "read", check'[k].pc = "allowed"
               PROVE  k \in early
    OBVIOUS
  <2>1. CASE check' = check
    BY <2>1
  <2>2. ASSUME NEW c \in Checks, CheckStep(c) PROVE k \in early
    <3>1. CASE c # k
      BY <2>2, <3>1 DEF CheckStep, ReadProfile, Refuse, RefuseAndPause, Allow, EndCheck, Verdict, TypeOK
    <3>2. CASE c = k
      <4>1. CASE Allow(k)
        BY <4>1 DEF Allow, Blocked, PauseSeen
      <4>2. QED
        BY <2>2, <3>2, <4>1 DEF CheckStep, ReadProfile, Refuse, RefuseAndPause, EndCheck, Verdict, TypeOK
    <3>3. QED
      BY <3>1, <3>2
  <2>3. QED
    BY <2>1, <2>2 DEF Next, WriterStep, UserStep, CommitResult, ResultLost, TakeResult, UserReads,
                           UserCommits, UserFails, vars
<1>3. QED
  BY <1>1, <1>2, PauseSeenStep, TypeCorrect, WritesSound, PTL DEF Spec, PauseHonoured
=============================================================================
