---------------------------- MODULE Qualification ----------------------------
(***************************************************************************)
(* From a historical dataset to the admission of live trading: the import  *)
(* of a dataset (backend/app/backtesting/data.py), the walk-forward        *)
(* validation (run_walk_forward in engine.py), the report it leaves        *)
(* (evidence.py) and the check of that report when live trading is started *)
(* (backend/app/api/v1/trading.py).                                        *)
(*                                                                         *)
(* Imports, validations (API or script) and the server are different       *)
(* processes that share three files: dataset, manifest and report.  A      *)
(* validation loads the dataset once to lay out its windows, and each of   *)
(* its simulations loads it again.  There is one import at a time; nothing *)
(* in data.py keeps an operator from starting two.                         *)
(*                                                                         *)
(* A candle stands for a block of candles.  What a simulation measures is  *)
(* arbitrary: "win" passes the comparisons of its stage, "poor" does not.  *)
(* The specification has names of its own, because a module that speaks of *)
(* one simulation and of the evidence built on many extends Backtest too.  *)
(***************************************************************************)
EXTENDS Integers

CONSTANTS
  Files,          \* datasets an operator may import
  NoFile,         \* not a dataset
  Walks,          \* concurrent validations
  Candidates,     \* number of parameter candidates
  Length,         \* candles of a dataset ...
  PartLength,     \* ... and of one that is still being written
  Train, Test, Step, Holdout,   \* sizes of the request
  MinWindows,     \* valid windows a promising result needs
  MaxImports,     \* bound: imports
  MaxRuns         \* bound: validations

ASSUME QualificationConstants ==
  /\ NoFile \notin Files
  /\ Candidates \in Nat \ {0}
  /\ Length \in Nat /\ PartLength \in 0..Length
  /\ {Train, Test, Step, Holdout, MinWindows} \subseteq Nat \ {0}
  /\ MaxImports \in Nat /\ MaxRuns \in Nat

VARIABLES
  data,      \* the dataset file
  manifest,  \* the dataset whose fingerprint is in the manifest
  imports,   \* imports begun
  importing, \* step of the import in progress, or "idle"
  walk,      \* the validations in progress
  runs,      \* validations begun
  tmp,       \* the temporary file of save_qualification
  report,    \* the qualification report
  start      \* the start of live trading that is being checked

evidenceVars == <<data, manifest, imports, importing, walk, runs, tmp, report, start>>

Contents == [file : Files, whole : BOOLEAN]
NoData == [file |-> NoFile, whole |-> FALSE]

\* loaded, replaced and valid are history of an approved report: the dataset the
\* validation laid its windows out on, whether it was written before the report was,
\* and the number of valid windows.
Report == [data : Contents, approved : BOOLEAN, loaded : Contents \cup {NoData},
           replaced : BOOLEAN, valid : Nat]
NoReport == [data |-> NoData, approved |-> FALSE, loaded |-> NoData, replaced |-> FALSE,
             valid |-> 0]

Scores == -1..1     \* _walk_forward_score, -1 for an error

\* replaced, trained and known are history: whether the dataset was written
\* meanwhile, and the last candle the selection of this window, and any simulation
\* so far, has seen.
IdleWalk == [pc |-> "idle", loaded |-> NoData, at |-> 0, next |-> 1, best |-> 1, score |-> -1,
             picks |-> [c \in 1..Candidates |-> 0], valid |-> 0, won |-> 0, passed |-> FALSE,
             replaced |-> FALSE, trained |-> 0, known |-> 0]
WalkState ==
  [pc : {"idle", "train", "test", "holdout", "stress", "save", "rename"},
   loaded : Contents \cup {NoData}, at : Nat, next : 1..Candidates + 1, best : 1..Candidates,
   score : Scores, picks : [1..Candidates -> Nat], valid : Nat, won : Nat, passed : BOOLEAN,
   replaced : BOOLEAN, trained : Nat, known : Nat]

IdleStart == [pc |-> "idle", seen |-> NoData]

EvidenceTypeOK ==
  /\ data \in Contents \cup {NoData}
  /\ manifest \in Contents \cup {NoData}
  /\ imports \in 0..MaxImports
  /\ importing \in {"idle", "data", "manifest"}
  /\ walk \in [Walks -> WalkState]
  /\ runs \in 0..MaxRuns
  /\ tmp \in Report \cup {NoReport}
  /\ report \in Report \cup {NoReport}
  /\ start \in [pc : {"idle", "manifest", "report", "admitted"},
                seen : Contents \cup {NoData}]

EvidenceInit ==
  /\ data = NoData
  /\ manifest = NoData
  /\ imports = 0
  /\ importing = "idle"
  /\ walk = [w \in Walks |-> IdleWalk]
  /\ runs = 0
  /\ tmp = NoReport
  /\ report = NoReport
  /\ start = IdleStart

(***************************************************************************)
(* import_ohlcv_csv: the dataset, written in place, and then the manifest. *)
(***************************************************************************)
Rewritten(content) ==
  /\ data' = content
  /\ walk' = [w \in Walks |-> IF walk[w].pc = "idle" THEN walk[w]
                              ELSE [walk[w] EXCEPT !.replaced = TRUE]]

\* The new dataset is valid; the file is opened for writing.
Import(f) ==
  /\ importing = "idle"
  /\ imports < MaxImports
  /\ imports' = imports + 1
  /\ importing' = "data"
  /\ Rewritten([file |-> f, whole |-> FALSE])
  /\ UNCHANGED <<manifest, runs, tmp, report, start>>

ImportData ==
  /\ importing = "data"
  /\ importing' = "manifest"
  /\ Rewritten([data EXCEPT !.whole = TRUE])
  /\ UNCHANGED <<manifest, imports, runs, tmp, report, start>>

\* The manifest gets the fingerprint of the file as it is now.
ImportManifest ==
  /\ importing = "manifest"
  /\ importing' = "idle"
  /\ manifest' = data
  /\ UNCHANGED <<data, imports, walk, runs, tmp, report, start>>

ImportDies ==
  /\ importing # "idle"
  /\ importing' = "idle"
  /\ UNCHANGED <<data, manifest, imports, walk, runs, tmp, report, start>>

(***************************************************************************)
(* run_walk_forward.                                                       *)
(***************************************************************************)
LengthOf(content) ==
  IF content = NoData THEN 0 ELSE IF content.whole THEN Length ELSE PartLength

\* Mutant: the windows reach into the holdout.
ResearchAll(content) == LengthOf(content)

\* The candles before the holdout.
Research(content) == LengthOf(content) - Holdout

Required == Train + Test + Holdout

\* The window whose test begins at the given candle, or the holdout after the last one.
Window(k, at) ==
  [k EXCEPT !.at = at, !.next = 1, !.best = 1, !.score = -1, !.trained = 0,
            !.pc = IF at + Test - 1 <= Research(k.loaded) THEN "train" ELSE "holdout"]

\* The dataset is loaded and long enough.
Load(w) ==
  /\ walk[w].pc = "idle"
  /\ runs < MaxRuns
  /\ runs' = runs + 1
  /\ LengthOf(data) >= Required
  /\ walk' = [walk EXCEPT ![w] =
                Window([IdleWalk EXCEPT !.loaded = data], Train + 1)]
  /\ UNCHANGED <<data, manifest, imports, importing, tmp, report, start>>

\* A simulation on the loaded candles ends without an error; another dataset may lack
\* the period.
Measured(w) == {"win", "poor"} \cup (IF data = walk[w].loaded THEN {} ELSE {"error"})

\* What a simulation of the candles up to the last one leaves behind.
Simulated(k, last) == [k EXCEPT !.known = IF last > @ THEN last ELSE @]

TrainedTo(w) == walk[w].at - 1

\* A candidate is run on the training period: the first of the best is selected.
TrainOne(w) ==
  LET k == walk[w] IN
  /\ k.pc = "train"
  /\ k.next <= Candidates
  /\ \E score \in IF "error" \in Measured(w) THEN Scores ELSE Scores \ {-1} :
       walk' = [walk EXCEPT ![w] =
         [Simulated(k, TrainedTo(w)) EXCEPT
            !.next = @ + 1,
            !.trained = TrainedTo(w),
            !.best = IF score > k.score THEN k.next ELSE @,
            !.score = IF score > @ THEN score ELSE @]]
  /\ UNCHANGED <<data, manifest, imports, importing, runs, tmp, report, start>>

Select(w) ==
  /\ walk[w].pc = "train"
  /\ walk[w].next > Candidates
  /\ walk' = [walk EXCEPT ![w] = [walk[w] EXCEPT !.pc = "test", !.picks[walk[w].best] = @ + 1]]
  /\ UNCHANGED <<data, manifest, imports, importing, runs, tmp, report, start>>

\* The selected candidate is run on the test period.
TestOne(w) ==
  LET k == walk[w] IN
  /\ k.pc = "test"
  /\ \E m \in Measured(w) :
       walk' = [walk EXCEPT ![w] =
         Window([Simulated(k, k.at + Test - 1) EXCEPT
                   !.valid = IF m = "error" THEN @ ELSE @ + 1,
                   !.won = IF m = "win" THEN @ + 1 ELSE @], k.at + Step)]
  /\ UNCHANGED <<data, manifest, imports, importing, runs, tmp, report, start>>

Sum(k) == LET f[c \in 0..Candidates] == IF c = 0 THEN 0 ELSE f[c - 1] + k.picks[c] IN f[Candidates]

\* Without enough valid windows there is no evidence; the trades, the profit and the
\* drawdown of the windows, which are not modelled, may refuse it as well.
Promising(k) == k.valid >= MinWindows /\ 100 * k.won >= 60 * k.valid

\* The most frequent selection was made in enough of the windows.
Stable(k) == \E c \in 1..Candidates : 100 * k.picks[c] >= 40 * Sum(k)

\* The holdout, with the candidate selected most often.
HoldoutRun(w) ==
  LET k == walk[w] IN
  /\ k.pc = "holdout"
  /\ \E m \in Measured(w), promising \in {FALSE, Promising(k)} :
       walk' = [walk EXCEPT ![w] =
         [Simulated(k, LengthOf(k.loaded)) EXCEPT
            !.passed = promising /\ Stable(k) /\ m = "win", !.pc = "stress"]]
  /\ UNCHANGED <<data, manifest, imports, importing, runs, tmp, report, start>>

\* The holdout again at higher costs, and the promotion gate.
StressRun(w) ==
  LET k == walk[w] IN
  /\ k.pc = "stress"
  /\ \E m \in Measured(w) :
       walk' = [walk EXCEPT ![w] =
         [Simulated(k, LengthOf(k.loaded)) EXCEPT !.passed = k.passed /\ m = "win", !.pc = "save"]]
  /\ UNCHANGED <<data, manifest, imports, importing, runs, tmp, report, start>>

\* A file that is being written may not even parse; or the process dies.
WalkDies(w) ==
  /\ walk[w].pc # "idle"
  /\ walk' = [walk EXCEPT ![w] = IdleWalk]
  /\ UNCHANGED <<data, manifest, imports, importing, runs, tmp, report, start>>

(***************************************************************************)
(* save_qualification: a temporary file is renamed.                        *)
(***************************************************************************)
\* The report gets the fingerprint of the file as it is now.  Fingerprint and temporary
\* file are one step: what is written does not depend on what others do in between.
SaveWrite(w) ==
  LET k == walk[w] IN
  /\ k.pc = "save"
  /\ tmp' = IF k.passed
            THEN [data |-> data, approved |-> TRUE, loaded |-> k.loaded,
                  replaced |-> k.replaced, valid |-> k.valid]
            ELSE [NoReport EXCEPT !.data = data]
  /\ walk' = [walk EXCEPT ![w] = [IdleWalk EXCEPT !.pc = "rename"]]
  /\ UNCHANGED <<data, manifest, imports, importing, runs, report, start>>

\* Another validation may have written the temporary file since, or renamed it:
\* then the call raises.
SaveRename(w) ==
  /\ walk[w].pc = "rename"
  /\ report' = IF tmp = NoReport THEN report ELSE tmp
  /\ tmp' = NoReport
  /\ walk' = [walk EXCEPT ![w] = IdleWalk]
  /\ UNCHANGED <<data, manifest, imports, importing, runs, start>>

(***************************************************************************)
(* start_trading on a live broker, once arming, Redis, emergency stop and  *)
(* paper burn-in have been checked: qualification_readiness reads the      *)
(* dataset, the manifest and the report one after the other.               *)
(***************************************************************************)
StartChecks ==
  /\ start.pc = "idle"
  /\ data # NoData
  /\ start' = [IdleStart EXCEPT !.pc = "manifest", !.seen = data]
  /\ UNCHANGED <<data, manifest, imports, importing, walk, runs, tmp, report>>

StartReadsManifest ==
  /\ start.pc = "manifest"
  /\ start' = IF manifest = start.seen THEN [start EXCEPT !.pc = "report"] ELSE IdleStart
  /\ UNCHANGED <<data, manifest, imports, importing, walk, runs, tmp, report>>

\* Mutant: the report need not be about this dataset.
AdmitsAny(seen, r) == r.approved

Admits(seen, r) == r.data = seen /\ r.approved

StartReadsReport ==
  /\ start.pc = "report"
  /\ start' = IF Admits(start.seen, report)
              THEN [IdleStart EXCEPT !.pc = "admitted"] ELSE IdleStart
  /\ UNCHANGED <<data, manifest, imports, importing, walk, runs, tmp, report>>

\* The engine manager is asked to start.
StartDone ==
  /\ start.pc = "admitted"
  /\ start' = IdleStart
  /\ UNCHANGED <<data, manifest, imports, importing, walk, runs, tmp, report>>

WalkStep(w) ==
  \/ Load(w) \/ TrainOne(w) \/ Select(w) \/ TestOne(w) \/ HoldoutRun(w) \/ StressRun(w)
  \/ WalkDies(w) \/ SaveWrite(w) \/ SaveRename(w)

EvidenceNext ==
  \/ \E f \in Files : Import(f)
  \/ ImportData \/ ImportManifest \/ ImportDies
  \/ \E w \in Walks : WalkStep(w)
  \/ StartChecks \/ StartReadsManifest \/ StartReadsReport \/ StartDone

EvidenceSpec == EvidenceInit /\ [][EvidenceNext]_evidenceVars

(***************************************************************************)
(* Properties.                                                             *)
(***************************************************************************)
\* Live trading is admitted only on an approved report of enough valid windows, made
\* on the very dataset the check began with, although three files are read one after
\* the other while others write them, unless a dataset was imported while that
\* validation ran.
AdmittedOnEvidence ==
  [][start'.pc = "admitted" /\ start.pc # "admitted" =>
       /\ report.approved
       /\ report.valid >= MinWindows
       /\ report.loaded = start.seen \/ report.replaced]_evidenceVars

\* A test period has not been seen by the selection it tests, and the holdout by
\* no simulation before its own.
Unseen ==
  \A w \in Walks :
    /\ walk[w].pc = "test" => walk[w].trained < walk[w].at
    /\ walk[w].pc \in {"train", "test", "holdout"} =>
         walk[w].known <= LengthOf(walk[w].loaded) - Holdout
=============================================================================
