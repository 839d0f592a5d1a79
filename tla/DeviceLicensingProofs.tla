------------------------- MODULE DeviceLicensingProofs -------------------------
(***************************************************************************)
(* Proofs about DeviceLicensing, for any finite sets of devices and of     *)
(* concurrent requests, any limit and any number of activations.           *)
(***************************************************************************)
EXTENDS DeviceLicensing, FiniteSetTheorems, TLAPS

TokenState == [state : {"none", "live", "revoked"}, device : Devices \cup {NoDevice}]
CallState == [pc : Steps, device : Devices \cup {NoDevice}, token : 0..MaxTokens,
              same : BOOLEAN, raced : BOOLEAN]

\* A request that works on a device has one, and one that works on an activation
\* works on one that was issued.
RequestsHold ==
  \A c \in Callers :
    /\ call[c].pc \in Activating \cup {"deactivate", "block"} => call[c].device \in Devices
    /\ call[c].pc = "cache" => call[c].token \in 1..lastToken
    /\ call[c].pc = "revoke" => call[c].token \in Tokens

\* What type correctness rests on: the entry in Redis and the history of a device
\* are written for what the request holds.
TypeInv == TypeOK /\ RequestsHold

(***************************************************************************)
(* Lemmas about the operators.                                             *)
(***************************************************************************)
\* An idle request is one.
LEMMA IdleType == Idle \in CallState
BY DeviceConstants DEF Idle, CallState, Steps, Activating

\* Revoking activations leaves their rows typed and their devices alone.
LEMMA RevokedType ==
  ASSUME TypeOK, NEW T
  PROVE  Revoked(T) \in [Tokens -> TokenState]
<1>1. token \in [Tokens -> TokenState]
  BY DEF TypeOK, TokenState
<1>2. \A t \in Tokens : [token[t] EXCEPT !.state = "revoked"] \in TokenState
  BY <1>1 DEF TokenState
<1>3. QED
  BY <1>1, <1>2 DEF Revoked

\* A request goes on to another step with what it holds, and the others stay.
LEMMA GotoEffect ==
  ASSUME TypeOK, NEW c \in Callers, NEW pc \in Steps, Goto(c, pc)
  PROVE  /\ call' \in [Callers -> CallState]
         /\ call'[c] = [call[c] EXCEPT !.pc = pc]
         /\ call'[c].pc = pc /\ call'[c].device = call[c].device
         /\ call'[c].token = call[c].token /\ call'[c].raced = call[c].raced
         /\ \A b \in Callers \ {c} : call'[b] = call[b]
<1>1. call \in [Callers -> CallState] /\ call[c] \in CallState
  BY DEF TypeOK, CallState
<1>2. [call[c] EXCEPT !.pc = pc] \in CallState
  BY <1>1 DEF CallState
<1>3. call' = [call EXCEPT ![c] = [call[c] EXCEPT !.pc = pc]]
  BY <1>1 DEF Goto
<1>4. call' \in [Callers -> CallState] /\ call'[c] = [call[c] EXCEPT !.pc = pc]
  BY <1>1, <1>2, <1>3
<1>5. /\ call'[c].pc = pc /\ call'[c].device = call[c].device
      /\ call'[c].token = call[c].token /\ call'[c].raced = call[c].raced
  BY <1>1, <1>4 DEF CallState
<1>6. QED
  BY <1>1, <1>3, <1>4, <1>5

\* A request ends, and the others stay.
LEMMA DoneEffect ==
  ASSUME TypeOK, NEW c \in Callers, Done(c)
  PROVE  /\ call' \in [Callers -> CallState]
         /\ call'[c] = Idle /\ call'[c].pc = "idle"
         /\ \A b \in Callers \ {c} : call'[b] = call[b]
<1>1. call \in [Callers -> CallState]
  BY DEF TypeOK, CallState
<1>2. QED
  BY <1>1, IdleType DEF Done, Idle

\* A request that switches a device off ends; the others keep their step and what
\* they hold, and those that activate the device learn of it.
LEMMA DoneRacingEffect ==
  ASSUME TypeOK, NEW c \in Callers, NEW d, DoneRacing(c, d)
  PROVE  /\ call' \in [Callers -> CallState]
         /\ call'[c] = Idle /\ call'[c].pc = "idle"
         /\ \A b \in Callers \ {c} :
              /\ call'[b].pc = call[b].pc /\ call'[b].device = call[b].device
              /\ call'[b].token = call[b].token
              /\ call[b].raced => call'[b].raced
              /\ call[b].pc \in Activating /\ call[b].device = d => call'[b].raced
<1>1. call \in [Callers -> CallState]
  BY DEF TypeOK, CallState
<1>2. \A b \in Callers : [call[b] EXCEPT !.raced = TRUE] \in CallState
  BY <1>1 DEF CallState
<1>3. call' \in [Callers -> CallState]
  BY <1>1, <1>2, IdleType DEF DoneRacing
<1>4. call'[c] = Idle
  BY DEF DoneRacing
<1>5. ASSUME NEW b \in Callers \ {c}
      PROVE  \/ /\ call[b].pc \in Activating /\ call[b].device = d
                /\ call'[b] = [call[b] EXCEPT !.raced = TRUE]
             \/ /\ ~(call[b].pc \in Activating /\ call[b].device = d)
                /\ call'[b] = call[b]
  BY DEF DoneRacing
<1>6. \A b \in Callers : call[b] \in CallState
  BY <1>1
<1>7. QED
  BY <1>3, <1>4, <1>5, <1>6 DEF Idle, CallState

\* The effect of DeactivateAll on the requests: the caller begins its own pass, the
\* others keep what they do, and every activating one has been raced.
LEMMA DeactivateAllEffect ==
  ASSUME TypeOK, NEW c \in Callers, DeactivateAll(c)
  PROVE  /\ call' \in [Callers -> CallState]
         /\ call'[c].pc = "sweep"
         /\ \A b \in Callers \ {c} :
              /\ call'[b].pc = call[b].pc /\ call'[b].device = call[b].device
              /\ call'[b].token = call[b].token
              /\ call[b].pc \in Activating => call'[b].raced
<1>1. call \in [Callers -> CallState]
  BY DEF TypeOK, CallState
<1>2. [Idle EXCEPT !.pc = "sweep"] \in CallState /\ [Idle EXCEPT !.pc = "sweep"].pc = "sweep"
  BY IdleType DEF CallState, Idle, Steps
<1>3. \A b \in Callers : [call[b] EXCEPT !.raced = (call[b].pc \in Activating)] \in CallState
  <2>1. \A x \in CallState, v \in BOOLEAN : [x EXCEPT !.raced = v] \in CallState
    BY DEF CallState
  <2>2. \A b \in Callers : (call[b].pc \in Activating) \in BOOLEAN
    OBVIOUS
  <2>3. QED
    BY <1>1, <2>1, <2>2
<1>4. call' = [b \in Callers |->
                 IF b = c THEN [Idle EXCEPT !.pc = "sweep"]
                 ELSE [call[b] EXCEPT !.raced = (call[b].pc \in Activating)]]
  BY DEF DeactivateAll
<1>5. call' \in [Callers -> CallState]
  <2> DEFINE f(b) == IF b = c THEN [Idle EXCEPT !.pc = "sweep"]
                     ELSE [call[b] EXCEPT !.raced = (call[b].pc \in Activating)]
  <2>1. \A b \in Callers : f(b) \in CallState
    BY <1>2, <1>3
  <2>2. call' = [b \in Callers |-> f(b)]
    BY <1>4
  <2> HIDE DEF f
  <2>3. QED
    BY <2>1, <2>2
<1>6. call'[c].pc = "sweep"
  BY <1>2, <1>4
<1>7. ASSUME NEW b \in Callers \ {c}
      PROVE  /\ call'[b].pc = call[b].pc /\ call'[b].device = call[b].device
             /\ call'[b].token = call[b].token
             /\ call[b].pc \in Activating => call'[b].raced
  <2>1. call'[b] = [call[b] EXCEPT !.raced = (call[b].pc \in Activating)]
    BY <1>4
  <2>2. call[b] \in CallState
    BY <1>1
  <2>3. QED
    BY <2>1, <2>2 DEF CallState
<1>8. QED
  BY <1>5, <1>6, <1>7

\* A request that switches a device or an activation off begins with no more than
\* its own state.
LEMMA StartEffect ==
  ASSUME TypeOK, NEW c \in Callers,
         \/ \E d \in Devices : StartOff(c, d, "deactivate") \/ StartOff(c, d, "block")
         \/ \E t \in Tokens : StartRevoke(c, t)
  PROVE  /\ call'[c].pc \in {"deactivate", "block", "revoke"}
         /\ \A b \in Callers \ {c} : call'[b] = call[b]
         /\ UNCHANGED <<device, fresh>>
<1>1. call \in [Callers -> CallState]
  BY DEF TypeOK, CallState
<1>2. ASSUME NEW d \in Devices, NEW pc \in {"deactivate", "block"}, StartOff(c, d, pc)
      PROVE  /\ call'[c].pc = pc
             /\ \A b \in Callers \ {c} : call'[b] = call[b]
             /\ UNCHANGED <<device, fresh>>
  <2> DEFINE same == device[d] = (IF pc = "block" THEN "blocked" ELSE "deactivated")
             new == [Idle EXCEPT !.pc = pc, !.device = d, !.same = same]
  <2>1. call' = [call EXCEPT ![c] = new] /\ UNCHANGED <<device, fresh>>
    BY <1>2 DEF StartOff
  <2> HIDE DEF same
  <2>2. new.pc = pc
    BY DEF Idle
  <2> HIDE DEF new
  <2>3. QED
    BY <1>1, <2>1, <2>2
<1>3. ASSUME NEW t \in Tokens, StartRevoke(c, t)
      PROVE  /\ call'[c].pc = "revoke"
             /\ \A b \in Callers \ {c} : call'[b] = call[b]
             /\ UNCHANGED <<device, fresh>>
  <2>1. call' = [call EXCEPT ![c] = [Idle EXCEPT !.pc = "revoke", !.token = t]]
    BY <1>3 DEF StartRevoke
  <2>2. call'[c].pc = "revoke" /\ \A b \in Callers \ {c} : call'[b] = call[b]
    BY <1>1, <2>1 DEF Idle
  <2>3. QED
    BY <1>3, <2>2 DEF StartRevoke
<1>4. QED
  BY <1>2, <1>3

(***************************************************************************)
(* Type correctness.                                                       *)
(***************************************************************************)
\* Each step of a request keeps the types.
LEMMA CallStepType ==
  ASSUME TypeInv, NEW c \in Callers, CallStep(c)
  PROVE  TypeInv'
<1> USE DEF TypeInv
<1>0. TypeOK /\ RequestsHold /\ call \in [Callers -> CallState] /\ call[c] \in CallState
  BY DEF TypeOK, CallState
<1>1. CASE Lookup(c)
  <2>1. /\ call' \in [Callers -> CallState]
        /\ call'[c].device = call[c].device \/ call'[c].pc = "idle"
        /\ call'[c].pc \in {"idle", "reactivate", "issue", "count"}
        /\ \A b \in Callers \ {c} : call'[b] = call[b]
    BY <1>0, <1>1, GotoEffect, DoneEffect DEF Lookup, Steps, Activating
  <2>2. call[c].device \in Devices
    BY <1>0, <1>1 DEF Lookup, RequestsHold, Activating
  <2>3. QED
    BY <1>0, <1>1, <2>1, <2>2 DEF Lookup, RequestsHold, TypeOK, CallState, Activating
<1>2. CASE Reactivate(c)
  <2>1. /\ call' \in [Callers -> CallState]
        /\ call'[c].device = call[c].device /\ call'[c].pc = "issue"
        /\ \A b \in Callers \ {c} : call'[b] = call[b]
    BY <1>0, <1>2, GotoEffect DEF Reactivate, Steps, Activating
  <2>2. call[c].device \in Devices
    BY <1>0, <1>2 DEF Reactivate, RequestsHold, Activating
  <2>3. device' \in [Devices -> Statuses] /\ fresh' \subseteq {d \in Devices : device'[d] = "active"}
    BY <1>0, <1>2, <2>2 DEF Reactivate, TypeOK, Statuses
  <2>4. QED
    BY <1>0, <1>2, <2>1, <2>2, <2>3 DEF Reactivate, RequestsHold, TypeOK, CallState, Activating
<1>3. CASE Count(c)
  <2>1. /\ call' \in [Callers -> CallState]
        /\ call'[c].device = call[c].device \/ call'[c].pc = "idle"
        /\ call'[c].pc \in {"idle", "insert"}
        /\ \A b \in Callers \ {c} : call'[b] = call[b]
    BY <1>0, <1>3, GotoEffect, DoneEffect DEF Count, Steps, Activating
  <2>2. call[c].device \in Devices
    BY <1>0, <1>3 DEF Count, RequestsHold, Activating
  <2>3. QED
    BY <1>0, <1>3, <2>1, <2>2 DEF Count, RequestsHold, TypeOK, CallState, Activating
<1>4. CASE Insert(c)
  <2>1. /\ call' \in [Callers -> CallState]
        /\ call'[c].device = call[c].device \/ call'[c].pc = "idle"
        /\ call'[c].pc \in {"idle", "issue"}
        /\ \A b \in Callers \ {c} : call'[b] = call[b]
    BY <1>0, <1>4, GotoEffect, DoneEffect DEF Insert, Steps, Activating
  <2>2. call[c].device \in Devices
    BY <1>0, <1>4 DEF Insert, RequestsHold, Activating
  <2>3. device' \in [Devices -> Statuses] /\ fresh' \subseteq {d \in Devices : device'[d] = "active"}
    BY <1>0, <1>4, <2>2 DEF Insert, TypeOK, Statuses
  <2>4. QED
    BY <1>0, <1>4, <2>1, <2>2, <2>3 DEF Insert, RequestsHold, TypeOK, CallState, Activating
<1>5. CASE Issue(c)
  <2>1. call[c].device \in Devices
    BY <1>0, <1>5 DEF Issue, RequestsHold, Activating
  <2>2. CASE Done(c) /\ UNCHANGED <<token, lastToken>>
    BY <1>0, <1>5, <2>2, DoneEffect DEF Issue, RequestsHold, TypeOK, CallState, Activating
  <2>3. CASE /\ lastToken < MaxTokens
             /\ lastToken' = lastToken + 1
             /\ token' = [token EXCEPT ![lastToken + 1] = [state |-> "live", device |-> call[c].device]]
             /\ call' = [call EXCEPT ![c] = [Idle EXCEPT !.pc = "cache", !.token = lastToken + 1]]
    <3>1. lastToken' \in 0..MaxTokens /\ lastToken + 1 \in Tokens /\ 1..lastToken \subseteq 1..lastToken'
      BY <1>0, <2>3, DeviceConstants DEF TypeOK, Tokens
    <3>2. token' \in [Tokens -> [state : {"none", "live", "revoked"}, device : Devices \cup {NoDevice}]]
      BY <1>0, <2>1, <2>3, <3>1 DEF TypeOK
    <3>3. DEFINE new == [Idle EXCEPT !.pc = "cache", !.token = lastToken + 1]
    <3>4. new \in CallState /\ new.pc = "cache" /\ new.token = lastToken'
      BY <2>3, <3>1, IdleType DEF Idle, CallState, Steps, Tokens
    <3>5. /\ call' \in [Callers -> CallState] /\ call'[c].pc = "cache" /\ call'[c].token \in 1..lastToken'
          /\ \A b \in Callers \ {c} : call'[b] = call[b]
      <4> HIDE DEF new
      <4>1. call' = [call EXCEPT ![c] = new]
        BY <2>3 DEF new
      <4>2. call'[c] = new /\ lastToken' \in 1..lastToken'
        BY <1>0, <2>3, <3>1, <4>1 DEF TypeOK
      <4>3. QED
        BY <1>0, <3>4, <4>1, <4>2
    <3>6. RequestsHold'
      BY <1>0, <3>1, <3>5 DEF RequestsHold, Activating, Tokens
    <3>7. QED
      BY <1>0, <1>5, <3>1, <3>2, <3>5, <3>6 DEF Issue, TypeOK, CallState
  <2>4. QED
    BY <1>5, <2>2, <2>3 DEF Issue
<1>6. CASE CacheToken(c)
  <2>1. call[c].token \in 1..lastToken /\ call[c].token \in Tokens
    BY <1>0, <1>6, DeviceConstants DEF CacheToken, RequestsHold, TypeOK, Tokens
  <2>2. cache' \subseteq 1..lastToken /\ excused' \subseteq Tokens
    BY <1>0, <1>6, <2>1 DEF CacheToken, TypeOK
  <2>3. QED
    BY <1>0, <1>6, <2>2, DoneEffect DEF CacheToken, RequestsHold, TypeOK, CallState, Activating
<1>7. CASE CommitDeactivate(c)
  <2>1. call[c].device \in Devices
    BY <1>0, <1>7 DEF CommitDeactivate, RequestsHold
  <2>2. device' \in [Devices -> Statuses] /\ fresh' \subseteq {d \in Devices : device'[d] = "active"}
    BY <1>0, <1>7, <2>1 DEF CommitDeactivate, TypeOK, Statuses
  <2>3. token' \in [Tokens -> TokenState] /\ excused' \subseteq Tokens
    BY <1>0, <1>7, RevokedType DEF CommitDeactivate, LiveTokens, TypeOK
  <2>4. /\ call' \in [Callers -> CallState] /\ call'[c].pc = "idle"
        /\ \A b \in Callers \ {c} : /\ call'[b].pc = call[b].pc /\ call'[b].device = call[b].device
                                    /\ call'[b].token = call[b].token
    BY <1>0, <1>7, DoneRacingEffect DEF CommitDeactivate
  <2>5. RequestsHold'
    BY <1>0, <1>7, <2>4 DEF CommitDeactivate, RequestsHold, Activating, Tokens
  <2>6. QED
    BY <1>0, <1>7, <2>2, <2>3, <2>4, <2>5 DEF CommitDeactivate, TypeOK, TokenState, CallState
<1>8. CASE CommitBlock(c)
  <2>1. call[c].device \in Devices
    BY <1>0, <1>8 DEF CommitBlock, RequestsHold
  <2>2. device' \in [Devices -> Statuses] /\ fresh' \subseteq {d \in Devices : device'[d] = "active"}
    BY <1>0, <1>8, <2>1 DEF CommitBlock, TypeOK, Statuses
  <2>3. /\ call' \in [Callers -> CallState] /\ call'[c].pc = "idle"
        /\ \A b \in Callers \ {c} : /\ call'[b].pc = call[b].pc /\ call'[b].device = call[b].device
                                    /\ call'[b].token = call[b].token
    BY <1>0, <1>8, DoneRacingEffect DEF CommitBlock
  <2>4. RequestsHold'
    BY <1>0, <1>8, <2>3 DEF CommitBlock, RequestsHold, Activating, Tokens
  <2>5. QED
    BY <1>0, <1>8, <2>2, <2>3, <2>4 DEF CommitBlock, TypeOK, CallState
<1>9. CASE CommitRevoke(c)
  <2>1. token' \in [Tokens -> TokenState]
    BY <1>0, <1>9, RevokedType DEF CommitRevoke
  <2>2. QED
    BY <1>0, <1>9, <2>1, DoneEffect
    DEF CommitRevoke, RequestsHold, TypeOK, TokenState, CallState, Activating
<1>10. CASE Sweep(c)
  <2>1. token' \in [Tokens -> TokenState] /\ excused' \subseteq Tokens /\ cache' \subseteq 1..lastToken
    BY <1>0, <1>10, RevokedType DEF Sweep, LiveTokens, TypeOK
  <2>2. QED
    BY <1>0, <1>10, <2>1, DoneEffect
    DEF Sweep, RequestsHold, TypeOK, TokenState, CallState, Activating
<1>11. QED
  BY <1>1, <1>2, <1>3, <1>4, <1>5, <1>6, <1>7, <1>8, <1>9, <1>10 DEF CallStep

\* The other actions keep the types: a request begins, everything is switched off,
\* an entry expires, the subscription changes, the process dies.
LEMMA TypeStep ==
  ASSUME TypeInv, [Next]_vars
  PROVE  TypeInv'
<1> USE DEF TypeInv
<1>0. TypeOK /\ RequestsHold /\ call \in [Callers -> CallState]
  BY DEF TypeOK, CallState
<1>1. ASSUME NEW c \in Callers, CallStep(c) PROVE TypeInv'
  BY <1>0, <1>1, CallStepType
<1>2. ASSUME NEW c \in Callers, NEW new \in CallState, call[c].pc = "idle",
             call' = [call EXCEPT ![c] = new],
             new.pc \in Activating \cup {"deactivate", "block"} => new.device \in Devices,
             new.pc # "cache", new.pc = "revoke" => new.token \in Tokens,
             cache' \subseteq cache, excused' \subseteq Tokens,
             UNCHANGED <<device, token, lastToken, subscribed, fresh>>
      PROVE  TypeInv'
  <2>1. call' \in [Callers -> CallState] /\ call'[c] = new
        /\ \A b \in Callers \ {c} : call'[b] = call[b]
    BY <1>0, <1>2
  <2>2. RequestsHold'
    BY <1>0, <1>2, <2>1 DEF RequestsHold, Tokens
  <2>3. QED
    BY <1>0, <1>2, <2>1, <2>2 DEF TypeOK, CallState, Tokens
<1>3. ASSUME NEW c \in Callers, NEW d \in Devices, Activate(c, d) PROVE TypeInv'
  <2> DEFINE new == [Idle EXCEPT !.device = d, !.pc = IF d \in Active THEN "issue" ELSE "lookup"]
  <2>1. new \in CallState /\ new.device = d /\ new.pc \in {"issue", "lookup"}
    BY IdleType DEF CallState, Idle, Steps, Activating
  <2>2. call' = [call EXCEPT ![c] = new] /\ call[c].pc = "idle"
        /\ UNCHANGED <<device, token, lastToken, cache, subscribed, fresh, excused>>
    BY <1>3 DEF Activate
  <2> HIDE DEF new
  <2>3. QED
    BY <1>0, <1>2, <2>1, <2>2 DEF TypeOK
<1>4. ASSUME NEW c \in Callers, NEW d \in Devices, NEW pc, StartOff(c, d, pc) PROVE TypeInv'
  <2> DEFINE same == device[d] = (IF pc = "block" THEN "blocked" ELSE "deactivated")
             new == [Idle EXCEPT !.pc = pc, !.device = d, !.same = same]
  <2>1. pc \in {"deactivate", "block"}
    BY <1>4 DEF StartOff
  <2>2. same \in BOOLEAN
    OBVIOUS
  <2>3. call' = [call EXCEPT ![c] = new] /\ call[c].pc = "idle"
        /\ UNCHANGED <<device, token, lastToken, cache, subscribed, fresh, excused>>
    BY <1>4 DEF StartOff
  <2> HIDE DEF same
  <2>4. new \in CallState /\ new.device = d /\ new.pc = pc
    BY <2>1, <2>2, IdleType DEF CallState, Idle, Steps
  <2> HIDE DEF new
  <2>5. QED
    BY <1>0, <1>2, <2>1, <2>3, <2>4 DEF TypeOK
<1>5. ASSUME NEW c \in Callers, NEW t \in Tokens, StartRevoke(c, t) PROVE TypeInv'
  <2> DEFINE new == [Idle EXCEPT !.pc = "revoke", !.token = t]
  <2>0. t \in 0..MaxTokens
    BY DeviceConstants DEF Tokens
  <2>1. new \in CallState /\ new.pc = "revoke" /\ new.token = t
    BY <2>0, IdleType DEF CallState, Idle, Steps
  <2>2. /\ call' = [call EXCEPT ![c] = new] /\ call[c].pc = "idle"
        /\ cache' \subseteq cache /\ excused' \subseteq Tokens
        /\ UNCHANGED <<device, token, lastToken, subscribed, fresh>>
    BY <1>0, <1>5 DEF StartRevoke, TypeOK
  <2>3. "revoke" \notin Activating \cup {"deactivate", "block"}
    BY DEF Activating
  <2> HIDE DEF new
  <2>4. QED
    BY <1>0, <1>2, <2>1, <2>2, <2>3
<1>6. ASSUME NEW c \in Callers, DeactivateAll(c) PROVE TypeInv'
  <2>1. /\ call' \in [Callers -> CallState] /\ call'[c].pc = "sweep"
        /\ \A b \in Callers \ {c} : /\ call'[b].pc = call[b].pc /\ call'[b].device = call[b].device
                                    /\ call'[b].token = call[b].token
    BY <1>0, <1>6, DeactivateAllEffect
  <2>2. RequestsHold'
    BY <1>0, <1>6, <2>1 DEF DeactivateAll, RequestsHold, Activating, Tokens
  <2>3. device' \in [Devices -> Statuses] /\ fresh' = {}
    BY <1>0, <1>6 DEF DeactivateAll, TypeOK, Statuses
  <2>4. token' \in [Tokens -> TokenState] /\ excused' \subseteq Tokens
    BY <1>0, <1>6, RevokedType DEF DeactivateAll, LiveTokens, TypeOK
  <2>5. QED
    BY <1>0, <1>6, <2>1, <2>2, <2>3, <2>4 DEF DeactivateAll, TypeOK, TokenState, CallState
<1>7. ASSUME NEW t \in Tokens, EntryExpires(t) PROVE TypeInv'
  BY <1>0, <1>7 DEF EntryExpires, TypeOK, RequestsHold, Tokens
<1>8. CASE SubscriptionChanges
  BY <1>0, <1>8 DEF SubscriptionChanges, TypeOK, RequestsHold, Tokens
<1>9. CASE Crash
  <2>1. call' \in [Callers -> CallState] /\ \A c \in Callers : call'[c].pc = "idle"
    BY <1>9, IdleType DEF Crash, Idle
  <2>2. QED
    BY <1>0, <1>9, <2>1 DEF Crash, TypeOK, RequestsHold, CallState, Activating
<1>10. CASE UNCHANGED vars
  BY <1>0, <1>10 DEF vars, TypeOK, RequestsHold, Tokens
<1>11. QED
  BY <1>1, <1>3, <1>4, <1>5, <1>6, <1>7, <1>8, <1>9, <1>10 DEF Next

\* Every reachable state is of its type, and every request holds what its step
\* works on.
LEMMA TypeInvariant == Spec => []TypeInv
<1>1. Init => TypeInv
  <2> SUFFICES ASSUME Init PROVE TypeInv
    OBVIOUS
  <2>1. call \in [Callers -> CallState] /\ \A c \in Callers : call[c].pc = "idle"
    BY IdleType DEF Init, Idle
  <2>2. QED
    BY <2>1, DeviceConstants DEF Init, TypeInv, TypeOK, RequestsHold, CallState, Statuses, Activating
<1>2. TypeInv /\ [Next]_vars => TypeInv'
  BY TypeStep
<1>3. QED
  BY <1>1, <1>2, PTL DEF Spec

\* Type correctness of the device and activation rows, the entries in Redis and
\* the requests of DeviceService.
THEOREM TypeCorrect == Spec => []TypeOK
<1>1. TypeInv => TypeOK
  BY DEF TypeInv
<1>2. QED
  BY <1>1, TypeInvariant, PTL

(***************************************************************************)
(* A revoked activation has no entry any more.                             *)
(***************************************************************************)
\* What RevokedByHolder needs: the entry is gone as soon as the revocation has
\* begun, and a request that enters it in between is seen to.
HolderAnswered ==
  \A t \in Tokens :
    (token[t].state = "revoked" \/ Revoking(t)) /\ t \notin excused => t \notin cache

\* A step that revokes nothing, enters nothing and excuses at most more tokens keeps it.
LEMMA HolderUntouched ==
  ASSUME HolderAnswered,
         \A t \in Tokens : token'[t].state = "revoked" => token[t].state = "revoked" \/ t \in excused',
         \A c \in Callers : call'[c].pc = "revoke" =>
                              call[c].pc = "revoke" /\ call'[c].token = call[c].token,
         cache' \subseteq cache, excused \subseteq excused'
  PROVE  HolderAnswered'
BY DEF HolderAnswered, Revoking

\* The steps of deactivate_license, of the cache and of the switching off keep it.
LEMMA HolderStep ==
  ASSUME TypeInv, HolderAnswered, [Next]_vars
  PROVE  HolderAnswered'
<1>0. TypeOK /\ RequestsHold /\ call \in [Callers -> CallState]
      /\ token \in [Tokens -> TokenState]
  BY DEF TypeInv, TypeOK, CallState, TokenState
<1>a. \A T : \A t \in Tokens : Revoked(T)[t].state = "revoked" => token[t].state = "revoked" \/ t \in T
  BY <1>0 DEF Revoked
<1>1. ASSUME NEW c \in Callers, Lookup(c) \/ Reactivate(c) \/ Count(c) \/ Insert(c)
      PROVE  HolderAnswered'
  <2>1. /\ Done(c) \/ \E pc \in Activating : Goto(c, pc)
        /\ UNCHANGED <<token, cache, excused>>
    BY <1>1 DEF Lookup, Reactivate, Count, Insert, Activating
  <2>2. call'[c].pc # "revoke" /\ \A b \in Callers \ {c} : call'[b] = call[b]
    BY <1>0, <2>1, GotoEffect, DoneEffect DEF Steps, Activating
  <2>3. QED
    BY <2>1, <2>2, HolderUntouched
<1>2. ASSUME NEW c \in Callers, Issue(c) PROVE HolderAnswered'
  <2>1. /\ \A t \in Tokens : token'[t].state = "revoked" => token[t].state = "revoked"
        /\ UNCHANGED <<cache, excused>>
    BY <1>0, <1>2 DEF Issue, TypeOK
  <2>2. call'[c].pc # "revoke" /\ \A b \in Callers \ {c} : call'[b] = call[b]
    BY <1>0, <1>2, DoneEffect DEF Issue, Idle
  <2>3. QED
    BY <2>1, <2>2, HolderUntouched
<1>3. ASSUME NEW c \in Callers, CacheToken(c) PROVE HolderAnswered'
  <2>1. /\ call'[c].pc = "idle" /\ \A b \in Callers \ {c} : call'[b] = call[b]
        /\ token' = token /\ excused \subseteq excused'
        /\ \/ cache' = cache
           \/ /\ cache' = cache \cup {call[c].token}
              /\ token[call[c].token].state = "revoked" \/ Revoking(call[c].token)
                   => call[c].token \in excused'
    BY <1>0, <1>3, DoneEffect DEF CacheToken
  <2>2. QED
    BY <2>1 DEF HolderAnswered, Revoking
<1>4. ASSUME NEW c \in Callers, CommitDeactivate(c) PROVE HolderAnswered'
  <2>1. call'[c].pc = "idle" /\ \A b \in Callers \ {c} : /\ call'[b].pc = call[b].pc
                                                         /\ call'[b].token = call[b].token
    BY <1>0, <1>4, DoneRacingEffect DEF CommitDeactivate
  <2>2. /\ \A t \in Tokens : token'[t].state = "revoked" => token[t].state = "revoked" \/ t \in excused'
        /\ cache' = cache /\ excused \subseteq excused'
    BY <1>4, <1>a DEF CommitDeactivate
  <2>3. QED
    BY <2>1, <2>2, HolderUntouched
<1>5. ASSUME NEW c \in Callers, CommitBlock(c) PROVE HolderAnswered'
  <2>1. call'[c].pc = "idle" /\ \A b \in Callers \ {c} : /\ call'[b].pc = call[b].pc
                                                         /\ call'[b].token = call[b].token
    BY <1>0, <1>5, DoneRacingEffect DEF CommitBlock
  <2>2. UNCHANGED <<token, cache, excused>>
    BY <1>5 DEF CommitBlock
  <2>3. QED
    BY <2>1, <2>2, HolderUntouched
<1>6. ASSUME NEW c \in Callers, CommitRevoke(c) PROVE HolderAnswered'
  <2>1. Revoking(call[c].token)
    BY <1>6 DEF CommitRevoke, Revoking
  <2>2. /\ \A t \in Tokens : token'[t].state = "revoked" => token[t].state = "revoked" \/ t = call[c].token
        /\ call'[c].pc = "idle" /\ \A b \in Callers \ {c} : call'[b] = call[b]
        /\ UNCHANGED <<cache, excused>>
    BY <1>0, <1>6, <1>a, DoneEffect DEF CommitRevoke
  <2>3. QED
    BY <2>1, <2>2 DEF HolderAnswered, Revoking
<1>7. ASSUME NEW c \in Callers, Sweep(c) PROVE HolderAnswered'
  <2>1. call'[c].pc = "idle" /\ \A b \in Callers \ {c} : call'[b] = call[b]
    BY <1>0, <1>7, DoneEffect DEF Sweep
  <2>2. /\ \A t \in Tokens : token'[t].state = "revoked" => token[t].state = "revoked" \/ t \in excused'
        /\ cache' \subseteq cache /\ excused \subseteq excused'
    BY <1>7, <1>a DEF Sweep
  <2>3. QED
    BY <2>1, <2>2, HolderUntouched
<1>8. ASSUME NEW c \in Callers, NEW d \in Devices,
             \/ Activate(c, d)
             \/ StartOff(c, d, "deactivate")
             \/ StartOff(c, d, "block")
      PROVE  HolderAnswered'
  <2>1. call'[c].pc # "revoke" /\ \A b \in Callers \ {c} : call'[b] = call[b]
    <3>1. CASE Activate(c, d)
      BY <1>0, <3>1 DEF Activate, Idle
    <3>2. CASE StartOff(c, d, "deactivate")
      BY <1>0, <3>2 DEF StartOff, Idle
    <3>3. CASE StartOff(c, d, "block")
      BY <1>0, <3>3 DEF StartOff, Idle
    <3>4. QED
      BY <1>8, <3>1, <3>2, <3>3
  <2>2. UNCHANGED <<token, cache, excused>>
    BY <1>8 DEF Activate, StartOff
  <2>3. QED
    BY <2>1, <2>2, HolderUntouched
<1>9. ASSUME NEW c \in Callers, NEW t \in Tokens, StartRevoke(c, t) PROVE HolderAnswered'
  <2>1. call'[c].token = t /\ \A b \in Callers \ {c} : call'[b] = call[b]
    BY <1>0, <1>9 DEF StartRevoke, Idle
  <2>2. \A u \in Tokens : Revoking(u)' => Revoking(u) \/ u = t
    BY <2>1 DEF Revoking
  <2>3. /\ token' = token /\ cache' \subseteq cache /\ excused \subseteq excused'
        /\ t \notin cache' \/ t \in excused'
    BY <1>9 DEF StartRevoke
  <2>4. QED
    BY <2>2, <2>3 DEF HolderAnswered
<1>10. ASSUME NEW c \in Callers, DeactivateAll(c) PROVE HolderAnswered'
  <2>1. call'[c].pc = "sweep" /\ \A b \in Callers \ {c} : /\ call'[b].pc = call[b].pc
                                                          /\ call'[b].token = call[b].token
    BY <1>0, <1>10, DeactivateAllEffect
  <2>2. /\ \A t \in Tokens : token'[t].state = "revoked" => token[t].state = "revoked" \/ t \in excused'
        /\ cache' = cache /\ excused \subseteq excused'
    BY <1>10, <1>a DEF DeactivateAll
  <2>3. QED
    BY <2>1, <2>2, HolderUntouched
<1>11. ASSUME NEW t \in Tokens, EntryExpires(t) PROVE HolderAnswered'
  BY <1>11, HolderUntouched DEF EntryExpires
<1>12. CASE SubscriptionChanges
  BY <1>12, HolderUntouched DEF SubscriptionChanges
<1>13. CASE Crash
  <2>1. \A c \in Callers : call'[c].pc = "idle"
    BY <1>13 DEF Crash, Idle
  <2>2. QED
    BY <1>13, <2>1, HolderUntouched DEF Crash
<1>14. CASE UNCHANGED vars
  BY <1>14, HolderUntouched DEF vars
<1>15. QED
  BY <1>1, <1>2, <1>3, <1>4, <1>5, <1>6, <1>7, <1>8, <1>9, <1>10, <1>11, <1>12, <1>13, <1>14
  DEF Next, CallStep

\* deactivate_license deletes the entry in Redis before it commits the row: an
\* activation its holder revoked is refused, whatever other requests were in flight,
\* wherever the process died, and however many times it was revoked, unless it was
\* excused: Redis missed the deletion, the entry was made again after it, or the
\* device or the user was switched off instead.
THEOREM HolderRevokes == Spec => []RevokedByHolder
<1>1. Init => HolderAnswered
  BY DEF Init, HolderAnswered
<1>2. TypeInv /\ HolderAnswered /\ [Next]_vars => HolderAnswered'
  BY HolderStep
<1>3. HolderAnswered => RevokedByHolder
  BY DEF HolderAnswered, RevokedByHolder, Validate
<1>4. QED
  BY <1>1, <1>2, <1>3, TypeInvariant, PTL DEF Spec

(***************************************************************************)
(* A token is issued for an active device.                                 *)
(***************************************************************************)
\* What IssuedForActiveDevice needs: a request that is about to issue a token has
\* found its device active, or has been overtaken since.
ActiveOrRaced ==
  \A c \in Callers : call[c].pc = "issue" => call[c].device \in Active \/ call[c].raced

\* A step that switches no device off, and sends at most a request of an active
\* device to "issue", keeps it.
LEMMA ActiveKept ==
  ASSUME ActiveOrRaced, Active \subseteq Active', NEW c \in Callers,
         call'[c].pc = "issue" => call'[c].device \in Active',
         \A b \in Callers \ {c} : call'[b] = call[b]
  PROVE  ActiveOrRaced'
BY DEF ActiveOrRaced

\* Each step keeps it.
LEMMA ActiveStep ==
  ASSUME TypeInv, ActiveOrRaced, [Next]_vars
  PROVE  ActiveOrRaced'
<1>0. TypeOK /\ RequestsHold /\ call \in [Callers -> CallState]
      /\ device \in [Devices -> Statuses] /\ "issue" \in Activating
  BY DEF TypeInv, TypeOK, CallState, Activating
<1>1. ASSUME NEW c \in Callers, Lookup(c) PROVE ActiveOrRaced'
  <2>1. /\ Active' = Active
        /\ \/ Done(c)
           \/ \E pc \in {"reactivate", "count"} : Goto(c, pc)
           \/ device[call[c].device] = "active" /\ Goto(c, "issue")
    BY <1>1 DEF Lookup, Active
  <2>2. call[c].device \in Devices
    BY <1>0, <1>1 DEF Lookup, RequestsHold, Activating
  <2>3. /\ call'[c].pc = "issue" => call'[c].device \in Active
        /\ \A b \in Callers \ {c} : call'[b] = call[b]
    <3>1. CASE Done(c)
      BY <1>0, <3>1, DoneEffect
    <3>2. CASE \E pc \in {"reactivate", "count"} : Goto(c, pc)
      BY <1>0, <3>2, GotoEffect DEF Steps, Activating
    <3>3. CASE device[call[c].device] = "active" /\ Goto(c, "issue")
      BY <1>0, <2>2, <3>3, GotoEffect DEF Steps, Activating, Active
    <3>4. QED
      BY <2>1, <3>1, <3>2, <3>3
  <2>4. QED
    BY <2>1, <2>3, ActiveKept
<1>2. ASSUME NEW c \in Callers, Reactivate(c) PROVE ActiveOrRaced'
  <2>1. call[c].device \in Devices
    BY <1>0, <1>2 DEF Reactivate, RequestsHold, Activating
  <2>2. Active' = Active \cup {call[c].device}
    BY <1>0, <1>2, <2>1 DEF Reactivate, Active
  <2>3. call'[c].device = call[c].device /\ \A b \in Callers \ {c} : call'[b] = call[b]
    BY <1>0, <1>2, GotoEffect DEF Reactivate, Steps, Activating
  <2>4. QED
    BY <2>2, <2>3, ActiveKept
<1>3. ASSUME NEW c \in Callers, Count(c) PROVE ActiveOrRaced'
  <2>1. Active' = Active /\ (Done(c) \/ Goto(c, "insert"))
    BY <1>3 DEF Count, Active
  <2>2. call'[c].pc # "issue" /\ \A b \in Callers \ {c} : call'[b] = call[b]
    <3>1. "insert" \in Steps
      BY DEF Steps, Activating
    <3>2. QED
      BY <1>0, <2>1, <3>1, GotoEffect, DoneEffect
  <2>3. QED
    BY <2>1, <2>2, ActiveKept
<1>4. ASSUME NEW c \in Callers, Insert(c) PROVE ActiveOrRaced'
  <2>1. call[c].device \in Devices
    BY <1>0, <1>4 DEF Insert, RequestsHold, Activating
  <2>2. \/ Active' = Active \cup {call[c].device} /\ Goto(c, "issue")
        \/ Active' = Active /\ Done(c)
    BY <1>0, <1>4, <2>1 DEF Insert, Active
  <2>3. /\ call'[c].pc = "issue" => call'[c].device \in Active'
        /\ \A b \in Callers \ {c} : call'[b] = call[b]
    BY <1>0, <2>2, GotoEffect, DoneEffect DEF Steps, Activating
  <2>4. QED
    BY <2>2, <2>3, ActiveKept
<1>5. ASSUME NEW c \in Callers, Issue(c) PROVE ActiveOrRaced'
  <2>1. call'[c].pc # "issue" /\ \A b \in Callers \ {c} : call'[b] = call[b]
    BY <1>0, <1>5, DoneEffect DEF Issue, Idle
  <2>2. Active' = Active
    BY <1>5 DEF Issue, Active
  <2>3. QED
    BY <2>1, <2>2, ActiveKept
<1>6. ASSUME NEW c \in Callers, CacheToken(c) \/ CommitRevoke(c) \/ Sweep(c) PROVE ActiveOrRaced'
  <2>1. Done(c) /\ Active' = Active
    BY <1>6 DEF CacheToken, CommitRevoke, Sweep, Active
  <2>2. QED
    BY <1>0, <2>1, DoneEffect, ActiveKept
<1>7. ASSUME NEW c \in Callers, CommitDeactivate(c) \/ CommitBlock(c) PROVE ActiveOrRaced'
  <2>1. DoneRacing(c, call[c].device)
    BY <1>7 DEF CommitDeactivate, CommitBlock
  <2>2. \A d \in Active \ {call[c].device} : d \in Active'
    BY <1>0, <1>7 DEF CommitDeactivate, CommitBlock, Active
  <2>3. /\ call'[c].pc # "issue"
        /\ \A b \in Callers \ {c} :
             /\ call'[b].pc = call[b].pc /\ call'[b].device = call[b].device
             /\ call[b].raced => call'[b].raced
             /\ call[b].pc = "issue" /\ call[b].device = call[c].device => call'[b].raced
    BY <1>0, <2>1, DoneRacingEffect
  <2>4. QED
    BY <2>2, <2>3 DEF ActiveOrRaced
<1>8. ASSUME NEW c \in Callers, NEW d \in Devices, Activate(c, d) PROVE ActiveOrRaced'
  <2>1. Active' = Active
    BY <1>8 DEF Activate, Active
  <2>2. /\ call'[c].pc = "issue" => call'[c].device \in Active
        /\ \A b \in Callers \ {c} : call'[b] = call[b]
    BY <1>0, <1>8 DEF Activate, Idle
  <2>3. QED
    BY <2>1, <2>2, ActiveKept
<1>9. ASSUME NEW c \in Callers,
             \/ \E d \in Devices : StartOff(c, d, "deactivate") \/ StartOff(c, d, "block")
             \/ \E t \in Tokens : StartRevoke(c, t)
      PROVE  ActiveOrRaced'
  <2>1. /\ call'[c].pc # "issue" /\ \A b \in Callers \ {c} : call'[b] = call[b]
        /\ device' = device
    BY <1>0, <1>9, StartEffect
  <2>2. Active' = Active
    BY <2>1 DEF Active
  <2>3. QED
    BY <2>1, <2>2, ActiveKept
<1>10. ASSUME NEW c \in Callers, DeactivateAll(c) PROVE ActiveOrRaced'
  <2>1. /\ call'[c].pc = "sweep"
        /\ \A b \in Callers \ {c} : /\ call'[b].pc = call[b].pc /\ call'[b].device = call[b].device
                                    /\ call[b].pc = "issue" => call'[b].raced
    BY <1>0, <1>10, DeactivateAllEffect
  <2>2. QED
    BY <2>1 DEF ActiveOrRaced
<1>11. ASSUME NEW t \in Tokens, EntryExpires(t) PROVE ActiveOrRaced'
  BY <1>11 DEF EntryExpires, ActiveOrRaced, Active
<1>12. CASE SubscriptionChanges
  BY <1>12 DEF SubscriptionChanges, ActiveOrRaced, Active
<1>13. CASE Crash
  BY <1>13 DEF Crash, ActiveOrRaced, Idle
<1>14. CASE UNCHANGED vars
  BY <1>14 DEF vars, ActiveOrRaced, Active
<1>15. QED
  BY <1>1, <1>2, <1>3, <1>4, <1>5, <1>6, <1>7, <1>8, <1>9, <1>10, <1>11, <1>12, <1>13, <1>14
  DEF Next, CallStep

\* activate_license issues a token only for a device that is active at that moment,
\* or was switched off while the request was in flight: a blocked device gets none,
\* and a deactivated one is active again first.
THEOREM TokensForActiveDevices == Spec => IssuedForActiveDevice
<1>1. Init => ActiveOrRaced
  BY DEF Init, ActiveOrRaced, Idle
<1>2. TypeInv /\ ActiveOrRaced /\ [Next]_vars => ActiveOrRaced'
  BY ActiveStep
<1>3. ActiveOrRaced =>
        [\A c \in Callers :
           (call[c].pc = "issue" /\ call'[c].pc # "issue" /\ lastToken' # lastToken)
             => call[c].device \in Active \/ call[c].raced]_vars
  BY DEF ActiveOrRaced
<1>4. QED
  BY <1>1, <1>2, <1>3, TypeInvariant, PTL DEF Spec, IssuedForActiveDevice

(***************************************************************************)
(* Concurrent registrations and the limit of the plan.                     *)
(***************************************************************************)
\* The requests that have counted the active devices and insert a row next.
Inserting == {c \in Callers : call[c].pc = "insert"}

\* A step that makes no device fresh and lets no request pass the count keeps the bound.
LEMMA LimitUntouched ==
  ASSUME TypeInv, NewDevicesWithinLimit, fresh' \subseteq fresh, Inserting' \subseteq Inserting
  PROVE  NewDevicesWithinLimit'
<1>1. IsFiniteSet(fresh) /\ IsFiniteSet(Inserting)
  BY DeviceConstants, FS_Subset DEF TypeInv, TypeOK, Inserting
<1>2. /\ Cardinality(fresh) \in Nat /\ Cardinality(Inserting) \in Nat
      /\ Cardinality(fresh') \in Nat /\ Cardinality(Inserting') \in Nat
      /\ Cardinality(fresh') <= Cardinality(fresh)
      /\ Cardinality(Inserting') <= Cardinality(Inserting)
  BY <1>1, FS_Subset, FS_CardinalityType
<1>3. MaxDevices \in Nat /\ Cardinality(Callers) \in Nat
  BY DeviceConstants, FS_CardinalityType
<1>4. Cardinality(fresh) + Cardinality(Inserting) <= MaxDevices - 1 + Cardinality(Callers)
  BY DEF NewDevicesWithinLimit, Inserting
<1>5. Cardinality(fresh') + Cardinality(Inserting') <= MaxDevices - 1 + Cardinality(Callers)
  BY <1>2, <1>3, <1>4
<1>6. QED
  BY <1>5 DEF NewDevicesWithinLimit, Inserting

\* A request that passes the count has found fewer active devices than the plan
\* allows, and there are only so many requests.
LEMMA CountKeepsLimit ==
  ASSUME TypeInv, NEW c \in Callers, Count(c), Cardinality(Active) < Limit
  PROVE  NewDevicesWithinLimit'
<1>1. /\ IsFiniteSet(Active) /\ IsFiniteSet(fresh) /\ IsFiniteSet(Inserting')
      /\ Cardinality(fresh) <= Cardinality(Active)
      /\ Cardinality(Inserting') <= Cardinality(Callers)
  BY DeviceConstants, FS_Subset DEF TypeInv, TypeOK, Active, Inserting
<1>2. /\ Cardinality(Active) \in Nat /\ Cardinality(fresh) \in Nat
      /\ Cardinality(Inserting') \in Nat /\ Cardinality(Callers) \in Nat
  BY <1>1, DeviceConstants, FS_CardinalityType
<1>3. MaxDevices \in Nat /\ Limit \in Nat /\ Limit <= MaxDevices
  BY DeviceConstants DEF Limit
<1>4. fresh' = fresh
  BY DEF Count
<1>5. Cardinality(fresh) + Cardinality(Inserting') <= MaxDevices - 1 + Cardinality(Callers)
  BY <1>1, <1>2, <1>3
<1>6. QED
  BY <1>4, <1>5 DEF NewDevicesWithinLimit, Inserting

\* The row that is inserted takes the place of the request that inserts it.
LEMMA InsertKeepsLimit ==
  ASSUME TypeInv, NewDevicesWithinLimit, NEW c \in Callers, Insert(c), NEW d,
         fresh' = fresh \cup {d}, Goto(c, "issue")
  PROVE  NewDevicesWithinLimit'
<1>1. IsFiniteSet(fresh) /\ IsFiniteSet(Inserting)
  BY DeviceConstants, FS_Subset DEF TypeInv, TypeOK, Inserting
<1>2. c \in Inserting /\ Inserting' = Inserting \ {c}
  <2>1. call'[c].pc = "issue" /\ \A b \in Callers \ {c} : call'[b] = call[b]
    BY GotoEffect DEF TypeInv, Steps, Activating
  <2>2. QED
    BY <2>1 DEF Inserting, Insert
<1>3. Cardinality(Inserting') = Cardinality(Inserting) - 1
  BY <1>1, <1>2, FS_RemoveElement
<1>4. Cardinality(fresh') <= Cardinality(fresh) + 1 /\ Cardinality(fresh') \in Nat
  <2>1. IsFiniteSet(fresh') /\ (Cardinality(fresh') = Cardinality(fresh) \/ Cardinality(fresh') = Cardinality(fresh) + 1)
    BY <1>1, FS_AddElement
  <2>2. Cardinality(fresh) \in Nat /\ Cardinality(fresh') \in Nat
    BY <1>1, <2>1, FS_CardinalityType
  <2>3. QED
    BY <2>1, <2>2
<1>5. /\ Cardinality(fresh) \in Nat /\ Cardinality(Inserting) \in Nat
      /\ MaxDevices \in Nat /\ Cardinality(Callers) \in Nat
  BY <1>1, DeviceConstants, FS_CardinalityType
<1>6. Cardinality(fresh) + Cardinality(Inserting) <= MaxDevices - 1 + Cardinality(Callers)
  BY DEF NewDevicesWithinLimit, Inserting
<1>7. Cardinality(fresh') + Cardinality(Inserting') <= MaxDevices - 1 + Cardinality(Callers)
  BY <1>3, <1>4, <1>5, <1>6
<1>8. QED
  BY <1>7 DEF NewDevicesWithinLimit, Inserting

\* Each step keeps the bound.
LEMMA LimitStep ==
  ASSUME TypeInv, NewDevicesWithinLimit, [Next]_vars
  PROVE  NewDevicesWithinLimit'
<1>0. TypeOK /\ RequestsHold /\ call \in [Callers -> CallState]
  BY DEF TypeInv, TypeOK, CallState
<1>a. ASSUME NEW c \in Callers, call'[c].pc # "insert",
             \A b \in Callers \ {c} : call'[b].pc = call[b].pc,
             fresh' \subseteq fresh
      PROVE  NewDevicesWithinLimit'
  <2>1. Inserting' \subseteq Inserting
    BY <1>a DEF Inserting
  <2>2. QED
    BY <1>a, <2>1, LimitUntouched
<1>1. ASSUME NEW c \in Callers, Lookup(c) PROVE NewDevicesWithinLimit'
  <2>1. fresh' = fresh /\ (Done(c) \/ \E pc \in {"reactivate", "count", "issue"} : Goto(c, pc))
    BY <1>1 DEF Lookup
  <2>2. call'[c].pc # "insert" /\ \A b \in Callers \ {c} : call'[b].pc = call[b].pc
    BY <1>0, <2>1, GotoEffect, DoneEffect DEF Steps, Activating
  <2>3. QED
    BY <1>a, <2>1, <2>2
<1>2. ASSUME NEW c \in Callers, Reactivate(c) PROVE NewDevicesWithinLimit'
  <2>1. fresh' = fresh /\ Goto(c, "issue")
    BY <1>2 DEF Reactivate
  <2>2. call'[c].pc # "insert" /\ \A b \in Callers \ {c} : call'[b].pc = call[b].pc
    <3>1. "issue" \in Steps
      BY DEF Steps, Activating
    <3>2. QED
      BY <1>0, <2>1, <3>1, GotoEffect
  <2>3. QED
    BY <1>a, <2>1, <2>2
<1>3. ASSUME NEW c \in Callers, Count(c) PROVE NewDevicesWithinLimit'
  <2>1. CASE Cardinality(Active) < Limit
    BY <1>3, <2>1, CountKeepsLimit
  <2>2. CASE ~(Cardinality(Active) < Limit)
    <3>1. Done(c) /\ fresh' = fresh
      BY <1>3, <2>2 DEF Count
    <3>2. QED
      BY <1>0, <1>a, <3>1, DoneEffect
  <2>3. QED
    BY <2>1, <2>2
<1>4. ASSUME NEW c \in Callers, Insert(c) PROVE NewDevicesWithinLimit'
  <2>1. CASE fresh' = fresh \cup {call[c].device} /\ Goto(c, "issue")
    BY <1>4, <2>1, InsertKeepsLimit
  <2>2. CASE fresh' = fresh /\ Done(c)
    BY <1>0, <1>a, <2>2, DoneEffect
  <2>3. QED
    BY <1>4, <2>1, <2>2 DEF Insert
<1>5. ASSUME NEW c \in Callers, Issue(c) PROVE NewDevicesWithinLimit'
  <2>1. call'[c].pc # "insert" /\ \A b \in Callers \ {c} : call'[b].pc = call[b].pc
    BY <1>0, <1>5, DoneEffect DEF Issue, Idle
  <2>2. QED
    BY <1>5, <1>a, <2>1 DEF Issue
<1>6. ASSUME NEW c \in Callers, CacheToken(c) \/ CommitRevoke(c) \/ Sweep(c)
      PROVE  NewDevicesWithinLimit'
  <2>1. Done(c) /\ fresh' = fresh
    BY <1>6 DEF CacheToken, CommitRevoke, Sweep
  <2>2. QED
    BY <1>0, <1>a, <2>1, DoneEffect
<1>7. ASSUME NEW c \in Callers, CommitDeactivate(c) \/ CommitBlock(c) PROVE NewDevicesWithinLimit'
  <2>1. DoneRacing(c, call[c].device) /\ fresh' \subseteq fresh
    BY <1>7 DEF CommitDeactivate, CommitBlock
  <2>2. call'[c].pc # "insert" /\ \A b \in Callers \ {c} : call'[b].pc = call[b].pc
    BY <1>0, <2>1, DoneRacingEffect
  <2>3. QED
    BY <1>a, <2>1, <2>2
<1>8. ASSUME NEW c \in Callers,
             \/ \E d \in Devices : StartOff(c, d, "deactivate") \/ StartOff(c, d, "block")
             \/ \E t \in Tokens : StartRevoke(c, t)
      PROVE  NewDevicesWithinLimit'
  BY <1>0, <1>8, <1>a, StartEffect
<1>9. ASSUME NEW c \in Callers, NEW d \in Devices, Activate(c, d) PROVE NewDevicesWithinLimit'
  <2>1. fresh' = fresh
    BY <1>9 DEF Activate
  <2>2. call'[c].pc # "insert" /\ \A b \in Callers \ {c} : call'[b].pc = call[b].pc
    BY <1>0, <1>9 DEF Activate, Idle
  <2>3. QED
    BY <1>a, <2>1, <2>2
<1>10. ASSUME NEW c \in Callers, DeactivateAll(c) PROVE NewDevicesWithinLimit'
  <2>1. call'[c].pc = "sweep" /\ \A b \in Callers \ {c} : call'[b].pc = call[b].pc
    BY <1>0, <1>10, DeactivateAllEffect
  <2>2. fresh' \subseteq fresh
    BY <1>10 DEF DeactivateAll
  <2>3. QED
    BY <1>a, <2>1, <2>2
<1>11. ASSUME NEW t \in Tokens, EntryExpires(t) PROVE NewDevicesWithinLimit'
  BY <1>11, LimitUntouched DEF EntryExpires, Inserting
<1>12. CASE SubscriptionChanges
  BY <1>12, LimitUntouched DEF SubscriptionChanges, Inserting
<1>13. CASE Crash
  BY <1>13, LimitUntouched DEF Crash, Inserting, Idle
<1>14. CASE UNCHANGED vars
  BY <1>14, LimitUntouched DEF vars, Inserting
<1>15. QED
  BY <1>1, <1>2, <1>3, <1>4, <1>5, <1>6, <1>7, <1>8, <1>9, <1>10, <1>11, <1>12, <1>13, <1>14
  DEF Next, CallStep

\* Counting the active devices and inserting the row are two steps: for any number
\* of concurrent requests the devices that were never switched off exceed the plan by
\* no more than that number less one.
THEOREM NewDevicesBounded == Spec => []NewDevicesWithinLimit
<1>1. Init => NewDevicesWithinLimit
  <2> SUFFICES ASSUME Init PROVE NewDevicesWithinLimit
    OBVIOUS
  <2>1. fresh = {} /\ {c \in Callers : call[c].pc = "insert"} = {}
    BY DEF Init, Idle
  <2>2. Cardinality(fresh) = 0 /\ Cardinality({c \in Callers : call[c].pc = "insert"}) = 0
    BY <2>1, FS_EmptySet
  <2>3. MaxDevices \in Nat \ {0} /\ Cardinality(Callers) \in Nat
    BY DeviceConstants, FS_CardinalityType
  <2>4. QED
    BY <2>2, <2>3 DEF NewDevicesWithinLimit
<1>2. TypeInv /\ NewDevicesWithinLimit /\ [Next]_vars => NewDevicesWithinLimit'
  BY LimitStep
<1>3. QED
  BY <1>1, <1>2, TypeInvariant, PTL DEF Spec
=============================================================================
