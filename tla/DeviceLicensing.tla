--------------------------- MODULE DeviceLicensing ---------------------------
(***************************************************************************)
(* Devices and license activations of one user: DeviceService              *)
(* (backend/app/services/device_service.py), used by the routes of the     *)
(* customer portal and of the customer administration.                     *)
(*                                                                         *)
(* Every request runs on a database session of its own and is cut at its   *)
(* round trips: what it read before one is used after it.  A session       *)
(* writes only the columns whose value it changed.  An activation has a    *)
(* row and an entry in Redis with a time to live; a command to an          *)
(* unavailable Redis is skipped without an error.                          *)
(***************************************************************************)
EXTENDS Naturals, FiniteSets

CONSTANTS
  Devices,     \* fingerprints of the user's devices
  NoDevice,    \* not a device
  Callers,     \* concurrent requests
  MaxDevices,  \* max_devices of the plan
  MaxTokens    \* bound: activations that are followed

ASSUME DeviceConstants ==
  /\ IsFiniteSet(Devices) /\ NoDevice \notin Devices /\ IsFiniteSet(Callers)
  /\ MaxDevices \in Nat \ {0}
  /\ MaxTokens \in Nat

Tokens == 1..MaxTokens

VARIABLES
  device,      \* status of each device, "none" without a row
  token,       \* the row of each activation
  lastToken,   \* activations issued
  cache,       \* tokens with an entry in Redis
  subscribed,  \* a subscription is ACTIVE or TRIALING
  call,        \* the requests in flight
  fresh,       \* history: devices that have been active ever since their row was inserted
  excused      \* history: tokens whose entry no request of their holder answers for

vars == <<device, token, lastToken, cache, subscribed, call, fresh, excused>>

Statuses == {"none", "active", "deactivated", "blocked"}
Idle == [pc |-> "idle", device |-> NoDevice, token |-> 0, same |-> FALSE, raced |-> FALSE]
Activating == {"lookup", "reactivate", "count", "insert", "issue"}
Steps == Activating \cup {"idle", "cache", "deactivate", "block", "revoke", "sweep"}

TypeOK ==
  /\ device \in [Devices -> Statuses]
  /\ token \in [Tokens -> [state : {"none", "live", "revoked"}, device : Devices \cup {NoDevice}]]
  /\ lastToken \in 0..MaxTokens
  /\ cache \subseteq 1..lastToken
  /\ subscribed \in BOOLEAN
  /\ call \in [Callers -> [pc : Steps, device : Devices \cup {NoDevice}, token : 0..MaxTokens,
                           same : BOOLEAN, raced : BOOLEAN]]
  /\ fresh \subseteq {d \in Devices : device[d] = "active"}
  /\ excused \subseteq Tokens

Init ==
  /\ device = [d \in Devices |-> "none"]
  /\ token = [t \in Tokens |-> [state |-> "none", device |-> NoDevice]]
  /\ lastToken = 0
  /\ cache = {}
  /\ subscribed = TRUE
  /\ call = [c \in Callers |-> Idle]
  /\ fresh = {}
  /\ excused = {}

Active == {d \in Devices : device[d] = "active"}
LiveTokens(D) == {t \in Tokens : token[t].state = "live" /\ token[t].device \in D}
Revoked(T) == [t \in Tokens |-> IF t \in T THEN [token[t] EXCEPT !.state = "revoked"] ELSE token[t]]

\* _get_max_devices: without a subscription one device is allowed.
Limit == IF subscribed THEN MaxDevices ELSE 1

Goto(c, pc) == call' = [call EXCEPT ![c].pc = pc]
Done(c) == call' = [call EXCEPT ![c] = Idle]

\* The requests in flight for a device whose status changes, once c has finished.
DoneRacing(c, d) ==
  call' = [b \in Callers |->
             IF b = c THEN Idle
             ELSE IF call[b].pc \in Activating /\ call[b].device = d THEN [call[b] EXCEPT !.raced = TRUE]
             ELSE call[b]]

(***************************************************************************)
(* activate_license, with the register_device it calls.                    *)
(***************************************************************************)
\* The license is the user's and the subscription active; an active device is
\* used as it is.
Activate(c, d) ==
  /\ call[c].pc = "idle"
  /\ subscribed
  /\ call' = [call EXCEPT ![c] = [Idle EXCEPT !.device = d,
                                              !.pc = IF d \in Active THEN "issue" ELSE "lookup"]]
  /\ UNCHANGED <<device, token, lastToken, cache, subscribed, fresh, excused>>

\* Mutant: the branch of a blocked device is missing.
LookupUnblocked(c) ==
  LET s == device[call[c].device] IN
  /\ call[c].pc = "lookup"
  /\ \/ s = "deactivated" /\ Goto(c, "reactivate")
     \/ s \in {"active", "blocked"} /\ Goto(c, "issue")
     \/ s = "none" /\ Goto(c, "count")
  /\ UNCHANGED <<device, token, lastToken, cache, subscribed, fresh, excused>>

\* register_device finds the row of the fingerprint, or none.
Lookup(c) ==
  LET s == device[call[c].device] IN
  /\ call[c].pc = "lookup"
  /\ \/ s = "blocked" /\ Done(c)
     \/ s = "deactivated" /\ Goto(c, "reactivate")
     \/ s = "active" /\ Goto(c, "issue")
     \/ s = "none" /\ Goto(c, "count")
  /\ UNCHANGED <<device, token, lastToken, cache, subscribed, fresh, excused>>

\* A known device is activated again, without a look at the limit or at what has
\* become of the row since it was read.
Reactivate(c) ==
  /\ call[c].pc = "reactivate"
  /\ device' = [device EXCEPT ![call[c].device] = "active"]
  /\ Goto(c, "issue")
  /\ UNCHANGED <<token, lastToken, cache, subscribed, fresh, excused>>

\* Mutant: the limit itself still passes.
CountAtLimit(c) ==
  /\ call[c].pc = "count"
  /\ IF Cardinality(Active) <= Limit THEN Goto(c, "insert") ELSE Done(c)
  /\ UNCHANGED <<device, token, lastToken, cache, subscribed, fresh, excused>>

\* Active devices are counted against the limit ...
Count(c) ==
  /\ call[c].pc = "count"
  /\ IF Cardinality(Active) < Limit THEN Goto(c, "insert") ELSE Done(c)
  /\ UNCHANGED <<device, token, lastToken, cache, subscribed, fresh, excused>>

\* ... and the row is inserted, unless a concurrent request has inserted it.
Insert(c) ==
  LET d == call[c].device IN
  /\ call[c].pc = "insert"
  /\ \/ /\ device[d] = "none"
        /\ device' = [device EXCEPT ![d] = "active"]
        /\ fresh' = fresh \cup {d}
        /\ Goto(c, "issue")
     \/ /\ device[d] # "none"
        /\ Done(c)
        /\ UNCHANGED <<device, fresh>>
  /\ UNCHANGED <<token, lastToken, cache, subscribed, excused>>

\* The activation is committed.  The model follows MaxTokens of them to the end.
Issue(c) ==
  /\ call[c].pc = "issue"
  /\ \/ /\ lastToken < MaxTokens
        /\ lastToken' = lastToken + 1
        /\ token' = [token EXCEPT ![lastToken + 1] = [state |-> "live", device |-> call[c].device]]
        /\ call' = [call EXCEPT ![c] = [Idle EXCEPT !.pc = "cache", !.token = lastToken + 1]]
     \/ Done(c) /\ UNCHANGED <<token, lastToken>>
  /\ UNCHANGED <<device, cache, subscribed, fresh, excused>>

Revoking(t) == \E b \in Callers : call[b].pc = "revoke" /\ call[b].token = t

\* It is entered in Redis, if Redis is there.  A revocation may have deleted the
\* entry before it was made.
CacheToken(c) ==
  LET t == call[c].token IN
  /\ call[c].pc = "cache"
  /\ \/ /\ cache' = cache \cup {t}
        /\ excused' = IF token[t].state = "revoked" \/ Revoking(t) THEN excused \cup {t} ELSE excused
     \/ UNCHANGED <<cache, excused>>
  /\ Done(c)
  /\ UNCHANGED <<device, token, lastToken, subscribed, fresh>>

(***************************************************************************)
(* Switching off: deactivate_device, block_device, deactivate_license and  *)
(* remote_deactivate_user.                                                 *)
(***************************************************************************)
\* deactivate_device and block_device read the row ...
StartOff(c, d, pc) ==
  /\ pc \in {"deactivate", "block"}
  /\ call[c].pc = "idle"
  /\ device[d] # "none"
  /\ call' = [call EXCEPT ![c] = [Idle EXCEPT !.pc = pc, !.device = d, !.same =
                device[d] = (IF pc = "block" THEN "blocked" ELSE "deactivated")]]
  /\ UNCHANGED <<device, token, lastToken, cache, subscribed, fresh, excused>>

\* ... and write it: a status that is the one that was read is no change.  The rows
\* of the activations follow, their entries in Redis stay.
CommitDeactivate(c) ==
  LET d == call[c].device
      T == LiveTokens({d}) IN
  /\ call[c].pc = "deactivate"
  /\ device' = IF call[c].same THEN device ELSE [device EXCEPT ![d] = "deactivated"]
  /\ fresh' = IF call[c].same THEN fresh ELSE fresh \ {d}
  /\ token' = Revoked(T)
  /\ excused' = excused \cup T
  /\ DoneRacing(c, d)
  /\ UNCHANGED <<lastToken, cache, subscribed>>

\* The activations of a blocked device are left alone.
CommitBlock(c) ==
  LET d == call[c].device IN
  /\ call[c].pc = "block"
  /\ device' = IF call[c].same THEN device ELSE [device EXCEPT ![d] = "blocked"]
  /\ fresh' = IF call[c].same THEN fresh ELSE fresh \ {d}
  /\ DoneRacing(c, d)
  /\ UNCHANGED <<token, lastToken, cache, subscribed, excused>>

\* Mutant: the entry is not deleted.
StartRevokeCached(c, t) ==
  /\ call[c].pc = "idle"
  /\ token[t].state = "live"
  /\ call' = [call EXCEPT ![c] = [Idle EXCEPT !.pc = "revoke", !.token = t]]
  /\ UNCHANGED <<device, token, lastToken, cache, subscribed, fresh, excused>>

\* deactivate_license finds the row and deletes the entry, if Redis is there ...
StartRevoke(c, t) ==
  /\ call[c].pc = "idle"
  /\ token[t].state = "live"
  /\ call' = [call EXCEPT ![c] = [Idle EXCEPT !.pc = "revoke", !.token = t]]
  /\ \/ cache' = cache \ {t} /\ UNCHANGED excused
     \/ excused' = excused \cup {t} /\ UNCHANGED cache
  /\ UNCHANGED <<device, token, lastToken, subscribed, fresh>>

\* ... before it commits.
CommitRevoke(c) ==
  /\ call[c].pc = "revoke"
  /\ token' = Revoked({call[c].token})
  /\ Done(c)
  /\ UNCHANGED <<device, lastToken, cache, subscribed, fresh, excused>>

\* remote_deactivate_user begins with deactivate_all_devices, which revokes every
\* activation ...
DeactivateAll(c) ==
  /\ call[c].pc = "idle"
  /\ device' = [d \in Devices |-> IF d \in Active THEN "deactivated" ELSE device[d]]
  /\ fresh' = {}
  /\ token' = Revoked(LiveTokens(Devices))
  /\ excused' = excused \cup LiveTokens(Devices)
  /\ call' = [b \in Callers |->
                IF b = c THEN [Idle EXCEPT !.pc = "sweep"] 
                ELSE [call[b] EXCEPT !.raced = (call[b].pc \in Activating)]]
  /\ UNCHANGED <<lastToken, cache, subscribed>>

\* ... so that its own pass over the activations, which would delete their entries,
\* finds only those issued since.  The entries are deleted one by one, and a deletion
\* may get lost; the pass is one step here, up to its commit.
Sweep(c) ==
  LET T == LiveTokens(Devices) IN
  /\ call[c].pc = "sweep"
  /\ \E deleted \in SUBSET T : cache' = cache \ deleted
  /\ token' = Revoked(T)
  /\ excused' = excused \cup T
  /\ Done(c)
  /\ UNCHANGED <<device, lastToken, subscribed, fresh>>

(***************************************************************************)
(* The surroundings.                                                       *)
(***************************************************************************)
\* Mutant: the entry of a revoked activation has no time to live.
EntryExpiresLive(t) ==
  /\ t \in cache
  /\ token[t].state = "live"
  /\ cache' = cache \ {t}
  /\ UNCHANGED <<device, token, lastToken, subscribed, call, fresh, excused>>

\* ACTIVATION_TOKEN_TTL is over.
EntryExpires(t) ==
  /\ t \in cache
  /\ cache' = cache \ {t}
  /\ UNCHANGED <<device, token, lastToken, subscribed, call, fresh, excused>>

SubscriptionChanges ==
  /\ subscribed' = ~subscribed
  /\ UNCHANGED <<device, token, lastToken, cache, call, fresh, excused>>

\* The process dies.
Crash ==
  /\ call' = [c \in Callers |-> Idle]
  /\ UNCHANGED <<device, token, lastToken, cache, subscribed, fresh, excused>>

CallStep(c) ==
  \/ Lookup(c) \/ Reactivate(c) \/ Count(c) \/ Insert(c) \/ Issue(c) \/ CacheToken(c)
  \/ CommitDeactivate(c) \/ CommitBlock(c) \/ CommitRevoke(c) \/ Sweep(c)

Next ==
  \/ \E c \in Callers :
       \/ CallStep(c)
       \/ \E d \in Devices :
            Activate(c, d) \/ StartOff(c, d, "deactivate") \/ StartOff(c, d, "block")
       \/ \E t \in Tokens : StartRevoke(c, t)
       \/ DeactivateAll(c)
  \/ \E t \in Tokens : EntryExpires(t)
  \/ SubscriptionChanges \/ Crash

Spec == Init /\ [][Next]_vars

\* Redis expires its keys.
FairSpec ==
  /\ Spec
  /\ \A t \in Tokens : WF_vars(EntryExpires(t))

(***************************************************************************)
(* What validate_activation answers.  The entry decides; without one the   *)
(* row of an activation that is not revoked has an expiry, which is read   *)
(* back without a time zone, and the comparison with a time that has one   *)
(* raises.                                                                 *)
(***************************************************************************)
Validate(t) ==
  IF t \in cache THEN "valid"
  ELSE IF token[t].state = "live" THEN "error"
  ELSE "invalid"

(***************************************************************************)
(* Properties.                                                             *)
(***************************************************************************)
\* Devices are counted and inserted in two steps: concurrent requests overshoot the
\* plan by no more than their number less one.  Devices that were switched off
\* once are not counted here, their reactivation knows no limit.
NewDevicesWithinLimit ==
  Cardinality(fresh) + Cardinality({c \in Callers : call[c].pc = "insert"})
    <= MaxDevices - 1 + Cardinality(Callers)

\* An activation its holder revoked is not valid any more, unless Redis missed the
\* deletion, the activation was entered again by a request in between, or it was
\* its device or its user that was switched off.
RevokedByHolder ==
  \A t \in Tokens :
    (token[t].state = "revoked" /\ t \notin excused) => Validate(t) = "invalid"

\* A token is issued for an active device, whatever the device has gone through,
\* unless it was switched off while the request was in flight.
IssuedForActiveDevice ==
  [][\A c \in Callers :
       (call[c].pc = "issue" /\ call'[c].pc # "issue" /\ lastToken' # lastToken)
         => call[c].device \in Active \/ call[c].raced]_vars

\* A revoked activation that still has its entry is refused in the end.
RevokedInTheEnd ==
  \A t \in Tokens :
    (token[t].state = "revoked" /\ Validate(t) = "valid") ~> Validate(t) = "invalid"
=============================================================================
