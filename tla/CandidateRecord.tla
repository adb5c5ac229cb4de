--------------------------- MODULE CandidateRecord ---------------------------
(***************************************************************************)
(* The execution record of one trade candidate: the value of the Redis key *)
(* auto_trade:candidate:{id}, and what each fenced Lua script of           *)
(* CandidateExecutionScripts.cs computes from it.  Every script runs       *)
(* atomically in Redis, so each one is a guard on the record and a         *)
(* function of the record.  Time is counted in whole seconds, as           *)
(* now_seconds does: "lease" is the number of seconds until                *)
(* lease_expires_at (0: expired, or no lease) and "key" the number until   *)
(* Redis deletes the key.                                                  *)
(***************************************************************************)
EXTENDS Naturals

CONSTANTS
  Events,            \* stream event ids the candidate was published under
  Tokens,            \* lease tokens
  NoEvent,           \* the empty stream event id
  NoToken,           \* the null lease token
  LeaseSeconds,      \* CandidateLeaseDefaults.LeaseWindow
  RetentionSeconds,  \* the EX of transition and complete (604800)
  PublishSeconds,    \* ttl of the record the publisher writes
  CheckSeconds,      \* BrokerAbsenceRecheckSeconds
  Quorum             \* BrokerAbsenceConfirmations

ASSUME LeaseWindowAssumption ==
  /\ LeaseSeconds \in Nat \ {0}
  /\ RetentionSeconds \in Nat
  /\ LeaseSeconds =< RetentionSeconds

ASSUME ProgressAssumption ==
  /\ PublishSeconds \in Nat
  /\ CheckSeconds \in Nat \ {0}
  /\ Quorum \in Nat \ {0}

ASSUME NullAssumption ==
  /\ NoEvent \notin Events
  /\ NoToken \notin Tokens

Terminal  == {"ordered", "completed", "rejected", "dry_run"}
Retryable == {"published", "retryable_error"}
Active    == {"processing", "broker_submitting"}
Recovery  == {"broker_outcome_unknown", "broker_reconciling"}

\* The states in which a broker request may have been sent and not answered.
Uncertain == Recovery \cup {"broker_submitting"}

\* "absent" is a key Redis does not hold; "invalid" a payload that
\* decode_record or the identity check refuses.
States == Terminal \cup Retryable \cup Active \cup Recovery \cup {"absent", "invalid"}

Record == [state  : States,
           event  : Events \cup {NoEvent},
           format : {"json", "plain"},
           token  : Tokens \cup {NoToken},
           lease  : 0 .. LeaseSeconds,
           key    : Nat,
           outcome : {"other", "flip_pending"}]

Unleased(s, e, format, outcome, ttl) ==
  [state |-> s, event |-> e, format |-> format, token |-> NoToken,
   lease |-> 0, key |-> ttl, outcome |-> outcome]

Absent == Unleased("absent", NoEvent, "json", "other", 0)

\* What decode_record makes of the plain strings older deployments wrote.
LegacyRecords(ttl) ==
  { Unleased(s, NoEvent, "plain", "other", ttl) :
      s \in {"published", "processing", "dry_run", "ordered", "rejected", "invalid"} }
  \cup { Unleased("completed", NoEvent, "plain", "flip_pending", ttl) }

\* The record the publisher writes beside its XADD.
Published(e, ttl) == Unleased("published", e, "json", "other", ttl)

-----------------------------------------------------------------------------
(* Identity and ownership.                                                 *)

Identified(r, e) ==
  /\ r.state \notin {"absent", "invalid"}
  /\ \/ r.format = "plain"
     \/ r.event # NoEvent /\ r.event = e

Owns(r, t) ==
  /\ t # NoToken
  /\ r.token = t

-----------------------------------------------------------------------------
(* Acquire.  The variants below (RearmingRejected and the like) are the     *)
(* neighbouring definitions a slip in the script would give: each breaks a *)
(* property that the definition after it keeps.                            *)

DefaultClaim  == [rejected |-> FALSE, submitting |-> FALSE, recovery |-> FALSE]
FlipClaim     == [rejected |-> TRUE,  submitting |-> FALSE, recovery |-> FALSE]
RecoveryClaim == [rejected |-> FALSE, submitting |-> TRUE,  recovery |-> TRUE]

IgnoringLease(r) == r.format = "json"

Expired(r) == r.format = "json" /\ r.lease = 0

UnansweredKept(r, policy) ==
  \/ r.state \in Retryable
  \/ r.state = "rejected" /\ policy.rejected
  \/ r.state \in Recovery /\ policy.recovery /\ r.lease = 0
  \/ r.state = "processing" /\ Expired(r)

RearmingRejected(r, policy) ==
  \/ r.state \in Retryable
  \/ r.state = "rejected"
  \/ r.state \in Recovery /\ policy.recovery /\ r.lease = 0
  \/ r.state = "processing" /\ Expired(r)
  \/ r.state = "broker_submitting" /\ policy.submitting /\ Expired(r)

Reclaimable(r, policy) ==
  \/ r.state \in Retryable
  \/ r.state = "rejected" /\ policy.rejected
  \/ r.state \in Recovery /\ policy.recovery /\ r.lease = 0
  \/ r.state = "processing" /\ Expired(r)
  \/ r.state = "broker_submitting" /\ policy.submitting /\ Expired(r)

MayClaim(r, e, policy) ==
  \/ r.state = "absent"
  \/ Identified(r, e) /\ Reclaimable(r, policy)

\* The other dispositions: terminal, recovery required, conflict.  A refused
\* claim that is none of them is "active elsewhere".
ClaimIsTerminal(r, e, policy) ==
  /\ Identified(r, e)
  /\ r.state \in Terminal
  /\ ~Reclaimable(r, policy)

ClaimNeedsRecovery(r, e, policy) ==
  /\ Identified(r, e)
  /\ \/ r.state \in Recovery /\ ~policy.recovery
     \/ r.state = "broker_submitting" /\ Expired(r) /\ ~policy.submitting

ClaimedState(r) ==
  IF r.state \in Uncertain THEN "broker_reconciling" ELSE "processing"

ClaimedLate(r, e, t) ==
  [state |-> ClaimedState(r), event |-> e, format |-> "json", token |-> t,
   lease |-> LeaseSeconds + 1, key |-> LeaseSeconds, outcome |-> "other"]

Claimed(r, e, t) ==
  [state |-> ClaimedState(r), event |-> e, format |-> "json", token |-> t,
   lease |-> LeaseSeconds, key |-> LeaseSeconds, outcome |-> "other"]

-----------------------------------------------------------------------------
(* Renew, transition, complete.                                            *)

MayRenew(r, e, t) ==
  /\ Identified(r, e)
  /\ Owns(r, t)
  /\ r.state \in Active \cup Recovery

RenewedKeepingTtl(r) == [r EXCEPT !.lease = LeaseSeconds]

Renewed(r) == [r EXCEPT !.lease = LeaseSeconds, !.key = LeaseSeconds]

ReleasingAnything(s) ==
  CASE s = "processing"         -> {"broker_submitting", "broker_outcome_unknown", "retryable_error"}
    [] s = "broker_submitting"  -> {"broker_outcome_unknown", "retryable_error"}
    [] s = "broker_reconciling" -> {"broker_outcome_unknown", "retryable_error"}
    [] OTHER                    -> {}

AllowedTransitions(s) ==
  CASE s = "processing"         -> {"broker_submitting", "broker_outcome_unknown", "retryable_error"}
    [] s = "broker_submitting"  -> {"broker_outcome_unknown"}
    [] s = "broker_reconciling" -> {"broker_outcome_unknown", "retryable_error"}
    [] OTHER                    -> {}

MayTransition(r, e, t, s) ==
  /\ Identified(r, e)
  /\ Owns(r, t)
  /\ s \in AllowedTransitions(r.state)

Transitioned(r, s) ==
  IF s = "retryable_error"
  THEN [r EXCEPT !.state = s, !.token = NoToken, !.lease = 0, !.key = RetentionSeconds]
  ELSE [r EXCEPT !.state = s, !.lease = LeaseSeconds, !.key = RetentionSeconds]

Completions == {"ordered", "rejected", "completed"}

MayComplete(r, e, t) ==
  /\ Identified(r, e)
  /\ Owns(r, t)
  /\ r.state \in Active \cup Recovery

Completed(r, s, outcome) ==
  [r EXCEPT !.state = s, !.token = NoToken, !.lease = 0,
            !.key = RetentionSeconds, !.outcome = outcome]

\* The administrative rewrite of a flip marker, which no lease protects.
Overridden(r) ==
  Unleased("rejected", r.event, "json", "other", RetentionSeconds)

-----------------------------------------------------------------------------
(* Broker-absence progress, the record of auto_trade:recovery_progress:    *)
(* how many spaced empty snapshots were counted, and the age of the last.  *)

\* Confirmations are compared with Quorum only, ages with CheckSeconds: both
\* saturate there.
Progress == [event : Events \cup {NoEvent}, count : 0 .. Quorum, age : 0 .. CheckSeconds]

NoProgress == [event |-> NoEvent, count |-> 0, age |-> 0]

UpTo(n, max) == IF n < max THEN n + 1 ELSE max

\* Progress kept for another event counts for nothing.
Counted(p, e) == IF p.event = e THEN p.count ELSE 0

TooSoonIgnored(p, e) == FALSE

TooSoon(p, e) == Counted(p, e) > 0 /\ p.age < CheckSeconds

Confirmed(p, e) == [event |-> e, count |-> UpTo(Counted(p, e), Quorum), age |-> 0]

MayCountAbsence(r, e, t) ==
  /\ Identified(r, e)
  /\ Owns(r, t)
  /\ r.state = "broker_reconciling"

-----------------------------------------------------------------------------
(* Time.                                                                   *)

Before(n) == IF n = 0 THEN 0 ELSE n - 1

\* The record one second later.
Aged(r) == [r EXCEPT !.lease = Before(@), !.key = Before(@)]

AgedProgress(p) == [p EXCEPT !.age = IF p.count = 0 THEN 0 ELSE UpTo(@, CheckSeconds)]

\* Redis deletes the key in the second its time to live runs out.
Due(r) == r.state # "absent" /\ r.key = 0
=============================================================================
