---------------------------- MODULE CandidateLease ----------------------------
(***************************************************************************)
(* One candidate key in Redis, its broker-absence progress key, and every  *)
(* call any executor may make on them.  An executor is reduced to the      *)
(* leases it was granted: whoever holds a lease may use it in any order    *)
(* and at any time, in particular after it expired or was superseded, so   *)
(* what holds here holds however the executors are scheduled.              *)
(***************************************************************************)
EXTENDS CandidateRecord

VARIABLES
  candidate,  \* the candidate record
  absences,   \* the absence progress: confirmations and age of the last one
  stream,     \* events appended to the candidate stream
  held,       \* held[t]: the event of the lease t, NoEvent when nobody holds t
  \* History, read by properties only.
  valid,      \* valid[t]: seconds until LeaseSeconds passed since t last succeeded
  span,       \* seconds since the first confirmation counted, up to MaxSpan
  unsettled   \* a broker request may have been sent and nothing settled it

leaseVars == <<candidate, absences, stream, held, valid, span, unsettled>>

MaxSpan == (Quorum - 1) * CheckSeconds

LeaseTypeOK ==
  /\ candidate \in Record
  /\ absences \in Progress
  /\ stream \subseteq Events
  /\ held \in [Tokens -> Events \cup {NoEvent}]
  /\ valid \in [Tokens -> 0 .. LeaseSeconds]
  /\ span \in 0 .. MaxSpan
  /\ unsettled \in BOOLEAN

LeaseInit ==
  /\ \/ candidate = Absent /\ stream = {}
     \/ candidate \in LegacyRecords(PublishSeconds) /\ \E e \in Events : stream = {e}
  /\ absences = NoProgress
  /\ held = [t \in Tokens |-> NoEvent]
  /\ valid = [t \in Tokens |-> 0]
  /\ span = 0
  /\ unsettled = FALSE

-----------------------------------------------------------------------------
\* The publisher appends an event unless the key exists.
Publish(e) ==
  /\ candidate.state = "absent"
  /\ e \notin stream
  /\ stream' = stream \cup {e}
  /\ candidate' = Published(e, PublishSeconds)
  /\ UNCHANGED <<absences, held, valid, span, unsettled>>

\* A claim brings a token never used before: one nobody holds any more.
ClaimLease(e, policy, t) ==
  /\ e \in stream
  /\ held[t] = NoEvent
  /\ candidate.token # t
  /\ MayClaim(candidate, e, policy)
  /\ candidate' = Claimed(candidate, e, t)
  /\ held' = [held EXCEPT ![t] = e]
  /\ valid' = [valid EXCEPT ![t] = LeaseSeconds]
  /\ UNCHANGED <<absences, stream, span, unsettled>>

Renew(t) ==
  /\ MayRenew(candidate, held[t], t)
  /\ candidate' = Renewed(candidate)
  /\ valid' = [valid EXCEPT ![t] = LeaseSeconds]
  /\ UNCHANGED <<absences, stream, held, span, unsettled>>

\* A release gives up the lease; any other transition extends it.
Transition(t, s) ==
  /\ MayTransition(candidate, held[t], t, s)
  /\ candidate' = Transitioned(candidate, s)
  /\ valid' = [valid EXCEPT ![t] = IF s = "retryable_error" THEN 0 ELSE LeaseSeconds]
  /\ unsettled' = CASE s = "broker_submitting" -> TRUE
                    [] s = "retryable_error"   -> FALSE
                    [] OTHER                   -> unsettled
  /\ UNCHANGED <<absences, stream, held, span>>

Complete(t, s) ==
  /\ MayComplete(candidate, held[t], t)
  /\ candidate' = Completed(candidate, s, "other")
  /\ valid' = [valid EXCEPT ![t] = 0]
  /\ unsettled' = FALSE
  /\ UNCHANGED <<absences, stream, held, span>>

RecordAbsenceCheck(t) ==
  LET e == held[t] IN
  /\ MayCountAbsence(candidate, e, t)
  /\ ~TooSoon(absences, e)
  /\ absences' = Confirmed(absences, e)
  /\ span' = IF Counted(absences, e) = 0 THEN 0 ELSE span
  /\ UNCHANGED <<candidate, stream, held, valid, unsettled>>

\* A recovery worker clears the progress, or its time to live runs out.
LoseProgress ==
  /\ absences # NoProgress
  /\ absences' = NoProgress
  /\ span' = 0
  /\ UNCHANGED <<candidate, stream, held, valid, unsettled>>

\* The holder stops using its lease: it finished, gave up or crashed.
Forget(t) ==
  /\ held[t] # NoEvent
  /\ held' = [held EXCEPT ![t] = NoEvent]
  /\ valid' = [valid EXCEPT ![t] = 0]
  /\ UNCHANGED <<candidate, absences, stream, span, unsettled>>

LoseKey ==
  /\ Due(candidate)
  /\ candidate' = Absent
  /\ UNCHANGED <<absences, stream, held, valid, span, unsettled>>

LeaseTick ==
  /\ ~Due(candidate)
  /\ candidate' = Aged(candidate)
  /\ absences' = AgedProgress(absences)
  /\ span' = IF absences.count = 0 THEN 0 ELSE UpTo(span, MaxSpan)
  /\ valid' = [t \in Tokens |-> Before(valid[t])]
  /\ UNCHANGED <<stream, held, unsettled>>

Policies == {DefaultClaim, RecoveryClaim}

LeaseNext ==
  \/ \E e \in Events : Publish(e)
  \/ \E e \in Events, policy \in Policies, t \in Tokens : ClaimLease(e, policy, t)
  \/ \E t \in Tokens : Renew(t)
  \/ \E t \in Tokens, s \in States : Transition(t, s)
  \/ \E t \in Tokens, s \in Completions : Complete(t, s)
  \/ \E t \in Tokens : RecordAbsenceCheck(t)
  \/ LoseProgress
  \/ \E t \in Tokens : Forget(t)
  \/ LoseKey
  \/ LeaseTick

LeaseSpec == LeaseInit /\ [][LeaseNext]_leaseVars

-----------------------------------------------------------------------------
(* What the record promises.                                               *)

\* A holder whose last success on the record is younger than the lease window
\* (and which did not itself release or complete) is the owner in Redis, and
\* so the only one: no reclaim, key expiry or late write of another executor
\* can take the candidate from under it (CandidateExecutionScripts.Acquire).
ExclusiveLease == \A t \in Tokens : valid[t] > 0 => candidate.token = t

\* The inductive form: no holder counts on a window longer than the lease in
\* the record, that lease ends no later than the key, and a record that is
\* free to claim keeps neither owner nor lease (Complete, Transition).
LeaseCovered ==
  /\ ExclusiveLease
  /\ \A t \in Tokens : valid[t] =< candidate.lease
  /\ candidate.token # NoToken => candidate.lease =< candidate.key
  /\ candidate.state \notin Active \cup Recovery => candidate.token = NoToken /\ candidate.lease = 0

\* A terminal outcome is never rewritten, reclaimed or released, whatever
\* lease a late executor still holds (Complete, Transition, Acquire).
TerminalIsFinal ==
  [][candidate.state \in Terminal =>
       \/ candidate'.state = candidate.state
       \/ candidate'.state = "absent" /\ candidate.key = 0]_leaseVars

\* Once a request may be at the broker the candidate goes back to ordinary
\* processing only through a recovery owner's release, or by losing its key.
UncertaintyIsKept ==
  [][candidate.state \in Uncertain =>
       \/ candidate'.state \in Uncertain \cup Completions
       \/ candidate.state = "broker_reconciling" /\ candidate'.state = "retryable_error"
       \/ candidate'.state = "absent" /\ candidate.key = 0]_leaseVars

\* Confirmations stand for snapshots CheckSeconds apart, across recovery
\* owners and restarts (RecordAbsenceCheck): n of them need that much time.
AbsenceIsSpaced ==
  absences.count > 0 => (absences.count - 1) * CheckSeconds =< span

\* What CandidateExecutionScripts.cs:279-281 says of the record: after a crash
\* and the expiry of its lease it stays recovery-required.
UncertainStaysRecoverable == unsettled => candidate.state \in Uncertain
=============================================================================
