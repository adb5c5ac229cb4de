--------------------------- MODULE CandidateExecutor ---------------------------
(***************************************************************************)
(* AutoTradeEngine executing one candidate: two or more executors reading  *)
(* the same stream entry, the broker that takes their order requests, and  *)
(* the fenced record of CandidateRecord between them.  Every Redis call is *)
(* one atomic step; everything between two awaits of an executor, its      *)
(* heartbeat, crashes, stalls and the clock interleave freely.             *)
(*                                                                         *)
(* An executor uses the lease of its latest claim only, so the lease token *)
(* is named by the executor: a claim by anyone else makes it foreign, and  *)
(* an executor that claims again never meets its own earlier token.        *)
(***************************************************************************)
EXTENDS CandidateRecord, FiniteSets

CONSTANTS
  Event,            \* the stream entry being executed
  Orders,           \* order requests ever issued
  NoOrder,
  SettleSeconds,    \* from the pre-submit gate until the broker shows the order or never will
  RecoverySeconds,  \* BrokerRecoveryTimeoutSeconds
  MaxFaults,        \* crashes, stalls and errors in one behaviour
  PromptSteps       \* steps an executor completes within one unit of time

ASSUME ExecutorAssumption ==
  /\ Event \in Events
  /\ NoOrder \notin Orders
  /\ SettleSeconds \in Nat /\ SettleSeconds < LeaseSeconds
  /\ LeaseSeconds >= 2
  /\ Quorum >= 2
  /\ RecoverySeconds \in Nat /\ RecoverySeconds >= CheckSeconds * (Quorum - 1)
  /\ MaxFaults \in Nat

Workers == Tokens

VARIABLES
  rec,         \* the candidate record
  progress,    \* the absence progress
  worker,      \* the executors
  order,       \* the order requests, as the broker sees them
  cursorPast,  \* the stream cursor passed the candidate's entry
  faults,      \* faults so far
  looks        \* history: empty snapshots counted since the last submission

vars == <<rec, progress, worker, order, cursorPast, faults, looks>>

\* Between a claim and the end of its processing the heartbeat runs.
Executing  == {"processing", "checked", "adopting", "reread", "submit", "ready",
               "awaiting", "filled", "unknown", "releasing"}
Recovering == {"look", "absent", "waiting", "freeing", "clearing",
               "adopt", "adopted", "giveup", "failed"}
Leased     == Executing \cup Recovering
Steps      == Leased \cup {"down", "idle", "recover", "advance", "done"}

ASSUME PromptAssumption == PromptSteps \subseteq Steps

Worker ==
  [pc    : Steps,
   heart : {"beating", "stalled", "lost"},
   order : Orders \cup {NoOrder},
   left  : 0 .. RecoverySeconds + 1,   \* until the recovery deadline has passed
   wait  : 0 .. CheckSeconds]          \* of the current recheck delay

Request == [state : {"free", "ready", "flight", "open"}, left : 0 .. SettleSeconds]

TypeOK ==
  /\ rec \in Record
  /\ progress \in Progress
  /\ worker \in [Workers -> Worker]
  /\ order \in [Orders -> Request]
  /\ cursorPast \in BOOLEAN
  /\ faults \in 0 .. MaxFaults
  /\ looks \in 0 .. Quorum

Idle == [pc |-> "idle", heart |-> "beating", order |-> NoOrder, left |-> 0, wait |-> 0]

Free == [state |-> "free", left |-> 0]

\* The publisher's record, or none left in Redis for an entry still in the
\* stream.
Init ==
  /\ rec \in {Published(Event, PublishSeconds), Absent}
  /\ progress = NoProgress
  /\ worker = [w \in Workers |-> Idle]
  /\ order = [o \in Orders |-> Free]
  /\ cursorPast = FALSE
  /\ faults = 0
  /\ looks = 0

-----------------------------------------------------------------------------
At(w, pc) == worker[w].pc = pc

Goto(w, pc) == worker' = [worker EXCEPT ![w].pc = pc]

\* ProcessEntryAsync returns without advancing: the entry is read again.
Return(w) == worker' = [worker EXCEPT ![w] = Idle]

\* ... or returns true: the lease and its heartbeat are disposed of.
ReturnTrue(w) == worker' = [worker EXCEPT ![w] = [Idle EXCEPT !.pc = "advance"]]

Lost(w) == worker[w].heart = "lost"

Blind == {}

\* The candidate's orders in a broker snapshot.
Visible == {o \in Orders : order[o].state = "open"}

\* Fenced writes whose result the caller ignores.
TryComplete(w, s) ==
  rec' = IF MayComplete(rec, Event, w) THEN Completed(rec, s, "other") ELSE rec

TryMarkUnknown(w) ==
  rec' = IF MayTransition(rec, Event, w, "broker_outcome_unknown")
         THEN Transitioned(rec, "broker_outcome_unknown") ELSE rec

-----------------------------------------------------------------------------
(* Intake.                                                                 *)

Claim(w) ==
  /\ At(w, "idle")
  /\ MayClaim(rec, Event, DefaultClaim)
  /\ rec' = Claimed(rec, Event, w)
  /\ Goto(w, "processing")
  /\ UNCHANGED <<progress, order, cursorPast, faults, looks>>

\* The other dispositions that do anything: a terminal record advances the
\* cursor, a recovery-required one starts a recovery.
Dispose(w) ==
  /\ At(w, "idle")
  /\ \/ ClaimIsTerminal(rec, Event, DefaultClaim) /\ ReturnTrue(w)
     \/ ClaimNeedsRecovery(rec, Event, DefaultClaim) /\ Goto(w, "recover")
  /\ UNCHANGED <<rec, progress, order, cursorPast, faults, looks>>

\* RejectAsync, from the validations before the broker snapshot and from the
\* exposure and sizing checks after it.  It returns true whatever the fenced
\* completion said.
Reject(w) ==
  /\ At(w, "processing") \/ At(w, "checked")
  /\ TryComplete(w, "rejected")
  /\ ReturnTrue(w)
  /\ UNCHANGED <<progress, order, cursorPast, faults, looks>>

\* ReconcileAsync and the search for orders carrying the candidate's token.
Snapshot(w) ==
  /\ At(w, "processing")
  /\ Goto(w, IF Visible # {} THEN "adopting" ELSE "checked")
  /\ UNCHANGED <<rec, progress, order, cursorPast, faults, looks>>

Adopt(w) ==
  /\ At(w, "adopting")
  /\ TryComplete(w, "ordered")
  /\ ReturnTrue(w)
  /\ UNCHANGED <<progress, order, cursorPast, faults, looks>>

-----------------------------------------------------------------------------
(* EnsureBrokerLeaseAsync: renew, read the record, transition.             *)

GateRenew(w) ==
  /\ At(w, "checked")
  /\ IF ~Lost(w) /\ MayRenew(rec, Event, w)
     THEN /\ rec' = Renewed(rec)
          /\ worker' = [worker EXCEPT ![w].pc = "reread", ![w].heart = "beating"]
     ELSE Return(w) /\ UNCHANGED rec
  /\ UNCHANGED <<progress, order, cursorPast, faults, looks>>

\* The request about to be sent counts from here: the gate is open.
Open(w, o) ==
  /\ order[o].state = "free"
  /\ order' = [order EXCEPT ![o] = [state |-> "ready", left |-> SettleSeconds]]
  /\ worker' = [worker EXCEPT ![w].pc = "ready", ![w].order = o]
  /\ looks' = 0

\* A record found in broker_submitting passes without a look at its owner.
GateReread(w) ==
  /\ At(w, "reread")
  /\ \/ /\ rec.state = "broker_submitting"
        /\ \E o \in Orders : Open(w, o)
     \/ /\ rec.state # "broker_submitting"
        /\ Goto(w, "submit")
        /\ UNCHANGED <<order, looks>>
  /\ UNCHANGED <<rec, progress, cursorPast, faults>>

Submit(w) ==
  /\ At(w, "submit")
  /\ IF MayTransition(rec, Event, w, "broker_submitting")
     THEN /\ rec' = Transitioned(rec, "broker_submitting")
          /\ \E o \in Orders : Open(w, o)
     ELSE Return(w) /\ UNCHANGED <<rec, order, looks>>
  /\ UNCHANGED <<progress, cursorPast, faults>>

-----------------------------------------------------------------------------
(* The broker request.                                                     *)

Send(w) ==
  /\ At(w, "ready")
  /\ order' = [order EXCEPT ![worker[w].order].state = "flight"]
  /\ Goto(w, "awaiting")
  /\ UNCHANGED <<rec, progress, cursorPast, faults, looks>>

\* Ownership loss cancels the call, sent or not.
Cancelled(w) ==
  /\ Lost(w)
  /\ \/ /\ At(w, "ready")
        /\ order' = [order EXCEPT ![worker[w].order] = Free]
     \/ At(w, "awaiting") /\ UNCHANGED order
  /\ Goto(w, "unknown")
  /\ UNCHANGED <<rec, progress, cursorPast, faults, looks>>

\* The response; an error response leaves the outcome unknown as a lost one does.
Answer(w) ==
  /\ At(w, "awaiting")
  /\ LET o == worker[w].order IN
       \/ order[o].state = "open" /\ Goto(w, "filled")
       \/ order[o].state = "free" /\ Goto(w, "unknown")
  /\ UNCHANGED <<rec, progress, order, cursorPast, faults, looks>>

\* The completion after the fill, its result ignored.
Fill(w) ==
  /\ At(w, "filled")
  /\ TryComplete(w, "ordered")
  /\ ReturnTrue(w)
  /\ UNCHANGED <<progress, order, cursorPast, faults, looks>>

MarkUnknown(w) ==
  /\ At(w, "unknown")
  /\ TryMarkUnknown(w)
  /\ Return(w)
  /\ UNCHANGED <<progress, order, cursorPast, faults, looks>>

\* ReleaseRetryableAsync: skipped after ownership loss, refused by the record
\* once it is broker_submitting.
Release(w) ==
  /\ At(w, "releasing")
  /\ rec' = IF ~Lost(w) /\ MayTransition(rec, Event, w, "retryable_error")
            THEN Transitioned(rec, "retryable_error") ELSE rec
  /\ Return(w)
  /\ UNCHANGED <<progress, order, cursorPast, faults, looks>>

-----------------------------------------------------------------------------
(* ReconcileBrokerOutcomeAsync and RecoverBrokerOutcomeAsync.              *)

StartRecovery(w) ==
  /\ At(w, "recover")
  /\ IF MayClaim(rec, Event, RecoveryClaim)
     THEN /\ rec' = Claimed(rec, Event, w)
          /\ worker' = [worker EXCEPT ![w] =
               [Idle EXCEPT !.pc = "look", !.left = RecoverySeconds + 1]]
     ELSE /\ UNCHANGED rec
          /\ IF ClaimIsTerminal(rec, Event, RecoveryClaim) THEN ReturnTrue(w) ELSE Return(w)
  /\ UNCHANGED <<progress, order, cursorPast, faults, looks>>

\* One snapshot.  Two objects claiming one identity are a conflict.
Look(w) ==
  /\ At(w, "look")
  /\ Goto(w, IF worker[w].left = 0 \/ Cardinality(Visible) > 1 THEN "giveup"
             ELSE IF Visible # {} THEN "adopt" ELSE "absent")
  /\ UNCHANGED <<rec, progress, order, cursorPast, faults, looks>>

\* Sleep before the next snapshot, unless the deadline comes first.
Sleep(w, seconds) ==
  IF seconds >= worker[w].left
  THEN Goto(w, "giveup")
  ELSE worker' = [worker EXCEPT ![w].pc = "waiting", ![w].wait = seconds]

AbsenceCheck(w) ==
  /\ At(w, "absent")
  /\ \/ /\ ~MayCountAbsence(rec, Event, w)
        /\ Return(w)
        /\ UNCHANGED <<progress, looks>>
     \/ /\ MayCountAbsence(rec, Event, w) /\ TooSoon(progress, Event)
        /\ Sleep(w, CheckSeconds - progress.age)
        /\ UNCHANGED <<progress, looks>>
     \/ /\ MayCountAbsence(rec, Event, w) /\ ~TooSoon(progress, Event)
        /\ progress' = Confirmed(progress, Event)
        /\ looks' = UpTo(looks, Quorum)
        /\ IF progress'.count >= Quorum
           THEN Goto(w, "freeing") ELSE Sleep(w, CheckSeconds)
  /\ UNCHANGED <<rec, order, cursorPast, faults>>

Awake(w) ==
  /\ At(w, "waiting")
  /\ worker[w].wait = 0
  /\ Goto(w, "look")
  /\ UNCHANGED <<rec, progress, order, cursorPast, faults, looks>>

\* Absence confirmed: the fenced release, then the progress is cleared.
ReleaseAbsent(w) ==
  /\ At(w, "freeing")
  /\ IF MayTransition(rec, Event, w, "retryable_error")
     THEN rec' = Transitioned(rec, "retryable_error") /\ Goto(w, "clearing")
     ELSE Return(w) /\ UNCHANGED rec
  /\ UNCHANGED <<progress, order, cursorPast, faults, looks>>

AdoptFound(w) ==
  /\ At(w, "adopt")
  /\ IF MayComplete(rec, Event, w)
     THEN rec' = Completed(rec, "ordered", "other") /\ Goto(w, "adopted")
     ELSE Return(w) /\ UNCHANGED rec
  /\ UNCHANGED <<progress, order, cursorPast, faults, looks>>

ClearProgress(w) ==
  /\ progress' = NoProgress
  /\ \/ At(w, "clearing") /\ Return(w)
     \/ At(w, "adopted") /\ ReturnTrue(w)
  /\ UNCHANGED <<rec, order, cursorPast, faults, looks>>

\* Conflict or timeout; "failed" is the handler of an unusable broker view,
\* which leaves the record alone after ownership loss.
GiveUp(w) ==
  /\ \/ At(w, "giveup") /\ TryMarkUnknown(w)
     \/ At(w, "failed") /\ (IF Lost(w) THEN UNCHANGED rec ELSE TryMarkUnknown(w))
  /\ Return(w)
  /\ UNCHANGED <<progress, order, cursorPast, faults, looks>>

\* Ownership loss cancels the whole recovery.
Abandon(w) ==
  /\ Lost(w)
  /\ worker[w].pc \in Recovering
  /\ Return(w)
  /\ UNCHANGED <<rec, progress, order, cursorPast, faults, looks>>

-----------------------------------------------------------------------------
(* The cursor.                                                             *)

Advance(w) ==
  /\ At(w, "advance")
  /\ cursorPast' = TRUE
  /\ worker' = [worker EXCEPT ![w] = [Idle EXCEPT !.pc = "done"]]
  /\ UNCHANGED <<rec, progress, order, faults, looks>>

-----------------------------------------------------------------------------
(* Heartbeat, faults, broker and clock.                                    *)

\* RenewOnceAsync; a refused renewal ends the loop for good.
Beat(w) ==
  /\ worker[w].pc \in Leased
  /\ ~Lost(w)
  /\ IF MayRenew(rec, Event, w)
     THEN rec' = Renewed(rec) /\ worker' = [worker EXCEPT ![w].heart = "beating"]
     ELSE worker' = [worker EXCEPT ![w].heart = "lost"] /\ UNCHANGED rec
  /\ UNCHANGED <<progress, order, cursorPast, faults, looks>>

Fault == faults < MaxFaults /\ faults' = faults + 1

\* A request not handed to the broker yet dies with its executor's step.
Withdrawn(w) ==
  IF At(w, "ready") THEN [order EXCEPT ![worker[w].order] = Free] ELSE order

Crash(w) ==
  /\ Fault
  /\ worker[w].pc \notin {"down", "done"}
  /\ worker' = [worker EXCEPT ![w] = [Idle EXCEPT !.pc = "down"]]
  /\ order' = Withdrawn(w)
  /\ UNCHANGED <<rec, progress, cursorPast, looks>>

Restart(w) ==
  /\ At(w, "down")
  /\ worker' = [worker EXCEPT ![w] = [Idle EXCEPT !.pc = IF cursorPast THEN "done" ELSE "idle"]]
  /\ UNCHANGED <<rec, progress, order, cursorPast, faults, looks>>

\* The executor's process is late: its heartbeat misses renewals ...
Stall(w) ==
  /\ Fault
  /\ worker[w].pc \in Leased
  /\ worker[w].heart = "beating"
  /\ worker' = [worker EXCEPT ![w].heart = "stalled"]
  /\ UNCHANGED <<rec, progress, order, cursorPast, looks>>

\* ... or one fails, which also counts as ownership lost.
BeatFails(w) ==
  /\ Fault
  /\ worker[w].pc \in Leased
  /\ ~Lost(w)
  /\ worker' = [worker EXCEPT ![w].heart = "lost"]
  /\ UNCHANGED <<rec, progress, order, cursorPast, looks>>

\* An exception of any step before the request, of a gate call Redis applied
\* but did not acknowledge, or of the bookkeeping after the fill.
Fails(w) ==
  /\ Fault
  /\ worker[w].pc \in {"processing", "checked", "adopting", "reread", "submit", "ready", "filled"}
  /\ worker' = [worker EXCEPT ![w].pc = "releasing", ![w].order = NoOrder]
  /\ order' = Withdrawn(w)
  /\ UNCHANGED <<rec, progress, cursorPast, looks>>

\* The response is lost, or the stop amendment after the fill is.
ResponseLost(w) ==
  /\ Fault
  /\ At(w, "awaiting") \/ At(w, "filled")
  /\ Goto(w, "unknown")
  /\ UNCHANGED <<rec, progress, order, cursorPast, looks>>

RecoveryFails(w) ==
  /\ Fault
  /\ worker[w].pc \in Recovering \ {"failed"}
  /\ Goto(w, "failed")
  /\ UNCHANGED <<rec, progress, order, cursorPast, looks>>

\* The fill carries a position id another group holds: nothing is completed,
\* and the handler reports success.
IdentityConflict(w) ==
  /\ Fault
  /\ At(w, "filled")
  /\ ReturnTrue(w)
  /\ UNCHANGED <<rec, progress, order, cursorPast, looks>>

\* The broker accepts a request, or loses or refuses it.
Settle(o) ==
  /\ order[o].state = "flight"
  /\ order' = [order EXCEPT ![o] = [state |-> "open", left |-> 0]]
  /\ UNCHANGED <<rec, progress, worker, cursorPast, faults, looks>>

Drop(o) ==
  /\ Fault
  /\ order[o].state = "flight"
  /\ order' = [order EXCEPT ![o] = Free]
  /\ UNCHANGED <<rec, progress, worker, cursorPast, looks>>

KeyExpires ==
  /\ Due(rec)
  /\ rec' = Absent
  /\ UNCHANGED <<progress, worker, order, cursorPast, faults, looks>>

\* The heartbeat renews well inside the lease window unless it is stalled.
Renewing(w) ==
  /\ rec.token = w
  /\ worker[w].pc \in Leased
  /\ worker[w].heart = "beating"

\* Keys written for longer than a lease window outlive the behaviours
\* considered: they do not age.
Tick ==
  /\ ~Due(rec)
  /\ \A o \in Orders : order[o].state \in {"ready", "flight"} => order[o].left > 0
  /\ \A w \in Workers : worker[w].pc \notin PromptSteps /\ (Renewing(w) => rec.lease > 1)
  /\ rec' = IF rec.key > LeaseSeconds THEN [rec EXCEPT !.lease = Before(@)] ELSE Aged(rec)
  /\ progress' = AgedProgress(progress)
  /\ worker' = [w \in Workers |->
                  [worker[w] EXCEPT !.left = Before(@), !.wait = Before(@)]]
  /\ order' = [o \in Orders |-> [order[o] EXCEPT !.left = Before(@)]]
  /\ UNCHANGED <<cursorPast, faults, looks>>

-----------------------------------------------------------------------------
\* What an executor does next of its own accord.
Proceed(w) ==
  \/ Claim(w) \/ Dispose(w) \/ Reject(w) \/ Snapshot(w) \/ Adopt(w)
  \/ GateRenew(w) \/ GateReread(w) \/ Submit(w)
  \/ Send(w) \/ Cancelled(w) \/ Answer(w) \/ Fill(w) \/ MarkUnknown(w) \/ Release(w)
  \/ StartRecovery(w) \/ Look(w) \/ AbsenceCheck(w) \/ Awake(w) \/ ReleaseAbsent(w)
  \/ AdoptFound(w) \/ ClearProgress(w) \/ GiveUp(w) \/ Abandon(w)
  \/ Advance(w) \/ Restart(w)

Disturb(w) ==
  \/ Crash(w) \/ Stall(w) \/ BeatFails(w) \/ Fails(w) \/ ResponseLost(w)
  \/ RecoveryFails(w) \/ IdentityConflict(w)

Next ==
  \/ \E w \in Workers : Proceed(w) \/ Beat(w) \/ Disturb(w)
  \/ \E o \in Orders : Settle(o) \/ Drop(o)
  \/ KeyExpires
  \/ Tick

Spec == Init /\ [][Next]_vars

\* Executors poll for ever and are restarted, requests settle and Redis deletes
\* what is due; the clock goes on whenever it is not waiting for one of them.
Fairness ==
  /\ \A w \in Workers : WF_vars(Proceed(w)) /\ WF_vars(Beat(w))
  /\ \A o \in Orders : WF_vars(Settle(o))
  /\ WF_vars(KeyExpires)
  /\ WF_vars(Tick)

FairSpec == Spec /\ Fairness

-----------------------------------------------------------------------------
\* At most one order is at the broker, on its way there or about to be sent,
\* whatever executors overlap and however they fail (EnsureBrokerLeaseAsync,
\* the snapshot before placement, and recovery).
AtMostOneOrder == Cardinality({o \in Orders : order[o].state # "free"}) =< 1

\* Recovery hands a candidate back only when no order of it exists or can
\* still arrive (RecoverBrokerOutcomeAsync).
ReleaseOnlyWhenAbsent ==
  [][rec.state = "broker_reconciling" /\ rec'.state = "retryable_error" =>
       \A o \in Orders : order[o].state = "free"]_vars

\* The candidate is decided once, and consistently with its order.
Outcome == INSTANCE CandidateOutcome WITH
  placed  <- Cardinality(Visible),
  decided <- IF rec.state \in {"ordered", "rejected"} THEN rec.state ELSE "none"

ImplementsOutcome == Outcome!Spec

\* Faults stopping, the stream moves past the candidate (session loop).
EventuallyPast == <>cursorPast

\* What docs/autotrade-execution-integrity.md:412-416 says: a candidate is
\* handed back after Quorum empty snapshots, taken for this submission.
AbsenceNeedsQuorum ==
  [][rec.state = "broker_reconciling" /\ rec'.state = "retryable_error" => looks >= Quorum]_vars

\* What AutoTradeEngine.cs:816-817 says: only a proven-terminal candidate may
\* advance the cursor.
OnlyTerminalAdvances == [][cursorPast' /\ ~cursorPast => rec.state \in Terminal]_vars

\* What AutoTradeEngine.cs:8533-8534 says of a gate passed by a record found
\* in broker_submitting: ownership is proven.
GateProvesOwnership ==
  [][\A w \in Workers : At(w, "reread") /\ worker'[w].pc = "ready" => rec.token = w]_vars
=============================================================================
