------------------------------ MODULE PlanRuntime ------------------------------
(***************************************************************************)
(* TradePlanRuntime, the consumer of the TradePlan V8 stream: intake,      *)
(* entry submission leg by leg, reconciliation of submitted legs, and      *)
(* recovery after a restart, between Redis and the broker.  One process    *)
(* runs it under one gate, so its steps never overlap each other; every    *)
(* await may fail or be cut off by a crash, and the broker, the owner of   *)
(* the account and the clock move between any two steps.                   *)
(*                                                                         *)
(* The plans are well formed, of one instrument and one direction, none of *)
(* them a scalp, and a live quote is at hand.  Management of open          *)
(* positions (targets, stops, closing) is not part of this module.         *)
(***************************************************************************)
EXTENDS Naturals, Sequences, FiniteSets

CONSTANTS
  PlanCount,   \* plans in the stream, numbered in stream order
  OrderTypes,  \* OrderTypes[p][l]: the order types leg l of plan p may resolve to
  Watched,     \* market_watch plans
  MaxFaults    \* crashes and failed calls in one behaviour

Plans == 1 .. PlanCount
LegCount(p) == Len(OrderTypes[p])
Legs(p) == 1 .. LegCount(p)

ASSUME PlanAssumption ==
  /\ PlanCount \in Nat \ {0}
  /\ OrderTypes \in [Plans -> Seq((SUBSET {"market", "limit"}) \ {{}})]
  /\ \A p \in Plans : Legs(p) # {}
  /\ Watched \subseteq Plans
  /\ \A p \in Watched : OrderTypes[p] = <<{"market"}>>
  /\ MaxFaults \in Nat

VARIABLES
  \* Redis
  cursor,     \* execution:trade_plan_cursor
  claimed,    \* plans with a claim key
  saved,      \* execution:plan_runtime
  recovery,   \* plans with a recovery copy
  tracked,    \* execution:trade_plan_runtime_ids
  graced,     \* plans whose recovery grace was claimed
  lifecycle,  \* execution:plan_state
  \* the process
  mem,        \* _statesById
  restored,   \* _restored
  task,       \* where the current poll is
  \* the world
  order,      \* order[p][l]: what the broker holds of the leg
  lapsed,     \* plans past the deadline of their entry
  faults,
  recorded    \* history: legs a write to Redis ever recorded as submitted

redis == <<cursor, claimed, saved, recovery, tracked, graced, lifecycle>>
keys  == <<cursor, claimed, graced>>
world == <<order, lapsed, faults>>
vars  == <<redis, mem, restored, task, world, recorded>>

LegStages == {"none", "planned", "pending", "gone", "overdue", "filled", "cancelled"}
Stages == {"None", "Received", "Submitting", "Submitted", "PartiallyOpen", "FullyOpen", "Closed"}

\* The runtime state of plan p.  A leg is "gone" when its pending order was
\* not in the last snapshot, and "overdue" once that is 10 seconds ago.
State(p) == [stage : Stages, next : 0 .. LegCount(p), legs : [Legs(p) -> LegStages]]

NoState(p)  == [stage |-> "None", next |-> 0, legs |-> [l \in Legs(p) |-> "none"]]
Received(p) == [NoState(p) EXCEPT !.stage = "Received"]

Steps == {"idle", "read", "admit", "receive", "announce", "cursor", "evaluate", "expire",
          "reject", "send", "amend", "record", "told", "forget", "reconcile"}

\* "back" is the part of the poll, or the timer, that the step belongs to.
Idle == [pc |-> "idle", back |-> "idle", plan |-> 0, todo |-> {}, state |-> <<>>]

OrderStates == {"none", "pending", "filling", "open", "cancelled"}

Lifecycles == {"published", "received", "submitted", "filled", "rejected", "expired"}

TypeOK ==
  /\ cursor \in 0 .. PlanCount
  /\ claimed \subseteq Plans /\ recovery \subseteq Plans
  /\ tracked \subseteq Plans /\ graced \subseteq Plans
  /\ \A p \in Plans : saved[p] \in State(p) /\ mem[p] \in State(p)
  /\ lifecycle \in [Plans -> Lifecycles]
  /\ restored \in BOOLEAN
  /\ task.pc \in Steps /\ task.back \in {"idle", "evaluate", "reconcile"}
  /\ task.plan \in 0 .. PlanCount /\ task.todo \subseteq Plans
  /\ task.state = <<>> \/ task.state \in State(task.plan)
  /\ \A p \in Plans : order[p] \in [Legs(p) -> OrderStates]
  /\ lapsed \subseteq Plans
  /\ faults \in 0 .. MaxFaults

Init ==
  /\ cursor = 0
  /\ claimed = {} /\ recovery = {} /\ tracked = {} /\ graced = {}
  /\ saved = [p \in Plans |-> NoState(p)]
  /\ mem = saved
  /\ lifecycle = [p \in Plans |-> "published"]
  /\ restored = FALSE
  /\ task = Idle
  /\ order = [p \in Plans |-> [l \in Legs(p) |-> "none"]]
  /\ lapsed = {}
  /\ faults = 0
  /\ recorded = {}

-----------------------------------------------------------------------------
(* What the runtime derives from the legs of a plan.                       *)

\* A leg that the broker was asked for and that is not known to be dead.
Waiting == {"pending", "gone", "overdue"}
Owned   == Waiting \cup {"filled"}

Some(legs, stages) == \E l \in DOMAIN legs : legs[l] \in stages

DeriveRuntimeStage(legs) ==
  CASE Some(legs, {"filled"}) /\ Some(legs, Waiting) -> "PartiallyOpen"
    [] Some(legs, {"filled"}) /\ ~Some(legs, Waiting) -> "FullyOpen"
    [] OTHER ->
         IF /\ Some(legs, {"cancelled"})
            /\ ~Some(legs, Waiting \cup {"planned"})
         THEN "Closed" ELSE "Submitted"

IsPendingEntryStage(s) == s.stage \in {"Received", "Submitting"}

NeedsSubmittedReconcile(s) ==
  s.stage \in {"Submitted", "PartiallyOpen"} \/ Some(s.legs, Waiting)

\* AggregateState after leg l was placed.
Placed(p, s, l, legStage) ==
  LET legs == [s.legs EXCEPT ![l] = legStage] IN
  [stage |-> IF l < LegCount(p) THEN "Submitting" ELSE DeriveRuntimeStage(legs),
   next |-> l, legs |-> legs]

Planned(s) == [s EXCEPT !.legs = [l \in DOMAIN @ |-> IF @[l] = "none" THEN "planned" ELSE @[l]]]

\* Adoption looks at the ownership token of a position only.
AdoptedIfWaiting(p, s) == {l \in Legs(p) : order[p][l] = "open" /\ s.legs[l] \in Waiting}

Adopted(p, s) == {l \in Legs(p) : order[p][l] = "open" /\ s.legs[l] # "filled"}

WithFilled(s, adopted) ==
  LET legs == [l \in DOMAIN s.legs |-> IF l \in adopted THEN "filled" ELSE s.legs[l]]
  IN [s EXCEPT !.legs = legs, !.stage = DeriveRuntimeStage(legs)]

\* What becomes of a leg whose order is not in the snapshot: an order that
\* just triggered shows neither as an order nor as a position.
MissingAtOnce(leg) == IF leg \in Waiting THEN "cancelled" ELSE leg

MissingKept(leg) == IF leg = "pending" THEN "gone" ELSE leg

Missing(leg) ==
  CASE leg = "pending" -> "gone"
    [] leg = "overdue" -> "cancelled"
    [] OTHER           -> leg

\* Submitted legs against one snapshot.
Reconciled(p, s) ==
  LET adopted == WithFilled(s, Adopted(p, s)).legs
      legs == [l \in Legs(p) |->
        CASE order[p][l] = "pending" /\ adopted[l] \in Waiting -> "pending"
          [] order[p][l] \in {"filling", "cancelled"}          -> Missing(adopted[l])
          [] OTHER                                             -> adopted[l]]
  IN [s EXCEPT !.legs = legs, !.stage = DeriveRuntimeStage(legs)]

\* Another plan that is pending or open.
OpenPlanBlocks(p) ==
  \E q \in Plans \ {p} : mem[q].stage \in {"Submitted", "PartiallyOpen", "FullyOpen"}

HasBlockingSameDirectionLivePlan(p) ==
  \E q \in Plans \ {p} : mem[q].stage \notin {"None", "Closed"}

Priority(s) ==
  CASE s = "published" -> 10 [] s = "received" -> 20 [] s = "submitted" -> 40
    [] s = "filled" -> 50    [] s \in {"rejected", "expired"} -> 100

PlainWrite(p, s) == lifecycle' = [lifecycle EXCEPT ![p] = s]

\* PersistPlanExecutionStateAsync never lowers the lifecycle.
PersistPlanExecutionState(p, s) ==
  lifecycle' = [lifecycle EXCEPT ![p] = IF Priority(@) > Priority(s) THEN @ ELSE s]

-----------------------------------------------------------------------------
(* Writes of several keys.                                                 *)

Recording(p, s) == {<<p, l>> : l \in {k \in Legs(p) : s.legs[k] \in Owned}}

\* PersistStateAsync: the memory, the state key, then the set of tracked ids.
Save(p, s) ==
  /\ saved' = [saved EXCEPT ![p] = s]
  /\ tracked' = tracked \cup {p}
  /\ recorded' = recorded \cup Recording(p, s)

SaveInterrupted(p, s) ==
  /\ \/ UNCHANGED <<saved, recorded>>
     \/ saved' = [saved EXCEPT ![p] = s] /\ recorded' = recorded \cup Recording(p, s)
  /\ UNCHANGED tracked

\* ForgetPlanAsync: the state key, the recovery copy, then the tracked ids.
Erase(p) ==
  /\ saved' = [saved EXCEPT ![p] = NoState(p)]
  /\ recovery' = recovery \ {p}
  /\ tracked' = tracked \ {p}

CopyErasedFirst(p) ==
  /\ recovery' \in {recovery, recovery \ {p}}
  /\ UNCHANGED <<saved, tracked>>

EraseInterrupted(p) ==
  /\ \/ UNCHANGED <<saved, recovery>>
     \/ saved' = [saved EXCEPT ![p] = NoState(p)] /\ recovery' \in {recovery, recovery \ {p}}
  /\ UNCHANGED tracked

-----------------------------------------------------------------------------
At(pc) == task.pc = pc

Goto(pc) == task' = [task EXCEPT !.pc = pc]

\* The current plan is dealt with; the loop it belongs to goes on.
NextPlan ==
  task' = [task EXCEPT !.pc = task.back, !.plan = 0, !.state = <<>>, !.todo = @ \ {task.plan}]

\* RestoreAsync.  A market_watch plan whose deadline passed gets one grace.
Granted(p) ==
  /\ p \in Watched \cap tracked \cap recovery \cap lapsed
  /\ p \notin graced
  /\ IsPendingEntryStage(saved[p])

Restore ==
  /\ At("idle")
  /\ ~restored
  /\ restored' = TRUE
  /\ mem' = [p \in Plans |->
       IF p \in tracked /\ saved[p].stage # "Closed" THEN saved[p] ELSE NoState(p)]
  /\ LET granted == {p \in Plans : Granted(p)} IN
       graced' = graced \cup granted /\ lapsed' = lapsed \ granted
  /\ UNCHANGED <<cursor, claimed, saved, recovery, tracked, lifecycle,
                 task, order, faults, recorded>>

-----------------------------------------------------------------------------
(* Intake: ReadAndArmNewPlansAsync and ProcessTradePlanEntryAsync.         *)

Poll ==
  /\ At("idle")
  /\ restored
  /\ Goto("read")
  /\ UNCHANGED <<redis, mem, restored, world, recorded>>

Evaluation == [Idle EXCEPT !.pc = "evaluate", !.back = "evaluate",
                           !.todo = {q \in Plans : IsPendingEntryStage(mem[q])}]

\* No further entry has arrived.
EntriesRead ==
  /\ At("read")
  /\ task' = Evaluation
  /\ UNCHANGED <<redis, mem, restored, world, recorded>>

AdmittedAgain(p) == [task EXCEPT !.pc = "admit", !.plan = p]

\* A claim of one's own: the entry was read before, and only its cursor moves.
Redelivered(p) == [task EXCEPT !.pc = "cursor", !.plan = p]

Claim ==
  /\ At("read")
  /\ cursor < PlanCount
  /\ LET p == cursor + 1 IN
       /\ claimed' = claimed \cup {p}
       /\ task' = IF p \in claimed THEN Redelivered(p)
                  ELSE [task EXCEPT !.pc = "admit", !.plan = p]
  /\ UNCHANGED <<cursor, saved, recovery, tracked, graced, lifecycle,
                 mem, restored, world, recorded>>

\* Sizing may refuse the plan; otherwise another live plan does, or it is
\* admitted and its recovery copy written.
Admit ==
  /\ At("admit")
  /\ \/ /\ PersistPlanExecutionState(task.plan, "rejected")
        /\ Goto("cursor")
        /\ UNCHANGED recovery
     \/ /\ ~HasBlockingSameDirectionLivePlan(task.plan)
        /\ recovery' = recovery \cup {task.plan}
        /\ Goto("receive")
        /\ UNCHANGED lifecycle
  /\ UNCHANGED <<keys, saved, tracked, mem, restored, world, recorded>>

Receive ==
  /\ At("receive")
  /\ mem' = [mem EXCEPT ![task.plan] = Received(task.plan)]
  /\ Save(task.plan, Received(task.plan))
  /\ Goto("announce")
  /\ UNCHANGED <<keys, recovery, lifecycle, restored, world>>

Announce ==
  /\ At("announce")
  /\ PersistPlanExecutionState(task.plan, "received")
  /\ Goto("cursor")
  /\ UNCHANGED <<keys, saved, recovery, tracked, mem, restored, world, recorded>>

SetCursor ==
  /\ At("cursor")
  /\ cursor' = task.plan
  /\ task' = [task EXCEPT !.pc = "read", !.plan = 0]
  /\ UNCHANGED <<claimed, saved, recovery, tracked, graced, lifecycle,
                 mem, restored, world, recorded>>

-----------------------------------------------------------------------------
(* Entry: TrySubmitReceivedPlanAsync and SubmitEntryAsync.                 *)

\* The deadline comes first; a watched plan may wait for its price; sizing may
\* refuse the plan, whatever was submitted of it before.
Evaluate(p) ==
  /\ At("evaluate")
  /\ p \in task.todo
  /\ LET to(pc) == [task EXCEPT !.pc = pc, !.plan = p, !.state = Planned(mem[p])] IN
       \/ p \in lapsed /\ task' = to("expire")
       \/ /\ p \notin lapsed
          /\ \/ p \in Watched /\ task' = [task EXCEPT !.todo = @ \ {p}]
             \/ task' = to("reject")
             \/ task' = to("send")
  /\ UNCHANGED <<redis, mem, restored, world, recorded>>

\* The lifecycle first, then the plan is forgotten.
TellEnd ==
  /\ \/ At("expire") /\ PersistPlanExecutionState(task.plan, "expired")
     \/ At("reject") /\ PersistPlanExecutionState(task.plan, "rejected")
  /\ Goto("forget")
  /\ UNCHANGED <<keys, saved, recovery, tracked, mem, restored, world, recorded>>

Forget ==
  /\ At("forget")
  /\ Erase(task.plan)
  /\ mem' = [mem EXCEPT ![task.plan] = NoState(task.plan)]
  /\ NextPlan
  /\ UNCHANGED <<keys, lifecycle, restored, world, recorded>>

\* A leg already owned is skipped in the code; a plan still submitting owns no
\* leg past "next", since adopting one ends its submission.
Leg == task.state.next + 1

Accept(type) ==
  /\ order[task.plan][Leg] = "none"
  /\ type \in OrderTypes[task.plan][Leg]
  /\ order' = [order EXCEPT ![task.plan][Leg] = IF type = "market" THEN "open" ELSE "pending"]

Send(type) ==
  /\ At("send")
  /\ Accept(type)
  /\ task' = [task EXCEPT
       !.pc = IF type = "market" THEN "amend" ELSE "record",
       !.state = Placed(task.plan, task.state, Leg,
                        IF type = "market" THEN "filled" ELSE "pending")]
  /\ UNCHANGED <<redis, mem, restored, lapsed, faults, recorded>>

\* A client order id is accepted once: the refusal aborts the poll.
Refused ==
  /\ At("send")
  /\ order[task.plan][Leg] # "none"
  /\ task' = Idle
  /\ UNCHANGED <<redis, mem, restored, world, recorded>>

AmendStop ==
  /\ At("amend")
  /\ Goto("record")
  /\ UNCHANGED <<redis, mem, restored, world, recorded>>

\* Where the state goes after it was saved, by the part that saved it.
AfterRecord ==
  CASE task.back = "evaluate" -> IF task.state.next < LegCount(task.plan) THEN "send" ELSE "told"
    [] task.back = "idle"     -> "idle"
    [] OTHER -> CASE task.state.stage = "Closed" -> "forget"
                  [] task.state.stage \in {"PartiallyOpen", "FullyOpen"} -> "told"
                  [] OTHER -> "reconcile"

Record ==
  /\ At("record")
  /\ mem' = [mem EXCEPT ![task.plan] = task.state]
  /\ Save(task.plan, task.state)
  /\ IF AfterRecord \in {"idle", "reconcile"} THEN NextPlan ELSE Goto(AfterRecord)
  /\ UNCHANGED <<keys, recovery, lifecycle, restored, world>>

TellProgress ==
  /\ At("told")
  /\ PersistPlanExecutionState(task.plan,
       IF task.state.stage = "FullyOpen" THEN "filled" ELSE "submitted")
  /\ NextPlan
  /\ UNCHANGED <<keys, saved, recovery, tracked, mem, restored, world, recorded>>

-----------------------------------------------------------------------------
(* ReconcileSubmittedLegsAsync, and the position reconcile of the session. *)

Submissions ==
  /\ At("evaluate")
  /\ task.todo = {}
  /\ task' = [Idle EXCEPT !.pc = "reconcile", !.back = "reconcile",
                          !.todo = {q \in Plans : NeedsSubmittedReconcile(mem[q])}]
  /\ UNCHANGED <<redis, mem, restored, world, recorded>>

Reconcile(p) ==
  /\ At("reconcile")
  /\ p \in task.todo
  /\ task' = [task EXCEPT
       !.pc = IF Adopted(p, mem[p]) = {} THEN "record" ELSE "amend",
       !.plan = p,
       !.state = Reconciled(p, mem[p])]
  /\ UNCHANGED <<redis, mem, restored, world, recorded>>

PollEnds ==
  /\ At("reconcile")
  /\ task.todo = {}
  /\ task' = Idle
  /\ UNCHANGED <<redis, mem, restored, world, recorded>>

\* TryAdoptBrokerPositionAsync for one position: a plan not in memory is
\* left alone.
AdoptPosition(p, l) ==
  /\ At("idle")
  /\ restored
  /\ mem[p].stage # "None"
  /\ l \in Adopted(p, mem[p])
  /\ task' = [Idle EXCEPT !.pc = "amend", !.plan = p, !.state = WithFilled(mem[p], {l})]
  /\ UNCHANGED <<redis, mem, restored, world, recorded>>

-----------------------------------------------------------------------------
(* Faults.                                                                 *)

Fault == faults < MaxFaults /\ faults' = faults + 1

\* What a step cut off in the middle may have done outside the process.
Interrupted ==
  /\ IF At("send") /\ order[task.plan][Leg] = "none"
     THEN UNCHANGED order \/ \E type \in {"market", "limit"} : Accept(type)
     ELSE UNCHANGED order
  /\ CASE At("receive") -> SaveInterrupted(task.plan, Received(task.plan)) /\ UNCHANGED recovery
       [] At("record")  -> SaveInterrupted(task.plan, task.state) /\ UNCHANGED recovery
       [] At("forget")  -> EraseInterrupted(task.plan) /\ UNCHANGED recorded
       [] OTHER         -> UNCHANGED <<saved, recovery, tracked, recorded>>
  /\ UNCHANGED <<keys, lifecycle, lapsed>>

\* An exception.  The state is in memory before it is in Redis.  One of the
\* intake is caught there, any other ends the poll.
Fails ==
  /\ Fault
  /\ task.pc \notin {"idle", "read"}
  /\ Interrupted
  /\ mem' = CASE At("receive") -> [mem EXCEPT ![task.plan] = Received(task.plan)]
              [] At("record")  -> [mem EXCEPT ![task.plan] = task.state]
              [] At("forget")  -> [mem EXCEPT ![task.plan] = NoState(task.plan)]
              [] OTHER         -> mem
  /\ task' = IF task.pc \in {"admit", "receive", "announce", "cursor"}
             THEN [Evaluation EXCEPT !.todo = {q \in Plans : IsPendingEntryStage(mem'[q])}]
             ELSE Idle
  /\ UNCHANGED restored

Crash ==
  /\ Fault
  /\ restored
  /\ Interrupted
  /\ mem' = [p \in Plans |-> NoState(p)]
  /\ restored' = FALSE
  /\ task' = Idle

\* A restore ends after the grace was claimed, before the extended deadline is
\* written. It happens once to a plan, so no bound on faults is needed.
GraceLost(p) ==
  /\ At("idle")
  /\ ~restored
  /\ Granted(p)
  /\ graced' = graced \cup {p}
  /\ UNCHANGED <<cursor, claimed, saved, recovery, tracked, lifecycle,
                 mem, restored, task, order, lapsed, recorded, faults>>

-----------------------------------------------------------------------------
(* The broker, the owner and the clock.                                    *)

Becomes(p, l, from, to) ==
  /\ order[p][l] = from
  /\ order' = [order EXCEPT ![p][l] = to]
  /\ UNCHANGED <<redis, mem, restored, task, lapsed, faults, recorded>>

Trigger(p, l)      == Becomes(p, l, "pending", "filling")
FillLands(p, l)    == Becomes(p, l, "filling", "open")
OwnerCancels(p, l) == Becomes(p, l, "pending", "cancelled")

Lapse(p) ==
  /\ p \notin lapsed
  /\ lapsed' = lapsed \cup {p}
  /\ UNCHANGED <<redis, mem, restored, task, order, faults, recorded>>

Waited(s) == [s EXCEPT !.legs = [l \in DOMAIN @ |-> IF @[l] = "gone" THEN "overdue" ELSE @[l]]]

\* Ten seconds: longer than the position of a fill takes to show.
TenSeconds ==
  /\ \E p \in Plans : Some(mem[p].legs, {"gone"}) \/ Some(saved[p].legs, {"gone"})
  /\ \A p \in Plans : ~Some(order[p], {"filling"})
  /\ mem' = [p \in Plans |-> Waited(mem[p])]
  /\ saved' = [p \in Plans |-> Waited(saved[p])]
  /\ task' = IF task.state = <<>> THEN task ELSE [task EXCEPT !.state = Waited(@)]
  /\ UNCHANGED <<cursor, claimed, recovery, tracked, graced, lifecycle,
                 restored, world, recorded>>

-----------------------------------------------------------------------------
\* What the process does next of its own accord.
Step ==
  \/ Restore \/ Poll \/ EntriesRead \/ Claim \/ Admit \/ Receive \/ Announce \/ SetCursor
  \/ \E p \in Plans : Evaluate(p) \/ Reconcile(p)
  \/ TellEnd \/ Forget \/ Refused \/ AmendStop \/ Record \/ TellProgress
  \/ \E type \in {"market", "limit"} : Send(type)
  \/ Submissions \/ PollEnds

Broker(p, l) == Trigger(p, l) \/ FillLands(p, l) \/ OwnerCancels(p, l)

Next ==
  \/ Step
  \/ \E p \in Plans, l \in UNION {Legs(q) : q \in Plans} :
       l \in Legs(p) /\ (AdoptPosition(p, l) \/ Broker(p, l))
  \/ Fails \/ Crash
  \/ \E p \in Plans : GraceLost(p) \/ Lapse(p)
  \/ TenSeconds

Spec == Init /\ [][Next]_vars

\* The session loop polls for ever and is restarted; it checks its reconcile
\* timer on every round; fills land and deadlines pass.
Fairness ==
  /\ WF_vars(Step)
  /\ \A p \in Plans : WF_vars(Lapse(p))
  /\ \A p \in Plans : \A l \in Legs(p) : SF_vars(AdoptPosition(p, l)) /\ WF_vars(FillLands(p, l))
  /\ WF_vars(TenSeconds)

FairSpec == Spec /\ Fairness

-----------------------------------------------------------------------------
\* A leg that Redis ever recorded as submitted is never asked for again,
\* whatever fails, restarts, is read a second time or is forgotten
\* (ProcessTradePlanEntryAsync, SubmitEntryAsync, RestoreAsync).
RecordedNotResent == At("send") => <<task.plan, Leg>> \notin recorded

\* Two plans of one direction are live in the runtime at once only when one of
\* them was ended before and a failure left its state in Redis for a restart to
\* find (HasBlockingSameDirectionLivePlan, RestoreAsync).
Live(p) == mem[p].stage \notin {"None", "Closed"}

Ended(p) ==
  \/ lifecycle[p] \in {"rejected", "expired"}
  \/ \A l \in Legs(p) : order[p][l] = "cancelled"

OneLivePlan ==
  \A p, q \in Plans : Live(p) /\ Live(q) => p = q \/ Ended(p) \/ Ended(q)

\* What is recorded of a leg, in memory or in Redis, was so at the broker: no
\* leg is called filled that has no position, and none cancelled that may
\* still fill (ReconcileSubmittedLegsAsync).
RecordsMatchBroker ==
  \A p \in Plans : \A l \in Legs(p), s \in {mem[p], saved[p]} :
    /\ s.legs[l] = "filled" => order[p][l] = "open"
    /\ s.legs[l] = "cancelled" => order[p][l] = "cancelled"
    /\ s.legs[l] \in Waiting => order[p][l] # "none"

\* A saved state always has the plan it needs to be executed after a restart
\* (the write order of intake and ForgetPlanAsync).
SavedIsRestorable == \A p \in Plans : saved[p].stage # "None" => p \in recovery

\* The lifecycle other services read never goes back, although late and
\* repeated steps write it (PersistPlanExecutionStateAsync).
LifecycleForward ==
  [][\A p \in Plans : Priority(lifecycle[p]) =< Priority(lifecycle'[p])]_vars

\* A position of a plan that the runtime knows is eventually one of its legs,
\* however its order was lost (adoption and reconciliation).
PositionsAdopted ==
  \A p \in Plans : \A l \in Legs(p) :
    order[p][l] = "open" /\ mem[p].stage # "None" ~>
      mem[p].stage = "None" \/ mem[p].legs[l] = "filled"

\* A plan whose orders the owner cancelled at the broker does not stay live for
\* ever (orphan confirmation in ReconcileSubmittedLegsAsync, and expiry).
CancelledIsReleased ==
  \A p \in Plans :
    (\A l \in Legs(p) : order[p][l] = "cancelled") ~> mem[p].stage \in {"None", "Closed"}

\* What docs/redis-contract.md:264-268 says: a plan is recorded as runtime state
\* before the cursor passes it, and an error leaves the cursor for a retry.
RecordedBeforeCursor ==
  [][cursor' > cursor => saved[cursor'].stage # "None" \/ lifecycle[cursor'] = "rejected"]_vars

\* What TradePlanRuntime.cs:693-694 says: no second same-direction plan is
\* opened while another one is still pending or open.
OneExposedPlan ==
  \A p, q \in Plans :
    Some(order[p], {"pending", "filling", "open"})
      /\ Some(order[q], {"pending", "filling", "open"}) => p = q
=============================================================================
