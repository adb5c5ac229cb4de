---------------------------- MODULE PlanPositions ----------------------------
(***************************************************************************)
(* TradePlanRuntime after the entry of one plan was submitted: legs that   *)
(* fill late, targets booked over all open legs, the stop moved to         *)
(* break-even and trailed, legs found closed at the broker, and the end of *)
(* the plan.  One process runs it under one gate; any await may fail or be *)
(* cut off by a crash, and the broker, the owner of the account and the    *)
(* market move between any two steps.  One snapshot of the account serves  *)
(* a whole poll.                                                           *)
(*                                                                         *)
(* Volumes are counted in the broker's volume step, which is also its      *)
(* minimum.  Prices are levels in the direction of profit: the plan's stop *)
(* is 0, target t is 2 * t, the group's fill and the break-even stop lie   *)
(* between targets, on one odd level.  An order fills at once and in full. *)
(***************************************************************************)
EXTENDS Naturals, FiniteSets, FiniteSetsExt

CONSTANTS
  Volumes,     \* Volumes[l]: the volume of leg l
  Ratios,      \* Ratios[t]: the percentage target t closes
  BeAfter,     \* the target after which the stop goes to break-even, or 0
  TrailAfter,  \* the target after which the stop trails, or 0 for the legacy rule
  TrailTo,     \* the target it trails to
  Fills,       \* levels at which the group may have been filled
  MaxFaults    \* crashes and failed calls in one behaviour

Legs    == DOMAIN Volumes
Targets == DOMAIN Ratios
Last    == Cardinality(Targets)

ASSUME PositionsAssumption ==
  /\ IsFiniteSet(Legs) /\ Legs = 1 .. Cardinality(Legs) /\ Legs # {}
  /\ IsFiniteSet(Targets) /\ Targets = 1 .. Last /\ Targets # {}
  /\ \A l \in Legs : Volumes[l] \in Nat \ {0}
  /\ \A t \in Targets : Ratios[t] \in 1 .. 100
  /\ BeAfter \in {0} \cup Targets /\ TrailAfter \in {0} \cup Targets
  /\ TrailTo \in Targets
  /\ Fills \subseteq {2 * t - 1 : t \in Targets} /\ Fills # {}
  /\ MaxFaults \in Nat

VARIABLES
  mem,       \* _statesById
  saved,     \* execution:plan_runtime
  ended,     \* execution:plan_state says completed
  restored,  \* _restored
  task,      \* where the current poll is
  order,     \* order[l]: what became of the order of leg l at the broker
  vol,       \* vol[l]: the volume of its position
  stop,      \* stop[l]: the stop of its position
  fill,      \* the level of the group's fill
  faults,
  \* history
  cuts,      \* <<t, l>>: a close for target t was executed on leg l
  torn,      \* a booking broke off after a close was executed
  relapsed,  \* a restart found Redis behind the memory
  severed,   \* a fault fell after the last leg was closed in the records
  loose      \* legs without a position in the records of the forgotten plan

runtime == <<mem, saved, ended, restored>>
broker  == <<order, vol, stop, fill>>
history == <<cuts, torn, relapsed, severed, loose>>
vars    == <<runtime, task, broker, faults, history>>

-----------------------------------------------------------------------------
(* The runtime state of the plan.                                          *)

Waiting == {"pending", "gone", "overdue", "dropped"}
Stages  == Waiting \cup {"cancelled", "filled", "managing", "closed"}

\* A leg's order is "gone" when it was not in the last snapshot, "overdue" once
\* that is ten seconds ago, "dropped" when the runtime cancelled it itself.
State == [leg : [Legs -> Stages], left : [Legs -> Nat], next : 1 .. Last + 1,
          high : 0 .. Last, be : BOOLEAN, stop : 0 .. 2 * Last, held : BOOLEAN]

Nothing == [leg |-> <<>>, left |-> <<>>, next |-> 1, high |-> 0, be |-> FALSE,
            stop |-> 0, held |-> FALSE]

Known(s) == s # Nothing

In(s, stages) == {l \in Legs : s.leg[l] \in stages}

OpenLegs(s) == {l \in In(s, {"filled", "managing"}) : s.left[l] > 0}

NeedsSubmittedReconcile(s) == In(s, Waiting) # {}

IsManagingStage(s) == OpenLegs(s) # {} /\ ~s.held

\* DeriveRuntimeStage: Closed.
Closed(s) == OpenLegs(s) = {} /\ In(s, Waiting) = {}

Idle == [pc |-> "idle", then |-> "idle", state |-> Nothing, seen |-> {},
         todo |-> {}, cut |-> <<>>, done |-> {}, ok |-> TRUE]

Steps == {"idle", "adopt", "save", "manage", "target", "cancel", "book", "close",
          "complete", "forget", "protect", "breakeven", "trail", "raise"}

OrderStates == {"pending", "filling", "open", "closed", "cancelled"}

TypeOK ==
  /\ mem \in State \cup {Nothing} /\ saved \in State \cup {Nothing}
  /\ ended \in BOOLEAN /\ restored \in BOOLEAN
  /\ task.pc \in Steps /\ task.then \in Steps
  /\ task.state \in State \cup {Nothing}
  /\ task.seen \subseteq Legs /\ task.todo \subseteq Legs /\ task.done \subseteq Legs
  /\ order \in [Legs -> OrderStates]
  /\ \A l \in Legs : vol[l] \in 0 .. Volumes[l]
  /\ stop \in [Legs -> 0 .. 2 * Last] /\ fill \in Fills
  /\ cuts \subseteq Targets \X Legs /\ loose \subseteq Legs
  /\ {torn, relapsed, severed} \subseteq BOOLEAN
  /\ faults \in 0 .. MaxFaults

\* The entry was submitted: a market leg is filled, a limit leg is pending.
Submitted(market) ==
  [leg |-> [l \in Legs |-> IF l \in market THEN "filled" ELSE "pending"],
   left |-> [l \in Legs |-> IF l \in market THEN Volumes[l] ELSE 0],
   next |-> 1, high |-> 0, be |-> FALSE, stop |-> 0, held |-> FALSE]

Init ==
  /\ \E market \in SUBSET Legs :
       /\ mem = Submitted(market) /\ saved = mem
       /\ order = [l \in Legs |-> IF l \in market THEN "open" ELSE "pending"]
       /\ vol = [l \in Legs |-> IF l \in market THEN Volumes[l] ELSE 0]
  /\ stop = [l \in Legs |-> 0]
  /\ fill \in Fills
  /\ ended = FALSE /\ restored = TRUE /\ task = Idle /\ faults = 0
  /\ cuts = {} /\ torn = FALSE /\ relapsed = FALSE /\ severed = FALSE /\ loose = {}

-----------------------------------------------------------------------------
(* What a snapshot says of the legs.                                       *)

Positions == {l \in Legs : order[l] = "open"}
Orders    == {l \in Legs : order[l] = "pending"}

\* Positions of the plan that are not a live leg of it.
Unadopted(s) == {l \in Positions : s.leg[l] \notin {"filled", "managing"}}

AdoptedInPlace(s, new) ==
  [s EXCEPT !.leg  = [l \in Legs |-> IF l \in new THEN "filled" ELSE @[l]],
            !.left = [l \in Legs |-> IF l \in new THEN vol[l] ELSE @[l]],
            !.held = FALSE]

\* AdoptFilledLeg: the group goes back to the plan's stop.
Adopted(s, new) ==
  [s EXCEPT !.leg  = [l \in Legs |-> IF l \in new THEN "filled" ELSE @[l]],
            !.left = [l \in Legs |-> IF l \in new THEN vol[l] ELSE @[l]],
            !.stop = IF new = {} THEN @ ELSE 0,
            !.held = FALSE]

Absent(stage) ==
  CASE stage \in {"pending", "dropped"} -> "gone"
    [] stage = "overdue"                -> "cancelled"
    [] OTHER                            -> stage

Reconciled(s) ==
  LET adopted == Adopted(s, Unadopted(s)) IN
  [adopted EXCEPT !.leg = [l \in Legs |->
     IF adopted.leg[l] \notin Waiting THEN adopted.leg[l]
     ELSE IF l \in Orders THEN "pending" ELSE Absent(adopted.leg[l])]]

MissingOfSeveral(s, seen) == IF OpenLegs(s) \cap seen = {} THEN {} ELSE OpenLegs(s) \ seen

\* Legs the records call open whose position is not in the snapshot.
Missing(s, seen) == OpenLegs(s) \ seen

\* What the lookup of a missing leg's closing deal comes to: a stop (also by
\* its price, or because the stop had been moved), an order of the owner, a
\* deal without its order, or nothing.
Reasons(s) ==
  {"stop", "manual", "unmatched"} \cup (IF s.be \/ s.high > 0 THEN {} ELSE {"unknown"})

StopEndsAll(reasons, left) ==
  IF left = {} \/ reasons = {"stop"} THEN "final"
  ELSE IF "unmatched" \in reasons /\ "unknown" \notin reasons THEN "held" ELSE "partial"

\* ClassifyMissingLegs.  "unmatched" is taken for "manual" where some other leg
\* has no price at all.
Verdict(reasons, left) ==
  IF left = {} THEN "final"
  ELSE IF "unmatched" \in reasons /\ "unknown" \notin reasons THEN "held" ELSE "partial"

\* The missing legs are closed whatever the verdict; a plan held for recovery
\* stays so until a leg is adopted or reconciled.
Settled(s, missing, verdict) ==
  [s EXCEPT !.leg  = [l \in Legs |-> IF l \in missing THEN "closed" ELSE @[l]],
            !.left = [l \in Legs |-> IF l \in missing THEN 0 ELSE @[l]],
            !.held = @ \/ verdict = "held"]

-----------------------------------------------------------------------------
(* How much a target closes, and of which leg.                             *)

Total(f, S) == MapThenSumSet(LAMBDA x : f[x], S)

Lesser(m, n) == IF m < n THEN m ELSE n

\* The target's share of what is left among the targets still to come; a share
\* under two steps is left to a later target, the last one closes everything.
CloseVolume(s, open) ==
  LET all   == Total(s.left, open)
      share == (all * Ratios[s.next]) \div Total(Ratios, s.next .. Last)
  IN IF s.next = Last THEN all ELSE IF share < 2 THEN 0 ELSE Lesser(share, all)

\* AllocateProRataStepped: whole steps in proportion, the rest from the first
\* leg on.
Slices(s, open, close) ==
  LET all     == Total(s.left, open)
      part    == [l \in open |-> (close * s.left[l]) \div all]
      room    == [l \in open |-> s.left[l] - part[l]]
      rest    == close - Total(part, open)
      before(l) == Total(room, {k \in open : k < l})
  IN [l \in open |-> part[l] + (IF rest > before(l) THEN Lesser(room[l], rest - before(l)) ELSE 0)]

Skipped(s) == [s EXCEPT !.next = @ + 1]

BookedAgain(s) == [s EXCEPT !.high = s.next]

Booked(s) == [s EXCEPT !.next = @ + 1, !.high = s.next]

\* A booked target, not only a passed one, moves the stop to break-even, once.
BreakEvenDue(s) == ~s.be /\ BeAfter # 0 /\ s.high >= BeAfter

BreakEvenStop(s) == IF fill > s.stop THEN fill ELSE s.stop

\* ResolveTrailTargetIndex; 0 is none.
TrailTarget(s) ==
  IF TrailAfter # 0 THEN (IF s.high >= TrailAfter THEN TrailTo ELSE 0)
  ELSE IF Last > 2 /\ s.next > 3 THEN s.next - 3 ELSE 0

-----------------------------------------------------------------------------
(* One poll, await by await, in order.                                     *)

At(pc) == task.pc = pc

Go(pc) == task' = [task EXCEPT !.pc = pc]

SaveThen(s, pc) == task' = [task EXCEPT !.pc = "save", !.then = pc, !.state = s]

Done == task' = Idle

\* RestoreAsync: a plan saved as closed is not taken up again.
Restore ==
  /\ ~restored /\ restored' = TRUE
  /\ mem' = IF Known(saved) /\ ~Closed(saved) THEN saved ELSE Nothing
  /\ UNCHANGED <<saved, ended, task, broker, faults, history>>

\* PollAsync takes the snapshot; a plan none of whose legs ever filled ends here.
Poll ==
  /\ restored /\ At("idle") /\ Known(mem)
  /\ \/ /\ NeedsSubmittedReconcile(mem)
        /\ LET s == Reconciled(mem) IN
           task' = [Idle EXCEPT !.pc = IF Unadopted(mem) = {} THEN "save" ELSE "adopt",
                                !.then = IF In(s, {"cancelled"}) = Legs THEN "forget" ELSE "manage",
                                !.state = s, !.seen = Positions, !.todo = Unadopted(mem)]
     \/ /\ ~NeedsSubmittedReconcile(mem) /\ IsManagingStage(mem)
        /\ task' = [Idle EXCEPT !.pc = "manage", !.state = mem, !.seen = Positions]
  /\ UNCHANGED <<runtime, broker, faults, history>>

\* TryAdoptBrokerPositionAsync, from the engine's own reconciliation.
AdoptPosition(l) ==
  /\ restored /\ At("idle") /\ Known(mem) /\ l \in Unadopted(mem)
  /\ task' = [Idle EXCEPT !.pc = "adopt", !.state = Adopted(mem, {l}), !.todo = {l}]
  /\ UNCHANGED <<runtime, broker, faults, history>>

Amended(S, level) == stop' = [l \in Legs |-> IF l \in S THEN level ELSE stop[l]]

\* AmendAndVerifyLegStopAsync of each adopted leg: one that has closed ends the
\* poll, with nothing recorded.
Adopt ==
  /\ At("adopt")
  /\ Amended(task.todo \cap Positions, 0)
  /\ IF task.todo \subseteq Positions THEN Go("save") ELSE Done
  /\ UNCHANGED <<runtime, order, vol, fill, faults, history>>

\* PersistStateAsync.
Save ==
  /\ At("save")
  /\ mem' = task.state /\ saved' = task.state
  /\ IF task.then = "idle" THEN Done
     ELSE task' = [task EXCEPT !.pc = task.then, !.done = {}]
  /\ UNCHANGED <<ended, restored, broker, faults, history>>

\* ManageOpenPositionsAsync: first the legs found closed, also when that holds
\* the plan for recovery.
Manage ==
  /\ At("manage")
  /\ LET s == task.state
         missing == Missing(s, task.seen)
     IN \/ /\ ~IsManagingStage(s)
           /\ Done
        \/ /\ IsManagingStage(s) /\ missing = {}
           /\ Go("target")
        \/ /\ IsManagingStage(s) /\ missing # {}
           /\ \E reasons \in SUBSET Reasons(s) \ {{}} :
                /\ Cardinality(reasons) <= Cardinality(missing)
                /\ LET verdict == Verdict(reasons, OpenLegs(s) \cap task.seen) IN
                   SaveThen(Settled(s, missing, verdict),
                            IF verdict = "final" THEN "complete" ELSE "target")
  /\ UNCHANGED <<runtime, broker, faults, history>>

Open == OpenLegs(task.state) \cap task.seen

\* The quote is at or beyond the next target, or not; one the group was filled
\* beyond is passed over.
Target ==
  /\ At("target")
  /\ LET s == task.state IN
     \/ /\ Open = {}
        /\ Done
     \/ /\ Open # {}
        /\ Go("protect")
     \/ /\ Open # {} /\ s.next <= Last /\ 2 * s.next <= fill
        /\ SaveThen(Skipped(s), "idle")
     \/ /\ Open # {} /\ s.next <= Last /\ 2 * s.next > fill
        /\ task' = [task EXCEPT !.pc = "cancel", !.then = "book"]
  /\ UNCHANGED <<runtime, broker, faults, history>>

Unfilled == In(task.state, {"pending", "gone", "overdue"})

Dropped(S) ==
  [task.state EXCEPT !.leg = [l \in Legs |-> IF l \in S THEN "dropped" ELSE @[l]]]

Cancelled(S) == order' = [l \in Legs |-> IF l \in S THEN "cancelled" ELSE order[l]]

\* CancelUnfilledEntryLegsAsync, before anything that commits the group.
Cancel ==
  /\ At("cancel")
  /\ Cancelled(Unfilled \cap Orders)
  /\ IF Unfilled = {} THEN Go(task.then)
     ELSE SaveThen(Dropped(Unfilled \cap Orders), task.then)
  /\ UNCHANGED <<runtime, vol, stop, fill, faults, history>>

\* A share the broker would not book leaves the target to a later one.
Book ==
  /\ At("book")
  /\ LET s == task.state
         close == CloseVolume(s, Open)
         cut == Slices(s, Open, close)
     IN \/ /\ close = 0
           /\ SaveThen(Skipped(s), "idle")
        \/ /\ close > 0
           /\ task' = [task EXCEPT !.pc = "close", !.cut = cut,
                                   !.todo = {l \in Open : cut[l] > 0}]
  /\ UNCHANGED <<runtime, broker, faults, history>>

\* A close of the next leg's slice.
Reduced(l) ==
  LET rest == vol[l] - task.cut[l] IN
  /\ vol' = [vol EXCEPT ![l] = rest]
  /\ order' = [order EXCEPT ![l] = IF rest = 0 THEN "closed" ELSE @]
  /\ cuts' = cuts \cup {<<task.state.next, l>>}

Cuttable(l) == order[l] = "open" /\ vol[l] >= task.cut[l]

Answered(s, l) ==
  LET rest == s.left[l] - task.cut[l] IN
  [s EXCEPT !.left[l] = rest, !.leg[l] = IF rest = 0 THEN "closed" ELSE "managing"]

Close ==
  /\ At("close") /\ task.todo # {}
  /\ LET l == Min(task.todo) IN
     \/ /\ Cuttable(l)
        /\ Reduced(l)
        /\ task' = [task EXCEPT !.todo = @ \ {l}, !.done = @ \cup {l},
                                !.state = Answered(@, l)]
     \/ /\ ~Cuttable(l)
        /\ task' = [task EXCEPT !.todo = @ \ {l}, !.ok = FALSE]
        /\ UNCHANGED <<order, vol, cuts>>
  /\ UNCHANGED <<runtime, stop, fill, faults, torn, relapsed, severed, loose>>

\* All legs answered, or the target stays to be booked, on what is left, again.
BookingEnds ==
  /\ At("close") /\ task.todo = {}
  /\ \/ /\ ~task.ok
        /\ SaveThen(task.state, "idle")
        /\ torn' = (torn \/ task.done # {})
     \/ /\ task.ok
        /\ SaveThen(Booked(task.state),
                    IF OpenLegs(task.state) = {} THEN "complete" ELSE "protect")
        /\ UNCHANGED torn
  /\ UNCHANGED <<runtime, broker, faults, cuts, relapsed, severed, loose>>

\* PersistPlanExecutionStateAsync, completed.
Complete ==
  /\ At("complete")
  /\ ended' = TRUE
  /\ Go("forget")
  /\ UNCHANGED <<mem, saved, restored, broker, faults, history>>

Forget ==
  /\ At("forget")
  /\ mem' = Nothing /\ saved' = Nothing
  /\ loose' = In(task.state, Waiting)
  /\ Done
  /\ UNCHANGED <<ended, restored, broker, faults, cuts, torn, relapsed, severed>>

Protect ==
  /\ At("protect")
  /\ IF BreakEvenDue(task.state)
     THEN task' = [task EXCEPT !.pc = "cancel", !.then = "breakeven"]
     ELSE Go("trail")
  /\ UNCHANGED <<runtime, broker, faults, history>>

\* Recorded only when the broker took the stop for every open leg.
BreakEven ==
  /\ At("breakeven")
  /\ LET level == BreakEvenStop(task.state) IN
     IF level = task.state.stop THEN Go("trail") /\ UNCHANGED stop
     ELSE /\ Amended(Open \cap Positions, level)
          /\ IF Open \subseteq Positions
             THEN SaveThen([task.state EXCEPT !.stop = level, !.be = TRUE], "trail")
             ELSE Go("trail")
  /\ UNCHANGED <<runtime, order, vol, fill, faults, history>>

Trail ==
  /\ At("trail")
  /\ IF TrailTarget(task.state) = 0 THEN Done
     ELSE task' = [task EXCEPT !.pc = "cancel", !.then = "raise"]
  /\ UNCHANGED <<runtime, broker, faults, history>>

Raise ==
  /\ At("raise")
  /\ LET level == 2 * TrailTarget(task.state) IN
     IF level <= task.state.stop THEN Done /\ UNCHANGED stop
     ELSE /\ Amended(Open \cap Positions, level)
          /\ IF Open \subseteq Positions
             THEN SaveThen([task.state EXCEPT !.stop = level], "idle")
             ELSE Done
  /\ UNCHANGED <<runtime, order, vol, fill, faults, history>>

Step ==
  \/ Restore \/ Poll \/ Adopt \/ Save \/ Manage \/ Target \/ Cancel \/ Book \/ Close
  \/ BookingEnds \/ Complete \/ Forget \/ Protect \/ BreakEven \/ Trail \/ Raise

-----------------------------------------------------------------------------
(* Calls that fail, and the process that dies.                             *)

Fault == faults < MaxFaults /\ faults' = faults + 1

\* A cancellation refused, or made and not answered: the loop goes on.
CancelUnanswered ==
  /\ Fault
  /\ At("cancel")
  /\ \E made \in SUBSET (Unfilled \cap Orders) : \E answered \in SUBSET made :
       /\ answered # Unfilled \cap Orders
       /\ Cancelled(made)
       /\ SaveThen(Dropped(answered), task.then)
  /\ UNCHANGED <<runtime, vol, stop, fill, history>>

\* A close refused, or made and not answered: the loop goes on.
CloseUnanswered ==
  /\ Fault
  /\ At("close") /\ task.todo # {}
  /\ LET l == Min(task.todo) IN
     /\ task' = [task EXCEPT !.todo = @ \ {l}, !.ok = FALSE]
     /\ \/ /\ Cuttable(l)
           /\ Reduced(l)
           /\ torn' = TRUE
        \/ UNCHANGED <<order, vol, cuts, torn>>
  /\ UNCHANGED <<runtime, stop, fill, relapsed, severed, loose>>

\* A stop some leg did not take.
AmendUnanswered ==
  /\ Fault
  /\ \/ /\ At("breakeven") /\ BreakEvenStop(task.state) # task.state.stop
        /\ \E S \in SUBSET (Open \cap Positions) : Amended(S, BreakEvenStop(task.state))
        /\ Go("trail")
     \/ /\ At("raise") /\ 2 * TrailTarget(task.state) > task.state.stop
        /\ \E S \in SUBSET (Open \cap Positions) : Amended(S, 2 * TrailTarget(task.state))
        /\ Done
  /\ UNCHANGED <<runtime, order, vol, fill, history>>

Finishing == {task.pc, task.then} \cap {"complete", "forget"} # {}

\* What the step that is cut off leaves behind it.
CutOff ==
  /\ ended' \in {ended, ended \/ At("complete")}
  /\ torn' = (torn \/ task.done # {})
  /\ severed' = (severed \/ Finishing)
  /\ loose' = IF At("forget") THEN In(task.state, Waiting) ELSE loose
  /\ task' = Idle

Uncaught == {"adopt", "save", "manage", "complete", "forget"}

\* An exception nothing catches ends the poll; memory is written before Redis,
\* and a booked target is published before either.
Fails ==
  /\ Fault
  /\ task.pc \in Uncaught \/ (At("close") /\ task.todo = {} /\ task.ok)
  /\ mem' = CASE At("save") -> task.state [] At("forget") -> Nothing [] OTHER -> mem
  /\ saved' \in {saved, IF task.pc \in {"save", "forget"} THEN mem' ELSE saved}
  /\ CutOff
  /\ UNCHANGED <<restored, broker, cuts, relapsed>>

Crash ==
  /\ Fault
  /\ mem' = Nothing /\ restored' = FALSE
  /\ saved' \in {saved, CASE At("save")   -> task.state
                          [] At("forget") -> Nothing
                          [] OTHER        -> saved}
  /\ relapsed' = (relapsed \/ mem # saved)
  /\ CutOff
  /\ UNCHANGED <<broker, cuts>>

-----------------------------------------------------------------------------
(* The broker, the market and the owner of the account.                    *)

Trigger(l) ==
  /\ order[l] = "pending"
  /\ order' = [order EXCEPT ![l] = "filling"]
  /\ UNCHANGED <<runtime, task, vol, stop, fill, faults, history>>

FillLands(l) ==
  /\ order[l] = "filling"
  /\ order' = [order EXCEPT ![l] = "open"]
  /\ vol' = [vol EXCEPT ![l] = Volumes[l]]
  /\ stop' = [stop EXCEPT ![l] = 0]
  /\ UNCHANGED <<runtime, task, fill, faults, history>>

OwnerCancels(l) ==
  /\ order[l] = "pending"
  /\ order' = [order EXCEPT ![l] = "cancelled"]
  /\ UNCHANGED <<runtime, task, vol, stop, fill, faults, history>>

\* By its stop, or by the owner.
PositionCloses(l) ==
  /\ order[l] = "open"
  /\ order' = [order EXCEPT ![l] = "closed"]
  /\ vol' = [vol EXCEPT ![l] = 0]
  /\ UNCHANGED <<runtime, task, stop, fill, faults, history>>

Aged(s) ==
  IF ~Known(s) THEN s
  ELSE [s EXCEPT !.leg = [l \in Legs |-> IF @[l] = "gone" THEN "overdue" ELSE @[l]]]

\* OrphanPendingOrderConfirmSeconds; no fill takes that long.
TenSeconds ==
  /\ <<Aged(mem), Aged(saved), Aged(task.state)>> # <<mem, saved, task.state>>
  /\ \A l \in Legs : order[l] # "filling"
  /\ mem' = Aged(mem) /\ saved' = Aged(saved)
  /\ task' = [task EXCEPT !.state = Aged(@)]
  /\ UNCHANGED <<ended, restored, broker, faults, history>>

World ==
  \/ \E l \in Legs : Trigger(l) \/ FillLands(l) \/ OwnerCancels(l) \/ PositionCloses(l)
  \/ TenSeconds

Next ==
  \/ Step
  \/ \E l \in Legs : AdoptPosition(l)
  \/ CancelUnanswered \/ CloseUnanswered \/ AmendUnanswered \/ Fails \/ Crash
  \/ World

Spec == Init /\ [][Next]_vars

\* The process polls on and comes back after a crash, a fill lands, time passes.
Fairness ==
  /\ WF_vars(Step)
  /\ \A l \in Legs : WF_vars(FillLands(l))
  /\ WF_vars(TenSeconds)

FairSpec == Spec /\ Fairness

-----------------------------------------------------------------------------
(* Properties.                                                             *)

\* A plan told completed and forgotten leaves a position open only where an
\* order of it was still unfilled when it ended.
CompletedIsFlat ==
  ended /\ saved = Nothing /\ mem = Nothing => Positions \subseteq loose

\* A target is closed once on each leg, unless a booking broke off halfway.
TargetNotRebooked ==
  At("close") => \A l \in task.todo : <<task.state.next, l>> \in cuts => torn

\* The broker holds every leg the records call open at a stop no worse than the
\* one they name, though a late leg comes with the plan's own; only records a
\* restart took up again may name a better one.
StopIsReal ==
  Known(mem) /\ ~relapsed => \A l \in OpenLegs(mem) \cap Positions : stop[l] >= mem.stop

\* A plan nothing is left of at the broker is forgotten, unless it waits for
\* recovery or a fault fell while it was being forgotten.
EndIsSettled ==
  (\A l \in Legs : order[l] \in {"closed", "cancelled"})
    ~> (saved = Nothing \/ severed \/ mem.held)

\* A plan with an open position is not held for recovery: "that freezes
\* IsManagingStage and strands L2/L3" (TradePlanRuntime.cs:3213).  It is.
OpenIsManaged == mem.held => Positions = {}

\* CalculateBreakEven "never worsens an existing stop", and neither does any
\* step of the runtime, unless a restart found older records.  Some do.
StopsNeverWorsen ==
  [][\A l \in Legs : order[l] = "open" /\ order'[l] = "open" /\ stop'[l] < stop[l] => relapsed]_vars
=============================================================================
