---------------------------- MODULE ScalpLedger ----------------------------
(***************************************************************************)
(* The scalping side of the event stream: two asyncio tasks of the bot     *)
(* that share one Redis key.                                               *)
(*                                                                         *)
(*  - The M1 cycle (scalping/runtime.py process_m1_bar) reads the risk     *)
(*    ledger scalp:risk:<symbol>, reconciles it with the live exposures,   *)
(*    writes it back, asks evaluate_risk and publishes one opportunity.    *)
(*  - The stats task (autotrade/stats_ingestion.py) follows the engine's   *)
(*    events with a cursor of its own: it writes the SQL journal, reads    *)
(*    the ledger, accrues the fill or the close, writes the ledger back    *)
(*    and only then moves the cursor.                                      *)
(*                                                                         *)
(* Both read and write the ledger with awaits in between. Steps that touch *)
(* nothing the other task reads are joined: the journal write with the     *)
(* ledger read that follows, the exposure read with the ledger write.      *)
(*                                                                         *)
(* One instrument within one session of one trading day, so the daily and  *)
(* the session counters are the same numbers and nothing resets them.  R   *)
(* is abstracted to its sign: a full stop is -1, a position that booked a  *)
(* target +1, a manual close 0 (outcomes.py).  The trade counters are left  *)
(* out: they only ever add a reason to refuse.                             *)
(***************************************************************************)
EXTENDS Integers, Sequences, FiniteSets, FiniteSetsExt, SequencesExt

CONSTANTS
    Groups,         \* scalp opportunities, each the group of one plan
    MaxOpen,        \* maximum_concurrent_positions
    MaxLosses,      \* maximum_consecutive_losses
    LossLimit,      \* the smaller of session_loss_limit_r, daily_loss_limit_r
    Clips,          \* bound: fill events of one group
    MaxEvents,      \* bound: events sent before the plans close
    MaxBacklog,     \* bound: events the stats task lags behind
    MaxFaults       \* bound: restarts and failed calls

ASSUME CapsAssumption ==
    /\ {MaxOpen, MaxLosses, LossLimit, Clips, MaxEvents, MaxBacklog} \subseteq Nat \ {0}
    /\ MaxFaults \in Nat

VARIABLES
    plan,       \* [Groups -> stage of the plan], the engine's book
    booked,     \* groups that booked a target
    told,       \* [Groups -> fill events sent]
    parted,     \* groups some legs of which were closed by hand
    stream,     \* the engine's events past auto_trade:stats_event_cursor
    journal,    \* [Groups -> [fill, row]], the SQL journal
    trace,      \* [Groups -> [tp1, stopped]], scalp:exit_trace:<group>
    risk,       \* the ledger under scalp:risk:<symbol>
    stats,      \* the stats task: its step and its copy of the ledger
    bar,        \* the M1 cycle: its step and its copy of the ledger
    due,        \* ghost: what the handled closes add up to
    blurred,    \* ghost: an accrual was overwritten, skipped or repeated
    faults

engine == <<plan, booked, told, parted, stream>>
bot == <<journal, trace, risk, stats, bar, due, blurred, faults>>
vars == <<engine, bot>>

----------------------------------------------------------------------------
(* Events and what they say. *)

Closing == {"partial", "closed"}       \* both have type position_closed

Event(g, type, exit, pips) ==
    [g |-> g, type |-> type, exit |-> exit, pips |-> pips]

Live == {g \in Groups : plan[g] \in {"pending", "open"}}

ApplyTraceEvent(t, e) ==
    [tp1 |-> t.tp1 \/ e.type = "tp" \/ e.exit = "target",
     stopped |-> t.stopped \/ e.exit = "stop"]

\* classify_exit_path and legs_for_exit_path, reduced to the sign of R.
RealizedR(t) == IF t.tp1 THEN 1 ELSE IF t.stopped THEN -1 ELSE 0

----------------------------------------------------------------------------
(* The ledger. *)

Ledger == [groups : SUBSET Groups, open : Nat, r : Int, losses : Nat]

EmptyLedger == [groups |-> {}, open |-> 0, r |-> 0, losses |-> 0]

\* cooled: the cooldown since the last loss is over.
CooldownReset(l, cooled) ==
    IF cooled /\ l.losses >= MaxLosses THEN [l EXCEPT !.losses = 0] ELSE l

\* A plausible slip: an empty book is taken for an unreadable one.
ReconcileKnownOnly(l, live) ==
    IF live = {} THEN l
    ELSE [l EXCEPT !.groups = @ \cap live, !.open = Cardinality(l.groups \cap live)]

ReconcileOpenPositions(l, live) ==
    IF l.groups # {}
    THEN [l EXCEPT !.groups = @ \cap live, !.open = Cardinality(l.groups \cap live)]
    ELSE [l EXCEPT !.open = Min({@, Cardinality(live)})]

Opened(l, g) ==
    IF g \in l.groups THEN l
    ELSE [l EXCEPT !.groups = @ \cup {g}, !.open = Cardinality(l.groups \cup {g})]

Accrued(l, g, r) ==
    [l EXCEPT !.groups = @ \ {g},
              !.open = IF g \in l.groups THEN Cardinality(l.groups \ {g})
                       ELSE Max({0, @ - 1}),
              !.r = @ + r,
              !.losses = IF r < 0 THEN @ + 1 ELSE 0]

\* A plausible slip: a close of a group the list does not hold is ignored.
AccruedListed(l, g, r) == IF g \in l.groups THEN Accrued(l, g, r) ELSE l

RecordListedOutcome(l, e) ==
    IF e.type = "fill" THEN Opened(l, e.g) ELSE AccruedListed(l, e.g, RealizedR(trace[e.g]))

RecordScalpOutcome(l, e) ==
    IF e.type = "fill" THEN Opened(l, e.g) ELSE Accrued(l, e.g, RealizedR(trace[e.g]))

EvaluateRisk(l) ==
    /\ l.open < MaxOpen
    /\ l.losses < MaxLosses
    /\ l.r > -LossLimit

----------------------------------------------------------------------------
(* The journal. *)

\* A plausible slip: the row is written once.
PreferFirst(row, pips) == IF row = "none" THEN pips ELSE row

PreferJournalPips(row, pips) == IF "win" \in {row, pips} THEN "win" ELSE pips

FillRecorded(j, g) == [j EXCEPT ![g].fill = TRUE]

\* A close that beats the fill seeds the fill first.
ResultRecorded(j, e) ==
    [FillRecorded(j, e.g) EXCEPT ![e.g].row = PreferJournalPips(@, e.pips)]

RecordAutoTradeEvent(j, e) ==
    CASE e.type = "fill"     -> FillRecorded(j, e.g)
      [] e.type \in Closing -> ResultRecorded(j, e)
      [] OTHER               -> j

\* _maybe_reconcile_group_from_runtime: a fill handled after the plan closed
\* finds the terminal runtime and seeds the row from it.
ReconcileOrphan(j, e) ==
    IF e.type # "tp" /\ plan[e.g] = "closed" /\ j[e.g].fill /\ j[e.g].row = "none"
    THEN [j EXCEPT ![e.g].row = IF e.g \in booked THEN "win" ELSE "loss"]
    ELSE j

----------------------------------------------------------------------------

Task == [step : {"idle", "loaded", "saved", "publish"},
         copy : Ledger]

Idle == [step |-> "idle", copy |-> EmptyLedger]

TypeOK ==
    /\ plan \in [Groups -> {"none", "pending", "open", "closed", "cancelled"}]
    /\ booked \subseteq Groups /\ parted \subseteq Groups
    /\ told \in [Groups -> 0..Clips]
    /\ Len(stream) <= MaxBacklog
    /\ journal \in [Groups -> [fill : BOOLEAN, row : {"none", "win", "loss"}]]
    /\ trace \in [Groups -> [tp1 : BOOLEAN, stopped : BOOLEAN]]
    /\ risk \in Ledger
    /\ stats \in Task /\ bar \in Task
    /\ due \in Int
    /\ blurred \in BOOLEAN /\ faults \in 0..MaxFaults

Init ==
    /\ plan = [g \in Groups |-> "none"]
    /\ booked = {} /\ parted = {}
    /\ told = [g \in Groups |-> 0]
    /\ stream = <<>>
    /\ journal = [g \in Groups |-> [fill |-> FALSE, row |-> "none"]]
    /\ trace = [g \in Groups |-> [tp1 |-> FALSE, stopped |-> FALSE]]
    /\ risk = EmptyLedger
    /\ stats = Idle /\ bar = Idle
    /\ due = 0
    /\ blurred = FALSE /\ faults = 0

----------------------------------------------------------------------------
(* The engine and the broker. *)

Sent == FoldFunction(+, 0, told) + Cardinality(booked) + Cardinality(parted)

Emit(e) ==
    /\ Len(stream) < MaxBacklog
    /\ stream' = Append(stream, e)

Stage(g, from, to) == plan[g] = from /\ plan' = [plan EXCEPT ![g] = to]

OrderFills(g) ==
    /\ Stage(g, "pending", "open")
    /\ UNCHANGED <<booked, told, parted, stream, bot>>

\* Every clip of the entry reports order_filled; the first report may come
\* after the close (a position adopted late).
FillReported(g) ==
    /\ plan[g] = "open" \/ (plan[g] = "closed" /\ told[g] = 0)
    /\ told[g] < Clips /\ Sent < MaxEvents
    /\ Emit(Event(g, "fill", "none", "none"))
    /\ told' = [told EXCEPT ![g] = @ + 1]
    /\ UNCHANGED <<plan, booked, parted, bot>>

OrderCancelled(g) ==
    /\ Stage(g, "pending", "cancelled")
    /\ UNCHANGED <<booked, told, parted, stream, bot>>

TargetBooked(g) ==
    /\ plan[g] = "open" /\ g \notin booked /\ Sent < MaxEvents
    /\ booked' = booked \cup {g}
    /\ Emit(Event(g, "tp", "none", "none"))
    /\ UNCHANGED <<plan, told, parted, bot>>

\* Some legs closed by hand: position_closed although the plan goes on.
PartlyClosed(g) ==
    /\ plan[g] = "open" /\ g \notin parted /\ Sent < MaxEvents
    /\ parted' = parted \cup {g}
    /\ \E pips \in {"win", "loss"} : Emit(Event(g, "partial", "manual", pips))
    /\ UNCHANGED <<plan, booked, told, bot>>

PlanCloses(g) ==
    /\ Stage(g, "open", "closed")
    /\ \E exit \in {"stop", "target", "manual"}, pips \in {"win", "loss"} :
          /\ exit = "target" \/ g \in booked => pips = "win"
          /\ exit = "stop" /\ g \notin booked => pips = "loss"
          /\ booked' = IF exit = "target" THEN booked \cup {g} ELSE booked
          /\ Emit(Event(g, "closed", exit, pips))
    /\ UNCHANGED <<told, parted, bot>>

----------------------------------------------------------------------------
(* The stats task: process_auto_trade_stats_entries, one entry at a time. *)

Entry == Head(stream)

Blur(now) ==
    /\ blurred' = (blurred \/ now)
    /\ due' = IF blurred' THEN 0 ELSE due

\* record_auto_trade_event, _maybe_reconcile_group_from_runtime, the trace of
\* _track_scalp_event, and the ledger read of _emit_funnel_complete.
RecordEvent ==
    /\ stats.step = "idle" /\ stream # <<>>
    /\ journal' = ReconcileOrphan(RecordAutoTradeEvent(journal, Entry), Entry)
    /\ trace' = [trace EXCEPT ![Entry.g] = ApplyTraceEvent(@, Entry)]
    /\ stats' = IF Entry.type = "tp" THEN [Idle EXCEPT !.step = "saved"]
                ELSE [step |-> "loaded", copy |-> risk]
    /\ UNCHANGED <<engine, risk, bar, due, blurred, faults>>

SaveLedger ==
    /\ stats.step = "loaded"
    /\ risk' = RecordScalpOutcome(stats.copy, Entry)
    /\ stats' = [Idle EXCEPT !.step = "saved"]
    /\ due' = IF Entry.type = "fill" \/ blurred THEN due ELSE due + RealizedR(trace[Entry.g])
    /\ UNCHANGED <<engine, journal, trace, bar, blurred, faults>>

AdvanceCursor ==
    /\ stats.step = "saved"
    /\ stream' = Tail(stream)
    /\ stats' = Idle
    /\ UNCHANGED <<plan, booked, told, parted>>
    /\ UNCHANGED <<journal, trace, risk, bar, due, blurred, faults>>

\* The journal write raises: the loop sleeps and starts over from the cursor.
JournalFails ==
    /\ stats.step = "idle" /\ stream # <<>> /\ faults < MaxFaults
    /\ faults' = faults + 1
    /\ UNCHANGED <<engine, journal, trace, risk, stats, bar, due, blurred>>

\* The ledger update raises: it is logged and the cursor moves on.
LedgerFails ==
    /\ stats.step = "loaded" /\ faults < MaxFaults
    /\ stats' = [Idle EXCEPT !.step = "saved"]
    /\ faults' = faults + 1
    /\ Blur(TRUE)
    /\ UNCHANGED <<engine, journal, trace, risk, bar>>

----------------------------------------------------------------------------
(* The M1 cycle: process_m1_bar. *)

BarLoads ==
    /\ bar.step = "idle"
    /\ \E cooled \in BOOLEAN : bar' = [step |-> "loaded", copy |-> CooldownReset(risk, cooled)]
    /\ UNCHANGED <<engine, journal, trace, risk, stats, due, blurred, faults>>

Decides(live) ==
    LET l == ReconcileOpenPositions(bar.copy, live)
    IN  /\ bar.step = "loaded"
        /\ risk' = l
        /\ bar' = IF EvaluateRisk(l) THEN [Idle EXCEPT !.step = "publish"] ELSE Idle
        /\ Blur(bar.copy.r # risk.r)
        /\ UNCHANGED <<engine, journal, trace, stats>>

BarSaves == Decides(Live) /\ UNCHANGED faults

\* load_active_exposures raises: the cycle goes on with an empty book.
ExposureFails ==
    /\ faults < MaxFaults
    /\ faults' = faults + 1
    /\ Decides({})

\* The best ranked opportunity is handed to the publisher, then the cycle ends.
Publish(g) ==
    /\ bar.step = "publish"
    /\ Stage(g, "none", "pending")
    /\ bar' = Idle
    /\ UNCHANGED <<booked, told, parted, stream>>
    /\ UNCHANGED <<journal, trace, risk, stats, due, blurred, faults>>

NothingToPublish ==
    /\ bar.step = "publish"
    /\ bar' = Idle
    /\ UNCHANGED <<engine, journal, trace, risk, stats, due, blurred, faults>>

----------------------------------------------------------------------------
Restart ==
    /\ faults < MaxFaults
    /\ <<stats.step, bar.step>> # <<"idle", "idle">>
    /\ faults' = faults + 1
    /\ stats' = Idle /\ bar' = Idle
    /\ Blur(stats.step = "saved")
    /\ UNCHANGED <<engine, journal, trace, risk>>

Stats == RecordEvent \/ SaveLedger \/ AdvanceCursor

Bar == BarLoads \/ BarSaves \/ NothingToPublish \/ \E g \in Groups : Publish(g)

Next ==
    \/ \E g \in Groups :
          \/ OrderFills(g) \/ FillReported(g) \/ OrderCancelled(g)
          \/ TargetBooked(g) \/ PartlyClosed(g) \/ PlanCloses(g)
    \/ Stats \/ JournalFails \/ LedgerFails
    \/ Bar \/ ExposureFails
    \/ Restart

Spec == Init /\ [][Next]_vars

\* Both tasks run until cancelled: the stats loop reads on and bars keep closing.
FairSpec == Spec /\ WF_vars(Stats) /\ WF_vars(Bar)

----------------------------------------------------------------------------
(* Properties. *)

\* A closed plan whose events are handled has its row in the SQL journal, also
\* when the fill came after the close, and a plan that booked a target is a win
\* there (store.py: a residual exit after a booked target "must never flip the
\* trade into a loser"), whatever partial closes, replays after a restart and
\* rows seeded from the plan's runtime came before.
JournalTellsTruth ==
    \A g \in Groups :
       plan[g] = "closed" /\ (\A e \in Range(stream) : e.g # g)
          => IF g \in booked THEN journal[g].row = "win" ELSE journal[g].row # "none"

\* The R in the ledger is the sum of the handled closes, unless the M1 cycle
\* wrote over an accrual it had not read, a failed update was skipped, or a
\* restart fell between the save and the cursor (stats_ingestion.py).
LedgerAddsUp == blurred \/ risk.r = due

\* Once nothing is live any more the ledger counts no open position again, for
\* good: the block scalp_max_concurrent_positions ends whatever fills were
\* replayed, lost or handled late (risk.py reconcile_open_positions).
CapacityReturns ==
    (\A g \in Groups : plan[g] \in {"closed", "cancelled"}) ~> [](risk.open = 0)

\* At most MaxOpen scalps are live, pending plans included (runtime.py: "One
\* live position at a time", active_exposure.py: pending plans occupy the
\* symbol before the first fill).
OneLivePosition == Cardinality(Live) <= MaxOpen

=============================================================================
