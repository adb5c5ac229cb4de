--------------------------- MODULE ManualSignals ---------------------------
(***************************************************************************)
(* One owner signal armed with /algo: its row of manual_signals, the owner *)
(* commands on it (signals/trade_ops.py, bot/handlers/fallback.py), the    *)
(* intent bridge and the event reconciler with their in-memory queue and   *)
(* symbol worker (signals/manual_execution.py), and the engine that        *)
(* executes intents and commands (AutoTradeEngine.cs).                     *)
(*                                                                         *)
(* An await is the only place where the owner's handler, the two loops,    *)
(* the worker and the engine interleave; each step below runs from one     *)
(* write to the next.  A stream is the part of it beyond its consumer's    *)
(* cursor.  Prices, stop levels, messages and cards are left out; a        *)
(* booking keeps its share of the position, in units of one target.        *)
(***************************************************************************)
EXTENDS Naturals, Sequences, FiniteSets, SequencesExt

CONSTANTS
  Targets,      \* number of take profits of the signal
  MaxCommands,  \* owner commands (a bound)
  MaxBacklog,   \* events the engine may be ahead of the worker (a bound)
  MaxFaults     \* restarts, failed calls and repeated commands (a bound)

ASSUME BoundsAssumption ==
  Targets \in Nat \ {0} /\ MaxCommands \in Nat /\ MaxBacklog \in Nat /\ MaxFaults \in Nat

VARIABLES
  row,       \* the row of manual_signals
  ordinals,  \* Redis set of booked TP ordinals
  flags,     \* Redis keys pending_modify / pending_delete, by revision
  intents,   \* manual_trade:intents beyond the bridge's cursor
  events,    \* auto_trade:events beyond the reconciler's cursor
  queue,     \* the symbol's asyncio.Queue
  worker,    \* _symbol_worker_loop
  cached,    \* the worker's position -> signal cache, by revision
  owner,     \* the running command handler
  commands,  \* manual_trade:commands beyond the engine's cursor
  cands,     \* manual candidates the engine has not taken
  broker,    \* the order or position of each revision
  adopted,   \* fills the engine has reported
  reached,   \* TP ordinals the engine has booked, by revision
  midnight,  \* the signal's trade date has passed
  left,      \* commands left to the owner
  faults,    \* faults left
  lost       \* a queued item or a running handler was dropped

bot == <<row, ordinals, flags, queue, worker, cached>>
engine == <<cands, broker, adopted, reached, midnight>>
vars == <<row, ordinals, flags, intents, events, queue, worker, cached, owner,
          commands, cands, broker, adopted, reached, midnight, left, faults, lost>>

Revs == 0..MaxCommands
Ordinals == 1..Targets
RowStates == {"open", "closed", "cancelled", "deleted"}
ExecStates == {"requested", "pending", "filled", "cancelled", "expired",
               "rejected", "error"}
EventKinds == {"limit_placed", "rejected", "opened", "cancelled",
               "expired", "command_error", "take_profit", "partial_close",
               "group_result"}
Verbs == {"modify", "delete", "cancel", "close", "close_part", "active"}

Legs == [tp : 0..Targets, units : 1..Targets]
Items == [kind : EventKinds \cup {"intent"}, rev : Revs, n : 0..Targets]
Item(kind, r, n) == [kind |-> kind, rev |-> r, n |-> n]
NoItem == Item("intent", 0, 0)

Idle == [pc |-> "idle", item |-> NoItem, rev |-> 0]
Away == [pc |-> "away", verb |-> "active", rev |-> 0]

TypeOK ==
  /\ row \in [st : RowStates, fill : {"pending", "filled"}, exec : ExecStates,
              rev : Revs, pos : BOOLEAN, legs : Seq(Legs)]
  /\ ordinals \subseteq Ordinals
  /\ flags \in [modify : SUBSET Revs, delete : SUBSET Revs]
  /\ intents \in Seq(Revs) /\ events \in Seq(Items) /\ queue \in Seq(Items)
  /\ worker.pc \in {"idle", "fill", "arm", "publish", "remove",
                    "cancel", "book"}
  /\ worker.item \in Items /\ worker.rev \in Revs
  /\ cached \subseteq Revs
  /\ owner.pc \in {"away", "update", "flag", "request", "direct", "arm",
                   "publish"}
  /\ owner.verb \in Verbs /\ owner.rev \in Revs
  /\ commands \in Seq([verb : {"cancel", "close", "close_part"}, rev : Revs])
  /\ cands \subseteq Revs
  /\ broker \in [Revs -> {"none", "resting", "live", "flat", "off"}]
  /\ adopted \subseteq Revs /\ reached \in [Revs -> SUBSET Ordinals]
  /\ midnight \in BOOLEAN /\ lost \in BOOLEAN
  /\ left \in 0..MaxCommands /\ faults \in 0..MaxFaults

----------------------------------------------------------------------------
\* The store

Exists == row.st # "deleted"

\* A signal just stored and armed: its first intent is on the stream.
Init ==
  /\ row = [st |-> "open", fill |-> "pending", exec |-> "requested", rev |-> 0,
            pos |-> FALSE, legs |-> <<>>]
  /\ ordinals = {} /\ flags = [modify |-> {}, delete |-> {}]
  /\ intents = <<0>> /\ events = <<>> /\ queue = <<>> /\ commands = <<>>
  /\ worker = Idle /\ owner = Away /\ cached = {}
  /\ cands = {} /\ broker = [r \in Revs |-> "none"] /\ adopted = {}
  /\ reached = [r \in Revs |-> {}]
  /\ midnight = FALSE /\ lost = FALSE
  /\ left = MaxCommands /\ faults = MaxFaults

\* set_execution_status: no condition on the state it replaces.
ExecStatus(w, status) == IF w.st = "deleted" THEN w ELSE [w EXCEPT !.exec = status]

\* expire_unfilled_pending_signals
Expired(w) ==
  IF midnight /\ w.st = "open" /\ w.fill = "pending"
    THEN [w EXCEPT !.st = "cancelled"] ELSE w

\* mark_filled: the sweep of stale signals runs first.
MarkedFilled(w) ==
  LET swept == Expired(w)
  IN  IF swept.st = "open" /\ swept.fill = "pending"
        THEN [swept EXCEPT !.fill = "filled"] ELSE swept

\* Mutant: only an open signal records its fill.
FilledOpen(w) == IF w.st # "open" THEN w ELSE [w EXCEPT !.exec = "filled", !.pos = TRUE]

\* set_execution_fill
Filled(w) == IF w.st = "deleted" THEN w ELSE [w EXCEPT !.exec = "filled", !.pos = TRUE]

Used(legs) == FoldLeft(LAMBDA sum, leg : sum + leg.units, 0, legs)
Remaining(legs) == IF Used(legs) > Targets THEN 0 ELSE Targets - Used(legs)

\* close_leg: units = 0 stands for frac = None, everything that is left.
LegClosed(w, tp, units) ==
  LET share == IF units = 0 THEN Remaining(w.legs) ELSE units
      legs == Append(w.legs, [tp |-> tp, units |-> share])
  IN  IF w.st # "open" \/ share = 0 \/ share > Remaining(w.legs) THEN w
      ELSE [w EXCEPT !.legs = legs,
                     !.st = IF Used(legs) = Targets THEN "closed" ELSE "open"]

\* finalize_manual_group
GroupClosed(w) ==
  IF w.st # "open" THEN w
  ELSE [w EXCEPT !.st = "closed", !.legs = Append(@, [tp |-> 0, units |-> Targets])]

\* cancel_manual_signal and delete_manual_signal
RowCancelled(w) == IF w.st = "open" THEN [w EXCEPT !.st = "cancelled"] ELSE w
RowDeleted(w) == [w EXCEPT !.st = "deleted"]

\* set_execution_intent
Rearmed(w, r) ==
  IF w.st = "deleted" THEN w
  ELSE [w EXCEPT !.rev = r, !.exec = "requested"]

----------------------------------------------------------------------------
\* The owner's commands (trade_ops.py)

Runs(verb, pc) == owner' = [pc |-> pc, verb |-> verb, rev |-> row.rev]

\* A command starts with get_manual_signal and is decided on that read.
OrderModify ==
  /\ row.st = "open" /\ row.fill = "pending" /\ row.exec # "filled" /\ ~row.pos
  /\ Runs("modify", "update")

OrderDelete == Runs("delete", IF row.exec = "pending" THEN "flag" ELSE "direct")

OrderCancel == Runs("cancel", IF row.exec = "pending" THEN "request" ELSE "direct")

OrderClose(verb) == Runs(verb, IF row.exec = "filled" THEN "request" ELSE "direct")

OrderActive == Runs("active", "direct")

Order ==
  /\ owner.pc = "away" /\ left > 0 /\ Exists
  /\ left' = left - 1
  /\ \/ OrderModify \/ OrderDelete \/ OrderCancel \/ OrderActive
     \/ \E verb \in {"close", "close_part"} : OrderClose(verb)
  /\ UNCHANGED <<bot, intents, events, commands, engine, faults, lost>>

\* update_pending_levels and the branch on the row it returns.
Update ==
  /\ owner.pc = "update"
  /\ Runs(owner.verb,
       IF row.st # "open" \/ row.fill # "pending" THEN "away"
       ELSE IF row.exec = "pending" THEN "flag"
       ELSE IF row.exec \in {"requested", "error"} THEN "arm"
       ELSE "away")
  /\ UNCHANGED <<bot, intents, events, commands, engine, left, faults, lost>>

\* mark_pending_modify / mark_pending_delete
Flag ==
  /\ owner.pc = "flag"
  /\ flags' = [flags EXCEPT ![owner.verb] = @ \cup {owner.rev}]
  /\ owner' = [owner EXCEPT !.pc = "request"]
  /\ UNCHANGED <<row, ordinals, queue, worker, cached, intents, events, commands,
                 engine, left, faults, lost>>

\* request_cancel / request_close
Request ==
  /\ owner.pc = "request"
  /\ commands' = Append(commands,
       [verb |-> IF owner.verb \in {"close", "close_part"} THEN owner.verb ELSE "cancel",
        rev |-> owner.rev])
  /\ owner' = Away
  /\ UNCHANGED <<bot, intents, events, engine, left, faults, lost>>

\* The path that never leaves the database.
Direct ==
  /\ owner.pc = "direct"
  /\ row' = CASE owner.verb = "cancel" -> RowCancelled(row)
              [] owner.verb = "delete" -> RowDeleted(row)
              [] owner.verb = "close" -> LegClosed(row, 0, 0)
              [] owner.verb = "close_part" -> LegClosed(row, 0, 1)
              [] owner.verb = "active" -> MarkedFilled(row)
  /\ owner' = Away
  /\ UNCHANGED <<ordinals, flags, queue, worker, cached, intents, events, commands,
                 engine, left, faults, lost>>

\* _rearm_algo_after_modify, on the revision read earlier.
Arm ==
  /\ owner.pc = "arm"
  /\ row' = Rearmed(row, owner.rev + 1)
  /\ owner' = [owner EXCEPT !.pc = "publish", !.rev = @ + 1]
  /\ UNCHANGED <<ordinals, flags, queue, worker, cached, intents, events, commands,
                 engine, left, faults, lost>>

Publish ==
  /\ owner.pc = "publish"
  /\ intents' = Append(intents, owner.rev)
  /\ owner' = Away
  /\ UNCHANGED <<bot, events, commands, engine, left, faults, lost>>

Command == Update \/ Flag \/ Request \/ Direct \/ Arm \/ Publish

----------------------------------------------------------------------------
\* The two loops: an item moves to the queue, then the cursor moves past it.
\* When saving the cursor fails the loop reads the item again.

DispatchIntent ==
  /\ intents # <<>>
  /\ queue' = Append(queue, Item("intent", Head(intents), 0))
  /\ \/ intents' = Tail(intents) /\ faults' = faults
     \/ faults > 0 /\ faults' = faults - 1 /\ intents' = intents
  /\ UNCHANGED <<row, ordinals, flags, worker, cached, events, owner, commands,
                 engine, left, lost>>

DispatchEvent ==
  /\ events # <<>>
  /\ queue' = Append(queue, Head(events))
  /\ \/ events' = Tail(events) /\ faults' = faults
     \/ faults > 0 /\ faults' = faults - 1 /\ events' = events
  /\ UNCHANGED <<row, ordinals, flags, worker, cached, intents, owner, commands,
                 engine, left, lost>>

----------------------------------------------------------------------------
\* The symbol worker

item == Head(queue)

Goes(pc) == worker' = [pc |-> pc, item |-> item, rev |-> 0]
Done == worker' = Idle

\* Mutant: only the cache resolves an event.
ResolvedCached(r) == Exists /\ r \in cached

\* _resolve_signal_id: the cache of this process, else the exact revision.
Resolved(r) == Exists /\ (r \in cached \/ row.rev = r)

\* Everything _handle_event writes in one go.
HandleStatus ==
  /\ item.kind \in {"limit_placed", "rejected", "expired", "command_error"}
  /\ row' = ExecStatus(row, CASE item.kind = "limit_placed" -> "pending"
                              [] item.kind = "command_error" -> "error"
                              [] OTHER -> item.kind)
  /\ Done
  /\ UNCHANGED <<ordinals, flags, cached, cands>>

HandleIntent ==
  /\ item.kind = "intent"
  /\ cands' = IF broker[item.rev] = "none" THEN cands \cup {item.rev}
              ELSE cands
  /\ Done
  /\ UNCHANGED <<row, ordinals, flags, cached>>

\* _handle_fill_event: the fill, then do_active.
HandleFill ==
  /\ item.kind = "opened"
  /\ row' = Filled(row)
  /\ cached' = IF Exists THEN cached \cup {item.rev} ELSE cached
  /\ IF Exists THEN Goes("fill") ELSE Done
  /\ UNCHANGED <<ordinals, flags, cands>>

\* _handle_manual_cancelled: which of the three outcomes the owner asked for.
HandleCancelled ==
  LET r == item.rev
  IN  /\ item.kind = "cancelled"
      /\ \/ ~Exists /\ Done /\ UNCHANGED <<row, flags>>
         \/ /\ Exists /\ r \in flags.modify
            /\ flags' = [flags EXCEPT !.modify = @ \ {r}]
            /\ worker' = [pc |-> "arm", item |-> item, rev |-> row.rev]
            /\ UNCHANGED row
         \/ /\ Exists /\ r \notin flags.modify /\ r \in flags.delete
            /\ flags' = [flags EXCEPT !.delete = @ \ {r}]
            /\ Goes("remove")
            /\ UNCHANGED row
         \/ /\ Exists /\ r \notin flags.modify \cup flags.delete
            /\ row' = ExecStatus(row, "cancelled")
            /\ Goes("cancel")
            /\ UNCHANGED flags
      /\ UNCHANGED <<ordinals, cached, cands>>

\* Mutant: an ordinal booked before is booked again.
HandleTakeProfitAgain ==
  /\ item.kind = "take_profit"
  /\ IF Resolved(item.rev) THEN ordinals' = ordinals \cup {item.n} /\ Goes("book")
     ELSE ordinals' = ordinals /\ Done
  /\ UNCHANGED <<row, flags, cands, cached>>

\* _handle_take_profit: the ordinal is marked, then booked.
HandleTakeProfit ==
  LET r == item.rev
      n == item.n
  IN  /\ item.kind = "take_profit"
      /\ IF Resolved(r) /\ n \notin ordinals
           THEN ordinals' = ordinals \cup {n} /\ Goes("book")
           ELSE ordinals' = ordinals /\ Done
      /\ cached' = IF Resolved(r) THEN cached \cup {r} ELSE cached
      /\ UNCHANGED <<row, flags, cands>>

Booked(kind, w) ==
  /\ item.kind = kind
  /\ row' = IF Resolved(item.rev) THEN w ELSE row
  /\ cached' = IF Resolved(item.rev) THEN cached \cup {item.rev} ELSE cached
  /\ Done
  /\ UNCHANGED <<ordinals, flags, cands>>

\* _handle_manual_closed: a leg that is over is left to the group's result.
HandleClosed == Booked("partial_close", LegClosed(row, 0, 1))

\* _handle_group_result
HandleGroupResult == Booked("group_result", GroupClosed(row))

Handle ==
  /\ worker.pc = "idle" /\ queue # <<>>
  /\ queue' = Tail(queue)
  /\ \/ HandleStatus \/ HandleIntent \/ HandleFill \/ HandleCancelled
     \/ HandleTakeProfit \/ HandleClosed \/ HandleGroupResult
  /\ UNCHANGED <<intents, events, owner, commands, broker, adopted, reached,
                 midnight, left, faults, lost>>

\* The second write of a handler.
Finish ==
  /\ \/ worker.pc = "fill" /\ row' = MarkedFilled(row) /\ Done /\ UNCHANGED intents
     \/ worker.pc = "remove" /\ row' = RowDeleted(row) /\ Done /\ UNCHANGED intents
     \/ worker.pc = "cancel" /\ row' = RowCancelled(row) /\ Done /\ UNCHANGED intents
     \/ /\ worker.pc = "book"
        /\ row' = LegClosed(row, worker.item.n, IF worker.item.n = Targets THEN 0 ELSE 1)
        /\ Done /\ UNCHANGED intents
     \/ /\ worker.pc = "arm"
        /\ row' = Rearmed(row, worker.rev + 1)
        /\ worker' = [worker EXCEPT !.pc = "publish", !.rev = @ + 1]
        /\ UNCHANGED intents
     \/ /\ worker.pc = "publish"
        /\ intents' = Append(intents, worker.rev)
        /\ Done /\ UNCHANGED row
  /\ UNCHANGED <<ordinals, flags, queue, cached, events, owner, commands, engine,
                 left, faults, lost>>

----------------------------------------------------------------------------
\* The engine.  An order belongs to a revision; a command reaches every order
\* and position of the signal whatever its revision, and its answer names the
\* revision of the command.

Published(es) ==
  /\ Len(events) + Len(queue) < MaxBacklog
  /\ events' = events \o es
Resting == {r \in Revs : broker[r] = "resting"}
Open == {r \in adopted : broker[r] = "live"}
Set(rs, state) == broker' = [r \in Revs |-> IF r \in rs THEN state ELSE broker[r]]

EngineTakes(r) ==
  /\ r \in cands
  /\ cands' = cands \ {r}
  /\ \/ Set({r}, "resting") /\ Published(<<Item("limit_placed", r, 0)>>)
     \/ Set({r}, "off") /\ Published(<<Item("rejected", r, 0)>>)
  /\ UNCHANGED <<bot, intents, owner, commands, adopted, reached, midnight, left,
                 faults, lost>>

OrderFills(r) ==
  /\ r \in Resting
  /\ Set({r}, "live")
  /\ UNCHANGED <<bot, intents, events, owner, commands, cands, adopted, reached,
                 midnight, left, faults, lost>>

\* A fill is reported when reconciliation adopts the position.
Adopt(r) ==
  /\ broker[r] = "live" /\ r \notin adopted
  /\ adopted' = adopted \cup {r}
  /\ Published(<<Item("opened", r, 0)>>)
  /\ UNCHANGED <<bot, intents, owner, commands, cands, broker, reached, midnight,
                 left, faults, lost>>

OrderExpires(r) ==
  /\ midnight /\ r \in Resting
  /\ Set({r}, "off")
  /\ Published(<<Item("expired", r, 0)>>)
  /\ UNCHANGED <<bot, intents, owner, commands, cands, adopted, reached, midnight,
                 left, faults, lost>>

\* A ladder too small for every target skips some of them.
TargetReached(r, n) ==
  /\ r \in Open /\ \A k \in reached[r] : k < n
  /\ reached' = [reached EXCEPT ![r] = @ \cup {n}]
  /\ IF n = Targets
       THEN /\ Set({r}, "flat")
            /\ Published(<<Item("take_profit", r, n), Item("group_result", r, 0)>>)
       ELSE broker' = broker /\ Published(<<Item("take_profit", r, n)>>)
  /\ UNCHANGED <<bot, intents, owner, commands, cands, adopted, midnight, left,
                 faults, lost>>

StopHit(r) ==
  /\ r \in Open
  /\ Set({r}, "flat")
  /\ Published(<<Item("group_result", r, 0)>>)
  /\ UNCHANGED <<bot, intents, owner, commands, cands, adopted, reached, midnight,
                 left, faults, lost>>

Answers(rs, kind) == SetToSeq({Item(kind, r, 0) : r \in rs})

\* ProcessCommandEntryAsync.  A crash before the cursor is saved runs the
\* command a second time.
EngineCommand ==
  LET c == Head(commands)
      error == <<Item("command_error", c.rev, 0)>>
  IN  /\ commands # <<>>
      /\ \/ commands' = Tail(commands) /\ faults' = faults
         \/ faults > 0 /\ faults' = faults - 1 /\ commands' = commands
      /\ \/ /\ c.verb = "cancel" /\ Resting # {}
            /\ Set(Resting, "off") /\ Published(<<Item("cancelled", c.rev, 0)>>)
         \/ /\ c.verb = "cancel" /\ Resting = {}
            /\ broker' = broker /\ Published(error)
         \/ /\ c.verb = "close" /\ Open # {}
            /\ Set(Open, "flat") /\ Published(Answers(Open, "group_result"))
         \/ /\ c.verb = "close_part" /\ Open # {}
            /\ broker' = broker /\ Published(Answers(Open, "partial_close"))
         \/ /\ c.verb # "cancel" /\ Open = {}
            /\ broker' = broker /\ Published(error)
  /\ UNCHANGED <<bot, intents, owner, cands, adopted, reached, midnight, left, lost>>

----------------------------------------------------------------------------
\* The clock, restarts and failures

Midnight ==
  /\ ~midnight /\ midnight' = TRUE
  /\ UNCHANGED <<bot, intents, events, owner, commands, cands, broker, adopted,
                 reached, left, faults, lost>>

\* get_open_signals sweeps stale signals before it lists the open ones.
Sweep ==
  /\ Expired(row) # row
  /\ row' = Expired(row)
  /\ UNCHANGED <<ordinals, flags, queue, worker, cached, intents, events, owner,
                 commands, engine, left, faults, lost>>

\* A restart forgets the queue, the running handlers and the cache.
Restart ==
  /\ faults > 0 /\ faults' = faults - 1
  /\ lost' = (lost \/ queue # <<>> \/ worker # Idle \/ owner # Away)
  /\ queue' = <<>> /\ worker' = Idle /\ owner' = Away /\ cached' = {}
  /\ UNCHANGED <<row, ordinals, flags, intents, events, commands, engine, left>>

\* A call of the worker's handler fails: the item is logged and dropped.  A
\* failed re-arm is recorded on the signal.
HandlerFails ==
  /\ faults > 0 /\ faults' = faults - 1
  /\ \/ worker.pc = "idle" /\ queue # <<>> /\ queue' = Tail(queue)
     \/ worker.pc # "idle" /\ queue' = queue
  /\ row' = IF worker.pc \in {"arm", "publish"} THEN ExecStatus(row, "error") ELSE row
  /\ lost' = TRUE
  /\ Done
  /\ UNCHANGED <<ordinals, flags, cached, intents, events, owner, commands, engine,
                 left>>

CommandFails ==
  /\ faults > 0 /\ faults' = faults - 1
  /\ owner.pc # "away"
  /\ row' = IF owner.pc \in {"arm", "publish"} THEN ExecStatus(row, "error") ELSE row
  /\ owner' = Away
  /\ UNCHANGED <<ordinals, flags, queue, worker, cached, intents, events, commands,
                 engine, left, lost>>

Next ==
  \/ Order
  \/ Command
  \/ DispatchIntent \/ DispatchEvent
  \/ Handle \/ Finish
  \/ \E r \in Revs : EngineTakes(r) \/ OrderFills(r) \/ Adopt(r) \/ OrderExpires(r)
                      \/ StopHit(r)
  \/ \E r \in Revs, n \in Ordinals : TargetReached(r, n)
  \/ EngineCommand
  \/ Midnight \/ Sweep
  \/ Restart \/ HandlerFails \/ CommandFails

Spec == Init /\ [][Next]_vars

\* The loops, the worker and the engine keep running; prices, the owner and
\* the clock promise nothing.
FairSpec ==
  /\ Spec
  /\ WF_vars(Command) /\ WF_vars(DispatchIntent) /\ WF_vars(DispatchEvent)
  /\ WF_vars(Handle) /\ WF_vars(Finish)
  /\ WF_vars(EngineCommand)
  /\ \A r \in Revs : WF_vars(EngineTakes(r)) /\ WF_vars(Adopt(r))

----------------------------------------------------------------------------
\* A take profit is booked on the signal at most once, although an event can
\* be handled twice after its cursor was not saved and two revisions can both
\* reach the target (_handle_take_profit and its Redis set of ordinals).
BookedOnce ==
  \A i, j \in 1..Len(row.legs) :
    row.legs[i].tp # 0 /\ row.legs[i].tp = row.legs[j].tp => i = j

\* A fill the engine reported is recorded on the signal unless the signal was
\* deleted or the event was dropped from the queue (_handle_fill_event).
FillIsRecorded ==
  \A r \in Revs : r \in adopted ~> (row.pos \/ ~Exists \/ lost)

\* Once the position of the signal's current revision is flat the signal does
\* not stay open, unless the event was dropped (_handle_group_result).
ResultIsRecorded ==
  \A r \in Revs :
    broker[r] = "flat" ~> (row.st # "open" \/ row.rev # r \/ lost)

\* A close of a signal whose fill is recorded and whose position is open goes
\* to the broker, never to the database alone (_maybe_defer_close_to_broker).
CloseReachesBroker ==
  [][owner'.pc = "direct" /\ owner'.verb \in {"close", "close_part"} /\ row.pos =>
       owner.pc = "direct" \/ Open = {}]_vars
============================================================================
