------------------------------ MODULE ZoneWatch ------------------------------
(***************************************************************************)
(* Retained zones of algo-bot (zone_watch.py, zone_execution_cutover.py):   *)
(* the record of a zone with its compare-and-swap writes, the two index     *)
(* sets and their lazy repair, and the tasks that share them: the spot loop *)
(* and the bar dispatcher evaluate the listed zones, the bar dispatcher     *)
(* also runs the scanner's discovery, and the owner delivery loop applies   *)
(* the outcomes of executor events.                                         *)
(*                                                                          *)
(* A write loads the record, computes the new one and saves it if the       *)
(* revision did not change.  Revisions only grow, so a task need only       *)
(* remember whether anybody saved since its load: the field "fresh".        *)
(***************************************************************************)
EXTENDS Naturals, FiniteSets

CONSTANTS
  Zones,      \* zones of one symbol
  Matches,    \* strategy matches the scanner may build for a zone
  None,       \* no record, no match, no zone
  MaxTouches  \* touches are counted up to this bound

ASSUME Distinct == None \notin Zones \cup Matches
ASSUME Bounds == MaxTouches \in Nat \ {0, 1}

VARIABLES
  rec,      \* zone -> record or None
  index,    \* the global and the symbol index: sets of zones
  built,    \* markers: indexes recently rebuilt
  cand,     \* zone -> the match saved for it
  plan,     \* match -> state of its TradePlan and the zone it came from
  task,     \* the tasks of the bot
  stray     \* zones found in no index that nobody has listed yet (history)

vars == <<rec, index, built, cand, plan, task, stray>>

Tasks  == {"spot", "bar"}
States == {"discovered", "watching_retest", "evaluating", "published_locked",
           "consumed", "invalidated", "expired"}
Terminal == {"invalidated", "expired", "consumed"}
Locked   == {"published_locked"}
Grades   == {"A", "B"}

Records == [state : States, grade : Grades, touches : 0..MaxTouches,
            inside : BOOLEAN, plan : Matches \cup {None}]

ASSUME NoneIsNoRecord == None \notin Records

Transitions == [s \in States |->
  CASE s = "discovered"       -> {"watching_retest", "evaluating", "invalidated", "expired"}
    [] s = "watching_retest"  -> {"evaluating", "published_locked", "invalidated", "expired"}
    [] s = "evaluating"       -> {"watching_retest", "published_locked", "invalidated", "expired"}
    [] s = "published_locked" -> {"consumed", "watching_retest", "invalidated", "expired"}
    [] OTHER                  -> {}]

----------------------------------------------------------------------------
(* The market moves at will between any two steps, so a task that reads it  *)
(* gets any answer: where the executable quote lies (in reach is inside the *)
(* zone or within the chase budget) and whether the last closed bar of a    *)
(* zone without higher-timeframe evidence broke its far edge.  One quote    *)
(* serves a whole pass in the code; zones lie apart, so an answer per zone  *)
(* allows what one quote does.  Records live for seven days and a contended *)
(* write gives up after twelve tries: neither runs out here.                *)
Places == {"reach", "missed", "outside", "far"}

----------------------------------------------------------------------------
(* Pure functions of a record.                                              *)

\* A zone in the active watch list.
Wanted(r) == r # None /\ r.grade \in Grades /\ r.state \notin Terminal \cup Locked

\* Confidence drops after the second touch, never below B.
GradeFor(count, grade) == IF count >= 2 THEN "B" ELSE grade

Discovered(g) == [state |-> "discovered", grade |-> g, touches |-> 0,
                  inside |-> FALSE, plan |-> None]

\* Mutant: the count of a zone whose grade is settled starts over.
EnteredAnew(r) == [r EXCEPT !.state = "evaluating", !.inside = TRUE,
                            !.grade = GradeFor(r.touches + 1, r.grade),
                            !.touches = IF r.touches < MaxTouches THEN r.touches + 1 ELSE 1]

Entered(r) == [r EXCEPT !.state   = "evaluating",
                        !.grade   = GradeFor(r.touches + 1, r.grade),
                        !.touches = IF r.touches < MaxTouches THEN r.touches + 1 ELSE r.touches,
                        !.inside  = TRUE]

Left(r, broke) == [r EXCEPT !.state  = IF broke THEN "invalidated" ELSE "watching_retest",
                            !.inside = FALSE]

Present(r, in, broke) ==
  CASE r.state \in Terminal \cup Locked -> r
    [] r.state \notin Terminal \cup Locked /\ in /\ r.inside ->
         [r EXCEPT !.state = IF r.state = "watching_retest" THEN "evaluating" ELSE r.state]
    [] r.state \notin Terminal \cup Locked /\ in /\ ~r.inside -> Entered(r)
    [] r.state \notin Terminal \cup Locked /\ ~in /\ ~r.inside ->
         [r EXCEPT !.state = IF r.state = "discovered" THEN "watching_retest" ELSE r.state]
    [] OTHER -> Left(r, broke)

(* A pending write: an operation with its arguments.                        *)
Ops == [kind : {"discover", "presence"}, grade : Grades, in : BOOLEAN, broke : BOOLEAN]
       \cup [kind : {"mark"}]
       \cup [kind : {"move"}, to : States, plan : Matches \cup {None}]

Presence(in, broke) == [kind |-> "presence", grade |-> "A", in |-> in, broke |-> broke]
Discover(g)         == [kind |-> "discover", grade |-> g, in |-> FALSE, broke |-> FALSE]
Mark                == [kind |-> "mark"]
Move(to)            == [kind |-> "move", to |-> to, plan |-> None]
Lock(m)             == [kind |-> "move", to |-> "published_locked", plan |-> m]

\* The operation raises: unknown zone, illegal transition.
Raises(op, r) ==
  \/ r = None /\ op.kind # "discover"
  \/ /\ r # None
     /\ op.kind = "move"
     /\ op.to \notin Transitions[r.state] \cup {r.state}

\* The operation finds nothing to write.
Idle(op, r) ==
  \/ op.kind = "move" /\ op.to = r.state
  \/ op.kind = "presence" /\ r.state \in Terminal \cup Locked

\* The record the operation writes.
Applied(op, r) ==
  CASE op.kind = "discover" /\ r = None -> Discovered(op.grade)
    [] op.kind = "presence"             -> Present(r, op.in, op.broke)
    [] op.kind = "move" /\ op.plan # None -> [r EXCEPT !.state = op.to, !.plan = op.plan]
    [] op.kind = "move" /\ op.plan = None -> [r EXCEPT !.state = op.to]
    [] OTHER -> r

----------------------------------------------------------------------------
(* Tasks.                                                                   *)

Steps == {"idle", "scan", "rebuild", "join", "unlist", "reread", "fetch", "repair", "commit",
          "members", "mget", "evict", "pick", "quote", "load", "save", "gates",
          "verdict", "recheck", "terminalize", "activate", "publish", "lockcheck"}

\* What follows a write.
Thens == {"next", "watch", "candidate", "gates", "verdict"}

TaskType == [pc : Steps, zone : Zones \cup {None}, op : Ops, then : Thens,
             snap : Records \cup {None}, fresh : BOOLEAN, seen : SUBSET Zones,
             drop : SUBSET Zones, place : Places, match : Matches \cup {None},
             sync : BOOLEAN]

Resting == [pc |-> "idle", zone |-> None, op |-> Mark, then |-> "next", snap |-> None,
            fresh |-> FALSE, seen |-> {}, drop |-> {}, place |-> "outside", match |-> None,
            sync |-> FALSE]

\* What the bot finds: zones an older writer left in the global index only,
\* and restored ones that no index names.
Init ==
  /\ \E legacy \in SUBSET Zones :
       /\ rec = [z \in Zones |-> IF z \in legacy
                                 THEN [Discovered("A") EXCEPT !.state = "watching_retest"]
                                 ELSE None]
       /\ stray \in SUBSET legacy
       /\ index = [global |-> legacy \ stray, symbol |-> {}]
  /\ built = [global |-> FALSE, symbol |-> FALSE]
  /\ cand = [z \in Zones |-> None]
  /\ plan = [m \in Matches |-> [state |-> "none", zone |-> None]]
  /\ task = [a \in Tasks |-> Resting]

At(a, pc)  == task[a].pc = pc
Go(a, pc)  == task' = [task EXCEPT ![a].pc = pc]

\* The task goes on with the next listed zone, or the scan is over.
NextZone(t) == IF t.sync THEN Resting
               ELSE [Resting EXCEPT !.pc = "pick", !.seen = t.seen]

Begin(t, op, then) ==
  [t EXCEPT !.pc = "load", !.op = op, !.then = then, !.snap = None, !.fresh = FALSE]

\* The last write of a visit: nothing else of the visit is needed any more.
Finish(t, op) == Begin([t EXCEPT !.place = "outside", !.match = None], op, "next")

\* A step that is no write.
Turn(t, pc) == [t EXCEPT !.pc = pc, !.op = Mark, !.then = "next", !.snap = None]

\* What the task does once a write is settled with record r.
After(t, r) ==
  CASE t.then = "next"      -> NextZone(t)
    [] t.then = "watch"     -> IF t.snap = None /\ r.state = "discovered"
                               THEN Begin(t, Move("watching_retest"), "candidate")
                               ELSE Turn(t, "quote")
    [] t.then = "candidate" -> Turn(t, "quote")
    [] t.then = "gates"     ->
         IF r.state \in Terminal \cup Locked THEN NextZone(t)
         ELSE IF t.place = "reach" THEN Turn([t EXCEPT !.place = "outside"], "gates")
         ELSE IF t.sync /\ t.place = "missed" THEN Finish(t, Move("invalidated"))
         ELSE NextZone(t)
    [] OTHER                -> Turn(t, "verdict")

(* _mutate and discover_zone_watch: load, compute, compare and swap.        *)
Load(a) ==
  LET t == task[a]
      r == rec[t.zone]
  IN  /\ At(a, "load")
      /\ task' = [task EXCEPT ![a] =
           IF Raises(t.op, r)
           THEN IF t.op = Move("expired") THEN NextZone(t) ELSE Resting
           ELSE IF r # None /\ Idle(t.op, r) THEN After([t EXCEPT !.snap = r], r)
           ELSE [t EXCEPT !.pc = "save", !.snap = r, !.fresh = TRUE]]
      /\ UNCHANGED <<rec, stray, index, built, cand, plan>>

\* Mutant: last writer wins.
Unchecked(a) == task[a].snap # None

\* The script's condition: the revision is still the one that was loaded.
Current(a) == task[a].fresh

\* Mutant: the write forgets the symbol index.
WrittenGlobalOnly(z, r) ==
  /\ rec' = [rec EXCEPT ![z] = r]
  /\ stray' = stray \ {z}
  /\ index' = [index EXCEPT !.global = IF Wanted(r) THEN @ \cup {z} ELSE @ \ {z}]

\* The script writes the record and both index memberships at once.
Written(z, r) ==
  /\ rec' = [rec EXCEPT ![z] = r]
  /\ stray' = stray \ {z}
  /\ index' = IF Wanted(r)
              THEN [global |-> index.global \cup {z}, symbol |-> index.symbol \cup {z}]
              ELSE [global |-> index.global \ {z}, symbol |-> index.symbol \ {z}]

\* Every other load of the zone is out of date now.
Outdated(z) == [b \in Tasks |-> IF task[b].zone = z THEN [task[b] EXCEPT !.fresh = FALSE]
                                ELSE task[b]]

Save(a) ==
  LET t == task[a]
      r == Applied(t.op, t.snap)
  IN  /\ At(a, "save")
      /\ \/ /\ Current(a)
            /\ Written(t.zone, r)
            /\ task' = [Outdated(t.zone) EXCEPT ![a] = After([t EXCEPT !.fresh = FALSE], r)]
         \/ /\ ~Current(a)
            /\ task' = [task EXCEPT ![a].pc = "load", ![a].snap = None]
            /\ UNCHANGED <<rec, stray, index>>
      /\ UNCHANGED <<built, cand, plan>>

----------------------------------------------------------------------------
(* list_active_zone_watches with the lazy repair of the symbol index.       *)

\* The marker is there, or the global index is read, rebuilt first if empty.
Evaluate(a) ==
  /\ At(a, "idle")
  /\ \/ built.symbol /\ Go(a, "members") /\ UNCHANGED built
     \/ /\ ~built.symbol /\ (index.global # {} \/ built.global)
        /\ task' = [task EXCEPT ![a].pc = "fetch", ![a].seen = index.global]
        /\ UNCHANGED built
     \/ /\ ~built.symbol /\ index.global = {} /\ ~built.global
        /\ built' = [built EXCEPT !.global = TRUE]
        /\ task' = [task EXCEPT ![a].pc = "scan", ![a].seen = {z \in Zones : rec[z] # None}]
  /\ UNCHANGED <<rec, stray, index, cand, plan>>

\* One pass over the key space: each record is loaded, then added to both
\* indexes one after the other, or removed from the global one.
Scan(a) ==
  /\ At(a, "scan")
  /\ \/ task[a].seen = {} /\ Go(a, "reread")
     \/ \E z \in task[a].seen :
          task' = [task EXCEPT ![a].pc = IF Wanted(rec[z]) THEN "rebuild" ELSE "unlist",
                               ![a].zone = z, ![a].seen = @ \ {z}]
  /\ UNCHANGED <<rec, stray, index, built, cand, plan>>

Rebuild(a) ==
  /\ At(a, "rebuild")
  /\ index' = [index EXCEPT !.global = @ \cup {task[a].zone}]
  /\ Go(a, "join")
  /\ UNCHANGED <<rec, stray, built, cand, plan>>

Join(a) ==
  /\ At(a, "join")
  /\ index' = [index EXCEPT !.symbol = @ \cup {task[a].zone}]
  /\ stray' = stray \ {task[a].zone}
  /\ task' = [task EXCEPT ![a].pc = "scan", ![a].zone = None]
  /\ UNCHANGED <<rec, built, cand, plan>>

Unlist(a) ==
  /\ At(a, "unlist")
  /\ index' = [index EXCEPT !.global = @ \ {task[a].zone}]
  /\ task' = [task EXCEPT ![a].pc = "scan", ![a].zone = None]
  /\ UNCHANGED <<rec, stray, built, cand, plan>>

Reread(a) ==
  /\ At(a, "reread")
  /\ task' = [task EXCEPT ![a].pc = "fetch", ![a].seen = index.global]
  /\ UNCHANGED <<rec, stray, index, built, cand, plan>>

Fetch(a) ==
  LET wanted == {z \in task[a].seen : Wanted(rec[z])}
  IN  /\ At(a, "fetch")
      /\ task' = [task EXCEPT ![a].pc = "repair", ![a].seen = wanted,
                              ![a].drop = task[a].seen \ wanted]
      /\ UNCHANGED <<rec, stray, index, built, cand, plan>>

Repair(a) ==
  /\ At(a, "repair")
  /\ index' = [index EXCEPT !.symbol = (@ \cup task[a].seen) \ task[a].drop]
  /\ task' = [task EXCEPT ![a].pc = "commit", ![a].seen = {}]
  /\ UNCHANGED <<rec, stray, built, cand, plan>>

Commit(a) ==
  /\ At(a, "commit")
  /\ index' = [index EXCEPT !.global = @ \ task[a].drop]
  /\ built' = [built EXCEPT !.symbol = TRUE]
  /\ task' = [task EXCEPT ![a].pc = "members", ![a].drop = {}]
  /\ UNCHANGED <<rec, stray, cand, plan>>

Members(a) ==
  /\ At(a, "members")
  /\ task' = [task EXCEPT ![a].pc = "mget", ![a].seen = index.symbol]
  /\ UNCHANGED <<rec, stray, index, built, cand, plan>>

Mget(a) ==
  LET wanted == {z \in task[a].seen : Wanted(rec[z])}
  IN  /\ At(a, "mget")
      /\ task' = [task EXCEPT ![a].pc = "evict", ![a].seen = wanted,
                              ![a].drop = task[a].seen \ wanted]
      /\ UNCHANGED <<rec, stray, index, built, cand, plan>>

\* Mutant: the index is replaced by what the listing found worth watching.
EvictReplaces(a) ==
  /\ At(a, "evict")
  /\ index' = [global |-> index.global \ task[a].drop, symbol |-> task[a].seen]
  /\ task' = [task EXCEPT ![a].pc = "pick", ![a].drop = {}]
  /\ UNCHANGED <<rec, stray, built, cand, plan>>

Evict(a) ==
  /\ At(a, "evict")
  /\ index' = [global |-> index.global \ task[a].drop, symbol |-> index.symbol \ task[a].drop]
  /\ task' = [task EXCEPT ![a].pc = "pick", ![a].drop = {}]
  /\ UNCHANGED <<rec, stray, built, cand, plan>>

(* The markers live for five minutes.                                       *)
MarkerExpires ==
  /\ \E k \in {"global", "symbol"} : built[k] /\ built' = [built EXCEPT ![k] = FALSE]
  /\ UNCHANGED <<rec, stray, index, cand, plan, task>>

----------------------------------------------------------------------------
(* evaluate_active_zone_watches: each listed zone in turn, on one quote.    *)

\* The next zone: far and old ones expire, out of reach ones are passed over.
Pick(a) ==
  /\ At(a, "pick")
  /\ \/ task[a].seen = {} /\ task' = [task EXCEPT ![a] = Resting]
     \/ \E z \in task[a].seen, p \in Places, broke, old \in BOOLEAN :
          LET t == [task[a] EXCEPT !.zone = z, !.seen = @ \ {z}, !.place = p]
          IN  task' = [task EXCEPT ![a] =
                IF p = "far"
                THEN IF old THEN Finish(t, Move("expired")) ELSE NextZone(t)
                ELSE IF cand[z] = None THEN NextZone(t)
                ELSE Begin([t EXCEPT !.match = cand[z]], Presence(p = "reach", broke), "gates")]
  /\ UNCHANGED <<rec, stray, index, built, cand, plan>>

(* _sync_strategy_match_cutover for one detection of the scanner.           *)
Sync(a) ==
  /\ a = "bar"
  /\ At(a, "idle")
  /\ \E z \in Zones, m \in Matches :
       LET t == [Resting EXCEPT !.zone = z, !.match = m, !.sync = TRUE]
       IN  \/ \E g \in Grades : task' = [task EXCEPT ![a] = Begin(t, Discover(g), "watch")]
           \/ task' = [task EXCEPT ![a] = [t EXCEPT !.pc = "recheck"]]   \* width refused
  /\ UNCHANGED <<rec, stray, index, built, cand, plan>>

\* The candidate is stored, the quote read, the presence recorded.
Quote(a) ==
  LET t == task[a]
  IN  /\ At(a, "quote")
      /\ cand' = [cand EXCEPT ![t.zone] = t.match]
      /\ \E p \in Places \ {"far"}, broke \in BOOLEAN :
           task' = [task EXCEPT ![a] =
             Begin([t EXCEPT !.place = p], Presence(p = "reach", broke), "gates")]
      /\ UNCHANGED <<rec, stray, index, built, plan>>

----------------------------------------------------------------------------
(* _prepare_activation and _activate_match.                                 *)

\* Session gates wait; a stop that cannot be planned ends the zone; else the
\* M1 window is read, and marked when it holds a new bar.
Gates(a) ==
  LET t == task[a]
  IN  /\ At(a, "gates")
      /\ \/ task' = [task EXCEPT ![a] = NextZone(t)]
         \/ Go(a, "terminalize")
         \/ task' = [task EXCEPT ![a] = Begin(t, Mark, "verdict")]
         \/ Go(a, "verdict")
      /\ UNCHANGED <<rec, stray, index, built, cand, plan>>

Verdict(a) ==
  LET t == task[a]
  IN  /\ At(a, "verdict")
      /\ \/ task' = [task EXCEPT ![a] = NextZone(t)]
         \/ Go(a, "recheck")                           \* decisively broken
         \/ Go(a, "activate")
      /\ UNCHANGED <<rec, stray, index, built, cand, plan>>

\* Load once more before invalidating: a terminal zone is left alone.
Recheck(a) ==
  LET t == task[a]
      r == rec[t.zone]
  IN  /\ At(a, "recheck")
      /\ task' = [task EXCEPT ![a] = IF r = None \/ r.state \in Terminal THEN NextZone(t)
                                     ELSE Finish(t, Move("invalidated"))]
      /\ UNCHANGED <<rec, stray, index, built, cand, plan>>

\* Ending a zone for good spares the zones that wait for an outcome.
Terminalize(a) ==
  LET t == task[a]
      r == rec[t.zone]
  IN  /\ At(a, "terminalize")
      /\ task' = [task EXCEPT ![a] = IF r = None \/ r.state \in Terminal \cup Locked THEN NextZone(t)
                                     ELSE Finish(t, Move("invalidated"))]
      /\ UNCHANGED <<rec, stray, index, built, cand, plan>>

\* A second quote: out of reach means the visit is over.
Activate(a) ==
  LET t == task[a]
  IN  /\ At(a, "activate")
      /\ \/ Go(a, "publish")
         \/ \E broke \in BOOLEAN :
              task' = [task EXCEPT ![a] = Finish(t, Presence(FALSE, broke))]
      /\ UNCHANGED <<rec, stray, index, built, cand, plan>>

\* The thesis of a zone admits one live plan, save for what module SetupLifecycle
\* shows.
ThesisFree(z) == \A m \in Matches : plan[m].state = "live" => plan[m].zone # z

Publish(a) ==
  LET t == task[a]
  IN  /\ At(a, "publish")
      /\ \/ /\ plan[t.match].state = "none" /\ ThesisFree(t.zone)
            /\ plan' = [plan EXCEPT ![t.match] = [state |-> "live", zone |-> t.zone]]
            /\ Go(a, "lockcheck")
         \/ /\ plan[t.match].state = "live"       \* duplicate, reconciled
            /\ Go(a, "lockcheck")
            /\ UNCHANGED plan
         \/ /\ plan[t.match].state # "live"       \* refused for now, or for good
            /\ task' = [task EXCEPT ![a] = Finish(t, Presence(FALSE, FALSE))]
            /\ UNCHANGED plan
         \/ /\ plan[t.match].state # "live"
            /\ Go(a, "terminalize")
            /\ UNCHANGED plan
      /\ UNCHANGED <<rec, stray, index, built, cand>>

LockCheck(a) ==
  LET t == task[a]
      r == rec[t.zone]
  IN  /\ At(a, "lockcheck")
      /\ task' = [task EXCEPT ![a] =
           IF r = None \/ r.state \in Terminal \cup Locked THEN Resting
           ELSE Finish([t EXCEPT !.seen = {}], Lock(t.match))]
      /\ UNCHANGED <<rec, stray, index, built, cand, plan>>

----------------------------------------------------------------------------
(* Executor events and their delivery.                                      *)

PlanOutcomes == {"order_filled", "plan_rejected", "plan_expired", "plan_cancelled"}
CardTerminal == {"rejected", "invalidated", "expired", "cancelled"}

PlanEnds(m) ==
  /\ plan[m].state = "live"
  /\ plan' = [plan EXCEPT ![m].state = "ended"]
  /\ UNCHANGED <<rec, stray, index, built, cand, task>>

\* What an outcome makes of a locked zone.
Outcome(type, r) ==
  CASE type \in {"order_filled", "opened"} -> [r EXCEPT !.state = "consumed"]
    [] type = "plan_rejected"              -> [r EXCEPT !.state = "watching_retest"]
    [] OTHER                               -> r

\* Reject, invalidate, expire and cancel end at the card, before the zone is
\* looked at; an event without a zone, or for a zone that is not locked, too.
Reaches(type, z) ==
  /\ type \notin CardTerminal
  /\ z # None
  /\ rec[z] # None
  /\ rec[z].state \in Locked

ApplyOutcome(type, z) ==
  IF Reaches(type, z)
  THEN Written(z, Outcome(type, rec[z])) /\ task' = Outdated(z)
  ELSE UNCHANGED <<rec, stray, index, task>>

\* The events of a TradePlan name its structure, never the watched zone.
DeliverPlanEvent(m) ==
  /\ plan[m].state = "ended"
  /\ plan' = [plan EXCEPT ![m].state = "over"]
  /\ \E type \in PlanOutcomes : ApplyOutcome(type, None)
  /\ UNCHANGED <<built, cand>>

\* An event of the older candidate pipeline carries the id of its zone.
DeliverCandidateEvent(z) ==
  /\ \E type \in {"opened", "rejected"} : ApplyOutcome(type, z)
  /\ UNCHANGED <<built, cand, plan>>

----------------------------------------------------------------------------
(* A Redis or broker error ends the handler, a restart all of them.         *)
Abort(a) ==
  /\ ~At(a, "idle")
  /\ task' = [task EXCEPT ![a] = Resting]
  /\ UNCHANGED <<rec, stray, index, built, cand, plan>>

Work(a) ==
  \/ Load(a) \/ Save(a)
  \/ Scan(a) \/ Rebuild(a) \/ Join(a) \/ Unlist(a) \/ Reread(a) \/ Fetch(a) \/ Repair(a) \/ Commit(a)
  \/ Members(a) \/ Mget(a) \/ Evict(a) \/ Pick(a) \/ Quote(a)
  \/ Gates(a) \/ Verdict(a) \/ Recheck(a) \/ Terminalize(a) \/ Activate(a) \/ Publish(a) \/ LockCheck(a)

Next ==
  \/ \E a \in Tasks : Work(a) \/ Evaluate(a) \/ Sync(a) \/ Abort(a)
  \/ \E m \in Matches : PlanEnds(m) \/ DeliverPlanEvent(m)
  \/ \E z \in Zones : DeliverCandidateEvent(z)
  \/ MarkerExpires

Spec == Init /\ [][Next]_vars

(* Fairness: the event loop runs every task it has started, quotes and bars *)
(* keep coming, markers run out and delivered events are handled.           *)
FairSpec ==
  /\ Spec
  /\ \A a \in Tasks : WF_vars(Work(a)) /\ WF_vars(Evaluate(a))
  /\ WF_vars(MarkerExpires)
  /\ \A m \in Matches : WF_vars(DeliverPlanEvent(m))

----------------------------------------------------------------------------
(* Properties.                                                              *)
\* Types of the records, the indexes, the plans and the tasks.
TypeOK ==
  /\ rec \in [Zones -> Records \cup {None}]
  /\ index \in [global : SUBSET Zones, symbol : SUBSET Zones]
  /\ built \in [global : BOOLEAN, symbol : BOOLEAN]
  /\ cand \in [Zones -> Matches \cup {None}]
  /\ plan \in [Matches -> [state : {"none", "live", "ended", "over"}, zone : Zones \cup {None}]]
  /\ task \in [Tasks -> TaskType]
  /\ stray \subseteq Zones

\* A zone that was consumed, invalidated or expired stays as it is: a task
\* that loaded it while it was open cannot write over the end another task
\* gave it (_CAS_SAVE_LUA, transition_zone_watch).
EndedZoneStays ==
  [][\A z \in Zones : rec[z] # None /\ rec[z].state \in Terminal => rec'[z] = rec[z]]_vars

\* Nobody forgets a retest: rediscovery by the scanner and concurrent visits
\* of the spot loop never lower the touch count, restore a dropped grade or
\* remove the record (discover_zone_watch, record_zone_presence).
RetestMemoryKept ==
  [][\A z \in Zones : rec[z] # None =>
       /\ rec'[z] # None
       /\ rec'[z].touches >= rec[z].touches
       /\ rec[z].grade = "B" => rec'[z].grade = "B"]_vars

\* A listing, its repair or a rebuild that works on what it read some time ago
\* takes no zone out of an index that is watched: what is saved, and what another
\* task lists meanwhile, stays listed (list_active_zone_watches,
\* _ensure_symbol_zone_watch_index, _rebuild_zone_watch_index).
WatchedStaysListed ==
  [][\A k \in DOMAIN index : \A z \in index[k] :
       Wanted(rec'[z]) => z \in index'[k]]_vars

\* While the marker says the symbol index was rebuilt, it lists every watched
\* zone that the global index named at the start, that was saved since, or that
\* a rebuild is done with, whatever was saved or listed while the repair was
\* under way (_ensure_symbol_zone_watch_index).
MarkedIndexIsComplete ==
  built.symbol => \A z \in Zones \ stray : Wanted(rec[z]) => z \in index.symbol

----------------------------------------------------------------------------
(* What the code's text says and the code does not keep.                    *)

\* The same of every watched zone: restored data in no index is found by the
\* rebuild (zone_watch.py:401-406).  But the rebuild claims its marker before it
\* scans, so a second listing meanwhile, or one after a scan that was cut off,
\* marks the symbol index without the zones the scan has not reached, and the
\* rebuild does not run at all while the global index names any zone.
MarkedIndexListsAll ==
  built.symbol => \A z \in Zones : Wanted(rec[z]) => z \in index.symbol

\* Once the plan of a locked zone is over and its event was delivered, the
\* zone is consumed or armed again (_apply_zone_watch_outcome_from_event).
\* Its events carry no zone id, so it stays locked: the run expects this to
\* be violated.
LockedZoneSettles ==
  LET locked(z) == rec[z] # None /\ rec[z].state \in Locked
  IN  \A z \in Zones : locked(z) /\ plan[rec[z].plan].state = "over" ~> ~locked(z)
=============================================================================
