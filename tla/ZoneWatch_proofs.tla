--------------------------- MODULE ZoneWatch_proofs ---------------------------
(* Proofs about ZoneWatch for any set of zones and of strategy matches.       *)
(*                                                                            *)
(* The end of a zone is final because a write is refused unless the record is *)
(* still the one that was loaded, and an operation that would leave a         *)
(* terminal state raised, or was found idle, when it was computed.            *)
EXTENDS ZoneWatch, TLAPS

Fields == {"pc", "zone", "op", "then", "snap", "fresh", "seen", "drop", "place", "match",
           "sync"}

(* A task whose load is up to date is about to save; what it loaded is the    *)
(* record, and the operation has something to write on it.                    *)
UpToDate(t) ==
  /\ t.pc = "save"
  /\ t.zone \in Zones => t.snap = rec[t.zone]
  /\ ~Raises(t.op, t.snap)
  /\ t.snap # None => ~Idle(t.op, t.snap)

FreshInv ==
  /\ DOMAIN rec = Zones /\ DOMAIN task = Tasks
  /\ \A a \in Tasks : DOMAIN task[a] = Fields /\ (task[a].fresh => UpToDate(task[a]))

LEMMA FreshInit == Init => FreshInv
BY DEF Init, FreshInv, Resting, Fields

-----------------------------------------------------------------------------
(* What a terminal record admits: nothing.                                    *)
LEMMA TerminalKept ==
  ASSUME NEW op, NEW r, r # None, r.state \in Terminal, ~Raises(op, r), ~Idle(op, r)
  PROVE  Applied(op, r) = r
<1>1. r.state \in States /\ Transitions[r.state] = {}
  BY DEF Terminal, States, Transitions
<1>2. op.kind # "move"
  BY <1>1 DEF Raises, Idle
<1>3. op.kind # "presence"
  BY DEF Idle
<1> QED
  BY <1>2, <1>3 DEF Applied

(* The ways a task goes on.                                                   *)
LEMMA Ways ==
  ASSUME NEW t, DOMAIN t = Fields
  PROVE  /\ DOMAIN NextZone(t) = Fields /\ ~NextZone(t).fresh
         /\ DOMAIN Resting = Fields /\ ~Resting.fresh
         /\ \A op, then : DOMAIN Begin(t, op, then) = Fields /\ ~Begin(t, op, then).fresh
         /\ \A op : DOMAIN Finish(t, op) = Fields /\ ~Finish(t, op).fresh
         /\ \A pc : /\ DOMAIN Turn(t, pc) = Fields
                    /\ Turn(t, pc).fresh = t.fresh
<1>1. DOMAIN NextZone(t) = Fields /\ ~NextZone(t).fresh
  BY DEF NextZone, Resting, Fields
<1>2. DOMAIN Resting = Fields /\ ~Resting.fresh
  BY DEF Resting, Fields
<1>3. \A op, then : DOMAIN Begin(t, op, then) = Fields /\ ~Begin(t, op, then).fresh
  BY DEF Begin, Fields
<1>4. \A op : DOMAIN Finish(t, op) = Fields /\ ~Finish(t, op).fresh
  BY DEF Finish, Begin, Fields
<1>5. \A pc : DOMAIN Turn(t, pc) = Fields /\ Turn(t, pc).fresh = t.fresh
  BY DEF Turn, Fields
<1> QED
  BY <1>1, <1>2, <1>3, <1>4, <1>5

LEMMA AfterWays ==
  ASSUME NEW t, DOMAIN t = Fields, ~t.fresh, NEW r
  PROVE  DOMAIN After(t, r) = Fields /\ ~After(t, r).fresh
<1> DEFINE u == [t EXCEPT !.place = "outside"]
<1>1. DOMAIN u = Fields /\ u.fresh = t.fresh
  BY DEF Fields
<1>2. \/ After(t, r) = NextZone(t)
      \/ \E op, then : After(t, r) = Begin(t, op, then)
      \/ \E op : After(t, r) = Finish(t, op)
      \/ \E pc : After(t, r) = Turn(t, pc) \/ After(t, r) = Turn(u, pc)
  <2>1. CASE t.then = "next"
    BY <2>1 DEF After
  <2>2. CASE t.then = "watch"
    BY <2>2 DEF After
  <2>3. CASE t.then = "candidate"
    BY <2>3 DEF After
  <2>4. CASE t.then = "gates"
    BY <2>4 DEF After
  <2>5. CASE t.then \notin {"next", "watch", "candidate", "gates"}
    BY <2>5 DEF After
  <2> QED
    BY <2>1, <2>2, <2>3, <2>4, <2>5
<1> HIDE DEF u
<1>3. \A pc : DOMAIN Turn(u, pc) = Fields /\ Turn(u, pc).fresh = t.fresh
  BY <1>1, Ways
<1> QED
  BY <1>2, <1>3, Ways

(* A step of one task to n, which is not up to date, with the records kept.   *)
LEMMA PlainStep ==
  ASSUME FreshInv, NEW a \in Tasks, NEW n, DOMAIN n = Fields, ~n.fresh,
         task' = [task EXCEPT ![a] = n], rec' = rec
  PROVE  FreshInv'
BY DEF FreshInv, UpToDate

-----------------------------------------------------------------------------
(* Every write                                                                *)

LEMMA LoadStep == ASSUME FreshInv, NEW a \in Tasks, Load(a) PROVE FreshInv'
<1> DEFINE t == task[a]
           r == rec[t.zone]
           s == [t EXCEPT !.snap = r]
           n == [t EXCEPT !.pc = "save", !.snap = r, !.fresh = TRUE]
<1>1. t.pc = "load" /\ DOMAIN t = Fields /\ ~t.fresh /\ rec' = rec
  BY DEF Load, At, FreshInv, UpToDate
<1>2. DOMAIN s = Fields /\ ~s.fresh
  BY <1>1 DEF Fields
<1>3. CASE Raises(t.op, r) \/ (r # None /\ Idle(t.op, r))
  <2>1. \/ task' = [task EXCEPT ![a] = NextZone(t)]
        \/ task' = [task EXCEPT ![a] = Resting]
        \/ task' = [task EXCEPT ![a] = After(s, r)]
    BY <1>3 DEF Load
  <2> HIDE DEF t, r, s, n
  <2> QED
    BY <1>1, <1>2, <2>1, Ways, AfterWays, PlainStep
<1>4. CASE ~Raises(t.op, r) /\ ~(r # None /\ Idle(t.op, r))
  <2>1. task' = [task EXCEPT ![a] = n]
    BY <1>4 DEF Load
  <2>2. /\ DOMAIN n = Fields /\ n.pc = "save" /\ n.snap = r
        /\ n.op = t.op /\ n.zone = t.zone
    BY <1>1 DEF Fields
  <2>3. UpToDate(n)
    BY <1>4, <2>2 DEF UpToDate
  <2> HIDE DEF n
  <2> QED
    BY <1>1, <2>1, <2>2, <2>3 DEF FreshInv, UpToDate
<1> QED
  BY <1>3, <1>4

(* A task made out of date by a write of zone z.                              *)
LEMMA OutdatedIs ==
  ASSUME FreshInv, NEW z, NEW b \in Tasks
  PROVE  /\ DOMAIN Outdated(z) = Tasks /\ DOMAIN Outdated(z)[b] = Fields
         /\ Outdated(z)[b].fresh => Outdated(z)[b] = task[b] /\ task[b].zone # z
<1>1. DOMAIN task[b] = Fields
  BY DEF FreshInv
<1>2. DOMAIN [task[b] EXCEPT !.fresh = FALSE] = Fields /\ ~[task[b] EXCEPT !.fresh = FALSE].fresh
  BY <1>1 DEF Fields
<1> QED
  BY <1>1, <1>2 DEF Outdated

(* A save is refused unless the load is up to date, and then every other load *)
(* of the zone is out of date.                                                *)
LEMMA SaveStep ==
  ASSUME FreshInv, NEW a \in Tasks, Save(a)
  PROVE  /\ FreshInv'
         /\ \A z \in Zones : rec[z] # None /\ rec[z].state \in Terminal => rec'[z] = rec[z]
<1> DEFINE t == task[a]
           r == Applied(t.op, t.snap)
           s == [t EXCEPT !.fresh = FALSE]
<1>1. t.pc = "save" /\ DOMAIN t = Fields
  BY DEF Save, At, FreshInv
<1>2. CASE Current(a)
  <2>1. /\ Written(t.zone, r)
        /\ task' = [Outdated(t.zone) EXCEPT ![a] = After(s, r)]
    BY <1>2 DEF Save
  <2>2. rec' = [rec EXCEPT ![t.zone] = r]
    BY <2>1 DEF Written
  <2>3. UpToDate(t)
    BY <1>2 DEF Current, FreshInv
  <2>4. DOMAIN s = Fields /\ ~s.fresh
    BY <1>1 DEF Fields
  <2>5. ASSUME NEW z \in Zones, rec[z] # None, rec[z].state \in Terminal
        PROVE  rec'[z] = rec[z]
    <3>1. CASE z = t.zone
      <4>1. r = t.snap /\ t.snap = rec[z]
        BY <2>3, <2>5, <3>1, TerminalKept DEF UpToDate
      <4> QED
        BY <2>2, <3>1, <4>1 DEF FreshInv
    <3>2. CASE z # t.zone
      BY <2>2, <3>2 DEF FreshInv
    <3> QED
      BY <3>1, <3>2
  <2> HIDE DEF r, s
  <2>6. /\ DOMAIN task' = Tasks /\ DOMAIN rec' = Zones
        /\ DOMAIN task'[a] = Fields /\ ~task'[a].fresh
        /\ \A b \in Tasks \ {a} : task'[b] = Outdated(t.zone)[b]
    BY <2>1, <2>2, <2>4, AfterWays, OutdatedIs DEF FreshInv
  <2>7. ASSUME NEW b \in Tasks, task'[b].fresh
        PROVE  UpToDate(task[b])'
    <3>1. b # a /\ task'[b] = task[b] /\ task[b].fresh /\ task[b].zone # t.zone
      BY <2>6, <2>7, OutdatedIs
    <3>2. task[b].zone \in Zones => rec'[task[b].zone] = rec[task[b].zone]
      BY <2>2, <3>1 DEF FreshInv
    <3> QED
      BY <3>1, <3>2 DEF FreshInv, UpToDate
  <2>8. FreshInv'
    BY <2>6, <2>7, OutdatedIs DEF FreshInv
  <2> QED
    BY <2>5, <2>8
<1>3. CASE ~Current(a)
  <2> DEFINE n == [t EXCEPT !.pc = "load", !.snap = None]
  <2>1. task' = [task EXCEPT ![a] = n] /\ rec' = rec
    BY <1>1, <1>3 DEF Save, FreshInv
  <2>2. DOMAIN n = Fields /\ ~n.fresh
    BY <1>1, <1>3 DEF Fields, Current
  <2> HIDE DEF n
  <2> QED
    BY <2>1, <2>2, PlainStep
<1> QED
  BY <1>2, <1>3

(* An outcome is applied to a locked zone only.                               *)
LEMMA OutcomeStep ==
  ASSUME FreshInv, NEW type, NEW z, ApplyOutcome(type, z)
  PROVE  /\ FreshInv'
         /\ \A y \in Zones : rec[y] # None /\ rec[y].state \in Terminal => rec'[y] = rec[y]
<1>1. CASE Reaches(type, z)
  <2> DEFINE r == Outcome(type, rec[z])
  <2>1. rec' = [rec EXCEPT ![z] = r] /\ task' = Outdated(z)
    BY <1>1 DEF ApplyOutcome, Written
  <2>2. rec[z].state \notin Terminal
    BY <1>1 DEF Reaches, Locked, Terminal
  <2> HIDE DEF r
  <2>3. \A y \in Zones \ {z} : rec'[y] = rec[y]
    BY <2>1 DEF FreshInv
  <2>4. ASSUME NEW b \in Tasks, task'[b].fresh
        PROVE  UpToDate(task[b])'
    <3>1. task'[b] = task[b] /\ task[b].fresh /\ task[b].zone # z
      BY <2>1, <2>4, OutdatedIs
    <3> QED
      BY <2>3, <3>1 DEF FreshInv, UpToDate
  <2>5. DOMAIN rec' = Zones /\ DOMAIN task' = Tasks /\ \A b \in Tasks : DOMAIN task'[b] = Fields
    BY <2>1, OutdatedIs DEF FreshInv, Outdated
  <2>6. FreshInv'
    BY <2>4, <2>5 DEF FreshInv
  <2> QED
    BY <2>2, <2>3, <2>6
<1>2. CASE ~Reaches(type, z)
  BY <1>2 DEF ApplyOutcome, FreshInv, UpToDate
<1> QED
  BY <1>1, <1>2

-----------------------------------------------------------------------------
(* Every other step keeps the records and leaves no load up to date.          *)
LEMMA SameStep == ASSUME FreshInv, UNCHANGED <<rec, stray, task>> PROVE FreshInv'
BY DEF FreshInv, UpToDate

Reading(a) ==
  \/ Scan(a) \/ Rebuild(a) \/ Join(a) \/ Unlist(a) \/ Reread(a) \/ Fetch(a) \/ Repair(a) \/ Commit(a)
  \/ Members(a) \/ Mget(a) \/ Evict(a) \/ Evaluate(a)

LEMMA ReadingStep == ASSUME FreshInv, NEW a \in Tasks, Reading(a) PROVE FreshInv'
<1> DEFINE t == task[a]
           n == task'[a]
<1>1. DOMAIN task = Tasks /\ DOMAIN t = Fields /\ (t.fresh => t.pc = "save") /\ rec' = rec
  BY DEF FreshInv, UpToDate, Reading, Scan, Rebuild, Join, Unlist, Reread, Fetch, Repair, Commit, Members,
         Mget, Evict, Evaluate
<1>2. ~t.fresh
  BY <1>1 DEF Reading, Scan, Rebuild, Join, Unlist, Reread, Fetch, Repair, Commit, Members, Mget, Evict,
              Evaluate, At
<1>3. /\ task' = [task EXCEPT ![a] = n]
      /\ DOMAIN n = Fields /\ ~n.fresh
  <2>1. CASE Evaluate(a)
    BY <1>1, <1>2, <2>1 DEF Evaluate, Go, Fields
  <2>2. CASE Scan(a) \/ Rebuild(a) \/ Join(a) \/ Unlist(a) \/ Reread(a)
    BY <1>1, <1>2, <2>2 DEF Scan, Rebuild, Join, Unlist, Reread, Go, Fields
  <2>3. CASE Fetch(a) \/ Mget(a)
    BY <1>1, <1>2, <2>3 DEF Fetch, Mget, Fields
  <2>4. CASE Repair(a) \/ Commit(a)
    BY <1>1, <1>2, <2>4 DEF Repair, Commit, Fields
  <2>5. CASE Members(a) \/ Evict(a)
    BY <1>1, <1>2, <2>5 DEF Members, Evict, Fields
  <2> QED
    BY <2>1, <2>2, <2>3, <2>4, <2>5 DEF Reading
<1> HIDE DEF n
<1> QED
  BY <1>1, <1>3, PlainStep

Visiting(a) ==
  \/ Pick(a) \/ Quote(a) \/ Gates(a) \/ Verdict(a) \/ Recheck(a) \/ Terminalize(a)
  \/ Activate(a) \/ Publish(a) \/ LockCheck(a) \/ Sync(a) \/ Abort(a)

LEMMA VisitingStep == ASSUME FreshInv, NEW a \in Tasks, Visiting(a) PROVE FreshInv'
<1> DEFINE t == task[a]
           n == task'[a]
<1>1. DOMAIN task = Tasks /\ DOMAIN t = Fields /\ (t.fresh => t.pc = "save") /\ rec' = rec
  BY DEF FreshInv, UpToDate, Visiting, Pick, Quote, Gates, Verdict, Recheck, Terminalize,
         Activate, Publish, LockCheck, Sync, Abort
<1>2. ~Abort(a) => ~t.fresh
  BY <1>1 DEF Visiting, Pick, Quote, Gates, Verdict, Recheck, Terminalize, Activate, Publish,
              LockCheck, Sync, At
<1>3. /\ task' = [task EXCEPT ![a] = n]
      /\ DOMAIN n = Fields /\ ~n.fresh
  <2>1. CASE Abort(a)
    BY <1>1, <2>1, Ways DEF Abort
  <2>2. CASE Gates(a) /\ ~Abort(a)
    BY <1>1, <1>2, <2>2, Ways DEF Gates, Go, Fields
  <2>3. CASE Verdict(a) /\ ~Abort(a)
    BY <1>1, <1>2, <2>3, Ways DEF Verdict, Go, Fields
  <2>4. CASE Recheck(a) /\ ~Abort(a)
    BY <1>1, <1>2, <2>4, Ways DEF Recheck
  <2>5. CASE Terminalize(a) /\ ~Abort(a)
    BY <1>1, <1>2, <2>5, Ways DEF Terminalize
  <2>6. CASE Activate(a) /\ ~Abort(a)
    <3>1. CASE Go(a, "publish")
      BY <1>1, <1>2, <2>6, <3>1 DEF Go, Fields
    <3>2. ASSUME NEW op, task' = [task EXCEPT ![a] = Finish(t, op)]
          PROVE  task' = [task EXCEPT ![a] = n] /\ DOMAIN n = Fields /\ ~n.fresh
      <4>1. DOMAIN Finish(t, op) = Fields /\ ~Finish(t, op).fresh
        BY <1>1, Ways
      <4> QED
        BY <1>1, <3>2, <4>1
    <3> QED
      BY <2>6, <3>1, <3>2 DEF Activate
  <2>7. CASE Publish(a) /\ ~Abort(a)
    <3>1. CASE \E pc : Go(a, pc)
      BY <1>1, <1>2, <2>7, <3>1 DEF Publish, Go, Fields
    <3>2. ASSUME NEW op, task' = [task EXCEPT ![a] = Finish(t, op)]
          PROVE  task' = [task EXCEPT ![a] = n] /\ DOMAIN n = Fields /\ ~n.fresh
      <4>1. DOMAIN Finish(t, op) = Fields /\ ~Finish(t, op).fresh
        BY <1>1, Ways
      <4> QED
        BY <1>1, <3>2, <4>1
    <3> QED
      BY <2>7, <3>1, <3>2 DEF Publish
  <2>8. CASE LockCheck(a) /\ ~Abort(a)
    <3>1. DOMAIN [t EXCEPT !.seen = {}] = Fields
      BY <1>1
    <3> QED
      BY <1>1, <1>2, <2>8, <3>1, Ways DEF LockCheck
  <2>9. CASE Quote(a) /\ ~Abort(a)
    <3>1. PICK p, broke : task' = [task EXCEPT ![a] =
             Begin([t EXCEPT !.place = p], Presence(p = "reach", broke), "gates")]
      BY <2>9 DEF Quote
    <3>2. DOMAIN [t EXCEPT !.place = p] = Fields
      BY <1>1
    <3> QED
      BY <1>1, <3>1, <3>2, Ways
  <2>10. CASE Sync(a) /\ ~Abort(a)
    <3>1. PICK z, m :
            LET s == [Resting EXCEPT !.zone = z, !.match = m, !.sync = TRUE]
            IN  \/ \E g : task' = [task EXCEPT ![a] = Begin(s, Discover(g), "watch")]
                \/ task' = [task EXCEPT ![a] = [s EXCEPT !.pc = "recheck"]]
      BY <2>10 DEF Sync
    <3> DEFINE s == [Resting EXCEPT !.zone = z, !.match = m, !.sync = TRUE]
    <3>2. DOMAIN s = Fields /\ ~s.fresh
      BY DEF Resting, Fields
    <3>3. \/ \E g : task' = [task EXCEPT ![a] = Begin(s, Discover(g), "watch")]
          \/ task' = [task EXCEPT ![a] = [s EXCEPT !.pc = "recheck"]]
      BY <3>1
    <3> HIDE DEF s
    <3>4. DOMAIN [s EXCEPT !.pc = "recheck"] = Fields /\ ~[s EXCEPT !.pc = "recheck"].fresh
      BY <3>2 DEF Fields
    <3>5. \A op, then : DOMAIN Begin(s, op, then) = Fields /\ ~Begin(s, op, then).fresh
      BY <3>2, Ways
    <3>6. CASE task' = [task EXCEPT ![a] = [s EXCEPT !.pc = "recheck"]]
      BY <1>1, <3>4, <3>6
    <3>7. CASE \E g : task' = [task EXCEPT ![a] = Begin(s, Discover(g), "watch")]
      BY <1>1, <3>5, <3>7
    <3> QED
      BY <3>3, <3>6, <3>7
  <2>11. CASE Pick(a) /\ ~Abort(a)
    <3>1. CASE task' = [task EXCEPT ![a] = Resting]
      BY <1>1, <3>1, Ways
    <3>2. CASE \E z \in t.seen, p \in Places, broke, old \in BOOLEAN :
             LET s == [t EXCEPT !.zone = z, !.seen = @ \ {z}, !.place = p]
             IN  task' = [task EXCEPT ![a] =
                   IF p = "far"
                   THEN IF old THEN Finish(s, Move("expired")) ELSE NextZone(s)
                   ELSE IF cand[z] = None THEN NextZone(s)
                   ELSE Begin([s EXCEPT !.match = cand[z]], Presence(p = "reach", broke), "gates")]
      <4>1. PICK z \in t.seen, p \in Places, broke \in BOOLEAN, old \in BOOLEAN :
             LET s == [t EXCEPT !.zone = z, !.seen = @ \ {z}, !.place = p]
             IN  task' = [task EXCEPT ![a] =
                   IF p = "far"
                   THEN IF old THEN Finish(s, Move("expired")) ELSE NextZone(s)
                   ELSE IF cand[z] = None THEN NextZone(s)
                   ELSE Begin([s EXCEPT !.match = cand[z]], Presence(p = "reach", broke), "gates")]
        BY <3>2
      <4> DEFINE s == [t EXCEPT !.zone = z, !.seen = @ \ {z}, !.place = p]
                 b == [s EXCEPT !.match = cand[z]]
      <4>2. DOMAIN s = Fields
        BY <1>1
      <4>3. \/ task' = [task EXCEPT ![a] = Finish(s, Move("expired"))]
            \/ task' = [task EXCEPT ![a] = NextZone(s)]
            \/ task' = [task EXCEPT ![a] = Begin(b, Presence(p = "reach", broke), "gates")]
        BY <4>1
      <4> HIDE DEF s
      <4>4. DOMAIN b = Fields
        BY <4>2
      <4> HIDE DEF b
      <4>5. /\ DOMAIN Finish(s, Move("expired")) = Fields /\ ~Finish(s, Move("expired")).fresh
            /\ DOMAIN NextZone(s) = Fields /\ ~NextZone(s).fresh
        BY <4>2, Ways
      <4>6. \A op, then : DOMAIN Begin(b, op, then) = Fields /\ ~Begin(b, op, then).fresh
        BY <4>4, Ways
      <4> QED
        BY <1>1, <4>3, <4>5, <4>6
    <3> QED
      BY <2>11, <3>1, <3>2 DEF Pick
  <2> QED
    BY <2>1, <2>2, <2>3, <2>4, <2>5, <2>6, <2>7, <2>8, <2>9, <2>10, <2>11 DEF Visiting
<1> HIDE DEF n
<1> QED
  BY <1>1, <1>3, PlainStep

LEMMA FreshStep ==
  ASSUME FreshInv, [Next]_vars
  PROVE  /\ FreshInv'
         /\ \A z \in Zones : rec[z] # None /\ rec[z].state \in Terminal => rec'[z] = rec[z]
<1>1. ASSUME FreshInv', rec' = rec
      PROVE  /\ FreshInv'
             /\ \A z \in Zones : rec[z] # None /\ rec[z].state \in Terminal => rec'[z] = rec[z]
  BY <1>1
<1>2. ASSUME NEW a \in Tasks, Load(a)
      PROVE  FreshInv' /\ rec' = rec
  BY <1>2, LoadStep DEF Load
<1>3. ASSUME NEW a \in Tasks, Reading(a)
      PROVE  FreshInv' /\ rec' = rec
  BY <1>3, ReadingStep DEF Reading, Scan, Rebuild, Join, Unlist, Reread, Fetch, Repair, Commit, Members,
                           Mget, Evict, Evaluate
<1>4. ASSUME NEW a \in Tasks, Visiting(a)
      PROVE  FreshInv' /\ rec' = rec
  BY <1>4, VisitingStep DEF Visiting, Pick, Quote, Gates, Verdict, Recheck, Terminalize,
                            Activate, Publish, LockCheck, Sync, Abort
<1>5. ASSUME NEW m \in Matches, PlanEnds(m)
      PROVE  FreshInv' /\ rec' = rec
  BY <1>5, SameStep DEF PlanEnds
<1>6. CASE MarkerExpires \/ UNCHANGED vars
  BY <1>1, <1>6, SameStep DEF MarkerExpires, vars
<1>7. CASE \E m \in Matches : DeliverPlanEvent(m)
  BY <1>7, OutcomeStep DEF DeliverPlanEvent
<1>8. CASE \E z \in Zones : DeliverCandidateEvent(z)
  BY <1>8, OutcomeStep DEF DeliverCandidateEvent
<1>9. CASE \E a \in Tasks : Save(a)
  BY <1>9, SaveStep
<1>10. CASE \E a \in Tasks : Work(a) \/ Evaluate(a) \/ Sync(a) \/ Abort(a)
  BY <1>1, <1>2, <1>3, <1>4, <1>9, <1>10 DEF Work, Reading, Visiting
<1> QED
  BY <1>1, <1>5, <1>6, <1>7, <1>8, <1>10 DEF Next

(* A zone that was consumed, invalidated or expired stays as it is, whoever   *)
(* had loaded it before (_CAS_SAVE_LUA, transition_zone_watch).               *)
THEOREM EndsAreFinal == Spec => EndedZoneStays
<1>1. FreshInv /\ [Next]_vars =>
        [\A z \in Zones : rec[z] # None /\ rec[z].state \in Terminal => rec'[z] = rec[z]]_vars
  BY FreshStep
<1>2. FreshInv /\ [Next]_vars => FreshInv'
  BY FreshStep
<1> QED
  BY FreshInit, <1>1, <1>2, PTL DEF Spec, EndedZoneStays

-----------------------------------------------------------------------------
(* The index.  A zone that is locked or ended is never watched again, so the  *)
(* zones a listing drops (drop) need no second look; a zone that is watched   *)
(* and no stray is in the global index, and a repair under way misses only    *)
(* zones that a write puts in the symbol index meanwhile.                     *)
(*                                                                            *)
(* What keeps a locked zone from being watched again is the order in which    *)
(* the scanner works: it stores the match of a zone (cand) after the write    *)
(* that makes a new zone wait for its retest, and only a zone with a match is *)
(* ever locked.                                                               *)

Known(rc)   == {z \in Zones : rc[z] # None}
Closed(rc)  == {z \in Known(rc) : rc[z].state \in Terminal \cup Locked}
Watched(rc) == {z \in Zones : Wanted(rc[z])}
\* What the indexes are to name: all that is watched but the zones st.
Listable(rc, st) == Watched(rc) \ st

Visit   == {"gates", "verdict", "activate", "publish", "lockcheck"}
Writing == {"load", "save"}
OnZone  == Visit \cup Writing \cup {"quote", "recheck", "terminalize"}

Moves(t, to) == t.op.kind = "move" /\ t.op.to = to

\* Task a with the record t, when the records are rc, the saved matches cd and
\* the indexes ix.
Sound(a, t, rc, cd, ix, st) ==
  /\ t \in TaskType
  /\ t.pc \in OnZone => t.zone \in Zones
  /\ t.pc \in {"quote", "rebuild", "join"} => t.zone \in Known(rc)
  /\ t.pc = "join" => t.zone \in ix.global \cup Closed(rc)
  /\ t.pc = "unlist" => t.zone \in Closed(rc)
  /\ t.pc = "quote" \/ (t.pc \in Writing /\ t.then \in {"watch", "candidate"}) =>
       a = "bar" /\ t.match \in Matches
  /\ t.pc \in Visit \/ (t.pc \in Writing /\ t.then \in {"gates", "verdict"}) =>
       t.match \in Matches /\ cd[t.zone] # None
  /\ t.pc \in Writing =>
       /\ t.then = "candidate" => cd[t.zone] = None
       /\ Moves(t, "watching_retest") => t.then = "candidate"
       /\ Moves(t, "published_locked") => cd[t.zone] # None
       /\ t.op.kind = "move" => t.op.to \in Terminal \cup Locked \cup {"watching_retest"}
  /\ t.seen \subseteq Known(rc) /\ t.drop \subseteq Closed(rc)
  /\ t.pc \in {"fetch", "repair"} => Listable(rc, st) \subseteq t.seen \cup ix.symbol
  /\ t.pc = "commit" => Listable(rc, st) \subseteq ix.symbol

WorldOK ==
  /\ rec \in [Zones -> Records \cup {None}]
  /\ index \in [global : SUBSET Zones, symbol : SUBSET Zones]
  /\ built \in [global : BOOLEAN, symbol : BOOLEAN]
  /\ cand \in [Zones -> Matches \cup {None}]
  /\ plan \in [Matches -> [state : {"none", "live", "ended", "over"}, zone : Zones \cup {None}]]
  /\ \A z \in Closed(rec) : rec[z].state \in Locked => cand[z] # None
  /\ \A z \in Zones : cand[z] # None => z \in Known(rec)
  /\ stray \subseteq Zones
  /\ Listable(rec, stray) \subseteq index.global
  /\ index.global \cup index.symbol \subseteq Known(rec)
  /\ built.symbol => Listable(rec, stray) \subseteq index.symbol

ZoneInv ==
  /\ WorldOK /\ task \in [Tasks -> TaskType]
  /\ \A a \in Tasks : Sound(a, task[a], rec, cand, index, stray)

-----------------------------------------------------------------------------
(* Records and what an operation makes of them.                               *)

LEMMA KnownRecords ==
  ASSUME NEW r
  PROVE  /\ r \in Records => r # None
         /\ r \in Records /\ ~Wanted(r) => r.state \in Terminal \cup Locked
         /\ r \in Records /\ Wanted(r) => r.state \notin Terminal \cup Locked
BY NoneIsNoRecord DEF Records, Wanted

LEMMA EnteredTyped ==
  ASSUME NEW r \in Records, NEW broke \in BOOLEAN
  PROVE  /\ Entered(r) \in Records /\ Left(r, broke) \in Records
         /\ Entered(r).touches >= r.touches /\ Left(r, broke).touches = r.touches
         /\ r.grade = "B" => Entered(r).grade = "B" /\ Left(r, broke).grade = "B"
         /\ Entered(r).state = "evaluating"
         /\ Left(r, broke).state \in {"invalidated", "watching_retest"}
<1> DEFINE g == GradeFor(r.touches + 1, r.grade)
           n == IF r.touches < MaxTouches THEN r.touches + 1 ELSE r.touches
           s == IF broke THEN "invalidated" ELSE "watching_retest"
<1>1. /\ r.touches \in 0..MaxTouches /\ r.grade \in Grades
      /\ r.plan \in Matches \cup {None} /\ r.inside \in BOOLEAN
  BY DEF Records
<1>2. /\ n \in 0..MaxTouches /\ n >= r.touches /\ g \in Grades
      /\ r.grade = "B" => g = "B"
  BY <1>1, Bounds DEF GradeFor, Grades
<1>3. /\ Entered(r).state = "evaluating" /\ Entered(r).grade = g
      /\ Entered(r).touches = n
  BY DEF Entered, Records
<1>4. /\ Left(r, broke).state = s /\ Left(r, broke).grade = r.grade
      /\ Left(r, broke).touches = r.touches
  BY DEF Left, Records
<1>5. s \in {"invalidated", "watching_retest"}
  OBVIOUS
<1>6. Entered(r) \in Records
  BY <1>1, <1>2 DEF Entered, Records, States
<1>7. Left(r, broke) \in Records
  BY <1>1, <1>5 DEF Left, Records, States
<1> HIDE DEF g, n, s
<1> QED
  BY <1>1, <1>2, <1>3, <1>4, <1>5, <1>6, <1>7

(* An operation writes a record, forgets no touch and restores no grade.      *)
LEMMA AppliedKeeps ==
  ASSUME NEW op \in Ops, NEW r \in Records
  PROVE  /\ Applied(op, r) \in Records
         /\ Applied(op, r).touches >= r.touches
         /\ r.grade = "B" => Applied(op, r).grade = "B"
<1>1. r # None /\ r.touches \in Nat
  BY KnownRecords, Bounds DEF Records
<1>2. CASE op.kind = "move"
  <2>1. op.to \in States /\ op.plan \in Matches \cup {None}
    BY <1>2 DEF Ops
  <2>2. Applied(op, r) = IF op.plan # None
                         THEN [r EXCEPT !.state = op.to, !.plan = op.plan]
                         ELSE [r EXCEPT !.state = op.to]
    BY <1>2 DEF Applied
  <2> DEFINE n == Applied(op, r)
  <2>3. /\ n = [state |-> op.to, grade |-> r.grade, touches |-> r.touches,
                inside |-> r.inside, plan |-> IF op.plan # None THEN op.plan ELSE r.plan]
    BY <2>2 DEF Records
  <2> HIDE DEF n
  <2>4. n \in Records /\ n.touches = r.touches /\ n.grade = r.grade
    BY <2>1, <2>3 DEF Records
  <2> QED
    BY <1>1, <2>4 DEF n
<1>3. CASE op.kind = "presence"
  <2>1. op.in \in BOOLEAN /\ op.broke \in BOOLEAN
    BY <1>3 DEF Ops
  <2>2. Applied(op, r) = Present(r, op.in, op.broke)
    BY <1>3 DEF Applied
  <2>3. Present(r, op.in, op.broke) \in
          {r, [r EXCEPT !.state = IF r.state = "watching_retest" THEN "evaluating" ELSE r.state],
           Entered(r),
           [r EXCEPT !.state = IF r.state = "discovered" THEN "watching_retest" ELSE r.state],
           Left(r, op.broke)}
    BY DEF Present
  <2> QED
    BY <1>1, <2>1, <2>2, <2>3, EnteredTyped DEF Records, States
<1>4. CASE op.kind \notin {"move", "presence"}
  BY <1>1, <1>4 DEF Applied
<1> QED
  BY <1>2, <1>3, <1>4

LEMMA DiscoveredTyped ==
  ASSUME NEW g \in Grades
  PROVE  Discovered(g) \in Records /\ Discovered(g).state = "discovered"
BY Bounds DEF Discovered, Records, States

LEMMA AppliedTyped ==
  ASSUME NEW op \in Ops, NEW r \in Records \cup {None}, ~Raises(op, r)
  PROVE  Applied(op, r) \in Records
<1>1. CASE r \in Records
  BY <1>1, AppliedKeeps
<1>2. CASE r = None
  <2>1. op.kind = "discover" /\ op.grade \in Grades
    BY <1>2 DEF Raises, Ops
  <2> QED
    BY <1>2, <2>1, DiscoveredTyped DEF Applied
<1> QED
  BY <1>1, <1>2

(* A locked or ended zone stays locked or ended, unless it is told to wait    *)
(* for another retest.                                                        *)
LEMMA AppliedCloses ==
  ASSUME NEW op \in Ops, NEW r \in Records, r.state \in Terminal \cup Locked,
         ~Raises(op, r), ~Idle(op, r),
         op.kind = "move" => op.to # "watching_retest"
  PROVE  Applied(op, r).state \in Terminal \cup Locked
<1>1. CASE op.kind = "move"
  <2>1. op.to \in Transitions[r.state]
    BY <1>1, KnownRecords DEF Raises, Idle
  <2>2. op.to \in Terminal
    BY <1>1, <2>1 DEF Transitions, States, Terminal, Locked
  <2>3. Applied(op, r).state = op.to
    BY <1>1 DEF Applied, Records
  <2> QED
    BY <2>2, <2>3
<1>2. CASE op.kind # "move"
  BY <1>2, KnownRecords DEF Idle, Applied
<1> QED
  BY <1>1, <1>2

(* Only the operation that locks a zone locks it.                             *)
LEMMA AppliedLocks ==
  ASSUME NEW op \in Ops, NEW r \in Records \cup {None}, ~Raises(op, r),
         Applied(op, r).state \in Locked
  PROVE  \/ r # None /\ r.state \in Locked
         \/ op.kind = "move" /\ op.to = "published_locked"
<1>1. CASE op.kind = "move"
  <2>1. r \in Records
    BY <1>1 DEF Raises
  <2>2. Applied(op, r).state = op.to
    BY <1>1, <2>1 DEF Applied, Records
  <2> QED
    BY <1>1, <2>2 DEF Locked
<1>2. CASE op.kind = "presence"
  <2>1. r \in Records /\ op.in \in BOOLEAN /\ op.broke \in BOOLEAN
    BY <1>2 DEF Raises, Ops
  <2>2. Applied(op, r) = Present(r, op.in, op.broke)
    BY <1>2 DEF Applied
  <2>3. r.state \in Locked \/ Present(r, op.in, op.broke).state \notin Locked
    BY <2>1, EnteredTyped DEF Present, Locked, Records
  <2> QED
    BY <2>1, <2>2, <2>3, KnownRecords
<1>3. CASE op.kind \notin {"move", "presence"}
  <2>1. CASE r = None
    <3>1. op.kind = "discover" /\ op.grade \in Grades
      BY <2>1 DEF Raises, Ops
    <3> QED
      BY <2>1, <3>1, DiscoveredTyped DEF Applied, Locked
  <2>2. CASE r # None
    BY <1>3, <2>2 DEF Applied
  <2> QED
    BY <2>1, <2>2
<1> QED
  BY <1>1, <1>2, <1>3

-----------------------------------------------------------------------------
(* The records a task can be given.                                           *)

LEMMA OpsTyped ==
  /\ \A g \in Grades : Discover(g) \in Ops /\ Discover(g).kind = "discover"
  /\ \A in, broke \in BOOLEAN :
       Presence(in, broke) \in Ops /\ Presence(in, broke).kind = "presence"
  /\ \A to \in States :
       Move(to) \in Ops /\ Move(to).kind = "move" /\ Move(to).to = to
  /\ \A m \in Matches : /\ Lock(m) \in Ops /\ Lock(m).kind = "move"
                        /\ Lock(m).to = "published_locked"
  /\ Mark \in Ops /\ Mark.kind = "mark"
BY DEF Ops, Discover, Presence, Move, Lock, Mark, Grades, States

LEMMA RestingSound ==
  ASSUME NEW a, NEW rc, NEW cd, NEW ix, NEW st
  PROVE  Sound(a, Resting, rc, cd, ix, st)
<1>1. Resting \in TaskType
  BY OpsTyped DEF Resting, TaskType, Steps, Thens, Places
<1>2. /\ Resting.pc = "idle" /\ Resting.seen = {} /\ Resting.drop = {}
      /\ Resting.then = "next"
  BY DEF Resting
<1> QED
  BY <1>1, <1>2 DEF Sound, OnZone, Visit, Writing

LEMMA NextZoneSound ==
  ASSUME NEW a, NEW t \in TaskType, NEW rc, NEW cd, NEW ix, NEW st, t.seen \subseteq Known(rc)
  PROVE  Sound(a, NextZone(t), rc, cd, ix, st)
<1>1. CASE t.sync
  BY <1>1, RestingSound DEF NextZone
<1>2. CASE ~t.sync
  <2> DEFINE n == [Resting EXCEPT !.pc = "pick", !.seen = t.seen]
  <2>1. n \in TaskType
    BY OpsTyped DEF Resting, TaskType, Steps, Thens, Places
  <2>2. n.pc = "pick" /\ n.seen = t.seen /\ n.drop = {} /\ n.then = "next"
    BY DEF Resting
  <2>3. NextZone(t) = n
    BY <1>2 DEF NextZone
  <2> HIDE DEF n
  <2> QED
    BY <2>1, <2>2, <2>3 DEF Sound, OnZone, Visit, Writing
<1> QED
  BY <1>1, <1>2

LEMMA BeginIs ==
  ASSUME NEW t \in TaskType, NEW op \in Ops, NEW then \in Thens
  PROVE  LET n == Begin(t, op, then)
         IN  /\ n \in TaskType /\ n.pc = "load" /\ n.op = op /\ n.then = then
             /\ n.zone = t.zone /\ n.match = t.match
             /\ n.seen = t.seen /\ n.drop = t.drop
BY DEF Begin, TaskType, Steps

LEMMA TurnIs ==
  ASSUME NEW t \in TaskType, NEW pc \in Steps
  PROVE  LET n == Turn(t, pc)
         IN  /\ n \in TaskType /\ n.pc = pc /\ n.then = "next"
             /\ n.zone = t.zone /\ n.match = t.match
             /\ n.seen = t.seen /\ n.drop = t.drop
BY OpsTyped DEF Turn, TaskType, Thens

\* What a record keeps of a sound one: what the task has read of the world.
Reads(t, rc) == t.seen \subseteq Known(rc) /\ t.drop \subseteq Closed(rc)

LEMMA BeginSound ==
  ASSUME NEW a, NEW t \in TaskType, NEW rc, NEW cd, NEW ix, NEW st, Reads(t, rc),
         t.zone \in Zones, NEW op \in Ops, NEW then \in Thens,
         then \in {"watch", "candidate"} => a = "bar" /\ t.match \in Matches,
         then \in {"gates", "verdict"} => t.match \in Matches /\ cd[t.zone] # None,
         then = "candidate" => cd[t.zone] = None,
         op.kind = "move" =>
           /\ op.to \in Terminal \cup Locked \cup {"watching_retest"}
           /\ op.to = "watching_retest" => then = "candidate"
           /\ op.to = "published_locked" => cd[t.zone] # None
  PROVE  Sound(a, Begin(t, op, then), rc, cd, ix, st)
<1> DEFINE n == Begin(t, op, then)
<1>1. /\ n \in TaskType /\ n.pc = "load" /\ n.op = op /\ n.then = then
      /\ n.zone = t.zone /\ n.match = t.match
      /\ n.seen = t.seen /\ n.drop = t.drop
  BY BeginIs
<1> HIDE DEF n
<1>2. Sound(a, n, rc, cd, ix, st)
  BY <1>1 DEF Sound, Reads, OnZone, Visit, Writing, Moves
<1> QED
  BY <1>2 DEF n

LEMMA FinishSound ==
  ASSUME NEW a, NEW t \in TaskType, NEW rc, NEW cd, NEW ix, NEW st, Reads(t, rc),
         t.zone \in Zones, NEW op \in Ops,
         op.kind = "move" =>
           /\ op.to \in Terminal \cup Locked
           /\ op.to = "published_locked" => cd[t.zone] # None
  PROVE  Sound(a, Finish(t, op), rc, cd, ix, st)
<1> DEFINE s == [t EXCEPT !.place = "outside", !.match = None]
<1>1. /\ s \in TaskType /\ s.zone = t.zone /\ s.seen = t.seen /\ s.drop = t.drop
  BY DEF TaskType, Places
<1>2. Finish(t, op) = Begin(s, op, "next")
  BY DEF Finish
<1>3. "next" \in Thens
  BY DEF Thens
<1>4. op.kind = "move" => op.to # "watching_retest"
  BY DEF Terminal, Locked
<1> HIDE DEF s
<1>5. Sound(a, Begin(s, op, "next"), rc, cd, ix, st)
  BY <1>1, <1>3, <1>4, BeginSound DEF Reads
<1> QED
  BY <1>2, <1>5

LEMMA TurnSound ==
  ASSUME NEW a, NEW t \in TaskType, NEW rc, NEW cd, NEW ix, NEW st, Reads(t, rc),
         t.zone \in Zones, NEW pc \in Visit \cup {"quote"},
         pc = "quote" => a = "bar" /\ t.match \in Matches /\ t.zone \in Known(rc),
         pc \in Visit => t.match \in Matches /\ cd[t.zone] # None
  PROVE  Sound(a, Turn(t, pc), rc, cd, ix, st)
<1> DEFINE n == Turn(t, pc)
<1>1. pc \in Steps /\ pc \notin Writing \cup {"fetch", "repair", "commit"}
  BY DEF Steps, Visit, Writing
<1>2. /\ n \in TaskType /\ n.pc = pc
      /\ n.zone = t.zone /\ n.match = t.match
      /\ n.seen = t.seen /\ n.drop = t.drop
  BY <1>1, TurnIs
<1> HIDE DEF n
<1>3. Sound(a, n, rc, cd, ix, st)
  BY <1>1, <1>2 DEF Sound, Reads, OnZone, Visit
<1> QED
  BY <1>3 DEF n

(* A settled write leaves a sound task; a write that found no record goes on  *)
(* to make the new zone wait only if no match is stored for it.               *)
LEMMA AfterSound ==
  ASSUME NEW a, NEW t \in TaskType, NEW rc, NEW cd, NEW ix, NEW st, Reads(t, rc),
         t.zone \in Known(rc), NEW r,
         t.then \in {"watch", "candidate"} => a = "bar" /\ t.match \in Matches,
         t.then \in {"gates", "verdict"} => t.match \in Matches /\ cd[t.zone] # None,
         t.then = "watch" /\ t.snap = None => cd[t.zone] = None
  PROVE  Sound(a, After(t, r), rc, cd, ix, st)
<1>1. t.zone \in Zones /\ t.seen \subseteq Known(rc)
  BY DEF Known, Reads
<1>2. CASE t.then = "next"
  BY <1>1, <1>2, NextZoneSound DEF After
<1>3. CASE t.then = "watch" /\ t.snap = None /\ r.state = "discovered"
  <2>1. /\ Move("watching_retest") \in Ops /\ Move("watching_retest").kind = "move"
        /\ Move("watching_retest").to = "watching_retest"
    BY OpsTyped DEF States
  <2>2. "candidate" \in Thens
    BY DEF Thens
  <2>3. Sound(a, Begin(t, Move("watching_retest"), "candidate"), rc, cd, ix, st)
    BY <1>1, <1>3, <2>1, <2>2, BeginSound
  <2> QED
    BY <1>3, <2>3 DEF After
<1>4. CASE t.then = "candidate" \/ (t.then = "watch" /\ ~(t.snap = None /\ r.state = "discovered"))
  <2>1. Sound(a, Turn(t, "quote"), rc, cd, ix, st)
    BY <1>1, <1>4, TurnSound DEF Visit
  <2> QED
    BY <1>4, <2>1 DEF After
<1>5. CASE t.then = "gates"
  <2> DEFINE s == [t EXCEPT !.place = "outside"]
  <2>1. /\ s \in TaskType /\ s.zone = t.zone /\ s.seen = t.seen /\ s.drop = t.drop
        /\ s.match = t.match
    BY DEF TaskType, Places
  <2>2. After(t, r) \in {NextZone(t), Turn(s, "gates"), Finish(t, Move("invalidated"))}
    BY <1>5 DEF After
  <2> HIDE DEF s
  <2>3. Sound(a, NextZone(t), rc, cd, ix, st)
    BY <1>1, NextZoneSound
  <2>4. Sound(a, Turn(s, "gates"), rc, cd, ix, st)
    BY <1>1, <1>5, <2>1, TurnSound DEF Visit, Reads
  <2>5. Sound(a, Finish(t, Move("invalidated")), rc, cd, ix, st)
    BY <1>1, OpsTyped, FinishSound DEF States, Terminal
  <2> QED
    BY <2>2, <2>3, <2>4, <2>5
<1>6. CASE t.then = "verdict"
  <2>1. Sound(a, Turn(t, "verdict"), rc, cd, ix, st)
    BY <1>1, <1>6, TurnSound DEF Visit
  <2> QED
    BY <1>6, <2>1 DEF After
<1> QED
  BY <1>2, <1>3, <1>4, <1>5, <1>6 DEF TaskType, Thens

-----------------------------------------------------------------------------
(* The world moves on under a task.                                           *)

\* From records rc, indexes ix and strays st to rc2, ix2 and st2: nothing is
\* forgotten or opened again, only a closed zone leaves an index, and what is
\* newly listable or was listed is listed.
Onward(rc, ix, st, rc2, ix2, st2) ==
  /\ Known(rc) \subseteq Known(rc2) /\ Closed(rc) \subseteq Closed(rc2)
  /\ ix.global \subseteq ix2.global \cup Closed(rc2)
  /\ ix.symbol \subseteq ix2.symbol \cup Closed(rc2)
  /\ \A z \in Listable(rc2, st2) :
       z \in ix2.symbol \/ (z \in Listable(rc, st) /\ z \notin ix.symbol)

LEMMA SoundCarried ==
  ASSUME NEW a, NEW t, NEW rc, NEW cd, NEW ix, NEW st, NEW rc2, NEW ix2, NEW st2,
         Sound(a, t, rc, cd, ix, st), Onward(rc, ix, st, rc2, ix2, st2)
  PROVE  Sound(a, t, rc2, cd, ix2, st2)
<1>1. t.pc \in {"fetch", "repair"} => Listable(rc2, st2) \subseteq t.seen \cup ix2.symbol
  BY DEF Sound, Onward
<1>2. t.pc = "commit" => Listable(rc2, st2) \subseteq ix2.symbol
  BY DEF Sound, Onward
<1> QED
  BY <1>1, <1>2 DEF Sound, Onward

(* A step of one task that writes no record and no match.                     *)
LEMMA ZoneStep ==
  ASSUME ZoneInv, NEW a \in Tasks, NEW n, task' = [task EXCEPT ![a] = n],
         rec' = rec, cand' = cand, WorldOK', Onward(rec, index, stray, rec, index', stray'),
         Sound(a, n, rec, cand, index', stray')
  PROVE  ZoneInv'
<1>1. n \in TaskType
  BY DEF Sound
<1>2. ASSUME NEW b \in Tasks PROVE Sound(b, task'[b], rec', cand', index', stray')
  <2>1. CASE b = a
    BY <2>1 DEF ZoneInv
  <2>2. CASE b # a
    <3>1. task'[b] = task[b] /\ Sound(b, task[b], rec, cand, index, stray)
      BY <2>2 DEF ZoneInv
    <3> QED
      BY <3>1, SoundCarried
  <2> QED
    BY <2>1, <2>2
<1> QED
  BY <1>1, <1>2 DEF ZoneInv

(* A step of one task that leaves the world alone.                            *)
LEMMA TaskStep ==
  ASSUME ZoneInv, NEW a \in Tasks, NEW n, task' = [task EXCEPT ![a] = n],
         UNCHANGED <<rec, stray, index, built, cand, plan>>,
         Sound(a, n, rec, cand, index, stray)
  PROVE  ZoneInv'
<1>1. WorldOK'
  BY DEF ZoneInv, WorldOK
<1>2. Onward(rec, index, stray, rec, index', stray')
  BY DEF Onward
<1> QED
  BY <1>1, <1>2, ZoneStep

-----------------------------------------------------------------------------
(* The listing and its repairs.                                               *)

\* What the index may become without a write: nothing unknown is listed, and
\* nothing watched is dropped.
Mended(ix) ==
  /\ ix \in [global : SUBSET Zones, symbol : SUBSET Zones]
  /\ index.global \subseteq ix.global \cup Closed(rec)
  /\ ix.global \cup ix.symbol \subseteq Known(rec)
  /\ index.symbol \subseteq ix.symbol \cup Closed(rec)

(* What a listing drops is locked or ended, and so not watched.               *)
LEMMA WatchedApart ==
  ASSUME WorldOK
  PROVE  /\ Watched(rec) \cap Closed(rec) = {}
         /\ Known(rec) = Watched(rec) \cup Closed(rec)
         /\ Known(rec) \subseteq Zones
BY KnownRecords DEF WorldOK, Watched, Closed, Known, Wanted

LEMMA MendStep ==
  ASSUME ZoneInv, NEW a \in Tasks, NEW n, task' = [task EXCEPT ![a] = n],
         UNCHANGED <<rec, stray, cand, plan>>, Mended(index'),
         built' \in [global : BOOLEAN, symbol : BOOLEAN],
         built'.symbol => built.symbol \/ Listable(rec, stray) \subseteq index'.symbol,
         Sound(a, n, rec, cand, index', stray)
  PROVE  ZoneInv'
<1>1. WorldOK /\ Watched(rec) \cap Closed(rec) = {}
  BY WatchedApart DEF ZoneInv
<1>2. Onward(rec, index, stray, rec, index', stray')
  BY <1>1 DEF Onward, Mended, Listable
<1>3. /\ Listable(rec, stray) \subseteq index'.global
      /\ built'.symbol => Listable(rec, stray) \subseteq index'.symbol
  BY <1>1 DEF Mended, WorldOK, Listable
<1>4. WorldOK'
  BY <1>1, <1>3 DEF Mended, WorldOK, Listable
<1> QED
  BY <1>2, <1>4, ZoneStep

LEMMA EvaluateZone ==
  ASSUME ZoneInv, NEW a \in Tasks, Evaluate(a)
  PROVE  ZoneInv'
<1> DEFINE t == task[a]
<1>1. /\ t.pc = "idle" /\ t \in TaskType /\ Sound(a, t, rec, cand, index, stray)
      /\ UNCHANGED <<rec, stray, index, cand, plan>> /\ WorldOK
  BY DEF Evaluate, At, ZoneInv
<1>2. Mended(index')
  BY <1>1 DEF Mended, WorldOK
<1>3. ASSUME NEW n, task' = [task EXCEPT ![a] = n], n \in TaskType,
             n.pc \in {"members", "scan", "fetch"}, n.drop = t.drop,
             \/ n.seen = t.seen /\ n.pc # "fetch"
             \/ n.seen = Known(rec) /\ n.pc # "fetch"
             \/ n.seen = index.global
      PROVE  Sound(a, n, rec, cand, index', stray')
  BY <1>1, <1>3 DEF Sound, WorldOK, OnZone, Visit, Writing, Listable
<1>4. CASE Go(a, "members") /\ UNCHANGED built
  <2> DEFINE n == [t EXCEPT !.pc = "members"]
  <2>1. /\ task' = [task EXCEPT ![a] = n] /\ n \in TaskType /\ n.pc = "members"
        /\ n.drop = t.drop /\ n.seen = t.seen
    BY <1>1, <1>4 DEF Go, TaskType, Steps
  <2> HIDE DEF n
  <2> QED
    BY <1>1, <1>2, <1>3, <1>4, <2>1, MendStep DEF WorldOK
<1>5. CASE /\ task' = [task EXCEPT ![a].pc = "fetch", ![a].seen = index.global]
           /\ UNCHANGED built
  <2> DEFINE n == [t EXCEPT !.pc = "fetch", !.seen = index.global]
  <2>1. /\ task' = [task EXCEPT ![a] = n] /\ n \in TaskType /\ n.pc = "fetch"
        /\ n.drop = t.drop /\ n.seen = index.global
    BY <1>1, <1>5 DEF ZoneInv, TaskType, Steps, WorldOK
  <2> HIDE DEF n
  <2> QED
    BY <1>1, <1>2, <1>3, <1>5, <2>1, MendStep DEF WorldOK
<1>6. CASE /\ task' = [task EXCEPT ![a].pc = "scan", ![a].seen = {z \in Zones : rec[z] # None}]
           /\ built' = [built EXCEPT !.global = TRUE]
  <2> DEFINE n == [t EXCEPT !.pc = "scan", !.seen = {z \in Zones : rec[z] # None}]
  <2>1. /\ task' = [task EXCEPT ![a] = n] /\ n \in TaskType /\ n.pc = "scan"
        /\ n.drop = t.drop /\ n.seen = Known(rec)
    BY <1>1, <1>6 DEF ZoneInv, TaskType, Steps, Known
  <2>2. built' \in [global : BOOLEAN, symbol : BOOLEAN] /\ built'.symbol = built.symbol
    BY <1>1, <1>6 DEF WorldOK
  <2> HIDE DEF n
  <2> QED
    BY <1>1, <1>2, <1>3, <2>1, <2>2, MendStep
<1> QED
  BY <1>4, <1>5, <1>6 DEF Evaluate

Rebuilding == {"rebuild", "join", "unlist"}

Goes(a, pc, sn, dr) ==
  task' = [task EXCEPT ![a].pc = pc, ![a].seen = sn, ![a].drop = dr]

\* A step of the listing goes on with what it read; no record or match changes.
LEMMA ReadStep ==
  ASSUME ZoneInv, NEW a \in Tasks, NEW pc \in Steps, NEW sn \in SUBSET Zones,
         NEW dr \in SUBSET Zones,
         Goes(a, pc, sn, dr), UNCHANGED <<rec, stray, cand, plan>>, Mended(index'),
         built' \in [global : BOOLEAN, symbol : BOOLEAN],
         built'.symbol => built.symbol \/ Listable(rec, stray) \subseteq index'.symbol,
         pc \notin OnZone \cup Rebuilding, sn \subseteq Known(rec), dr \subseteq Closed(rec),
         pc \in {"fetch", "repair"} => Listable(rec, stray) \subseteq sn \cup index'.symbol,
         pc = "commit" => Listable(rec, stray) \subseteq index'.symbol
  PROVE  ZoneInv'
<1> DEFINE n == [task[a] EXCEPT !.pc = pc, !.seen = sn, !.drop = dr]
<1>1. /\ task' = [task EXCEPT ![a] = n] /\ n \in TaskType
      /\ n.pc = pc /\ n.seen = sn /\ n.drop = dr
  BY DEF ZoneInv, TaskType, Goes
<1> HIDE DEF n
<1>2. Sound(a, n, rec, cand, index', stray)
  BY <1>1 DEF Sound, OnZone, Visit, Writing, Rebuilding
<1> QED
  BY <1>1, <1>2, MendStep

(* The rebuild.  It takes a zone it found watched into the global index and    *)
(* then into the symbol index, which makes it listable; a zone it found closed *)
(* stays closed.                                                              *)
LEMMA ScanZone ==
  ASSUME ZoneInv, NEW a \in Tasks, Scan(a)
  PROVE  ZoneInv'
<1> DEFINE t == task[a]
<1>1. /\ t \in TaskType /\ Sound(a, t, rec, cand, index, stray) /\ WorldOK
      /\ t.seen \subseteq Known(rec) /\ t.drop \subseteq Closed(rec) /\ t.seen \subseteq Zones
      /\ UNCHANGED <<rec, stray, index, built, cand, plan>>
  BY DEF ZoneInv, Sound, TaskType, Scan
<1>2. Known(rec) = Watched(rec) \cup Closed(rec)
  BY <1>1, WatchedApart
<1>3. CASE Go(a, "reread")
  <2> DEFINE n == [t EXCEPT !.pc = "reread"]
  <2>1. /\ task' = [task EXCEPT ![a] = n] /\ n \in TaskType /\ n.pc = "reread"
        /\ n.drop = t.drop /\ n.seen = t.seen
    BY <1>1, <1>3 DEF Go, TaskType, Steps
  <2> HIDE DEF n
  <2>2. Sound(a, n, rec, cand, index, stray)
    BY <1>1, <2>1 DEF Sound, OnZone, Visit, Writing
  <2> QED
    BY <1>1, <2>1, <2>2, TaskStep
<1>4. ASSUME NEW z \in t.seen,
             task' = [task EXCEPT ![a].pc = IF Wanted(rec[z]) THEN "rebuild" ELSE "unlist",
                                  ![a].zone = z, ![a].seen = @ \ {z}]
      PROVE  ZoneInv'
  <2> DEFINE pc == IF Wanted(rec[z]) THEN "rebuild" ELSE "unlist"
             n == [t EXCEPT !.pc = pc, !.zone = z, !.seen = @ \ {z}]
  <2>0. pc \in {"rebuild", "unlist"} /\ pc \in Steps
    BY DEF Steps
  <2>1. pc = "unlist" => z \in Closed(rec)
    BY <1>1, <1>2 DEF Watched
  <2>2. task' = [task EXCEPT ![a] = n]
    BY <1>1, <1>4 DEF ZoneInv
  <2> HIDE DEF pc
  <2>3. /\ n \in TaskType /\ n.pc = pc
        /\ n.zone = z /\ n.drop = t.drop /\ n.seen = t.seen \ {z}
    BY <1>1, <2>0 DEF TaskType
  <2> HIDE DEF n
  <2>4. Sound(a, n, rec, cand, index, stray)
    BY <1>1, <2>0, <2>1, <2>3 DEF Sound, OnZone, Visit, Writing
  <2> QED
    BY <1>1, <2>2, <2>4, TaskStep
<1> QED
  BY <1>3, <1>4 DEF Scan

LEMMA RebuildZone ==
  ASSUME ZoneInv, NEW a \in Tasks, Rebuild(a)
  PROVE  ZoneInv'
<1> DEFINE t == task[a]  n == [t EXCEPT !.pc = "join"]
<1>1. /\ t \in TaskType /\ Sound(a, t, rec, cand, index, stray) /\ WorldOK
      /\ t.pc = "rebuild" /\ t.zone \in Known(rec) /\ t.zone \in Zones
      /\ index' = [index EXCEPT !.global = @ \cup {t.zone}]
      /\ UNCHANGED <<rec, stray, built, cand, plan>>
  BY DEF ZoneInv, Sound, Rebuild, At, Known
<1>2. /\ task' = [task EXCEPT ![a] = n] /\ n \in TaskType /\ n.pc = "join"
      /\ n.zone = t.zone /\ n.drop = t.drop /\ n.seen = t.seen
  BY <1>1 DEF Rebuild, Go, TaskType, Steps
<1>3. /\ index'.global = index.global \cup {t.zone} /\ index'.symbol = index.symbol
      /\ index' \in [global : SUBSET Zones, symbol : SUBSET Zones]
  BY <1>1 DEF WorldOK
<1> HIDE DEF n
<1>4. Mended(index')
  BY <1>1, <1>3 DEF Mended, WorldOK
<1>5. Sound(a, n, rec, cand, index', stray)
  BY <1>1, <1>2, <1>3 DEF Sound, OnZone, Visit, Writing
<1> QED
  BY <1>1, <1>2, <1>4, <1>5, MendStep DEF WorldOK

LEMMA JoinZone ==
  ASSUME ZoneInv, NEW a \in Tasks, Join(a)
  PROVE  ZoneInv'
<1> DEFINE t == task[a]  n == [t EXCEPT !.pc = "scan", !.zone = None]
<1>1. /\ t \in TaskType /\ Sound(a, t, rec, cand, index, stray) /\ WorldOK
      /\ t.pc = "join" /\ t.zone \in Known(rec) /\ t.zone \in Zones
      /\ t.zone \in index.global \cup Closed(rec)
      /\ index' = [index EXCEPT !.symbol = @ \cup {t.zone}]
      /\ stray' = stray \ {t.zone}
      /\ UNCHANGED <<rec, built, cand, plan>>
  BY DEF ZoneInv, Sound, Join, At, Known
<1>2. /\ task' = [task EXCEPT ![a] = n] /\ n \in TaskType /\ n.pc = "scan"
      /\ n.drop = t.drop /\ n.seen = t.seen
  BY <1>1 DEF Join, ZoneInv, TaskType, Steps
<1>3. /\ index'.global = index.global /\ index'.symbol = index.symbol \cup {t.zone}
      /\ index' \in [global : SUBSET Zones, symbol : SUBSET Zones]
  BY <1>1 DEF WorldOK
<1>4. Watched(rec) \cap Closed(rec) = {}
  BY <1>1, WatchedApart
<1> HIDE DEF n
<1>5. Onward(rec, index, stray, rec, index', stray')
  BY <1>1, <1>3 DEF Onward, Listable
<1>6. WorldOK'
  BY <1>1, <1>3, <1>4 DEF WorldOK, Listable
<1>7. Sound(a, n, rec, cand, index', stray')
  BY <1>1, <1>2 DEF Sound, OnZone, Visit, Writing
<1> QED
  BY <1>1, <1>2, <1>5, <1>6, <1>7, ZoneStep

LEMMA UnlistZone ==
  ASSUME ZoneInv, NEW a \in Tasks, Unlist(a)
  PROVE  ZoneInv'
<1> DEFINE t == task[a]  n == [t EXCEPT !.pc = "scan", !.zone = None]
<1>1. /\ t \in TaskType /\ Sound(a, t, rec, cand, index, stray) /\ WorldOK
      /\ t.pc = "unlist" /\ t.zone \in Closed(rec)
      /\ index' = [index EXCEPT !.global = @ \ {t.zone}]
      /\ UNCHANGED <<rec, stray, built, cand, plan>>
  BY DEF ZoneInv, Sound, Unlist, At
<1>2. /\ task' = [task EXCEPT ![a] = n] /\ n \in TaskType /\ n.pc = "scan"
      /\ n.drop = t.drop /\ n.seen = t.seen
  BY <1>1 DEF Unlist, ZoneInv, TaskType, Steps
<1>3. /\ index'.global = index.global \ {t.zone} /\ index'.symbol = index.symbol
      /\ index' \in [global : SUBSET Zones, symbol : SUBSET Zones]
  BY <1>1 DEF WorldOK
<1> HIDE DEF n
<1>4. Mended(index')
  BY <1>1, <1>3 DEF Mended, WorldOK
<1>5. Sound(a, n, rec, cand, index', stray)
  BY <1>1, <1>2 DEF Sound, OnZone, Visit, Writing
<1> QED
  BY <1>1, <1>2, <1>4, <1>5, MendStep DEF WorldOK

LEMMA ListingZone ==
  ASSUME ZoneInv, NEW a \in Tasks,
         \/ Reread(a) \/ Fetch(a) \/ Repair(a)
         \/ Commit(a) \/ Members(a) \/ Mget(a) \/ Evict(a)
  PROVE  ZoneInv'
<1> DEFINE t == task[a]
           wanted == {z \in t.seen : Wanted(rec[z])}
<1>1. /\ t \in TaskType /\ Sound(a, t, rec, cand, index, stray) /\ WorldOK
      /\ t.seen \subseteq Known(rec) /\ t.drop \subseteq Closed(rec)
      /\ t.seen \in SUBSET Zones /\ t.drop \in SUBSET Zones
  BY DEF ZoneInv, Sound, TaskType
<1>2. /\ Watched(rec) \cap t.drop = {} /\ t.seen \ Watched(rec) \subseteq Closed(rec)
      /\ wanted = t.seen \cap Watched(rec)
      /\ Known(rec) \subseteq Zones /\ Closed(rec) \subseteq Known(rec)
      /\ Watched(rec) \subseteq Known(rec)
      /\ Known(rec) = Watched(rec) \cup Closed(rec)
  BY <1>1, WatchedApart DEF Watched, Closed
<1>3. /\ {"fetch", "repair", "commit", "members", "mget",
          "evict", "pick"} \subseteq Steps \ (OnZone \cup Rebuilding)
  BY DEF Steps, OnZone, Visit, Writing, Rebuilding
<1>4. Mended(index) /\ built \in [global : BOOLEAN, symbol : BOOLEAN]
  BY <1>1 DEF Mended, WorldOK
<1>5. /\ index.global \subseteq Known(rec) /\ index.symbol \subseteq Known(rec)
      /\ Listable(rec, stray) \subseteq index.global
      /\ Listable(rec, stray) \subseteq Watched(rec)
      /\ index \in [global : SUBSET Zones, symbol : SUBSET Zones]
  BY <1>1 DEF WorldOK, Listable
<1>6. \A pc, sn : task' = [task EXCEPT ![a].pc = pc, ![a].seen = sn] =>
        Goes(a, pc, sn, t.drop)
  BY <1>1 DEF ZoneInv, TaskType, Goes
<1>7. \A pc, dr : task' = [task EXCEPT ![a].pc = pc, ![a].drop = dr] =>
        Goes(a, pc, t.seen, dr)
  BY <1>1 DEF ZoneInv, TaskType, Goes
<1>0. /\ t.seen \in SUBSET Zones /\ t.seen \subseteq Known(rec)
      /\ {} \in SUBSET Zones /\ {} \subseteq Closed(rec)
  BY <1>1
<1> HIDE DEF wanted, t
<1>10. CASE Reread(a)
  <2>1. /\ Goes(a, "fetch", index.global, t.drop)
        /\ UNCHANGED <<rec, stray, index, built, cand, plan>>
    BY <1>6, <1>10 DEF Reread
  <2> QED
    BY <1>1, <1>3, <1>4, <1>5, <2>1, ReadStep
<1>11. CASE Fetch(a) \/ Mget(a)
  <2>1. PICK pc \in {"repair", "evict"} :
          /\ Goes(a, pc, wanted, t.seen \ wanted)
          /\ UNCHANGED <<rec, stray, index, built, cand, plan>>
          /\ pc = "repair" => t.pc = "fetch"
    BY <1>11 DEF Fetch, Mget, At, wanted, Goes, t
  <2>2. /\ wanted \subseteq Known(rec) /\ t.seen \ wanted \subseteq Closed(rec)
        /\ wanted \in SUBSET Zones /\ t.seen \ wanted \in SUBSET Zones
    BY <1>1, <1>2
  <2>3. pc = "repair" => Listable(rec, stray) \subseteq wanted \cup index.symbol
    BY <1>1, <1>2, <1>5, <2>1 DEF Sound
  <2> QED
    BY <1>3, <1>4, <2>1, <2>2, <2>3, ReadStep
<1>12. CASE Repair(a)
  <2>1. /\ index' = [index EXCEPT !.symbol = (@ \cup t.seen) \ t.drop]
        /\ Goes(a, "commit", {}, t.drop)
        /\ UNCHANGED <<rec, stray, built, cand, plan>> /\ t.pc = "repair"
    BY <1>6, <1>12 DEF Repair, At, t
  <2>2. /\ index'.global = index.global
        /\ index'.symbol = (index.symbol \cup t.seen) \ t.drop
        /\ index' \in [global : SUBSET Zones, symbol : SUBSET Zones]
    BY <1>1, <1>5, <2>1
  <2>3. Listable(rec, stray) \subseteq index'.symbol
    BY <1>1, <1>2, <1>5, <2>1, <2>2 DEF Sound
  <2>4. Mended(index')
    BY <1>1, <1>2, <1>5, <2>2, <2>3 DEF Mended
  <2> QED
    BY <1>1, <1>3, <1>4, <2>1, <2>3, <2>4, ReadStep
<1>13. CASE Commit(a)
  <2>1. /\ index' = [index EXCEPT !.global = @ \ t.drop]
        /\ built' = [built EXCEPT !.symbol = TRUE]
        /\ Goes(a, "members", t.seen, {})
        /\ UNCHANGED <<rec, stray, cand, plan>> /\ t.pc = "commit"
    BY <1>7, <1>13 DEF Commit, At, t
  <2>2. /\ index'.global = index.global \ t.drop /\ index'.symbol = index.symbol
        /\ index' \in [global : SUBSET Zones, symbol : SUBSET Zones]
    BY <1>5, <2>1
  <2>3. Listable(rec, stray) \subseteq index'.symbol
    BY <1>1, <2>1, <2>2 DEF Sound
  <2>4. Mended(index')
    BY <1>2, <1>5, <2>2 DEF Mended
  <2>5. built' \in [global : BOOLEAN, symbol : BOOLEAN]
    BY <1>4, <2>1
  <2> QED
    BY <1>0, <1>3, <2>1, <2>3, <2>4, <2>5, ReadStep
<1>14. CASE Members(a)
  <2>1. /\ Goes(a, "mget", index.symbol, t.drop)
        /\ UNCHANGED <<rec, stray, index, built, cand, plan>>
    BY <1>6, <1>14 DEF Members
  <2> QED
    BY <1>1, <1>3, <1>4, <1>5, <2>1, ReadStep
<1>15. CASE Evict(a)
  <2>1. /\ index' = [global |-> index.global \ t.drop, symbol |-> index.symbol \ t.drop]
        /\ Goes(a, "pick", t.seen, {})
        /\ UNCHANGED <<rec, stray, built, cand, plan>>
    BY <1>7, <1>15 DEF Evict, t
  <2>2. Mended(index')
    BY <1>1, <1>2, <1>5, <2>1 DEF Mended
  <2> QED
    BY <1>0, <1>3, <1>4, <2>1, <2>2, ReadStep
<1> QED
  BY <1>10, <1>11, <1>12, <1>13, <1>14, <1>15

-----------------------------------------------------------------------------
(* Visits.                                                                    *)


LEMMA GoStep ==
  ASSUME ZoneInv, NEW a \in Tasks, NEW pc \in {"terminalize", "recheck"} \cup Visit,
         Go(a, pc), UNCHANGED <<rec, stray, index, built, cand, plan>>,
         task[a].zone \in Zones,
         pc \in Visit => task[a].match \in Matches /\ cand[task[a].zone] # None
  PROVE  ZoneInv'
<1> DEFINE t == task[a]  n == [t EXCEPT !.pc = pc]
<1>1. /\ t \in TaskType /\ Sound(a, t, rec, cand, index, stray)
      /\ pc \in Steps
      /\ pc \notin Writing \cup Rebuilding \cup {"quote", "fetch", "repair", "commit"}
  BY DEF ZoneInv, Visit, Steps, Writing, Rebuilding
<1>2. /\ task' = [task EXCEPT ![a] = n] /\ n \in TaskType /\ n.pc = pc
      /\ n.zone = t.zone /\ n.match = t.match /\ n.seen = t.seen /\ n.drop = t.drop
  BY <1>1 DEF Go, TaskType
<1> HIDE DEF n
<1>3. Sound(a, n, rec, cand, index, stray)
  BY <1>1, <1>2 DEF Sound, Rebuilding
<1> QED
  BY <1>2, <1>3, TaskStep

(* A write that ends a visit, and the next zone.                              *)
LEMMA FinishStep ==
  ASSUME ZoneInv, NEW a \in Tasks, task[a].zone \in Zones,
         UNCHANGED <<rec, stray, index, built, cand, plan>>,
         \/ task' = [task EXCEPT ![a] = NextZone(task[a])]
         \/ task' = [task EXCEPT ![a] = Resting]
         \/ task' = [task EXCEPT ![a] = Finish(task[a], Move("invalidated"))]
         \/ \E broke \in BOOLEAN :
              task' = [task EXCEPT ![a] = Finish(task[a], Presence(FALSE, broke))]
  PROVE  ZoneInv'
<1> DEFINE t == task[a]
<1>1. t \in TaskType /\ Reads(t, rec) /\ t.seen \subseteq Known(rec)
  BY DEF ZoneInv, Sound, Reads
<1>2. Sound(a, NextZone(t), rec, cand, index, stray) /\ Sound(a, Resting, rec, cand, index, stray)
  BY <1>1, NextZoneSound, RestingSound
<1>3. Sound(a, Finish(t, Move("invalidated")), rec, cand, index, stray)
  BY <1>1, OpsTyped, FinishSound DEF States, Terminal
<1>4. \A broke \in BOOLEAN : Sound(a, Finish(t, Presence(FALSE, broke)), rec, cand, index, stray)
  <2> SUFFICES ASSUME NEW broke \in BOOLEAN
               PROVE  Sound(a, Finish(t, Presence(FALSE, broke)), rec, cand, index, stray)
    OBVIOUS
  <2>1. Presence(FALSE, broke) \in Ops /\ Presence(FALSE, broke).kind = "presence"
    BY OpsTyped
  <2> QED
    BY <1>1, <2>1, FinishSound
<1> QED
  BY <1>2, <1>3, <1>4, TaskStep

LEMMA GatesZone ==
  ASSUME ZoneInv, NEW a \in Tasks,
         Gates(a) \/ Verdict(a) \/ Recheck(a) \/ Terminalize(a) \/ Activate(a)
  PROVE  ZoneInv'
<1> DEFINE t == task[a]
<1>1. /\ t \in TaskType /\ Sound(a, t, rec, cand, index, stray) /\ Reads(t, rec)
      /\ UNCHANGED <<rec, stray, index, built, cand, plan>>
  BY DEF ZoneInv, Sound, Reads, Gates, Verdict, Recheck, Terminalize, Activate
<1>2. t.zone \in Zones
  BY <1>1 DEF Sound, OnZone, Visit, Gates, Verdict, Recheck, Terminalize, Activate, At
<1>3. t.pc \in Visit => t.match \in Matches /\ cand[t.zone] # None
  BY <1>1 DEF Sound
<1>4. {"gates", "verdict", "activate", "publish", "lockcheck"} = Visit
  BY DEF Visit
<1>5. CASE \/ task' = [task EXCEPT ![a] = NextZone(t)]
           \/ task' = [task EXCEPT ![a] = Finish(t, Move("invalidated"))]
           \/ \E broke \in BOOLEAN :
                task' = [task EXCEPT ![a] = Finish(t, Presence(FALSE, broke))]
  BY <1>1, <1>2, <1>5, FinishStep
<1>6. CASE \E pc \in {"terminalize", "verdict", "recheck", "activate", "publish"} :
             Go(a, pc) /\ t.pc \in Visit
  BY <1>1, <1>2, <1>3, <1>4, <1>6, GoStep
<1>7. CASE Gates(a) /\ task' = [task EXCEPT ![a] = Begin(t, Mark, "verdict")]
  <2>1. "verdict" \in Thens /\ t.match \in Matches /\ cand[t.zone] # None
    BY <1>3, <1>4, <1>7 DEF Thens, Gates, At
  <2>2. Sound(a, Begin(t, Mark, "verdict"), rec, cand, index, stray)
    BY <1>1, <1>2, <2>1, OpsTyped, BeginSound
  <2> QED
    BY <1>1, <1>7, <2>2, TaskStep
<1> QED
  BY <1>4, <1>5, <1>6, <1>7 DEF Gates, Verdict, Recheck, Terminalize, Activate, At

LEMMA PublishZone ==
  ASSUME ZoneInv, NEW a \in Tasks, Publish(a)
  PROVE  ZoneInv'
<1> DEFINE t == task[a]
<1>1. /\ t \in TaskType /\ Sound(a, t, rec, cand, index, stray) /\ Reads(t, rec) /\ WorldOK
      /\ UNCHANGED <<rec, stray, index, built, cand>> /\ t.pc = "publish"
      /\ t.zone \in Zones /\ t.match \in Matches /\ cand[t.zone] # None
  BY DEF ZoneInv, Sound, Reads, Publish, At, OnZone, Visit
<1>2. CASE /\ plan' = [plan EXCEPT ![t.match] = [state |-> "live", zone |-> t.zone]]
           /\ Go(a, "lockcheck")
  <2> DEFINE n == [t EXCEPT !.pc = "lockcheck"]
  <2>1. plan' \in [Matches -> [state : {"none", "live", "ended", "over"},
                               zone : Zones \cup {None}]]
    BY <1>1, <1>2 DEF WorldOK
  <2>2. WorldOK' /\ Onward(rec, index, stray, rec, index', stray')
    BY <1>1, <2>1 DEF WorldOK, Onward
  <2>3. /\ task' = [task EXCEPT ![a] = n] /\ n \in TaskType /\ n.pc = "lockcheck"
        /\ n.zone = t.zone /\ n.match = t.match /\ n.seen = t.seen /\ n.drop = t.drop
    BY <1>1, <1>2 DEF Go, TaskType, Steps
  <2> HIDE DEF n
  <2>4. Sound(a, n, rec, cand, index', stray')
    BY <1>1, <2>3 DEF Sound, Writing
  <2> QED
    BY <1>1, <2>2, <2>3, <2>4, ZoneStep
<1>3. CASE UNCHANGED plan /\ \E pc \in {"lockcheck", "terminalize"} : Go(a, pc)
  BY <1>1, <1>3, GoStep DEF Visit
<1>4. CASE UNCHANGED plan /\ task' = [task EXCEPT ![a] = Finish(t, Presence(FALSE, FALSE))]
  BY <1>1, <1>4, FinishStep
<1> QED
  BY <1>2, <1>3, <1>4 DEF Publish

LEMMA LockCheckZone ==
  ASSUME ZoneInv, NEW a \in Tasks, LockCheck(a)
  PROVE  ZoneInv'
<1> DEFINE t == task[a]  s == [t EXCEPT !.seen = {}]
<1>1. /\ t \in TaskType /\ Sound(a, t, rec, cand, index, stray) /\ Reads(t, rec)
      /\ UNCHANGED <<rec, stray, index, built, cand, plan>>
      /\ t.zone \in Zones /\ t.match \in Matches /\ cand[t.zone] # None
  BY DEF ZoneInv, Sound, Reads, LockCheck, At, OnZone, Visit
<1>2. /\ s \in TaskType /\ s.zone = t.zone /\ Reads(s, rec)
  BY <1>1 DEF TaskType, Reads
<1>3. Lock(t.match) \in Ops /\ Lock(t.match).to = "published_locked"
  BY <1>1, OpsTyped
<1>4. CASE task' = [task EXCEPT ![a] = Resting]
  BY <1>1, <1>4, FinishStep
<1>5. CASE task' = [task EXCEPT ![a] = Finish(s, Lock(t.match))]
  <2> HIDE DEF s
  <2>1. Sound(a, Finish(s, Lock(t.match)), rec, cand, index, stray)
    BY <1>1, <1>2, <1>3, FinishSound DEF Locked
  <2> QED
    BY <1>1, <1>5, <2>1, TaskStep
<1> QED
  BY <1>4, <1>5 DEF LockCheck

LEMMA AbortZone ==
  ASSUME ZoneInv, NEW a \in Tasks, Abort(a)
  PROVE  ZoneInv'
BY RestingSound, TaskStep DEF Abort

LEMMA SyncZone ==
  ASSUME ZoneInv, NEW a \in Tasks, Sync(a)
  PROVE  ZoneInv'
<1>1. a = "bar" /\ UNCHANGED <<rec, stray, index, built, cand, plan>>
  BY DEF Sync
<1>2. PICK z \in Zones, m \in Matches :
        LET s == [Resting EXCEPT !.zone = z, !.match = m, !.sync = TRUE]
        IN  \/ \E g \in Grades : task' = [task EXCEPT ![a] = Begin(s, Discover(g), "watch")]
            \/ task' = [task EXCEPT ![a] = [s EXCEPT !.pc = "recheck"]]
  BY DEF Sync
<1> DEFINE s == [Resting EXCEPT !.zone = z, !.match = m, !.sync = TRUE]
           n == [s EXCEPT !.pc = "recheck"]
<1>3. /\ s \in TaskType /\ s.zone = z /\ s.match = m /\ s.seen = {} /\ s.drop = {}
  BY OpsTyped DEF Resting, TaskType, Steps, Thens, Places
<1>4. n \in TaskType /\ n.pc = "recheck" /\ n.zone = z /\ n.seen = {} /\ n.drop = {}
  BY OpsTyped DEF Resting, TaskType, Steps, Thens, Places
<1>5. \/ \E g \in Grades : task' = [task EXCEPT ![a] = Begin(s, Discover(g), "watch")]
      \/ task' = [task EXCEPT ![a] = n]
  BY <1>2
<1> HIDE DEF s, n
<1>6. ASSUME NEW g \in Grades, task' = [task EXCEPT ![a] = Begin(s, Discover(g), "watch")]
      PROVE  ZoneInv'
  <2>1. Discover(g) \in Ops /\ Discover(g).kind = "discover" /\ "watch" \in Thens
    BY OpsTyped DEF Thens
  <2>2. Sound(a, Begin(s, Discover(g), "watch"), rec, cand, index, stray)
    BY <1>1, <1>3, <2>1, BeginSound DEF Reads
  <2> QED
    BY <1>1, <1>6, <2>2, TaskStep
<1>7. CASE task' = [task EXCEPT ![a] = n]
  <2>1. Sound(a, n, rec, cand, index, stray)
    BY <1>4 DEF Sound, Visit, Writing
  <2> QED
    BY <1>1, <1>7, <2>1, TaskStep
<1> QED
  BY <1>5, <1>6, <1>7

LEMMA PickZone ==
  ASSUME ZoneInv, NEW a \in Tasks, Pick(a)
  PROVE  ZoneInv'
<1> DEFINE t == task[a]
<1>1. /\ t \in TaskType /\ Sound(a, t, rec, cand, index, stray) /\ Reads(t, rec) /\ WorldOK
      /\ UNCHANGED <<rec, stray, index, built, cand, plan>>
  BY DEF ZoneInv, Sound, Reads, Pick
<1>2. CASE task' = [task EXCEPT ![a] = Resting]
  BY <1>1, <1>2, RestingSound, TaskStep
<1>3. CASE \E z \in t.seen, p \in Places, broke, old \in BOOLEAN :
             LET s == [t EXCEPT !.zone = z, !.seen = @ \ {z}, !.place = p]
             IN  task' = [task EXCEPT ![a] =
                   IF p = "far"
                   THEN IF old THEN Finish(s, Move("expired")) ELSE NextZone(s)
                   ELSE IF cand[z] = None THEN NextZone(s)
                   ELSE Begin([s EXCEPT !.match = cand[z]], Presence(p = "reach", broke), "gates")]
  <2>0. PICK z \in t.seen, p \in Places, broke \in BOOLEAN, old \in BOOLEAN :
             LET s == [t EXCEPT !.zone = z, !.seen = @ \ {z}, !.place = p]
             IN  task' = [task EXCEPT ![a] =
                   IF p = "far"
                   THEN IF old THEN Finish(s, Move("expired")) ELSE NextZone(s)
                   ELSE IF cand[z] = None THEN NextZone(s)
                   ELSE Begin([s EXCEPT !.match = cand[z]], Presence(p = "reach", broke), "gates")]
    BY <1>3
  <2> DEFINE s == [t EXCEPT !.zone = z, !.seen = @ \ {z}, !.place = p]
             b == [s EXCEPT !.match = cand[z]]
             op == Presence(p = "reach", broke)
  <2>1. z \in Zones /\ cand[z] \in Matches \cup {None}
    BY <1>1 DEF TaskType, WorldOK
  <2>2. /\ s \in TaskType /\ s.zone = z /\ Reads(s, rec) /\ s.seen \subseteq Known(rec)
    BY <1>1, <2>1 DEF TaskType, Reads
  <2>3. \/ task' = [task EXCEPT ![a] = Finish(s, Move("expired"))]
        \/ task' = [task EXCEPT ![a] = NextZone(s)]
        \/ cand[z] # None /\ task' = [task EXCEPT ![a] = Begin(b, op, "gates")]
    BY <2>0
  <2>4. /\ b \in TaskType /\ b.zone = z /\ b.seen = s.seen /\ b.drop = s.drop
        /\ b.match = cand[z]
    BY <2>1, <2>2 DEF TaskType
  <2>5. op \in Ops /\ op.kind = "presence"
    <3>1. (p = "reach") \in BOOLEAN
      OBVIOUS
    <3> QED
      BY <3>1, OpsTyped
  <2> HIDE DEF s, b, op
  <2>6. Sound(a, NextZone(s), rec, cand, index, stray)
    BY <2>2, NextZoneSound
  <2>7. Sound(a, Finish(s, Move("expired")), rec, cand, index, stray)
    BY <2>1, <2>2, OpsTyped, FinishSound DEF States, Terminal
  <2>8. cand[z] # None => Sound(a, Begin(b, op, "gates"), rec, cand, index, stray)
    <3>1. "gates" \in Thens
      BY DEF Thens
    <3> QED
      BY <2>1, <2>2, <2>4, <2>5, <3>1, BeginSound DEF Reads
  <2> QED
    BY <1>1, <2>3, <2>6, <2>7, <2>8, TaskStep
<1> QED
  BY <1>2, <1>3 DEF Pick

(* The scanner stores a match; no other task then makes a new zone wait.      *)
LEMMA QuoteZone ==
  ASSUME ZoneInv, NEW a \in Tasks, Quote(a)
  PROVE  ZoneInv'
<1> DEFINE t == task[a]
<1>1. /\ t \in TaskType /\ Sound(a, t, rec, cand, index, stray) /\ Reads(t, rec) /\ WorldOK
      /\ UNCHANGED <<rec, stray, index, built, plan>>
      /\ cand' = [cand EXCEPT ![t.zone] = t.match]
      /\ a = "bar" /\ t.match \in Matches /\ t.zone \in Known(rec) /\ t.zone \in Zones
  BY DEF ZoneInv, Sound, Reads, Quote, At, OnZone
<1>2. PICK p \in Places \ {"far"}, broke \in BOOLEAN :
        task' = [task EXCEPT ![a] =
          Begin([t EXCEPT !.place = p], Presence(p = "reach", broke), "gates")]
  BY DEF Quote
<1> DEFINE s == [t EXCEPT !.place = p]  op == Presence(p = "reach", broke)
           n == Begin(s, op, "gates")
<1>3. /\ cand' \in [Zones -> Matches \cup {None}] /\ t.match # None
      /\ \A z \in Zones : cand'[z] = IF z = t.zone THEN t.match ELSE cand[z]
  BY <1>1, Distinct DEF WorldOK
<1>4. WorldOK'
  BY <1>1, <1>3 DEF WorldOK, Closed, Known
<1>5. s \in TaskType /\ s.zone = t.zone /\ s.match = t.match /\ Reads(s, rec)
  BY <1>1 DEF TaskType, Reads
<1>6. op \in Ops /\ op.kind = "presence" /\ "gates" \in Thens
  <2>1. (p = "reach") \in BOOLEAN
    OBVIOUS
  <2> QED
    BY <2>1, OpsTyped DEF Thens
<1>7. Sound(a, n, rec', cand', index', stray')
  <2> HIDE DEF s, op
  <2>1. cand'[s.zone] # None /\ s.zone \in Zones
    BY <1>1, <1>3, <1>5
  <2> QED
    BY <1>1, <1>5, <1>6, <2>1, BeginSound
<1> HIDE DEF n
<1>8. n \in TaskType /\ task' = [task EXCEPT ![a] = n]
  BY <1>2, <1>7 DEF n, Sound
<1>9. ASSUME NEW b \in Tasks PROVE Sound(b, task'[b], rec', cand', index', stray')
  <2>1. CASE b = a
    BY <1>7, <1>8, <2>1 DEF ZoneInv
  <2>2. CASE b # a
    <3>1. task'[b] = task[b] /\ Sound(b, task[b], rec, cand, index, stray) /\ b # "bar"
      BY <1>1, <1>8, <2>2 DEF ZoneInv
    <3> QED
      BY <1>1, <1>3, <3>1 DEF Sound, OnZone
  <2> QED
    BY <2>1, <2>2
<1> QED
  BY <1>4, <1>8, <1>9 DEF ZoneInv

-----------------------------------------------------------------------------
(* Writes.                                                                    *)

LEMMA LoadZone ==
  ASSUME ZoneInv, NEW a \in Tasks, Load(a)
  PROVE  ZoneInv'
<1> DEFINE t == task[a]  r == rec[t.zone]
           s == [t EXCEPT !.snap = r]
           n == [t EXCEPT !.pc = "save", !.snap = r, !.fresh = TRUE]
<1>1. /\ t.pc = "load" /\ t \in TaskType /\ Sound(a, t, rec, cand, index, stray)
      /\ Reads(t, rec) /\ WorldOK /\ t.zone \in Zones /\ r \in Records \cup {None}
      /\ UNCHANGED <<rec, stray, index, built, cand, plan>>
  BY DEF ZoneInv, Sound, Reads, Load, At, OnZone, Writing, WorldOK
<1>2. CASE task' = [task EXCEPT ![a] = NextZone(t)] \/ task' = [task EXCEPT ![a] = Resting]
  BY <1>1, <1>2, FinishStep
<1>3. CASE r # None /\ task' = [task EXCEPT ![a] = After(s, r)]
  <2>1. /\ s \in TaskType /\ s.zone = t.zone /\ s.match = t.match /\ Reads(s, rec)
        /\ s.then = t.then /\ s.snap = r
    BY <1>1 DEF TaskType, Reads
  <2>2. t.zone \in Known(rec)
    BY <1>1, <1>3 DEF Known
  <2> HIDE DEF s
  <2>3. /\ s.then \in {"watch", "candidate"} => a = "bar" /\ s.match \in Matches
        /\ s.then \in {"gates", "verdict"} => s.match \in Matches /\ cand[s.zone] # None
        /\ s.snap # None /\ s.zone \in Known(rec)
    BY <1>1, <1>3, <2>1, <2>2 DEF Sound, Writing
  <2>4. Sound(a, After(s, r), rec, cand, index, stray)
    BY <2>1, <2>3, AfterSound
  <2> QED
    BY <1>1, <1>3, <2>4, TaskStep
<1>4. CASE task' = [task EXCEPT ![a] = n]
  <2>1. /\ n \in TaskType /\ n.pc = "save" /\ n.zone = t.zone /\ n.match = t.match
        /\ n.then = t.then /\ n.op = t.op /\ n.seen = t.seen /\ n.drop = t.drop
    BY <1>1 DEF TaskType, Steps
  <2> HIDE DEF n
  <2>2. Sound(a, n, rec, cand, index, stray)
    BY <1>1, <2>1 DEF Sound, Writing, OnZone, Visit, Moves
  <2> QED
    BY <1>1, <1>4, <2>2, TaskStep
<1> QED
  BY <1>2, <1>3, <1>4 DEF Load

(* What a write of record r for zone z does to the world.                     *)
LEMMA WrittenWorld ==
  ASSUME WorldOK, NEW z \in Zones, NEW r \in Records, Written(z, r),
         UNCHANGED <<built, cand, plan>>,
         z \in Closed(rec) => r.state \in Terminal \cup Locked,
         r.state \in Locked => cand[z] # None
  PROVE  WorldOK' /\ Onward(rec, index, stray, rec', index', stray') /\ z \in Known(rec')
<1>1. /\ rec' \in [Zones -> Records \cup {None}]
      /\ \A y \in Zones : rec'[y] = IF y = z THEN r ELSE rec[y]
  BY DEF Written, WorldOK
<1>2. /\ index' \in [global : SUBSET Zones, symbol : SUBSET Zones]
      /\ \A y \in Zones \ {z} : /\ y \in index'.global <=> y \in index.global
                                /\ y \in index'.symbol <=> y \in index.symbol
      /\ z \in index'.global <=> Wanted(r)
      /\ z \in index'.symbol <=> Wanted(r)
  BY DEF Written, WorldOK
<1>3. /\ Known(rec') = Known(rec) \cup {z}
      /\ \A y \in Zones \ {z} : /\ y \in Closed(rec') <=> y \in Closed(rec)
                                /\ y \in Watched(rec') <=> y \in Watched(rec)
      /\ z \in Watched(rec') <=> Wanted(r)
      /\ z \in Closed(rec') <=> r.state \in Terminal \cup Locked
  BY <1>1, KnownRecords DEF Known, Closed, Watched
<1>4. /\ Known(rec) \subseteq Zones /\ Closed(rec) \subseteq Zones
      /\ Watched(rec') \subseteq Zones /\ Closed(rec') \subseteq Zones
  BY DEF Known, Closed, Watched
<1>9. /\ stray' = stray \ {z} /\ index.global \subseteq Zones /\ index.symbol \subseteq Zones
      /\ Wanted(r) \/ r.state \in Terminal \cup Locked
  BY KnownRecords DEF Written, WorldOK, Wanted, Records
<1>5. Onward(rec, index, stray, rec', index', stray')
  BY <1>2, <1>3, <1>4, <1>9 DEF Onward, Listable
<1>6. \A y \in Closed(rec') : rec'[y].state \in Locked => cand'[y] # None
  BY <1>1, <1>3, <1>4 DEF WorldOK
<1>7. /\ \A y \in Zones : cand'[y] # None => y \in Known(rec')
      /\ stray' \subseteq Zones
      /\ Listable(rec', stray') \subseteq index'.global
      /\ index'.global \cup index'.symbol \subseteq Known(rec')
      /\ built'.symbol => Listable(rec', stray') \subseteq index'.symbol
  BY <1>2, <1>3, <1>4, <1>9 DEF WorldOK, Listable
<1>8. WorldOK'
  BY <1>1, <1>2, <1>6, <1>7 DEF WorldOK
<1> QED
  BY <1>3, <1>5, <1>8

LEMMA OutdatedSound ==
  ASSUME ZoneInv, NEW z, NEW b \in Tasks, NEW rc, NEW ix, NEW st,
         Onward(rec, index, stray, rc, ix, st)
  PROVE  Sound(b, Outdated(z)[b], rc, cand, ix, st)
<1> DEFINE t == task[b]  n == [t EXCEPT !.fresh = FALSE]
<1>1. Sound(b, t, rc, cand, ix, st) /\ t \in TaskType
  BY SoundCarried DEF ZoneInv
<1>2. /\ n \in TaskType /\ n.pc = t.pc /\ n.zone = t.zone /\ n.match = t.match
      /\ n.then = t.then /\ n.op = t.op /\ n.seen = t.seen /\ n.drop = t.drop
  BY <1>1 DEF TaskType
<1>3. Outdated(z)[b] = t \/ Outdated(z)[b] = n
  BY DEF Outdated
<1> HIDE DEF n
<1>4. Sound(b, n, rc, cand, ix, st)
  BY <1>1, <1>2 DEF Sound, Moves
<1> QED
  BY <1>1, <1>3, <1>4

\* What a step may do to the memory of a retest.
Remembers(r, r2) ==
  /\ r2 # None /\ r2.touches >= r.touches
  /\ r.grade = "B" => r2.grade = "B"

LEMMA SameRemembers ==
  ASSUME NEW r \in Records PROVE Remembers(r, r)
BY KnownRecords, Bounds DEF Remembers, Records

LEMMA SaveZone ==
  ASSUME ZoneInv, FreshInv, NEW a \in Tasks, Save(a)
  PROVE  /\ ZoneInv'
         /\ \A z \in Zones : rec[z] # None => Remembers(rec[z], rec'[z])
<1> DEFINE t == task[a]  r == Applied(t.op, t.snap)  s == [t EXCEPT !.fresh = FALSE]
           n == [t EXCEPT !.pc = "load", !.snap = None]
<1>1. /\ t.pc = "save" /\ t \in TaskType /\ Sound(a, t, rec, cand, index, stray)
      /\ Reads(t, rec) /\ WorldOK /\ t.zone \in Zones /\ t.op \in Ops
      /\ rec[t.zone] \in Records \cup {None}
      /\ UNCHANGED <<built, cand, plan>>
  BY DEF ZoneInv, Sound, Reads, Save, At, OnZone, Writing, WorldOK, TaskType
<1>2. CASE Current(a)
  <2>1. /\ Written(t.zone, r)
        /\ task' = [Outdated(t.zone) EXCEPT ![a] = After(s, r)]
    BY <1>2 DEF Save
  <2>2. /\ t.snap = rec[t.zone] /\ ~Raises(t.op, t.snap)
        /\ t.snap # None => ~Idle(t.op, t.snap)
    BY <1>1, <1>2 DEF Current, FreshInv, UpToDate
  <2>3. r \in Records
    BY <1>1, <2>2, AppliedTyped
  <2>4. t.zone \in Closed(rec) => r.state \in Terminal \cup Locked
    <3>1. SUFFICES ASSUME t.zone \in Closed(rec)
                   PROVE  r.state \in Terminal \cup Locked
      OBVIOUS
    <3>2. /\ t.snap \in Records /\ t.snap # None
          /\ t.snap.state \in Terminal \cup Locked
      BY <1>1, <2>2, <3>1 DEF Closed, Known
    <3>3. ASSUME t.op.kind = "move", t.op.to = "watching_retest"
          PROVE  FALSE
      <4>1. cand[t.zone] = None
        BY <1>1, <3>3 DEF Sound, Writing, Moves
      <4>2. t.snap.state \in Terminal
        BY <1>1, <2>2, <3>1, <3>2, <4>1 DEF WorldOK
      <4>3. t.op.to \notin Transitions[t.snap.state] \cup {t.snap.state}
        BY <3>3, <4>2 DEF Transitions, Terminal, States
      <4> QED
        BY <2>2, <3>2, <3>3, <4>3 DEF Raises
    <3> QED
      BY <1>1, <2>2, <3>2, <3>3, AppliedCloses
  <2>5. r.state \in Locked => cand[t.zone] # None
    <3>1. SUFFICES ASSUME r.state \in Locked PROVE cand[t.zone] # None
      OBVIOUS
    <3>2. CASE t.snap # None /\ t.snap.state \in Locked
      BY <1>1, <2>2, <3>2 DEF WorldOK, Closed, Known
    <3>3. CASE t.op.kind = "move" /\ t.op.to = "published_locked"
      BY <1>1, <3>3 DEF Sound, Writing, Moves
    <3> QED
      BY <1>1, <2>2, <3>1, <3>2, <3>3, AppliedLocks
  <2> HIDE DEF r
  <2>6. WorldOK' /\ Onward(rec, index, stray, rec', index', stray') /\ t.zone \in Known(rec')
    BY <1>1, <2>1, <2>3, <2>4, <2>5, WrittenWorld
  <2>7. Sound(a, After(s, r), rec', cand', index', stray')
    <3>1. /\ s \in TaskType /\ s.zone = t.zone /\ s.match = t.match
          /\ s.then = t.then /\ s.snap = t.snap /\ s.seen = t.seen /\ s.drop = t.drop
      BY <1>1 DEF TaskType
    <3>2. Reads(s, rec')
      BY <1>1, <2>6, <3>1 DEF Reads, Onward
    <3>3. t.snap = None => cand[t.zone] = None
      BY <1>1, <2>2 DEF WorldOK, Known
    <3>4. /\ t.then \in {"watch", "candidate"} => a = "bar" /\ t.match \in Matches
          /\ t.then \in {"gates", "verdict"} => t.match \in Matches /\ cand[t.zone] # None
      BY <1>1 DEF Sound, Writing
    <3> HIDE DEF s
    <3> QED
      BY <1>1, <2>6, <3>1, <3>2, <3>3, <3>4, AfterSound
  <2>8. ASSUME NEW b \in Tasks PROVE Sound(b, task'[b], rec', cand', index', stray')
    <3>1. CASE b = a
      BY <2>1, <2>7, <3>1 DEF Outdated
    <3>2. CASE b # a
      <4>1. task'[b] = Outdated(t.zone)[b]
        BY <2>1, <3>2 DEF Outdated
      <4> QED
        BY <1>1, <2>6, <4>1, OutdatedSound
    <3> QED
      BY <3>1, <3>2
  <2>9. task' \in [Tasks -> TaskType]
    <3>1. DOMAIN task' = Tasks /\ task' = [b \in DOMAIN task' |-> task'[b]]
      BY <2>1 DEF Outdated
    <3> QED
      BY <2>8, <3>1 DEF Sound
  <2>10. ASSUME NEW z \in Zones, rec[z] # None PROVE Remembers(rec[z], rec'[z])
    <3>1. rec[z] \in Records
      BY <1>1, <2>10 DEF WorldOK
    <3>2. CASE z = t.zone
      <4>1. rec'[z] = r
        BY <1>1, <2>1, <3>2 DEF Written, WorldOK
      <4> QED
        BY <1>1, <2>2, <2>3, <3>1, <3>2, <4>1, AppliedKeeps, KnownRecords DEF Remembers, r
    <3>3. CASE z # t.zone
      <4>1. rec'[z] = rec[z]
        BY <1>1, <2>1, <3>3 DEF Written, WorldOK
      <4> QED
        BY <3>1, <4>1, SameRemembers
    <3> QED
      BY <3>2, <3>3
  <2> QED
    BY <2>6, <2>8, <2>9, <2>10 DEF ZoneInv
<1>3. CASE ~Current(a)
  <2>1. task' = [task EXCEPT ![a] = n] /\ UNCHANGED <<rec, stray, index, built, cand, plan>>
    BY <1>1, <1>3 DEF Save, ZoneInv
  <2>2. /\ n \in TaskType /\ n.pc = "load" /\ n.zone = t.zone /\ n.match = t.match
        /\ n.then = t.then /\ n.op = t.op /\ n.seen = t.seen /\ n.drop = t.drop
    BY <1>1 DEF TaskType, Steps
  <2> HIDE DEF n
  <2>3. Sound(a, n, rec, cand, index, stray)
    BY <1>1, <2>2 DEF Sound, Writing, OnZone, Visit, Moves
  <2>4. ZoneInv'
    BY <2>1, <2>3, TaskStep
  <2> QED
    BY <1>1, <2>1, <2>4, SameRemembers DEF WorldOK
<1> QED
  BY <1>2, <1>3

(* An outcome reaches a locked zone only, and only to consume it: the events  *)
(* of plans name no zone, and a rejection ends at the card.                   *)
LEMMA OutcomeZone ==
  ASSUME ZoneInv, NEW z \in Zones, DeliverCandidateEvent(z)
  PROVE  /\ ZoneInv'
         /\ \A y \in Zones : rec[y] # None => Remembers(rec[y], rec'[y])
<1>1. CASE UNCHANGED <<rec, stray, index, task>>
  BY <1>1, SameRemembers DEF ZoneInv, WorldOK, DeliverCandidateEvent
<1>2. CASE Reaches("opened", z) /\ ApplyOutcome("opened", z)
  <2> DEFINE r == [rec[z] EXCEPT !.state = "consumed"]
  <2>1. /\ Written(z, r) /\ task' = Outdated(z) /\ WorldOK /\ rec[z] \in Records
        /\ UNCHANGED <<built, cand, plan>>
    BY <1>2 DEF ApplyOutcome, Outcome, Reaches, ZoneInv, WorldOK, DeliverCandidateEvent
  <2>2. /\ r \in Records /\ r.state = "consumed" /\ r.touches = rec[z].touches
        /\ r.grade = rec[z].grade
    BY <2>1 DEF Records, States
  <2> HIDE DEF r
  <2>3. Remembers(rec[z], r)
    BY <2>1, <2>2, SameRemembers, KnownRecords DEF Remembers
  <2>4. /\ "consumed" \in Terminal \cup Locked /\ "consumed" \notin Locked
    BY DEF Terminal, Locked
  <2>5. WorldOK' /\ Onward(rec, index, stray, rec', index', stray')
    BY <2>1, <2>2, <2>4, WrittenWorld
  <2>6. ASSUME NEW b \in Tasks PROVE Sound(b, task'[b], rec', cand', index', stray')
    BY <2>1, <2>5, OutdatedSound
  <2>7. task' \in [Tasks -> TaskType]
    BY <2>1, <2>6 DEF Outdated, Sound
  <2>8. ASSUME NEW y \in Zones, rec[y] # None PROVE Remembers(rec[y], rec'[y])
    <3>1. /\ rec[y] \in Records
          /\ rec'[y] = IF y = z THEN r ELSE rec[y]
      BY <2>1, <2>8 DEF WorldOK, Written
    <3> QED
      BY <2>3, <3>1, SameRemembers
  <2> QED
    BY <2>5, <2>6, <2>7, <2>8 DEF ZoneInv
<1>3. ~Reaches("rejected", z)
  BY DEF Reaches, CardTerminal
<1> QED
  BY <1>1, <1>2, <1>3 DEF DeliverCandidateEvent, ApplyOutcome

(* Plans end, their outcomes are delivered, markers run out.                  *)
LEMMA WorldTurns ==
  ASSUME ZoneInv,
         \/ \E m \in Matches : PlanEnds(m) \/ DeliverPlanEvent(m)
         \/ MarkerExpires \/ UNCHANGED vars
  PROVE  ZoneInv' /\ rec' = rec
<1>1. UNCHANGED <<rec, stray, index, cand, task>>
  <2>1. \A type : ~Reaches(type, None)
    BY DEF Reaches
  <2> QED
    BY <2>1 DEF PlanEnds, DeliverPlanEvent, ApplyOutcome, MarkerExpires, vars
<1>2. /\ built' \in [global : BOOLEAN, symbol : BOOLEAN]
      /\ built'.symbol => built.symbol
  <2>1. built \in [global : BOOLEAN, symbol : BOOLEAN]
    BY DEF ZoneInv, WorldOK
  <2>2. CASE built' = built
    BY <2>1, <2>2
  <2>3. CASE \E k \in {"global", "symbol"} : built' = [built EXCEPT ![k] = FALSE]
    BY <2>1, <2>3
  <2> QED
    BY <2>2, <2>3 DEF PlanEnds, DeliverPlanEvent, MarkerExpires, vars
<1>3. plan' \in [Matches -> [state : {"none", "live", "ended", "over"}, zone : Zones \cup {None}]]
  <2>1. plan \in [Matches -> [state : {"none", "live", "ended", "over"}, zone : Zones \cup {None}]]
    BY DEF ZoneInv, WorldOK
  <2>2. CASE plan' = plan
    BY <2>1, <2>2
  <2>3. CASE \E m \in Matches, s \in {"ended", "over"} : plan' = [plan EXCEPT ![m].state = s]
    BY <2>1, <2>3
  <2> QED
    BY <2>2, <2>3 DEF PlanEnds, DeliverPlanEvent, MarkerExpires, vars
<1>4. WorldOK'
  BY <1>1, <1>2, <1>3 DEF ZoneInv, WorldOK
<1> QED
  BY <1>1, <1>4 DEF ZoneInv

LEMMA InitZone == Init => ZoneInv
<1> SUFFICES ASSUME Init PROVE ZoneInv
  OBVIOUS
<1> DEFINE old == [Discovered("A") EXCEPT !.state = "watching_retest"]
<1>1. old \in Records /\ Wanted(old) /\ old # None
  <2>1. Discovered("A") \in Records /\ Discovered("A").grade = "A"
    BY DiscoveredTyped DEF Grades, Discovered
  <2>2. old \in Records /\ old.state = "watching_retest" /\ old.grade = "A"
    BY <2>1 DEF Records, States
  <2> QED
    BY <2>2, KnownRecords DEF Wanted, Terminal, Locked, Grades
<1> HIDE DEF old
<1>2. PICK legacy \in SUBSET Zones :
        /\ rec = [z \in Zones |-> IF z \in legacy THEN old ELSE None]
        /\ stray \in SUBSET legacy
        /\ index = [global |-> legacy \ stray, symbol |-> {}]
  BY DEF Init, old
<1>3. /\ Known(rec) = legacy /\ Watched(rec) = legacy /\ Closed(rec) = {}
  <2>1. Known(rec) = legacy /\ Watched(rec) = legacy
    BY <1>1, <1>2 DEF Known, Watched, Wanted
  <2> QED
    BY <1>1, <1>2, <2>1 DEF Closed, Wanted
<1>4. /\ built = [global |-> FALSE, symbol |-> FALSE] /\ cand = [z \in Zones |-> None]
      /\ plan = [m \in Matches |-> [state |-> "none", zone |-> None]]
      /\ task = [a \in Tasks |-> Resting]
  BY DEF Init
<1>5. WorldOK
  <2>1. rec \in [Zones -> Records \cup {None}]
    BY <1>1, <1>2
  <2>2. plan \in [Matches -> [state : {"none", "live", "ended", "over"}, zone : Zones \cup {None}]]
    BY <1>4
  <2> QED
    BY <1>2, <1>3, <1>4, <2>1, <2>2 DEF WorldOK, Listable
<1>6. \A a \in Tasks : Sound(a, task[a], rec, cand, index, stray)
  BY <1>4, RestingSound
<1> QED
  BY <1>4, <1>5, <1>6 DEF ZoneInv, Sound

LEMMA NextZoneInv ==
  ASSUME ZoneInv, FreshInv, [Next]_vars
  PROVE  /\ ZoneInv'
         /\ \A z \in Zones : rec[z] # None => Remembers(rec[z], rec'[z])
<1>1. ASSUME rec' = rec
      PROVE  \A z \in Zones : rec[z] # None => Remembers(rec[z], rec'[z])
  BY <1>1, SameRemembers DEF ZoneInv, WorldOK
<1>2. ASSUME NEW a \in Tasks, Load(a) PROVE ZoneInv' /\ rec' = rec
  BY <1>2, LoadZone DEF Load
<1>3. ASSUME NEW a \in Tasks,
             \/ Scan(a) \/ Rebuild(a) \/ Join(a) \/ Unlist(a) \/ Reread(a)
             \/ Fetch(a) \/ Repair(a) \/ Commit(a) \/ Members(a) \/ Mget(a) \/ Evict(a)
      PROVE  ZoneInv' /\ rec' = rec
  BY <1>3, ScanZone, RebuildZone, JoinZone, UnlistZone, ListingZone DEF Scan, Rebuild, Join, Unlist, Reread, Fetch, Repair, Commit, Members, Mget, Evict
<1>4. ASSUME NEW a \in Tasks,
             Gates(a) \/ Verdict(a) \/ Recheck(a) \/ Terminalize(a) \/ Activate(a)
      PROVE  ZoneInv' /\ rec' = rec
  BY <1>4, GatesZone DEF Gates, Verdict, Recheck, Terminalize, Activate
<1>5. ASSUME NEW a \in Tasks, Pick(a) \/ Quote(a) \/ Publish(a) \/ LockCheck(a)
      PROVE  ZoneInv' /\ rec' = rec
  BY <1>5, PickZone, QuoteZone, PublishZone, LockCheckZone DEF Pick, Quote, Publish, LockCheck
<1>6. ASSUME NEW a \in Tasks, Evaluate(a) \/ Sync(a) \/ Abort(a)
      PROVE  ZoneInv' /\ rec' = rec
  BY <1>6, EvaluateZone, SyncZone, AbortZone DEF Evaluate, Sync, Abort
<1>7. CASE \E a \in Tasks : Work(a) \/ Evaluate(a) \/ Sync(a) \/ Abort(a)
  BY <1>1, <1>2, <1>3, <1>4, <1>5, <1>6, <1>7, SaveZone DEF Work
<1>8. CASE \/ \E m \in Matches : PlanEnds(m) \/ DeliverPlanEvent(m)
           \/ MarkerExpires \/ UNCHANGED vars
  BY <1>1, <1>8, WorldTurns
<1>9. CASE \E z \in Zones : DeliverCandidateEvent(z)
  BY <1>9, OutcomeZone
<1> QED
  BY <1>7, <1>8, <1>9 DEF Next

-----------------------------------------------------------------------------
LEMMA ZoneInvariance == Spec => [](ZoneInv /\ FreshInv)
<1>1. ZoneInv /\ FreshInv /\ [Next]_vars => (ZoneInv /\ FreshInv)'
  BY NextZoneInv, FreshStep
<1> QED
  BY InitZone, FreshInit, <1>1, PTL DEF Spec

\* Every record, index, marker, plan and task keeps its type, whatever the
\* tasks interleave (_mutate, discover_zone_watch, evaluate_active_zone_watches).
THEOREM ZoneTypeCorrect == Spec => []TypeOK
<1>1. ZoneInv => TypeOK
  BY DEF ZoneInv, WorldOK, TypeOK
<1> QED
  BY ZoneInvariance, <1>1, PTL

\* While its marker says it was rebuilt, the symbol index lists every watched
\* zone but those that stood in no index at the start and neither a write nor a
\* rebuild has listed yet (_ensure_symbol_zone_watch_index).
THEOREM MarkedIndexComplete == Spec => []MarkedIndexIsComplete
<1>1. ZoneInv => MarkedIndexIsComplete
  BY DEF ZoneInv, WorldOK, MarkedIndexIsComplete, Watched, Listable
<1> QED
  BY ZoneInvariance, <1>1, PTL

LEMMA ListedStay ==
  ASSUME ZoneInv, [Next]_vars
  PROVE  \A k \in DOMAIN index : \A z \in index[k] : Wanted(rec'[z]) => z \in index'[k]
<1>1. /\ index \in [global : SUBSET Zones, symbol : SUBSET Zones] /\ DOMAIN rec = Zones
      /\ \A a \in Tasks : /\ task[a].drop \subseteq Closed(rec)
                          /\ task[a].pc = "unlist" => task[a].zone \in Closed(rec)
  BY DEF ZoneInv, WorldOK, Sound
<1>2. CASE UNCHANGED index
  BY <1>2
<1>3. CASE \E a \in Tasks : Rebuild(a) \/ Join(a)
  BY <1>1, <1>3 DEF Rebuild, Join
<1>4. CASE \E a \in Tasks : Unlist(a) \/ Repair(a) \/ Commit(a) \/ Evict(a)
  <2>1. \A z \in Closed(rec) : ~Wanted(rec[z])
    BY DEF Closed, Wanted
  <2>2. rec' = rec
    BY <1>4 DEF Unlist, Repair, Commit, Evict
  <2>3. PICK gone \in SUBSET Closed(rec) :
          index.global \ gone \subseteq index'.global /\ index.symbol \ gone \subseteq index'.symbol
    <3>1. CASE \E a \in Tasks : Unlist(a)
      BY <1>1, <3>1 DEF Unlist, At
    <3>2. CASE \E a \in Tasks : Repair(a) \/ Commit(a) \/ Evict(a)
      BY <1>1, <3>2 DEF Repair, Commit, Evict
    <3> QED
      BY <1>4, <3>1, <3>2
  <2> QED
    BY <1>1, <2>1, <2>2, <2>3
<1>5. ASSUME NEW z, NEW r, Written(z, r)
      PROVE  \A k \in DOMAIN index : \A y \in index[k] : Wanted(rec'[y]) => y \in index'[k]
  BY <1>1, <1>5 DEF Written
<1>6. \/ UNCHANGED index
      \/ \E a \in Tasks : \/ Rebuild(a) \/ Join(a) \/ Unlist(a)
                           \/ Repair(a) \/ Commit(a) \/ Evict(a)
      \/ \E z, r : Written(z, r)
  BY DEF Next, vars, Work, Load, Save, Scan, Reread, Fetch, Members, Mget, Pick, Quote, Gates,
         Verdict, Recheck, Terminalize, Activate, Publish, LockCheck, Evaluate, Sync, Abort,
         PlanEnds, DeliverPlanEvent, DeliverCandidateEvent, ApplyOutcome, MarkerExpires
<1> QED
  BY <1>2, <1>3, <1>4, <1>5, <1>6

\* No listing, repair or rebuild that works on an old read takes a watched zone
\* out of an index: what it drops was closed when read, and a closed zone is
\* never watched again (list_active_zone_watches, _rebuild_zone_watch_index).
THEOREM ListedZonesStay == Spec => WatchedStaysListed
<1>1. ZoneInv /\ [Next]_vars =>
        [\A k \in DOMAIN index : \A z \in index[k] :
           Wanted(rec'[z]) => z \in index'[k]]_vars
  BY ListedStay
<1> QED
  BY ZoneInvariance, <1>1, PTL DEF Spec, WatchedStaysListed

\* Concurrent visits and rediscoveries never lower the touch count of a zone,
\* restore a dropped grade or remove its record (record_zone_presence).
THEOREM RetestKept == Spec => RetestMemoryKept
<1>1. ZoneInv /\ FreshInv /\ [Next]_vars =>
        [\A z \in Zones : rec[z] # None =>
           /\ rec'[z] # None
           /\ rec'[z].touches >= rec[z].touches
           /\ rec[z].grade = "B" => rec'[z].grade = "B"]_vars
  BY NextZoneInv DEF Remembers
<1> QED
  BY ZoneInvariance, <1>1, PTL DEF Spec, RetestMemoryKept
=============================================================================
