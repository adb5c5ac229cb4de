------------------------- MODULE ScalpLedger_proofs -------------------------
(* Proofs about ScalpLedger for any number of groups, any limits, any bounds  *)
(* on events and backlog and any number of faults.                            *)
EXTENDS ScalpLedger, TLAPS

-----------------------------------------------------------------------------
(* The ledger's R. Both tasks keep a copy of the ledger between their read    *)
(* and their write; an accrual is lost only by a write of the M1 cycle whose  *)
(* copy is older, and that sets `blurred`.                                    *)

Fields == {"groups", "open", "r", "losses"}

Parts ==
  /\ DOMAIN risk = Fields
  /\ \A t \in {stats, bar} : DOMAIN t = {"step", "copy"} /\ DOMAIN t.copy = Fields

Sums ==
  ~blurred => /\ risk.r = due
              /\ stats.step = "loaded" => stats.copy.r = risk.r

SumsInv == Parts /\ Sums

LEMMA CooledSameR ==
  ASSUME NEW l, DOMAIN l = Fields, NEW c \in BOOLEAN
  PROVE  /\ DOMAIN CooldownReset(l, c) = Fields
         /\ CooldownReset(l, c).r = l.r
BY DEF CooldownReset, Fields

LEMMA ReconciledSameR ==
  ASSUME NEW l, DOMAIN l = Fields, NEW live
  PROVE  /\ DOMAIN ReconcileOpenPositions(l, live) = Fields
         /\ ReconcileOpenPositions(l, live).r = l.r
BY DEF ReconcileOpenPositions, Fields

LEMMA OutcomeAddsR ==
  ASSUME NEW l, DOMAIN l = Fields, NEW e
  PROVE  /\ DOMAIN RecordScalpOutcome(l, e) = Fields
         /\ RecordScalpOutcome(l, e).r =
              IF e.type = "fill" THEN l.r ELSE l.r + RealizedR(trace[e.g])
<1>1. CASE e.type = "fill"
  BY <1>1 DEF RecordScalpOutcome, Opened, Fields
<1>2. CASE e.type # "fill"
  <2> DEFINE r == RealizedR(trace[e.g])
  <2>1. RecordScalpOutcome(l, e) = Accrued(l, e.g, r)
    BY <1>2 DEF RecordScalpOutcome
  <2> HIDE DEF r
  <2>2. DOMAIN Accrued(l, e.g, r) = Fields /\ Accrued(l, e.g, r).r = l.r + r
    BY DEF Accrued, Fields
  <2> QED
    BY <1>2, <2>1, <2>2 DEF r
<1> QED
  BY <1>1, <1>2

LEMMA IdleParts == DOMAIN Idle = {"step", "copy"} /\ DOMAIN Idle.copy = Fields /\ Idle.step = "idle"
BY DEF Idle, EmptyLedger, Fields

LEMMA IdleAt ==
  ASSUME NEW step
  PROVE  /\ DOMAIN [Idle EXCEPT !.step = step] = {"step", "copy"}
         /\ [Idle EXCEPT !.step = step].step = step
         /\ DOMAIN [Idle EXCEPT !.step = step].copy = Fields
BY DEF Idle, EmptyLedger, Fields

LEMMA SumsInit == Init => SumsInv
BY IdleParts DEF Init, SumsInv, Parts, Sums, EmptyLedger, Fields

LEMMA SumsStep == SumsInv /\ [Next]_vars => SumsInv'
<1> SUFFICES ASSUME SumsInv, [Next]_vars
             PROVE  SumsInv'
  OBVIOUS
<1> USE DEF SumsInv
<1>1. ASSUME UNCHANGED <<risk, stats, bar, due, blurred>>
      PROVE  SumsInv'
  BY <1>1 DEF Parts, Sums
<1>2. CASE RecordEvent
  BY <1>2, IdleParts DEF RecordEvent, Parts, Sums, Fields
<1>3. CASE SaveLedger
  <2>1. /\ DOMAIN risk' = Fields
        /\ risk'.r = IF Entry.type = "fill" THEN stats.copy.r
                     ELSE stats.copy.r + RealizedR(trace[Entry.g])
    BY <1>3, OutcomeAddsR DEF SaveLedger, Parts
  <2> QED
    BY <1>3, <2>1, IdleParts DEF SaveLedger, Parts, Sums
<1>4. CASE AdvanceCursor
  BY <1>4, IdleParts DEF AdvanceCursor, Parts, Sums
<1>5. CASE JournalFails
  BY <1>1, <1>5 DEF JournalFails
<1>6. CASE LedgerFails
  <2>1. blurred' /\ risk' = risk /\ bar' = bar
    BY <1>6 DEF LedgerFails, Blur
  <2>2. stats' = [Idle EXCEPT !.step = "saved"]
    BY <1>6 DEF LedgerFails
  <2> QED
    BY <2>1, <2>2, IdleAt DEF Parts, Sums
<1>7. CASE BarLoads
  BY <1>7, CooledSameR DEF BarLoads, Parts, Sums
<1>8. ASSUME NEW live, Decides(live)
      PROVE  SumsInv'
  <2>1. /\ DOMAIN risk' = Fields /\ risk'.r = bar.copy.r
    BY <1>8, ReconciledSameR DEF Decides, Parts
  <2>2. ~blurred' => ~blurred /\ risk'.r = risk.r /\ due' = due
    BY <1>8, <2>1 DEF Decides, Blur
  <2>3. bar' = Idle \/ bar' = [Idle EXCEPT !.step = "publish"]
    BY <1>8 DEF Decides
  <2>4. stats' = stats
    BY <1>8 DEF Decides
  <2> QED
    BY <2>1, <2>2, <2>3, <2>4, IdleParts DEF Parts, Sums
<1>9. CASE NothingToPublish \/ \E g \in Groups : Publish(g)
  BY <1>9, IdleParts DEF NothingToPublish, Publish, Parts, Sums
<1>10. CASE Restart
  BY <1>10, IdleParts DEF Restart, Blur, Parts, Sums
<1>11. ASSUME NEW g \in Groups,
              \/ OrderFills(g) \/ FillReported(g) \/ OrderCancelled(g)
              \/ TargetBooked(g) \/ PartlyClosed(g) \/ PlanCloses(g)
       PROVE  SumsInv'
  BY <1>1, <1>11 DEF OrderFills, FillReported, OrderCancelled, TargetBooked,
                     PartlyClosed, PlanCloses, bot
<1>12. CASE UNCHANGED vars
  BY <1>1, <1>12 DEF vars, bot
<1> QED
  BY <1>2, <1>3, <1>4, <1>5, <1>6, <1>7, <1>8, <1>9, <1>10, <1>11, <1>12
     DEF Next, Stats, Bar, BarSaves, ExposureFails

(* The R in the ledger is the sum of the handled closes unless an accrual was *)
(* overwritten, skipped or repeated (stats_ingestion.py, risk.py).            *)
THEOREM LedgerSums == Spec => []LedgerAddsUp
<1>1. SumsInv => LedgerAddsUp
  BY DEF SumsInv, Sums, LedgerAddsUp
<1> QED
  BY SumsInit, SumsStep, <1>1, PTL DEF Spec
-----------------------------------------------------------------------------
(* The journal. A closed plan is told there, or the event that will tell it   *)
(* is still in the stream; what was told stays told, because a win is never   *)
(* written over. The entry under way is in the stream until the cursor moves, *)
(* and it is told from its first step on.                                     *)

Events == [g : Groups, type : {"fill", "tp", "partial", "closed"},
           exit : {"none", "stop", "target", "manual"},
           pips : {"none", "win", "loss"}]

Journals == [Groups -> [fill : BOOLEAN, row : {"none", "win", "loss"}]]

Shape ==
  /\ plan \in [Groups -> {"none", "pending", "open", "closed", "cancelled"}]
  /\ booked \subseteq Groups
  /\ journal \in Journals
  /\ stream \in Seq(Events)
  /\ \A i \in 1..Len(stream) :
       /\ stream[i].type \in Closing => stream[i].pips # "none"
       /\ stream[i].type = "closed" => plan[stream[i].g] = "closed"

TruthIn(row, g) == IF g \in booked THEN row = "win" ELSE row # "none"
Told(g) == TruthIn(journal[g].row, g)

Tells(e, g) == e.g = g /\ e.type = "closed" /\ (g \in booked => e.pips = "win")

ToldOrSent ==
  \A g \in Groups : plan[g] = "closed" =>
     Told(g) \/ \E i \in 1..Len(stream) : Tells(stream[i], g)

EntryIsTold ==
  stats.step # "idle" =>
     /\ stream # <<>>
     /\ \A g \in Groups : plan[g] = "closed" /\ Tells(stream[1], g) => Told(g)

JournalInv == Shape /\ ToldOrSent /\ EntryIsTold

LEMMA JournalInit == Init => JournalInv
BY DEF Init, JournalInv, Shape, ToldOrSent, EntryIsTold, Journals, Idle

LEMMA FillKeepsRows ==
  ASSUME NEW j \in Journals, NEW g \in Groups
  PROVE  /\ FillRecorded(j, g) \in Journals
         /\ FillRecorded(j, g)[g].row = j[g].row
         /\ \A h \in Groups \ {g} : FillRecorded(j, g)[h] = j[h]
<1>1. FillRecorded(j, g) \in Journals
  BY DEF FillRecorded, Journals
<1>2. FillRecorded(j, g)[g].row = j[g].row
  BY DEF FillRecorded, Journals
<1>3. \A h \in Groups \ {g} : FillRecorded(j, g)[h] = j[h]
  BY DEF FillRecorded, Journals
<1> QED
  BY <1>1, <1>2, <1>3

(* Handling an event tells a close of its group, and keeps what was told.     *)
LEMMA RecordTells ==
  ASSUME Shape, NEW e \in Events, e.type \in Closing => e.pips # "none",
         NEW j, j = ReconcileOrphan(RecordAutoTradeEvent(journal, e), e)
  PROVE  /\ j \in Journals
         /\ \A g \in Groups : Told(g) => TruthIn(j[g].row, g)
         /\ \A g \in Groups : Tells(e, g) => TruthIn(j[g].row, g)
<1> DEFINE k == RecordAutoTradeEvent(journal, e)
<1>1. /\ k \in Journals
      /\ \A g \in Groups \ {e.g} : k[g] = journal[g]
      /\ e.type \notin Closing => k[e.g].row = journal[e.g].row
      /\ e.type \in Closing =>
            k[e.g].row = IF "win" \in {journal[e.g].row, e.pips} THEN "win" ELSE e.pips
  <2>1. CASE e.type = "fill"
    <3>1. k = FillRecorded(journal, e.g)
      BY <2>1 DEF RecordAutoTradeEvent, Closing
    <3> QED
      BY <2>1, <3>1, FillKeepsRows DEF Shape, Events, Closing
  <2>2. CASE e.type = "tp"
    BY <2>2 DEF RecordAutoTradeEvent, Shape, Journals, Events, Closing
  <2>3. CASE e.type \in Closing
    <3> DEFINE f == FillRecorded(journal, e.g)
               row == PreferJournalPips(f[e.g].row, e.pips)
    <3>1. /\ f \in Journals /\ f[e.g].row = journal[e.g].row
          /\ \A g \in Groups \ {e.g} : f[g] = journal[g]
      BY FillKeepsRows DEF Shape, Events
    <3>2. row \in {"win", "loss"}
      BY <2>3, <3>1 DEF PreferJournalPips, Events, Journals, Shape
    <3>3. k = [f EXCEPT ![e.g].row = row]
      BY <2>3 DEF RecordAutoTradeEvent, ResultRecorded, Closing
    <3>4. row = IF "win" \in {journal[e.g].row, e.pips} THEN "win" ELSE e.pips
      BY <3>1 DEF PreferJournalPips
    <3> HIDE DEF f, row, k
    <3>5. k \in Journals /\ k[e.g].row = row /\ \A g \in Groups \ {e.g} : k[g] = f[g]
      BY <3>1, <3>2, <3>3 DEF Journals, Events
    <3> QED
      BY <2>3, <3>1, <3>4, <3>5
  <2> QED
    BY <2>1, <2>2, <2>3 DEF Events, Closing
<1>2. j = k \/ (/\ k[e.g].row = "none"
                /\ j = [k EXCEPT ![e.g].row = IF e.g \in booked THEN "win" ELSE "loss"])
  BY DEF ReconcileOrphan
<1> HIDE DEF k
<1>3. \A g \in Groups : Told(g) => TruthIn(k[g].row, g)
  BY <1>1 DEF Told, TruthIn, Shape, Journals, Events
<1>4. \A g \in Groups : Tells(e, g) => TruthIn(k[g].row, g)
  BY <1>1 DEF Tells, TruthIn, Closing
<1>5. /\ j \in Journals
      /\ \A g \in Groups : TruthIn(k[g].row, g) => TruthIn(j[g].row, g)
  BY <1>1, <1>2 DEF TruthIn, Journals, Events
<1> QED
  BY <1>3, <1>4, <1>5

(* An event is put at the end of the stream.                                  *)
LEMMA EmitAppends ==
  ASSUME Shape, NEW e \in Events, Emit(e)
  PROVE  /\ stream' \in Seq(Events)
         /\ Len(stream') = Len(stream) + 1
         /\ stream'[Len(stream) + 1] = e
         /\ \A i \in 1..Len(stream) : stream'[i] = stream[i]
         /\ Len(stream) \in Nat
BY DEF Emit, Shape

LEMMA JournalStep == JournalInv /\ [Next]_vars => JournalInv'
<1> SUFFICES ASSUME JournalInv, [Next]_vars
             PROVE  JournalInv'
  OBVIOUS
<1> USE DEF JournalInv
<1>1. ASSUME UNCHANGED <<plan, booked, journal, stream, stats>>
      PROVE  JournalInv'
  BY <1>1 DEF Shape, ToldOrSent, EntryIsTold, Told, TruthIn, Tells
<1>2. CASE RecordEvent
  <2>1. PICK e \in Events : e = stream[1] /\ stream # <<>>
    BY <1>2 DEF RecordEvent, Shape
  <2>2. e.type \in Closing => e.pips # "none"
    BY <2>1 DEF Shape
  <2>3. journal' = ReconcileOrphan(RecordAutoTradeEvent(journal, e), e)
    BY <1>2, <2>1 DEF RecordEvent, Entry
  <2>4. UNCHANGED <<plan, booked, stream>>
    BY <1>2 DEF RecordEvent, engine
  <2>5. /\ journal' \in Journals
        /\ \A g \in Groups : Told(g) => TruthIn(journal'[g].row, g)
        /\ \A g \in Groups : Tells(e, g) => TruthIn(journal'[g].row, g)
    BY <2>2, <2>3, RecordTells
  <2>6. \A g \in Groups : Told(g)' <=> TruthIn(journal'[g].row, g)
    BY <2>4 DEF Told, TruthIn
  <2> QED
    BY <2>1, <2>4, <2>5, <2>6 DEF Shape, ToldOrSent, EntryIsTold, Tells
<1>3. CASE SaveLedger \/ LedgerFails
  <2>1. stats.step # "idle" /\ UNCHANGED <<plan, booked, journal, stream>>
    BY <1>3 DEF SaveLedger, LedgerFails, engine
  <2> QED
    BY <2>1 DEF Shape, ToldOrSent, EntryIsTold, Told, TruthIn, Tells
<1>4. CASE AdvanceCursor
  <2>1. stats.step # "idle" /\ stream' = Tail(stream) /\ stats'.step = "idle"
        /\ UNCHANGED <<plan, booked, journal>>
    BY <1>4 DEF AdvanceCursor, Idle
  <2>2. /\ stream' \in Seq(Events) /\ Len(stream) \in Nat \ {0}
        /\ Len(stream') = Len(stream) - 1
        /\ \A i \in 1..Len(stream') : stream'[i] = stream[i + 1]
    BY <2>1 DEF EntryIsTold, Shape
  <2>3. Shape'
    BY <2>1, <2>2 DEF Shape
  <2>4. ASSUME NEW g \in Groups, plan[g] = "closed", ~Told(g)
        PROVE  \E i \in 1..Len(stream') : Tells(stream'[i], g)
    <3>1. PICK i \in 1..Len(stream) : Tells(stream[i], g)
      BY <2>4 DEF ToldOrSent
    <3>2. i # 1
      BY <2>1, <2>4, <3>1 DEF EntryIsTold
    <3>3. i - 1 \in 1..Len(stream') /\ stream'[i - 1] = stream[i]
      BY <2>2, <3>2
    <3> QED
      BY <3>1, <3>3
  <2> QED
    BY <2>1, <2>3, <2>4 DEF ToldOrSent, EntryIsTold, Told, TruthIn, Tells
<1>5. CASE Restart
  BY <1>5 DEF Restart, engine, Idle, Shape, ToldOrSent, EntryIsTold, Told, TruthIn, Tells
<1>6. CASE JournalFails \/ BarLoads \/ BarSaves \/ NothingToPublish \/ ExposureFails
  BY <1>1, <1>6 DEF JournalFails, BarLoads, BarSaves, NothingToPublish, ExposureFails,
                    Decides, engine
<1>7. ASSUME NEW g \in Groups, NEW to \in {"pending", "open", "cancelled"},
             plan[g] \in {"none", "pending"}, plan' = [plan EXCEPT ![g] = to],
             UNCHANGED <<booked, stream, journal, stats>>
      PROVE  JournalInv'
  BY <1>7 DEF Shape, ToldOrSent, EntryIsTold, Told, TruthIn, Tells
<1>8. CASE \E g \in Groups : Publish(g) \/ OrderFills(g) \/ OrderCancelled(g)
  BY <1>7, <1>8 DEF Publish, OrderFills, OrderCancelled, Stage, bot
<1>9. ASSUME NEW g \in Groups, NEW e \in Events, Emit(e), e.type # "closed",
             e.type \in Closing => e.pips # "none",
             plan' = plan, journal' = journal, stats' = stats,
             booked' = booked \/ (plan[g] = "open" /\ booked' = booked \cup {g})
      PROVE  JournalInv'
  <2>1. Shape'
    BY <1>9, EmitAppends DEF Shape
  <2>2. \A h \in Groups : plan[h] = "closed" => (h \in booked' <=> h \in booked)
    BY <1>9
  <2>3. ToldOrSent' /\ EntryIsTold'
    BY <1>9, <2>2, EmitAppends DEF ToldOrSent, EntryIsTold, Told, TruthIn, Tells
  <2> QED
    BY <2>1, <2>3
<1>10. ASSUME NEW g \in Groups, FillReported(g) \/ TargetBooked(g) \/ PartlyClosed(g)
       PROVE  JournalInv'
  <2>1. CASE FillReported(g)
    <3>1. Event(g, "fill", "none", "none") \in Events
      BY DEF Event, Events
    <3> QED
      BY <1>9, <2>1, <3>1 DEF FillReported, Event, Closing, bot
  <2>2. CASE TargetBooked(g)
    <3>1. Event(g, "tp", "none", "none") \in Events
      BY DEF Event, Events
    <3> QED
      BY <1>9, <2>2, <3>1 DEF TargetBooked, Event, Closing, bot
  <2>3. CASE PartlyClosed(g)
    <3>1. PICK pips \in {"win", "loss"} : Emit(Event(g, "partial", "manual", pips))
      BY <2>3 DEF PartlyClosed
    <3>2. Event(g, "partial", "manual", pips) \in Events
      BY DEF Event, Events
    <3> QED
      BY <1>9, <2>3, <3>1, <3>2 DEF PartlyClosed, Event, Closing, bot
  <2> QED
    BY <1>10, <2>1, <2>2, <2>3
<1>11. ASSUME NEW g \in Groups, PlanCloses(g)
       PROVE  JournalInv'
  <2>1. PICK exit \in {"stop", "target", "manual"}, pips \in {"win", "loss"} :
          /\ exit = "target" \/ g \in booked => pips = "win"
          /\ booked' = IF exit = "target" THEN booked \cup {g} ELSE booked
          /\ Emit(Event(g, "closed", exit, pips))
    BY <1>11 DEF PlanCloses
  <2> DEFINE e == Event(g, "closed", exit, pips)
  <2>2. e \in Events /\ e.g = g /\ e.type = "closed" /\ e.pips = pips
    BY DEF Event, Events
  <2>3. /\ plan[g] = "open" /\ plan' = [plan EXCEPT ![g] = "closed"]
        /\ journal' = journal /\ stats' = stats
    BY <1>11 DEF PlanCloses, Stage, bot
  <2> HIDE DEF e
  <2>4. Emit(e)
    BY <2>1 DEF e
  <2>5. Tells(e, g)'
    BY <2>1, <2>2 DEF Tells
  <2>6. Shape'
    BY <2>1, <2>2, <2>3, <2>4, EmitAppends DEF Shape, Closing
  <2>7. \A h \in Groups \ {g} : plan'[h] = plan[h] /\ (h \in booked' <=> h \in booked)
    BY <2>1, <2>3 DEF Shape
  <2>8. ToldOrSent'
    BY <2>2, <2>3, <2>4, <2>5, <2>7, EmitAppends DEF ToldOrSent, Told, TruthIn, Tells
  <2>9. EntryIsTold'
    <3>1. stats.step # "idle" => stream'[1] = stream[1] /\ Len(stream) > 0
      BY <2>2, <2>4, EmitAppends DEF EntryIsTold, Shape
    <3>2. ASSUME stats.step # "idle"
          PROVE  ~(stream[1].g = g /\ stream[1].type = "closed")
      BY <2>3, <3>1, <3>2 DEF Shape
    <3> QED
      BY <2>2, <2>3, <2>4, <2>7, <3>1, <3>2, EmitAppends
         DEF EntryIsTold, Told, TruthIn, Tells
  <2> QED
    BY <2>6, <2>8, <2>9
<1>12. CASE UNCHANGED vars
  BY <1>1, <1>12 DEF vars, engine, bot
<1> QED
  BY <1>2, <1>3, <1>4, <1>5, <1>6, <1>8, <1>10, <1>11, <1>12 DEF Next, Stats, Bar

(* A closed plan whose events are handled has its row in the journal, and one *)
(* that booked a target is a win there (store.py _prefer_journal_pips, and    *)
(* the rows seeded from the plan's runtime).                                  *)
THEOREM JournalTrue == Spec => []JournalTellsTruth
<1>1. JournalInv => JournalTellsTruth
  <2> SUFFICES ASSUME JournalInv, NEW g \in Groups, plan[g] = "closed",
                      \A e \in Range(stream) : e.g # g
               PROVE  Told(g)
    BY DEF JournalTellsTruth, Told, TruthIn
  <2>1. \A i \in 1..Len(stream) : stream[i] \in Range(stream)
    BY DEF Range, JournalInv, Shape
  <2> QED
    BY <2>1 DEF JournalInv, ToldOrSent, Tells
<1> QED
  BY JournalInit, JournalStep, <1>1, PTL DEF Spec
=============================================================================
