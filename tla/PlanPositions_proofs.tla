------------------------ MODULE PlanPositions_proofs ------------------------
(* What holds of one plan after its entry for any number of legs and targets, *)
(* any volumes, ratios and stop rules, and any number of faults: first sums   *)
(* over finite sets, for what a target closes, then the invariant that        *)
(* relates the records to the account, and one lemma per step.                *)
EXTENDS PlanPositions, FiniteSetTheorems, WellFoundedInduction, TLAPS

\* The element a fold over the set s takes first.
Pick(s) == CHOOSE x \in s : TRUE

\* g adds f up over every subset of S, taking one element after the other.
Adds(g, f, S) ==
  g = [s \in SUBSET S |-> IF s = {} THEN 0 ELSE f[Pick(s)] + g[s \ {Pick(s)}]]

\* The fold behind Total, unfolded.
LEMMA TotalIs ==
  ASSUME NEW f, NEW S
  PROVE  Total(f, S) = (CHOOSE g : Adds(g, f, S))[S]
BY DEF Total, MapThenSumSet, MapThenFoldSet, Adds, Pick

\* The element taken first is one of the set.
LEMMA Picked ==
  ASSUME NEW S, S # {}
  PROVE  Pick(S) \in S /\ S \ {Pick(S)} \in SUBSET S /\ S \ {Pick(S)} # S
<1>1. PICK x : x \in S
  OBVIOUS
<1> QED BY <1>1 DEF Pick

\* Induction over the subsets of a finite set, as a fact about a set of them.
LEMMA SetInduction ==
  ASSUME NEW S, IsFiniteSet(S), NEW G,
         \A s \in SUBSET S : (\A u \in SUBSET s : u # s => u \in G) => s \in G
  PROVE  \A s \in SUBSET S : s \in G
<1> DEFINE Bad == (SUBSET S) \ G
<1> SUFFICES ASSUME NEW t \in SUBSET S, t \notin G PROVE FALSE
  OBVIOUS
<1>1. IsWellFoundedOn(StrictSubsetOrdering(S), SUBSET S)
  <2>1. IsWellFoundedOn(StrictSubsetOrdering(S), FiniteSubsetsOf(S))
    BY FS_StrictSubsetOrderingWellFounded
  <2>2. FiniteSubsetsOf(S) = SUBSET S
    BY FS_FiniteSubsetsOfFinite
  <2> QED BY <2>1, <2>2, Zenon
<1>2. PICK s \in Bad : \A u \in Bad : ~ (<<u, s>> \in StrictSubsetOrdering(S))
  <2> DEFINE R == StrictSubsetOrdering(S)
             X == SUBSET S
  <2>1. Bad \subseteq X /\ Bad # {} /\ IsWellFoundedOn(R, X)
    <3>1. t \in Bad
      OBVIOUS
    <3> QED BY <1>1, <3>1
  <2> HIDE DEF Bad, R, X
  <2>2. \E s \in Bad : \A u \in Bad : ~ (<<u, s>> \in R)
    BY <2>1, WFMin
  <2> QED BY <2>2 DEF R
<1>4. s \in SUBSET S /\ s \notin G
  BY <1>2
<1>3. ASSUME NEW u \in SUBSET s, u # s PROVE u \in G
  <2>1. u \in SUBSET S /\ <<u, s>> \in (SUBSET S) \X (SUBSET S)
    BY <1>4
  <2>2. <<u, s>> \in StrictSubsetOrdering(S)
    BY <1>3, <2>1 DEF StrictSubsetOrdering
  <2> QED BY <1>2, <2>1, <2>2
<1> QED BY <1>4, <1>3

\* Two sums agree where both are defined.
LEMMA AddsAgree ==
  ASSUME NEW f, NEW S, IsFiniteSet(S), NEW T \in SUBSET S, NEW g, NEW h,
         Adds(g, f, S), Adds(h, f, T)
  PROVE  \A s \in SUBSET T : g[s] = h[s]
<1> DEFINE G == {s \in SUBSET T : g[s] = h[s]}
<1>1. IsFiniteSet(T)
  BY FS_Subset
<1>2. ASSUME NEW s \in SUBSET T, \A u \in SUBSET s : u # s => u \in G
      PROVE  s \in G
  <2>1. CASE s = {}
    BY <2>1 DEF Adds
  <2>2. CASE s # {}
    <3> DEFINE u == s \ {Pick(s)}
    <3>1. u \in G
      BY <1>2, <2>2, Picked
    <3>2. s \in SUBSET S /\ g[u] = h[u]
      BY <3>1
    <3>3. g[s] = f[Pick(s)] + g[u]
      BY <2>2, <3>2, Zenon DEF Adds
    <3>4. h[s] = f[Pick(s)] + h[u]
      BY <2>2, Zenon DEF Adds
    <3> QED BY <3>2, <3>3, <3>4
  <2> QED BY <2>1, <2>2
<1>3. \A s \in SUBSET T : s \in G
  <2> HIDE DEF G
  <2> QED BY <1>1, <1>2, SetInduction
<1> QED BY <1>3

\* Total adds element by element, if some function of sums exists at all.
LEMMA TotalStepsIf ==
  ASSUME NEW f, NEW S, IsFiniteSet(S), \A u \in SUBSET S : \E g : Adds(g, f, u)
  PROVE  Total(f, S) = IF S = {} THEN 0 ELSE f[Pick(S)] + Total(f, S \ {Pick(S)})
<1> DEFINE g == CHOOSE k : Adds(k, f, S)
<1>1. Adds(g, f, S) /\ Total(f, S) = g[S]
  BY TotalIs
<1>2. CASE S = {}
  BY <1>1, <1>2 DEF Adds
<1>3. CASE S # {}
  <2> DEFINE u == S \ {Pick(S)}
             h == CHOOSE k : Adds(k, f, u)
  <2>1. u \in SUBSET S
    OBVIOUS
  <2>2. Adds(h, f, u) /\ Total(f, u) = h[u]
    BY <2>1, TotalIs
  <2>3. g[S] = f[Pick(S)] + g[u]
    <3> HIDE DEF g
    <3> QED BY <1>1, <1>3, Zenon DEF Adds
  <2>4. g[u] = h[u]
    <3> HIDE DEF g, h
    <3>1. u \in SUBSET u
      OBVIOUS
    <3> QED BY <1>1, <2>1, <2>2, <3>1, AddsAgree
  <2> QED BY <1>1, <1>3, <2>2, <2>3, <2>4
<1> QED BY <1>2, <1>3

\* It does, for every finite set of natural numbers.
LEMMA AddsExists ==
  ASSUME NEW f, NEW S, IsFiniteSet(S)
  PROVE  \A s \in SUBSET S : \E g : Adds(g, f, s)
<1> DEFINE G == {s \in SUBSET S : \E g : Adds(g, f, s)}
<1>1. ASSUME NEW s \in SUBSET S, \A u \in SUBSET s : u # s => u \in G
      PROVE  s \in G
  <2> DEFINE g == [u \in SUBSET s |-> IF u = {} THEN 0 ELSE f[Pick(u)] + Total(f, u \ {Pick(u)})]
  <2>1. ASSUME NEW w \in SUBSET s, w # s PROVE g[w] = Total(f, w)
    <3>1. IsFiniteSet(w)
      BY FS_Subset
    <3>2. \A u \in SUBSET w : \E k : Adds(k, f, u)
      BY <1>1, <2>1
    <3>3. Total(f, w) = IF w = {} THEN 0 ELSE f[Pick(w)] + Total(f, w \ {Pick(w)})
      BY <3>1, <3>2, TotalStepsIf
    <3> QED BY <3>3
  <2>2. ASSUME NEW u \in SUBSET s, u # {}
        PROVE  Total(f, u \ {Pick(u)}) = g[u \ {Pick(u)}]
    <3>1. u \ {Pick(u)} \in SUBSET s /\ u \ {Pick(u)} # s
      BY <2>2, Picked
    <3> QED BY <2>1, <3>1
  <2>3. \A u \in SUBSET s :
          (IF u = {} THEN 0 ELSE f[Pick(u)] + Total(f, u \ {Pick(u)}))
            = (IF u = {} THEN 0 ELSE f[Pick(u)] + g[u \ {Pick(u)}])
    <3> HIDE DEF g
    <3> QED BY <2>2
  <2>4. Adds(g, f, s)
    BY <2>3, Zenon DEF Adds
  <2> QED BY <2>4
<1>2. \A s \in SUBSET S : s \in G
  <2> HIDE DEF G
  <2> QED BY <1>1, SetInduction
<1> QED BY <1>2

\* What a sum over a finite set is.
LEMMA TotalSteps ==
  ASSUME NEW f, NEW S, IsFiniteSet(S)
  PROVE  Total(f, S) = IF S = {} THEN 0 ELSE f[Pick(S)] + Total(f, S \ {Pick(S)})
BY AddsExists, TotalStepsIf

\* A sum of natural numbers is one, and none of them exceeds it.
LEMMA TotalBounds ==
  ASSUME NEW f, NEW S, IsFiniteSet(S), \A x \in S : f[x] \in Nat
  PROVE  Total(f, S) \in Nat /\ \A x \in S : f[x] <= Total(f, S)
<1> DEFINE G == {s \in SUBSET S : Total(f, s) \in Nat /\ \A x \in s : f[x] <= Total(f, s)}
<1>1. ASSUME NEW s \in SUBSET S, \A u \in SUBSET s : u # s => u \in G
      PROVE  s \in G
  <2>1. IsFiniteSet(s)
    BY FS_Subset
  <2>2. CASE s = {}
    <3>1. Total(f, s) = 0
      BY <2>1, <2>2, TotalSteps
    <3> QED BY <2>2, <3>1
  <2>3. CASE s # {}
    <3> DEFINE u == s \ {Pick(s)}
    <3>1. u \in G /\ Pick(s) \in s
      BY <1>1, <2>3, Picked
    <3>2. Total(f, s) = f[Pick(s)] + Total(f, u)
      BY <2>1, <2>3, TotalSteps
    <3>3. f[Pick(s)] \in Nat /\ Total(f, u) \in Nat /\ \A x \in u : f[x] <= Total(f, u)
      BY <3>1
    <3>4. \A x \in s : x = Pick(s) \/ x \in u
      OBVIOUS
    <3>5. \A x \in s : f[x] \in Nat
      OBVIOUS
    <3> HIDE DEF u
    <3> QED BY <3>2, <3>3, <3>4, <3>5
  <2> QED BY <2>2, <2>3
<1>2. \A s \in SUBSET S : s \in G
  <2> HIDE DEF G
  <2> QED BY <1>1, SetInduction
<1> QED BY <1>2

\* A finite nonempty set of numbers has a least element.
LEMMA LeastExists ==
  ASSUME NEW S \in SUBSET Nat, IsFiniteSet(S), S # {}
  PROVE  Min(S) \in S
<1> DEFINE G == {s \in SUBSET S : s = {} \/ \E m \in s : \A y \in s : m <= y}
<1>1. ASSUME NEW s \in SUBSET S, \A u \in SUBSET s : u # s => u \in G
      PROVE  s \in G
  <2>1. CASE s = {}
    BY <2>1
  <2>2. CASE s # {}
    <3> DEFINE u == s \ {Pick(s)}
    <3>1. u \in G /\ Pick(s) \in s
      BY <1>1, <2>2, Picked
    <3>2. \A x \in s : x = Pick(s) \/ x \in u
      OBVIOUS
    <3>3. CASE u = {}
      BY <3>1, <3>2, <3>3
    <3>4. CASE u # {}
      <4>1. PICK m \in u : \A y \in u : m <= y
        BY <3>1, <3>4
      <4>2. m \in s /\ m \in Nat /\ Pick(s) \in Nat
        BY <3>1
      <4>3. CASE m <= Pick(s)
        BY <3>2, <4>1, <4>2, <4>3
      <4>4. CASE ~(m <= Pick(s))
        <5>1. \A y \in s : Pick(s) <= y
          BY <3>2, <4>1, <4>2, <4>4
        <5> QED BY <3>1, <5>1
      <4> QED BY <4>3, <4>4
    <3> QED BY <3>3, <3>4
  <2> QED BY <2>1, <2>2
<1>2. \A s \in SUBSET S : s \in G
  <2> HIDE DEF G
  <2> QED BY <1>1, SetInduction
<1>3. \E m \in S : \A y \in S : m <= y
  BY <1>2
<1> QED BY <1>3 DEF Min
\* What the constants are, as the steps need it.
LEMMA Numbers ==
  /\ Last \in Nat /\ Targets = 1 .. Last /\ Targets # {} /\ Last \in Targets
  /\ Legs \subseteq Nat /\ IsFiniteSet(Legs) /\ Legs # {}
  /\ \A n \in Nat : IsFiniteSet(n .. Last)
<1>1. Last \in Nat /\ Cardinality(Legs) \in Nat
  BY PositionsAssumption, FS_CardinalityType DEF Last
<1>2. Last \in Targets
  BY <1>1, PositionsAssumption
<1>3. \A n \in Nat : IsFiniteSet(n .. Last)
  BY <1>1, FS_Interval
<1> QED BY <1>1, <1>2, <1>3, PositionsAssumption

\* A runtime state is not the missing record.
LEMMA StateKnown ==
  ASSUME NEW s \in State
  PROVE  Known(s)
<1>1. DOMAIN s.leg = Legs
  BY DEF State
<1>2. DOMAIN Nothing.leg = {}
  BY DEF Nothing
<1> QED BY <1>1, <1>2, Numbers DEF Known

\* A quotient is at most b when what is divided is at most c * b.
LEMMA Quotient ==
  ASSUME NEW a \in Nat, NEW b \in Nat, NEW c \in Nat, c > 0, a <= c * b
  PROVE  a \div c \in 0 .. b
OBVIOUS

\* A product grows with its factor.
LEMMA Product ==
  ASSUME NEW a \in Nat, NEW b \in Nat, NEW c \in Nat, a <= b
  PROVE  a * c \in Nat /\ a * c <= b * c
OBVIOUS

\* A target never closes more than is open.
LEMMA CloseBounds ==
  ASSUME NEW s \in State, s.next <= Last, NEW open \in SUBSET Legs
  PROVE  /\ Total(s.left, open) \in Nat
         /\ CloseVolume(s, open) \in 0 .. Total(s.left, open)
<1> DEFINE all == Total(s.left, open)
           share == (all * Ratios[s.next]) \div Total(Ratios, s.next .. Last)
<1>1. s.next \in Targets /\ s.next \in Nat /\ s.left \in [Legs -> Nat]
  BY Numbers DEF State
<1>2. all \in Nat
  <2>1. IsFiniteSet(open) /\ \A l \in open : s.left[l] \in Nat
    BY <1>1, Numbers, FS_Subset
  <2> QED BY <2>1, TotalBounds
<1>3. Total(Ratios, s.next .. Last) \in Nat \ {0} /\ Ratios[s.next] \in Nat
  <2>1. \A t \in s.next .. Last : Ratios[t] \in Nat \ {0}
    <3>1. \A t \in s.next .. Last : t \in Targets
      BY <1>1, Numbers
    <3>2. \A t \in Targets : Ratios[t] \in 1 .. 100
      BY PositionsAssumption
    <3> QED BY <3>1, <3>2
  <2>2. IsFiniteSet(s.next .. Last) /\ s.next \in s.next .. Last
    BY <1>1, Numbers
  <2>3. Total(Ratios, s.next .. Last) \in Nat /\ Ratios[s.next] <= Total(Ratios, s.next .. Last)
    BY <2>1, <2>2, TotalBounds
  <2> QED BY <2>1, <2>2, <2>3
<1>4. share \in Nat
  <2> HIDE DEF all
  <2>1. all * Ratios[s.next] \in Nat
    BY <1>2, <1>3
  <2> QED BY <1>3, <2>1
<1>5. Lesser(share, all) \in 0 .. all
  <2> HIDE DEF share, all
  <2> QED BY <1>2, <1>4 DEF Lesser
<1>6. CloseVolume(s, open) \in {all, 0, Lesser(share, all)}
  BY DEF CloseVolume
<1> HIDE DEF share, all
<1> QED BY <1>2, <1>5, <1>6 DEF all

\* A slice is a whole part of what its leg has left.
LEMMA SliceBounds ==
  ASSUME NEW s \in State, NEW open \in SUBSET OpenLegs(s), NEW close \in Nat,
         close <= Total(s.left, open)
  PROVE  \A l \in open : Slices(s, open, close)[l] \in 0 .. s.left[l]
<1> DEFINE all == Total(s.left, open)
           part == [l \in open |-> (close * s.left[l]) \div all]
           room == [l \in open |-> s.left[l] - part[l]]
           rest == close - Total(part, open)
           before(l) == Total(room, {k \in open : k < l})
<1>1. /\ s.left \in [Legs -> Nat] /\ open \subseteq Legs
      /\ \A l \in open : s.left[l] > 0
  BY DEF State, OpenLegs, In
<1>2. IsFiniteSet(open) /\ \A l \in open : s.left[l] \in Nat
  BY <1>1, Numbers, FS_Subset
<1>3. all \in Nat /\ \A l \in open : s.left[l] <= all
  BY <1>2, TotalBounds
<1>4. ASSUME NEW l \in open
      PROVE  part[l] \in 0 .. s.left[l] /\ room[l] \in 0 .. s.left[l] /\ part[l] + room[l] = s.left[l]
  <2> DEFINE x == s.left[l]
  <2>1. x \in Nat /\ x <= all /\ x > 0 /\ all > 0 /\ close <= all
    BY <1>1, <1>2, <1>3
  <2>2. close * x \in Nat /\ close * x <= all * x
    BY <1>3, <2>1, Product
  <2>3. (close * x) \div all \in 0 .. x
    BY <1>3, <2>1, <2>2, Quotient
  <2>4. part[l] = (close * x) \div all /\ room[l] = x - part[l]
    OBVIOUS
  <2> HIDE DEF x, part, room, all
  <2> QED BY <2>1, <2>3, <2>4 DEF x
<1>5. rest \in Int
  <2>1. \A l \in open : part[l] \in Nat
    BY <1>2, <1>4
  <2>2. Total(part, open) \in Nat
    BY <1>2, <2>1, TotalBounds
  <2> QED BY <2>2
<1>6. ASSUME NEW l \in open PROVE before(l) \in Nat
  <2>1. IsFiniteSet({k \in open : k < l})
    BY <1>2, FS_Subset
  <2>2. \A k \in {j \in open : j < l} : room[k] \in Nat
    BY <1>2, <1>4
  <2> QED BY <2>1, <2>2, TotalBounds
<1>7. ASSUME NEW l \in open
      PROVE  (IF rest > before(l) THEN Lesser(room[l], rest - before(l)) ELSE 0) \in 0 .. room[l]
  <2> DEFINE b == before(l)
             m == room[l]
  <2>1. b \in Nat /\ m \in Nat
    BY <1>2, <1>4, <1>6
  <2> HIDE DEF rest, b, m
  <2>2. (IF rest > b THEN Lesser(m, rest - b) ELSE 0) \in 0 .. m
    BY <1>5, <2>1 DEF Lesser
  <2> QED BY <2>2 DEF b, m
<1>8. Slices(s, open, close) = [l \in open |->
        part[l] + (IF rest > before(l) THEN Lesser(room[l], rest - before(l)) ELSE 0)]
  BY DEF Slices
<1> HIDE DEF part, room, rest, before
<1> QED BY <1>2, <1>4, <1>7, <1>8

-----------------------------------------------------------------------------
(* The invariant.                                                          *)

Verdicts == {"final", "held", "partial"}

TaskFields == {"pc", "then", "state", "seen", "todo", "cut", "done", "ok"}

Busy == task.pc # "idle"

\* The step the poll comes to behind an adoption, a cancellation or a save.
Where == IF task.pc \in {"adopt", "cancel", "save"} THEN task.then ELSE task.pc

RecordsOK ==
  /\ mem \in State \cup {Nothing} /\ saved \in State \cup {Nothing}
  /\ ended \in BOOLEAN /\ restored \in BOOLEAN

BrokerOK ==
  /\ order \in [Legs -> OrderStates] /\ vol \in [Legs -> Nat]
  /\ \A l \in Legs : vol[l] <= Volumes[l] /\ (order[l] = "open" => vol[l] > 0)
  /\ stop \in [Legs -> 0 .. 2 * Last] /\ fill \in Fills

HistoryOK ==
  /\ cuts \subseteq Targets \X Legs /\ loose \subseteq Legs
  /\ torn \in BOOLEAN /\ relapsed \in BOOLEAN /\ severed \in BOOLEAN
  /\ faults \in 0 .. MaxFaults

TaskOK ==
  /\ DOMAIN task = TaskFields
  /\ task.pc \in Steps /\ task.then \in Steps
  /\ task.state \in State \cup {Nothing} /\ (Busy => task.state \in State)
  /\ task.seen \subseteq Legs /\ task.todo \subseteq Legs /\ task.done \subseteq Legs
  /\ task.ok \in BOOLEAN

Shape == RecordsOK /\ BrokerOK /\ HistoryOK

Held == {"filled", "managing"}

\* What a record may say of a leg whose order became o, with a position of v.
LegFits(stage, left, o, v) ==
  /\ stage = "gone"      => o # "pending"
  /\ stage = "overdue"   => o \notin {"pending", "filling"}
  /\ stage = "dropped"   => o = "cancelled"
  /\ stage = "cancelled" => o \in {"closed", "cancelled"}
  /\ stage = "closed"    => o = "closed"
  /\ stage \in Held      => o \in {"open", "closed"} /\ left > 0 /\ v <= left

Fits(s, o, v) == \A l \in Legs : LegFits(s.leg[l], s.left[l], o[l], v[l])

\* The stop the state s names is in force for its open legs.
Backed(s, o, st) == \A l \in OpenLegs(s) : o[l] = "open" => st[l] >= s.stop

RecordsFit ==
  /\ Known(mem) => Fits(mem, order, vol)
  /\ Known(saved) => Fits(saved, order, vol)

RecordsBacked ==
  ~relapsed =>
    /\ restored /\ Known(mem) => Backed(mem, order, stop)
    /\ ~restored /\ Known(saved) => Backed(saved, order, stop)

\* A plan whose records are gone has nothing left but its loose legs.
Flat ==
  /\ ~restored => mem = Nothing
  /\ saved = Nothing =>
       mem = Nothing /\ \A l \in Legs \ loose : order[l] \in {"closed", "cancelled"}

RecInv == Shape /\ RecordsFit /\ RecordsBacked /\ Flat

Following == {"manage", "target", "cancel", "book", "complete", "forget", "protect",
              "breakeven", "trail", "raise"}
Seeing == {"target", "book", "close", "complete", "forget", "protect", "breakeven",
           "trail", "raise"}

\* Where the poll may be, and that memory is what it works on but for a state
\* about to be saved and the legs it is closing.
Place ==
  /\ Busy => restored /\ saved # Nothing
  /\ task.pc \in Following => mem = task.state
  /\ At("adopt") => task.then \in {"forget", "manage", "idle"}
  /\ At("cancel") => task.then \in {"book", "breakeven", "raise"}
  /\ At("save") => task.then \notin {"save", "adopt", "cancel", "close"}

\* What the poll has made sure of.
Sees ==
  /\ Where = "manage" => \A l \in OpenLegs(task.state) \ task.seen : order[l] = "closed"
  /\ Where \in Seeing => OpenLegs(task.state) \subseteq task.seen
  /\ Where \in {"book", "close"} => task.state.next <= Last
  /\ Where \in {"complete", "forget"} => In(task.state, Held) = {}
  /\ At("close") => \A l \in task.todo :
        l \in OpenLegs(task.state) /\ task.cut[l] \in 1 .. task.state.left[l]

TaskTrue ==
  Busy => /\ Fits(task.state, order, vol)
          /\ ~relapsed => Backed(task.state, order, stop)

\* Legs that are adopted are new to the memory.
Fresh ==
  At("adopt") => task.state.stop = 0 /\ (Known(mem) => task.todo \cap In(mem, Held) = {})

Before(n) == \A c \in cuts : c[1] < n

\* A target that was booked on some leg is behind every record, but for the one
\* being booked.
CutsBehind ==
  /\ task.done # {} => task.pc \in {"close", "save"}
  /\ At("close") => task.todo \cap task.done = {}
  /\ ~torn =>
       /\ task.done = {} => /\ Known(mem) => Before(mem.next)
                            /\ Known(saved) => Before(saved.next)
       /\ At("close") => \A c \in cuts :
            c[1] < task.state.next \/ (c[1] = task.state.next /\ c[2] \in task.done)
       /\ Busy /\ ~At("close") => Before(task.state.next)

TaskInv == TaskOK /\ Place /\ Sees /\ TaskTrue /\ Fresh /\ CutsBehind

Inv == RecInv /\ TaskInv

-----------------------------------------------------------------------------
(* What the operators make of a state.                                     *)

\* Of each of them: it is a state, which legs it keeps open, and what it does
\* to the fields the invariant reads.
LEMMA AdoptedIs ==
  ASSUME BrokerOK, NEW s \in State, NEW new \in SUBSET Legs
  PROVE  /\ Adopted(s, new) \in State
         /\ Adopted(s, new).next = s.next
         /\ Adopted(s, new).stop = IF new = {} THEN s.stop ELSE 0
         /\ \A l \in Legs : Adopted(s, new).leg[l] = IF l \in new THEN "filled" ELSE s.leg[l]
         /\ \A l \in Legs : Adopted(s, new).left[l] = IF l \in new THEN vol[l] ELSE s.left[l]
<1> DEFINE leg == [l \in Legs |-> IF l \in new THEN "filled" ELSE s.leg[l]]
           left == [l \in Legs |-> IF l \in new THEN vol[l] ELSE s.left[l]]
           level == IF new = {} THEN s.stop ELSE 0
<1>1. s.leg \in [Legs -> Stages] /\ s.left \in [Legs -> Nat] /\ s.stop \in 0 .. 2 * Last
  BY DEF State
<1>2. leg \in [Legs -> Stages] /\ left \in [Legs -> Nat] /\ level \in 0 .. 2 * Last
  BY <1>1, Numbers DEF BrokerOK, Stages
<1>3. Adopted(s, new) = [s EXCEPT !.leg = leg, !.left = left, !.stop = level, !.held = FALSE]
  BY DEF Adopted
<1>4. LET r == [s EXCEPT !.leg = leg, !.left = left, !.stop = level, !.held = FALSE] IN
      r \in State /\ r.next = s.next /\ r.stop = level /\ r.leg = leg /\ r.left = left
  <2> HIDE DEF leg, left, level
  <2> QED BY <1>2 DEF State
<1> QED BY <1>3, <1>4

\* The snapshot moves a waiting leg by at most one stage (ReconcileSubmittedLegsAsync).
LEMMA ReconciledIs ==
  ASSUME BrokerOK, NEW s \in State
  PROVE  LET r == Reconciled(s)  new == Unadopted(s) IN
         /\ r \in State /\ r.next = s.next
         /\ r.stop = IF new = {} THEN s.stop ELSE 0
         /\ \A l \in Legs :
              r.leg[l] = IF l \in new THEN "filled"
                         ELSE IF s.leg[l] \notin Waiting THEN s.leg[l]
                         ELSE IF l \in Orders THEN "pending" ELSE Absent(s.leg[l])
         /\ \A l \in Legs : r.left[l] = IF l \in new THEN vol[l] ELSE s.left[l]
<1> DEFINE a == Adopted(s, Unadopted(s))
           r == Reconciled(s)
           leg == [l \in Legs |-> IF a.leg[l] \notin Waiting THEN a.leg[l]
                                  ELSE IF l \in Orders THEN "pending" ELSE Absent(a.leg[l])]
<1>1. Unadopted(s) \in SUBSET Legs
  BY DEF Unadopted, Positions
<1>2. /\ a \in State /\ a.next = s.next
      /\ a.stop = IF Unadopted(s) = {} THEN s.stop ELSE 0
      /\ \A l \in Legs : a.leg[l] = IF l \in Unadopted(s) THEN "filled" ELSE s.leg[l]
      /\ \A l \in Legs : a.left[l] = IF l \in Unadopted(s) THEN vol[l] ELSE s.left[l]
  BY <1>1, AdoptedIs
<1>3. r = [a EXCEPT !.leg = leg]
  BY DEF Reconciled
<1> HIDE DEF a, r
<1>4. \A l \in Legs : a.leg[l] \in Stages
  BY <1>2 DEF State
<1>5. \A stage \in Stages : Absent(stage) \in Stages
  BY DEF Absent, Stages, Waiting
<1>6. leg \in [Legs -> Stages]
  <2>1. ASSUME NEW l \in Legs PROVE leg[l] \in Stages
    BY <1>4, <1>5 DEF Stages, Waiting
  <2> QED BY <2>1
<1>7. r \in State /\ r.next = a.next /\ r.stop = a.stop /\ r.left = a.left /\ r.leg = leg
  <2> HIDE DEF leg
  <2> QED BY <1>2, <1>3, <1>6 DEF State
<1>8. ASSUME NEW l \in Legs
      PROVE  leg[l] = IF l \in Unadopted(s) THEN "filled"
                      ELSE IF s.leg[l] \notin Waiting THEN s.leg[l]
                      ELSE IF l \in Orders THEN "pending" ELSE Absent(s.leg[l])
  <2>1. leg[l] = IF a.leg[l] \notin Waiting THEN a.leg[l]
                 ELSE IF l \in Orders THEN "pending" ELSE Absent(a.leg[l])
    OBVIOUS
  <2>2. CASE l \in Unadopted(s)
    <3> HIDE DEF leg
    <3>1. a.leg[l] = "filled"
      BY <1>2, <2>2
    <3> QED BY <2>1, <2>2, <3>1 DEF Waiting
  <2>3. CASE l \notin Unadopted(s)
    <3> HIDE DEF leg
    <3>1. a.leg[l] = s.leg[l]
      BY <1>2, <2>3
    <3> QED BY <2>1, <2>3, <3>1
  <2> QED BY <2>2, <2>3
<1> HIDE DEF leg
<1> QED BY <1>2, <1>7, <1>8 DEF r

\* A missing leg is closed whatever became of it (ManageOpenPositionsAsync).
LEMMA SettledState ==
  ASSUME NEW s \in State, NEW missing \in SUBSET Legs, NEW verdict \in Verdicts
  PROVE  /\ Settled(s, missing, verdict) \in State
         /\ Settled(s, missing, verdict).next = s.next
         /\ Settled(s, missing, verdict).stop = s.stop
<1> DEFINE r == Settled(s, missing, verdict)
           leg == [l \in Legs |-> IF l \in missing THEN "closed" ELSE s.leg[l]]
           left == [l \in Legs |-> IF l \in missing THEN 0 ELSE s.left[l]]
<1>1. /\ s.leg \in [Legs -> Stages] /\ s.left \in [Legs -> Nat] /\ s.held \in BOOLEAN
  BY DEF State
<1>2. r = [s EXCEPT !.leg = leg, !.left = left, !.held = s.held \/ verdict = "held"]
  BY DEF Settled, State
<1>3. leg \in [Legs -> Stages] /\ left \in [Legs -> Nat]
  BY <1>1 DEF Stages
<1>4. (s.held \/ verdict = "held") \in BOOLEAN
  OBVIOUS
<1>5. r \in State /\ r.next = s.next /\ r.stop = s.stop /\ r.leg = leg /\ r.left = left
  <2> DEFINE held == s.held \/ verdict = "held"
  <2> HIDE DEF r, leg, left, held
  <2> QED BY <1>2, <1>3, <1>4 DEF State, held
<1> QED BY <1>5

\* What that does to one leg.
LEMMA SettledLeg ==
  ASSUME NEW s \in State, NEW missing \in SUBSET Legs, NEW verdict \in Verdicts, NEW l \in Legs
  PROVE  /\ Settled(s, missing, verdict).leg[l] = IF l \in missing THEN "closed" ELSE s.leg[l]
         /\ Settled(s, missing, verdict).left[l] = IF l \in missing THEN 0 ELSE s.left[l]
<1> DEFINE r == Settled(s, missing, verdict)
           leg == [k \in Legs |-> IF k \in missing THEN "closed" ELSE s.leg[k]]
           left == [k \in Legs |-> IF k \in missing THEN 0 ELSE s.left[k]]
<1>1. /\ s.leg \in [Legs -> Stages] /\ s.left \in [Legs -> Nat] /\ s.held \in BOOLEAN
  BY DEF State
<1>2. r = [s EXCEPT !.leg = leg, !.left = left, !.held = s.held \/ verdict = "held"]
  BY DEF Settled, State
<1>3. leg \in [Legs -> Stages] /\ left \in [Legs -> Nat]
  BY <1>1 DEF Stages
<1>4. (s.held \/ verdict = "held") \in BOOLEAN
  OBVIOUS
<1>5. r \in State /\ r.next = s.next /\ r.stop = s.stop /\ r.leg = leg /\ r.left = left
  <2> DEFINE held == s.held \/ verdict = "held"
  <2> HIDE DEF r, leg, left, held
  <2> QED BY <1>2, <1>3, <1>4 DEF State, held
<1>6. r.leg[l] = leg[l] /\ r.left[l] = left[l]
  <2> HIDE DEF r, leg, left
  <2> QED BY <1>5
<1> QED BY <1>6

\* A leg of S got the stage x.
LEMMA StagedIs ==
  ASSUME NEW s \in State, NEW S, NEW x \in Stages
  PROVE  LET r == [s EXCEPT !.leg = [l \in Legs |-> IF l \in S THEN x ELSE @[l]]] IN
         /\ r \in State /\ r.next = s.next /\ r.stop = s.stop /\ r.left = s.left
         /\ \A l \in Legs : r.leg[l] = IF l \in S THEN x ELSE s.leg[l]
<1> DEFINE leg == [l \in Legs |-> IF l \in S THEN x ELSE s.leg[l]]
           r == [s EXCEPT !.leg = leg]
<1>1. s.leg \in [Legs -> Stages]
  BY DEF State
<1>2. leg \in [Legs -> Stages]
  BY <1>1
<1>3. r \in State /\ r.next = s.next /\ r.stop = s.stop /\ r.left = s.left /\ r.leg = leg
  <2> HIDE DEF leg
  <2> QED BY <1>2 DEF State
<1>4. [s EXCEPT !.leg = [l \in Legs |-> IF l \in S THEN x ELSE @[l]]] = r
  OBVIOUS
<1> HIDE DEF r
<1> QED BY <1>3, <1>4

\* Ten seconds make an absent order overdue, and nothing else.
LEMMA AgedIs ==
  ASSUME NEW s \in State
  PROVE  /\ Aged(s) \in State /\ Aged(s).next = s.next /\ Aged(s).stop = s.stop
         /\ Aged(s).left = s.left
         /\ \A l \in Legs : Aged(s).leg[l] = IF s.leg[l] = "gone" THEN "overdue" ELSE s.leg[l]
<1> DEFINE leg == [l \in Legs |-> IF s.leg[l] = "gone" THEN "overdue" ELSE s.leg[l]]
<1>1. s.leg \in [Legs -> Stages]
  BY DEF State
<1>2. leg \in [Legs -> Stages]
  BY <1>1 DEF Stages, Waiting
<1>3. Aged(s) = [s EXCEPT !.leg = leg]
  BY StateKnown DEF Aged
<1>4. LET r == [s EXCEPT !.leg = leg] IN
      r \in State /\ r.next = s.next /\ r.stop = s.stop /\ r.left = s.left /\ r.leg = leg
  <2> HIDE DEF leg
  <2> QED BY <1>2 DEF State
<1> QED BY <1>3, <1>4

\* Passing over or booking a target leaves the legs alone.
LEMMA BookedIs ==
  ASSUME NEW s \in State, s.next <= Last
  PROVE  /\ Skipped(s) \in State /\ Skipped(s).next = s.next + 1 /\ Skipped(s).stop = s.stop
         /\ Skipped(s).leg = s.leg /\ Skipped(s).left = s.left
         /\ Booked(s) \in State /\ Booked(s).next = s.next + 1 /\ Booked(s).stop = s.stop
         /\ Booked(s).leg = s.leg /\ Booked(s).left = s.left
<1>1. s.next \in 1 .. Last /\ s.next + 1 \in 1 .. Last + 1 /\ s.next \in 0 .. Last
  BY Numbers DEF State
<1> QED BY <1>1 DEF Skipped, Booked, State

\* A close lowers what one leg has left, and closes it at zero.
LEMMA AnsweredIs ==
  ASSUME TaskOK, NEW s \in State, NEW l \in Legs, task.cut[l] \in 1 .. s.left[l]
  PROVE  LET r == Answered(s, l) IN
         /\ r \in State /\ r.next = s.next /\ r.stop = s.stop
         /\ \A k \in Legs : r.left[k] = IF k = l THEN s.left[l] - task.cut[l] ELSE s.left[k]
         /\ \A k \in Legs : r.leg[k] = IF k = l
                THEN IF s.left[l] - task.cut[l] = 0 THEN "closed" ELSE "managing"
                ELSE s.leg[k]
<1> DEFINE rest == s.left[l] - task.cut[l]
           x == IF rest = 0 THEN "closed" ELSE "managing"
<1>1. s.leg \in [Legs -> Stages] /\ s.left \in [Legs -> Nat]
  BY DEF State
<1>2. rest \in Nat
  BY <1>1
<1>3. Answered(s, l) = [s EXCEPT !.left[l] = rest, !.leg[l] = x]
  BY DEF Answered
<1>4. x \in Stages
  BY DEF Stages
<1>5. LET r == [s EXCEPT !.left[l] = rest, !.leg[l] = x] IN
      /\ r \in State /\ r.next = s.next /\ r.stop = s.stop
      /\ r.left = [s.left EXCEPT ![l] = rest] /\ r.leg = [s.leg EXCEPT ![l] = x]
  <2> HIDE DEF rest, x
  <2> QED BY <1>1, <1>2, <1>4 DEF State
<1> HIDE DEF rest, x
<1> QED BY <1>1, <1>3, <1>5 DEF rest, x

\* A new stop leaves legs and targets alone.
LEMMA StopIs ==
  ASSUME NEW s \in State, NEW level \in 0 .. 2 * Last, NEW r, r = [s EXCEPT !.stop = level]
  PROVE  r \in State /\ r.next = s.next /\ r.stop = level /\ r.leg = s.leg /\ r.left = s.left
BY DEF State

-----------------------------------------------------------------------------
(* Records and the broker.                                                 *)

\* What becomes of an order only moves onward, a position only shrinks.
Onward(o, o2, v, v2) ==
  \A l \in Legs :
    /\ o2[l] # o[l] => <<o[l], o2[l]>> \in {<<"pending", "filling">>, <<"pending", "cancelled">>,
                                            <<"filling", "open">>, <<"open", "closed">>}
    /\ v2[l] <= v[l] \/ o[l] = "filling"

\* A record stays true while the broker only moves onward.
LEMMA FitsOnward ==
  ASSUME NEW s \in State, NEW o, NEW o2, NEW v \in [Legs -> Nat], NEW v2 \in [Legs -> Nat],
         Onward(o, o2, v, v2), Fits(s, o, v)
  PROVE  Fits(s, o2, v2)
<1> SUFFICES ASSUME NEW l \in Legs PROVE LegFits(s.leg[l], s.left[l], o2[l], v2[l])
  BY DEF Fits
<1>1. LegFits(s.leg[l], s.left[l], o[l], v[l])
  BY DEF Fits
<1>2. /\ o2[l] # o[l] => <<o[l], o2[l]>> \in {<<"pending", "filling">>, <<"pending", "cancelled">>,
                                             <<"filling", "open">>, <<"open", "closed">>}
      /\ v2[l] <= v[l] \/ o[l] = "filling"
      /\ v[l] \in Nat /\ v2[l] \in Nat /\ s.left[l] \in Nat
  BY DEF Onward, State
<1>3. CASE o2[l] = o[l]
  BY <1>1, <1>2, <1>3 DEF LegFits, Held
<1>4. CASE o[l] = "pending" /\ o2[l] \in {"filling", "cancelled"}
  BY <1>1, <1>4 DEF LegFits, Held
<1>5. CASE o[l] = "filling" /\ o2[l] = "open"
  BY <1>1, <1>5 DEF LegFits, Held
<1>6. CASE o[l] = "open" /\ o2[l] = "closed"
  BY <1>1, <1>2, <1>6 DEF LegFits, Held
<1> QED BY <1>2, <1>3, <1>4, <1>5, <1>6

\* A leg of S got a stage its order allows.
LEMMA FitsStaged ==
  ASSUME NEW s \in State, NEW r \in State, NEW o, NEW v, Fits(s, o, v), NEW S,
         \A l \in Legs \ S : r.leg[l] = s.leg[l] /\ r.left[l] = s.left[l],
         \A l \in Legs \cap S : LegFits(r.leg[l], r.left[l], o[l], v[l])
  PROVE  Fits(r, o, v)
BY DEF Fits

\* Fits reads nothing of a state but its legs.
LEMMA FitsSame ==
  ASSUME NEW s, NEW r, NEW o, NEW v, Fits(s, o, v), r.leg = s.leg, r.left = s.left
  PROVE  Fits(r, o, v)
BY DEF Fits

\* A leg adopted from an open position fits it.
LEMMA FitsAdopted ==
  ASSUME BrokerOK, NEW s \in State, Fits(s, order, vol), NEW new \in SUBSET Unadopted(s)
  PROVE  Fits(Adopted(s, new), order, vol)
<1> DEFINE r == Adopted(s, new)
<1>1. new \in SUBSET Legs /\ \A l \in new : order[l] = "open" /\ vol[l] > 0
  BY DEF Unadopted, Positions, BrokerOK
<1>2. /\ r \in State
      /\ \A l \in Legs : r.leg[l] = IF l \in new THEN "filled" ELSE s.leg[l]
      /\ \A l \in Legs : r.left[l] = IF l \in new THEN vol[l] ELSE s.left[l]
  BY <1>1, AdoptedIs
<1> HIDE DEF r
<1>3. \A l \in Legs \cap new : LegFits(r.leg[l], r.left[l], order[l], vol[l])
  BY <1>1, <1>2 DEF LegFits, Held, BrokerOK
<1>4. Fits(r, order, vol)
  BY <1>2, <1>3, FitsStaged
<1> QED BY <1>4 DEF r

\* A snapshot's verdict on a waiting leg is true of the account it was read from.
LEMMA FitsReconciled ==
  ASSUME BrokerOK, NEW s \in State, Fits(s, order, vol)
  PROVE  Fits(Reconciled(s), order, vol)
<1> DEFINE r == Reconciled(s)
<1>1. /\ r \in State
      /\ \A l \in Legs : r.leg[l] = IF l \in Unadopted(s) THEN "filled"
                                    ELSE IF s.leg[l] \notin Waiting THEN s.leg[l]
                                    ELSE IF l \in Orders THEN "pending" ELSE Absent(s.leg[l])
      /\ \A l \in Legs : r.left[l] = IF l \in Unadopted(s) THEN vol[l] ELSE s.left[l]
  BY ReconciledIs
<1> HIDE DEF r
<1>2. ASSUME NEW l \in Legs PROVE LegFits(r.leg[l], r.left[l], order[l], vol[l])
  <2>1. LegFits(s.leg[l], s.left[l], order[l], vol[l])
    BY DEF Fits
  <2>2. s.leg[l] \in Stages /\ order[l] \in OrderStates /\ vol[l] \in Nat
    BY DEF State, BrokerOK
  <2>3. CASE l \in Unadopted(s)
    BY <1>1, <2>2, <2>3 DEF LegFits, Held, Unadopted, Positions, BrokerOK
  <2>4. CASE l \notin Unadopted(s) /\ s.leg[l] \notin Waiting
    BY <1>1, <2>1, <2>4
  <2>5. CASE l \notin Unadopted(s) /\ s.leg[l] \in Waiting /\ l \in Orders
    <3>1. r.leg[l] = "pending"
      BY <1>1, <2>5
    <3> QED BY <3>1 DEF LegFits, Held
  <2>6. CASE l \notin Unadopted(s) /\ s.leg[l] \in Waiting /\ l \notin Orders
    <3>1. r.leg[l] = Absent(s.leg[l])
      BY <1>1, <2>6
    <3>2. order[l] # "open" /\ order[l] # "pending"
      BY <2>6 DEF Unadopted, Positions, Orders, Waiting
    <3>3. CASE s.leg[l] = "overdue"
      <4>1. r.leg[l] = "cancelled" /\ order[l] \in {"closed", "cancelled"}
        BY <2>1, <2>2, <3>1, <3>2, <3>3 DEF Absent, LegFits, OrderStates
      <4> QED BY <4>1 DEF LegFits, Held
    <3>4. CASE s.leg[l] # "overdue"
      <4>1. r.leg[l] = "gone"
        BY <2>6, <3>1, <3>4 DEF Absent, Waiting
      <4> QED BY <3>2, <4>1 DEF LegFits, Held
    <3> QED BY <3>3, <3>4
  <2> QED BY <2>3, <2>4, <2>5, <2>6
<1>3. Fits(r, order, vol)
  BY <1>2 DEF Fits
<1> QED BY <1>3 DEF r

\* An order absent for ten seconds is not still filling.
LEMMA FitsAged ==
  ASSUME NEW s \in State, NEW o \in [Legs -> OrderStates], NEW v, Fits(s, o, v),
         \A l \in Legs : o[l] # "filling"
  PROVE  Fits(Aged(s), o, v)
<1> DEFINE r == Aged(s)
           S == {l \in Legs : s.leg[l] = "gone"}
<1>1. /\ r \in State /\ r.left = s.left
      /\ \A l \in Legs : r.leg[l] = IF s.leg[l] = "gone" THEN "overdue" ELSE s.leg[l]
  BY AgedIs
<1> HIDE DEF r
<1>2. \A l \in Legs \cap S : LegFits(r.leg[l], r.left[l], o[l], v[l])
  <2> SUFFICES ASSUME NEW l \in Legs, s.leg[l] = "gone"
               PROVE  LegFits(r.leg[l], r.left[l], o[l], v[l])
    OBVIOUS
  <2>1. r.leg[l] = "overdue"
    BY <1>1
  <2>2. o[l] \notin {"pending", "filling"}
    BY DEF Fits, LegFits
  <2> QED BY <2>1, <2>2 DEF LegFits, Held
<1>3. Fits(r, o, v)
  BY <1>1, <1>2, FitsStaged
<1> QED BY <1>3 DEF r

-----------------------------------------------------------------------------
(* Open legs and stops.                                                    *)

\* An open leg of a true record is open or closed at the broker.
LEMMA OpenFit ==
  ASSUME NEW s \in State, NEW o, NEW v, Fits(s, o, v)
  PROVE  /\ OpenLegs(s) = In(s, Held) /\ OpenLegs(s) \subseteq Legs
         /\ \A l \in OpenLegs(s) : o[l] \in {"open", "closed"}
BY DEF Fits, LegFits, OpenLegs, In, Held

\* Backed survives what opens no leg and lowers no stop of an open one.
LEMMA BackedStays ==
  ASSUME NEW s \in State, NEW r \in State, NEW o, NEW o2, NEW st \in [Legs -> 0 .. 2 * Last],
         NEW st2 \in [Legs -> 0 .. 2 * Last], Backed(s, o, st),
         OpenLegs(r) \subseteq OpenLegs(s), r.stop = s.stop,
         \A l \in OpenLegs(r) : o2[l] = "open" => o[l] = "open" /\ st2[l] >= st[l]
  PROVE  Backed(r, o2, st2)
<1> SUFFICES ASSUME NEW l \in OpenLegs(r), o2[l] = "open" PROVE st2[l] >= r.stop
  BY DEF Backed
<1>1. l \in Legs /\ st[l] >= s.stop /\ st2[l] >= st[l] /\ s.stop \in Nat
  BY Numbers DEF Backed, OpenLegs, In, State
<1>2. st[l] \in Nat /\ st2[l] \in Nat
  BY <1>1, Numbers
<1> QED BY <1>1, <1>2

\* The plan's own stop is always in force: no stop is below it.
LEMMA BackedAtPlanStop ==
  ASSUME NEW s \in State, NEW o, NEW st \in [Legs -> 0 .. 2 * Last], s.stop = 0
  PROVE  Backed(s, o, st)
<1>1. \A l \in OpenLegs(s) : l \in Legs
  BY DEF OpenLegs, In
<1>2. \A l \in Legs : st[l] >= 0
  BY Numbers
<1> QED BY <1>1, <1>2 DEF Backed

-----------------------------------------------------------------------------
(* Where a step leaves the poll.                                           *)

Rests == /\ DOMAIN task' = TaskFields /\ task'.pc = "idle" /\ task'.then = "idle"
         /\ task'.state = Nothing /\ task'.seen = {} /\ task'.todo = {} /\ task'.done = {}
         /\ task'.ok = TRUE

\* The poll goes to pc with the state s, and keeps the rest.
GoesOn(pc, then, s) ==
  /\ DOMAIN task' = TaskFields /\ task'.pc = pc /\ task'.then = then /\ task'.state = s
  /\ task'.seen = task.seen /\ task'.todo = task.todo /\ task'.cut = task.cut
  /\ task'.done = task.done /\ task'.ok = task.ok

\* How a poll ends.
LEMMA IdleRests ==
  ASSUME task' = Idle
  PROVE  Rests
BY DEF Rests, Idle, TaskFields

\* Go moves the poll and nothing else.
LEMMA GoGoesOn ==
  ASSUME TaskOK, NEW pc, Go(pc)
  PROVE  GoesOn(pc, task.then, task.state)
BY DEF TaskOK, TaskFields, Go, GoesOn

\* SaveThen moves the poll to the save of its new state.
LEMMA SaveGoesOn ==
  ASSUME TaskOK, NEW s, NEW pc, SaveThen(s, pc)
  PROVE  GoesOn("save", pc, s)
BY DEF TaskOK, TaskFields, SaveThen, GoesOn

\* A step that leaves records and account alone keeps what relates the two.
LEMMA RecordsStay ==
  ASSUME RecInv, UNCHANGED <<runtime, broker, faults, history>>
  PROVE  RecInv'
<1>1. /\ UNCHANGED <<mem, saved, ended, restored>> /\ UNCHANGED <<order, vol, stop, fill>>
      /\ UNCHANGED <<cuts, torn, relapsed, severed, loose>> /\ UNCHANGED faults
  BY DEF runtime, broker, history
<1>2. Shape'
  BY <1>1 DEF RecInv, Shape, RecordsOK, BrokerOK, HistoryOK
<1>3. RecordsFit'
  BY <1>1 DEF RecInv, RecordsFit
<1>4. RecordsBacked'
  BY <1>1 DEF RecInv, RecordsBacked
<1>5. Flat'
  BY <1>1 DEF RecInv, Flat
<1> QED BY <1>2, <1>3, <1>4, <1>5 DEF RecInv

\* A poll that ended says nothing of its own.
LEMMA RestingIsTrue ==
  ASSUME Rests,
         (~torn => /\ Known(mem) => Before(mem.next)
                   /\ Known(saved) => Before(saved.next))'
  PROVE  TaskInv'
<1>1. TaskOK'
  BY DEF Rests, TaskOK, Busy, Steps
<1>2. Place' /\ Sees' /\ TaskTrue' /\ Fresh'
  BY DEF Rests, Place, Sees, TaskTrue, Fresh, Busy, Where, At, Seeing, Following
<1>3. CutsBehind'
  BY DEF Rests, CutsBehind, Busy, At
<1> QED BY <1>1, <1>2, <1>3 DEF TaskInv

\* A step that changes where the poll is and nothing else.
LEMMA Turns ==
  ASSUME Inv, UNCHANGED <<runtime, broker, faults, history>>,
         TaskOK', Place', Sees', TaskTrue', Fresh',
         task.done = {}, task'.done = {}, ~torn /\ Busy' => Before(task'.state.next)
  PROVE  Inv'
<1>1. RecInv'
  BY RecordsStay DEF Inv
<1>2. UNCHANGED <<mem, saved, cuts, torn>>
  BY DEF runtime, history
<1>3. CutsBehind'
  BY <1>2 DEF Inv, TaskInv, CutsBehind, Before, At, Busy
<1> QED BY <1>1, <1>3 DEF Inv, TaskInv

-----------------------------------------------------------------------------
(* One step of the poll after the other.                                   *)

\* The snapshot of a poll (PollAsync).
LEMMA PollKeeps ==
  ASSUME Inv, Poll
  PROVE  Inv'
<1>1. /\ restored /\ task.pc = "idle" /\ Known(mem) /\ mem \in State /\ saved # Nothing
      /\ UNCHANGED <<runtime, broker, faults, history>>
      /\ UNCHANGED <<mem, saved, restored, order, vol, stop, cuts, torn, relapsed>>
  BY DEF Poll, Inv, RecInv, Shape, RecordsOK, Flat, Known, At, runtime, broker, history
<1>2. /\ BrokerOK /\ Fits(mem, order, vol) /\ (~relapsed => Backed(mem, order, stop))
      /\ task.done = {} /\ (~torn => Before(mem.next))
  BY <1>1 DEF Inv, RecInv, Shape, RecordsFit, RecordsBacked, TaskInv, CutsBehind
<1>3. Positions \subseteq Legs /\ Unadopted(mem) \subseteq Legs
  BY DEF Positions, Unadopted
<1>4. ASSUME NeedsSubmittedReconcile(mem),
             task' = [Idle EXCEPT !.pc = IF Unadopted(mem) = {} THEN "save" ELSE "adopt",
                                !.then = IF In(Reconciled(mem), {"cancelled"}) = Legs
                                         THEN "forget" ELSE "manage",
                                !.state = Reconciled(mem), !.seen = Positions,
                                !.todo = Unadopted(mem)]
      PROVE  Inv'
  <2> DEFINE s == Reconciled(mem)
             new == Unadopted(mem)
  <2>1. /\ DOMAIN task' = TaskFields /\ task'.state = s /\ task'.seen = Positions
        /\ task'.pc = IF new = {} THEN "save" ELSE "adopt"
        /\ task'.then = IF In(s, {"cancelled"}) = Legs THEN "forget" ELSE "manage"
        /\ task'.todo = new /\ task'.done = {} /\ task'.ok = TRUE
    <3> HIDE DEF s, new
    <3> QED BY <1>4 DEF Idle, TaskFields, s, new
  <2>2. /\ s \in State /\ s.next = mem.next /\ s.stop = IF new = {} THEN mem.stop ELSE 0
        /\ \A l \in Legs : s.leg[l] = IF l \in new THEN "filled"
                                      ELSE IF mem.leg[l] \notin Waiting THEN mem.leg[l]
                                      ELSE IF l \in Orders THEN "pending" ELSE Absent(mem.leg[l])
    BY <1>1, <1>2, ReconciledIs
  <2>3. Fits(s, order, vol)
    BY <1>1, <1>2, FitsReconciled
  <2> HIDE DEF s, new
  <2>4. OpenLegs(mem) = In(mem, Held) /\ OpenLegs(s) = In(s, Held)
    BY <1>1, <1>2, <2>2, <2>3, OpenFit
  <2>5. \A l \in Legs : s.leg[l] \in Held => mem.leg[l] \in Held \/ l \in new
    BY <2>2 DEF Absent, Held, Waiting
  <2>6. ~relapsed => Backed(s, order, stop)
    <3>1. stop \in [Legs -> 0 .. 2 * Last]
      BY <1>2 DEF BrokerOK
    <3>2. CASE new = {}
      <4>1. OpenLegs(s) \subseteq OpenLegs(mem) /\ s.stop = mem.stop
        BY <2>2, <2>4, <2>5, <3>2 DEF In
      <4>2. \A l \in Legs : stop[l] >= stop[l]
        BY <3>1, Numbers
      <4>3. \A l \in OpenLegs(s) : order[l] = "open" => order[l] = "open" /\ stop[l] >= stop[l]
        BY <4>2 DEF OpenLegs, In
      <4> QED BY <1>1, <1>2, <2>2, <3>1, <4>1, <4>3, BackedStays
    <3>3. CASE new # {}
      BY <2>2, <3>1, <3>3, BackedAtPlanStop
    <3> QED BY <3>2, <3>3
  <2>7. TaskOK'
    BY <1>3, <2>1, <2>2 DEF TaskOK, Steps, Busy, new
  <2>8. Place'
    BY <1>1, <2>1 DEF Place, Busy, At, Following
  <2>9. Sees'
    <3>1. Where' = "forget" => In(s, Held) = {}
      <4>1. Where' = "forget" => In(s, {"cancelled"}) = Legs
        BY <2>1 DEF Where
      <4> QED BY <4>1 DEF In, Held
    <3>2. ASSUME NEW l \in OpenLegs(s) \ Positions PROVE order[l] = "closed"
      <4>1. l \in Legs /\ order[l] \in {"open", "closed"}
        BY <1>1, <2>2, <2>3, OpenFit
      <4> QED BY <3>2, <4>1 DEF Positions
    <3>3. Where' \in {"forget", "manage"} /\ ~At("close")'
      BY <2>1 DEF Where, At
    <3> QED BY <1>1, <2>1, <2>4, <3>1, <3>2, <3>3 DEF Sees, Seeing
  <2>10. TaskTrue'
    BY <1>1, <2>1, <2>3, <2>6 DEF TaskTrue
  <2>11. Fresh'
    <3>1. new \cap In(mem, Held) = {}
      BY DEF new, Unadopted, In, Held
    <3> QED BY <1>1, <2>1, <2>2, <3>1 DEF Fresh, At
  <2>12. ~torn /\ Busy' => Before(task'.state.next)
    BY <1>2, <2>1, <2>2
  <2> QED BY <1>1, <1>2, <2>1, <2>7, <2>8, <2>9, <2>10, <2>11, <2>12, Turns
<1>5. ASSUME task' = [Idle EXCEPT !.pc = "manage", !.state = mem, !.seen = Positions]
      PROVE  Inv'
  <2>1. /\ DOMAIN task' = TaskFields /\ task'.state = mem /\ task'.seen = Positions
        /\ task'.pc = "manage" /\ task'.then = "idle"
        /\ task'.todo = {} /\ task'.done = {} /\ task'.ok = TRUE
    BY <1>5 DEF Idle, TaskFields
  <2>2. TaskOK'
    BY <1>1, <1>3, <2>1 DEF TaskOK, Steps, Busy
  <2>3. Place' /\ Fresh'
    BY <1>1, <2>1 DEF Place, Fresh, Busy, At, Following
  <2>4. Sees'
    <3>1. ASSUME NEW l \in OpenLegs(mem) \ Positions PROVE order[l] = "closed"
      <4>1. l \in Legs /\ order[l] \in {"open", "closed"}
        BY <1>1, <1>2, OpenFit
      <4> QED BY <3>1, <4>1 DEF Positions
    <3> QED BY <1>1, <2>1, <3>1 DEF Sees, Seeing, Where, At
  <2>5. TaskTrue'
    BY <1>1, <1>2, <2>1 DEF TaskTrue
  <2>6. ~torn /\ Busy' => Before(task'.state.next)
    BY <1>2, <2>1
  <2> QED BY <1>1, <1>2, <2>1, <2>2, <2>3, <2>4, <2>5, <2>6, Turns
<1> QED BY <1>4, <1>5 DEF Poll

\* An adoption asked for by the engine (TryAdoptBrokerPositionAsync).
LEMMA AdoptPositionKeeps ==
  ASSUME Inv, NEW l \in Legs, AdoptPosition(l)
  PROVE  Inv'
<1>1. /\ restored /\ task.pc = "idle" /\ Known(mem) /\ mem \in State /\ saved # Nothing
      /\ l \in Unadopted(mem)
      /\ UNCHANGED <<runtime, broker, faults, history>>
      /\ UNCHANGED <<mem, saved, restored, order, vol, stop, cuts, torn, relapsed>>
  BY DEF AdoptPosition, Inv, RecInv, Shape, RecordsOK, Flat, Known, At, runtime, broker, history
<1>2. /\ BrokerOK /\ Fits(mem, order, vol)
      /\ task.done = {} /\ (~torn => Before(mem.next))
  BY <1>1 DEF Inv, RecInv, Shape, RecordsFit, TaskInv, CutsBehind
<1> DEFINE s == Adopted(mem, {l})
<1>3. /\ DOMAIN task' = TaskFields /\ task'.state = s /\ task'.seen = {}
      /\ task'.pc = "adopt" /\ task'.then = "idle"
      /\ task'.todo = {l} /\ task'.done = {} /\ task'.ok = TRUE
  BY DEF AdoptPosition, Idle, TaskFields
<1>4. s \in State /\ s.next = mem.next /\ s.stop = 0
  BY <1>1, <1>2, AdoptedIs
<1>5. Fits(s, order, vol)
  BY <1>1, <1>2, FitsAdopted
<1> HIDE DEF s
<1>6. Backed(s, order, stop)
  BY <1>2, <1>4, BackedAtPlanStop DEF BrokerOK
<1>7. TaskOK'
  BY <1>3, <1>4 DEF TaskOK, Steps, Busy
<1>8. Place' /\ Sees'
  BY <1>1, <1>3 DEF Place, Sees, Where, Seeing, Busy, At, Following
<1>9. TaskTrue'
  BY <1>1, <1>3, <1>5, <1>6 DEF TaskTrue
<1>10. Fresh'
  <2>1. {l} \cap In(mem, Held) = {}
    BY <1>1 DEF Unadopted, In, Held
  <2> QED BY <1>1, <1>3, <1>4, <2>1 DEF Fresh, At
<1>11. ~torn /\ Busy' => Before(task'.state.next)
  BY <1>2, <1>3, <1>4
<1> QED BY <1>1, <1>2, <1>3, <1>7, <1>8, <1>9, <1>10, <1>11, Turns

\* A step that moves the broker but not the records.
LEMMA BrokerMoves ==
  ASSUME RecInv, UNCHANGED runtime, loose' = loose, ~relapsed' => ~relapsed,
         BrokerOK', HistoryOK', Onward(order, order', vol, vol'),
         ~relapsed' /\ restored /\ Known(mem) => Backed(mem, order', stop'),
         ~relapsed' /\ ~restored /\ Known(saved) => Backed(saved, order', stop')
  PROVE  RecInv'
<1>1. UNCHANGED <<mem, saved, ended, restored>>
  BY DEF runtime
<1>2. Shape'
  BY <1>1 DEF RecInv, Shape, RecordsOK
<1>3. vol \in [Legs -> Nat] /\ vol' \in [Legs -> Nat]
  BY DEF RecInv, Shape, BrokerOK
<1>4. \A s \in {mem, saved} : Known(s) => s \in State
  BY DEF RecInv, Shape, RecordsOK, Known
<1>5. RecordsFit'
  <2>1. ASSUME NEW s \in {mem, saved}, Known(s) PROVE Fits(s, order', vol')
    <3>1. s \in State /\ Fits(s, order, vol)
      BY <1>4, <2>1 DEF RecInv, RecordsFit
    <3> QED BY <1>3, <3>1, FitsOnward
  <2> QED BY <1>1, <2>1 DEF RecordsFit
<1>6. RecordsBacked'
  BY <1>1 DEF RecInv, RecordsBacked
<1>7. Flat'
  <2>1. \A l \in Legs : order[l] \in {"closed", "cancelled"} => order'[l] = order[l]
    BY DEF Onward
  <2> QED BY <1>1, <2>1 DEF RecInv, Flat
<1> QED BY <1>2, <1>5, <1>6, <1>7 DEF RecInv

\* The open legs of a record that fits keep their stops.
LEMMA BackedOnward ==
  ASSUME BrokerOK, BrokerOK', NEW s \in State, Fits(s, order, vol), Backed(s, order, stop),
         \A l \in OpenLegs(s) : order[l] # "filling" /\ order'[l] = "open"
                                  => order[l] = "open" /\ stop'[l] = stop[l]
  PROVE  Backed(s, order', stop')
<1>1. stop \in [Legs -> 0 .. 2 * Last] /\ stop' \in [Legs -> 0 .. 2 * Last]
  BY DEF BrokerOK
<1>2. \A l \in OpenLegs(s) : l \in Legs /\ order[l] # "filling"
  BY OpenFit
<1>3. \A l \in Legs : stop[l] >= stop[l]
  BY <1>1, Numbers
<1>4. \A l \in OpenLegs(s) : order'[l] = "open" => order[l] = "open" /\ stop'[l] >= stop[l]
  BY <1>2, <1>3
<1> QED BY <1>1, <1>4, BackedStays

\* What was booked stays behind records that did not change.
LEMMA CutsKept ==
  ASSUME CutsBehind, UNCHANGED <<mem, saved, cuts, torn>>, task.done = {}, task'.done = {},
         ~torn /\ Busy' => Before(task'.state.next)
  PROVE  CutsBehind'
BY DEF CutsBehind, Before, At, Busy

\* What is known at every step of a poll.
LEMMA AtWork ==
  ASSUME Inv, Busy
  PROVE  /\ task.state \in State /\ Known(task.state) /\ restored /\ saved # Nothing
         /\ RecordsOK /\ BrokerOK /\ HistoryOK /\ TaskOK
         /\ Fits(task.state, order, vol) /\ (~relapsed => Backed(task.state, order, stop))
         /\ OpenLegs(task.state) = In(task.state, Held) /\ OpenLegs(task.state) \subseteq Legs
         /\ task.state.next \in 1 .. Last + 1
<1>1. task.state \in State
  BY DEF Inv, TaskInv, TaskOK
<1>2. Fits(task.state, order, vol)
  BY DEF Inv, TaskInv, TaskTrue
<1>3. OpenLegs(task.state) = In(task.state, Held) /\ OpenLegs(task.state) \subseteq Legs
  BY <1>1, <1>2, OpenFit
<1> QED BY <1>1, <1>2, <1>3, StateKnown DEF Inv, RecInv, Shape, TaskInv, Place, TaskTrue, State

\* Between two bookings nothing is half done.
LEMMA NoneDone ==
  ASSUME Inv, Busy, task.pc \notin {"close", "save"}
  PROVE  task.done = {} /\ (~torn => Before(task.state.next))
BY DEF Inv, TaskInv, CutsBehind, At

\* The amendment of the adopted legs (AmendAndVerifyLegStopAsync).
LEMMA AdoptKeeps ==
  ASSUME Inv, Adopt
  PROVE  Inv'
<1>1. /\ task.pc = "adopt" /\ Busy
      /\ Amended(task.todo \cap Positions, 0)
      /\ \/ Go("save")
         \/ task' = Idle
      /\ UNCHANGED <<runtime, order, vol, fill, faults, history>>
      /\ UNCHANGED <<mem, saved, ended, restored, order, vol, fill, cuts, torn, relapsed, severed,
                     loose, faults>>
  BY DEF Adopt, At, Busy, Done, runtime, history
<1>2. /\ task.state \in State /\ Known(task.state) /\ restored /\ saved # Nothing
      /\ RecordsOK /\ BrokerOK /\ HistoryOK /\ TaskOK
      /\ Fits(task.state, order, vol)
  BY <1>1, AtWork
<1>3. task.done = {} /\ (~torn => Before(task.state.next))
  BY <1>1, NoneDone
<1>4. /\ task.then \in {"forget", "manage", "idle"} /\ task.state.stop = 0
      /\ Known(mem) => task.todo \cap In(mem, Held) = {}
  BY <1>1 DEF Inv, TaskInv, Place, Fresh, At
<1>5. BrokerOK' /\ HistoryOK'
  <2>1. stop' \in [Legs -> 0 .. 2 * Last]
    BY <1>1, <1>2, Numbers DEF Amended, BrokerOK
  <2> QED BY <1>1, <1>2, <2>1 DEF BrokerOK, HistoryOK
<1>6. Onward(order, order', vol, vol')
  <2>1. \A l \in Legs : vol[l] <= vol[l]
    BY <1>2 DEF BrokerOK
  <2> QED BY <1>1, <2>1 DEF Onward
<1>7. ASSUME ~relapsed, Known(mem) PROVE Backed(mem, order', stop')
  <2>1. mem \in State /\ Fits(mem, order, vol) /\ Backed(mem, order, stop)
    BY <1>2, <1>7 DEF Inv, RecInv, RecordsOK, RecordsFit, RecordsBacked, Known
  <2>2. \A l \in OpenLegs(mem) : l \in Legs /\ l \notin task.todo
    BY <1>4, <1>7, <2>1, OpenFit
  <2>3. \A l \in OpenLegs(mem) : stop'[l] = stop[l] /\ order'[l] = order[l]
    BY <1>1, <2>2 DEF Amended
  <2> QED BY <1>2, <1>5, <2>1, <2>3, BackedOnward
<1>8. RecInv'
  BY <1>1, <1>2, <1>5, <1>6, <1>7, BrokerMoves DEF Inv
<1>9. CASE Go("save")
  <2>1. GoesOn("save", task.then, task.state)
    BY <1>2, <1>9, GoGoesOn
  <2>2. TaskOK'
    BY <1>2, <2>1 DEF TaskOK, GoesOn, Steps, Busy
  <2>3. Place' /\ Fresh'
    BY <1>1, <1>2, <1>4, <2>1 DEF GoesOn, Place, Fresh, Busy, At, Following
  <2>4. Sees'
    <3>1. Where' = Where
      BY <1>1, <2>1 DEF GoesOn, Where
    <3> QED BY <1>1, <1>4, <2>1, <3>1 DEF GoesOn, Sees, Seeing, At, Inv, TaskInv, Where
  <2>5. TaskTrue'
    <3>1. Backed(task.state, order', stop')
      BY <1>2, <1>4, <1>5, BackedAtPlanStop DEF BrokerOK
    <3> QED BY <1>1, <1>2, <2>1, <3>1 DEF GoesOn, TaskTrue
  <2>6. CutsBehind'
    <3>1. task'.done = {} /\ (~torn /\ Busy' => Before(task'.state.next))
      BY <1>3, <2>1 DEF GoesOn
    <3> QED BY <1>1, <1>3, <3>1, CutsKept DEF Inv, TaskInv
  <2> QED BY <1>8, <2>2, <2>3, <2>4, <2>5, <2>6 DEF Inv, TaskInv
<1>10. CASE task' = Idle
  <2>1. (~torn => /\ Known(mem) => Before(mem.next)
                  /\ Known(saved) => Before(saved.next))'
    BY <1>1, <1>3 DEF Inv, TaskInv, CutsBehind, Before
  <2>2. TaskInv'
    BY <1>10, <2>1, IdleRests, RestingIsTrue
  <2> QED BY <1>8, <2>2 DEF Inv
<1> QED BY <1>1, <1>9, <1>10

\* A step that only changes where the poll is, or the state it is about to save.
LEMMA WorkTurns ==
  ASSUME Inv, Busy, task.pc \notin {"close", "save"},
         UNCHANGED <<runtime, broker, faults, history>>,
         NEW pc \in Steps, NEW then \in Steps, NEW s \in State, GoesOn(pc, then, s),
         pc \notin {"idle", "close", "adopt"}, pc \in Following => mem = s,
         pc = "cancel" => then \in {"book", "breakeven", "raise"},
         pc = "save" => then \notin {"save", "adopt", "cancel", "close"},
         Fits(s, order, vol), ~relapsed => Backed(s, order, stop),
         s.next >= task.state.next, Sees'
  PROVE  Inv'
<1>1. /\ UNCHANGED <<mem, saved, restored, order, vol, stop, cuts, torn, relapsed>>
      /\ task.state \in State /\ restored /\ saved # Nothing /\ TaskOK /\ HistoryOK
      /\ task.done = {} /\ (~torn => Before(task.state.next))
  BY AtWork, NoneDone DEF runtime, broker, history
<1>2. TaskOK'
  BY <1>1 DEF TaskOK, GoesOn, Busy
<1>3. Place' /\ Fresh'
  BY <1>1 DEF Place, Fresh, GoesOn, Busy, At
<1>4. TaskTrue'
  BY <1>1 DEF TaskTrue, GoesOn
<1>5. ~torn /\ Busy' => Before(task'.state.next)
  <2>1. task.state.next \in Nat /\ s.next \in Nat /\ \A c \in cuts : c[1] \in Nat
    BY <1>1, Numbers DEF State, HistoryOK
  <2>2. ~torn => Before(s.next)
    BY <1>1, <2>1 DEF Before
  <2> QED BY <2>2 DEF GoesOn
<1>6. task'.done = {}
  BY <1>1 DEF GoesOn
<1> QED BY <1>1, <1>2, <1>3, <1>4, <1>5, <1>6, Turns

\* A step that ends the poll without touching records or account.
LEMMA WorkEnds ==
  ASSUME Inv, Busy, task.pc \notin {"close", "save"},
         UNCHANGED <<runtime, broker, faults, history>>, task' = Idle
  PROVE  Inv'
<1>1. UNCHANGED <<mem, saved, cuts, torn>> /\ task.done = {}
  BY NoneDone DEF runtime, history
<1>2. (~torn => /\ Known(mem) => Before(mem.next)
                /\ Known(saved) => Before(saved.next))'
  BY <1>1 DEF Inv, TaskInv, CutsBehind, Before
<1>3. TaskInv'
  BY <1>2, IdleRests, RestingIsTrue
<1> QED BY <1>3, RecordsStay DEF Inv

\* The legs found closed are settled.
LEMMA SettleKeeps ==
  ASSUME Inv, task.pc = "manage", UNCHANGED <<runtime, broker, faults, history>>,
         NEW s, s = task.state, NEW missing, missing = Missing(s, task.seen), NEW verdict \in Verdicts,
         verdict = "final" => OpenLegs(s) \cap task.seen = {},
         NEW then, then = IF verdict = "final" THEN "complete" ELSE "target",
         SaveThen(Settled(s, missing, verdict), then)
  PROVE  Inv'
<1> DEFINE r == Settled(s, missing, verdict)
<1>a. task.pc = "manage" /\ Busy /\ UNCHANGED <<runtime, broker, faults, history>>
  BY DEF Busy
<1>b. /\ s \in State /\ BrokerOK /\ TaskOK
      /\ Fits(s, order, vol) /\ (~relapsed => Backed(s, order, stop))
      /\ OpenLegs(s) = In(s, Held) /\ OpenLegs(s) \subseteq Legs /\ s.next \in 1 .. Last + 1
  BY <1>a, AtWork
<1>c. mem = s /\ (\A l \in OpenLegs(s) \ task.seen : order[l] = "closed")
  BY <1>a DEF Inv, TaskInv, Place, Sees, Following, Where
<1>d. UNCHANGED order /\ s.next >= s.next
  BY <1>a, <1>b, Numbers DEF broker
<1>1. missing \in SUBSET Legs /\ missing = OpenLegs(s) \ task.seen
  BY <1>b DEF Missing
<1>2. /\ r \in State /\ r.next = s.next /\ r.stop = s.stop
      /\ \A l \in Legs : r.leg[l] = IF l \in missing THEN "closed" ELSE s.leg[l]
      /\ \A l \in Legs : r.left[l] = IF l \in missing THEN 0 ELSE s.left[l]
  <2>1. s \in State /\ missing \in SUBSET Legs /\ verdict \in Verdicts
    BY <1>b, <1>1
  <2>2. r \in State /\ r.next = s.next /\ r.stop = s.stop
    BY <2>1, SettledState
  <2> QED BY <2>1, <2>2, SettledLeg
<1>3. GoesOn("save", then, r)
  BY <1>b, SaveGoesOn
<1>4. verdict = "final" => OpenLegs(s) \cap task.seen = {}
  OBVIOUS
<1> HIDE DEF r
<1>5. \A l \in Legs \cap missing : LegFits(r.leg[l], r.left[l], order[l], vol[l])
  BY <1>c, <1>1, <1>2 DEF LegFits, Held
<1>6. Fits(r, order, vol)
  <2>1. \A l \in Legs \ missing : r.leg[l] = s.leg[l] /\ r.left[l] = s.left[l]
    BY <1>2
  <2> QED BY <1>b, <1>2, <1>5, <2>1, FitsStaged
<1>7. OpenLegs(r) = In(r, Held)
  BY <1>2, <1>6, OpenFit
<1>8. \A l \in OpenLegs(r) : l \in OpenLegs(s) /\ l \notin missing
  BY <1>b, <1>2, <1>7 DEF In, Held
<1>9. ~relapsed => Backed(r, order, stop)
  <2>1. stop \in [Legs -> 0 .. 2 * Last] /\ OpenLegs(r) \subseteq OpenLegs(s)
    BY <1>b, <1>8 DEF BrokerOK
  <2>2. \A l \in Legs : stop[l] >= stop[l]
    BY <2>1, Numbers
  <2>3. \A l \in OpenLegs(r) : order[l] = "open" => order[l] = "open" /\ stop[l] >= stop[l]
    BY <1>b, <1>8, <2>2
  <2> QED BY <1>b, <1>2, <2>1, <2>3, BackedStays
<1>10. Sees'
  <2>1. OpenLegs(r) \subseteq task.seen
    BY <1>1, <1>8
  <2>2. then = "complete" => In(r, Held) = {}
    BY <1>1, <1>4, <1>7, <1>8
  <2>3. Where' = then /\ task'.pc = "save" /\ then \in {"complete", "target"}
    BY <1>3 DEF GoesOn, Where
  <2> QED BY <1>3, <2>1, <2>2, <2>3 DEF Sees, GoesOn, At, Seeing
<1>11. then \in Steps /\ then \notin {"save", "adopt", "cancel", "close"} /\ "save" \in Steps
  BY DEF Steps
<1> QED BY <1>a, <1>b, <1>d, <1>2, <1>3, <1>6, <1>9, <1>10, <1>11, WorkTurns DEF Following

\* The legs found closed (ManageOpenPositionsAsync).
LEMMA ManageKeeps ==
  ASSUME Inv, Manage
  PROVE  Inv'
<1> DEFINE s == task.state
           missing == Missing(s, task.seen)
<1>1. task.pc = "manage" /\ Busy /\ UNCHANGED <<runtime, broker, faults, history>>
  BY DEF Manage, At, Busy
<1>2. /\ s \in State /\ BrokerOK /\ TaskOK
      /\ Fits(s, order, vol) /\ (~relapsed => Backed(s, order, stop))
      /\ OpenLegs(s) = In(s, Held) /\ OpenLegs(s) \subseteq Legs /\ s.next \in 1 .. Last + 1
  BY <1>1, AtWork
<1>3. mem = s /\ (\A l \in OpenLegs(s) \ task.seen : order[l] = "closed")
  BY <1>1 DEF Inv, TaskInv, Place, Sees, Following, Where
<1>4. UNCHANGED order /\ s.next >= s.next
  BY <1>1, <1>2, Numbers DEF broker
<1>5. CASE Done
  BY <1>1, <1>5, WorkEnds DEF Done
<1>6. CASE missing = {} /\ Go("target")
  <2>1. GoesOn("target", task.then, s)
    BY <1>2, <1>6, GoGoesOn
  <2>2. OpenLegs(s) \subseteq task.seen
    BY <1>6 DEF Missing
  <2>3. Sees'
    BY <2>1, <2>2 DEF Sees, GoesOn, Where, At, Seeing
  <2> QED BY <1>1, <1>2, <1>3, <1>4, <2>1, <2>3, WorkTurns DEF Steps, TaskOK
<1>7. ASSUME NEW reasons,
             SaveThen(Settled(s, missing, Verdict(reasons, OpenLegs(s) \cap task.seen)),
                      IF Verdict(reasons, OpenLegs(s) \cap task.seen) = "final"
                      THEN "complete" ELSE "target")
      PROVE  Inv'
  <2>1. Verdict(reasons, OpenLegs(s) \cap task.seen) = "final" => OpenLegs(s) \cap task.seen = {}
    BY DEF Verdict
  <2>2. Verdict(reasons, OpenLegs(s) \cap task.seen) \in Verdicts
    BY DEF Verdict, Verdicts
  <2> QED BY <1>1, <1>7, <2>1, <2>2, SettleKeeps
<1> QED BY <1>5, <1>6, <1>7 DEF Manage

\* At the steps behind Manage.
LEMMA Seen ==
  ASSUME Inv, task.pc \in Seeing \ {"close"}
  PROVE  /\ Busy /\ mem = task.state /\ OpenLegs(task.state) \subseteq task.seen
         /\ Open = OpenLegs(task.state)
<1>1. task.pc # "idle" /\ task.pc \in Following /\ task.pc \notin {"adopt", "cancel", "save"}
  BY DEF Seeing, Following
<1>2. OpenLegs(task.state) \subseteq task.seen /\ mem = task.state
  BY <1>1 DEF Inv, TaskInv, Place, Sees, Where
<1> QED BY <1>1, <1>2 DEF Busy, Open

\* The quote against the next target.
LEMMA TargetKeeps ==
  ASSUME Inv, Target
  PROVE  Inv'
<1> DEFINE s == task.state
<1>1. task.pc = "target" /\ UNCHANGED <<runtime, broker, faults, history>>
  BY DEF Target, At
<1>2. Busy /\ mem = s /\ OpenLegs(s) \subseteq task.seen
  BY <1>1, Seen DEF Seeing
<1>3. /\ s \in State /\ TaskOK /\ s.next \in 1 .. Last + 1
      /\ Fits(s, order, vol) /\ (~relapsed => Backed(s, order, stop))
  BY <1>2, AtWork
<1>4. s.next >= s.next /\ s.next + 1 >= s.next
  BY <1>3, Numbers
<1>5. CASE Done
  BY <1>1, <1>2, <1>5, WorkEnds DEF Done
<1>6. CASE Go("protect")
  <2>1. GoesOn("protect", task.then, s)
    BY <1>3, <1>6, GoGoesOn
  <2>2. Sees'
    BY <1>2, <2>1 DEF Sees, GoesOn, Where, At, Seeing
  <2> QED BY <1>1, <1>2, <1>3, <1>4, <2>1, <2>2, WorkTurns DEF Steps, TaskOK
<1>7. CASE s.next <= Last /\ SaveThen(Skipped(s), "idle")
  <2> DEFINE r == Skipped(s)
  <2>1. GoesOn("save", "idle", r)
    BY <1>3, <1>7, SaveGoesOn
  <2>2. r \in State /\ r.next = s.next + 1 /\ r.stop = s.stop /\ r.leg = s.leg /\ r.left = s.left
    BY <1>3, <1>7, BookedIs
  <2> HIDE DEF r
  <2>3. Sees'
    BY <2>1 DEF Sees, GoesOn, Where, At, Seeing
  <2>4. Fits(r, order, vol)
    BY <1>3, <2>2, FitsSame
  <2>5. ~relapsed => Backed(r, order, stop)
    BY <1>3, <2>2 DEF Backed, OpenLegs, In
  <2> QED BY <1>1, <1>2, <1>3, <1>4, <2>1, <2>2, <2>3, <2>4, <2>5, WorkTurns DEF Steps, Following
<1>8. CASE s.next <= Last /\ task' = [task EXCEPT !.pc = "cancel", !.then = "book"]
  <2>1. GoesOn("cancel", "book", s)
    BY <1>3, <1>8 DEF GoesOn, TaskOK, TaskFields
  <2>2. Sees'
    BY <1>2, <1>8, <2>1 DEF Sees, GoesOn, Where, At, Seeing
  <2> QED BY <1>1, <1>2, <1>3, <1>4, <2>1, <2>2, WorkTurns DEF Steps, TaskOK
<1> QED BY <1>5, <1>6, <1>7, <1>8 DEF Target


\* PersistStateAsync.
LEMMA SaveKeeps ==
  ASSUME Inv, Save
  PROVE  Inv'
<1>1. /\ task.pc = "save" /\ Busy /\ mem' = task.state /\ saved' = task.state
      /\ IF task.then = "idle" THEN task' = Idle
         ELSE task' = [task EXCEPT !.pc = task.then, !.done = {}]
      /\ UNCHANGED <<ended, restored, order, vol, stop, fill, cuts, torn, relapsed, severed,
                     loose, faults>>
  BY DEF Save, At, Busy, Done, broker, history
<1>2. /\ task.state \in State /\ Known(task.state) /\ restored
      /\ RecordsOK /\ BrokerOK /\ HistoryOK /\ TaskOK
      /\ Fits(task.state, order, vol) /\ (~relapsed => Backed(task.state, order, stop))
  BY <1>1, AtWork
<1>3. /\ task.then \notin {"save", "adopt", "cancel", "close"} /\ task.then \in Steps
      /\ (~torn => Before(task.state.next))
  BY <1>1, <1>2 DEF Inv, TaskInv, Place, CutsBehind, At, TaskOK
<1>4. RecInv'
  <2>1. Shape'
    BY <1>1, <1>2 DEF Shape, RecordsOK, BrokerOK, HistoryOK
  <2>2. RecordsFit' /\ RecordsBacked'
    BY <1>1, <1>2 DEF RecordsFit, RecordsBacked
  <2>3. Flat'
    BY <1>1, <1>2 DEF Flat, Known
  <2> QED BY <2>1, <2>2, <2>3 DEF RecInv
<1>5. (~torn => /\ Known(mem) => Before(mem.next)
                /\ Known(saved) => Before(saved.next))'
  BY <1>1, <1>3 DEF Before
<1>6. CASE task' = Idle
  <2>1. TaskInv'
    BY <1>5, <1>6, IdleRests, RestingIsTrue
  <2> QED BY <1>4, <2>1 DEF Inv
<1>7. CASE task.then # "idle" /\ task' = [task EXCEPT !.pc = task.then, !.done = {}]
  <2>1. /\ DOMAIN task' = TaskFields /\ task'.pc = task.then /\ task'.then = task.then
        /\ task'.state = task.state /\ task'.seen = task.seen /\ task'.todo = task.todo
        /\ task'.cut = task.cut /\ task'.done = {} /\ task'.ok = task.ok
    BY <1>2, <1>7 DEF TaskOK, TaskFields
  <2>2. TaskOK'
    BY <1>2, <1>3, <2>1 DEF TaskOK
  <2>3. Place' /\ Fresh'
    BY <1>1, <1>2, <1>3, <1>7, <2>1 DEF Place, Fresh, Busy, At, Known
  <2>4. Sees'
    <3>1. Where' = Where /\ ~At("close")'
      BY <1>1, <1>3, <2>1 DEF Where, At
    <3> QED BY <1>1, <2>1, <3>1 DEF Inv, TaskInv, Sees, At
  <2>5. TaskTrue'
    BY <1>1, <1>2, <2>1 DEF TaskTrue
  <2>6. CutsBehind'
    BY <1>1, <1>3, <1>5, <2>1 DEF CutsBehind, At, Busy, Before
  <2> QED BY <1>4, <2>2, <2>3, <2>4, <2>5, <2>6 DEF Inv, TaskInv
<1> QED BY <1>1, <1>6, <1>7

\* A dropped leg is one whose order was cancelled.
LEMMA DroppedIs ==
  ASSUME NEW s \in State, NEW S,
         NEW r, r = [s EXCEPT !.leg = [l \in Legs |-> IF l \in S THEN "dropped" ELSE @[l]]]
  PROVE  /\ r \in State /\ r.next = s.next /\ r.stop = s.stop /\ r.left = s.left
         /\ \A l \in Legs : r.leg[l] = IF l \in S THEN "dropped" ELSE s.leg[l]
<1>1. "dropped" \in Stages
  BY DEF Stages, Waiting
<1> QED BY <1>1, StagedIs

\* Some unfilled orders are cancelled, and some of those are recorded as dropped.
LEMMA CancelTurns ==
  ASSUME Inv, At("cancel"), UNCHANGED <<runtime, vol, stop, fill, history>>,
         faults' \in 0 .. MaxFaults,
         NEW made, made \subseteq Orders, Cancelled(made), NEW answered \in SUBSET made,
         NEW r, r = Dropped(answered), SaveThen(r, task.then)
  PROVE  Inv'
<1>1. /\ task.pc = "cancel" /\ Busy
      /\ UNCHANGED <<mem, saved, ended, restored, vol, stop, fill, cuts, torn, relapsed, severed,
                     loose>>
      /\ UNCHANGED runtime
  BY DEF At, Busy, runtime, history
<1> PICK s : s = task.state
  OBVIOUS
<1>2. /\ s \in State /\ Known(s) /\ restored /\ saved # Nothing /\ mem = s
      /\ RecordsOK /\ BrokerOK /\ HistoryOK /\ TaskOK
      /\ Fits(s, order, vol) /\ (~relapsed => Backed(s, order, stop))
      /\ OpenLegs(s) \subseteq Legs
  BY <1>1, AtWork DEF Inv, TaskInv, Place, Following
<1>3. task.done = {} /\ (~torn => Before(s.next))
  BY <1>1, NoneDone
<1>4. task.then \in {"book", "breakeven", "raise"}
  BY <1>1 DEF Inv, TaskInv, Place, At
<1>5. /\ made \subseteq Legs /\ \A l \in made : order[l] = "pending"
      /\ \A l \in Legs : order'[l] = IF l \in made THEN "cancelled" ELSE order[l]
      /\ order' \in [Legs -> OrderStates]
  BY <1>2 DEF Orders, Cancelled, BrokerOK, OrderStates
<1>6. BrokerOK' /\ HistoryOK'
  BY <1>1, <1>2, <1>5 DEF BrokerOK, HistoryOK
<1>7. Onward(order, order', vol, vol')
  <2>1. \A l \in Legs : vol[l] <= vol[l]
    BY <1>2 DEF BrokerOK
  <2> QED BY <1>1, <1>5, <2>1 DEF Onward
<1>8. Fits(s, order', vol')
  BY <1>1, <1>2, <1>7, FitsOnward DEF BrokerOK
<1>9. ~relapsed => Backed(s, order', stop')
  <2>1. \A l \in OpenLegs(s) : order'[l] = "open" => order[l] = "open" /\ stop'[l] = stop[l]
    BY <1>1, <1>2, <1>5
  <2> QED BY <1>2, <1>6, <2>1, BackedOnward
<1>10. RecInv'
  BY <1>1, <1>2, <1>6, <1>7, <1>9, BrokerMoves DEF Inv
<1>11. /\ r \in State /\ r.next = s.next /\ r.stop = s.stop /\ r.left = s.left
       /\ \A l \in Legs : r.leg[l] = IF l \in answered THEN "dropped" ELSE s.leg[l]
  <2>1. r = [s EXCEPT !.leg = [l \in Legs |-> IF l \in answered THEN "dropped" ELSE @[l]]]
    BY DEF Dropped
  <2> QED BY <1>2, <2>1, DroppedIs
<1>12. Fits(r, order', vol')
  <2>1. \A l \in Legs \cap answered : LegFits(r.leg[l], r.left[l], order'[l], vol'[l])
    BY <1>5, <1>11 DEF LegFits, Held
  <2>2. \A l \in Legs \ answered : r.leg[l] = s.leg[l] /\ r.left[l] = s.left[l]
    BY <1>11
  <2> QED BY <1>2, <1>8, <1>11, <2>1, <2>2, FitsStaged
<1>13. OpenLegs(r) \subseteq OpenLegs(s)
  BY <1>11 DEF OpenLegs, In
<1>14. ~relapsed => Backed(r, order', stop')
  <2>1. stop' \in [Legs -> 0 .. 2 * Last]
    BY <1>6 DEF BrokerOK
  <2>2. \A l \in Legs : stop'[l] >= stop'[l]
    BY <2>1, Numbers
  <2>3. \A l \in OpenLegs(r) : order'[l] = "open" => order'[l] = "open" /\ stop'[l] >= stop'[l]
    BY <1>2, <1>13, <2>2
  <2> QED BY <1>2, <1>9, <1>11, <1>13, <2>1, <2>3, BackedStays
<1>15. GoesOn("save", task.then, r)
  BY <1>2, SaveGoesOn
<1>16. TaskOK' /\ Place' /\ Fresh'
  <2>1. TaskOK'
    BY <1>2, <1>11, <1>15 DEF TaskOK, GoesOn, Steps, Busy
  <2>2. Place' /\ Fresh'
    BY <1>1, <1>2, <1>4, <1>15 DEF Place, Fresh, GoesOn, Busy, At, Following
  <2> QED BY <2>1, <2>2
<1>17. Sees'
  <2>1. Where = task.then /\ Where' = task.then
    BY <1>1, <1>15 DEF Where, GoesOn
  <2>2. OpenLegs(s) \subseteq task.seen /\ (task.then = "book" => s.next <= Last)
    BY <1>4, <2>1 DEF Inv, TaskInv, Sees, Seeing
  <2> QED BY <1>4, <1>11, <1>13, <1>15, <2>1, <2>2 DEF Sees, GoesOn, At, Seeing
<1>18. TaskTrue'
  BY <1>1, <1>12, <1>14, <1>15 DEF TaskTrue, GoesOn
<1>19. CutsBehind'
  <2>1. task'.done = {} /\ (~torn /\ Busy' => Before(task'.state.next))
    BY <1>3, <1>11, <1>15 DEF GoesOn
  <2> QED BY <1>1, <1>3, <2>1, CutsKept DEF Inv, TaskInv
<1> QED BY <1>10, <1>16, <1>17, <1>18, <1>19 DEF Inv, TaskInv

\* Cancellation with every answer (CancelUnfilledEntryLegsAsync).
LEMMA CancelKeeps ==
  ASSUME Inv, Cancel
  PROVE  Inv'
<1>1. /\ task.pc = "cancel" /\ Busy /\ At("cancel")
      /\ UNCHANGED <<runtime, vol, stop, fill, faults, history>>
      /\ Cancelled(Unfilled \cap Orders)
  BY DEF Cancel, At, Busy
<1>2. /\ task.state \in State /\ TaskOK /\ BrokerOK /\ HistoryOK
      /\ Fits(task.state, order, vol) /\ (~relapsed => Backed(task.state, order, stop))
      /\ mem = task.state /\ task.state.next \in Nat
  BY <1>1, AtWork, Numbers DEF Inv, TaskInv, Place, Following
<1>3. CASE Unfilled = {} /\ Go(task.then)
  <2>1. task.then \in {"book", "breakeven", "raise"}
    BY <1>1 DEF Inv, TaskInv, Place
  <2>2. order' = order
    BY <1>1, <1>2, <1>3 DEF Cancelled, BrokerOK
  <2>3. UNCHANGED <<runtime, broker, faults, history>>
    BY <1>1, <2>2 DEF broker
  <2>4. GoesOn(task.then, task.then, task.state)
    BY <1>2, <1>3, GoGoesOn
  <2>5. Sees'
    <3>1. Where = task.then /\ Where' = task.then
      BY <1>1, <2>1, <2>4 DEF Where, GoesOn
    <3> QED BY <2>1, <2>4, <3>1 DEF Inv, TaskInv, Sees, GoesOn, At, Seeing
  <2>6. task.then \in Steps /\ task.state.next >= task.state.next
    BY <1>2 DEF TaskOK
  <2> QED BY <1>1, <1>2, <2>1, <2>3, <2>4, <2>5, <2>6, WorkTurns
<1>4. CASE SaveThen(Dropped(Unfilled \cap Orders), task.then)
  <2>1. Unfilled \cap Orders \subseteq Orders /\ faults' \in 0 .. MaxFaults
    BY <1>1, <1>2 DEF HistoryOK
  <2> QED BY <1>1, <1>4, <2>1, CancelTurns
<1> QED BY <1>3, <1>4 DEF Cancel

\* A fault is counted once.
LEMMA FaultCounts ==
  ASSUME HistoryOK, Fault
  PROVE  faults' \in 0 .. MaxFaults
BY PositionsAssumption DEF HistoryOK, Fault

\* Cancellation with an answer missing.
LEMMA CancelUnansweredKeeps ==
  ASSUME Inv, CancelUnanswered
  PROVE  Inv'
<1>1. At("cancel") /\ UNCHANGED <<runtime, vol, stop, fill, history>>
  BY DEF CancelUnanswered
<1>2. faults' \in 0 .. MaxFaults
  BY FaultCounts DEF CancelUnanswered, Inv, RecInv, Shape
<1>3. PICK made \in SUBSET (Unfilled \cap Orders) : \E answered \in SUBSET made :
        Cancelled(made) /\ SaveThen(Dropped(answered), task.then)
  BY DEF CancelUnanswered
<1> PICK answered \in SUBSET made : SaveThen(Dropped(answered), task.then)
  BY <1>3
<1>4. made \subseteq Orders
  OBVIOUS
<1> QED BY <1>1, <1>2, <1>3, <1>4, CancelTurns

\* A target is passed over.
LEMMA SkipTurns ==
  ASSUME Inv, Busy, task.pc \notin {"close", "save"},
         UNCHANGED <<runtime, broker, faults, history>>,
         task.state.next <= Last, SaveThen(Skipped(task.state), "idle")
  PROVE  Inv'
<1> DEFINE s == task.state
           r == Skipped(s)
<1>1. /\ s \in State /\ TaskOK /\ s.next \in 1 .. Last + 1
      /\ Fits(s, order, vol) /\ (~relapsed => Backed(s, order, stop))
  BY AtWork
<1>2. s.next + 1 >= s.next
  BY <1>1, Numbers
<1>3. GoesOn("save", "idle", r)
  BY <1>1, SaveGoesOn
<1>4. r \in State /\ r.next = s.next + 1 /\ r.stop = s.stop /\ r.leg = s.leg /\ r.left = s.left
  BY <1>1, BookedIs
<1> HIDE DEF r
<1>5. Sees'
  BY <1>3 DEF Sees, GoesOn, Where, At, Seeing
<1>6. Fits(r, order, vol)
  BY <1>1, <1>4, FitsSame
<1>7. ~relapsed => Backed(r, order, stop)
  BY <1>1, <1>4 DEF Backed, OpenLegs, In
<1> QED BY <1>1, <1>2, <1>3, <1>4, <1>5, <1>6, <1>7, WorkTurns DEF Steps, Following

\* The size of a booking and its slices.
LEMMA BookKeeps ==
  ASSUME Inv, Book
  PROVE  Inv'
<1> DEFINE close == CloseVolume(task.state, Open)
           cut == Slices(task.state, Open, close)
<1>1. /\ task.pc = "book" /\ Busy /\ UNCHANGED <<runtime, broker, faults, history>>
      /\ UNCHANGED <<mem, saved, restored, order, vol, stop, relapsed>>
  BY DEF Book, At, Busy, runtime, broker, history
<1>2. /\ task.state \in State /\ restored /\ saved # Nothing /\ TaskOK
      /\ Fits(task.state, order, vol) /\ (~relapsed => Backed(task.state, order, stop))
      /\ OpenLegs(task.state) \subseteq Legs /\ task.state.next \in 1 .. Last + 1
  BY <1>1, AtWork
<1>3. Open = OpenLegs(task.state) /\ OpenLegs(task.state) \subseteq task.seen
  BY <1>1, Seen DEF Seeing
<1>4. task.state.next <= Last
  BY <1>1 DEF Inv, TaskInv, Sees, Where
<1>5. task.done = {} /\ (~torn => Before(task.state.next))
  BY <1>1, NoneDone
<1>6. CASE SaveThen(Skipped(task.state), "idle")
  BY <1>1, <1>4, <1>6, SkipTurns
<1>7. ASSUME close > 0,
             task' = [task EXCEPT !.pc = "close", !.cut = cut, !.todo = {l \in Open : cut[l] > 0}]
      PROVE  Inv'
  <2>1. \A l \in Open : cut[l] \in 0 .. task.state.left[l]
    <3>1. close \in Nat /\ close <= Total(task.state.left, Open)
      BY <1>2, <1>3, <1>4, CloseBounds
    <3> HIDE DEF close
    <3> QED BY <1>2, <1>3, <3>1, SliceBounds
  <2> HIDE DEF cut, close
  <2>2. /\ DOMAIN task' = TaskFields /\ task'.pc = "close" /\ task'.then = task.then
        /\ task'.state = task.state /\ task'.seen = task.seen /\ task'.cut = cut
        /\ task'.todo = {l \in Open : cut[l] > 0} /\ task'.done = {} /\ task'.ok = task.ok
    BY <1>2, <1>5, <1>7 DEF TaskOK, TaskFields
  <2>3. TaskOK'
    BY <1>2, <1>3, <2>2 DEF TaskOK, Steps, Busy
  <2>4. Place' /\ Fresh'
    BY <1>1, <1>2, <2>2 DEF Place, Fresh, Busy, At, Following
  <2>5. Sees'
    <3>1. \A l \in Open : task.state.left[l] \in Nat
      BY <1>2, <1>3 DEF State
    <3>2. \A l \in task'.todo : l \in Open /\ cut[l] \in 1 .. task.state.left[l]
      BY <2>1, <2>2, <3>1
    <3> QED BY <1>3, <1>4, <2>2, <3>2 DEF Sees, Where, At, Seeing
  <2>6. TaskTrue'
    BY <1>1, <1>2, <2>2 DEF TaskTrue
  <2>7. ~torn /\ Busy' => Before(task'.state.next)
    BY <1>5, <2>2
  <2> QED BY <1>1, <1>5, <2>2, <2>3, <2>4, <2>5, <2>6, <2>7, Turns
<1> QED BY <1>6, <1>7 DEF Book

-----------------------------------------------------------------------------
(* The closes of one booking.                                              *)

\* What is known while the legs of one booking are closed.
LEMMA Closing ==
  ASSUME Inv, At("close"), NEW s, s = task.state
  PROVE  /\ Busy /\ task.pc = "close" /\ s \in State /\ Known(s) /\ restored /\ saved # Nothing
         /\ RecordsOK /\ BrokerOK /\ HistoryOK /\ TaskOK /\ RecInv
         /\ Fits(s, order, vol) /\ (~relapsed => Backed(s, order, stop))
         /\ OpenLegs(s) = In(s, Held) /\ OpenLegs(s) \subseteq Legs
         /\ s.next \in Targets /\ OpenLegs(s) \subseteq task.seen
         /\ \A l \in task.todo : l \in Legs /\ l \in OpenLegs(s) /\ task.cut[l] \in 1 .. s.left[l]
         /\ task.todo \cap task.done = {}
         /\ ~torn => \A c \in cuts : c[1] < s.next \/ (c[1] = s.next /\ c[2] \in task.done)
         /\ ~torn /\ task.done = {} => /\ Known(mem) => Before(mem.next)
                                       /\ Known(saved) => Before(saved.next)
<1>1. Busy /\ task.pc = "close"
  BY DEF At, Busy
<1>2. /\ s \in State /\ Known(s) /\ restored /\ saved # Nothing
      /\ RecordsOK /\ BrokerOK /\ HistoryOK /\ TaskOK /\ RecInv
      /\ Fits(s, order, vol) /\ (~relapsed => Backed(s, order, stop))
      /\ OpenLegs(s) = In(s, Held) /\ OpenLegs(s) \subseteq Legs
      /\ s.next \in 1 .. Last + 1
  BY <1>1, AtWork DEF Inv
<1>3. s.next <= Last /\ OpenLegs(s) \subseteq task.seen
  BY <1>1 DEF Inv, TaskInv, Sees, Where, Seeing
<1>4. s.next \in Targets
  BY <1>2, <1>3, Numbers
<1>5. \A l \in task.todo : l \in Legs /\ l \in OpenLegs(s) /\ task.cut[l] \in 1 .. s.left[l]
  BY <1>2 DEF Inv, TaskInv, Sees
<1>6. /\ task.todo \cap task.done = {}
      /\ ~torn => \A c \in cuts : c[1] < s.next \/ (c[1] = s.next /\ c[2] \in task.done)
      /\ ~torn /\ task.done = {} => /\ Known(mem) => Before(mem.next)
                                    /\ Known(saved) => Before(saved.next)
  BY DEF Inv, TaskInv, CutsBehind
<1> QED BY <1>1, <1>2, <1>3, <1>4, <1>5, <1>6

\* What a close that the broker executes does to the account.
LEMMA Reduces ==
  ASSUME Inv, At("close"), NEW s, s = task.state, NEW l \in task.todo, Cuttable(l), Reduced(l),
         UNCHANGED <<runtime, stop, fill, relapsed, severed, loose>>,
         torn' \in BOOLEAN, faults' \in 0 .. MaxFaults
  PROVE  /\ RecInv' /\ BrokerOK' /\ Onward(order, order', vol, vol')
         /\ Fits(s, order', vol') /\ (~relapsed => Backed(s, order', stop'))
         /\ vol'[l] + task.cut[l] <= s.left[l]
         /\ order'[l] = IF vol'[l] = 0 THEN "closed" ELSE "open"
<1> DEFINE rest == vol[l] - task.cut[l]
<1>1. /\ task.pc = "close" /\ s \in State /\ Known(s) /\ restored /\ saved # Nothing
      /\ RecordsOK /\ BrokerOK /\ HistoryOK /\ TaskOK /\ RecInv
      /\ Fits(s, order, vol) /\ (~relapsed => Backed(s, order, stop))
      /\ OpenLegs(s) = In(s, Held) /\ OpenLegs(s) \subseteq Legs /\ s.next \in Targets
  BY Closing
<1>2. l \in Legs /\ l \in OpenLegs(s) /\ task.cut[l] \in 1 .. s.left[l]
  BY Closing
<1>3. /\ s.left[l] \in Nat /\ vol[l] \in Nat /\ vol[l] <= Volumes[l] /\ Volumes[l] \in Nat
      /\ task.cut[l] \in Nat /\ task.cut[l] > 0
      /\ order[l] = "open" /\ vol[l] >= task.cut[l] /\ vol[l] <= s.left[l]
  <2>1. s.left[l] \in Nat /\ vol[l] \in Nat /\ vol[l] <= Volumes[l] /\ Volumes[l] \in Nat
    BY <1>1, <1>2, PositionsAssumption DEF State, BrokerOK
  <2>2. order[l] = "open" /\ vol[l] >= task.cut[l]
    BY DEF Cuttable
  <2>3. vol[l] <= s.left[l]
    BY <1>1, <1>2 DEF Fits, LegFits, In
  <2>4. task.cut[l] \in Nat /\ task.cut[l] > 0
    BY <1>2, <2>1
  <2> QED BY <2>1, <2>2, <2>3, <2>4
<1>4. rest \in Nat /\ rest <= vol[l] /\ rest + task.cut[l] <= s.left[l] /\ rest <= Volumes[l]
  BY <1>3
<1>5. /\ vol' = [vol EXCEPT ![l] = rest]
      /\ order' = [order EXCEPT ![l] = IF rest = 0 THEN "closed" ELSE @]
      /\ cuts' = cuts \cup {<<s.next, l>>}
  BY DEF Reduced
<1> HIDE DEF rest
<1>6. /\ order' \in [Legs -> OrderStates] /\ vol' \in [Legs -> Nat]
      /\ vol'[l] = rest /\ order'[l] = IF rest = 0 THEN "closed" ELSE "open"
      /\ \A k \in Legs \ {l} : vol'[k] = vol[k] /\ order'[k] = order[k]
  BY <1>1, <1>2, <1>3, <1>4, <1>5 DEF BrokerOK, OrderStates
<1>7. BrokerOK'
  <2>1. UNCHANGED <<stop, fill>>
    OBVIOUS
  <2>2. \A k \in Legs : vol'[k] <= Volumes[k] /\ (order'[k] = "open" => vol'[k] > 0)
    <3> TAKE k \in Legs
    <3>1. CASE k = l
      BY <1>4, <1>6, <3>1
    <3>2. CASE k # l
      BY <1>1, <1>6, <3>2 DEF BrokerOK
    <3> QED BY <3>1, <3>2
  <2> QED BY <1>1, <1>6, <2>1, <2>2 DEF BrokerOK
<1>8. HistoryOK'
  BY <1>1, <1>2, <1>5 DEF HistoryOK
<1>9. Onward(order, order', vol, vol')
  <2> SUFFICES ASSUME NEW k \in Legs
               PROVE  /\ order'[k] # order[k] => order[k] = "open" /\ order'[k] = "closed"
                      /\ vol'[k] <= vol[k]
    BY DEF Onward
  <2>1. CASE k = l
    BY <1>3, <1>4, <1>6, <2>1
  <2>2. CASE k # l
    BY <1>1, <1>6, <2>2 DEF BrokerOK
  <2> QED BY <2>1, <2>2
<1>10. \A k \in Legs : order'[k] = "open" => order[k] = "open"
  BY <1>3, <1>6
<1>11. Fits(s, order', vol')
  BY <1>1, <1>6, <1>9, FitsOnward DEF BrokerOK
<1>12. ~relapsed => Backed(s, order', stop')
  <2>1. \A k \in OpenLegs(s) : order'[k] = "open" => order[k] = "open" /\ stop'[k] = stop[k]
    BY <1>1, <1>10
  <2> QED BY <1>1, <1>7, <2>1, BackedOnward
<1>13. ASSUME ~relapsed, Known(mem) PROVE Backed(mem, order', stop')
  <2>1. mem \in State /\ Fits(mem, order, vol) /\ Backed(mem, order, stop)
    BY <1>1, <1>13 DEF RecInv, RecordsOK, RecordsFit, RecordsBacked, Known
  <2>2. \A k \in OpenLegs(mem) : order'[k] = "open" => order[k] = "open" /\ stop'[k] = stop[k]
    BY <1>10 DEF OpenLegs, In
  <2> QED BY <1>1, <1>7, <2>1, <2>2, BackedOnward
<1>14. RecInv'
  BY <1>1, <1>7, <1>8, <1>9, <1>13, BrokerMoves
<1> QED BY <1>4, <1>6, <1>7, <1>9, <1>11, <1>12, <1>14

\* A close answered leaves a state of the plan.
LEMMA AnsweredState ==
  ASSUME TaskOK, NEW s \in State, NEW l \in Legs, task.cut[l] \in 1 .. s.left[l],
         NEW r, r = Answered(s, l)
  PROVE  /\ r \in State /\ r.next = s.next /\ r.stop = s.stop
         /\ \A k \in Legs : r.left[k] = IF k = l THEN s.left[l] - task.cut[l] ELSE s.left[k]
         /\ \A k \in Legs : r.leg[k] = IF k = l
                THEN IF s.left[l] - task.cut[l] = 0 THEN "closed" ELSE "managing"
                ELSE s.leg[k]
BY AnsweredIs

\* The answer of the close of leg l.
LEMMA AnswerKeeps ==
  ASSUME Inv, At("close"), NEW s, s = task.state, NEW l \in task.todo, Cuttable(l), Reduced(l),
         UNCHANGED <<runtime, stop, fill, faults, torn, relapsed, severed, loose>>,
         NEW r, r = Answered(s, l),
         task' = [task EXCEPT !.todo = @ \ {l}, !.done = @ \cup {l}, !.state = r]
  PROVE  Inv'
<1>1. /\ task.pc = "close" /\ s \in State /\ restored /\ saved # Nothing
      /\ HistoryOK /\ TaskOK /\ BrokerOK
      /\ OpenLegs(s) = In(s, Held) /\ OpenLegs(s) \subseteq Legs
      /\ s.next \in Targets /\ OpenLegs(s) \subseteq task.seen /\ task.todo \cap task.done = {}
  BY Closing
<1>2. /\ \A k \in task.todo : k \in Legs /\ k \in OpenLegs(s) /\ task.cut[k] \in 1 .. s.left[k]
      /\ ~torn => \A c \in cuts : c[1] < s.next \/ (c[1] = s.next /\ c[2] \in task.done)
  BY Closing
<1>3. /\ RecInv' /\ BrokerOK'
      /\ Fits(s, order', vol') /\ (~relapsed => Backed(s, order', stop'))
      /\ vol'[l] + task.cut[l] <= s.left[l]
      /\ order'[l] = IF vol'[l] = 0 THEN "closed" ELSE "open"
  <2>1. torn' \in BOOLEAN /\ faults' \in 0 .. MaxFaults
    BY <1>1 DEF HistoryOK
  <2> QED BY <2>1, Reduces
<1>4. /\ r \in State /\ r.next = s.next /\ r.stop = s.stop
      /\ \A k \in Legs : r.left[k] = IF k = l THEN s.left[l] - task.cut[l] ELSE s.left[k]
      /\ \A k \in Legs : r.leg[k] = IF k = l
             THEN IF s.left[l] - task.cut[l] = 0 THEN "closed" ELSE "managing"
             ELSE s.leg[k]
  BY <1>1, <1>2, AnsweredState
<1>5. /\ DOMAIN task' = TaskFields /\ task'.pc = "close" /\ task'.then = task.then
      /\ task'.state = r /\ task'.seen = task.seen /\ task'.cut = task.cut
      /\ task'.todo = task.todo \ {l} /\ task'.done = task.done \cup {l} /\ task'.ok = task.ok
  BY <1>1 DEF TaskOK, TaskFields
<1>6. LegFits(r.leg[l], r.left[l], order'[l], vol'[l])
  <2> DEFINE a == s.left[l]
             b == task.cut[l]
             v == vol'[l]
  <2>1. a \in Nat /\ b \in 1 .. a /\ v \in Nat /\ v + b <= a
    BY <1>1, <1>2, <1>3 DEF State, BrokerOK
  <2>2. r.left[l] = a - b /\ r.leg[l] = IF a - b = 0 THEN "closed" ELSE "managing"
    BY <1>2, <1>4
  <2>3. order'[l] = IF v = 0 THEN "closed" ELSE "open"
    BY <1>3
  <2> HIDE DEF a, b, v
  <2>4. a - b \in Nat /\ v <= a - b
    BY <2>1
  <2>5. CASE a - b = 0
    <3>1. v = 0 /\ order'[l] = "closed" /\ r.leg[l] = "closed"
      BY <2>1, <2>2, <2>3, <2>4, <2>5
    <3> QED BY <3>1 DEF LegFits, Held
  <2>6. CASE a - b # 0
    <3>1. r.leg[l] = "managing" /\ order'[l] \in {"open", "closed"} /\ r.left[l] > 0 /\ v <= r.left[l]
      BY <2>2, <2>3, <2>4, <2>6
    <3> QED BY <3>1 DEF LegFits, Held, v
  <2> QED BY <2>5, <2>6
<1>7. Fits(r, order', vol')
  <2> DEFINE S == {l}
  <2>1. \A k \in Legs \cap S : LegFits(r.leg[k], r.left[k], order'[k], vol'[k])
    BY <1>6
  <2>2. \A k \in Legs \ S : r.leg[k] = s.leg[k] /\ r.left[k] = s.left[k]
    BY <1>4
  <2> HIDE DEF S
  <2> QED BY <1>1, <1>3, <1>4, <2>1, <2>2, FitsStaged
<1>8. OpenLegs(r) \subseteq OpenLegs(s) /\ \A k \in OpenLegs(s) : k # l => k \in OpenLegs(r)
  <2>1. OpenLegs(r) = In(r, Held)
    BY <1>4, <1>7, OpenFit
  <2> QED BY <1>1, <1>2, <1>4, <2>1 DEF In
<1>9. ~relapsed => Backed(r, order', stop')
  <2>1. stop' \in [Legs -> 0 .. 2 * Last]
    BY <1>3 DEF BrokerOK
  <2>2. \A k \in Legs : stop'[k] >= stop'[k]
    BY <2>1, Numbers
  <2>3. \A k \in OpenLegs(r) : order'[k] = "open" => order'[k] = "open" /\ stop'[k] >= stop'[k]
    BY <1>1, <1>8, <2>2
  <2> QED BY <1>1, <1>3, <1>4, <1>8, <2>1, <2>3, BackedStays
<1>10. UNCHANGED <<mem, saved, restored>>
  BY DEF runtime
<1>11. TaskOK'
  BY <1>1, <1>2, <1>4, <1>5 DEF TaskOK, Steps, Busy
<1>12. Place' /\ Fresh'
  BY <1>1, <1>5, <1>10 DEF Place, Fresh, Busy, At, Following
<1>13. Sees'
  <2>1. \A k \in task'.todo : k \in OpenLegs(r) /\ task'.cut[k] \in 1 .. r.left[k]
    BY <1>2, <1>4, <1>5, <1>8
  <2>2. r.next <= Last
    BY <1>1, <1>4, Numbers
  <2> QED BY <1>1, <1>5, <1>8, <2>1, <2>2 DEF Sees, Where, At, Seeing
<1>14. TaskTrue'
  BY <1>5, <1>7, <1>9 DEF TaskTrue
<1>15. CutsBehind'
  <2>1. task'.todo \cap task'.done = {} /\ task'.done # {}
    BY <1>1, <1>5
  <2>2. cuts' = cuts \cup {<<s.next, l>>}
    BY DEF Reduced
  <2>3. ~torn => \A c \in cuts' : c[1] < r.next \/ (c[1] = r.next /\ c[2] \in task'.done)
    BY <1>2, <1>4, <1>5, <2>2
  <2> QED BY <1>5, <2>1, <2>3 DEF CutsBehind, At, Busy
<1> QED BY <1>3, <1>11, <1>12, <1>13, <1>14, <1>15 DEF Inv, TaskInv

\* No answer: the leg is passed over.
LEMMA PassKeeps ==
  ASSUME Inv, At("close"), NEW s, s = task.state, NEW l \in task.todo,
         task' = [task EXCEPT !.todo = @ \ {l}, !.ok = FALSE], UNCHANGED <<runtime, relapsed>>,
         RecInv', Fits(s, order', vol'), ~relapsed => Backed(s, order', stop'),
         torn' \/ (cuts' = cuts /\ ~torn)
  PROVE  Inv'
<1>1. /\ task.pc = "close" /\ s \in State /\ restored /\ saved # Nothing /\ TaskOK
      /\ s.next \in Targets /\ OpenLegs(s) \subseteq task.seen /\ task.todo \cap task.done = {}
  BY Closing
<1>2. /\ \A k \in task.todo : k \in Legs /\ k \in OpenLegs(s) /\ task.cut[k] \in 1 .. s.left[k]
      /\ ~torn => \A c \in cuts : c[1] < s.next \/ (c[1] = s.next /\ c[2] \in task.done)
      /\ ~torn /\ task.done = {} => /\ Known(mem) => Before(mem.next)
                                    /\ Known(saved) => Before(saved.next)
  BY Closing
<1>3. /\ DOMAIN task' = TaskFields /\ task'.pc = "close" /\ task'.then = task.then
      /\ task'.state = s /\ task'.seen = task.seen /\ task'.cut = task.cut
      /\ task'.todo = task.todo \ {l} /\ task'.done = task.done /\ task'.ok = FALSE
  BY <1>1 DEF TaskOK, TaskFields
<1>4. UNCHANGED <<mem, saved, restored>>
  BY DEF runtime
<1>5. TaskOK'
  BY <1>1, <1>3 DEF TaskOK, Steps, Busy
<1>6. Place' /\ Fresh'
  BY <1>1, <1>3, <1>4 DEF Place, Fresh, Busy, At, Following
<1>7. Sees'
  <2>1. s.next <= Last
    BY <1>1, Numbers
  <2> QED BY <1>1, <1>2, <1>3, <2>1 DEF Sees, Where, At, Seeing
<1>8. TaskTrue'
  BY <1>3 DEF TaskTrue
<1>9. CutsBehind'
  <2>1. task'.todo \cap task'.done = {}
    BY <1>1, <1>3
  <2>2. CASE torn'
    BY <1>3, <2>1, <2>2 DEF CutsBehind, At
  <2>3. CASE cuts' = cuts /\ ~torn
    BY <1>2, <1>3, <1>4, <2>1, <2>3 DEF CutsBehind, Before, At, Busy
  <2> QED BY <2>2, <2>3
<1> QED BY <1>5, <1>6, <1>7, <1>8, <1>9 DEF Inv, TaskInv

\* The leg closed next is one of those still to close.
LEMMA FirstToClose ==
  ASSUME TaskOK, task.todo # {}
  PROVE  Min(task.todo) \in task.todo
<1>1. task.todo \in SUBSET Nat /\ IsFiniteSet(task.todo)
  BY Numbers, FS_Subset DEF TaskOK
<1> QED BY <1>1, LeastExists

\* One close of a booking (ManageOpenPositionsAsync).
LEMMA CloseKeeps ==
  ASSUME Inv, Close
  PROVE  Inv'
<1> DEFINE l == Min(task.todo)
<1> PICK s : s = task.state
  OBVIOUS
<1>1. /\ At("close") /\ task.todo # {}
      /\ UNCHANGED <<runtime, stop, fill, faults, torn, relapsed, severed, loose>>
  BY DEF Close
<1>2. /\ TaskOK /\ RecInv /\ Fits(s, order, vol) /\ (~relapsed => Backed(s, order, stop))
      /\ torn \in BOOLEAN
  BY <1>1, Closing DEF HistoryOK
<1>3. l \in task.todo
  BY <1>1, <1>2, FirstToClose
<1>4. \/ /\ Cuttable(l) /\ Reduced(l)
         /\ task' = [task EXCEPT !.todo = @ \ {l}, !.done = @ \cup {l}, !.state = Answered(s, l)]
      \/ /\ task' = [task EXCEPT !.todo = @ \ {l}, !.ok = FALSE]
         /\ UNCHANGED <<order, vol, cuts>>
  BY DEF Close
<1> HIDE DEF l
<1>5. CASE /\ Cuttable(l) /\ Reduced(l)
           /\ task' = [task EXCEPT !.todo = @ \ {l}, !.done = @ \cup {l}, !.state = Answered(s, l)]
  BY <1>1, <1>3, <1>5, AnswerKeeps
<1>6. CASE /\ task' = [task EXCEPT !.todo = @ \ {l}, !.ok = FALSE]
           /\ UNCHANGED <<order, vol, cuts>>
  <2>1. UNCHANGED <<runtime, broker, faults, history>>
    BY <1>1, <1>6 DEF broker, history
  <2>2. RecInv'
    BY <1>2, <2>1, RecordsStay
  <2>3. Fits(s, order', vol') /\ (~relapsed => Backed(s, order', stop'))
    BY <1>1, <1>2, <1>6
  <2>4. torn' \/ (cuts' = cuts /\ ~torn)
    BY <1>1, <1>2, <1>6
  <2> QED BY <1>1, <1>3, <1>6, <2>2, <2>3, <2>4, PassKeeps
<1> QED BY <1>4, <1>5, <1>6

\* One close of a booking, its answer lost.
LEMMA CloseUnansweredKeeps ==
  ASSUME Inv, CloseUnanswered
  PROVE  Inv'
<1> DEFINE l == Min(task.todo)
<1> PICK s : s = task.state
  OBVIOUS
<1>1. /\ At("close") /\ task.todo # {} /\ Fault
      /\ UNCHANGED <<runtime, stop, fill, relapsed, severed, loose>>
      /\ task' = [task EXCEPT !.todo = @ \ {l}, !.ok = FALSE]
  BY DEF CloseUnanswered
<1>2. /\ TaskOK /\ RecInv /\ HistoryOK /\ BrokerOK
      /\ Fits(s, order, vol) /\ (~relapsed => Backed(s, order, stop))
      /\ torn \in BOOLEAN /\ faults' \in 0 .. MaxFaults
  BY <1>1, Closing, FaultCounts DEF HistoryOK
<1>3. l \in task.todo
  BY <1>1, <1>2, FirstToClose
<1>4. \/ Cuttable(l) /\ Reduced(l) /\ torn' = TRUE
      \/ UNCHANGED <<order, vol, cuts, torn>>
  BY DEF CloseUnanswered
<1> HIDE DEF l
<1>5. CASE Cuttable(l) /\ Reduced(l) /\ torn' = TRUE
  <2>1. RecInv' /\ Fits(s, order', vol') /\ (~relapsed => Backed(s, order', stop'))
    BY <1>1, <1>2, <1>3, <1>5, Reduces
  <2> QED BY <1>1, <1>3, <1>5, <2>1, PassKeeps
<1>6. CASE UNCHANGED <<order, vol, cuts, torn>>
  <2>1. RecInv'
    <3>1. HistoryOK' /\ BrokerOK'
      BY <1>1, <1>2, <1>6 DEF HistoryOK, BrokerOK
    <3>2. Onward(order, order', vol, vol')
      <4>1. \A k \in Legs : vol[k] <= vol[k]
        BY <1>2 DEF BrokerOK
      <4> QED BY <1>6, <4>1 DEF Onward
    <3>3. /\ ~relapsed' /\ restored /\ Known(mem) => Backed(mem, order', stop')
          /\ ~relapsed' /\ ~restored /\ Known(saved) => Backed(saved, order', stop')
      BY <1>1, <1>2, <1>6 DEF RecInv, RecordsBacked
    <3> QED BY <1>1, <1>2, <3>1, <3>2, <3>3, BrokerMoves
  <2>2. Fits(s, order', vol') /\ (~relapsed => Backed(s, order', stop'))
    BY <1>1, <1>2, <1>6
  <2>3. torn' \/ (cuts' = cuts /\ ~torn)
    BY <1>2, <1>6
  <2> QED BY <1>1, <1>3, <2>1, <2>2, <2>3, PassKeeps
<1> QED BY <1>4, <1>5, <1>6

\* The end of a booking, whole or torn.
LEMMA BookingEndsKeeps ==
  ASSUME Inv, BookingEnds
  PROVE  Inv'
<1> PICK s : s = task.state
  OBVIOUS
<1>1. /\ At("close") /\ task.todo = {}
      /\ UNCHANGED <<runtime, broker, faults, cuts, relapsed, severed, loose>>
      /\ UNCHANGED <<mem, saved, restored, order, vol, stop, fill>>
  BY DEF BookingEnds, runtime, broker
<1>2. /\ task.pc = "close" /\ s \in State /\ Known(s) /\ restored /\ saved # Nothing
      /\ RecordsOK /\ BrokerOK /\ HistoryOK /\ TaskOK /\ RecInv
      /\ Fits(s, order, vol) /\ (~relapsed => Backed(s, order, stop))
      /\ OpenLegs(s) = In(s, Held)
      /\ s.next \in Targets /\ OpenLegs(s) \subseteq task.seen
  BY <1>1, Closing
<1>3. /\ ~torn => \A c \in cuts : c[1] < s.next \/ (c[1] = s.next /\ c[2] \in task.done)
      /\ ~torn /\ task.done = {} => /\ Known(mem) => Before(mem.next)
                                    /\ Known(saved) => Before(saved.next)
  BY <1>1, Closing
<1>4. CASE SaveThen(s, "idle") /\ torn' = (torn \/ task.done # {})
  <2>1. GoesOn("save", "idle", s)
    BY <1>2, <1>4, SaveGoesOn
  <2>2. RecInv'
    <3>1. HistoryOK' /\ BrokerOK'
      BY <1>1, <1>2, <1>4 DEF HistoryOK, BrokerOK
    <3>2. Onward(order, order', vol, vol')
      <4>1. \A k \in Legs : vol[k] <= vol[k]
        BY <1>2 DEF BrokerOK
      <4> QED BY <1>1, <4>1 DEF Onward
    <3>3. /\ ~relapsed' /\ restored /\ Known(mem) => Backed(mem, order', stop')
          /\ ~relapsed' /\ ~restored /\ Known(saved) => Backed(saved, order', stop')
      BY <1>1, <1>2 DEF RecInv, RecordsBacked
    <3> QED BY <1>1, <1>2, <3>1, <3>2, <3>3, BrokerMoves
  <2>3. TaskOK' /\ Place' /\ Sees' /\ Fresh'
    <3>1. TaskOK'
      BY <1>2, <2>1 DEF TaskOK, GoesOn, Steps, Busy
    <3>2. Place' /\ Fresh'
      BY <1>1, <1>2, <2>1 DEF Place, Fresh, GoesOn, Busy, At, Following
    <3>3. Sees'
      BY <2>1 DEF Sees, GoesOn, Where, At, Seeing
    <3> QED BY <3>1, <3>2, <3>3
  <2>4. TaskTrue'
    BY <1>1, <1>2, <2>1 DEF TaskTrue, GoesOn
  <2>5. CutsBehind'
    <3>1. ~torn' => ~torn /\ task.done = {}
      BY <1>4
    <3>2. ~torn' => Before(s.next)
      BY <1>3, <3>1 DEF Before
    <3> QED BY <1>1, <1>3, <2>1, <3>1, <3>2 DEF CutsBehind, GoesOn, Before, At, Busy
  <2> QED BY <2>2, <2>3, <2>4, <2>5 DEF Inv, TaskInv
<1>5. ASSUME NEW then, then = IF OpenLegs(s) = {} THEN "complete" ELSE "protect",
             NEW r, r = Booked(s), SaveThen(r, then), UNCHANGED torn
      PROVE  Inv'
  <2>1. GoesOn("save", then, r)
    BY <1>2, <1>5, SaveGoesOn
  <2>2. RecInv'
    <3>1. UNCHANGED <<runtime, broker, faults, history>>
      BY <1>1, <1>5 DEF history
    <3> QED BY <1>2, <3>1, RecordsStay
  <2>3. r \in State /\ r.next = s.next + 1 /\ r.stop = s.stop /\ r.leg = s.leg /\ r.left = s.left
    <3>1. s.next <= Last
      BY <1>2, Numbers
    <3> QED BY <1>2, <1>5, <3>1, BookedIs
  <2>4. Fits(r, order, vol)
    BY <1>2, <2>3, FitsSame
  <2>5. OpenLegs(r) = OpenLegs(s) /\ In(r, Held) = In(s, Held)
    BY <2>3 DEF OpenLegs, In
  <2>6. ~relapsed => Backed(r, order, stop)
    BY <1>2, <2>3, <2>5 DEF Backed
  <2>7. TaskOK' /\ Place' /\ Fresh'
    <3>1. then \in {"complete", "protect"}
      BY <1>5
    <3>2. TaskOK'
      BY <1>2, <2>1, <2>3, <3>1 DEF TaskOK, GoesOn, Steps, Busy
    <3>3. Place' /\ Fresh'
      BY <1>1, <1>2, <2>1, <3>1 DEF Place, Fresh, GoesOn, Busy, At, Following
    <3> QED BY <3>2, <3>3
  <2>8. Sees'
    <3>1. Where' = then /\ task'.pc = "save" /\ then \in {"complete", "protect"}
      BY <1>5, <2>1 DEF GoesOn, Where
    <3>2. then = "complete" => In(r, Held) = {}
      BY <1>2, <1>5, <2>5
    <3> QED BY <1>2, <2>1, <2>5, <3>1, <3>2 DEF Sees, GoesOn, At, Seeing
  <2>9. TaskTrue'
    BY <1>1, <2>1, <2>4, <2>6 DEF TaskTrue, GoesOn
  <2>10. CutsBehind'
    <3>1. ~torn => Before(r.next)
      <4>1. s.next \in Nat
        BY <1>2, Numbers
      <4>2. \A c \in cuts : c[1] \in Nat
        BY <1>2, Numbers DEF HistoryOK
      <4> QED BY <1>3, <2>3, <4>1, <4>2 DEF Before
    <3> QED BY <1>1, <1>3, <1>5, <2>1, <3>1 DEF CutsBehind, GoesOn, Before, At, Busy
  <2> QED BY <2>2, <2>7, <2>8, <2>9, <2>10 DEF Inv, TaskInv
<1>6. \/ SaveThen(s, "idle") /\ torn' = (torn \/ task.done # {})
      \/ /\ SaveThen(Booked(s), IF OpenLegs(s) = {} THEN "complete" ELSE "protect")
         /\ UNCHANGED torn
  BY DEF BookingEnds
<1> QED BY <1>4, <1>5, <1>6

-----------------------------------------------------------------------------
(* The end of the plan, and the stop.                                      *)

\* The plan is told completed.
LEMMA CompleteKeeps ==
  ASSUME Inv, Complete
  PROVE  Inv'
<1>1. /\ task.pc = "complete" /\ Busy /\ ended' = TRUE /\ Go("forget")
      /\ UNCHANGED <<mem, saved, restored, order, vol, stop, fill, cuts, torn, relapsed, severed,
                     loose, faults>>
  BY DEF Complete, At, Busy, broker, history
<1>2. /\ task.state \in State /\ restored /\ saved # Nothing
      /\ RecordsOK /\ BrokerOK /\ HistoryOK /\ TaskOK
      /\ Fits(task.state, order, vol) /\ (~relapsed => Backed(task.state, order, stop))
  BY <1>1, AtWork
<1>3. task.done = {} /\ (~torn => Before(task.state.next))
  BY <1>1, NoneDone
<1>4. mem = task.state /\ OpenLegs(task.state) \subseteq task.seen /\ In(task.state, Held) = {}
  BY <1>1 DEF Inv, TaskInv, Place, Sees, Where, Following, Seeing
<1>5. RecInv'
  <2>1. Shape'
    BY <1>1, <1>2 DEF Shape, RecordsOK, BrokerOK, HistoryOK
  <2>2. RecordsFit' /\ RecordsBacked' /\ Flat'
    BY <1>1 DEF Inv, RecInv, RecordsFit, RecordsBacked, Flat
  <2> QED BY <2>1, <2>2 DEF RecInv
<1>6. GoesOn("forget", task.then, task.state)
  BY <1>1, <1>2, GoGoesOn
<1>7. TaskOK'
  BY <1>2, <1>6 DEF TaskOK, GoesOn, Steps, Busy
<1>8. Place' /\ Fresh' /\ Sees'
  BY <1>1, <1>2, <1>4, <1>6 DEF Place, Fresh, Sees, GoesOn, Busy, At, Where, Seeing, Following
<1>9. TaskTrue'
  BY <1>1, <1>2, <1>6 DEF TaskTrue, GoesOn
<1>10. CutsBehind'
  <2>1. task'.done = {} /\ (~torn /\ Busy' => Before(task'.state.next))
    BY <1>3, <1>6 DEF GoesOn
  <2> QED BY <1>1, <1>3, <2>1, CutsKept DEF Inv, TaskInv
<1> QED BY <1>5, <1>7, <1>8, <1>9, <1>10 DEF Inv, TaskInv

\* What a plan without open legs has left at the broker waits in its records.
LEMMA LooseLegs ==
  ASSUME NEW s \in State, NEW o, NEW v, Fits(s, o, v), In(s, Held) = {}
  PROVE  \A l \in Legs \ In(s, Waiting) : o[l] \in {"closed", "cancelled"}
<1> SUFFICES ASSUME NEW l \in Legs, s.leg[l] \notin Waiting PROVE o[l] \in {"closed", "cancelled"}
  BY DEF In
<1>1. s.leg[l] \in Stages /\ s.leg[l] \notin Held
  BY DEF In, State
<1>2. s.leg[l] \in {"cancelled", "closed"}
  BY <1>1 DEF Stages, Held
<1> QED BY <1>2 DEF Fits, LegFits

\* The records of a plan that ended are removed (ForgetPlanAsync).
LEMMA ForgetKeeps ==
  ASSUME Inv, Forget
  PROVE  Inv'
<1>1. /\ task.pc = "forget" /\ Busy /\ task' = Idle
      /\ mem' = Nothing /\ saved' = Nothing /\ loose' = In(task.state, Waiting)
      /\ UNCHANGED <<ended, restored, order, vol, stop, fill, cuts, torn, relapsed, severed, faults>>
  BY DEF Forget, At, Busy, Done, broker
<1>2. /\ task.state \in State /\ restored
      /\ RecordsOK /\ BrokerOK /\ HistoryOK /\ TaskOK /\ Fits(task.state, order, vol)
  BY <1>1, AtWork
<1>3. In(task.state, Held) = {}
  BY <1>1 DEF Inv, TaskInv, Sees, Where
<1>4. ~Known(Nothing) /\ loose' \subseteq Legs
  BY <1>1 DEF Known, In
<1>5. RecInv'
  <2>1. Shape'
    BY <1>1, <1>2, <1>4 DEF Shape, RecordsOK, BrokerOK, HistoryOK
  <2>2. RecordsFit' /\ RecordsBacked'
    BY <1>1, <1>4 DEF RecordsFit, RecordsBacked
  <2>3. Flat'
    BY <1>1, <1>2, <1>3, LooseLegs DEF Flat
  <2> QED BY <2>1, <2>2, <2>3 DEF RecInv
<1>6. (~torn => /\ Known(mem) => Before(mem.next)
                /\ Known(saved) => Before(saved.next))'
  BY <1>1, <1>4
<1>7. TaskInv'
  BY <1>1, <1>6, IdleRests, RestingIsTrue
<1> QED BY <1>5, <1>7 DEF Inv

\* The poll turns to the step pc, or to a cancellation before the step then.
LEMMA PathTurns ==
  ASSUME Inv, Busy, task.pc \in Seeing \ {"close"},
         UNCHANGED <<runtime, broker, faults, history>>,
         NEW pc, NEW then, GoesOn(pc, then, task.state),
         \/ pc = "trail" /\ then \in Steps
         \/ pc = "cancel" /\ then \in {"breakeven", "raise"}
  PROVE  Inv'
<1>1. mem = task.state /\ OpenLegs(task.state) \subseteq task.seen
  BY Seen
<1>2. /\ task.state \in State /\ TaskOK /\ task.state.next \in 1 .. Last + 1
      /\ Fits(task.state, order, vol) /\ (~relapsed => Backed(task.state, order, stop))
  BY AtWork
<1>3. task.state.next >= task.state.next
  BY <1>2, Numbers
<1>4. Sees'
  BY <1>1 DEF Sees, GoesOn, Where, At, Seeing
<1>5. pc \in Steps /\ then \in Steps /\ task.pc \notin {"close", "save"}
  BY DEF Steps, Seeing
<1>6. pc \notin {"idle", "close", "adopt", "save"}
  OBVIOUS
<1> QED BY <1>1, <1>2, <1>3, <1>4, <1>5, <1>6, WorkTurns

\* Whether the stop is due to move.
LEMMA ProtectKeeps ==
  ASSUME Inv, Protect
  PROVE  Inv'
<1>1. /\ task.pc = "protect" /\ Busy /\ task.pc \in Seeing \ {"close"}
      /\ UNCHANGED <<runtime, broker, faults, history>>
  BY DEF Protect, At, Busy, Seeing
<1>2. TaskOK /\ task.then \in Steps
  BY <1>1, AtWork DEF TaskOK
<1>3. CASE task' = [task EXCEPT !.pc = "cancel", !.then = "breakeven"]
  <2>1. GoesOn("cancel", "breakeven", task.state)
    BY <1>2, <1>3 DEF GoesOn, TaskOK, TaskFields
  <2> QED BY <1>1, <2>1, PathTurns
<1>4. CASE Go("trail")
  <2>1. GoesOn("trail", task.then, task.state)
    BY <1>2, <1>4, GoGoesOn
  <2> QED BY <1>1, <1>2, <2>1, PathTurns
<1> QED BY <1>3, <1>4 DEF Protect

\* Whether the trail is due to move.
LEMMA TrailKeeps ==
  ASSUME Inv, Trail
  PROVE  Inv'
<1>1. /\ task.pc = "trail" /\ Busy /\ task.pc \in Seeing \ {"close"}
      /\ UNCHANGED <<runtime, broker, faults, history>>
  BY DEF Trail, At, Busy, Seeing
<1>2. TaskOK
  BY <1>1, AtWork
<1>3. CASE Done
  BY <1>1, <1>3, WorkEnds DEF Done
<1>4. CASE task' = [task EXCEPT !.pc = "cancel", !.then = "raise"]
  <2>1. GoesOn("cancel", "raise", task.state)
    BY <1>2, <1>4 DEF GoesOn, TaskOK, TaskFields
  <2> QED BY <1>1, <2>1, PathTurns
<1> QED BY <1>3, <1>4 DEF Trail

\* A stop is moved on some legs, to a level no worse than the recorded one.
LEMMA AmendMoves ==
  ASSUME Inv, task.pc \in {"breakeven", "raise"}, NEW s, s = task.state,
         UNCHANGED <<runtime, order, vol, fill, history>>, faults' \in 0 .. MaxFaults,
         NEW S, NEW level \in 0 .. 2 * Last, level >= s.stop, Amended(S, level)
  PROVE  /\ RecInv' /\ BrokerOK'
         /\ Fits(s, order', vol') /\ (~relapsed => Backed(s, order', stop'))
<1>1. /\ Busy /\ mem = s
      /\ UNCHANGED <<mem, saved, ended, restored, order, vol, fill, cuts, torn, relapsed, severed,
                     loose>>
  BY DEF Busy, Inv, TaskInv, Place, Following, runtime, history
<1>2. /\ s \in State /\ restored /\ RecordsOK /\ BrokerOK /\ HistoryOK
      /\ Fits(s, order, vol) /\ (~relapsed => Backed(s, order, stop))
      /\ OpenLegs(s) \subseteq Legs
  BY <1>1, AtWork
<1>3. \A l \in Legs : stop'[l] = IF l \in S THEN level ELSE stop[l]
  BY DEF Amended
<1>4. BrokerOK' /\ HistoryOK'
  <2>1. stop' \in [Legs -> 0 .. 2 * Last]
    BY <1>2 DEF Amended, BrokerOK
  <2> QED BY <1>1, <1>2, <2>1 DEF BrokerOK, HistoryOK
<1>5. Fits(s, order', vol')
  BY <1>1, <1>2
<1>6. ~relapsed => Backed(s, order', stop')
  <2>1. ASSUME ~relapsed, NEW l \in OpenLegs(s), order[l] = "open" PROVE stop'[l] >= s.stop
    BY <1>2, <1>3, <2>1 DEF Backed
  <2> QED BY <1>1, <2>1 DEF Backed
<1>7. Onward(order, order', vol, vol')
  <2>1. \A l \in Legs : vol[l] <= vol[l]
    BY <1>2 DEF BrokerOK
  <2> QED BY <1>1, <2>1 DEF Onward
<1>8. RecInv'
  BY <1>1, <1>2, <1>4, <1>6, <1>7, BrokerMoves DEF Inv
<1> QED BY <1>4, <1>5, <1>6, <1>8

\* Behind an amendment the poll goes on, with the new stop or without it.
LEMMA AmendTurns ==
  ASSUME Inv, task.pc \in {"breakeven", "raise"},
         UNCHANGED <<runtime, order, vol, fill, history>>, RecInv',
         NEW pc, NEW then, NEW r \in State, GoesOn(pc, then, r),
         \/ pc = "trail" /\ then \in Steps /\ r = task.state
         \/ pc = "save" /\ then \in {"trail", "idle"},
         r.next = task.state.next, r.leg = task.state.leg, r.left = task.state.left,
         ~relapsed => Backed(r, order', stop')
  PROVE  Inv'
<1>1. /\ Busy /\ task.pc \in Seeing \ {"close"} /\ task.pc \notin {"close", "save"}
      /\ UNCHANGED <<mem, saved, ended, restored, order, vol, fill, cuts, torn, relapsed, severed,
                     loose>>
  BY DEF Busy, Seeing, runtime, history
<1>2. /\ task.state \in State /\ restored /\ saved # Nothing /\ TaskOK
      /\ Fits(task.state, order, vol)
  BY <1>1, AtWork
<1>3. task.done = {} /\ (~torn => Before(task.state.next))
  BY <1>1, NoneDone
<1>4. mem = task.state /\ OpenLegs(task.state) \subseteq task.seen
  BY <1>1, Seen
<1>5. TaskOK'
  BY <1>2 DEF TaskOK, GoesOn, Steps, Busy
<1>6. Place' /\ Fresh'
  BY <1>1, <1>2, <1>4 DEF Place, Fresh, GoesOn, Busy, At, Following
<1>7. Sees'
  <2>1. OpenLegs(r) \subseteq task.seen
    BY <1>4 DEF OpenLegs, In
  <2>2. Where' \in {"trail", "idle"} /\ task'.pc # "close"
    BY DEF GoesOn, Where
  <2> QED BY <2>1, <2>2 DEF Sees, GoesOn, At, Seeing
<1>8. TaskTrue'
  <2>1. Fits(r, order, vol)
    BY <1>2, FitsSame
  <2> QED BY <1>1, <2>1 DEF TaskTrue, GoesOn
<1>9. CutsBehind'
  <2>1. task'.done = {} /\ (~torn /\ Busy' => Before(task'.state.next))
    BY <1>3 DEF GoesOn
  <2> QED BY <1>1, <1>3, <2>1, CutsKept DEF Inv, TaskInv
<1> QED BY <1>5, <1>6, <1>7, <1>8, <1>9 DEF Inv, TaskInv

\* A poll that ends with an amendment nothing recorded.
LEMMA AmendEnds ==
  ASSUME Inv, task.pc \in {"breakeven", "raise"}, UNCHANGED <<runtime, history>>, RecInv',
         task' = Idle
  PROVE  Inv'
<1>1. UNCHANGED <<mem, saved, cuts, torn>> /\ task.done = {}
  BY NoneDone DEF runtime, history, Busy
<1>2. (~torn => /\ Known(mem) => Before(mem.next)
                /\ Known(saved) => Before(saved.next))'
  BY <1>1 DEF Inv, TaskInv, CutsBehind, Before
<1> QED BY <1>2, IdleRests, RestingIsTrue DEF Inv

\* Every open leg has the new stop where it is recorded.
LEMMA AmendBacks ==
  ASSUME Inv, task.pc \in {"breakeven", "raise"}, NEW level \in 0 .. 2 * Last,
         order' = order, Amended(Open \cap Positions, level),
         NEW r \in State, r.stop = level, r.leg = task.state.leg, r.left = task.state.left
  PROVE  Backed(r, order', stop')
<1>1. Open = OpenLegs(task.state) /\ OpenLegs(r) = OpenLegs(task.state)
  BY Seen DEF Seeing, OpenLegs, In
<1>2. ASSUME NEW l \in OpenLegs(r), order'[l] = "open" PROVE stop'[l] = level
  <2>1. l \in Legs /\ l \in Open \cap Positions
    BY <1>1, <1>2 DEF OpenLegs, In, Positions
  <2> QED BY <2>1 DEF Amended
<1>3. level >= level
  BY Numbers
<1> QED BY <1>2, <1>3 DEF Backed

\* The break-even and the trailed level are levels of the plan.
LEMMA LevelsFit ==
  ASSUME BrokerOK, NEW s \in State
  PROVE  /\ BreakEvenStop(s) \in 0 .. 2 * Last /\ BreakEvenStop(s) >= s.stop
         /\ 2 * TrailTarget(s) \in 0 .. 2 * Last
<1>1. s.stop \in 0 .. 2 * Last /\ s.next \in 1 .. Last + 1 /\ Last \in Nat
  BY Numbers DEF State
<1>2. \E t \in Targets : fill = 2 * t - 1
  BY PositionsAssumption DEF BrokerOK
<1>3. fill \in 0 .. 2 * Last
  BY <1>1, <1>2, Numbers
<1>4. TrailTarget(s) \in 0 .. Last
  <2>1. TrailTo \in 0 .. Last
    BY <1>1, PositionsAssumption, Numbers
  <2>2. s.next > 3 => s.next - 3 \in 0 .. Last
    BY <1>1
  <2> QED BY <1>1, <2>1, <2>2 DEF TrailTarget
<1> QED BY <1>1, <1>3, <1>4 DEF BreakEvenStop

\* The amendment to break-even (CalculateBreakEven).
LEMMA BreakEvenKeeps ==
  ASSUME Inv, BreakEven
  PROVE  Inv'
<1>s. PICK s : s = task.state
  OBVIOUS
<1>l. PICK level : level = BreakEvenStop(s)
  OBVIOUS
<1>1. /\ task.pc = "breakeven" /\ Busy /\ task.pc \in Seeing \ {"close"}
      /\ UNCHANGED <<runtime, order, vol, fill, faults, history>>
  BY <1>s, <1>l DEF BreakEven, At, Busy, Seeing
<1>2. s \in State /\ TaskOK /\ BrokerOK /\ HistoryOK /\ task.then \in Steps
  BY <1>s, <1>l, <1>1, AtWork DEF TaskOK
<1>3. level \in 0 .. 2 * Last /\ level >= s.stop
  BY <1>s, <1>l, <1>2, LevelsFit
<1>4. CASE Go("trail") /\ UNCHANGED stop
  <2>1. GoesOn("trail", task.then, task.state)
    BY <1>s, <1>l, <1>2, <1>4, GoGoesOn
  <2>2. UNCHANGED <<runtime, broker, faults, history>>
    BY <1>s, <1>l, <1>1, <1>4 DEF broker
  <2> QED BY <1>s, <1>l, <1>1, <1>2, <2>1, <2>2, PathTurns
<1>5. ASSUME Amended(Open \cap Positions, level)
      PROVE  RecInv' /\ (~relapsed => Backed(s, order', stop'))
  <2>1. faults' \in 0 .. MaxFaults
    BY <1>s, <1>l, <1>1, <1>2 DEF HistoryOK
  <2> QED BY <1>s, <1>l, <1>1, <1>3, <1>5, <2>1, AmendMoves
<1>6. CASE Amended(Open \cap Positions, level) /\ Go("trail")
  <2>1. GoesOn("trail", task.then, s)
    BY <1>s, <1>l, <1>2, <1>6, GoGoesOn
  <2> QED BY <1>s, <1>l, <1>1, <1>2, <1>5, <1>6, <2>1, AmendTurns
<1>7. ASSUME Amended(Open \cap Positions, level),
             NEW r, r = [s EXCEPT !.stop = level, !.be = TRUE], SaveThen(r, "trail")
      PROVE  Inv'
  <2>1. r \in State /\ r.next = s.next /\ r.stop = level /\ r.leg = s.leg /\ r.left = s.left
    <3>1. s \in State /\ level \in 0 .. 2 * Last /\ r = [s EXCEPT !.stop = level, !.be = TRUE]
      BY <1>2, <1>3, <1>7
    <3> QED BY <3>1 DEF State
  <2>2. GoesOn("save", "trail", r)
    BY <1>s, <1>l, <1>2, <1>7, SaveGoesOn
  <2>3. Backed(r, order', stop')
    BY <1>s, <1>l, <1>1, <1>3, <1>7, <2>1, AmendBacks
  <2> QED BY <1>s, <1>l, <1>1, <1>5, <1>7, <2>1, <2>2, <2>3, AmendTurns
<1>8. \/ Go("trail") /\ UNCHANGED stop
      \/ Amended(Open \cap Positions, level) /\ Go("trail")
      \/ /\ Amended(Open \cap Positions, level)
         /\ SaveThen([s EXCEPT !.stop = level, !.be = TRUE], "trail")
  BY <1>s, <1>l DEF BreakEven
<1> QED BY <1>s, <1>l, <1>4, <1>6, <1>7, <1>8

\* The amendment of the trail.
LEMMA RaiseKeeps ==
  ASSUME Inv, Raise
  PROVE  Inv'
<1>s. PICK s : s = task.state
  OBVIOUS
<1>l. PICK level : level = 2 * TrailTarget(s)
  OBVIOUS
<1>1. /\ task.pc = "raise" /\ Busy /\ task.pc \in Seeing \ {"close"} /\ task.pc \notin {"close", "save"}
      /\ UNCHANGED <<runtime, order, vol, fill, faults, history>>
  BY <1>s, <1>l DEF Raise, At, Busy, Seeing
<1>2. s \in State /\ TaskOK /\ BrokerOK /\ HistoryOK /\ s.stop \in Nat
  BY <1>s, <1>l, <1>1, AtWork, Numbers DEF State
<1>3. level \in 0 .. 2 * Last /\ level \in Nat
  BY <1>s, <1>l, <1>2, LevelsFit, Numbers
<1>4. CASE Done /\ UNCHANGED stop
  <2>1. UNCHANGED <<runtime, broker, faults, history>>
    BY <1>s, <1>l, <1>1, <1>4 DEF broker
  <2> QED BY <1>s, <1>l, <1>1, <1>4, <2>1, WorkEnds DEF Done
<1>5. ASSUME level > s.stop, Amended(Open \cap Positions, level)
      PROVE  RecInv' /\ (~relapsed => Backed(s, order', stop'))
  <2>1. faults' \in 0 .. MaxFaults
    BY <1>s, <1>l, <1>1, <1>2 DEF HistoryOK
  <2>2. level >= s.stop
    BY <1>s, <1>l, <1>2, <1>3, <1>5
  <2> QED BY <1>s, <1>l, <1>1, <1>3, <1>5, <2>1, <2>2, AmendMoves
<1>6. CASE level > s.stop /\ Amended(Open \cap Positions, level) /\ Done
  BY <1>s, <1>l, <1>1, <1>5, <1>6, AmendEnds DEF Done
<1>7. ASSUME level > s.stop, Amended(Open \cap Positions, level),
             NEW r, r = [s EXCEPT !.stop = level], SaveThen(r, "idle")
      PROVE  Inv'
  <2>1. r \in State /\ r.next = s.next /\ r.stop = level /\ r.leg = s.leg /\ r.left = s.left
    <3>1. s \in State /\ level \in 0 .. 2 * Last /\ r = [s EXCEPT !.stop = level]
      BY <1>2, <1>3, <1>7
    <3> QED BY <3>1, StopIs
  <2>2. GoesOn("save", "idle", r)
    BY <1>s, <1>l, <1>2, <1>7, SaveGoesOn
  <2>3. Backed(r, order', stop')
    BY <1>s, <1>l, <1>1, <1>3, <1>7, <2>1, AmendBacks
  <2> QED BY <1>s, <1>l, <1>1, <1>5, <1>7, <2>1, <2>2, <2>3, AmendTurns
<1>8. \/ Done /\ UNCHANGED stop
      \/ level > s.stop /\ Amended(Open \cap Positions, level) /\ Done
      \/ /\ level > s.stop /\ Amended(Open \cap Positions, level)
         /\ SaveThen([s EXCEPT !.stop = level], "idle")
  <2>1. level <= s.stop \/ level > s.stop
    BY <1>s, <1>l, <1>2, <1>3
  <2> QED BY <1>s, <1>l, <2>1 DEF Raise
<1> QED BY <1>s, <1>l, <1>4, <1>6, <1>7, <1>8

\* An amendment that some leg never answered.
LEMMA AmendUnansweredKeeps ==
  ASSUME Inv, AmendUnanswered
  PROVE  Inv'
<1> PICK s : s = task.state
  OBVIOUS
<1>1. /\ task.pc \in {"breakeven", "raise"} /\ Busy
      /\ UNCHANGED <<runtime, order, vol, fill, history>>
  BY DEF AmendUnanswered, At, Busy
<1>2. s \in State /\ TaskOK /\ BrokerOK /\ HistoryOK /\ s.stop \in Nat /\ task.then \in Steps
  BY <1>1, AtWork, Numbers DEF State, TaskOK
<1>3. faults' \in 0 .. MaxFaults
  BY <1>2, FaultCounts DEF AmendUnanswered
<1>4. CASE /\ \E S \in SUBSET (Open \cap Positions) : Amended(S, BreakEvenStop(s))
           /\ Go("trail")
  <2>1. PICK S : Amended(S, BreakEvenStop(s))
    BY <1>4
  <2>2. BreakEvenStop(s) \in 0 .. 2 * Last /\ BreakEvenStop(s) >= s.stop
    BY <1>2, LevelsFit
  <2>3. RecInv' /\ (~relapsed => Backed(s, order', stop'))
    BY <1>1, <1>3, <2>1, <2>2, AmendMoves
  <2>4. GoesOn("trail", task.then, s)
    BY <1>2, <1>4, GoGoesOn
  <2> QED BY <1>1, <1>2, <2>3, <2>4, AmendTurns
<1>5. CASE /\ 2 * TrailTarget(s) > s.stop
           /\ \E S \in SUBSET (Open \cap Positions) : Amended(S, 2 * TrailTarget(s))
           /\ Done
  <2>1. PICK S : Amended(S, 2 * TrailTarget(s))
    BY <1>5
  <2>2. 2 * TrailTarget(s) \in 0 .. 2 * Last /\ 2 * TrailTarget(s) >= s.stop
    BY <1>2, <1>5, LevelsFit, Numbers
  <2>3. RecInv'
    BY <1>1, <1>3, <2>1, <2>2, AmendMoves
  <2> QED BY <1>1, <1>5, <2>3, AmendEnds DEF Done
<1> QED BY <1>4, <1>5 DEF AmendUnanswered

-----------------------------------------------------------------------------
(* A restart, and polls that are cut off.                                  *)

\* RestoreAsync.
LEMMA RestoreKeeps ==
  ASSUME Inv, Restore
  PROVE  Inv'
<1>1. /\ ~restored /\ restored' = TRUE
      /\ mem' = (IF Known(saved) /\ ~Closed(saved) THEN saved ELSE Nothing)
      /\ UNCHANGED <<saved, ended, task, order, vol, stop, fill, cuts, torn, relapsed, severed,
                     loose, faults>>
  BY DEF Restore, broker, history
<1>2. RecordsOK /\ BrokerOK /\ HistoryOK /\ TaskOK /\ task.pc = "idle" /\ ~Busy
  BY <1>1 DEF Inv, RecInv, Shape, TaskInv, Place, Busy
<1>3. Known(mem') => mem' = saved /\ Known(saved)
  BY <1>1 DEF Known
<1>4. RecInv'
  <2>1. Shape'
    BY <1>1, <1>2 DEF Shape, RecordsOK, BrokerOK, HistoryOK
  <2>2. RecordsFit' /\ RecordsBacked'
    BY <1>1, <1>3 DEF Inv, RecInv, RecordsFit, RecordsBacked
  <2>3. Flat'
    BY <1>1 DEF Inv, RecInv, Flat, Known
  <2> QED BY <2>1, <2>2, <2>3 DEF RecInv
<1>5. TaskOK' /\ Place' /\ Sees' /\ TaskTrue' /\ Fresh'
  BY <1>1, <1>2 DEF TaskOK, Place, Sees, TaskTrue, Fresh, Busy, Where, At, Seeing, Following
<1>6. CutsBehind'
  <2>1. task.done = {}
    BY <1>2 DEF Inv, TaskInv, CutsBehind
  <2> QED BY <1>1, <1>2, <1>3, <2>1 DEF Inv, TaskInv, CutsBehind, Before, At, Busy
<1> QED BY <1>4, <1>5, <1>6 DEF Inv, TaskInv

\* What a record may be once a poll is cut off.
Kept(s) == s = mem \/ s = saved \/ s = Nothing \/ (At("save") /\ s = task.state)

\* Each of those is true of the account and behind the targets booked.
LEMMA KeptHolds ==
  ASSUME Inv, NEW s, Kept(s)
  PROVE  /\ s \in State \cup {Nothing}
         /\ Known(s) => Fits(s, order, vol)
         /\ ~torn /\ task.done = {} /\ Known(s) => Before(s.next)
<1>1. CASE s = mem \/ s = saved
  BY <1>1 DEF Inv, RecInv, Shape, RecordsOK, RecordsFit, TaskInv, CutsBehind
<1>2. CASE s = Nothing
  BY <1>2 DEF Known
<1>3. CASE At("save") /\ s = task.state
  <2>1. Busy /\ task.pc = "save"
    BY <1>3 DEF Busy, At
  <2> QED BY <1>3, <2>1, AtWork DEF Inv, TaskInv, CutsBehind, At
<1> QED BY <1>1, <1>2, <1>3 DEF Kept

\* A poll cut off anywhere, with such a record left.
LEMMA CutOffKeeps ==
  ASSUME Inv, CutOff, UNCHANGED <<broker, cuts>>, faults' \in 0 .. MaxFaults,
         restored' \in BOOLEAN, relapsed' \in BOOLEAN, Kept(mem'), Kept(saved'),
         ~relapsed' => /\ restored' /\ Known(mem') => Backed(mem', order, stop)
                       /\ ~restored' /\ Known(saved') => Backed(saved', order, stop),
         ~restored' => mem' = Nothing,
         saved' = Nothing => mem' = Nothing /\ (saved = Nothing \/ At("forget"))
  PROVE  Inv'
<1>1. /\ UNCHANGED <<order, vol, stop, fill, cuts>> /\ task' = Idle
      /\ ended' \in {ended, ended \/ At("complete")}
      /\ torn' = (torn \/ task.done # {}) /\ severed' = (severed \/ Finishing)
      /\ loose' = IF At("forget") THEN In(task.state, Waiting) ELSE loose
  BY DEF CutOff, broker
<1>2. RecordsOK /\ BrokerOK /\ HistoryOK
  BY DEF Inv, RecInv, Shape
<1>3. \A s \in {mem', saved'} :
        /\ s \in State \cup {Nothing}
        /\ Known(s) => Fits(s, order, vol)
        /\ ~torn /\ task.done = {} /\ Known(s) => Before(s.next)
  BY KeptHolds
<1>4. Shape'
  <2>1. ended' \in BOOLEAN /\ torn' \in BOOLEAN /\ severed' \in BOOLEAN
    BY <1>1, <1>2 DEF RecordsOK, HistoryOK
  <2>2. loose' \subseteq Legs
    BY <1>1, <1>2 DEF In, HistoryOK
  <2>3. RecordsOK'
    BY <1>3, <2>1 DEF RecordsOK
  <2>4. BrokerOK'
    BY <1>1, <1>2 DEF BrokerOK
  <2>5. HistoryOK'
    BY <1>1, <1>2, <2>1, <2>2 DEF HistoryOK
  <2> QED BY <2>3, <2>4, <2>5 DEF Shape
<1>5. RecordsFit' /\ RecordsBacked'
  BY <1>1, <1>3 DEF RecordsFit, RecordsBacked
<1>6. Flat'
  <2>1. ASSUME saved' = Nothing
        PROVE  \A l \in Legs \ loose' : order[l] \in {"closed", "cancelled"}
    <3>1. CASE At("forget")
      <4>1. task.pc = "forget" /\ Busy
        BY <3>1 DEF At, Busy
      <4>2. task.state \in State /\ Fits(task.state, order, vol) /\ In(task.state, Held) = {}
        BY <4>1, AtWork DEF Inv, TaskInv, Sees, Where
      <4> QED BY <1>1, <3>1, <4>2, LooseLegs
    <3>2. CASE ~At("forget")
      BY <1>1, <2>1, <3>2 DEF Inv, RecInv, Flat
    <3> QED BY <3>1, <3>2
  <2> QED BY <1>1, <2>1 DEF Flat
<1>7. TaskInv'
  <2>1. (~torn => /\ Known(mem) => Before(mem.next)
                  /\ Known(saved) => Before(saved.next))'
    <3>1. ~torn' => ~torn /\ task.done = {}
      BY <1>1
    <3> QED BY <1>1, <1>3, <3>1 DEF Before
  <2> QED BY <1>1, <2>1, IdleRests, RestingIsTrue
<1> QED BY <1>4, <1>5, <1>6, <1>7 DEF Inv, RecInv

\* A call that fails ends its poll.
LEMMA FailsKeeps ==
  ASSUME Inv, Fails
  PROVE  Inv'
<1>1. /\ Busy /\ CutOff /\ UNCHANGED <<restored, broker, cuts, relapsed>> /\ Fault
      /\ UNCHANGED <<broker, cuts>>
      /\ mem' = CASE At("save") -> task.state [] At("forget") -> Nothing [] OTHER -> mem
      /\ saved' \in {saved, IF task.pc \in {"save", "forget"} THEN mem' ELSE saved}
  BY DEF Fails, Busy, Uncaught, At
<1>2. /\ task.state \in State /\ Known(task.state) /\ restored /\ saved # Nothing
      /\ RecordsOK /\ HistoryOK /\ (~relapsed => Backed(task.state, order, stop))
  BY <1>1, AtWork
<1>3. /\ At("save") => mem' = task.state
      /\ At("forget") => mem' = Nothing
      /\ ~At("save") /\ ~At("forget") => mem' = mem
  BY <1>1 DEF At
<1>4. saved' = saved \/ (saved' = mem' /\ (At("save") \/ At("forget")))
  BY <1>1 DEF At
<1>5. Kept(mem') /\ Kept(saved')
  BY <1>3, <1>4 DEF Kept
<1>6. ~relapsed' => /\ restored' /\ Known(mem') => Backed(mem', order, stop)
                    /\ ~restored' /\ Known(saved') => Backed(saved', order, stop)
  BY <1>1, <1>2, <1>3 DEF Inv, RecInv, RecordsBacked, Known
<1>7. saved' = Nothing => mem' = Nothing /\ At("forget")
  BY <1>2, <1>3, <1>4 DEF Known
<1>8. faults' \in 0 .. MaxFaults /\ restored' \in BOOLEAN /\ relapsed' \in BOOLEAN /\ restored'
  BY <1>1, <1>2, FaultCounts DEF RecordsOK, HistoryOK
<1> QED BY <1>1, <1>5, <1>6, <1>7, <1>8, CutOffKeeps

\* A crash loses the memory.
LEMMA CrashKeeps ==
  ASSUME Inv, Crash
  PROVE  Inv'
<1>1. /\ CutOff /\ UNCHANGED <<broker, cuts>> /\ Fault
      /\ mem' = Nothing /\ restored' = FALSE /\ relapsed' = (relapsed \/ mem # saved)
      /\ saved' \in {saved, CASE At("save")   -> task.state
                              [] At("forget") -> Nothing
                              [] OTHER        -> saved}
  BY DEF Crash
<1>2. RecordsOK /\ HistoryOK
  BY DEF Inv, RecInv, Shape
<1>3. \/ saved' = saved
      \/ At("save") /\ saved' = task.state
      \/ At("forget") /\ saved' = Nothing
  BY <1>1 DEF At
<1>4. At("save") => task.state \in State /\ Known(task.state)
                    /\ (~relapsed => Backed(task.state, order, stop))
  BY AtWork DEF At, Busy
<1>5. Kept(mem') /\ Kept(saved')
  BY <1>1, <1>3 DEF Kept
<1>6. ASSUME ~relapsed', Known(saved') PROVE Backed(saved', order, stop)
  <2>1. ~relapsed /\ mem = saved
    BY <1>1, <1>6
  <2>2. CASE saved' = saved
    BY <1>2, <1>6, <2>1, <2>2 DEF Inv, RecInv, RecordsBacked, RecordsOK
  <2>3. CASE At("save") /\ saved' = task.state
    BY <1>4, <2>1, <2>3
  <2>4. CASE saved' = Nothing
    BY <1>6, <2>4 DEF Known
  <2> QED BY <1>3, <2>2, <2>3, <2>4
<1>7. saved' = Nothing => saved = Nothing \/ At("forget")
  BY <1>3, <1>4 DEF Known
<1>8. faults' \in 0 .. MaxFaults /\ restored' \in BOOLEAN /\ relapsed' \in BOOLEAN /\ ~restored'
  BY <1>1, <1>2, FaultCounts DEF HistoryOK
<1> QED BY <1>1, <1>5, <1>6, <1>7, <1>8, CutOffKeeps

-----------------------------------------------------------------------------
(* The broker, the market and the owner.                                   *)

\* The broker, the market and the owner only move the account onward.
LEMMA WorldMoves ==
  ASSUME Inv, UNCHANGED <<runtime, task, faults, history>>, BrokerOK',
         Onward(order, order', vol, vol'),
         \A l \in Legs : order[l] # "filling" /\ order'[l] = "open"
                           => order[l] = "open" /\ stop'[l] = stop[l]
  PROVE  Inv'
<1>1. UNCHANGED <<mem, saved, ended, restored, task, cuts, torn, relapsed, severed, loose, faults>>
  BY DEF runtime, history
<1>2. RecInv /\ RecordsOK /\ BrokerOK /\ HistoryOK
  BY DEF Inv, RecInv, Shape
<1>3. ASSUME NEW s \in State, Fits(s, order, vol), Backed(s, order, stop)
      PROVE  Backed(s, order', stop')
  <2>1. \A l \in OpenLegs(s) : order[l] # "filling" /\ order'[l] = "open"
                                 => order[l] = "open" /\ stop'[l] = stop[l]
    BY DEF OpenLegs, In
  <2> QED BY <1>2, <1>3, <2>1, BackedOnward
<1>4. RecInv'
  <2>1. /\ Known(mem) => mem \in State /\ Fits(mem, order, vol)
        /\ Known(saved) => saved \in State /\ Fits(saved, order, vol)
    BY <1>2 DEF RecInv, RecordsOK, RecordsFit, Known
  <2>2. /\ ~relapsed' /\ restored /\ Known(mem) => Backed(mem, order', stop')
        /\ ~relapsed' /\ ~restored /\ Known(saved) => Backed(saved, order', stop')
    BY <1>1, <1>2, <1>3, <2>1 DEF RecInv, RecordsBacked
  <2>3. HistoryOK'
    BY <1>1, <1>2 DEF HistoryOK
  <2> QED BY <1>1, <1>2, <2>2, <2>3, BrokerMoves
<1>5. TaskOK' /\ Place' /\ Fresh' /\ CutsBehind'
  BY <1>1 DEF Inv, TaskInv, TaskOK, Place, Fresh, CutsBehind, Before, Busy, At
<1>6. Sees'
  <2>1. \A l \in Legs : order[l] = "closed" => order'[l] = "closed"
    BY DEF Onward
  <2>2. Where = "manage" => \A l \in OpenLegs(task.state) \ task.seen : order'[l] = "closed"
    BY <2>1 DEF Inv, TaskInv, Sees, OpenLegs, In
  <2> QED BY <1>1, <2>2 DEF Inv, TaskInv, Sees, Where, At
<1>7. TaskTrue'
  <2> SUFFICES ASSUME Busy PROVE TaskTrue'
    BY <1>1 DEF TaskTrue, Busy
  <2>1. task.state \in State /\ Fits(task.state, order, vol) /\ (~relapsed => Backed(task.state, order, stop))
    BY AtWork
  <2>2. Fits(task.state, order', vol')
    BY <1>2, <2>1, FitsOnward DEF BrokerOK
  <2>3. ~relapsed => Backed(task.state, order', stop')
    BY <1>3, <2>1
  <2> QED BY <1>1, <2>2, <2>3 DEF TaskTrue
<1> QED BY <1>4, <1>5, <1>6, <1>7 DEF Inv, TaskInv

\* No record speaks against such a move.
LEMMA WorldKeeps ==
  ASSUME Inv, NEW l \in Legs, Trigger(l) \/ FillLands(l) \/ OwnerCancels(l) \/ PositionCloses(l)
  PROVE  Inv'
<1>1. BrokerOK /\ Volumes[l] \in Nat \ {0} /\ (\A k \in Legs : vol[k] \in Nat /\ vol[k] <= vol[k])
  BY PositionsAssumption DEF Inv, RecInv, Shape, BrokerOK
<1>2. UNCHANGED <<runtime, task, faults, history>> /\ fill' = fill
  BY DEF Trigger, FillLands, OwnerCancels, PositionCloses
<1>3. /\ order' \in [Legs -> OrderStates] /\ vol' \in [Legs -> Nat]
      /\ stop' \in [Legs -> 0 .. 2 * Last]
  BY <1>1, Numbers DEF Trigger, FillLands, OwnerCancels, PositionCloses, BrokerOK, OrderStates
<1>4. \A k \in Legs \ {l} : order'[k] = order[k] /\ vol'[k] = vol[k] /\ stop'[k] = stop[k]
  BY <1>1 DEF Trigger, FillLands, OwnerCancels, PositionCloses, BrokerOK
<1>5. \/ order[l] = "pending" /\ order'[l] \in {"filling", "cancelled"} /\ vol'[l] = vol[l]
      \/ order[l] = "filling" /\ order'[l] = "open" /\ vol'[l] = Volumes[l]
      \/ order[l] = "open" /\ order'[l] = "closed" /\ vol'[l] = 0
  BY <1>1 DEF Trigger, FillLands, OwnerCancels, PositionCloses, BrokerOK
<1>6. \A k \in Legs : vol'[k] <= Volumes[k] /\ (order'[k] = "open" => vol'[k] > 0)
  <2> TAKE k \in Legs
  <2>1. CASE k = l
    BY <1>1, <1>5, <2>1 DEF BrokerOK
  <2>2. CASE k # l
    BY <1>1, <1>4, <2>2 DEF BrokerOK
  <2> QED BY <2>1, <2>2
<1>7. BrokerOK'
  BY <1>1, <1>2, <1>3, <1>6 DEF BrokerOK
<1>8. Onward(order, order', vol, vol')
  <2> SUFFICES ASSUME NEW k \in Legs
               PROVE  /\ order'[k] # order[k] =>
                           <<order[k], order'[k]>> \in {<<"pending", "filling">>, <<"pending", "cancelled">>,
                                                        <<"filling", "open">>, <<"open", "closed">>}
                      /\ vol'[k] <= vol[k] \/ order[k] = "filling"
    BY DEF Onward
  <2>1. CASE k = l
    BY <1>1, <1>5, <2>1
  <2>2. CASE k # l
    BY <1>1, <1>4, <2>2
  <2> QED BY <2>1, <2>2
<1>9. \A k \in Legs : order[k] # "filling" /\ order'[k] = "open"
                        => order[k] = "open" /\ stop'[k] = stop[k]
  BY <1>4, <1>5
<1> QED BY <1>2, <1>7, <1>8, <1>9, WorldMoves

\* The ten seconds, for one record.
LEMMA AgedKeeps ==
  ASSUME NEW s \in State \cup {Nothing}, NEW r, r = Aged(s)
  PROVE  /\ r \in State \cup {Nothing} /\ (Known(r) <=> Known(s)) /\ (s \in State => r \in State)
         /\ s \in State => /\ r.next = s.next /\ r.stop = s.stop
                           /\ OpenLegs(r) = OpenLegs(s) /\ In(r, Held) = In(s, Held)
                           /\ \A l \in Legs : r.left[l] = s.left[l]
<1>1. CASE ~Known(s)
  BY <1>1, StateKnown DEF Aged
<1>2. CASE Known(s)
  <2>1. s \in State
    BY <1>2 DEF Known
  <2>2. /\ r \in State /\ r.next = s.next /\ r.stop = s.stop /\ r.left = s.left
        /\ \A l \in Legs : r.leg[l] = IF s.leg[l] = "gone" THEN "overdue" ELSE s.leg[l]
    BY <2>1, AgedIs
  <2>3. Known(r)
    BY <2>2, StateKnown
  <2>4. OpenLegs(r) = OpenLegs(s) /\ In(r, Held) = In(s, Held)
    BY <2>2 DEF OpenLegs, In, Held
  <2> QED BY <1>2, <2>1, <2>2, <2>3, <2>4
<1> QED BY <1>1, <1>2

\* The ten seconds, for all of them.
LEMMA TenSecondsKeeps ==
  ASSUME Inv, TenSeconds
  PROVE  Inv'
<1> PICK m : m = mem
  OBVIOUS
<1> PICK d : d = saved
  OBVIOUS
<1> PICK s : s = task.state
  OBVIOUS
<1> PICK m2 : m2 = Aged(m)
  OBVIOUS
<1> PICK d2 : d2 = Aged(d)
  OBVIOUS
<1> PICK s2 : s2 = Aged(s)
  OBVIOUS
<1>1. /\ \A l \in Legs : order[l] # "filling"
      /\ mem' = m2 /\ saved' = d2 /\ task' = [task EXCEPT !.state = s2]
      /\ UNCHANGED <<ended, restored, order, vol, stop, fill, cuts, torn, relapsed, severed,
                     loose, faults>>
  BY DEF TenSeconds, broker, history
<1>2. /\ RecordsOK /\ BrokerOK /\ HistoryOK /\ TaskOK
      /\ m \in State \cup {Nothing} /\ d \in State \cup {Nothing} /\ s \in State \cup {Nothing}
  BY DEF Inv, RecInv, Shape, TaskInv, RecordsOK, TaskOK
<1>3. /\ DOMAIN task' = TaskFields /\ task'.pc = task.pc /\ task'.then = task.then
      /\ task'.state = s2 /\ task'.seen = task.seen /\ task'.cut = task.cut
      /\ task'.todo = task.todo /\ task'.done = task.done /\ task'.ok = task.ok
  BY <1>1, <1>2 DEF TaskOK, TaskFields
<1>4. ASSUME NEW x \in State \cup {Nothing}, NEW y, y = Aged(x)
      PROVE  /\ y \in State \cup {Nothing} /\ (Known(y) <=> Known(x)) /\ (x \in State => y \in State)
             /\ x \in State => /\ y.next = x.next /\ y.stop = x.stop
                               /\ OpenLegs(y) = OpenLegs(x) /\ In(y, Held) = In(x, Held)
                               /\ \A l \in Legs : y.left[l] = x.left[l]
             /\ Known(x) /\ Fits(x, order, vol) => Fits(y, order', vol')
             /\ x \in State /\ Backed(x, order, stop) => Backed(y, order', stop')
  <2>1. /\ y \in State \cup {Nothing} /\ (Known(y) <=> Known(x)) /\ (x \in State => y \in State)
        /\ x \in State => /\ y.next = x.next /\ y.stop = x.stop
                          /\ OpenLegs(y) = OpenLegs(x) /\ In(y, Held) = In(x, Held)
                          /\ \A l \in Legs : y.left[l] = x.left[l]
    BY <1>4, AgedKeeps
  <2>2. ASSUME Known(x), Fits(x, order, vol) PROVE Fits(y, order', vol')
    <3>1. x \in State /\ order \in [Legs -> OrderStates]
      BY <1>2, <2>2 DEF Known, BrokerOK
    <3> QED BY <1>1, <1>4, <2>2, <3>1, FitsAged
  <2>3. ASSUME x \in State, Backed(x, order, stop) PROVE Backed(y, order', stop')
    BY <1>1, <2>1, <2>3 DEF Backed
  <2> QED BY <2>1, <2>2, <2>3
<1>5. /\ m2 \in State \cup {Nothing} /\ d2 \in State \cup {Nothing} /\ s2 \in State \cup {Nothing}
      /\ (Known(m2) <=> Known(m)) /\ (Known(d2) <=> Known(d))
      /\ (m \in State => m2 \in State) /\ (d \in State => d2 \in State) /\ (s \in State => s2 \in State)
  BY <1>2, <1>4
<1>6. RecInv'
  <2>1. Shape'
    BY <1>1, <1>2, <1>5 DEF Shape, RecordsOK, BrokerOK, HistoryOK
  <2>2. RecordsFit'
    <3>1. (Known(m) => Fits(m, order, vol)) /\ (Known(d) => Fits(d, order, vol))
      BY DEF Inv, RecInv, RecordsFit
    <3>2. (Known(m2) => Fits(m2, order', vol')) /\ (Known(d2) => Fits(d2, order', vol'))
      BY <1>2, <1>4, <1>5, <3>1
    <3> QED BY <1>1, <3>2 DEF RecordsFit
  <2>3. RecordsBacked'
    <3>1. ~relapsed => /\ restored /\ Known(m) => Backed(m, order, stop)
                       /\ ~restored /\ Known(d) => Backed(d, order, stop)
      BY DEF Inv, RecInv, RecordsBacked
    <3>2. (Known(m) => m \in State) /\ (Known(d) => d \in State)
      BY <1>2 DEF Known
    <3>3. ~relapsed => /\ restored /\ Known(m2) => Backed(m2, order', stop')
                       /\ ~restored /\ Known(d2) => Backed(d2, order', stop')
      BY <1>2, <1>4, <1>5, <3>1, <3>2
    <3> QED BY <1>1, <3>3 DEF RecordsBacked
  <2>4. Flat'
    <3>1. (m2 = Nothing <=> m = Nothing) /\ (d2 = Nothing <=> d = Nothing)
      BY <1>5 DEF Known
    <3> QED BY <1>1, <3>1 DEF Inv, RecInv, Flat
  <2> QED BY <2>1, <2>2, <2>3, <2>4 DEF RecInv
<1>7. Busy => /\ s \in State /\ Known(s) /\ Fits(s, order, vol)
              /\ (~relapsed => Backed(s, order, stop))
  BY AtWork
<1>8. TaskOK'
  BY <1>2, <1>3, <1>5, <1>7 DEF TaskOK, Busy
<1>9. Place'
  <2>1. saved # Nothing => saved' # Nothing
    BY <1>1, <1>5 DEF Known
  <2> QED BY <1>1, <1>3, <2>1 DEF Inv, TaskInv, Place, Busy, At
<1>10. Busy => /\ s2.next = s.next /\ s2.stop = s.stop
               /\ OpenLegs(s2) = OpenLegs(s) /\ In(s2, Held) = In(s, Held)
               /\ \A l \in Legs : s2.left[l] = s.left[l]
  BY <1>2, <1>4, <1>7
<1>11. Sees'
  <2>1. Where' = Where
    BY <1>3 DEF Where
  <2>2. CASE Busy
    <3>1. Sees
      BY DEF Inv, TaskInv
    <3>2. \A l \in task.todo : l \in Legs
      BY <1>2 DEF TaskOK
    <3>3. /\ Where = "manage" => \A l \in OpenLegs(s) \ task.seen : order[l] = "closed"
          /\ Where \in Seeing => OpenLegs(s) \subseteq task.seen
          /\ Where \in {"book", "close"} => s.next <= Last
          /\ Where \in {"complete", "forget"} => In(s, Held) = {}
          /\ At("close") => \A l \in task.todo :
                l \in OpenLegs(s) /\ task.cut[l] \in 1 .. s.left[l]
      BY <3>1 DEF Sees
    <3>4. /\ Where = "manage" => \A l \in OpenLegs(s2) \ task.seen : order[l] = "closed"
          /\ Where \in Seeing => OpenLegs(s2) \subseteq task.seen
          /\ Where \in {"book", "close"} => s2.next <= Last
          /\ Where \in {"complete", "forget"} => In(s2, Held) = {}
          /\ At("close") => \A l \in task.todo :
                l \in OpenLegs(s2) /\ task.cut[l] \in 1 .. s2.left[l]
      BY <1>10, <2>2, <3>2, <3>3
    <3> QED BY <1>1, <1>3, <2>1, <3>4 DEF Sees, At
  <2>3. CASE ~Busy
    BY <1>3, <2>1, <2>3 DEF Sees, Where, Busy, At, Seeing
  <2> QED BY <2>2, <2>3
<1>12. TaskTrue'
  <2>1. Busy => Fits(s2, order', vol') /\ (~relapsed => Backed(s2, order', stop'))
    BY <1>2, <1>4, <1>7
  <2> QED BY <1>1, <1>3, <2>1 DEF TaskTrue, Busy
<1>13. Fresh'
  <2>1. At("adopt") => s2.stop = 0 /\ (Known(m2) => task.todo \cap In(m2, Held) = {})
    <3>1. At("adopt") => s.stop = 0 /\ (Known(m) => task.todo \cap In(m, Held) = {})
      BY DEF Inv, TaskInv, Fresh
    <3>2. At("adopt") => Busy
      BY DEF At, Busy
    <3>3. Known(m) => m \in State
      BY <1>2 DEF Known
    <3>4. Known(m) => In(m2, Held) = In(m, Held)
      BY <1>2, <1>4, <3>3
    <3> QED BY <1>5, <1>10, <3>1, <3>2, <3>4
  <2> QED BY <1>1, <1>3, <2>1 DEF Fresh, At
<1>14. CutsBehind'
  <2>1. CutsBehind
    BY DEF Inv, TaskInv
  <2>2. /\ task.done # {} => task.pc \in {"close", "save"}
        /\ At("close") => task.todo \cap task.done = {}
        /\ ~torn =>
             /\ task.done = {} => /\ Known(m) => Before(m.next)
                                  /\ Known(d) => Before(d.next)
             /\ At("close") => \A c \in cuts :
                  c[1] < s.next \/ (c[1] = s.next /\ c[2] \in task.done)
             /\ Busy /\ ~At("close") => Before(s.next)
    BY <2>1 DEF CutsBehind
  <2>3. (Known(m) => m \in State) /\ (Known(d) => d \in State)
    BY <1>2 DEF Known
  <2>4. (Known(m) => m2.next = m.next) /\ (Known(d) => d2.next = d.next)
    BY <1>2, <1>4, <2>3
  <2>5. At("close") => Busy
    BY DEF At, Busy
  <2>6. ~torn =>
          /\ task.done = {} => /\ Known(m2) => Before(m2.next)
                               /\ Known(d2) => Before(d2.next)
          /\ At("close") => \A c \in cuts :
               c[1] < s2.next \/ (c[1] = s2.next /\ c[2] \in task.done)
          /\ Busy /\ ~At("close") => Before(s2.next)
    BY <1>5, <1>10, <2>2, <2>4, <2>5
  <2>7. Busy' = Busy /\ (At("close"))' = At("close")
    BY <1>3 DEF Busy, At
  <2> QED BY <1>1, <1>3, <2>2, <2>6, <2>7 DEF CutsBehind, Before, Busy, At
<1> QED BY <1>6, <1>8, <1>9, <1>11, <1>12, <1>13, <1>14 DEF Inv, TaskInv

-----------------------------------------------------------------------------
(* The whole.                                                              *)

\* The state at the end of the entry.
LEMMA SubmittedIs ==
  ASSUME NEW market \in SUBSET Legs, NEW r, r = Submitted(market)
  PROVE  /\ r \in State /\ r.stop = 0
         /\ \A l \in Legs : r.leg[l] = IF l \in market THEN "filled" ELSE "pending"
         /\ \A l \in Legs : r.left[l] = IF l \in market THEN Volumes[l] ELSE 0
<1> DEFINE leg == [l \in Legs |-> IF l \in market THEN "filled" ELSE "pending"]
           left == [l \in Legs |-> IF l \in market THEN Volumes[l] ELSE 0]
<1>1. leg \in [Legs -> Stages]
  BY DEF Stages, Waiting
<1>2. left \in [Legs -> Nat]
  BY PositionsAssumption
<1>3. 1 \in 1 .. Last + 1 /\ 0 \in 0 .. Last /\ 0 \in 0 .. 2 * Last
  BY Numbers
<1>4. r = [leg |-> leg, left |-> left, next |-> 1, high |-> 0, be |-> FALSE, stop |-> 0,
           held |-> FALSE]
  BY DEF Submitted
<1>5. r \in State /\ r.stop = 0 /\ r.leg = leg /\ r.left = left
  <2> HIDE DEF leg, left
  <2> QED BY <1>1, <1>2, <1>3, <1>4 DEF State
<1> QED BY <1>5

\* It fits the account the entry left.
LEMMA InitKeeps ==
  ASSUME Init
  PROVE  Inv
<1> PICK market \in SUBSET Legs :
      /\ mem = Submitted(market) /\ saved = mem
      /\ order = [l \in Legs |-> IF l \in market THEN "open" ELSE "pending"]
      /\ vol = [l \in Legs |-> IF l \in market THEN Volumes[l] ELSE 0]
  BY DEF Init
<1>1. /\ mem \in State /\ saved = mem /\ mem.stop = 0 /\ Known(mem)
      /\ \A l \in Legs : mem.leg[l] = IF l \in market THEN "filled" ELSE "pending"
      /\ \A l \in Legs : mem.left[l] = IF l \in market THEN Volumes[l] ELSE 0
  BY SubmittedIs, StateKnown
<1>2. /\ stop = [l \in Legs |-> 0] /\ fill \in Fills
      /\ ended = FALSE /\ restored = TRUE /\ task = Idle /\ faults = 0
      /\ cuts = {} /\ torn = FALSE /\ relapsed = FALSE /\ severed = FALSE /\ loose = {}
  BY DEF Init
<1>3. BrokerOK
  <2>1. stop \in [Legs -> 0 .. 2 * Last] /\ order \in [Legs -> OrderStates]
    BY <1>2, Numbers DEF OrderStates
  <2>2. vol \in [Legs -> Nat]
    BY PositionsAssumption
  <2>3. \A l \in Legs : vol[l] <= Volumes[l] /\ (order[l] = "open" => vol[l] > 0)
    BY PositionsAssumption
  <2> QED BY <1>2, <2>1, <2>2, <2>3 DEF BrokerOK
<1>4. Shape
  <2>1. RecordsOK
    BY <1>1, <1>2 DEF RecordsOK
  <2>2. HistoryOK
    <3>1. faults \in 0 .. MaxFaults
      BY <1>2, PositionsAssumption
    <3> QED BY <1>2, <3>1 DEF HistoryOK
  <2> QED BY <1>3, <2>1, <2>2 DEF Shape
<1>5. Fits(mem, order, vol)
  <2> SUFFICES ASSUME NEW l \in Legs PROVE LegFits(mem.leg[l], mem.left[l], order[l], vol[l])
    BY DEF Fits
  <2>1. CASE l \in market
    <3>1. /\ mem.leg[l] = "filled" /\ mem.left[l] = Volumes[l] /\ vol[l] = Volumes[l]
          /\ order[l] = "open" /\ Volumes[l] \in Nat \ {0}
      BY <1>1, <2>1, PositionsAssumption
    <3> QED BY <3>1 DEF LegFits, Held
  <2>2. CASE l \notin market
    <3>1. mem.leg[l] = "pending"
      BY <1>1, <2>2
    <3> QED BY <3>1 DEF LegFits, Held
  <2> QED BY <2>1, <2>2
<1>6. Backed(mem, order, stop)
  BY <1>1, <1>3, BackedAtPlanStop DEF BrokerOK
<1>7. RecInv
  BY <1>1, <1>2, <1>4, <1>5, <1>6 DEF RecInv, RecordsFit, RecordsBacked, Flat, Known
<1>8. TaskInv
  <2>1. /\ DOMAIN task = TaskFields /\ task.pc = "idle" /\ task.then = "idle"
        /\ task.state = Nothing /\ task.seen = {} /\ task.todo = {} /\ task.done = {}
        /\ task.ok = TRUE
    BY <1>2 DEF Idle, TaskFields
  <2>2. TaskOK /\ Place /\ Sees /\ TaskTrue /\ Fresh
    BY <2>1 DEF TaskOK, Place, Sees, TaskTrue, Fresh, Busy, Where, At, Seeing, Following, Steps
  <2>3. CutsBehind
    BY <1>2, <2>1 DEF CutsBehind, Before, Busy, At
  <2> QED BY <2>2, <2>3 DEF TaskInv
<1> QED BY <1>7, <1>8 DEF Inv

\* A step of nobody.
LEMMA StutterKeeps ==
  ASSUME Inv, UNCHANGED vars
  PROVE  Inv'
<1>1. /\ UNCHANGED <<mem, saved, ended, restored, task, order, vol, stop, fill, faults>>
      /\ UNCHANGED <<cuts, torn, relapsed, severed, loose>>
      /\ UNCHANGED <<runtime, broker, faults, history>>
  BY DEF vars, runtime, broker, history
<1>2. RecInv'
  BY <1>1, RecordsStay DEF Inv
<1>3. TaskInv'
  BY <1>1 DEF Inv, TaskInv, TaskOK, Place, Sees, TaskTrue, Fresh, CutsBehind, Before, Busy, Where, At
<1> QED BY <1>2, <1>3 DEF Inv

\* The inductive invariant: what the records say of a leg is true of its order and
\* its position, the stop they name is in force, and the targets booked are behind them.
THEOREM InvHolds == Spec => []Inv
<1>1. Init => Inv
  BY InitKeeps
<1>2. Inv /\ [Next]_vars => Inv'
  <2> SUFFICES ASSUME Inv, [Next]_vars PROVE Inv'
    OBVIOUS
  <2>1. CASE Step
    BY <2>1, RestoreKeeps, PollKeeps, AdoptKeeps, SaveKeeps, ManageKeeps, TargetKeeps, CancelKeeps,
       BookKeeps, CloseKeeps, BookingEndsKeeps, CompleteKeeps, ForgetKeeps, ProtectKeeps,
       BreakEvenKeeps, TrailKeeps, RaiseKeeps DEF Step
  <2>2. CASE \E l \in Legs : AdoptPosition(l)
    BY <2>2, AdoptPositionKeeps
  <2>3. CASE CancelUnanswered \/ CloseUnanswered \/ AmendUnanswered \/ Fails \/ Crash
    BY <2>3, CancelUnansweredKeeps, CloseUnansweredKeeps, AmendUnansweredKeeps, FailsKeeps, CrashKeeps
  <2>4. CASE World
    BY <2>4, WorldKeeps, TenSecondsKeeps DEF World
  <2>5. CASE UNCHANGED vars
    BY <2>5, StutterKeeps
  <2> QED BY <2>1, <2>2, <2>3, <2>4, <2>5 DEF Next
<1> QED BY <1>1, <1>2, PTL DEF Spec

\* The type invariant of records, poll, account and history.
THEOREM PositionsTypeCorrect == Spec => []TypeOK
<1>1. Inv => TypeOK
  <2> SUFFICES ASSUME Inv PROVE TypeOK
    OBVIOUS
  <2>1. RecordsOK /\ BrokerOK /\ HistoryOK /\ TaskOK
    BY DEF Inv, RecInv, Shape, TaskInv
  <2>2. \A l \in Legs : vol[l] \in 0 .. Volumes[l]
    BY <2>1, PositionsAssumption DEF BrokerOK
  <2> QED BY <2>1, <2>2 DEF TypeOK, RecordsOK, BrokerOK, HistoryOK, TaskOK
<1> QED BY <1>1, InvHolds, PTL

\* No leg is closed twice for one target, for any number of legs and targets, any volumes
\* and ratios, unless a booking broke off halfway (ManageOpenPositionsAsync, PersistStateAsync).
THEOREM TargetsNotRebooked == Spec => []TargetNotRebooked
<1>1. Inv => TargetNotRebooked
  <2> SUFFICES ASSUME Inv, At("close"), NEW l \in task.todo, <<task.state.next, l>> \in cuts
               PROVE  torn
    BY DEF TargetNotRebooked
  <2> SUFFICES ASSUME ~torn PROVE FALSE
    OBVIOUS
  <2> PICK s : s = task.state
    OBVIOUS
  <2>1. /\ s.next \in Targets /\ task.todo \cap task.done = {}
        /\ \A c \in cuts : c[1] < s.next \/ (c[1] = s.next /\ c[2] \in task.done)
    BY Closing
  <2>2. s.next < s.next \/ l \in task.done
    BY <2>1
  <2>3. s.next \in Nat
    BY <2>1, Numbers
  <2> QED BY <2>1, <2>2, <2>3
<1> QED BY <1>1, InvHolds, PTL

\* The stop the records name is in force on every leg they call open, whatever fill, fault or
\* late adoption comes between, unless a restart took up an older record.
THEOREM StopsAreReal == Spec => []StopIsReal
<1>1. Inv => StopIsReal
  <2> SUFFICES ASSUME Inv, Known(mem), ~relapsed, NEW l \in OpenLegs(mem) \cap Positions
               PROVE  stop[l] >= mem.stop
    BY DEF StopIsReal
  <2>1. restored /\ Backed(mem, order, stop)
    BY DEF Inv, RecInv, Flat, RecordsBacked, Known
  <2> QED BY <2>1 DEF Backed, Positions
<1> QED BY <1>1, InvHolds, PTL

\* A plan told completed and forgotten has no position open but of the legs that were
\* unfilled at the end (PersistPlanExecutionStateAsync, ForgetPlanAsync).
THEOREM CompletedFlat == Spec => []CompletedIsFlat
<1>1. Inv => CompletedIsFlat
  BY DEF Inv, RecInv, Flat, CompletedIsFlat, Positions
<1> QED BY <1>1, InvHolds, PTL
====
