----------------------- MODULE SetupLifecycle_proofs -----------------------
(* Proofs about SetupLifecycle for any number of setups, handlers and faults. *)
(* A task is well formed (TaskOK) and, when it is about to publish, works on  *)
(* a setup whose plan is built or that is past it (PastBuild, a set that the  *)
(* transition graph never leaves).                                            *)
EXTENDS SetupLifecycle, TLAPS

Task == [pc : Labels, on : Setups \cup {Nobody},
         goal : States \cup {"missing"}, seen : States \cup {"missing"},
         ok : Labels \cup {"advance"}, bad : Labels \cup {"unbound"},
         zone : BOOLEAN, bound : BOOLEAN]

\* Labels no caller of transition_setup returns to: its own, and the write of
\* a record that a load found missing.
Inner == {"load", "cas", "sync", "save"}

Chain == {"watching", "touched", "forming", "confirmed"}

\* A task at work has a setup; inside transition_setup it has a goal, and
\* after the comparison is prepared that goal follows the state it read.
TaskOK(r) ==
  /\ r \in Task
  /\ r.pc # "idle" => r.on \in Setups
  /\ r.pc \in {"load", "cas", "sync"} => r.goal \in States
  /\ r.pc = "cas" => r.seen \in States /\ r.goal \in Transitions[r.seen]
  /\ r.pc \in {"load", "cas", "sync"} /\ r.ok = "advance" => r.goal \in Chain
  /\ r.ok = "publish" => r.goal = "plan_built"
  /\ {r.ok, r.bad} \cap Inner = {} /\ r.bad # "publish"

PastBuild == PublicationWon \cup {"cancelled", "expired", "consumed"}

\* The task's next step, or the one after, is the call that publishes.
Publishing(r) == r.pc = "publish" \/ (r.pc = "sync" /\ r.ok = "publish")

Shape == TypeOK /\ \A a \in Actors : TaskOK(act[a])

\* With the setups' states su and the rewritten setups rw: the plan of a setup
\* may be published. A rewritten setup may have one from its earlier life.
IsBuilt(su, rw, s) == s \in rw \/ su[s] \in PastBuild

PublishesBuilt ==
  \A a \in Actors : Publishing(act[a]) => IsBuilt(setup, rewritten, On(a))
PlannedIsBuilt ==
  \A s \in Setups : plan[s] # "none" => IsBuilt(setup, rewritten, s)

-----------------------------------------------------------------------------
(* The graph. *)

(* From a state at which a plan may be published the graph leads only to      *)
(* such states.                                                               *)
LEMMA PastIsClosed ==
  \A p \in PastBuild : Transitions[p] \subseteq PastBuild
BY DEF PastBuild, PublicationWon, Transitions, Edges

(* Edges lead to states of the lifecycle, and a terminal state has none.      *)
LEMMA EdgesTyped ==
  /\ \A p \in States \cup {"missing"} : Transitions[p] \subseteq States
  /\ \A p \in Terminal : Transitions[p] = {}
BY DEF Transitions, Edges, States, PrePlan, PublicationWon, Terminal

LEMMA ChainTyped ==
  /\ \A p \in PrePlan \ {"confirmed"} : Successor[p] \in Chain
  /\ \A p \in Chain \ {"confirmed"} : Successor[p] \in Chain
  /\ Chain \subseteq States
BY DEF Successor, PrePlan, Chain, States

LEMMA PreflightTyped ==
  ASSUME NEW state
  PROVE  PreflightTerminal(state) \in {"cancelled", "invalidated", "none"}
BY DEF PreflightTerminal

-----------------------------------------------------------------------------
(* The records a task can be given. *)

LEMMA ReachOK ==
  ASSUME NEW a \in Actors, TaskOK(act[a]), act[a].pc # "idle", NEW l \in Labels,
         l \notin Inner
  PROVE  /\ TaskOK(Reach(a, l))
         /\ Reach(a, l).pc = l
<1>1. CASE l = "idle"
  BY <1>1 DEF TaskOK, Task, Reach, Idle, Labels, States, Inner
<1>2. CASE l # "idle"
  <2>1. act[a] \in Task /\ act[a].on \in Setups
    BY DEF TaskOK
  <2>2. Reach(a, l) = [pc |-> l, on |-> act[a].on, goal |-> "missing",
                       seen |-> "missing", ok |-> "idle", bad |-> "idle",
                       zone |-> act[a].zone, bound |-> act[a].bound]
    BY <1>2, <2>1 DEF Reach, Task
  <2>3. Reach(a, l) \in Task
    BY <2>1, <2>2 DEF Task, Labels
  <2> QED
    BY <1>2, <2>1, <2>2, <2>3 DEF TaskOK, Inner
<1> QED
  BY <1>1, <1>2

LEMMA CallingOK ==
  ASSUME NEW a \in Actors, TaskOK(act[a]), act[a].pc # "idle",
         NEW goal \in States,
         NEW ok \in Labels \cup {"advance"},
         NEW bad \in Labels \cup {"unbound"},
         {ok, bad} \cap Inner = {}, bad # "publish",
         ok = "advance" => goal \in Chain,
         ok = "publish" => goal = "plan_built"
  PROVE  /\ TaskOK(Calling(a, goal, ok, bad))
         /\ Calling(a, goal, ok, bad).pc = "load"
<1>1. act[a] \in Task /\ act[a].on \in Setups
  BY DEF TaskOK
<1>2. Calling(a, goal, ok, bad) \in Task
  BY <1>1 DEF Calling, Entering, On, Task, Labels
<1>3. /\ Calling(a, goal, ok, bad).pc = "load"
      /\ Calling(a, goal, ok, bad).on = act[a].on
      /\ Calling(a, goal, ok, bad).goal = goal
      /\ Calling(a, goal, ok, bad).ok = ok
      /\ Calling(a, goal, ok, bad).bad = bad
  BY DEF Calling, Entering, On
<1> QED
  BY <1>1, <1>2, <1>3 DEF TaskOK

LEMMA AdvanceOK ==
  ASSUME NEW a \in Actors, TaskOK(act[a]), act[a].pc # "idle",
         NEW state \in Chain \cup {"discovered"}
  PROVE  /\ TaskOK(AdvanceFrom(a, state))
         /\ ~Publishing(AdvanceFrom(a, state))
<1>1. CASE state = "confirmed"
  <2>1. "admit" \in Labels /\ "admit" \notin Inner
    BY DEF Labels, Inner
  <2> QED
    BY <1>1, <2>1, ReachOK DEF AdvanceFrom, Publishing
<1>2. CASE state # "confirmed"
  <2>1. Successor[state] \in Chain /\ Successor[state] \in States
    BY <1>2, ChainTyped DEF PrePlan
  <2>2. {"advance", "unbound"} \cap Inner = {}
    BY DEF Inner
  <2>3. /\ TaskOK(Calling(a, Successor[state], "advance", "unbound"))
        /\ Calling(a, Successor[state], "advance", "unbound").pc = "load"
    BY <2>1, <2>2, CallingOK
  <2> QED
    BY <1>2, <2>3 DEF AdvanceFrom, Publishing
<1> QED
  BY <1>1, <1>2

(* transition_setup returns a well formed task, and one that publishes next   *)
(* only to the label "publish".                                               *)
LEMMA ReturnOK ==
  ASSUME NEW a \in Actors, TaskOK(act[a]), act[a].pc # "idle",
         NEW l \in Labels \cup {"advance", "unbound"},
         l \notin Inner,
         l = "advance" => act[a].goal \in Chain
  PROVE  /\ TaskOK(Return(a, l))
         /\ Publishing(Return(a, l)) => l = "publish"
         /\ Publishing(Return(a, l)) => Return(a, l).on = act[a].on
<1>1. CASE l = "advance"
  BY <1>1, AdvanceOK DEF Return
<1>2. CASE l = "unbound"
  <2>1. "admit" \in Labels /\ "admit" \notin Inner
    BY DEF Labels, Inner
  <2>2. TaskOK(Reach(a, "admit")) /\ Reach(a, "admit").pc = "admit"
    BY <2>1, ReachOK
  <2>3. Return(a, l) = [Reach(a, "admit") EXCEPT !.bound = FALSE]
    BY <1>2 DEF Return, NotAdvanced
  <2>4. TaskOK(Return(a, l)) /\ Return(a, l).pc = "admit"
    BY <2>2, <2>3 DEF TaskOK, Task
  <2> QED
    BY <2>4 DEF Publishing
<1>3. CASE l \notin {"advance", "unbound"}
  <2>1. Return(a, l) = Reach(a, l)
    BY <1>3 DEF Return
  <2>2. TaskOK(Reach(a, l)) /\ Reach(a, l).pc = l
    BY <1>3, ReachOK
  <2>3. l = "publish" => Reach(a, l).on = act[a].on
    BY DEF Reach, TaskOK, Task
  <2> QED
    BY <2>1, <2>2, <2>3 DEF Publishing, Inner
<1> QED
  BY <1>1, <1>2, <1>3

(* Replacing one task's record leaves every task well formed.                 *)
LEMMA Update ==
  ASSUME Shape, NEW a \in Actors, NEW r, TaskOK(r), act' = [act EXCEPT ![a] = r]
  PROVE  /\ \A b \in Actors : TaskOK(act'[b])
         /\ act' \in [Actors -> Task]
         /\ \A b \in Actors : act'[b] = IF b = a THEN r ELSE act[b]
BY DEF Shape, TypeOK, TaskOK, Task

-----------------------------------------------------------------------------
(* The inductive invariant.                                                   *)
Inv == Shape /\ PublishesBuilt /\ PlannedIsBuilt

OthersTyped ==
  /\ indexed \subseteq Setups /\ due \subseteq Setups
  /\ thesis \in Setups \cup {Nobody}
  /\ plan \in [Setups -> {"none", "live", "ended"}]
  /\ lock \in [Setups -> Workers \cup {Nobody}]
  /\ rewritten \subseteq Setups
  /\ faults \in 0..MaxFaults

(* A step of one task keeps the invariant if the task's record stays well     *)
(* formed and no setup leaves PastBuild, unless it is rewritten, or gets a    *)
(* plan before it.                                                            *)
LEMMA Step ==
  ASSUME Inv, NEW a \in Actors, NEW r, TaskOK(r),
         act' = [act EXCEPT ![a] = r], OthersTyped',
         setup' \in [Setups -> States \cup {"missing"}],
         \A s \in Setups : IsBuilt(setup, rewritten, s)
                           => IsBuilt(setup', rewritten', s),
         \A s \in Setups : plan'[s] # "none" => IsBuilt(setup', rewritten', s),
         Publishing(r) => IsBuilt(setup', rewritten', r.on)
  PROVE  Inv'
<1>1. /\ \A b \in Actors : TaskOK(act'[b])
      /\ act' \in [Actors -> Task]
      /\ \A b \in Actors : act'[b] = IF b = a THEN r ELSE act[b]
  BY Update DEF Inv
<1>2. TypeOK'
  BY <1>1 DEF TypeOK, OthersTyped, Task
<1>3. PublishesBuilt'
  <2>1. SUFFICES ASSUME NEW b \in Actors, Publishing(act'[b])
                 PROVE  IsBuilt(setup', rewritten', act'[b].on)
    BY DEF PublishesBuilt, On
  <2>2. CASE b = a
    BY <1>1, <2>1, <2>2
  <2>3. CASE b # a
    <3>1. act'[b] = act[b]
      BY <1>1, <2>3
    <3>2. IsBuilt(setup, rewritten, act[b].on)
      BY <2>1, <3>1 DEF Inv, PublishesBuilt, On
    <3>3. act[b].on \in Setups
      BY <2>1, <3>1 DEF Inv, Shape, TaskOK, Publishing
    <3> QED
      BY <3>1, <3>2, <3>3
  <2> QED
    BY <2>2, <2>3
<1>4. PlannedIsBuilt'
  BY DEF PlannedIsBuilt
<1> QED
  BY <1>1, <1>2, <1>3, <1>4 DEF Inv, Shape

(* The common case: the step moves no setup and publishes no plan.            *)
LEMMA QuietStep ==
  ASSUME Inv, NEW a \in Actors, NEW r, TaskOK(r),
         act' = [act EXCEPT ![a] = r], OthersTyped',
         setup' = setup, plan' = plan, rewritten' = rewritten,
         Publishing(r) => IsBuilt(setup, rewritten, r.on)
  PROVE  Inv'
<1>1. setup' \in [Setups -> States \cup {"missing"}]
  BY DEF Inv, Shape, TypeOK
<1>2. \A s \in Setups : plan'[s] # "none" => IsBuilt(setup', rewritten', s)
  BY DEF Inv, PlannedIsBuilt
<1>3. \A s \in Setups : IsBuilt(setup, rewritten, s)
                       => IsBuilt(setup', rewritten', s)
  OBVIOUS
<1>4. Publishing(r) => IsBuilt(setup', rewritten', r.on)
  OBVIOUS
<1> QED
  BY <1>1, <1>2, <1>3, <1>4, Step

LEMMA Others == Inv => OthersTyped
BY DEF Inv, Shape, TypeOK, OthersTyped

-----------------------------------------------------------------------------
(* transition_setup. *)

LEMMA LoadInv ==
  ASSUME Inv, NEW a \in Actors, Load(a)
  PROVE  Inv'
<1> DEFINE r == act[a]  s == act[a].on  state == setup[s]
           n == Loaded(a, r, state)
<1>1. /\ r.pc = "load" /\ TaskOK(r) /\ s \in Setups /\ r \in Task
      /\ state \in States \cup {"missing"}
  BY DEF Load, At, Inv, Shape, TypeOK, TaskOK
<1>2. /\ act' = [act EXCEPT ![a] = n]
      /\ UNCHANGED <<setup, indexed, due, thesis, plan, lock, faults, rewritten>>
  BY DEF Load, On
<1>3. OthersTyped'
  BY <1>2, Others DEF OthersTyped
<1>4. /\ r.ok \in Labels \cup {"advance", "unbound"}
      /\ r.bad \in Labels \cup {"advance", "unbound"}
      /\ {r.ok, r.bad, "unindex"} \cap Inner = {}
      /\ r.ok = "advance" => r.goal \in Chain
      /\ r.bad \notin {"advance", "publish"} /\ "unindex" \in Labels
  BY <1>1 DEF TaskOK, Task, Labels, Inner
<1>5. CASE state = r.goal
  <2>1. n = Return(a, Unchanged(a))
    BY <1>5 DEF Loaded
  <2>2. TaskOK(n) /\ (Publishing(n) => Unchanged(a) = "publish" /\ n.on = s)
    BY <1>1, <1>4, <2>1, ReturnOK DEF Unchanged
  <2>3. Publishing(n) => IsBuilt(setup, rewritten, n.on)
    BY <1>1, <1>5, <2>2 DEF Unchanged, TaskOK, IsBuilt, PastBuild, PublicationWon
  <2> QED
    BY <1>2, <1>3, <2>2, <2>3, QuietStep
<1>6. CASE state # r.goal /\ r.goal \notin Transitions[state]
  <2>1. n = Return(a, r.bad)
    BY <1>6 DEF Loaded
  <2>2. TaskOK(n) /\ (Publishing(n) => r.bad = "publish")
    BY <1>1, <1>4, <2>1, ReturnOK
  <2>3. ~Publishing(n)
    BY <1>4, <2>2
  <2> QED
    BY <1>2, <1>3, <2>2, <2>3, QuietStep
<1>7. CASE state # r.goal /\ r.goal \in Transitions[state]
  <2>1. n = [r EXCEPT !.pc = "cas", !.seen = state]
    BY <1>7 DEF Loaded
  <2>2. n.pc = "cas" /\ n.seen = state /\ n.goal = r.goal
    BY <1>1, <2>1 DEF Task
  <2>3. state \in States
    BY <1>1, <1>7 DEF Transitions, Edges
  <2>4. TaskOK(n)
    <3>1. n \in Task
      BY <1>1, <2>1, <2>3 DEF Task, Labels
    <3>2. n.on = r.on /\ n.ok = r.ok /\ n.bad = r.bad
      BY <1>1, <2>1 DEF Task
    <3>3. r.goal \in States
      BY <1>1 DEF TaskOK
    <3> HIDE DEF n, r, state
    <3> QED
      BY <1>1, <1>7, <2>2, <2>3, <3>1, <3>2, <3>3 DEF TaskOK
  <2>5. ~Publishing(n)
    BY <2>2 DEF Publishing
  <2> QED
    BY <1>2, <1>3, <2>4, <2>5, QuietStep
<1> QED
  BY <1>5, <1>6, <1>7

(* The script: the record is at the goal, is moved along an edge, or refused. *)
LEMMA CompareAndSetInv ==
  ASSUME Inv, NEW a \in Actors, CompareAndSet(a)
  PROVE  Inv'
<1> DEFINE r == act[a]  s == act[a].on
<1>1. /\ r.pc = "cas" /\ TaskOK(r) /\ s \in Setups /\ r \in Task
      /\ UNCHANGED <<indexed, due, thesis, plan, lock, faults, rewritten>>
  BY DEF CompareAndSet, At, Inv, Shape, TaskOK
<1>2. OthersTyped'
  BY <1>1, Others DEF OthersTyped
<1>3. /\ r.ok \in Labels \cup {"advance", "unbound"}
      /\ r.bad \in Labels \cup {"advance", "unbound"}
      /\ {r.ok, r.bad, "unindex"} \cap Inner = {}
      /\ r.ok = "advance" => r.goal \in Chain
      /\ r.bad \notin {"advance", "publish"} /\ "unindex" \in Labels
  BY <1>1 DEF TaskOK, Task, Labels, Inner
<1>4. CASE setup[s] = r.goal /\ Goto(a, Unchanged(a)) /\ UNCHANGED setup
  <2> DEFINE n == Return(a, Unchanged(a))
  <2>1. TaskOK(n) /\ (Publishing(n) => Unchanged(a) = "publish" /\ n.on = s)
    BY <1>1, <1>3, ReturnOK DEF Unchanged
  <2>2. Publishing(n) => IsBuilt(setup, rewritten, n.on)
    BY <1>1, <1>4, <2>1 DEF Unchanged, TaskOK, IsBuilt, PastBuild, PublicationWon
  <2> QED
    BY <1>1, <1>2, <1>4, <2>1, <2>2, QuietStep DEF Goto
<1>5. CASE /\ MayWrite(a)
           /\ setup' = [setup EXCEPT ![s] = r.goal]
           /\ act' = [act EXCEPT ![a].pc = "sync"]
  <2> DEFINE n == [r EXCEPT !.pc = "sync"]
  <2>1. act' = [act EXCEPT ![a] = n]
    BY <1>5
  <2>2. n.on = s /\ n.ok = r.ok /\ n.goal = r.goal
    BY <1>1 DEF Task
  <2>3. TaskOK(n)
    BY <1>1 DEF TaskOK, Task, Labels
  <2>4. /\ setup[s] = r.seen /\ r.goal \in Transitions[r.seen]
        /\ r.goal \in States
        /\ r.ok = "publish" => r.goal = "plan_built"
    BY <1>1, <1>5 DEF MayWrite, On, TaskOK
  <2>5. setup' \in [Setups -> States \cup {"missing"}]
    BY <1>5, <2>4 DEF Inv, Shape, TypeOK
  <2>6. ASSUME NEW t \in Setups, IsBuilt(setup, rewritten, t)
        PROVE  IsBuilt(setup', rewritten', t)
    <3>0. CASE t \in rewritten
      BY <1>1, <3>0 DEF IsBuilt
    <3>1. CASE t = s /\ t \notin rewritten
      <4>1. r.goal \in PastBuild
        BY <2>4, <2>6, <3>1, PastIsClosed DEF IsBuilt
      <4> QED
        BY <1>1, <1>5, <3>1, <4>1 DEF Inv, Shape, TypeOK, IsBuilt
    <3>2. CASE t # s
      BY <1>1, <1>5, <2>6, <3>2 DEF Inv, Shape, TypeOK, IsBuilt
    <3> QED
      BY <3>0, <3>1, <3>2
  <2>7. ASSUME NEW t \in Setups, plan'[t] # "none"
        PROVE  IsBuilt(setup', rewritten', t)
    BY <1>1, <2>6, <2>7 DEF Inv, PlannedIsBuilt
  <2>8. Publishing(n) => IsBuilt(setup', rewritten', n.on)
    <3>1. Publishing(n) => r.goal = "plan_built"
      BY <2>2, <2>4 DEF Publishing
    <3>2. setup'[s] = r.goal
      BY <1>1, <1>5 DEF Inv, Shape, TypeOK
    <3> QED
      BY <2>2, <3>1, <3>2 DEF IsBuilt, PastBuild, PublicationWon
  <2> HIDE DEF n, r
  <2> QED
    BY <1>2, <2>1, <2>3, <2>5, <2>6, <2>7, <2>8, Step
<1>6. CASE Goto(a, r.bad) /\ UNCHANGED setup
  <2> DEFINE n == Return(a, r.bad)
  <2>1. TaskOK(n) /\ ~Publishing(n)
    BY <1>1, <1>3, ReturnOK
  <2> QED
    BY <1>1, <1>2, <1>6, <2>1, QuietStep DEF Goto
<1> QED
  BY <1>4, <1>5, <1>6 DEF CompareAndSet, On

LEMMA SyncIndexInv ==
  ASSUME Inv, NEW a \in Actors, SyncIndex(a)
  PROVE  Inv'
<1> DEFINE r == act[a]  n == Return(a, act[a].ok)
<1>1. /\ r.pc = "sync" /\ TaskOK(r) /\ r.on \in Setups /\ r \in Task
      /\ act' = [act EXCEPT ![a] = n]
      /\ UNCHANGED <<setup, due, thesis, plan, lock, faults, rewritten>>
  BY DEF SyncIndex, At, Goto, Inv, Shape, TaskOK
<1>2. OthersTyped'
  BY <1>1, Others DEF OthersTyped, SyncIndex, On
<1>3. /\ r.ok \in Labels \cup {"advance", "unbound"}
      /\ r.ok \notin Inner
      /\ r.ok = "advance" => r.goal \in Chain
  BY <1>1 DEF TaskOK, Task
<1>4. TaskOK(n) /\ (Publishing(n) => r.ok = "publish" /\ n.on = r.on)
  BY <1>1, <1>3, ReturnOK
<1>5. Publishing(n) => IsBuilt(setup, rewritten, n.on)
  BY <1>1, <1>4 DEF Publishing, Inv, PublishesBuilt, On
<1> QED
  BY <1>1, <1>2, <1>4, <1>5, QuietStep

LEMMA TransitionInv ==
  ASSUME Inv, NEW a \in Actors, Transition(a)
  PROVE  Inv'
BY LoadInv, CompareAndSetInv, SyncIndexInv DEF Transition

-----------------------------------------------------------------------------
(* The tasks' other steps go on at a label or enter transition_setup.         *)

\* A step of task a that moves no setup and publishes nothing.
QuietFrame(a) ==
  /\ At(a, act[a].pc) /\ act[a].pc # "idle"
  /\ setup' = setup /\ plan' = plan /\ rewritten' = rewritten /\ OthersTyped'

LEMMA GotoInv ==
  ASSUME Inv, NEW a \in Actors, QuietFrame(a), NEW l \in Labels,
         l \notin Inner, l # "publish", Goto(a, l)
  PROVE  Inv'
<1> DEFINE n == Return(a, l)
<1>1. TaskOK(act[a]) /\ act[a].pc # "idle"
  BY DEF Inv, Shape, QuietFrame
<1>2. l # "advance"
  BY DEF Labels
<1>3. TaskOK(n) /\ ~Publishing(n)
  BY <1>1, <1>2, ReturnOK
<1> QED
  BY <1>3, QuietStep DEF Goto, QuietFrame

LEMMA CallInv ==
  ASSUME Inv, NEW a \in Actors, QuietFrame(a), NEW goal \in States,
         NEW ok \in Labels, NEW bad \in Labels,
         {ok, bad} \cap Inner = {}, bad # "publish",
         ok = "publish" => goal = "plan_built",
         Call(a, goal, ok, bad)
  PROVE  Inv'
<1> DEFINE n == Calling(a, goal, ok, bad)
<1>1. TaskOK(act[a]) /\ act[a].pc # "idle"
  BY DEF Inv, Shape, QuietFrame
<1>2. ok # "advance"
  BY DEF Labels
<1>3. TaskOK(n) /\ n.pc = "load"
  BY <1>1, <1>2, CallingOK
<1> QED
  BY <1>3, QuietStep DEF Call, QuietFrame, Publishing

(* The labels and states the handlers name.                                   *)
LEMMA Named ==
  /\ {"idle", "finalize", "unindex", "admit", "refuse", "lock", "resolve",
      "gates", "claim", "build", "final", "publish", "release", "delete",
      "unlock", "retire", "index_new"} \subseteq Labels \ Inner
  /\ {"plan_built", "plan_published", "cancelled", "invalidated", "expired"}
       \subseteq States
BY DEF Labels, Inner, States, PrePlan, PublicationWon, Terminal

(* Every gate that ends a setup ends it as invalidated or expired.            *)
LEMMA GatesEnd ==
  /\ \A v \in BeforeClaim \cup HoldingClaim :
       v # "wait" => EndedBy[v] \in {"invalidated", "expired"}
  /\ EndedBy.expire = "expired"
BY DEF EndedBy, BeforeClaim, SpotGate, ReactionWindow, SweepBody, Structure,
       Metadata, EntryZone, Retest, TargetRoom, HoldingClaim, Barriers,
       NewsGuard, Exposure, EntryPolicy, Builder

LEMMA EndNamed ==
  ASSUME NEW w PROVE End(w) \in {"retire", "idle"}
BY DEF End

LEMMA WorkersAct == Workers \subseteq Actors /\ {Sweeper, Scanner} \subseteq Actors
BY DEF Actors

LEMMA ReleaseTyped ==
  ASSUME Inv, NEW s \in Setups
  PROVE  Released(s) \in Setups \cup {Nobody}
BY DEF Released, Inv, Shape, TypeOK

LEMMA OneMoreFault ==
  ASSUME Inv, faults < MaxFaults
  PROVE  faults + 1 \in 0..MaxFaults
BY Bounds DEF Inv, Shape, TypeOK

(* Giving claims back, and the end of a handler.                              *)
LEMMA ReleaseInv ==
  ASSUME Inv, NEW w \in Workers,
         Release(w) \/ DeleteThesis(w) \/ Unlock(w) \/ Retire(w)
  PROVE  Inv'
<1>1. w \in Actors
  BY WorkersAct
<1>2. OthersTyped
  BY Others
<1>3. act[w].pc # "idle" => On(w) \in Setups
  BY <1>1 DEF Inv, Shape, TaskOK, On
<1>4. CASE Release(w)
  <2>1. QuietFrame(w)
    BY <1>2, <1>3, <1>4, ReleaseTyped DEF Release, At, QuietFrame, OthersTyped
  <2>2. Goto(w, "unlock") \/ Goto(w, "delete")
    BY <1>4 DEF Release
  <2> QED
    BY <1>1, <2>1, <2>2, GotoInv, Named
<1>5. CASE DeleteThesis(w)
  <2>1. QuietFrame(w)
    BY <1>2, <1>5 DEF DeleteThesis, At, QuietFrame, OthersTyped
  <2>2. Goto(w, "unlock") \/ Goto(w, "idle")
    BY <1>5 DEF DeleteThesis
  <2> QED
    BY <1>1, <2>1, <2>2, GotoInv, Named
<1>6. CASE Unlock(w)
  <2>1. QuietFrame(w)
    BY <1>2, <1>3, <1>6 DEF Unlock, At, QuietFrame, OthersTyped
  <2>2. Goto(w, End(w))
    BY <1>6 DEF Unlock
  <2> QED
    BY <1>1, <2>1, <2>2, GotoInv, Named, EndNamed
<1>7. CASE Retire(w)
  <2>1. QuietFrame(w)
    BY <1>2, <1>7 DEF Retire, At, QuietFrame, OthersTyped
  <2>2. Goto(w, "idle") \/ Call(w, "invalidated", "idle", "idle")
    BY <1>7 DEF Retire
  <2> QED
    BY <1>1, <2>1, <2>2, GotoInv, CallInv, Named
<1> QED
  BY <1>4, <1>5, <1>6, <1>7

(* Admission, the lock, and the head of the publisher.                        *)
LEMMA AdmissionInv ==
  ASSUME Inv, NEW w \in Workers,
         Admit(w) \/ Refuse(w) \/ TakeLock(w) \/ Resolve(w) \/ Gates(w)
  PROVE  Inv'
<1>1. w \in Actors
  BY WorkersAct
<1>2. OthersTyped
  BY Others
<1>3. act[w].pc # "idle" => On(w) \in Setups
  BY <1>1 DEF Inv, Shape, TaskOK, On
<1>4. CASE Admit(w)
  <2>1. QuietFrame(w)
    BY <1>2, <1>4 DEF Admit, At, QuietFrame, OthersTyped
  <2>2. PICK l \in {"refuse", "lock", End(w)} : Goto(w, l)
    BY <1>4 DEF Admit
  <2> QED
    BY <1>1, <2>1, <2>2, GotoInv, Named, EndNamed
<1>5. CASE Refuse(w)
  <2>1. QuietFrame(w)
    BY <1>2, <1>5 DEF Refuse, At, QuietFrame, OthersTyped
  <2>2. \/ Goto(w, End(w))
        \/ \E goal \in {"cancelled", "invalidated"} :
             Call(w, goal, End(w), End(w))
    BY <1>5, PreflightTyped DEF Refuse
  <2> QED
    BY <1>1, <2>1, <2>2, GotoInv, CallInv, Named, EndNamed
<1>6. CASE TakeLock(w)
  <2>1. QuietFrame(w)
    BY <1>2, <1>3, <1>6 DEF TakeLock, At, QuietFrame, OthersTyped
  <2>2. Goto(w, "resolve") \/ Goto(w, End(w))
    BY <1>6 DEF TakeLock
  <2> QED
    BY <1>1, <2>1, <2>2, GotoInv, Named, EndNamed
<1>7. CASE Resolve(w)
  <2>1. QuietFrame(w)
    BY <1>2, <1>7 DEF Resolve, At, QuietFrame, OthersTyped
  <2>2. \/ \E l \in {"unlock", "gates"} : Goto(w, l)
        \/ \E goal \in {"plan_published", "cancelled"} :
             Call(w, goal, "unlock", "unlock")
    BY <1>7 DEF Resolve
  <2> QED
    BY <1>1, <2>1, <2>2, GotoInv, CallInv, Named
<1>8. CASE Gates(w)
  <2>1. QuietFrame(w)
    BY <1>2, <1>8 DEF Gates, At, QuietFrame, OthersTyped
  <2>2. \/ \E l \in {"unlock", "claim"} : Goto(w, l)
        \/ \E goal \in {"invalidated", "expired"} :
             Call(w, goal, "unlock", "unlock")
    BY <1>8, GatesEnd DEF Gates
  <2> QED
    BY <1>1, <2>1, <2>2, GotoInv, CallInv, Named
<1> QED
  BY <1>4, <1>5, <1>6, <1>7, <1>8

(* The claim, the builder and the last look before the stream.                *)
LEMMA BuildInv ==
  ASSUME Inv, NEW w \in Workers,
         ClaimThesis(w) \/ Build(w) \/ BuildRaises(w) \/ FinalCheck(w)
  PROVE  Inv'
<1>1. w \in Actors
  BY WorkersAct
<1>2. OthersTyped
  BY Others
<1>3. act[w].pc # "idle" => On(w) \in Setups
  BY <1>1 DEF Inv, Shape, TaskOK, On
<1>4. CASE ClaimThesis(w)
  <2>1. QuietFrame(w)
    BY <1>2, <1>3, <1>4 DEF ClaimThesis, At, QuietFrame, OthersTyped
  <2>2. Goto(w, "build") \/ Call(w, "invalidated", "unlock", "unlock")
    BY <1>4 DEF ClaimThesis
  <2> QED
    BY <1>1, <2>1, <2>2, GotoInv, CallInv, Named
<1>5. CASE Build(w)
  <2>1. QuietFrame(w)
    BY <1>2, <1>3, <1>5, ReleaseTyped DEF Build, At, QuietFrame, OthersTyped
  <2>2. \/ \E l \in {"final", "release"} : Goto(w, l)
        \/ \E goal \in {"invalidated", "expired"} :
             Call(w, goal, "unlock", "unlock")
    BY <1>5, GatesEnd DEF Build
  <2> QED
    BY <1>1, <2>1, <2>2, GotoInv, CallInv, Named
<1>6. CASE BuildRaises(w)
  <2> DEFINE n == [Reach(w, "unlock") EXCEPT !.zone = FALSE]
  <2>1. QuietFrame(w) /\ act' = [act EXCEPT ![w] = n]
    BY <1>2, <1>6, OneMoreFault DEF BuildRaises, At, QuietFrame, OthersTyped
  <2>2. TaskOK(Reach(w, "unlock")) /\ Reach(w, "unlock").pc = "unlock"
    BY <1>1, <2>1, ReachOK, Named DEF Inv, Shape, QuietFrame
  <2>3. TaskOK(n) /\ n.pc = "unlock"
    BY <2>2 DEF TaskOK, Task
  <2> QED
    BY <1>1, <2>1, <2>3, QuietStep DEF QuietFrame, Publishing
<1>7. CASE FinalCheck(w)
  <2>1. QuietFrame(w)
    BY <1>2, <1>7 DEF FinalCheck, At, QuietFrame, OthersTyped
  <2>2. CASE \E l \in {"release", "unlock"} : Goto(w, l)
    BY <1>1, <2>1, <2>2, GotoInv, Named
  <2>3. CASE setup[On(w)] = "plan_built" /\ Goto(w, "publish")
    <3> DEFINE n == Return(w, "publish")
    <3>1. TaskOK(act[w]) /\ act[w].pc # "idle"
      BY <1>1, <2>1 DEF Inv, Shape, QuietFrame
    <3>2. TaskOK(n) /\ (Publishing(n) => n.on = On(w))
      BY <1>1, <3>1, ReturnOK, Named DEF On
    <3>3. Publishing(n) => IsBuilt(setup, rewritten, n.on)
      BY <2>3, <3>2 DEF IsBuilt, PastBuild, PublicationWon
    <3> QED
      BY <1>1, <2>1, <2>3, <3>2, <3>3, QuietStep DEF Goto, QuietFrame
  <2>4. CASE Call(w, "plan_built", "publish", "release")
    BY <1>1, <2>1, <2>4, CallInv, Named
  <2> QED
    BY <1>7, <2>2, <2>3, <2>4 DEF FinalCheck
<1> QED
  BY <1>4, <1>5, <1>6, <1>7

(* The publish call, with or without its answer: the plan appears for a setup *)
(* that is in PastBuild.                                                      *)
LEMMA PublishInv ==
  ASSUME Inv, NEW w \in Workers, Publish(w) \/ PublishFails(w)
  PROVE  Inv'
<1> DEFINE s == On(w)
<1>1. /\ w \in Actors /\ act[w].pc = "publish" /\ TaskOK(act[w])
      /\ s \in Setups /\ IsBuilt(setup, rewritten, s)
  BY WorkersAct DEF Publish, PublishFails, At, Inv, Shape, TaskOK,
                    PublishesBuilt, Publishing, On
<1>2. OthersTyped
  BY Others
<1>3. /\ plan' \in {plan, InStream(s)} /\ setup' = setup
      /\ rewritten' = rewritten /\ OthersTyped'
  <2>1. InStream(s) \in [Setups -> {"none", "live", "ended"}]
    BY <1>1, <1>2 DEF InStream, OthersTyped
  <2>2. /\ plan' \in {plan, InStream(s)} /\ setup' = setup
        /\ rewritten' = rewritten
    BY DEF Publish, PublishFails
  <2> QED
    BY <1>1, <1>2, <2>1, <2>2, ReleaseTyped, OneMoreFault
    DEF Publish, PublishFails, OthersTyped
<1>4. PICK n : /\ act' = [act EXCEPT ![w] = n] /\ TaskOK(n) /\ n.pc = "load"
  <2>1. CASE Publish(w)
    <3>1. Call(w, "plan_published", "unlock", "release")
      BY <2>1 DEF Publish
    <3> QED
      BY <1>1, <3>1, CallingOK, Named DEF Call
  <2>2. CASE PublishFails(w)
    <3>1. Call(w, "invalidated", "unlock", "unlock")
      BY <2>2 DEF PublishFails
    <3> QED
      BY <1>1, <3>1, CallingOK, Named DEF Call
  <2> QED
    BY <2>1, <2>2
<1>5. setup' \in [Setups -> States \cup {"missing"}]
  BY <1>3 DEF Inv, Shape, TypeOK
<1>6. \A t \in Setups : plan'[t] # "none" => IsBuilt(setup', rewritten', t)
  <2>1. \A t \in Setups \ {s} : InStream(s)[t] = plan[t]
    BY <1>2 DEF InStream, OthersTyped
  <2> QED
    BY <1>1, <1>3, <2>1 DEF Inv, PlannedIsBuilt
<1>7. ~Publishing(n)
  BY <1>4 DEF Publishing
<1>8. \A t \in Setups : IsBuilt(setup, rewritten, t)
                       => IsBuilt(setup', rewritten', t)
  BY <1>3
<1> QED
  BY <1>1, <1>3, <1>4, <1>5, <1>6, <1>7, <1>8, Step

-----------------------------------------------------------------------------
(* Beginnings. *)

LEMMA BeginOK ==
  ASSUME NEW s \in Setups, NEW l \in Labels, l \notin Inner \ {"save"},
         l # "publish", NEW z \in BOOLEAN
  PROVE  TaskOK(Begin(s, l, z)) /\ ~Publishing(Begin(s, l, z))
BY DEF Begin, TaskOK, Task, Publishing, Inner, Labels

LEMMA EnteringOK ==
  ASSUME NEW s \in Setups, NEW goal \in States,
         NEW ok \in Labels \cup {"advance"}, NEW bad \in Labels \cup {"unbound"},
         {ok, bad} \cap (Inner \cup {"publish"}) = {},
         ok = "advance" => goal \in Chain, NEW z \in BOOLEAN
  PROVE  LET n == Entering(s, goal, ok, bad, z, TRUE)
         IN /\ TaskOK(n) /\ ~Publishing(n)
            /\ n.goal = goal /\ n.bad = bad /\ n.pc = "load"
<1> DEFINE n == Entering(s, goal, ok, bad, z, TRUE)
<1>1. n \in Task
  BY DEF Entering, Task, Labels
<1>2. /\ n.pc = "load" /\ n.on = s /\ n.goal = goal /\ n.ok = ok /\ n.bad = bad
  BY DEF Entering
<1> HIDE DEF n
<1>3. TaskOK(n)
  BY <1>1, <1>2 DEF TaskOK
<1>4. ~Publishing(n)
  BY <1>2 DEF Publishing
<1> QED
  BY <1>2, <1>3, <1>4 DEF n

(* The sweeper's and the scanner's way in.                                    *)
LEMMA EnteringAlone ==
  ASSUME NEW s \in Setups, NEW goal \in {"expired", "invalidated"},
         NEW ok \in {"finalize", "idle"}
  PROVE  LET n == Entering(s, goal, ok, "idle", FALSE, TRUE)
         IN TaskOK(n) /\ n.goal = goal /\ n.bad = "idle" /\ n.pc = "load"
<1> DEFINE n == Entering(s, goal, ok, "idle", FALSE, TRUE)
<1>1. /\ n.pc = "load" /\ n.on = s /\ n.goal = goal /\ n.ok = ok
      /\ n.bad = "idle"
  BY DEF Entering
<1>2. n \in Task
  BY DEF Entering, Task, Labels, States, Terminal
<1> HIDE DEF n
<1>3. /\ ok \notin {"advance", "publish"} /\ {ok, "idle"} \cap Inner = {}
      /\ goal \in States
  BY DEF Inner, States, Terminal
<1>4. TaskOK(n)
  BY <1>1, <1>2, <1>3 DEF TaskOK
<1> QED
  BY <1>1, <1>4 DEF n

LEMMA ActivateInv ==
  ASSUME Inv, NEW w \in Workers, NEW s \in Setups, Activate(w, s)
  PROVE  Inv'
<1>1. /\ w \in Actors /\ OthersTyped'
      /\ setup' = setup /\ plan' = plan /\ rewritten' = rewritten
  BY WorkersAct, Others DEF Activate, OthersTyped
<1>2. ASSUME NEW l \in {"save", "admit"},
             act' = [act EXCEPT ![w] = Begin(s, l, TRUE)]
      PROVE  Inv'
  <2>1. l \in Labels /\ l \notin Inner \ {"save"} /\ l # "publish"
    BY DEF Labels, Inner
  <2>2. TaskOK(Begin(s, l, TRUE)) /\ ~Publishing(Begin(s, l, TRUE))
    BY <2>1, BeginOK
  <2> QED
    BY <1>1, <1>2, <2>2, QuietStep
<1>3. CASE /\ setup[s] \in PrePlan \ {"confirmed"}
           /\ act' = [act EXCEPT ![w] = Entering(s, Successor[setup[s]],
                                         "advance", "unbound", TRUE, TRUE)]
  <2> DEFINE n == Entering(s, Successor[setup[s]], "advance", "unbound", TRUE, TRUE)
  <2>1. Successor[setup[s]] \in Chain /\ Successor[setup[s]] \in States
    BY <1>3, ChainTyped
  <2>2. {"advance", "unbound"} \cap (Inner \cup {"publish"}) = {}
    BY DEF Inner
  <2>3. TaskOK(n) /\ ~Publishing(n)
    BY <2>1, <2>2, EnteringOK
  <2> QED
    BY <1>1, <1>3, <2>3, QuietStep
<1> QED
  BY <1>2, <1>3 DEF Activate

(* The save of a create: a setup that was missing begins, any other counts as *)
(* rewritten from now on.                                                     *)
LEMMA SaveNewInv ==
  ASSUME Inv, NEW w \in Workers, SaveNew(w)
  PROVE  Inv'
<1> DEFINE s == On(w)  n == Return(w, "index_new")
<1>1. /\ w \in Actors /\ TaskOK(act[w]) /\ act[w].pc = "save" /\ s \in Setups
  BY WorkersAct DEF SaveNew, At, Inv, Shape, TaskOK, On
<1>2. /\ setup' = [setup EXCEPT ![s] = "discovered"]
      /\ rewritten' = IF setup[s] = "missing" THEN rewritten
                                              ELSE rewritten \cup {s}
      /\ act' = [act EXCEPT ![w] = n] /\ plan' = plan
      /\ UNCHANGED <<indexed, due, thesis, lock, faults>>
  BY DEF SaveNew, Goto
<1>3. TaskOK(n) /\ ~Publishing(n)
  BY <1>1, ReturnOK, Named
<1>4. OthersTyped'
  BY <1>1, <1>2, Others DEF OthersTyped
<1>5. setup' \in [Setups -> States \cup {"missing"}]
  BY <1>2 DEF Inv, Shape, TypeOK, States, PrePlan
<1>6. ASSUME NEW t \in Setups, IsBuilt(setup, rewritten, t)
      PROVE  IsBuilt(setup', rewritten', t)
  <2>1. CASE t = s
    BY <1>2, <1>6, <2>1 DEF IsBuilt, PastBuild, PublicationWon
  <2>2. CASE t # s
    BY <1>2, <1>6, <2>2 DEF IsBuilt, Inv, Shape, TypeOK
  <2> QED
    BY <2>1, <2>2
<1>7. \A t \in Setups : plan'[t] # "none" => IsBuilt(setup', rewritten', t)
  BY <1>2, <1>6 DEF Inv, PlannedIsBuilt
<1> HIDE DEF n
<1> QED
  BY <1>1, <1>2, <1>3, <1>4, <1>5, <1>6, <1>7, Step

(* The other beginnings of a handler, and the index of a new record.          *)
LEMMA BeginInv ==
  ASSUME Inv, NEW w \in Workers,
         (\E s \in Setups : BarCloses(w, s)) \/ IndexNew(w)
  PROVE  Inv'
<1>1. w \in Actors /\ OthersTyped
  BY WorkersAct, Others
<1>2. ASSUME NEW s \in Setups, BarCloses(w, s) PROVE Inv'
  <2>1. TaskOK(Begin(s, "admit", FALSE)) /\ ~Publishing(Begin(s, "admit", FALSE))
    BY BeginOK, Named
  <2> QED
    BY <1>1, <1>2, <2>1, QuietStep DEF BarCloses, OthersTyped
<1>3. CASE IndexNew(w)
  <2> DEFINE n == AdvanceFrom(w, "discovered")
  <2>1. TaskOK(act[w]) /\ act[w].pc = "index_new"
    BY <1>1, <1>3 DEF IndexNew, At, Inv, Shape
  <2>2. TaskOK(n) /\ ~Publishing(n)
    BY <1>1, <2>1, AdvanceOK
  <2>3. OthersTyped'
    BY <1>1, <1>3, <2>1 DEF IndexNew, OthersTyped, On, TaskOK
  <2> QED
    BY <1>1, <1>3, <2>2, <2>3, QuietStep DEF IndexNew
<1> QED
  BY <1>2, <1>3

(* The sweeper: a due member of the index.                                    *)
LEMMA SweepDueInv ==
  ASSUME Inv, NEW s \in Setups, SweepDue(s)
  PROVE  Inv'
<1> DEFINE skip == Begin(s, "unindex", FALSE)
           expire == Entering(s, "expired", "finalize", "idle", FALSE, TRUE)
<1>1. /\ Sweeper \in Actors /\ OthersTyped'
      /\ setup' = setup /\ plan' = plan /\ rewritten' = rewritten
  BY WorkersAct, Others DEF SweepDue, OthersTyped
<1>2. /\ TaskOK(skip) /\ ~Publishing(skip)
      /\ TaskOK(expire) /\ ~Publishing(expire)
  BY BeginOK, EnteringAlone, Named DEF Publishing
<1>3. PICK n \in {skip, expire} : act' = [act EXCEPT ![Sweeper] = n]
  BY DEF SweepDue
<1> HIDE DEF skip, expire
<1> QED
  BY <1>1, <1>2, <1>3, QuietStep

LEMMA SweepInv ==
  ASSUME Inv,
         \/ Unindex(Sweeper) \/ Finalize(Sweeper) \/ FinalizeFails(Sweeper)
         \/ DeleteThesis(Sweeper)
  PROVE  Inv'
<1>1. Sweeper \in Actors /\ OthersTyped
  BY WorkersAct, Others
<1>2. act[Sweeper].pc # "idle" => On(Sweeper) \in Setups
  BY <1>1 DEF Inv, Shape, TaskOK, On
<1>3. QuietFrame(Sweeper)
  BY <1>1, <1>2, ReleaseTyped, OneMoreFault
  DEF Unindex, Finalize, FinalizeFails, DeleteThesis, At, QuietFrame, OthersTyped
<1>4. \E l \in {"idle", "delete", "unlock"} : Goto(Sweeper, l)
  BY DEF Unindex, Finalize, FinalizeFails, DeleteThesis
<1> QED
  BY <1>1, <1>3, <1>4, GotoInv, Named

(* The scanner finds the structure of a publishable setup broken.             *)
LEMMA StructureBreaksInv ==
  ASSUME Inv, NEW s \in Setups, StructureBreaks(s)
  PROVE  Inv'
<1> DEFINE n == Entering(s, "invalidated", "idle", "idle", FALSE, TRUE)
<1>1. /\ Scanner \in Actors /\ OthersTyped'
      /\ setup' = setup /\ plan' = plan /\ rewritten' = rewritten
  BY WorkersAct, Others DEF StructureBreaks, OthersTyped
<1>2. TaskOK(n) /\ ~Publishing(n)
  BY EnteringAlone DEF Publishing
<1>3. act' = [act EXCEPT ![Scanner] = n]
  BY DEF StructureBreaks
<1> HIDE DEF n
<1> QED
  BY <1>1, <1>2, <1>3, QuietStep

-----------------------------------------------------------------------------
(* The environment moves no task and no setup, and ends only live plans.      *)
LEMMA EnvironmentInv ==
  ASSUME Inv, NEW s \in Setups, FallsDue(s) \/ PlanEnds(s) \/ LockLapses(s)
  PROVE  Inv'
<1>1. setup' = setup /\ act' = act /\ rewritten' = rewritten
  BY DEF FallsDue, PlanEnds, LockLapses
<1>2. OthersTyped'
  BY Others, OneMoreFault DEF FallsDue, PlanEnds, LockLapses, OthersTyped
<1>3. TypeOK'
  BY <1>1, <1>2 DEF Inv, Shape, TypeOK, OthersTyped
<1>4. \A t \in Setups : plan'[t] # "none" => plan[t] # "none"
  BY DEF FallsDue, PlanEnds, LockLapses, Inv, Shape, TypeOK
<1>5. PlannedIsBuilt'
  BY <1>1, <1>4 DEF Inv, PlannedIsBuilt
<1> QED
  BY <1>1, <1>3, <1>5 DEF Inv, Shape, PublishesBuilt, On

LEMMA IdleOK == TaskOK(Idle) /\ ~Publishing(Idle)
BY DEF Idle, TaskOK, Task, Labels, Inner, Publishing

(* A restart forgets every task and keeps every record.                       *)
LEMMA RestartInv ==
  ASSUME Inv, Restart
  PROVE  Inv'
<1>1. /\ setup' = setup /\ plan' = plan /\ act' = [a \in Actors |-> Idle]
      /\ due' = due /\ lock' = lock /\ rewritten' = rewritten
  BY DEF Restart
<1>2. /\ thesis' \in Setups \cup {Nobody} /\ indexed' \subseteq Setups
      /\ faults' \in 0..MaxFaults
  BY OneMoreFault DEF Restart, Reindexed, Inv, Shape, TypeOK
<1>3. Idle \in Task
  BY IdleOK DEF TaskOK
<1>4. TypeOK'
  BY <1>1, <1>2, <1>3 DEF Inv, Shape, TypeOK, Task
<1>5. Shape' /\ PublishesBuilt'
  BY <1>1, <1>4, IdleOK DEF Shape, PublishesBuilt
<1> QED
  BY <1>1, <1>5 DEF Inv, PlannedIsBuilt

LEMMA InitInv == Init => Inv
<1> SUFFICES ASSUME Init PROVE Inv
  OBVIOUS
<1>1. Idle \in Task
  BY IdleOK DEF TaskOK
<1>2. TypeOK
  BY <1>1, Bounds DEF Init, TypeOK, Task
<1>3. Shape /\ PublishesBuilt
  BY <1>2, IdleOK DEF Init, Shape, PublishesBuilt
<1> QED
  BY <1>3 DEF Inv, PlannedIsBuilt, Init

LEMMA HandleInv ==
  ASSUME Inv, NEW w \in Workers, Handle(w)
  PROVE  Inv'
BY WorkersAct, TransitionInv, SaveNewInv, BeginInv, AdmissionInv, BuildInv,
   PublishInv, ReleaseInv DEF Handle

LEMMA NextInv ==
  ASSUME Inv, [Next]_vars
  PROVE  Inv'
<1>1. ASSUME NEW w \in Workers,
             Handle(w) \/ \E s \in Setups : Activate(w, s) \/ BarCloses(w, s)
      PROVE  Inv'
  BY <1>1, HandleInv, ActivateInv, BeginInv
<1>2. CASE Sweep \/ \E s \in Setups : SweepDue(s)
  BY <1>2, WorkersAct, TransitionInv, SweepInv, SweepDueInv DEF Sweep
<1>3. CASE Transition(Scanner) \/ \E s \in Setups : StructureBreaks(s)
  BY <1>3, WorkersAct, TransitionInv, StructureBreaksInv
<1>4. CASE \E s \in Setups : FallsDue(s) \/ PlanEnds(s) \/ LockLapses(s)
  BY <1>4, EnvironmentInv
<1>5. CASE Fault
  BY <1>5, BuildInv, PublishInv, SweepInv, RestartInv DEF Fault
<1>6. CASE UNCHANGED vars
  BY <1>6 DEF vars, Inv, Shape, TypeOK, PublishesBuilt, PlannedIsBuilt, On
<1> QED
  BY <1>1, <1>2, <1>3, <1>4, <1>5, <1>6 DEF Next

(* The inductive invariant holds of every behaviour.                          *)
THEOREM Invariance == Spec => []Inv
<1>1. Init => Inv
  BY InitInv
<1>2. Inv /\ [Next]_vars => Inv'
  BY NextInv
<1> QED
  BY <1>1, <1>2, PTL DEF Spec

(* Type correctness: every task of the event loop is at a label with a setup  *)
(* and a goal of the lifecycle graph, whatever the code around it decided.    *)
THEOREM SetupTypeCorrect == Spec => []TypeOK
<1>1. Inv => TypeOK
  BY DEF Inv, Shape
<1> QED
  BY <1>1, Invariance, PTL

(* A setup recorded as invalidated, and not written over by a create, never   *)
(* has a plan in the stream: an invalidation and a publication exclude each   *)
(* other through the graph (transition_setup), for any number of setups,      *)
(* handlers and faults.                                                       *)
THEOREM NoPlanBehindInvalidation == Spec => []InvalidatedHasNoPlan
<1>1. Inv => InvalidatedHasNoPlan
  BY DEF Inv, PlannedIsBuilt, IsBuilt, InvalidatedHasNoPlan, PastBuild,
         PublicationWon
<1> QED
  BY <1>1, Invariance, PTL

-----------------------------------------------------------------------------
(* A step that writes a closed setup is the save of a create: the comparison  *)
(* of every other writer leads along an edge of the graph.                    *)
LEMMA WritesFollowEdges ==
  ASSUME Inv, [Next]_vars, NEW s \in Setups,
         setup[s] \in Terminal, setup'[s] # setup[s]
  PROVE  /\ setup'[s] = "discovered"
         /\ \E w \in Workers : At(w, "save") /\ On(w) = s
<1>1. ASSUME NEW a \in Actors, CompareAndSet(a)
      PROVE  FALSE
  <2>1. /\ setup' = [setup EXCEPT ![On(a)] = act[a].goal]
        /\ setup[On(a)] = act[a].seen /\ act[a].pc = "cas"
    BY <1>1 DEF CompareAndSet, MayWrite, At
  <2>2. act[a].goal \in Transitions[setup[On(a)]]
    BY <2>1 DEF Inv, Shape, TaskOK
  <2>3. s # On(a)
    BY <2>2, EdgesTyped
  <2> QED
    BY <2>1, <2>3 DEF Inv, Shape, TypeOK
<1>2. ASSUME NEW w \in Workers, SaveNew(w)
      PROVE  On(w) = s /\ setup'[s] = "discovered" /\ At(w, "save")
  BY <1>2 DEF SaveNew, Inv, Shape, TypeOK
<1>3. setup' # setup
  OBVIOUS
<1>4. \/ \E a \in Actors : CompareAndSet(a)
      \/ \E w \in Workers : SaveNew(w)
  <2>1. ASSUME NEW w \in Workers, Handle(w)
        PROVE  CompareAndSet(w) \/ SaveNew(w)
    BY <1>3, <2>1
    DEF Handle, Transition, Load, SyncIndex, IndexNew, Admit, Refuse, TakeLock,
        Resolve, Gates, ClaimThesis, Build, FinalCheck, Publish, Release,
        DeleteThesis, Unlock, Retire
  <2>2. ASSUME Sweep \/ \E t \in Setups : SweepDue(t)
        PROVE  CompareAndSet(Sweeper)
    BY <1>3, <2>2
    DEF Sweep, SweepDue, Transition, Load, SyncIndex, Unindex, Finalize,
        DeleteThesis
  <2>3. ASSUME Transition(Scanner) \/ \E t \in Setups : StructureBreaks(t)
        PROVE  CompareAndSet(Scanner)
    BY <1>3, <2>3 DEF Transition, Load, SyncIndex, StructureBreaks
  <2>4. ~Fault /\ ~UNCHANGED vars
    BY <1>3 DEF Fault, BuildRaises, PublishFails, FinalizeFails, Restart, vars
  <2>5. ASSUME NEW t \in Setups
        PROVE  ~(FallsDue(t) \/ PlanEnds(t) \/ LockLapses(t))
    BY <1>3 DEF FallsDue, PlanEnds, LockLapses
  <2>6. ASSUME NEW w \in Workers, NEW t \in Setups
        PROVE  ~Activate(w, t) /\ ~BarCloses(w, t)
    BY <1>3 DEF Activate, BarCloses
  <2> QED
    BY <2>1, <2>2, <2>3, <2>4, <2>5, <2>6, WorkersAct DEF Next
<1> QED
  BY <1>1, <1>2, <1>4

(* What reopens a closed setup is the save of a create and nothing else: a    *)
(* task that loaded it while it was open is stopped by the comparison         *)
(* (_TRANSITION_LUA), for any number of setups, tasks and faults.             *)
THEOREM TerminalStays == Spec => OnlyCreateReopens
<1>1. Inv /\ [Next]_vars =>
        [\A s \in Setups : setup[s] \in Terminal /\ setup'[s] # setup[s] =>
           /\ setup'[s] = "discovered"
           /\ \E w \in Workers : At(w, "save") /\ On(w) = s]_vars
  BY WritesFollowEdges
<1> QED
  BY <1>1, Invariance, PTL DEF Spec, OnlyCreateReopens

-----------------------------------------------------------------------------
(* The expiry index.  A setup leaves it only once it is closed or published   *)
(* (Left), and a task that is about to drop it works on such a setup: the     *)
(* sweeper loads the record first, and its own transition ends it as expired. *)
(* Rewritten setups are excepted.                                             *)

Left == PublicationWon \cup Terminal
InCall(r) == r.pc \in {"load", "cas", "sync"}
Cleaning == {"unindex", "finalize"}
Indexing == {"index_new", "sync"}

IsLeft(su, rw, s) == s \in rw \/ su[s] \in Left

\* A task's record r, with the setups' states su and the rewritten setups rw.
Tidy(a, r, su, rw) ==
  /\ r.pc \notin {"idle", "save"} => su[r.on] # "missing"
  /\ r.pc \in Cleaning => IsLeft(su, rw, r.on)
  /\ r.pc = "sync" /\ r.goal \in Terminal => IsLeft(su, rw, r.on)
  /\ InCall(r) /\ (r.ok = "finalize" \/ a = Sweeper) => r.goal = "expired"
  /\ r.ok # "unindex" /\ r.bad \notin Cleaning

IndexInv ==
  /\ \A a \in Actors : Tidy(a, act[a], setup, rewritten)
  /\ \A s \in indexed : setup[s] # "missing"
  /\ ExpirableIsIndexed

(* A setup that left the sweeper's range never returns, and one that exists   *)
(* is never missing again.                                                    *)
LEMMA LeftIsClosed ==
  /\ \A p \in Left : Transitions[p] \subseteq Left
  /\ Terminal \subseteq Left /\ "expired" \in Terminal
  /\ Left \cap PrePlan = {} /\ "missing" \notin Left \cup PrePlan \cup States
  /\ Left \cup PrePlan = States
BY DEF Left, Transitions, Edges, States, PrePlan, PublicationWon, Terminal

OnwardOnly ==
  /\ rewritten \subseteq rewritten'
  /\ \A s \in Setups :
       /\ IsLeft(setup, rewritten, s) => IsLeft(setup', rewritten', s)
       /\ setup[s] # "missing" => setup'[s] # "missing"

\* What a step of task a, whose record becomes r, must leave of the index.
Covered(a, r) ==
  \A s \in Setups \ rewritten' : setup'[s] \in PrePlan =>
    \/ s \in indexed'
    \/ s = r.on /\ r.pc \in Indexing
    \/ /\ setup[s] \in PrePlan /\ (s \in indexed => s \in indexed')
       /\ ~(On(a) = s /\ act[a].pc \in Indexing)

LEMMA IndexStep ==
  ASSUME Inv, IndexInv, NEW a \in Actors, NEW r, TaskOK(r),
         act' = [act EXCEPT ![a] = r],
         Tidy(a, r, setup', rewritten'), OnwardOnly, Covered(a, r),
         \A s \in indexed' : s \in Setups /\ setup'[s] # "missing"
  PROVE  IndexInv'
<1>1. /\ \A b \in Actors : TaskOK(act'[b])
      /\ \A b \in Actors : act'[b] = IF b = a THEN r ELSE act[b]
  BY Update DEF Inv
<1>2. ASSUME NEW b \in Actors PROVE Tidy(b, act'[b], setup', rewritten')
  <2>1. CASE b = a
    BY <1>1, <2>1
  <2>2. CASE b # a
    <3>1. act'[b] = act[b] /\ Tidy(b, act[b], setup, rewritten) /\ TaskOK(act[b])
      BY <1>1, <2>2 DEF IndexInv, Inv, Shape
    <3>2. act[b].pc # "idle" => act[b].on \in Setups
      BY <3>1 DEF TaskOK
    <3>3. act[b].pc \in Cleaning \cup {"sync"} => act[b].pc # "idle"
      BY DEF Cleaning
    <3>4. act[b].pc \notin {"idle", "save"} => act[b].pc # "idle"
      OBVIOUS
    <3> QED
      BY <3>1, <3>2, <3>3, <3>4 DEF Tidy, OnwardOnly
  <2> QED
    BY <2>1, <2>2
<1>3. ASSUME NEW s \in Setups \ rewritten', setup'[s] \in PrePlan, s \notin indexed'
      PROVE  \E b \in Actors : act'[b].on = s /\ act'[b].pc \in Indexing
  <2>1. CASE s = r.on /\ r.pc \in Indexing
    BY <1>1, <2>1
  <2>2. CASE /\ setup[s] \in PrePlan /\ s \notin indexed
             /\ ~(On(a) = s /\ act[a].pc \in Indexing)
    <3>0. s \notin rewritten
      BY <1>3 DEF OnwardOnly
    <3>1. PICK b \in Actors : On(b) = s /\ act[b].pc \in Indexing
      BY <2>2, <3>0 DEF IndexInv, ExpirableIsIndexed, Indexing
    <3>2. b # a
      BY <2>2, <3>1
    <3> QED
      BY <1>1, <3>1, <3>2 DEF On
  <2> QED
    BY <1>3, <2>1, <2>2 DEF Covered
<1>4. ExpirableIsIndexed'
  BY <1>3 DEF ExpirableIsIndexed, On, Indexing
<1> QED
  BY <1>2, <1>4 DEF IndexInv

\* A step of a task that is not indexing leaves the records and the index.
Aside(a) ==
  /\ act[a].pc \notin Indexing
  /\ setup' = setup /\ indexed' = indexed /\ rewritten' = rewritten

LEMMA AsideStep ==
  ASSUME Inv, IndexInv, NEW a \in Actors, NEW r, TaskOK(r), Aside(a),
         act' = [act EXCEPT ![a] = r], Tidy(a, r, setup, rewritten)
  PROVE  IndexInv'
<1>1. OnwardOnly /\ Covered(a, r)
  BY DEF Aside, OnwardOnly, Covered
<1>2. \A s \in indexed' : s \in Setups /\ setup'[s] # "missing"
  BY DEF Aside, IndexInv, Inv, Shape, TypeOK
<1> QED
  BY <1>1, <1>2, IndexStep DEF Aside

LEMMA CallingTidy ==
  ASSUME NEW a \in Actors, a # Sweeper, act[a].pc \notin {"idle", "save"},
         Tidy(a, act[a], setup, rewritten), NEW goal, NEW ok, NEW bad,
         ok \notin Cleaning, bad \notin Cleaning
  PROVE  Tidy(a, Calling(a, goal, ok, bad), setup, rewritten)
<1> DEFINE n == Calling(a, goal, ok, bad)
<1>1. n.pc = "load" /\ n.on = act[a].on /\ n.ok = ok /\ n.bad = bad
  BY DEF Calling, Entering, On
<1> HIDE DEF n
<1>2. Tidy(a, n, setup, rewritten)
  BY <1>1 DEF Tidy, Cleaning, InCall
<1> QED
  BY <1>2 DEF n

LEMMA ReachTidy ==
  ASSUME NEW a \in Actors, TaskOK(act[a]), act[a].pc \notin {"idle", "save"},
         Tidy(a, act[a], setup, rewritten), NEW l \in Labels, l \notin Inner,
         l \in Cleaning => IsLeft(setup, rewritten, On(a))
  PROVE  Tidy(a, Reach(a, l), setup, rewritten)
<1>1. CASE l = "idle"
  BY <1>1 DEF Reach, Idle, Tidy, Cleaning, InCall
<1>2. CASE l # "idle"
  <2> DEFINE n == Reach(a, l)
  <2>1. n.pc = l /\ n.on = act[a].on /\ n.ok = "idle" /\ n.bad = "idle"
    BY <1>2 DEF Reach, TaskOK, Task
  <2> HIDE DEF n
  <2>2. Tidy(a, n, setup, rewritten)
    BY <2>1 DEF Tidy, Cleaning, InCall, Inner, On
  <2> QED
    BY <2>2 DEF n
<1> QED
  BY <1>1, <1>2

LEMMA AdvanceTidy ==
  ASSUME NEW a \in Actors, a # Sweeper, TaskOK(act[a]),
         act[a].pc \notin {"idle", "save"},
         Tidy(a, act[a], setup, rewritten), NEW state
  PROVE  Tidy(a, AdvanceFrom(a, state), setup, rewritten)
<1>1. Tidy(a, Reach(a, "admit"), setup, rewritten)
  BY ReachTidy, Named DEF Cleaning
<1>2. Tidy(a, Calling(a, Successor[state], "advance", "unbound"), setup, rewritten)
  BY CallingTidy DEF Cleaning
<1> QED
  BY <1>1, <1>2 DEF AdvanceFrom

LEMMA ReturnTidy ==
  ASSUME NEW a \in Actors, TaskOK(act[a]), act[a].pc \notin {"idle", "save"},
         Tidy(a, act[a], setup, rewritten), NEW l \in Labels \cup {"advance", "unbound"},
         l \notin Inner, l \in Cleaning => IsLeft(setup, rewritten, On(a)),
         l = "advance" => a # Sweeper
  PROVE  Tidy(a, Return(a, l), setup, rewritten)
<1>1. CASE l = "advance"
  BY <1>1, AdvanceTidy DEF Return
<1>2. CASE l = "unbound"
  <2> DEFINE m == Reach(a, "admit")  n == [m EXCEPT !.bound = FALSE]
  <2>1. Tidy(a, m, setup, rewritten) /\ TaskOK(m)
    BY ReachTidy, ReachOK, Named DEF Cleaning
  <2>2. /\ n.pc = m.pc /\ n.on = m.on /\ n.goal = m.goal
        /\ n.ok = m.ok /\ n.bad = m.bad
    BY <2>1 DEF TaskOK, Task
  <2>3. Return(a, l) = n
    BY <1>2 DEF Return, NotAdvanced
  <2> HIDE DEF m, n
  <2> QED
    BY <2>1, <2>2, <2>3 DEF Tidy, InCall
<1>3. CASE l \notin {"advance", "unbound"}
  BY <1>3, ReachTidy DEF Return
<1> QED
  BY <1>1, <1>2, <1>3

\* What a task of transition_setup knows of the labels it returns to.
LEMMA CallersTidy ==
  ASSUME NEW a \in Actors, TaskOK(act[a]), InCall(act[a]),
         Tidy(a, act[a], setup, rewritten)
  PROVE  /\ act[a].ok \in Labels \cup {"advance", "unbound"}
         /\ act[a].bad \in Labels \cup {"advance", "unbound"}
         /\ {act[a].ok, act[a].bad} \cap Inner = {}
         /\ act[a].bad \notin Cleaning \cup {"advance"}
         /\ act[a].ok \in Cleaning => act[a].goal = "expired"
         /\ act[a].ok = "advance" => a # Sweeper
         /\ act[a].pc \notin {"idle", "save"} /\ act[a].goal \in States
<1>1. act[a] \in Task /\ (act[a].ok = "advance" => act[a].goal \in Chain)
  BY DEF TaskOK, InCall
<1> QED
  BY <1>1 DEF TaskOK, Task, InCall, Tidy, Cleaning, Labels, Chain

\* "Unchanged" is answered at the goal, which for the sweeper is "expired".
LEMMA UnchangedTidy ==
  ASSUME NEW a \in Actors, TaskOK(act[a]), InCall(act[a]),
         Tidy(a, act[a], setup, rewritten), setup[On(a)] = act[a].goal
  PROVE  Tidy(a, Return(a, Unchanged(a)), setup, rewritten)
<1>1. CASE a = Sweeper
  <2>1. act[a].goal = "expired" /\ act[a].pc \notin {"idle", "save"}
    BY <1>1 DEF Tidy, InCall
  <2>2. "unindex" \in Labels /\ "unindex" \notin Inner
    BY Named
  <2> QED
    BY <1>1, <2>1, <2>2, ReturnTidy, LeftIsClosed DEF Unchanged, IsLeft
<1>2. CASE a # Sweeper
  BY <1>2, CallersTidy, ReturnTidy, LeftIsClosed DEF Unchanged, IsLeft
<1> QED
  BY <1>1, <1>2

LEMMA LoadIndex ==
  ASSUME Inv, IndexInv, NEW a \in Actors, Load(a)
  PROVE  IndexInv'
<1> DEFINE r == act[a]  s == act[a].on  state == setup[s]
           n == Loaded(a, r, state)
<1>1. /\ r.pc = "load" /\ TaskOK(r) /\ TaskOK(r) /\ InCall(r)
      /\ Tidy(a, r, setup, rewritten) /\ r \in Task /\ act' = [act EXCEPT ![a] = n]
  BY DEF Load, At, Inv, Shape, TaskOK, InCall, IndexInv, On
<1>2. Aside(a)
  BY <1>1 DEF Load, Aside, Indexing
<1>3. TaskOK(n)
  <2>1. Inv' /\ a \in DOMAIN act
    BY LoadInv DEF Inv, Shape, TypeOK
  <2> QED
    BY <1>1, <2>1 DEF Inv, Shape
<1>4. CASE state = r.goal
  BY <1>1, <1>2, <1>3, <1>4, UnchangedTidy, AsideStep DEF Loaded, On
<1>5. CASE state # r.goal /\ r.goal \notin Transitions[state]
  <2>1. Tidy(a, n, setup, rewritten)
    BY <1>1, <1>5, CallersTidy, ReturnTidy DEF Loaded
  <2> QED
    BY <1>1, <1>2, <1>3, <2>1, AsideStep
<1>6. CASE state # r.goal /\ r.goal \in Transitions[state]
  <2>1. n = [r EXCEPT !.pc = "cas", !.seen = state]
    BY <1>6 DEF Loaded
  <2>2. /\ n.pc = "cas" /\ n.on = r.on /\ n.goal = r.goal
        /\ n.ok = r.ok /\ n.bad = r.bad
    BY <1>1, <2>1 DEF Task
  <2> HIDE DEF n
  <2>3. Tidy(a, n, setup, rewritten)
    BY <1>1, <2>2 DEF Tidy, InCall, Cleaning
  <2> QED
    BY <1>1, <1>2, <1>3, <2>3, AsideStep
<1> QED
  BY <1>4, <1>5, <1>6

LEMMA CompareAndSetIndex ==
  ASSUME Inv, IndexInv, NEW a \in Actors, CompareAndSet(a)
  PROVE  IndexInv'
<1> DEFINE r == act[a]  s == act[a].on
<1>1. /\ r.pc = "cas" /\ TaskOK(r) /\ s \in Setups /\ r \in Task /\ InCall(r)
      /\ Tidy(a, r, setup, rewritten) /\ indexed' = indexed
      /\ rewritten' = rewritten
  BY DEF CompareAndSet, At, Inv, Shape, TaskOK, InCall, IndexInv
<1>2. /\ TaskOK(act'[a]) /\ a \in DOMAIN act
  BY CompareAndSetInv DEF Inv, Shape, TypeOK
<1>3. CASE setup[s] = r.goal /\ Goto(a, Unchanged(a)) /\ UNCHANGED setup
  <2>1. Tidy(a, Return(a, Unchanged(a)), setup, rewritten)
    BY <1>1, <1>3, UnchangedTidy DEF On
  <2> QED
    BY <1>1, <1>2, <1>3, <2>1, AsideStep DEF Goto, Aside, Indexing
<1>4. CASE Goto(a, r.bad) /\ UNCHANGED setup
  <2>1. Tidy(a, Return(a, r.bad), setup, rewritten)
    BY <1>1, CallersTidy, ReturnTidy
  <2> QED
    BY <1>1, <1>2, <1>4, <2>1, AsideStep DEF Goto, Aside, Indexing
<1>5. CASE /\ MayWrite(a)
           /\ setup' = [setup EXCEPT ![s] = r.goal]
           /\ act' = [act EXCEPT ![a].pc = "sync"]
  <2> DEFINE n == [r EXCEPT !.pc = "sync"]
  <2>1. /\ n.on = s /\ n.ok = r.ok /\ n.goal = r.goal /\ n.bad = r.bad
        /\ n.pc = "sync" /\ act' = [act EXCEPT ![a] = n]
    BY <1>1, <1>5 DEF Task
  <2>2. /\ setup[s] = r.seen /\ r.goal \in Transitions[r.seen]
        /\ r.goal \in States /\ r.seen \in States
    BY <1>1, <1>5 DEF MayWrite, On, TaskOK
  <2>3. /\ setup'[s] = r.goal
        /\ \A t \in Setups \ {s} : setup'[t] = setup[t]
    BY <1>1, <1>5 DEF Inv, Shape, TypeOK
  <2> HIDE DEF n
  <2>4. Tidy(a, n, setup', rewritten')
    BY <1>1, <2>1, <2>2, <2>3, LeftIsClosed DEF Tidy, InCall, Cleaning, IsLeft
  <2>5. OnwardOnly
    BY <1>1, <2>2, <2>3, LeftIsClosed DEF OnwardOnly, IsLeft
  <2>6. Covered(a, n)
    BY <1>1, <2>1, <2>3 DEF Covered, Indexing, On
  <2>7. \A t \in indexed' : t \in Setups /\ setup'[t] # "missing"
    BY <1>1, <2>5 DEF OnwardOnly, IndexInv, Inv, Shape, TypeOK
  <2>8. TaskOK(n)
    BY <1>2, <2>1
  <2> QED
    BY <2>1, <2>4, <2>5, <2>6, <2>7, <2>8, IndexStep
<1> QED
  BY <1>3, <1>4, <1>5 DEF CompareAndSet, On

LEMMA SyncIndexIndex ==
  ASSUME Inv, IndexInv, NEW a \in Actors, SyncIndex(a)
  PROVE  IndexInv'
<1> DEFINE r == act[a]  n == Return(a, act[a].ok)  s == act[a].on
<1>1. /\ r.pc = "sync" /\ TaskOK(r) /\ s \in Setups /\ r \in Task /\ InCall(r)
      /\ act' = [act EXCEPT ![a] = n] /\ Tidy(a, r, setup, rewritten)
      /\ setup' = setup /\ rewritten' = rewritten
  BY DEF SyncIndex, At, Goto, Inv, Shape, TaskOK, InCall, IndexInv
<1>2. TaskOK(n)
  <2>1. Inv' /\ a \in DOMAIN act
    BY SyncIndexInv DEF Inv, Shape, TypeOK
  <2> QED
    BY <1>1, <2>1 DEF Inv, Shape
<1>3. Tidy(a, n, setup, rewritten)
  <2>1. r.goal \in Terminal => IsLeft(setup, rewritten, s)
    BY <1>1 DEF Tidy
  <2> QED
    BY <1>1, <2>1, CallersTidy, ReturnTidy, LeftIsClosed DEF On
<1> HIDE DEF n
<1>4. /\ indexed' = IF r.goal \in Terminal THEN indexed \ {s}
                                           ELSE indexed \cup {s}
      /\ r.goal \in Terminal => s \in rewritten \/ setup[s] \notin PrePlan
  BY <1>1, LeftIsClosed DEF SyncIndex, On, Tidy, IsLeft
<1>5. Covered(a, n)
  BY <1>1, <1>4 DEF Covered, On
<1>6. OnwardOnly
  BY <1>1 DEF OnwardOnly, IsLeft
<1>7. \A t \in indexed' : t \in Setups /\ setup'[t] # "missing"
  BY <1>1, <1>4 DEF Tidy, IndexInv, Inv, Shape, TypeOK
<1> QED
  BY <1>1, <1>2, <1>3, <1>5, <1>6, <1>7, IndexStep

LEMMA TransitionIndex ==
  ASSUME Inv, IndexInv, NEW a \in Actors, Transition(a)
  PROVE  IndexInv'
BY LoadIndex, CompareAndSetIndex, SyncIndexIndex DEF Transition

-----------------------------------------------------------------------------
(* The handlers' other steps: each goes on at a label or enters               *)
(* transition_setup, and touches neither a record nor the index.              *)

GoesOn(w) == \E l \in Labels \ (Inner \cup Cleaning) : Goto(w, l)
Asks(w) ==
  \E goal \in States, ok \in Labels \ (Inner \cup Cleaning),
     bad \in Labels \ (Inner \cup Cleaning \cup {"publish"}) :
    (ok = "publish" => goal = "plan_built") /\ Call(w, goal, ok, bad)

LEMMA NamedAside ==
  {"idle", "admit", "refuse", "lock", "resolve", "gates", "claim", "build",
   "final", "publish", "release", "delete", "unlock", "retire"}
     \subseteq Labels \ (Inner \cup Cleaning)
BY DEF Labels, Inner, Cleaning

LEMMA MoveIndex ==
  ASSUME Inv, IndexInv, NEW w \in Workers, Aside(w),
         act[w].pc \notin {"idle", "save"},
         GoesOn(w) \/ Asks(w)
  PROVE  IndexInv'
<1>1. /\ w \in Actors /\ w # Sweeper /\ TaskOK(act[w])
      /\ Tidy(w, act[w], setup, rewritten)
  BY WorkersAct, ActorsDistinct DEF Inv, Shape, IndexInv
<1>2. ASSUME NEW l \in Labels \ (Inner \cup Cleaning), Goto(w, l)
      PROVE  IndexInv'
  <2>1. TaskOK(Return(w, l)) /\ Tidy(w, Return(w, l), setup, rewritten)
    BY <1>1, <1>2, ReturnOK, ReturnTidy DEF Labels
  <2> QED
    BY <1>1, <1>2, <2>1, AsideStep DEF Goto
<1>3. ASSUME NEW goal \in States, NEW ok \in Labels \ (Inner \cup Cleaning),
             NEW bad \in Labels \ (Inner \cup Cleaning \cup {"publish"}),
             ok = "publish" => goal = "plan_built", Call(w, goal, ok, bad)
      PROVE  IndexInv'
  <2> DEFINE n == Calling(w, goal, ok, bad)
  <2>1. TaskOK(n)
    <3>1. {ok, bad} \cap Inner = {} /\ bad # "publish" /\ ok # "advance"
      BY <1>3 DEF Labels
    <3> QED
      BY <1>1, <1>3, <3>1, CallingOK
  <2>2. Tidy(w, n, setup, rewritten)
    BY <1>1, CallingTidy
  <2> QED
    BY <1>1, <1>3, <2>1, <2>2, AsideStep DEF Call
<1> QED
  BY <1>2, <1>3 DEF GoesOn, Asks

LEMMA ClosingIndex ==
  ASSUME Inv, IndexInv, NEW w \in Workers,
         \/ Release(w) \/ DeleteThesis(w) \/ Unlock(w) \/ Retire(w)
         \/ Admit(w) \/ Refuse(w) \/ TakeLock(w)
  PROVE  IndexInv'
<1>1. Aside(w) /\ act[w].pc \notin {"idle", "save"}
  BY DEF Aside, Indexing, At, Release, DeleteThesis, Unlock, Retire, Admit,
         Refuse, TakeLock
<1>2. CASE Release(w) \/ DeleteThesis(w) \/ Unlock(w) \/ Admit(w) \/ TakeLock(w)
  <2>1. \E l \in {"unlock", "delete", "idle", "retire", "refuse", "lock",
                  "resolve"} : Goto(w, l)
    BY <1>2, EndNamed DEF Release, DeleteThesis, Unlock, Admit, TakeLock
  <2>2. GoesOn(w)
    BY <2>1, NamedAside DEF GoesOn
  <2> QED
    BY <1>1, <2>2, MoveIndex
<1>3. CASE Retire(w) \/ Refuse(w)
  <2>1. \/ \E l \in {"idle", "retire"} : Goto(w, l)
        \/ \E goal \in {"cancelled", "invalidated"}, l \in {"idle", "retire"} :
             Call(w, goal, l, l)
    BY <1>3, EndNamed, PreflightTyped DEF Retire, Refuse
  <2>2. GoesOn(w) \/ Asks(w)
    BY <2>1, NamedAside, Named DEF GoesOn, Asks
  <2> QED
    BY <1>1, <2>2, MoveIndex
<1> QED
  BY <1>2, <1>3

LEMMA PublisherIndex ==
  ASSUME Inv, IndexInv, NEW w \in Workers,
         \/ Resolve(w) \/ Gates(w) \/ ClaimThesis(w) \/ Build(w)
         \/ FinalCheck(w) \/ Publish(w) \/ PublishFails(w)
  PROVE  IndexInv'
<1>1. Aside(w) /\ act[w].pc \notin {"idle", "save"}
  BY DEF Aside, Indexing, At, Resolve, Gates, ClaimThesis, Build, FinalCheck,
         Publish, PublishFails
<1>2. \/ \E l \in {"unlock", "gates", "claim", "build", "final", "release",
                   "publish"} : Goto(w, l)
      \/ \E goal \in {"plan_published", "cancelled", "invalidated", "expired"},
            l \in {"unlock", "release"} : Call(w, goal, "unlock", l)
      \/ Call(w, "plan_built", "publish", "release")
  <2>1. CASE Resolve(w) \/ ClaimThesis(w)
    BY <2>1 DEF Resolve, ClaimThesis
  <2>2. CASE Gates(w)
    BY <2>2, GatesEnd DEF Gates
  <2>3. CASE Build(w)
    BY <2>3, GatesEnd DEF Build
  <2>4. CASE FinalCheck(w) \/ Publish(w) \/ PublishFails(w)
    BY <2>4 DEF FinalCheck, Publish, PublishFails
  <2> QED
    BY <2>1, <2>2, <2>3, <2>4
<1>3. GoesOn(w) \/ Asks(w)
  BY <1>2, NamedAside, Named DEF GoesOn, Asks
<1> QED
  BY <1>1, <1>3, MoveIndex

LEMMA BuildRaisesIndex ==
  ASSUME Inv, IndexInv, NEW w \in Workers, BuildRaises(w)
  PROVE  IndexInv'
<1> DEFINE m == Reach(w, "unlock")  n == [m EXCEPT !.zone = FALSE]
<1>1. /\ w \in Actors /\ TaskOK(act[w]) /\ act[w].pc = "build"
      /\ Tidy(w, act[w], setup, rewritten) /\ act' = [act EXCEPT ![w] = n]
      /\ Aside(w)
  BY WorkersAct DEF BuildRaises, At, Inv, Shape, IndexInv, Aside, Indexing
<1>2. TaskOK(m) /\ Tidy(w, m, setup, rewritten)
  BY <1>1, ReachOK, ReachTidy, Named, NamedAside
<1>3. /\ n.pc = m.pc /\ n.on = m.on /\ n.goal = m.goal /\ n.seen = m.seen
      /\ n.ok = m.ok /\ n.bad = m.bad /\ n \in Task
  BY <1>2 DEF TaskOK, Task
<1> HIDE DEF m, n
<1>4. TaskOK(n) /\ Tidy(w, n, setup, rewritten)
  BY <1>2, <1>3 DEF TaskOK, Tidy, InCall
<1> QED
  BY <1>1, <1>4, AsideStep

-----------------------------------------------------------------------------
(* Beginnings: a create that found no record is about to save one, the others *)
(* load a record that exists.                                                 *)

LEMMA ActivateIndex ==
  ASSUME Inv, IndexInv, NEW w \in Workers, NEW s \in Setups, Activate(w, s)
  PROVE  IndexInv'
<1>1. /\ w \in Actors /\ w # Sweeper /\ w \in DOMAIN act
      /\ TaskOK(act'[w]) /\ Aside(w)
  BY WorkersAct, ActorsDistinct, ActivateInv
  DEF Activate, At, Aside, Indexing, Inv, Shape, TypeOK
<1>2. ASSUME NEW n, act' = [act EXCEPT ![w] = n],
             n.pc # "save" => setup[n.on] # "missing",
             n.pc \in {"load", "admit", "save"},
             n.ok \notin Cleaning, n.bad \notin Cleaning
      PROVE  IndexInv'
  <2>1. TaskOK(n)
    BY <1>1, <1>2
  <2>2. Tidy(w, n, setup, rewritten)
    BY <1>1, <1>2 DEF Tidy, Cleaning, InCall
  <2> QED
    BY <1>1, <1>2, <2>1, <2>2, AsideStep
<1>3. CASE /\ setup[s] \in PrePlan \ {"confirmed"}
           /\ act' = [act EXCEPT ![w] = Entering(s, Successor[setup[s]],
                                         "advance", "unbound", TRUE, TRUE)]
  <2> DEFINE n == Entering(s, Successor[setup[s]], "advance", "unbound", TRUE, TRUE)
  <2>1. /\ n.pc = "load" /\ n.on = s /\ n.ok = "advance" /\ n.bad = "unbound"
        /\ setup[s] # "missing"
    BY <1>3 DEF Entering, PrePlan
  <2> HIDE DEF n
  <2>2. act' = [act EXCEPT ![w] = n]
    BY <1>3 DEF n
  <2> QED
    BY <1>2, <2>1, <2>2 DEF Cleaning
<1>4. CASE /\ setup[s] # "missing"
           /\ act' = [act EXCEPT ![w] = Begin(s, "admit", TRUE)]
  BY <1>2, <1>4 DEF Begin, Cleaning
<1>5. CASE act' = [act EXCEPT ![w] = Begin(s, "save", TRUE)]
  BY <1>2, <1>5 DEF Begin, Cleaning
<1> QED
  BY <1>3, <1>4, <1>5 DEF Activate, PrePlan

(* A record that a create writes is followed by its index member.             *)
LEMMA SaveNewIndex ==
  ASSUME Inv, IndexInv, NEW w \in Workers, SaveNew(w)
  PROVE  IndexInv'
<1> DEFINE s == On(w)  n == Return(w, "index_new")
<1>1. /\ w \in Actors /\ w # Sweeper /\ TaskOK(act[w]) /\ act[w].pc = "save"
      /\ s \in Setups
  BY WorkersAct, ActorsDistinct DEF SaveNew, At, Inv, Shape, TaskOK, On
<1>2. /\ setup' = [setup EXCEPT ![s] = "discovered"]
      /\ rewritten' = IF setup[s] = "missing" THEN rewritten
                                              ELSE rewritten \cup {s}
      /\ act' = [act EXCEPT ![w] = n] /\ indexed' = indexed
  BY DEF SaveNew, Goto
<1>3. TaskOK(n)
  BY <1>1, ReturnOK, Named
<1>4. n.pc = "index_new" /\ n.on = s /\ n.ok = "idle" /\ n.bad = "idle"
  BY <1>1 DEF Return, Reach, TaskOK, Task, On
<1> HIDE DEF n
<1>5. setup'[s] = "discovered" /\ \A t \in Setups \ {s} : setup'[t] = setup[t]
  BY <1>1, <1>2 DEF Inv, Shape, TypeOK
<1>6. Tidy(w, n, setup', rewritten')
  BY <1>1, <1>4, <1>5 DEF Tidy, Cleaning, InCall
<1>7. OnwardOnly
  <2>1. rewritten \subseteq rewritten'
    BY <1>2
  <2>2. IsLeft(setup, rewritten, s) => s \in rewritten'
    BY <1>2, LeftIsClosed DEF IsLeft
  <2> QED
    BY <1>5, <2>1, <2>2 DEF OnwardOnly, IsLeft
<1>8. Covered(w, n)
  BY <1>1, <1>2, <1>4, <1>5 DEF Covered, Indexing
<1>9. \A t \in indexed' : t \in Setups /\ setup'[t] # "missing"
  BY <1>2, <1>7 DEF OnwardOnly, IndexInv, Inv, Shape, TypeOK
<1> QED
  BY <1>1, <1>2, <1>3, <1>6, <1>7, <1>8, <1>9, IndexStep

LEMMA BeginIndex ==
  ASSUME Inv, IndexInv, NEW w \in Workers,
         (\E s \in Setups : BarCloses(w, s)) \/ IndexNew(w)
  PROVE  IndexInv'
<1>1. /\ w \in Actors /\ w # Sweeper /\ w \in DOMAIN act /\ TaskOK(act[w])
      /\ Inv' /\ TaskOK(act'[w]) /\ Tidy(w, act[w], setup, rewritten)
  BY WorkersAct, ActorsDistinct, BeginInv DEF Inv, Shape, TypeOK, IndexInv
<1>2. ASSUME NEW s \in Setups, BarCloses(w, s) PROVE IndexInv'
  <2> DEFINE n == Begin(s, "admit", FALSE)
  <2>1. act' = [act EXCEPT ![w] = n] /\ Aside(w) /\ TaskOK(n)
    BY <1>1, <1>2 DEF BarCloses, At, Aside, Indexing
  <2>2. Tidy(w, n, setup, rewritten)
    BY <1>2 DEF BarCloses, Begin, Tidy, Cleaning, InCall
  <2> QED
    BY <1>1, <2>1, <2>2, AsideStep
<1>3. CASE IndexNew(w)
  <2> DEFINE n == AdvanceFrom(w, "discovered")  s == act[w].on
  <2>1. /\ act[w].pc = "index_new" /\ s \in Setups /\ setup' = setup
        /\ act' = [act EXCEPT ![w] = n] /\ indexed' = indexed \cup {s}
        /\ setup[s] # "missing" /\ rewritten' = rewritten
    BY <1>1, <1>3 DEF IndexNew, At, On, TaskOK, Tidy
  <2>2. TaskOK(n) /\ Tidy(w, n, setup, rewritten)
    BY <1>1, <2>1, AdvanceTidy
  <2> HIDE DEF n
  <2>3. OnwardOnly /\ Covered(w, n)
    BY <2>1 DEF OnwardOnly, Covered, On, IsLeft
  <2>4. \A t \in indexed' : t \in Setups /\ setup'[t] # "missing"
    BY <2>1 DEF IndexInv, Inv, Shape, TypeOK
  <2> QED
    BY <1>1, <2>1, <2>2, <2>3, <2>4, IndexStep
<1> QED
  BY <1>2, <1>3

(* The sweeper loads a member's record and drops the member at once if the    *)
(* setup is past its reach.                                                   *)
LEMMA SweepDueIndex ==
  ASSUME Inv, IndexInv, NEW s \in Setups, SweepDue(s)
  PROVE  IndexInv'
<1> DEFINE skip == Begin(s, "unindex", FALSE)
           expire == Entering(s, "expired", "finalize", "idle", FALSE, TRUE)
<1>0. setup[s] \in States
  <2>1. s \in indexed
    BY DEF SweepDue
  <2> QED
    BY <2>1 DEF Inv, Shape, TypeOK, IndexInv
<1>1. /\ Sweeper \in Actors /\ Sweeper \in DOMAIN act
      /\ Inv' /\ TaskOK(act'[Sweeper]) /\ Aside(Sweeper)
  BY WorkersAct, SweepDueInv
  DEF Inv, Shape, TypeOK, SweepDue, At, Aside, Indexing
<1>2. CASE ~Expirable(setup[s])
  <2>1. act' = [act EXCEPT ![Sweeper] = skip] /\ TaskOK(skip)
    BY <1>1, <1>2 DEF SweepDue
  <2>2. setup[s] \in Left
    BY <1>0, <1>2, LeftIsClosed DEF Expirable
  <2>3. skip.pc = "unindex" /\ skip.on = s /\ skip.ok = "idle" /\ skip.bad = "idle"
    BY DEF Begin
  <2> HIDE DEF skip
  <2>4. Tidy(Sweeper, skip, setup, rewritten)
    BY <2>2, <2>3, LeftIsClosed DEF Tidy, InCall, Cleaning, IsLeft
  <2> QED
    BY <1>1, <2>1, <2>4, AsideStep
<1>3. CASE Expirable(setup[s])
  <2>1. act' = [act EXCEPT ![Sweeper] = expire] /\ TaskOK(expire)
    BY <1>1, <1>3 DEF SweepDue
  <2>2. /\ expire.pc = "load" /\ expire.on = s /\ expire.goal = "expired"
        /\ expire.ok = "finalize" /\ expire.bad = "idle"
    BY DEF Entering
  <2> HIDE DEF expire
  <2>3. Tidy(Sweeper, expire, setup, rewritten)
    BY <1>0, <2>2, LeftIsClosed DEF Tidy, InCall, Cleaning
  <2> QED
    BY <1>1, <2>1, <2>3, AsideStep
<1> QED
  BY <1>2, <1>3

(* What the sweeper drops from the index is closed or published.              *)
LEMMA SweepIndex ==
  ASSUME Inv, IndexInv,
         \/ Unindex(Sweeper) \/ Finalize(Sweeper) \/ FinalizeFails(Sweeper)
         \/ DeleteThesis(Sweeper)
  PROVE  IndexInv'
<1> DEFINE s == act[Sweeper].on
<1>1. /\ Sweeper \in Actors /\ TaskOK(act[Sweeper]) /\ act[Sweeper].pc # "idle"
      /\ Tidy(Sweeper, act[Sweeper], setup, rewritten) /\ act[Sweeper].pc \notin Indexing
      /\ setup' = setup /\ rewritten' = rewritten /\ s \in Setups
      /\ act[Sweeper].pc # "save"
  BY WorkersAct DEF Inv, Shape, TaskOK, IndexInv, Unindex, Finalize,
                    FinalizeFails, DeleteThesis, At, Indexing
<1>2. PICK l \in {"idle", "delete"} : Goto(Sweeper, l)
  BY DEF Unindex, Finalize, FinalizeFails, DeleteThesis
<1> DEFINE n == Return(Sweeper, l)
<1>3. TaskOK(n) /\ Tidy(Sweeper, n, setup, rewritten) /\ act' = [act EXCEPT ![Sweeper] = n]
  BY <1>1, <1>2, NamedAside, ReturnOK, ReturnTidy DEF Goto
<1> HIDE DEF n
<1>4. \/ indexed' = indexed
      \/ /\ indexed' = indexed \ {s}
         /\ s \in rewritten \/ setup[s] \notin PrePlan
  BY <1>1, LeftIsClosed DEF Unindex, Finalize, FinalizeFails, DeleteThesis, At,
                            On, Tidy, Cleaning, IsLeft
<1>5. OnwardOnly /\ Covered(Sweeper, n)
  BY <1>1, <1>4 DEF OnwardOnly, Covered
<1>6. \A t \in indexed' : t \in Setups /\ setup'[t] # "missing"
  BY <1>1, <1>4 DEF IndexInv, Inv, Shape, TypeOK
<1> QED
  BY <1>1, <1>3, <1>5, <1>6, IndexStep

LEMMA StructureBreaksIndex ==
  ASSUME Inv, IndexInv, NEW s \in Setups, StructureBreaks(s)
  PROVE  IndexInv'
<1> DEFINE n == Entering(s, "invalidated", "idle", "idle", FALSE, TRUE)
<1>1. /\ Scanner \in Actors /\ Scanner \in DOMAIN act /\ Scanner # Sweeper
      /\ TaskOK(act'[Scanner]) /\ Aside(Scanner) /\ setup[s] # "missing"
      /\ act' = [act EXCEPT ![Scanner] = n]
  BY WorkersAct, ActorsDistinct, StructureBreaksInv
  DEF Inv, Shape, TypeOK, StructureBreaks, At, Aside, Indexing, Publishable
<1>2. TaskOK(n)
  BY <1>1
<1>3. /\ n.pc = "load" /\ n.on = s /\ n.ok = "idle" /\ n.bad = "idle"
  BY DEF Entering
<1> HIDE DEF n
<1>4. Tidy(Scanner, n, setup, rewritten)
  BY <1>1, <1>3 DEF Tidy, Cleaning, InCall
<1> QED
  BY <1>1, <1>2, <1>4, AsideStep

(* The environment moves neither a record nor the index; a restart indexes    *)
(* what can expire again.                                                     *)
LEMMA EnvironmentIndex ==
  ASSUME Inv, IndexInv,
         \/ \E s \in Setups : FallsDue(s) \/ PlanEnds(s) \/ LockLapses(s)
         \/ UNCHANGED vars
  PROVE  IndexInv'
<1>1. UNCHANGED <<setup, indexed, act, rewritten>>
  BY DEF FallsDue, PlanEnds, LockLapses, vars
<1> QED
  BY <1>1 DEF IndexInv, ExpirableIsIndexed, Tidy, InCall, On

LEMMA RestartIndex ==
  ASSUME Inv, IndexInv, Restart
  PROVE  IndexInv'
<1>1. PICK repaired \in SUBSET {s \in Setups : setup[s] \in Terminal} :
        indexed' = (indexed \ repaired) \cup Reindexed
  BY DEF Restart
<1>2. setup' = setup /\ act' = [a \in Actors |-> Idle] /\ rewritten' = rewritten
  BY DEF Restart
<1>3. \A a \in Actors : Tidy(a, act'[a], setup', rewritten')
  BY <1>2 DEF Tidy, Idle, InCall, Cleaning
<1>4. \A s \in indexed' : setup'[s] # "missing"
  BY <1>1, <1>2, LeftIsClosed DEF Reindexed, IndexInv
<1>5. ExpirableIsIndexed'
  BY <1>1, <1>2 DEF Reindexed, ExpirableIsIndexed
<1> QED
  BY <1>3, <1>4, <1>5 DEF IndexInv

LEMMA InitIndex == Init => IndexInv
BY LeftIsClosed
DEF Init, IndexInv, ExpirableIsIndexed, Tidy, Idle, InCall, Cleaning

LEMMA NextIndex ==
  ASSUME Inv, IndexInv, [Next]_vars
  PROVE  IndexInv'
<1>1. ASSUME NEW w \in Workers, Handle(w)
      PROVE  IndexInv'
  BY <1>1, WorkersAct, TransitionIndex, SaveNewIndex, BeginIndex, ClosingIndex,
     PublisherIndex DEF Handle
<1>2. ASSUME NEW w \in Workers, NEW s \in Setups,
             Activate(w, s) \/ BarCloses(w, s)
      PROVE  IndexInv'
  BY <1>2, ActivateIndex, BeginIndex
<1>3. CASE Sweep \/ \E s \in Setups : SweepDue(s)
  BY <1>3, WorkersAct, TransitionIndex, SweepIndex, SweepDueIndex DEF Sweep
<1>4. CASE Transition(Scanner) \/ \E s \in Setups : StructureBreaks(s)
  BY <1>4, WorkersAct, TransitionIndex, StructureBreaksIndex
<1>5. CASE \/ \E s \in Setups : FallsDue(s) \/ PlanEnds(s) \/ LockLapses(s)
           \/ UNCHANGED vars
  BY <1>5, EnvironmentIndex
<1>6. CASE Fault
  BY <1>6, BuildRaisesIndex, PublisherIndex, SweepIndex, RestartIndex DEF Fault
<1> QED
  BY <1>1, <1>2, <1>3, <1>4, <1>5, <1>6 DEF Next

(* A setup the sweeper may expire, unless a create wrote over it, is in the   *)
(* index the sweeper reads, or the task that wrote it last is about to index  *)
(* it: no interleaving of handlers, sweeper and scanner hides it from its     *)
(* expiry, whatever crashes or fails in between (_sync_expiry_index,          *)
(* run_setup_expiry_sweeper, the start-up pass).                              *)
THEOREM ExpiryNeverBlind == Spec => []ExpirableIsIndexed
<1>1. Init => Inv /\ IndexInv
  BY InitInv, InitIndex
<1>2. Inv /\ IndexInv /\ [Next]_vars => Inv' /\ IndexInv'
  BY NextInv, NextIndex
<1>3. IndexInv => ExpirableIsIndexed
  BY DEF IndexInv
<1> QED
  BY <1>1, <1>2, <1>3, PTL DEF Spec
=============================================================================
