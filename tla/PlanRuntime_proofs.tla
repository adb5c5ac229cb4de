-------------------------- MODULE PlanRuntime_proofs --------------------------
(* Proofs about PlanRuntime for any number of plans and legs, any order types *)
(* and any number of faults.                                                  *)
EXTENDS PlanRuntime, TLAPS

-----------------------------------------------------------------------------
(* The lifecycle. Every write but none goes through the one operator that     *)
(* compares priorities.                                                       *)

Told == lifecycle \in [Plans -> Lifecycles]

LEMMA PersistForward ==
  ASSUME Told, NEW p, NEW s \in Lifecycles, PersistPlanExecutionState(p, s)
  PROVE  /\ Told'
         /\ \A q \in Plans : Priority(lifecycle[q]) =< Priority(lifecycle'[q])
<1> DEFINE t == IF Priority(lifecycle[p]) > Priority(s) THEN lifecycle[p] ELSE s
<1>1. lifecycle' = [lifecycle EXCEPT ![p] = t]
  BY DEF PersistPlanExecutionState
<1>2. \A u \in Lifecycles : Priority(u) \in Nat
  BY DEF Priority, Lifecycles
<1>3. ASSUME p \in Plans
      PROVE  t \in Lifecycles /\ Priority(lifecycle[p]) =< Priority(t)
  BY <1>2, <1>3 DEF Told
<1> HIDE DEF t
<1>4. Told'
  BY <1>1, <1>3 DEF Told
<1>5. ASSUME NEW q \in Plans
      PROVE  Priority(lifecycle[q]) =< Priority(lifecycle'[q])
  <2>1. CASE q = p
    <3>1. lifecycle'[q] = t
      BY <1>1, <2>1, <1>5 DEF Told
    <3> QED
      BY <3>1, <2>1, <1>3
  <2>2. CASE q # p
    <3>1. lifecycle'[q] = lifecycle[q] /\ lifecycle[q] \in Lifecycles
      BY <1>1, <2>2 DEF Told
    <3> QED
      BY <3>1, <1>2
  <2> QED
    BY <2>1, <2>2
<1> QED
  BY <1>4, <1>5

LEMMA LifecycleStep ==
  ASSUME Told, [Next]_vars
  PROVE  /\ Told'
         /\ \A q \in Plans : Priority(lifecycle[q]) =< Priority(lifecycle'[q])
<1>1. \A u \in Lifecycles : Priority(u) \in Nat
  BY DEF Priority, Lifecycles
<1>2. ASSUME lifecycle' = lifecycle
      PROVE  /\ Told'
             /\ \A q \in Plans : Priority(lifecycle[q]) =< Priority(lifecycle'[q])
  BY <1>1, <1>2 DEF Told
<1>3. {"rejected", "received", "expired", "filled", "submitted"} \subseteq Lifecycles
  BY DEF Lifecycles
<1>4. CASE Admit
  BY <1>2, <1>3, <1>4, PersistForward DEF Admit
<1>5. CASE Announce \/ TellEnd \/ TellProgress
  BY <1>3, <1>5, PersistForward DEF Announce, TellEnd, TellProgress
<1>6. CASE Restore \/ Poll \/ EntriesRead \/ Claim \/ Receive \/ SetCursor \/ Forget
  BY <1>2, <1>6 DEF Restore, Poll, EntriesRead, Claim, Receive, SetCursor, Forget, redis
<1>7. CASE Refused \/ AmendStop \/ Record \/ Submissions \/ PollEnds
  BY <1>2, <1>7 DEF Refused, AmendStop, Record, Submissions, PollEnds, redis
<1>8. ASSUME NEW p \in Plans, Evaluate(p) \/ Reconcile(p)
      PROVE  lifecycle' = lifecycle
  BY <1>8 DEF Evaluate, Reconcile, redis
<1>9. ASSUME NEW type, Send(type)
      PROVE  lifecycle' = lifecycle
  BY <1>9 DEF Send, redis
<1>10. CASE Step
  BY <1>2, <1>4, <1>5, <1>6, <1>7, <1>8, <1>9, <1>10 DEF Step
<1>11. ASSUME NEW p, NEW l, AdoptPosition(p, l) \/ Broker(p, l)
       PROVE  lifecycle' = lifecycle
  BY <1>11 DEF AdoptPosition, Broker, Trigger, FillLands, OwnerCancels, Becomes, redis
<1>12. CASE Fails \/ Crash \/ TenSeconds \/ UNCHANGED vars
  BY <1>2, <1>12 DEF Fails, Crash, Interrupted, TenSeconds, vars, redis
<1>13. ASSUME NEW p \in Plans, GraceLost(p) \/ Lapse(p)
       PROVE  lifecycle' = lifecycle
  BY <1>13 DEF GraceLost, Lapse, redis
<1> QED
  BY <1>2, <1>10, <1>11, <1>12, <1>13 DEF Next

(* The lifecycle other services read never goes back                          *)
(* (PersistPlanExecutionStateAsync).                                          *)
THEOREM LifecycleNeverBack == Spec => LifecycleForward
<1>1. Init => Told
  BY DEF Init, Told, Lifecycles
<1>2. Told /\ [Next]_vars => Told'
  BY LifecycleStep
<1>3. Told /\ [Next]_vars =>
        [\A p \in Plans : Priority(lifecycle[p]) =< Priority(lifecycle'[p])]_vars
  BY LifecycleStep
<1> QED
  BY <1>1, <1>2, <1>3, PTL DEF Spec, LifecycleForward

-----------------------------------------------------------------------------
(* The recovery copy. A plan has one for as long as the memory or the saved   *)
(* state holds anything of it, and while a step of the poll works on it: it   *)
(* is written before the plan is received and erased after the saved state.   *)

TaskFields == {"pc", "back", "plan", "todo", "state"}

Shape ==
  /\ DOMAIN mem = Plans /\ DOMAIN saved = Plans
  /\ DOMAIN task = TaskFields

Kept == \A p \in Plans :
  p \in recovery \/ (mem[p] = NoState(p) /\ saved[p] = NoState(p))

Working == {"receive", "announce", "expire", "reject", "send", "amend", "record", "told", "forget"}

TaskKept ==
  /\ task.back \notin Working
  /\ task.todo \subseteq recovery
  /\ task.pc \in Working => task.plan \in recovery

CopyInv == Shape /\ Kept /\ TaskKept

LEMMA IdleTask ==
  /\ DOMAIN Idle = TaskFields
  /\ Idle.pc = "idle" /\ Idle.back = "idle" /\ Idle.todo = {}
BY DEF Idle, TaskFields

LEMMA NothingKnown ==
  ASSUME NEW p
  PROVE  /\ NoState(p).stage = "None"
         /\ ~IsPendingEntryStage(NoState(p))
         /\ ~NeedsSubmittedReconcile(NoState(p))
         /\ Waited(NoState(p)) = NoState(p)
BY DEF NoState, IsPendingEntryStage, NeedsSubmittedReconcile, Some, Waiting, Waited

\* Steps that only move the task on, without a plan that has no copy.
LEMMA TaskMoves ==
  ASSUME CopyInv, UNCHANGED <<saved, mem>>, recovery \subseteq recovery',
         DOMAIN task' = TaskFields, task'.back \notin Working,
         task'.todo \subseteq recovery',
         task'.pc \in Working => task'.plan \in recovery'
  PROVE  CopyInv'
BY DEF CopyInv, Shape, Kept, TaskKept

\* Steps that write or erase what is known of one plan.
LEMMA OtherPlansKept ==
  ASSUME CopyInv, NEW p,
         \A q \in Plans \ {p} : /\ mem'[q] = mem[q] /\ saved'[q] = saved[q]
                                /\ q \in recovery => q \in recovery',
         p \in recovery' \/ (mem'[p] = NoState(p) /\ saved'[p] = NoState(p))
  PROVE  Kept'
BY DEF CopyInv, Kept

LEMMA EvaluationKept ==
  ASSUME Kept
  PROVE  /\ DOMAIN Evaluation = TaskFields
         /\ Evaluation.pc = "evaluate" /\ Evaluation.back = "evaluate"
         /\ Evaluation.todo \subseteq recovery
<1>1. \A q \in Plans : IsPendingEntryStage(mem[q]) => q \in recovery
  BY NothingKnown DEF Kept
<1> QED
  BY <1>1 DEF Evaluation, Idle, TaskFields

LEMMA NextPlanFields ==
  ASSUME DOMAIN task = TaskFields, NextPlan
  PROVE  /\ DOMAIN task' = TaskFields
         /\ task'.pc = task.back /\ task'.back = task.back
         /\ task'.plan = 0 /\ task'.todo = task.todo \ {task.plan}
BY DEF NextPlan, TaskFields

LEMMA GotoFields ==
  ASSUME DOMAIN task = TaskFields, NEW pc, Goto(pc)
  PROVE  /\ DOMAIN task' = TaskFields
         /\ task'.pc = pc /\ task'.back = task.back /\ task'.state = task.state
         /\ task'.todo = task.todo /\ task'.plan = task.plan
BY DEF Goto, TaskFields

LEMMA NextPlanKept ==
  ASSUME CopyInv, NextPlan
  PROVE  /\ DOMAIN task' = TaskFields
         /\ task'.pc = task.back /\ task'.back = task.back
         /\ task'.todo = task.todo \ {task.plan}
BY NextPlanFields DEF CopyInv, Shape

LEMMA GotoKept ==
  ASSUME CopyInv, NEW pc, Goto(pc)
  PROVE  /\ DOMAIN task' = TaskFields
         /\ task'.pc = pc /\ task'.back = task.back
         /\ task'.todo = task.todo /\ task'.plan = task.plan
BY GotoFields DEF CopyInv, Shape

LEMMA IntakeKept ==
  ASSUME CopyInv, Poll \/ EntriesRead \/ Claim \/ Admit \/ Receive \/ Announce \/ SetCursor
  PROVE  CopyInv'
<1>1. CASE Poll
  BY <1>1, GotoKept, TaskMoves DEF Poll, CopyInv, TaskKept, Working, redis
<1>2. CASE EntriesRead
  <2>1. Kept
    BY DEF CopyInv
  <2> QED
    BY <1>2, <2>1, EvaluationKept, TaskMoves DEF EntriesRead, Working, redis
<1>3. CASE Claim
  <2>1. /\ DOMAIN task' = TaskFields
        /\ task'.pc \in {"admit", "cursor"} /\ task'.back = task.back
        /\ task'.todo = task.todo
    BY <1>3 DEF Claim, Redelivered, CopyInv, Shape, TaskFields
  <2> QED
    BY <1>3, <2>1, TaskMoves DEF Claim, CopyInv, TaskKept, Working
<1>4. CASE Admit
  <2>1. CASE Goto("cursor") /\ UNCHANGED recovery
    BY <1>4, <2>1, GotoKept, TaskMoves DEF Admit, CopyInv, TaskKept, Working
  <2>2. CASE Goto("receive") /\ recovery' = recovery \cup {task.plan}
    BY <1>4, <2>2, GotoKept, TaskMoves DEF Admit, CopyInv, TaskKept, Working
  <2> QED
    BY <1>4, <2>1, <2>2 DEF Admit
<1>5. CASE Receive
  <2>1. task.plan \in recovery
    BY <1>5 DEF Receive, At, CopyInv, TaskKept, Working
  <2>2. Goto("announce") /\ UNCHANGED recovery
    BY <1>5 DEF Receive
  <2>3. /\ mem' = [mem EXCEPT ![task.plan] = Received(task.plan)]
        /\ saved' = [saved EXCEPT ![task.plan] = Received(task.plan)]
    BY <1>5 DEF Receive, Save
  <2>4. DOMAIN mem' = Plans /\ DOMAIN saved' = Plans
    BY <2>3 DEF CopyInv, Shape
  <2>5. \A q \in Plans \ {task.plan} : mem'[q] = mem[q] /\ saved'[q] = saved[q]
    BY <2>3 DEF CopyInv, Shape
  <2>6. Kept'
    BY <2>1, <2>2, <2>5, OtherPlansKept
  <2> QED
    BY <2>1, <2>2, <2>4, <2>6, GotoKept DEF CopyInv, Shape, TaskKept
<1>6. CASE Announce
  BY <1>6, GotoKept, TaskMoves DEF Announce, CopyInv, TaskKept, Working
<1>7. CASE SetCursor
  <2>1. /\ DOMAIN task' = TaskFields
        /\ task'.pc = "read" /\ task'.back = task.back
        /\ task'.todo = task.todo
    BY <1>7 DEF SetCursor, CopyInv, Shape, TaskFields
  <2> QED
    BY <1>7, <2>1, TaskMoves DEF SetCursor, CopyInv, TaskKept, Working
<1> QED
  BY <1>1, <1>2, <1>3, <1>4, <1>5, <1>6, <1>7

LEMMA EntryKept ==
  ASSUME CopyInv,
         \/ \E p \in Plans : Evaluate(p)
         \/ TellEnd \/ Forget \/ Refused \/ AmendStop \/ Record \/ TellProgress
         \/ \E type \in {"market", "limit"} : Send(type)
  PROVE  CopyInv'
<1>1. ASSUME NEW p \in Plans, Evaluate(p)
      PROVE  CopyInv'
  <2>1. p \in recovery
    BY <1>1 DEF Evaluate, CopyInv, TaskKept
  <2>2. /\ DOMAIN task' = TaskFields
        /\ task'.back = task.back /\ task'.todo \subseteq task.todo
        /\ task'.pc = "evaluate" \/ task'.plan = p
    BY <1>1 DEF Evaluate, At, CopyInv, Shape, TaskFields
  <2> QED
    BY <1>1, <2>1, <2>2, TaskMoves DEF Evaluate, CopyInv, TaskKept, Working, redis
<1>2. CASE TellEnd
  <2>1. task.plan \in recovery
    BY <1>2 DEF TellEnd, At, CopyInv, TaskKept, Working
  <2> QED
    BY <1>2, <2>1, GotoKept, TaskMoves DEF TellEnd, CopyInv, TaskKept
<1>3. CASE Forget
  <2>1. NextPlan /\ recovery' = recovery \ {task.plan}
    BY <1>3 DEF Forget, Erase
  <2>2. /\ mem' = [mem EXCEPT ![task.plan] = NoState(task.plan)]
        /\ saved' = [saved EXCEPT ![task.plan] = NoState(task.plan)]
    BY <1>3 DEF Forget, Erase
  <2>3. DOMAIN mem' = Plans /\ DOMAIN saved' = Plans
    BY <2>2 DEF CopyInv, Shape
  <2>4. \A q \in Plans \ {task.plan} : mem'[q] = mem[q] /\ saved'[q] = saved[q]
    BY <2>2 DEF CopyInv, Shape
  <2>5. task.plan \in Plans => /\ mem'[task.plan] = NoState(task.plan)
                              /\ saved'[task.plan] = NoState(task.plan)
    BY <2>2 DEF CopyInv, Shape
  <2>6. Kept'
    BY <2>1, <2>4, <2>5 DEF CopyInv, Kept
  <2> QED
    BY <2>1, <2>3, <2>6, NextPlanKept DEF CopyInv, Shape, TaskKept
<1>4. CASE Refused
  BY <1>4, IdleTask, TaskMoves DEF Refused, Working, redis
<1>5. CASE AmendStop
  <2>1. task.plan \in recovery
    BY <1>5 DEF AmendStop, At, CopyInv, TaskKept, Working
  <2> QED
    BY <1>5, <2>1, GotoKept, TaskMoves DEF AmendStop, CopyInv, TaskKept, redis
<1>6. CASE Record
  <2>1. task.plan \in recovery
    BY <1>6 DEF Record, At, CopyInv, TaskKept, Working
  <2>2. recovery' = recovery
    BY <1>6 DEF Record
  <2>3. /\ mem' = [mem EXCEPT ![task.plan] = task.state]
        /\ saved' = [saved EXCEPT ![task.plan] = task.state]
    BY <1>6 DEF Record, Save
  <2>4. DOMAIN mem' = Plans /\ DOMAIN saved' = Plans
    BY <2>3 DEF CopyInv, Shape
  <2>5. \A q \in Plans \ {task.plan} : mem'[q] = mem[q] /\ saved'[q] = saved[q]
    BY <2>3 DEF CopyInv, Shape
  <2>6. Kept'
    BY <2>1, <2>2, <2>5, OtherPlansKept
  <2>7. CASE NextPlan
    BY <2>2, <2>4, <2>6, <2>7, NextPlanKept DEF CopyInv, Shape, TaskKept
  <2>8. CASE Goto(AfterRecord)
    BY <2>1, <2>2, <2>4, <2>6, <2>8, GotoKept DEF CopyInv, Shape, TaskKept
  <2> QED
    BY <1>6, <2>7, <2>8 DEF Record
<1>7. CASE TellProgress
  BY <1>7, NextPlanKept, TaskMoves DEF TellProgress, CopyInv, TaskKept
<1>8. ASSUME NEW type \in {"market", "limit"}, Send(type)
      PROVE  CopyInv'
  <2>1. task.plan \in recovery
    BY <1>8 DEF Send, At, CopyInv, TaskKept, Working
  <2>2. /\ DOMAIN task' = TaskFields
        /\ task'.back = task.back /\ task'.todo = task.todo /\ task'.plan = task.plan
    BY <1>8 DEF Send, CopyInv, Shape, TaskFields
  <2> QED
    BY <1>8, <2>1, <2>2, TaskMoves DEF Send, CopyInv, TaskKept, redis
<1> QED
  BY <1>1, <1>2, <1>3, <1>4, <1>5, <1>6, <1>7, <1>8

LEMMA ReconcileKept ==
  ASSUME CopyInv,
         \/ Submissions \/ PollEnds
         \/ \E p \in Plans : Reconcile(p)
         \/ \E p \in Plans : \E l \in Legs(p) : AdoptPosition(p, l)
  PROVE  CopyInv'
<1>1. CASE Submissions
  <2>1. \A q \in Plans : NeedsSubmittedReconcile(mem[q]) => q \in recovery
    BY NothingKnown DEF CopyInv, Kept
  <2>2. /\ DOMAIN task' = TaskFields
        /\ task'.pc = "reconcile" /\ task'.back = "reconcile"
        /\ task'.todo = {q \in Plans : NeedsSubmittedReconcile(mem[q])}
    BY <1>1 DEF Submissions, Idle, TaskFields
  <2> QED
    BY <1>1, <2>1, <2>2, TaskMoves DEF Submissions, Working, redis
<1>2. CASE PollEnds
  BY <1>2, IdleTask, TaskMoves DEF PollEnds, Working, redis
<1>3. ASSUME NEW p \in Plans, Reconcile(p)
      PROVE  CopyInv'
  <2>1. p \in recovery
    BY <1>3 DEF Reconcile, CopyInv, TaskKept
  <2>2. /\ DOMAIN task' = TaskFields
        /\ task'.back = task.back /\ task'.todo = task.todo /\ task'.plan = p
    BY <1>3 DEF Reconcile, CopyInv, Shape, TaskFields
  <2> QED
    BY <1>3, <2>1, <2>2, TaskMoves DEF Reconcile, CopyInv, TaskKept, redis
<1>4. ASSUME NEW p \in Plans, NEW l \in Legs(p), AdoptPosition(p, l)
      PROVE  CopyInv'
  <2>1. p \in recovery
    BY <1>4, NothingKnown DEF AdoptPosition, CopyInv, Kept
  <2>2. /\ DOMAIN task' = TaskFields
        /\ task'.back = "idle" /\ task'.todo = {} /\ task'.plan = p
    BY <1>4 DEF AdoptPosition, Idle, TaskFields
  <2>3. UNCHANGED <<saved, mem, recovery>>
    BY <1>4 DEF AdoptPosition, redis
  <2> QED
    BY <2>1, <2>2, <2>3, TaskMoves DEF Working
<1> QED
  BY <1>1, <1>2, <1>3, <1>4

\* What a cut-off step leaves in Redis: only a plan being forgotten loses its
\* copy, and then its saved state is gone before.
LEMMA CutOff ==
  ASSUME CopyInv, Interrupted
  PROVE  /\ DOMAIN saved' = Plans
         /\ \A q \in Plans : q \in recovery' \/ saved'[q] = NoState(q)
         /\ \A q \in recovery : q \in recovery' \/ (At("forget") /\ q = task.plan)
<1> DEFINE p == task.plan
<1>1. ASSUME NEW s, SaveInterrupted(p, s), UNCHANGED recovery, p \in recovery
      PROVE  /\ DOMAIN saved' = Plans
             /\ \A q \in Plans : q \in recovery' \/ saved'[q] = NoState(q)
             /\ recovery' = recovery
  <2>1. saved' = saved \/ saved' = [saved EXCEPT ![p] = s]
    BY <1>1 DEF SaveInterrupted
  <2>2. \A q \in Plans : q # p => saved'[q] = saved[q]
    BY <2>1 DEF CopyInv, Shape
  <2> QED
    BY <1>1, <2>1, <2>2 DEF CopyInv, Shape, Kept
<1>2. CASE At("receive") \/ At("record")
  <2>1. p \in recovery
    BY <1>2 DEF At, CopyInv, TaskKept, Working
  <2>2. PICK s : SaveInterrupted(p, s) /\ UNCHANGED recovery
    BY <1>2 DEF Interrupted, At
  <2> QED
    BY <1>1, <2>1, <2>2
<1>3. CASE At("forget")
  <2>1. EraseInterrupted(p)
    BY <1>3 DEF Interrupted, At
  <2>2. CASE UNCHANGED <<saved, recovery>>
    BY <2>2 DEF CopyInv, Shape, Kept
  <2>3. CASE saved' = [saved EXCEPT ![p] = NoState(p)] /\ recovery' \in {recovery, recovery \ {p}}
    <3>1. DOMAIN saved' = Plans
      BY <2>3 DEF CopyInv, Shape
    <3>2. \A q \in Plans : q # p => saved'[q] = saved[q]
      BY <2>3 DEF CopyInv, Shape
    <3>3. p \in Plans => saved'[p] = NoState(p)
      BY <2>3 DEF CopyInv, Shape
    <3>4. \A q \in recovery : q \in recovery' \/ q = p
      BY <2>3
    <3> QED
      BY <1>3, <3>1, <3>2, <3>3, <3>4 DEF CopyInv, Kept
  <2> QED
    BY <2>1, <2>2, <2>3 DEF EraseInterrupted
<1>4. CASE ~At("receive") /\ ~At("record") /\ ~At("forget")
  <2>1. UNCHANGED <<saved, recovery>>
    BY <1>4 DEF Interrupted
  <2> QED
    BY <2>1 DEF CopyInv, Shape, Kept
<1> QED
  BY <1>2, <1>3, <1>4

LEMMA FailsKept ==
  ASSUME CopyInv, Fails
  PROVE  CopyInv'
<1> DEFINE p == task.plan
<1>1. Interrupted
  BY DEF Fails
<1>2. /\ DOMAIN saved' = Plans
      /\ \A q \in Plans : q \in recovery' \/ saved'[q] = NoState(q)
      /\ \A q \in recovery : q \in recovery' \/ (At("forget") /\ q = p)
  BY <1>1, CutOff
<1>3. \/ /\ At("receive") \/ At("record")
         /\ \E s : mem' = [mem EXCEPT ![p] = s]
      \/ At("forget") /\ mem' = [mem EXCEPT ![p] = NoState(p)]
      \/ mem' = mem /\ ~At("forget")
  BY DEF Fails, At
<1>4. DOMAIN mem' = Plans /\ \A q \in Plans : q # p => mem'[q] = mem[q]
  BY <1>3 DEF CopyInv, Shape
<1>5. p \in Plans => p \in recovery' \/ mem'[p] = NoState(p)
  <2>1. CASE At("receive") \/ At("record")
    BY <1>2, <2>1 DEF At, CopyInv, TaskKept, Working
  <2>2. CASE At("forget") /\ mem' = [mem EXCEPT ![p] = NoState(p)]
    BY <2>2 DEF CopyInv, Shape
  <2>3. CASE mem' = mem /\ ~At("forget")
    BY <1>2, <2>3 DEF CopyInv, Kept
  <2> QED
    BY <1>3, <2>1, <2>2, <2>3
<1>6. \A q \in Plans : q \in recovery' \/ mem'[q] = NoState(q)
  BY <1>2, <1>4, <1>5 DEF CopyInv, Kept
<1>7. Kept'
  BY <1>2, <1>6 DEF Kept
<1>8. CASE task' = Idle
  BY <1>2, <1>4, <1>7, <1>8, IdleTask DEF CopyInv, Shape, TaskKept, Working
<1>9. CASE task' = [Evaluation EXCEPT !.todo = {q \in Plans : IsPendingEntryStage(mem'[q])}]
  <2>1. {q \in Plans : IsPendingEntryStage(mem'[q])} \subseteq recovery'
    BY <1>6, NothingKnown
  <2>2. /\ DOMAIN task' = TaskFields
        /\ task'.pc = "evaluate" /\ task'.back = "evaluate"
        /\ task'.todo = {q \in Plans : IsPendingEntryStage(mem'[q])}
    <3>1. Kept
      BY DEF CopyInv
    <3> QED
      BY <1>9, <3>1, EvaluationKept DEF TaskFields
  <2> QED
    BY <1>2, <1>4, <1>7, <2>1, <2>2 DEF CopyInv, Shape, TaskKept, Working
<1> QED
  BY <1>8, <1>9 DEF Fails

LEMMA CrashKept ==
  ASSUME CopyInv, Crash
  PROVE  CopyInv'
<1>1. Interrupted /\ mem' = [p \in Plans |-> NoState(p)] /\ task' = Idle
  BY DEF Crash
<1>2. /\ DOMAIN saved' = Plans
      /\ \A q \in Plans : q \in recovery' \/ saved'[q] = NoState(q)
  BY <1>1, CutOff
<1> QED
  BY <1>1, <1>2, IdleTask DEF CopyInv, Shape, Kept, TaskKept, Working

LEMMA WorldKept ==
  ASSUME CopyInv,
         \/ Restore \/ TenSeconds
         \/ \E p \in Plans : GraceLost(p) \/ Lapse(p)
         \/ \E p \in Plans : \E l \in Legs(p) : Broker(p, l)
         \/ UNCHANGED vars
  PROVE  CopyInv'
<1>1. CASE Restore
  <2>1. UNCHANGED <<saved, recovery, task>>
    BY <1>1 DEF Restore
  <2>2. mem' = [p \in Plans |->
          IF p \in tracked /\ saved[p].stage # "Closed" THEN saved[p] ELSE NoState(p)]
    BY <1>1 DEF Restore
  <2> QED
    BY <2>1, <2>2 DEF CopyInv, Shape, Kept, TaskKept
<1>2. CASE TenSeconds
  <2>1. /\ mem' = [p \in Plans |-> Waited(mem[p])]
        /\ saved' = [p \in Plans |-> Waited(saved[p])]
        /\ recovery' = recovery
    BY <1>2 DEF TenSeconds
  <2>2. Kept'
    BY <2>1, NothingKnown DEF CopyInv, Kept
  <2>3. /\ DOMAIN task' = TaskFields
        /\ task'.pc = task.pc /\ task'.back = task.back
        /\ task'.todo = task.todo /\ task'.plan = task.plan
    BY <1>2 DEF TenSeconds, CopyInv, Shape, TaskFields
  <2> QED
    BY <2>1, <2>2, <2>3 DEF CopyInv, Shape, TaskKept
<1>3. CASE UNCHANGED <<saved, recovery, mem, task>>
  BY <1>3 DEF CopyInv, Shape, Kept, TaskKept
<1>4. ASSUME NEW p \in Plans, GraceLost(p) \/ Lapse(p)
      PROVE  UNCHANGED <<saved, recovery, mem, task>>
  BY <1>4 DEF GraceLost, Lapse, redis
<1>5. ASSUME NEW p \in Plans, NEW l \in Legs(p), Broker(p, l)
      PROVE  UNCHANGED <<saved, recovery, mem, task>>
  BY <1>5 DEF Broker, Trigger, FillLands, OwnerCancels, Becomes, redis
<1>6. CASE UNCHANGED vars
  BY <1>3, <1>6 DEF vars, redis
<1> QED
  BY <1>1, <1>2, <1>3, <1>4, <1>5, <1>6

(* A saved state always has the plan it needs to be executed after a restart: *)
(* intake writes the copy before the state, ForgetPlanAsync erases the state  *)
(* before the copy, and nothing else is worked on meanwhile.                  *)
THEOREM CopyOutlivesState == Spec => []SavedIsRestorable
<1>1. Init => CopyInv
  <2> SUFFICES ASSUME Init PROVE CopyInv
    OBVIOUS
  <2>1. Shape
    BY IdleTask DEF Init, Shape
  <2>2. Kept
    BY DEF Init, Kept
  <2>3. TaskKept
    BY IdleTask DEF Init, TaskKept, Working
  <2> QED
    BY <2>1, <2>2, <2>3 DEF CopyInv
<1>2. CopyInv /\ [Next]_vars => CopyInv'
  <2> SUFFICES ASSUME CopyInv, [Next]_vars PROVE CopyInv'
    OBVIOUS
  <2>1. CASE Step
    BY <2>1, WorldKept, IntakeKept, EntryKept, ReconcileKept DEF Step
  <2>2. CASE \E p \in Plans, l \in UNION {Legs(q) : q \in Plans} :
               l \in Legs(p) /\ (AdoptPosition(p, l) \/ Broker(p, l))
    BY <2>2, WorldKept, ReconcileKept
  <2>3. CASE \E p \in Plans : GraceLost(p) \/ Lapse(p)
    BY <2>3, WorldKept
  <2>4. CASE TenSeconds \/ UNCHANGED vars
    BY <2>4, WorldKept
  <2> QED
    BY <2>1, <2>2, <2>3, <2>4, FailsKept, CrashKept DEF Next
<1>3. CopyInv => SavedIsRestorable
  BY NothingKnown DEF CopyInv, Kept, SavedIsRestorable
<1> QED
  BY <1>1, <1>2, <1>3, PTL DEF Spec

-----------------------------------------------------------------------------
(* No leg is asked for again. A plan that may still be submitted owns and has *)
(* recorded only legs it went past, in every place its state is kept, and a   *)
(* plan nobody claimed has recorded none.                                     *)

StateOK(p, s) ==
  /\ DOMAIN s = {"stage", "next", "legs"}
  /\ DOMAIN s.legs = Legs(p)
  /\ s.next \in Nat

\* State s of p went past every leg it owns and every recorded one.
Behind(p, s) == \A l \in Legs(p) :
  <<p, l>> \in recorded \/ s.legs[l] \in Owned => l =< s.next

Sendable(p, s) == IsPendingEntryStage(s) => Behind(p, s)

Unrecorded(p) == \A l \in Legs(p) : <<p, l>> \notin recorded

PlansOK ==
  /\ DOMAIN mem = Plans /\ DOMAIN saved = Plans
  /\ cursor \in Nat
  /\ \A p \in Plans : /\ StateOK(p, mem[p]) /\ Sendable(p, mem[p])
                      /\ StateOK(p, saved[p]) /\ Sendable(p, saved[p])
  /\ \A p \in Plans : \/ p \in claimed
                      \/ mem[p] = NoState(p) /\ saved[p] = NoState(p) /\ Unrecorded(p)

Holding == {"send", "record", "amend"}
Intake  == {"idle", "read", "admit", "receive", "announce", "cursor"}

TaskOK ==
  /\ DOMAIN task = TaskFields
  /\ task.back \in {"idle", "evaluate", "reconcile"}
  /\ task.todo \subseteq Plans \cap claimed
  /\ task.pc = "evaluate" =>
       task.back = "evaluate" /\ \A q \in task.todo : IsPendingEntryStage(mem[q])
  /\ task.back = "evaluate" =>
       \A q \in task.todo : q = task.plan \/ IsPendingEntryStage(mem[q])
  /\ task.pc \in Intake => task.back = "idle"
  /\ task.pc \in Intake \ {"idle", "read"} => task.plan \in Plans
  /\ task.pc \in {"admit", "receive"} => task.plan \in claimed /\ Unrecorded(task.plan)
  /\ task.pc \in Holding =>
       /\ task.plan \in Plans \cap claimed /\ StateOK(task.plan, task.state)
       /\ task.back = "evaluate" => Behind(task.plan, task.state)
       /\ task.back # "evaluate" => ~IsPendingEntryStage(task.state)
  /\ task.pc = "send" => task.back = "evaluate"
  /\ task.pc = "reconcile" => task.back = "reconcile"

SentInv == PlansOK /\ TaskOK

LEMMA LegsAreNumbers == \A p \in Plans : Legs(p) \subseteq Nat
<1>1. \A p \in Plans : LegCount(p) \in Nat
  BY PlanAssumption DEF PlanAssumption, LegCount
<1> QED
  BY <1>1 DEF Legs

LEMMA NoStateOK ==
  ASSUME NEW p
  PROVE  /\ StateOK(p, NoState(p)) /\ Sendable(p, NoState(p))
         /\ ~IsPendingEntryStage(NoState(p))
BY NothingKnown DEF StateOK, NoState, Sendable

LEMMA ReceivedOK ==
  ASSUME NEW p
  PROVE  /\ StateOK(p, Received(p))
         /\ Unrecorded(p) => Sendable(p, Received(p))
         /\ Recording(p, Received(p)) = {}
<1>1. /\ DOMAIN Received(p) = {"stage", "next", "legs"}
      /\ Received(p).next = 0
      /\ Received(p).legs = [l \in Legs(p) |-> "none"]
  BY DEF Received, NoState
<1>2. "none" \notin Owned
  BY DEF Owned, Waiting
<1>3. \A l \in Legs(p) : Received(p).legs[l] \notin Owned
  BY <1>1, <1>2
<1>4. StateOK(p, Received(p))
  BY <1>1 DEF StateOK
<1>5. Recording(p, Received(p)) = {}
  BY <1>3 DEF Recording
<1> QED
  BY <1>3, <1>4, <1>5 DEF Sendable, Behind, Unrecorded

\* The stages derived from the legs are past submission.
LEMMA Derived ==
  ASSUME NEW legs
  PROVE  DeriveRuntimeStage(legs) \notin {"Received", "Submitting"}
BY DEF DeriveRuntimeStage

LEMMA AdoptedOK ==
  ASSUME NEW p, NEW s, StateOK(p, s), NEW a
  PROVE  StateOK(p, WithFilled(s, a)) /\ ~IsPendingEntryStage(WithFilled(s, a))
<1> DEFINE legs == [l \in DOMAIN s.legs |-> IF l \in a THEN "filled" ELSE s.legs[l]]
           st == DeriveRuntimeStage(legs)
<1>1. WithFilled(s, a) = [s EXCEPT !.legs = legs, !.stage = st]
  BY DEF WithFilled
<1>2. st \notin {"Received", "Submitting"} /\ DOMAIN legs = Legs(p)
  BY Derived DEF StateOK
<1> HIDE DEF legs, st
<1>3. /\ DOMAIN WithFilled(s, a) = {"stage", "next", "legs"}
      /\ WithFilled(s, a).legs = legs /\ WithFilled(s, a).stage = st
      /\ WithFilled(s, a).next = s.next
  BY <1>1 DEF StateOK
<1> QED
  BY <1>2, <1>3 DEF StateOK, IsPendingEntryStage

LEMMA ReconciledOK ==
  ASSUME NEW p, NEW s, StateOK(p, s)
  PROVE  StateOK(p, Reconciled(p, s)) /\ ~IsPendingEntryStage(Reconciled(p, s))
<1>1. PICK legs : /\ DOMAIN legs = Legs(p)
                  /\ Reconciled(p, s) = [s EXCEPT !.legs = legs, !.stage = DeriveRuntimeStage(legs)]
  <2> DEFINE adopted == WithFilled(s, Adopted(p, s)).legs
             ls == [l \in Legs(p) |->
               CASE order[p][l] = "pending" /\ adopted[l] \in Waiting -> "pending"
                 [] order[p][l] \in {"filling", "cancelled"}          -> Missing(adopted[l])
                 [] OTHER                                             -> adopted[l]]
  <2>1. Reconciled(p, s) = [s EXCEPT !.legs = ls, !.stage = DeriveRuntimeStage(ls)]
    BY DEF Reconciled
  <2>2. DOMAIN ls = Legs(p)
    OBVIOUS
  <2> HIDE DEF ls
  <2> QED
    BY <2>1, <2>2
<1> DEFINE st == DeriveRuntimeStage(legs)
<1>2. st \notin {"Received", "Submitting"}
  BY Derived
<1>3. Reconciled(p, s) = [s EXCEPT !.legs = legs, !.stage = st]
  BY <1>1
<1> HIDE DEF st
<1>4. /\ DOMAIN Reconciled(p, s) = {"stage", "next", "legs"}
      /\ Reconciled(p, s).legs = legs /\ Reconciled(p, s).stage = st
      /\ Reconciled(p, s).next = s.next
  BY <1>3 DEF StateOK
<1> QED
  BY <1>1, <1>2, <1>4 DEF StateOK, IsPendingEntryStage

LEMMA PlannedOK ==
  ASSUME NEW p, NEW s, StateOK(p, s), Behind(p, s)
  PROVE  StateOK(p, Planned(s)) /\ Behind(p, Planned(s))
<1> DEFINE legs == [l \in DOMAIN s.legs |-> IF s.legs[l] = "none" THEN "planned" ELSE s.legs[l]]
<1>1. Planned(s) = [s EXCEPT !.legs = legs]
  BY DEF Planned
<1>2. DOMAIN legs = Legs(p) /\ \A l \in Legs(p) : legs[l] \in Owned => s.legs[l] \in Owned
  BY DEF StateOK, Owned, Waiting
<1> HIDE DEF legs
<1>3. /\ DOMAIN Planned(s) = {"stage", "next", "legs"}
      /\ Planned(s).legs = legs /\ Planned(s).next = s.next
  BY <1>1 DEF StateOK
<1> QED
  BY <1>2, <1>3 DEF StateOK, Behind

LEMMA PlacedOK ==
  ASSUME NEW p \in Plans, NEW s, StateOK(p, s), Behind(p, s), NEW x
  PROVE  StateOK(p, Placed(p, s, s.next + 1, x)) /\ Behind(p, Placed(p, s, s.next + 1, x))
<1> DEFINE legs == [s.legs EXCEPT ![s.next + 1] = x]
           d == Placed(p, s, s.next + 1, x)
<1>1. DOMAIN legs = Legs(p) /\ \A l \in Legs(p) : l # s.next + 1 => legs[l] = s.legs[l]
  BY DEF StateOK
<1>2. DOMAIN d = {"stage", "next", "legs"} /\ d.legs = legs /\ d.next = s.next + 1
  BY DEF Placed
<1> HIDE DEF legs, d
<1>3. s.next \in Nat
  BY DEF StateOK
<1>4. StateOK(p, d)
  BY <1>1, <1>2, <1>3 DEF StateOK
<1>5. ASSUME NEW l \in Legs(p), <<p, l>> \in recorded \/ d.legs[l] \in Owned
      PROVE  l =< d.next
  <2>1. l \in Nat
    BY LegsAreNumbers
  <2> QED
    BY <1>1, <1>2, <1>3, <1>5, <2>1 DEF Behind
<1> QED
  BY <1>4, <1>5 DEF Behind, d

LEMMA WaitedOK ==
  ASSUME NEW p, NEW s, StateOK(p, s)
  PROVE  /\ StateOK(p, Waited(s)) /\ (IsPendingEntryStage(Waited(s)) <=> IsPendingEntryStage(s))
         /\ Behind(p, s) => Behind(p, Waited(s))
<1> DEFINE legs == [l \in DOMAIN s.legs |-> IF s.legs[l] = "gone" THEN "overdue" ELSE s.legs[l]]
<1>1. Waited(s) = [s EXCEPT !.legs = legs]
  BY DEF Waited
<1>2. DOMAIN legs = Legs(p) /\ \A l \in Legs(p) : legs[l] \in Owned => s.legs[l] \in Owned
  BY DEF StateOK, Owned, Waiting
<1> HIDE DEF legs
<1>3. /\ DOMAIN Waited(s) = {"stage", "next", "legs"} /\ Waited(s).stage = s.stage
      /\ Waited(s).legs = legs /\ Waited(s).next = s.next
  BY <1>1 DEF StateOK
<1> QED
  BY <1>2, <1>3 DEF StateOK, Behind, IsPendingEntryStage

-----------------------------------------------------------------------------
(* The writes.                                                                *)

\* The state s of plan p is recorded, in memory and perhaps in Redis, or the
\* memory is lost meanwhile.
LEMMA StateRecorded ==
  ASSUME PlansOK, NEW p \in Plans \cap claimed, NEW s, StateOK(p, s), Sendable(p, s),
         UNCHANGED <<cursor, claimed>>,
         mem' = [mem EXCEPT ![p] = s] \/ mem' = [q \in Plans |-> NoState(q)],
         \/ saved' = [saved EXCEPT ![p] = s] /\ recorded' = recorded \cup Recording(p, s)
         \/ UNCHANGED <<saved, recorded>>
  PROVE  /\ PlansOK'
         /\ Behind(p, s) => Behind(p, s)'
<1>1. /\ DOMAIN mem' = Plans /\ DOMAIN saved' = Plans /\ mem'[p] \in {s, NoState(p)}
      /\ \A q \in Plans \ {p} : mem'[q] \in {mem[q], NoState(q)} /\ saved'[q] = saved[q]
      /\ saved'[p] = s \/ (saved'[p] = saved[p] /\ recorded' = recorded)
  BY DEF PlansOK
<1>2. \A q \in Plans \ {p} : \A l \in Legs(q) : <<q, l>> \in recorded' <=> <<q, l>> \in recorded
  BY DEF Recording
<1>3. \A l \in Legs(p) : <<p, l>> \in recorded' => <<p, l>> \in recorded \/ s.legs[l] \in Owned
  BY DEF Recording
<1>4. Behind(p, s) => Behind(p, s)'
  BY <1>3 DEF Behind
<1>5. Sendable(p, s)'
  BY <1>4 DEF Sendable
<1>6. \A q \in Plans : StateOK(q, NoState(q)) /\ ~IsPendingEntryStage(NoState(q))
  BY NoStateOK
<1>7. Sendable(p, mem[p])' /\ Sendable(p, saved[p])'
  <2>1. Sendable(p, mem[p])'
    BY <1>1, <1>5, <1>6 DEF Sendable
  <2>2. CASE saved'[p] = s
    BY <1>5, <2>1, <2>2
  <2>3. CASE saved'[p] = saved[p] /\ recorded' = recorded
    BY <2>1, <2>3 DEF PlansOK, Sendable, Behind
  <2> QED
    BY <1>1, <2>2, <2>3
<1>8. \A q \in Plans \ {p} : (Sendable(q, mem[q]) => Sendable(q, mem[q])')
                             /\ (Sendable(q, saved[q]) => Sendable(q, saved[q])')
                             /\ (Unrecorded(q) => Unrecorded(q)')
  BY <1>1, <1>2, <1>6 DEF Sendable, Behind, Unrecorded
<1> QED
  BY <1>1, <1>4, <1>6, <1>7, <1>8 DEF PlansOK, StateOK

\* Whatever is left of plans that are forgotten, restored or lost was known
\* before; nothing is recorded.
LEMMA StateDropped ==
  ASSUME PlansOK, UNCHANGED <<cursor, claimed, recorded>>,
         DOMAIN mem' = Plans, DOMAIN saved' = Plans,
         \A p \in Plans : /\ mem'[p] \in {mem[p], saved[p], NoState(p)}
                          /\ saved'[p] \in {saved[p], NoState(p)}
  PROVE  PlansOK'
<1>1. \A p \in Plans : Unrecorded(p)' <=> Unrecorded(p)
  BY DEF Unrecorded
<1>2. ASSUME NEW p \in Plans, NEW s \in {mem[p], saved[p], NoState(p)}
      PROVE  StateOK(p, s) /\ Sendable(p, s)'
  <2>1. StateOK(p, s) /\ Sendable(p, s)
    BY NoStateOK DEF PlansOK
  <2> QED
    BY <2>1 DEF Sendable, Behind
<1> QED
  BY <1>1, <1>2 DEF PlansOK, StateOK

LEMMA TaskOnly ==
  ASSUME SentInv, UNCHANGED <<mem, saved, recorded>>, claimed \subseteq claimed', cursor' \in Nat,
         TaskOK'
  PROVE  SentInv'
<1>1. PlansOK'
  BY DEF SentInv, PlansOK, StateOK, Sendable, Behind, Unrecorded
<1> QED
  BY <1>1 DEF SentInv

\* A task that holds no plan's state.
LEMMA TaskLetsGo ==
  ASSUME SentInv, UNCHANGED <<mem, saved, recorded>>, claimed \subseteq claimed', cursor' \in Nat,
         DOMAIN task' = TaskFields, task'.back = task.back, task'.todo = task.todo,
         task'.plan = task.plan,
         task'.pc \notin {"evaluate", "reconcile", "admit", "receive"} \cup Holding,
         task'.pc \in Intake => task.pc \in Intake,
         task'.pc \in {"announce", "cursor"} => task.plan \in Plans
  PROVE  SentInv'
<1>1. TaskOK'
  BY DEF SentInv, TaskOK, Holding, Intake
<1> QED
  BY <1>1, TaskOnly

LEMMA IdleOK ==
  ASSUME task' = Idle
  PROVE  TaskOK'
BY IdleTask DEF TaskOK, Holding, Intake

\* The submission pass over the plans that are pending.
LEMMA PassOK ==
  ASSUME PlansOK', DOMAIN task' = TaskFields, task'.pc = "evaluate", task'.back = "evaluate",
         task'.todo = {q \in Plans : IsPendingEntryStage(mem'[q])}
  PROVE  TaskOK'
<1>1. task'.todo \subseteq Plans \cap claimed'
  BY NoStateOK DEF PlansOK
<1> QED
  BY <1>1 DEF TaskOK, Holding, Intake

LEMMA EndOfPlan ==
  ASSUME SentInv, NextPlan, \A q \in Plans \ {task.plan} : mem'[q] = mem[q], claimed' = claimed
  PROVE  TaskOK'
<1>1. /\ DOMAIN task' = TaskFields
      /\ task'.pc = task.back /\ task'.back = task.back
      /\ task'.todo = task.todo \ {task.plan}
  BY NextPlanFields DEF SentInv, TaskOK
<1>2. task.back = "evaluate" => \A q \in task'.todo : IsPendingEntryStage(mem'[q])
  BY <1>1 DEF SentInv, TaskOK
<1> QED
  BY <1>1, <1>2 DEF SentInv, TaskOK, Holding, Intake

-----------------------------------------------------------------------------
(* The steps.                                                                 *)

LEMMA EvaluationFields ==
  /\ DOMAIN Evaluation = TaskFields
  /\ Evaluation.pc = "evaluate" /\ Evaluation.back = "evaluate"
  /\ Evaluation.todo = {q \in Plans : IsPendingEntryStage(mem[q])}
BY DEF Evaluation, Idle, TaskFields

LEMMA IntakeSent ==
  ASSUME SentInv, Poll \/ EntriesRead \/ Claim \/ Admit \/ Receive \/ Announce \/ SetCursor
  PROVE  SentInv'
<1> USE DEF At
<1>1. DOMAIN task = TaskFields /\ cursor \in Nat
  BY DEF SentInv, TaskOK, PlansOK
<1>2. CASE Poll
  BY <1>1, <1>2, GotoFields, TaskLetsGo DEF Poll, redis, Holding, Intake
<1>3. CASE EntriesRead
  <2>1. UNCHANGED <<mem, saved, recorded, claimed, cursor>> /\ task' = Evaluation
    BY <1>3 DEF EntriesRead, redis
  <2>2. PlansOK'
    BY <2>1 DEF SentInv, PlansOK, StateOK, Sendable, Behind, Unrecorded
  <2>3. /\ DOMAIN task' = TaskFields
        /\ task'.pc = "evaluate" /\ task'.back = "evaluate"
        /\ task'.todo = {q \in Plans : IsPendingEntryStage(mem'[q])}
    BY <2>1, EvaluationFields
  <2> QED
    BY <2>2, <2>3, PassOK DEF SentInv
<1>4. CASE Claim
  <2>1. PICK p \in Plans : p = cursor + 1
    BY <1>1, <1>4, PlanAssumption DEF Claim, Plans, PlanAssumption
  <2>2. /\ DOMAIN task' = TaskFields
        /\ task'.pc = IF p \in claimed THEN "cursor" ELSE "admit"
        /\ task'.back = task.back /\ task'.todo = task.todo /\ task'.plan = p
    BY <1>1, <1>4, <2>1 DEF Claim, Redelivered, TaskFields
  <2>3. claimed' = claimed \cup {p} /\ UNCHANGED <<mem, saved, recorded, cursor>> /\ task.pc = "read"
    BY <1>4, <2>1 DEF Claim
  <2>4. p \notin claimed => Unrecorded(p)'
    BY <2>1, <2>3 DEF SentInv, PlansOK, Unrecorded
  <2>5. TaskOK'
    BY <2>1, <2>2, <2>3, <2>4 DEF SentInv, TaskOK, Holding, Intake
  <2> QED
    BY <1>1, <2>3, <2>5, TaskOnly
<1>5. CASE Admit
  <2>1. UNCHANGED <<mem, saved, recorded, cursor, claimed>> /\ task.pc = "admit"
        /\ (Goto("cursor") \/ Goto("receive"))
    BY <1>5 DEF Admit, keys
  <2>2. task.plan \in Plans \cap claimed /\ Unrecorded(task.plan)
    BY <2>1 DEF SentInv, TaskOK, Intake
  <2>3. CASE Goto("cursor")
    BY <1>1, <2>1, <2>2, <2>3, GotoFields, TaskLetsGo DEF Holding, Intake
  <2>4. CASE Goto("receive")
    <3>1. TaskOK'
      BY <1>1, <2>1, <2>2, <2>4, GotoFields DEF SentInv, TaskOK, Holding, Intake, Unrecorded
    <3> QED
      BY <1>1, <2>1, <3>1, TaskOnly
  <2> QED
    BY <2>1, <2>3, <2>4
<1>6. CASE Receive
  <2> DEFINE p == task.plan
  <2>1. /\ p \in Plans \cap claimed /\ Unrecorded(p) /\ task.back = "idle"
        /\ task.todo \subseteq Plans \cap claimed
    BY <1>6 DEF Receive, SentInv, TaskOK, Intake
  <2>2. /\ mem' = [mem EXCEPT ![p] = Received(p)] /\ saved' = [saved EXCEPT ![p] = Received(p)]
        /\ recorded' = recorded \cup Recording(p, Received(p))
        /\ UNCHANGED <<cursor, claimed>> /\ Goto("announce")
    BY <1>6 DEF Receive, Save, keys
  <2>3. PlansOK'
    BY <2>1, <2>2, ReceivedOK, StateRecorded DEF SentInv
  <2>4. TaskOK'
    BY <1>1, <2>1, <2>2, GotoFields DEF TaskOK, Holding, Intake
  <2> QED
    BY <2>3, <2>4 DEF SentInv
<1>7. CASE Announce
  <2>1. UNCHANGED <<mem, saved, recorded, cursor, claimed>> /\ task.pc = "announce"
        /\ Goto("cursor")
    BY <1>7 DEF Announce, keys
  <2>2. task.plan \in Plans
    BY <2>1 DEF SentInv, TaskOK, Intake
  <2> QED
    BY <1>1, <2>1, <2>2, GotoFields, TaskLetsGo DEF Holding, Intake
<1>8. CASE SetCursor
  <2>1. /\ UNCHANGED <<mem, saved, recorded, claimed>> /\ cursor' = task.plan
        /\ task.pc = "cursor" /\ task' = [task EXCEPT !.pc = "read", !.plan = 0]
    BY <1>8 DEF SetCursor
  <2>2. task.plan \in Plans /\ task.back = "idle"
    BY <2>1 DEF SentInv, TaskOK, Intake
  <2>3. /\ DOMAIN task' = TaskFields
        /\ task'.pc = "read" /\ task'.back = task.back /\ task'.todo = task.todo
    BY <1>1, <2>1 DEF TaskFields
  <2>4. TaskOK'
    BY <2>1, <2>2, <2>3 DEF SentInv, TaskOK, Holding, Intake
  <2>5. cursor' \in Nat
    BY <2>1, <2>2 DEF Plans
  <2> QED
    BY <2>1, <2>4, <2>5, TaskOnly
<1> QED
  BY <1>2, <1>3, <1>4, <1>5, <1>6, <1>7, <1>8

LEMMA EntrySent ==
  ASSUME SentInv,
         \/ \E p \in Plans : Evaluate(p)
         \/ TellEnd \/ Forget \/ Refused \/ AmendStop \/ Record \/ TellProgress
         \/ \E type \in {"market", "limit"} : Send(type)
  PROVE  SentInv'
<1> USE DEF At
<1>1. DOMAIN task = TaskFields /\ cursor \in Nat /\ TaskOK /\ PlansOK
  BY DEF SentInv, TaskOK, PlansOK
<1>2. ASSUME NEW p \in Plans, Evaluate(p)
      PROVE  SentInv'
  <2>1. /\ UNCHANGED <<mem, saved, recorded, claimed, cursor>>
        /\ task.pc = "evaluate" /\ p \in task.todo
    BY <1>2 DEF Evaluate, redis
  <2>2. /\ task.back = "evaluate" /\ p \in claimed /\ IsPendingEntryStage(mem[p])
        /\ task.todo \subseteq Plans \cap claimed
        /\ \A q \in task.todo : IsPendingEntryStage(mem[q])
    BY <1>1, <2>1 DEF TaskOK
  <2>3. StateOK(p, mem[p]) /\ Behind(p, mem[p])
    BY <1>1, <2>2 DEF PlansOK, Sendable
  <2>4. CASE task' = [task EXCEPT !.todo = @ \ {p}]
    <3>1. /\ DOMAIN task' = TaskFields
          /\ task'.pc = task.pc /\ task'.back = task.back /\ task'.todo = task.todo \ {p}
      BY <1>1, <2>4 DEF TaskFields
    <3>2. TaskOK'
      BY <2>1, <2>2, <3>1 DEF TaskOK, Holding, Intake
    <3> QED
      BY <1>1, <2>1, <3>2, TaskOnly
  <2>5. ASSUME NEW pc \in {"expire", "reject", "send"},
               task' = [task EXCEPT !.pc = pc, !.plan = p, !.state = Planned(mem[p])]
        PROVE  SentInv'
    <3> DEFINE s == Planned(mem[p])
    <3>1. StateOK(p, s) /\ Behind(p, s)
      BY <2>3, PlannedOK
    <3> HIDE DEF s
    <3>2. /\ DOMAIN task' = TaskFields
          /\ task'.pc = pc /\ task'.back = task.back /\ task'.todo = task.todo
          /\ task'.plan = p /\ task'.state = s
      BY <1>1, <2>5 DEF TaskFields, s
    <3>3. StateOK(task'.plan, task'.state) /\ Behind(task.plan, task.state)'
      BY <2>1, <3>1, <3>2 DEF Behind
    <3>4. TaskOK'
      BY <2>1, <2>2, <3>2, <3>3 DEF TaskOK, Holding, Intake, StateOK
    <3> QED
      BY <1>1, <2>1, <3>4, TaskOnly
  <2> QED
    BY <1>2, <2>4, <2>5 DEF Evaluate
<1>3. CASE TellEnd
  <2>1. UNCHANGED <<mem, saved, recorded, cursor, claimed>> /\ Goto("forget")
    BY <1>3 DEF TellEnd, keys
  <2> QED
    BY <1>1, <2>1, GotoFields, TaskLetsGo DEF Holding, Intake
<1>4. CASE Forget
  <2> DEFINE p == task.plan
  <2>1. /\ mem' = [mem EXCEPT ![p] = NoState(p)] /\ saved' = [saved EXCEPT ![p] = NoState(p)]
        /\ UNCHANGED <<cursor, claimed, recorded>> /\ NextPlan
    BY <1>4 DEF Forget, Erase, keys
  <2>2. /\ DOMAIN mem' = Plans /\ DOMAIN saved' = Plans
        /\ \A q \in Plans : /\ mem'[q] \in {mem[q], saved[q], NoState(q)}
                            /\ saved'[q] \in {saved[q], NoState(q)}
        /\ \A q \in Plans \ {p} : mem'[q] = mem[q]
    BY <1>1, <2>1 DEF PlansOK
  <2>3. PlansOK'
    BY <1>1, <2>1, <2>2, StateDropped
  <2> QED
    BY <2>1, <2>2, <2>3, EndOfPlan DEF SentInv
<1>5. CASE Refused
  <2>1. UNCHANGED <<mem, saved, recorded, cursor, claimed>> /\ task' = Idle
    BY <1>5 DEF Refused, redis
  <2> QED
    BY <1>1, <2>1, IdleOK, TaskOnly
<1>6. CASE AmendStop
  <2>1. UNCHANGED <<mem, saved, recorded, cursor, claimed>> /\ Goto("record") /\ task.pc = "amend"
    BY <1>6 DEF AmendStop, redis
  <2>2. TaskOK'
    BY <1>1, <2>1, GotoFields DEF TaskOK, Holding, Intake, Behind, StateOK
  <2> QED
    BY <1>1, <2>1, <2>2, TaskOnly
<1>7. CASE Record
  <2>0. /\ task.plan \in Plans \cap claimed /\ StateOK(task.plan, task.state)
        /\ Sendable(task.plan, task.state)
        /\ task.back = "evaluate" => Behind(task.plan, task.state)
    BY <1>1, <1>7 DEF Record, TaskOK, Holding, Sendable
  <2>1. PICK p, s :
           /\ p = task.plan /\ s = task.state
           /\ p \in Plans \cap claimed /\ StateOK(p, s) /\ Sendable(p, s)
           /\ task.back = "evaluate" => Behind(p, s)
    BY <2>0
  <2>2. /\ mem' = [mem EXCEPT ![p] = s] /\ saved' = [saved EXCEPT ![p] = s]
        /\ recorded' = recorded \cup Recording(p, s) /\ UNCHANGED <<cursor, claimed>>
        /\ NextPlan \/ Goto(AfterRecord)
        /\ AfterRecord \in {"idle", "reconcile"} => NextPlan
    BY <1>7, <2>1 DEF Record, Save, keys
  <2>3. PlansOK' /\ (Behind(p, s) => Behind(p, s)')
    BY <1>1, <2>1, <2>2, StateRecorded
  <2>4. \A q \in Plans \ {p} : mem'[q] = mem[q]
    BY <1>1, <2>2 DEF PlansOK
  <2>5. CASE NextPlan
    BY <1>1, <2>1, <2>2, <2>3, <2>4, <2>5, EndOfPlan DEF SentInv
  <2>6. CASE Goto(AfterRecord) /\ AfterRecord \notin {"idle", "reconcile"}
    <3>1. /\ AfterRecord \in {"send", "told", "forget"}
          /\ AfterRecord = "send" => task.back = "evaluate"
      BY <2>6 DEF AfterRecord
    <3>2. /\ DOMAIN task' = TaskFields
          /\ task'.pc \in {"send", "told", "forget"} /\ task'.back = task.back
          /\ task'.pc = "send" => task.back = "evaluate"
          /\ task'.state = s /\ task'.todo = task.todo /\ task'.plan = p
      BY <1>1, <2>1, <2>6, <3>1, GotoFields
    <3>3. Behind(p, s)' => Behind(task.plan, task.state)'
      BY <3>2 DEF Behind
    <3>4. TaskOK'
      BY <1>1, <2>1, <2>2, <2>3, <2>4, <3>2, <3>3 DEF TaskOK, Holding, Intake, StateOK
    <3> QED
      BY <2>3, <3>4 DEF SentInv
  <2> QED
    BY <2>2, <2>5, <2>6
<1>8. CASE TellProgress
  <2>1. UNCHANGED <<mem, saved, recorded, cursor, claimed>> /\ NextPlan
    BY <1>8 DEF TellProgress, keys
  <2>2. TaskOK'
    BY <2>1, EndOfPlan
  <2> QED
    BY <1>1, <2>1, <2>2, TaskOnly
<1>9. ASSUME NEW type \in {"market", "limit"}, Send(type)
      PROVE  SentInv'
  <2> DEFINE p == task.plan
             s == Placed(p, task.state, Leg, IF type = "market" THEN "filled" ELSE "pending")
  <2>1. UNCHANGED <<mem, saved, recorded, cursor, claimed>> /\ task.pc = "send"
    BY <1>9 DEF Send, redis
  <2>2. /\ p \in Plans \cap claimed /\ StateOK(p, task.state) /\ Behind(p, task.state)
        /\ task.back = "evaluate"
    BY <1>1, <2>1 DEF TaskOK, Holding
  <2>3. StateOK(p, s) /\ Behind(p, s)
    BY <2>2, PlacedOK DEF Leg
  <2> HIDE DEF s
  <2>4. /\ DOMAIN task' = TaskFields
        /\ task'.pc \in {"amend", "record"} /\ task'.back = task.back
        /\ task'.todo = task.todo /\ task'.plan = p /\ task'.state = s
    BY <1>1, <1>9 DEF Send, TaskFields, s
  <2>5. StateOK(task'.plan, task'.state) /\ Behind(task.plan, task.state)'
    BY <2>1, <2>3, <2>4 DEF Behind
  <2>6. TaskOK'
    BY <1>1, <2>1, <2>2, <2>4, <2>5 DEF TaskOK, Holding, Intake, StateOK
  <2> QED
    BY <1>1, <2>1, <2>6, TaskOnly
<1> QED
  BY <1>2, <1>3, <1>4, <1>5, <1>6, <1>7, <1>8, <1>9

LEMMA ReconcileSent ==
  ASSUME SentInv,
         \/ Submissions \/ PollEnds
         \/ \E p \in Plans : Reconcile(p)
         \/ \E p \in Plans : \E l \in Legs(p) : AdoptPosition(p, l)
  PROVE  SentInv'
<1>1. DOMAIN task = TaskFields /\ cursor \in Nat /\ TaskOK /\ PlansOK
  BY DEF SentInv, TaskOK, PlansOK
<1>2. CASE Submissions
  <2>1. \A q \in Plans : NeedsSubmittedReconcile(mem[q]) => q \in claimed
    BY <1>1, NothingKnown DEF PlansOK
  <2>2. /\ DOMAIN task' = TaskFields
        /\ task'.pc = "reconcile" /\ task'.back = "reconcile"
        /\ task'.todo = {q \in Plans : NeedsSubmittedReconcile(mem[q])}
    BY <1>2 DEF Submissions, Idle, TaskFields
  <2>3. UNCHANGED <<mem, saved, recorded, cursor, claimed>>
    BY <1>2 DEF Submissions, redis
  <2>4. TaskOK'
    BY <2>1, <2>2, <2>3 DEF TaskOK, Holding, Intake
  <2> QED
    BY <1>1, <2>3, <2>4, TaskOnly
<1>3. CASE PollEnds
  <2>1. UNCHANGED <<mem, saved, recorded, cursor, claimed>> /\ task' = Idle
    BY <1>3 DEF PollEnds, redis
  <2> QED
    BY <1>1, <2>1, IdleOK, TaskOnly
<1>4. ASSUME NEW p \in Plans, NEW s, StateOK(p, s), ~IsPendingEntryStage(s), p \in claimed,
             UNCHANGED <<mem, saved, recorded, cursor, claimed>>,
             DOMAIN task' = TaskFields, task'.pc \in {"record", "amend"},
             task'.back \in {"idle", "reconcile"}, task'.todo \subseteq Plans \cap claimed,
             task'.plan = p, task'.state = s
      PROVE  SentInv'
  <2>1. TaskOK'
    BY <1>4 DEF TaskOK, Holding, Intake, StateOK
  <2> QED
    BY <1>1, <1>4, <2>1, TaskOnly
<1>5. ASSUME NEW p \in Plans, Reconcile(p)
      PROVE  SentInv'
  <2>1. /\ p \in claimed /\ task.back = "reconcile" /\ task.todo \subseteq Plans \cap claimed
        /\ StateOK(p, mem[p])
    BY <1>1, <1>5 DEF Reconcile, At, TaskOK, PlansOK
  <2>2. UNCHANGED <<mem, saved, recorded, cursor, claimed>>
    BY <1>5 DEF Reconcile, redis
  <2>3. /\ DOMAIN task' = TaskFields /\ task'.pc \in {"record", "amend"}
        /\ task'.back = task.back /\ task'.todo = task.todo /\ task'.plan = p
        /\ task'.state = Reconciled(p, mem[p])
    BY <1>1, <1>5 DEF Reconcile, TaskFields
  <2> QED
    BY <1>4, <2>1, <2>2, <2>3, ReconciledOK
<1>6. ASSUME NEW p \in Plans, NEW l \in Legs(p), AdoptPosition(p, l)
      PROVE  SentInv'
  <2>1. p \in claimed /\ StateOK(p, mem[p])
    BY <1>1, <1>6, NothingKnown DEF AdoptPosition, PlansOK
  <2>2. UNCHANGED <<mem, saved, recorded, cursor, claimed>>
    BY <1>6 DEF AdoptPosition, redis
  <2>3. /\ DOMAIN task' = TaskFields /\ task'.pc = "amend"
        /\ task'.back = "idle" /\ task'.todo = {} /\ task'.plan = p
        /\ task'.state = WithFilled(mem[p], {l})
    BY <1>6 DEF AdoptPosition, Idle, TaskFields
  <2> QED
    BY <1>4, <2>1, <2>2, <2>3, AdoptedOK
<1> QED
  BY <1>2, <1>3, <1>5, <1>6

\* A step cut off in the middle, by an exception or by a crash.
LEMMA FaultsSent ==
  ASSUME SentInv, Fails \/ Crash
  PROVE  SentInv'
<1> DEFINE lost == mem' = [q \in Plans |-> NoState(q)]
<1>1. DOMAIN task = TaskFields /\ cursor \in Nat /\ TaskOK /\ PlansOK
  BY DEF SentInv, TaskOK, PlansOK
<1>2. Interrupted /\ UNCHANGED <<cursor, claimed>>
  BY DEF Fails, Crash, Interrupted, keys
<1>3. lost \/ mem' = CASE At("receive") -> [mem EXCEPT ![task.plan] = Received(task.plan)]
                       [] At("record")  -> [mem EXCEPT ![task.plan] = task.state]
                       [] At("forget")  -> [mem EXCEPT ![task.plan] = NoState(task.plan)]
                       [] OTHER         -> mem
  BY DEF Fails, Crash
<1> HIDE DEF lost
<1>4. ASSUME At("receive") \/ At("record")
      PROVE  PlansOK'
  <2>1. PICK p, s :
           /\ p = task.plan /\ p \in Plans \cap claimed /\ StateOK(p, s) /\ Sendable(p, s)
           /\ SaveInterrupted(p, s) /\ (lost \/ mem' = [mem EXCEPT ![p] = s])
    <3>1. CASE At("receive")
      <4>1. /\ task.plan \in Plans \cap claimed /\ Unrecorded(task.plan)
            /\ SaveInterrupted(task.plan, Received(task.plan))
            /\ lost \/ mem' = [mem EXCEPT ![task.plan] = Received(task.plan)]
        BY <1>1, <1>2, <1>3, <3>1 DEF At, TaskOK, Intake, Interrupted
      <4> QED
        BY <4>1, ReceivedOK
    <3>2. CASE At("record")
      <4>1. /\ task.plan \in Plans \cap claimed /\ StateOK(task.plan, task.state)
            /\ Sendable(task.plan, task.state)
        BY <1>1, <3>2 DEF At, TaskOK, Holding, Sendable
      <4>2. /\ SaveInterrupted(task.plan, task.state)
            /\ lost \/ mem' = [mem EXCEPT ![task.plan] = task.state]
        BY <1>2, <1>3, <3>2 DEF At, Interrupted
      <4> QED
        BY <4>1, <4>2
    <3> QED
      BY <1>4, <3>1, <3>2
  <2>2. PlansOK'
    BY <1>1, <1>2, <2>1, StateRecorded DEF SaveInterrupted, lost
  <2> QED
    BY <2>2
<1>5. ASSUME ~At("receive"), ~At("record")
      PROVE  PlansOK'
  <2>1. /\ UNCHANGED recorded
        /\ saved' = saved \/ saved' = [saved EXCEPT ![task.plan] = NoState(task.plan)]
    BY <1>2, <1>5 DEF Interrupted, EraseInterrupted
  <2>2. lost \/ mem' = mem \/ mem' = [mem EXCEPT ![task.plan] = NoState(task.plan)]
    BY <1>3, <1>5
  <2>3. DOMAIN saved' = Plans /\ \A p \in Plans : saved'[p] \in {saved[p], NoState(p)}
    BY <1>1, <2>1 DEF PlansOK
  <2>4. DOMAIN mem' = Plans /\ \A p \in Plans : mem'[p] \in {mem[p], NoState(p)}
    BY <1>1, <2>2 DEF PlansOK, lost
  <2> QED
    BY <1>1, <1>2, <2>1, <2>3, <2>4, StateDropped
<1>6. PlansOK'
  BY <1>4, <1>5
<1>7. CASE task' = Idle
  BY <1>6, <1>7, IdleOK DEF SentInv
<1>8. CASE task' = [Evaluation EXCEPT !.todo = {q \in Plans : IsPendingEntryStage(mem'[q])}]
  <2>1. /\ DOMAIN task' = TaskFields
        /\ task'.pc = "evaluate" /\ task'.back = "evaluate"
        /\ task'.todo = {q \in Plans : IsPendingEntryStage(mem'[q])}
    BY <1>8, EvaluationFields DEF TaskFields
  <2> QED
    BY <1>6, <2>1, PassOK DEF SentInv
<1> QED
  BY <1>7, <1>8 DEF Fails, Crash

LEMMA WorldSent ==
  ASSUME SentInv,
         \/ Restore \/ TenSeconds
         \/ \E p \in Plans : GraceLost(p) \/ Lapse(p)
         \/ \E p \in Plans : \E l \in Legs(p) : Broker(p, l)
         \/ UNCHANGED vars
  PROVE  SentInv'
<1>1. DOMAIN task = TaskFields /\ cursor \in Nat /\ TaskOK /\ PlansOK
  BY DEF SentInv, TaskOK, PlansOK
<1>2. CASE Restore
  <2>1. UNCHANGED <<cursor, claimed, saved, recorded, task>> /\ task.pc = "idle"
    BY <1>2 DEF Restore, At
  <2>2. mem' = [p \in Plans |->
          IF p \in tracked /\ saved[p].stage # "Closed" THEN saved[p] ELSE NoState(p)]
    BY <1>2 DEF Restore
  <2>3. DOMAIN mem' = Plans /\ \A p \in Plans : mem'[p] \in {mem[p], saved[p], NoState(p)}
    BY <2>2
  <2>4. PlansOK'
    BY <1>1, <2>1, <2>3, StateDropped DEF PlansOK
  <2>5. TaskOK'
    BY <1>1, <2>1 DEF TaskOK, Holding, Intake
  <2> QED
    BY <2>4, <2>5 DEF SentInv
<1>3. CASE TenSeconds
  <2>1. /\ mem' = [p \in Plans |-> Waited(mem[p])]
        /\ saved' = [p \in Plans |-> Waited(saved[p])]
        /\ UNCHANGED <<cursor, claimed, recorded>>
    BY <1>3 DEF TenSeconds
  <2>2. ASSUME NEW p \in Plans, NEW s, StateOK(p, s)
        PROVE  /\ StateOK(p, Waited(s)) /\ (Sendable(p, s) => Sendable(p, Waited(s))')
               /\ IsPendingEntryStage(Waited(s)) <=> IsPendingEntryStage(s)
               /\ Behind(p, s) => Behind(p, Waited(s))'
    <3>1. Behind(p, Waited(s))' <=> Behind(p, Waited(s))
      BY <2>1 DEF Behind
    <3> QED
      BY <2>2, <3>1, WaitedOK DEF Sendable
  <2>3. \A p \in Plans : /\ mem'[p] = Waited(mem[p]) /\ saved'[p] = Waited(saved[p])
                         /\ StateOK(p, mem[p]) /\ StateOK(p, saved[p])
                         /\ Sendable(p, mem[p]) /\ Sendable(p, saved[p])
    BY <1>1, <2>1 DEF PlansOK
  <2>4. \A p \in Plans : /\ StateOK(p, mem'[p]) /\ StateOK(p, saved'[p])
                         /\ Sendable(p, mem[p])' /\ Sendable(p, saved[p])'
                         /\ IsPendingEntryStage(mem'[p]) <=> IsPendingEntryStage(mem[p])
    BY <2>2, <2>3 DEF Sendable
  <2>5. \A p \in Plans : \/ p \in claimed
                         \/ mem'[p] = NoState(p) /\ saved'[p] = NoState(p) /\ Unrecorded(p)'
    BY <1>1, <2>1, <2>3, NothingKnown DEF PlansOK, Unrecorded
  <2>6. PlansOK'
    BY <1>1, <2>1, <2>4, <2>5 DEF PlansOK, StateOK
  <2>7. /\ DOMAIN task' = TaskFields
        /\ task'.pc = task.pc /\ task'.back = task.back
        /\ task'.todo = task.todo /\ task'.plan = task.plan
        /\ task'.state \in {task.state, Waited(task.state)}
    BY <1>1, <1>3 DEF TenSeconds, TaskFields
  <2>8. task.pc \in Holding =>
          /\ task'.plan \in Plans \cap claimed /\ StateOK(task'.plan, task'.state)
          /\ task.back = "evaluate" => Behind(task.plan, task.state)'
          /\ task.back # "evaluate" => ~IsPendingEntryStage(task'.state)
    <3> SUFFICES ASSUME task.pc \in Holding
                 PROVE  /\ task'.plan \in Plans \cap claimed /\ StateOK(task'.plan, task'.state)
                        /\ task.back = "evaluate" => Behind(task.plan, task.state)'
                        /\ task.back # "evaluate" => ~IsPendingEntryStage(task'.state)
      OBVIOUS
    <3>1. PICK p, s :
             /\ p = task.plan /\ s = task.state /\ p \in Plans \cap claimed /\ StateOK(p, s)
             /\ task.back = "evaluate" => Behind(p, s)
             /\ task.back # "evaluate" => ~IsPendingEntryStage(s)
      BY <1>1 DEF TaskOK
    <3>2. Behind(p, s) => Behind(p, s)'
      BY <2>1 DEF Behind
    <3>3. task'.plan = p /\ task'.state \in {s, Waited(s)}
      BY <2>7, <3>1
    <3>4. CASE task'.state = s
      BY <3>1, <3>2, <3>3, <3>4 DEF Behind
    <3>5. CASE task'.state = Waited(s)
      <4>1. /\ StateOK(p, Waited(s))
            /\ IsPendingEntryStage(Waited(s)) <=> IsPendingEntryStage(s)
            /\ Behind(p, s) => Behind(p, Waited(s))'
        BY <2>2, <3>1
      <4>2. Behind(p, Waited(s))' => Behind(task.plan, task.state)'
        BY <3>3, <3>5 DEF Behind
      <4> QED
        BY <3>1, <3>3, <3>5, <4>1, <4>2
    <3> QED
      BY <3>3, <3>4, <3>5
  <2>9. TaskOK'
    BY <1>1, <2>1, <2>4, <2>7, <2>8 DEF TaskOK, StateOK, Unrecorded
  <2> QED
    BY <2>6, <2>9 DEF SentInv
<1>4. CASE UNCHANGED <<cursor, claimed, saved, recorded, mem, task>>
  BY <1>1, <1>4, TaskOnly DEF TaskOK, StateOK, Behind, Unrecorded, Holding, Intake
<1>5. ASSUME NEW p \in Plans, GraceLost(p) \/ Lapse(p)
      PROVE  UNCHANGED <<cursor, claimed, saved, recorded, mem, task>>
  BY <1>5 DEF GraceLost, Lapse, redis
<1>6. ASSUME NEW p \in Plans, NEW l \in Legs(p), Broker(p, l)
      PROVE  UNCHANGED <<cursor, claimed, saved, recorded, mem, task>>
  BY <1>6 DEF Broker, Trigger, FillLands, OwnerCancels, Becomes, redis
<1>7. CASE UNCHANGED vars
  BY <1>4, <1>7 DEF vars, redis
<1> QED
  BY <1>2, <1>3, <1>4, <1>5, <1>6, <1>7

\* Only legs of a plan are ever recorded.
LegsRecorded == \A p, l : <<p, l>> \in recorded => l \in Legs(p)

LEMMA RecordingLegs ==
  ASSUME LegsRecorded, NEW p, NEW s,
         recorded' = recorded \/ recorded' = recorded \cup Recording(p, s)
  PROVE  LegsRecorded'
BY DEF LegsRecorded, Recording

LEMMA InitSent == Init => SentInv
<1> SUFFICES ASSUME Init PROVE SentInv
  OBVIOUS
<1>1. PlansOK
  BY NoStateOK DEF Init, PlansOK, Unrecorded
<1>2. TaskOK
  BY IdleTask DEF Init, TaskOK, Holding, Intake
<1> QED
  BY <1>1, <1>2 DEF SentInv

LEMMA StepSent == SentInv /\ [Next]_vars => SentInv'
<1> SUFFICES ASSUME SentInv, [Next]_vars PROVE SentInv'
  OBVIOUS
<1>1. CASE Step
  BY <1>1, WorldSent, IntakeSent, EntrySent, ReconcileSent DEF Step
<1>2. CASE \E p \in Plans, l \in UNION {Legs(q) : q \in Plans} :
             l \in Legs(p) /\ (AdoptPosition(p, l) \/ Broker(p, l))
  BY <1>2, WorldSent, ReconcileSent
<1>3. CASE \E p \in Plans : GraceLost(p) \/ Lapse(p)
  BY <1>3, WorldSent
<1>4. CASE TenSeconds \/ UNCHANGED vars
  BY <1>4, WorldSent
<1> QED
  BY <1>1, <1>2, <1>3, <1>4, FaultsSent DEF Next

(* A leg that Redis ever recorded as submitted is never asked for again,      *)
(* whatever fails, restarts, is read a second time or is forgotten: the claim *)
(* keeps a plan from being received twice, a pending plan's state has gone    *)
(* past what was recorded, and any other state is never submitted from        *)
(* (ProcessTradePlanEntryAsync, SubmitEntryAsync, RestoreAsync).              *)
THEOREM LegsSentOnce == Spec => []RecordedNotResent
<1>1. Init => SentInv /\ LegsRecorded
  BY InitSent DEF Init, LegsRecorded
<1>2. SentInv /\ [Next]_vars => SentInv'
  BY StepSent
<1>3. LegsRecorded /\ [Next]_vars => LegsRecorded'
  <2> SUFFICES ASSUME LegsRecorded, [Next]_vars PROVE LegsRecorded'
    OBVIOUS
  <2>1. recorded' = recorded \/ \E p, s : recorded' = recorded \cup Recording(p, s)
    <3>1. CASE Receive \/ Record
      BY <3>1 DEF Receive, Record, Save
    <3>2. CASE Fails \/ Crash
      BY <3>2 DEF Fails, Crash, Interrupted, SaveInterrupted
    <3>3. CASE Restore \/ Poll \/ EntriesRead \/ Claim \/ Admit \/ Announce \/ SetCursor
      BY <3>3 DEF Restore, Poll, EntriesRead, Claim, Admit, Announce, SetCursor
    <3>4. CASE TellEnd \/ Forget \/ Refused \/ AmendStop \/ TellProgress \/ Submissions \/ PollEnds
      BY <3>4 DEF TellEnd, Forget, Refused, AmendStop, TellProgress, Submissions, PollEnds
    <3>5. CASE \E p \in Plans : Evaluate(p) \/ Reconcile(p) \/ GraceLost(p) \/ Lapse(p)
      BY <3>5 DEF Evaluate, Reconcile, GraceLost, Lapse
    <3>6. CASE \E type \in {"market", "limit"} : Send(type)
      BY <3>6 DEF Send
    <3>7. CASE \E p \in Plans, l \in UNION {Legs(q) : q \in Plans} :
                 l \in Legs(p) /\ (AdoptPosition(p, l) \/ Broker(p, l))
      BY <3>7 DEF AdoptPosition, Broker, Trigger, FillLands, OwnerCancels, Becomes
    <3>8. CASE TenSeconds \/ UNCHANGED vars
      BY <3>8 DEF TenSeconds, vars
    <3> QED
      BY <3>1, <3>2, <3>3, <3>4, <3>5, <3>6, <3>7, <3>8 DEF Next, Step
  <2> QED
    BY <2>1, RecordingLegs
<1>4. SentInv /\ LegsRecorded => RecordedNotResent
  <2> SUFFICES ASSUME SentInv, LegsRecorded, task.pc = "send", <<task.plan, Leg>> \in recorded
               PROVE  FALSE
    BY DEF RecordedNotResent, At
  <2>1. /\ task.plan \in Plans /\ StateOK(task.plan, task.state)
        /\ Behind(task.plan, task.state)
    BY DEF SentInv, TaskOK, Holding
  <2>2. Leg \in Legs(task.plan)
    BY DEF LegsRecorded
  <2>3. task.state.next \in Nat /\ Leg = task.state.next + 1
    BY <2>1 DEF StateOK, Leg
  <2>4. Leg =< task.state.next
    BY <2>1, <2>2 DEF Behind
  <2> QED
    BY <2>3, <2>4
<1> QED
  BY <1>1, <1>2, <1>3, <1>4, PTL DEF Spec

-----------------------------------------------------------------------------
(* The records of the runtime against the broker. A leg that is missing from  *)
(* a snapshot was past pending then, and ten seconds later no fill of it is   *)
(* still to show: only such a leg is called cancelled.                        *)

LegFits(o, leg) ==
  /\ leg = "filled"    => o = "open"
  /\ leg = "cancelled" => o = "cancelled"
  /\ leg = "pending"   => o # "none"
  /\ leg = "gone"      => o \in {"filling", "open", "cancelled"}
  /\ leg = "overdue"   => o \in {"open", "cancelled"}

Fits(p, s) == \A l \in Legs(p) : LegFits(order[p][l], s.legs[l])

OrdersOK ==
  /\ DOMAIN order = Plans
  /\ \A p \in Plans : DOMAIN order[p] = Legs(p)

RecordsFit == \A p \in Plans : Fits(p, mem[p]) /\ Fits(p, saved[p])

TaskFits == task.pc \in Holding => Fits(task.plan, task.state)

MatchInv == SentInv /\ OrdersOK /\ RecordsFit /\ TaskFits

\* Whatever the broker does with the orders, what fits goes on fitting.
Onward(o, n) ==
  \/ n = o
  \/ o = "none" /\ n \in {"pending", "open"}
  \/ o = "pending" /\ n \in {"filling", "cancelled"}
  \/ o = "filling" /\ n = "open"

OrdersGoOn == \A p \in Plans : \A l \in Legs(p) : Onward(order[p][l], order[p][l]')

LEMMA FitsOn ==
  ASSUME OrdersGoOn, NEW p \in Plans, NEW s, Fits(p, s)
  PROVE  Fits(p, s)'
BY DEF OrdersGoOn, Onward, Fits, LegFits

OrderBecomes(p, l, x) == order' = [order EXCEPT ![p][l] = x]

LEMMA OrderSet ==
  ASSUME OrdersOK, NEW p \in Plans, NEW l \in Legs(p), NEW x,
         OrderBecomes(p, l, x)
  PROVE  /\ OrdersOK'
         /\ order'[p][l] = x
         /\ \A q \in Plans : \A k \in Legs(q) : q # p \/ k # l => order'[q][k] = order[q][k]
<1>1. order' = [order EXCEPT ![p] = [@ EXCEPT ![l] = x]]
  BY DEF OrderBecomes
<1>2. /\ DOMAIN order' = Plans /\ order'[p] = [order[p] EXCEPT ![l] = x]
      /\ \A q \in Plans \ {p} : order'[q] = order[q]
  BY <1>1 DEF OrdersOK
<1> QED
  BY <1>2 DEF OrdersOK

LEMMA OrderMoves ==
  ASSUME OrdersOK, NEW p \in Plans, NEW l \in Legs(p), NEW x, Onward(order[p][l], x),
         OrderBecomes(p, l, x)
  PROVE  OrdersOK' /\ OrdersGoOn
<1>1. /\ OrdersOK' /\ order'[p][l] = x
      /\ \A q \in Plans : \A k \in Legs(q) : q # p \/ k # l => order'[q][k] = order[q][k]
  BY OrderSet
<1>2. ASSUME NEW q \in Plans, NEW k \in Legs(q)
      PROVE  Onward(order[q][k], order'[q][k])
  <2>1. CASE q = p /\ k = l
    BY <1>1, <2>1
  <2>2. CASE q # p \/ k # l
    BY <1>1, <2>2 DEF Onward
  <2> QED
    BY <2>1, <2>2
<1> QED
  BY <1>1, <1>2 DEF OrdersGoOn

LEMMA OrdersStay ==
  ASSUME OrdersOK, UNCHANGED order
  PROVE  OrdersOK' /\ OrdersGoOn
BY DEF OrdersOK, OrdersGoOn, Onward

LEMMA NothingFits ==
  ASSUME NEW p \in Plans
  PROVE  Fits(p, NoState(p)) /\ Fits(p, Received(p))
BY DEF Fits, LegFits, NoState, Received

LEMMA PlannedFits ==
  ASSUME NEW p \in Plans, NEW s, StateOK(p, s), Fits(p, s)
  PROVE  Fits(p, Planned(s))
<1>1. Planned(s).legs = [l \in Legs(p) |-> IF s.legs[l] = "none" THEN "planned" ELSE s.legs[l]]
  BY DEF StateOK, Planned
<1> QED
  BY <1>1 DEF Fits, LegFits

LEMMA PlacedLegs ==
  ASSUME NEW p \in Plans, NEW s, StateOK(p, s), NEW l, NEW x
  PROVE  \A k \in Legs(p) : Placed(p, s, l, x).legs[k] = IF k = l THEN x ELSE s.legs[k]
BY DEF StateOK, Placed

LEMMA FilledFits ==
  ASSUME NEW p \in Plans, NEW s, StateOK(p, s), Fits(p, s), NEW a,
         \A l \in Legs(p) : l \in a => order[p][l] = "open"
  PROVE  Fits(p, WithFilled(s, a))
<1>1. WithFilled(s, a).legs = [l \in Legs(p) |-> IF l \in a THEN "filled" ELSE s.legs[l]]
  BY DEF StateOK, WithFilled
<1> QED
  BY <1>1 DEF Fits, LegFits

LEMMA ReconciledFits ==
  ASSUME NEW p \in Plans, NEW s, StateOK(p, s), Fits(p, s)
  PROVE  Fits(p, Reconciled(p, s))
<1> DEFINE w == WithFilled(s, Adopted(p, s))
<1>1. Fits(p, w)
  BY FilledFits DEF Adopted
<1> HIDE DEF w
<1>2. Reconciled(p, s).legs = [l \in Legs(p) |->
        CASE order[p][l] = "pending" /\ w.legs[l] \in Waiting -> "pending"
          [] order[p][l] \in {"filling", "cancelled"}         -> Missing(w.legs[l])
          [] OTHER                                            -> w.legs[l]]
  BY DEF StateOK, Reconciled, w
<1>3. ASSUME NEW l \in Legs(p)
      PROVE  LegFits(order[p][l], Reconciled(p, s).legs[l])
  <2>1. LegFits(order[p][l], w.legs[l])
    BY <1>1 DEF Fits
  <2>2. CASE order[p][l] = "pending" /\ w.legs[l] \in Waiting
    BY <1>2, <2>2 DEF LegFits
  <2>3. CASE order[p][l] \in {"filling", "cancelled"}
    <3>1. Reconciled(p, s).legs[l] = Missing(w.legs[l])
      BY <1>2, <2>3
    <3> QED
      BY <2>1, <2>3, <3>1 DEF LegFits, Missing
  <2>4. CASE ~(order[p][l] = "pending" /\ w.legs[l] \in Waiting)
             /\ order[p][l] \notin {"filling", "cancelled"}
    <3>1. Reconciled(p, s).legs[l] = w.legs[l]
      BY <1>2, <2>4
    <3> QED
      BY <2>1, <3>1
  <2> QED
    BY <2>2, <2>3, <2>4
<1> QED
  BY <1>3 DEF Fits

LEMMA WaitedFits ==
  ASSUME NEW p \in Plans, NEW s, StateOK(p, s), Fits(p, s),
         \A l \in Legs(p) : order[p][l] # "filling"
  PROVE  Fits(p, Waited(s))
<1>1. Waited(s).legs = [l \in Legs(p) |-> IF s.legs[l] = "gone" THEN "overdue" ELSE s.legs[l]]
  BY DEF StateOK, Waited
<1> QED
  BY <1>1 DEF Fits, LegFits

\* A step that keeps every record, or takes it over from one that fits.
LEMMA FitsKept ==
  ASSUME MatchInv, SentInv', OrdersOK', OrdersGoOn,
         \A p \in Plans : /\ mem'[p] = mem[p] \/ Fits(p, mem'[p])
                          /\ saved'[p] = saved[p] \/ Fits(p, saved'[p]),
         task'.pc \in Holding =>
           \/ task.pc \in Holding /\ task'.plan = task.plan /\ task'.state = task.state
           \/ Fits(task.plan, task.state)'
  PROVE  MatchInv'
<1>1. ASSUME NEW p \in Plans
      PROVE  Fits(p, mem[p])' /\ Fits(p, saved[p])'
  <2>1. PICK m, s : m = mem'[p] /\ s = saved'[p]
    OBVIOUS
  <2>2. Fits(p, m) /\ Fits(p, s)
    BY <2>1 DEF MatchInv, RecordsFit
  <2>3. Fits(p, m)' /\ Fits(p, s)'
    BY <2>2, FitsOn
  <2> QED
    BY <2>1, <2>3 DEF Fits
<1>2. TaskFits'
  <2>1. CASE task.pc \in Holding /\ task'.plan = task.plan /\ task'.state = task.state
    <3>1. PICK p, s : p = task.plan /\ s = task.state /\ p \in Plans /\ Fits(p, s)
      BY <2>1 DEF MatchInv, TaskFits, SentInv, TaskOK
    <3>2. Fits(p, s)'
      BY <3>1, FitsOn
    <3>3. Fits(task.plan, task.state)'
      BY <2>1, <3>1, <3>2 DEF Fits
    <3> QED
      BY <3>3 DEF TaskFits
  <2> QED
    BY <2>1 DEF TaskFits
<1> QED
  BY <1>1, <1>2 DEF MatchInv, RecordsFit

\* The same when no order moves: the task takes a state of plan p over.
LEMMA TaskTakes ==
  ASSUME MatchInv, SentInv', UNCHANGED <<mem, saved, order>>,
         NEW p \in Plans, NEW s, Fits(p, s), task'.plan = p, task'.state = s
  PROVE  MatchInv'
<1>1. OrdersOK' /\ OrdersGoOn
  BY OrdersStay DEF MatchInv
<1>2. Fits(p, s)'
  BY FitsOn, <1>1
<1>3. Fits(task.plan, task.state)'
  BY <1>2 DEF Fits
<1> QED
  BY <1>1, <1>3, FitsKept

\* A step that works on no plan's state.
LEMMA TaskRests ==
  ASSUME MatchInv, SentInv', UNCHANGED <<mem, saved, order>>,
         task'.pc \in Holding =>
           task.pc \in Holding /\ task'.plan = task.plan /\ task'.state = task.state
  PROVE  MatchInv'
<1>1. OrdersOK' /\ OrdersGoOn
  BY OrdersStay DEF MatchInv
<1> QED
  BY <1>1, FitsKept

LEMMA IntakeFits ==
  ASSUME MatchInv, SentInv',
         Poll \/ EntriesRead \/ Claim \/ Admit \/ Receive \/ Announce \/ SetCursor
  PROVE  MatchInv'
<1> USE DEF At
<1>1. DOMAIN task = TaskFields /\ OrdersOK
  BY DEF MatchInv, SentInv, TaskOK
<1>2. CASE Poll \/ Admit \/ Announce
  <2>1. /\ UNCHANGED <<mem, saved, order>>
        /\ \E pc \in {"read", "cursor", "receive"} : Goto(pc)
    BY <1>2 DEF Poll, Admit, Announce, redis, world
  <2>2. task'.pc \notin Holding
    BY <1>1, <2>1, GotoFields DEF Holding
  <2> QED
    BY <2>1, <2>2, TaskRests
<1>3. CASE EntriesRead \/ Claim \/ SetCursor
  <2>1. task'.pc \notin Holding
    <3>1. CASE EntriesRead
      BY <3>1, EvaluationFields DEF EntriesRead, Holding
    <3>2. CASE Claim
      BY <1>1, <3>2 DEF Claim, Redelivered, TaskFields, Holding
    <3>3. CASE SetCursor
      BY <1>1, <3>3 DEF SetCursor, TaskFields, Holding
    <3> QED
      BY <1>3, <3>1, <3>2, <3>3
  <2>2. UNCHANGED <<mem, saved, order>>
    BY <1>3 DEF EntriesRead, Claim, SetCursor, redis, world
  <2> QED
    BY <2>1, <2>2, TaskRests
<1>4. CASE Receive
  <2>1. /\ mem' = [mem EXCEPT ![task.plan] = Received(task.plan)]
        /\ saved' = [saved EXCEPT ![task.plan] = Received(task.plan)]
        /\ UNCHANGED order /\ Goto("announce")
    BY <1>4 DEF Receive, Save, world
  <2>2. \A p \in Plans : /\ mem'[p] \in {mem[p], Received(p)}
                         /\ saved'[p] \in {saved[p], Received(p)}
    BY <2>1 DEF MatchInv, SentInv, PlansOK
  <2>3. task'.pc \notin Holding
    BY <1>1, <2>1, GotoFields DEF Holding
  <2>4. \A p \in Plans : /\ mem'[p] = mem[p] \/ Fits(p, mem'[p])
                         /\ saved'[p] = saved[p] \/ Fits(p, saved'[p])
    BY <2>2, NothingFits
  <2>5. OrdersOK' /\ OrdersGoOn
    BY <1>1, <2>1, OrdersStay
  <2> QED
    BY <2>3, <2>4, <2>5, FitsKept
<1> QED
  BY <1>2, <1>3, <1>4

\* The broker takes the order of the leg being sent.
LEMMA OrderTaken ==
  ASSUME OrdersOK, task.plan \in Plans, NEW type \in {"market", "limit"}, Accept(type)
  PROVE  /\ OrdersOK' /\ OrdersGoOn
         /\ Leg \in Legs(task.plan) =>
              order'[task.plan][Leg] = IF type = "market" THEN "open" ELSE "pending"
<1>1. PICK p, l, x : /\ p = task.plan /\ l = Leg /\ p \in Plans
                     /\ x = IF type = "market" THEN "open" ELSE "pending"
  OBVIOUS
<1>2. OrderBecomes(p, l, x) /\ order[p][l] = "none"
  BY <1>1 DEF Accept, OrderBecomes
<1>3. CASE l \in Legs(p)
  <2>1. Onward(order[p][l], x)
    BY <1>1, <1>2 DEF Onward
  <2> QED
    BY <1>1, <1>2, <1>3, <2>1, OrderMoves, OrderSet
<1>4. CASE l \notin Legs(p)
  <2>1. DOMAIN order[p] = Legs(p) /\ DOMAIN order = Plans
    BY <1>1 DEF OrdersOK
  <2>2. order' = [order EXCEPT ![p] = [@ EXCEPT ![l] = x]]
    BY <1>2 DEF OrderBecomes
  <2>3. /\ DOMAIN order' = Plans /\ DOMAIN order'[p] = Legs(p)
        /\ \A q \in Plans : q # p => order'[q] = order[q]
        /\ \A k \in Legs(p) : order'[p][k] = order[p][k]
    BY <1>1, <1>4, <2>1, <2>2
  <2>4. OrdersOK'
    BY <2>3 DEF OrdersOK
  <2>5. \A q \in Plans : \A k \in Legs(q) : order'[q][k] = order[q][k]
    BY <2>3
  <2>6. OrdersGoOn
    BY <2>5 DEF OrdersGoOn, Onward
  <2> QED
    BY <1>1, <1>4, <2>4, <2>6
<1> QED
  BY <1>3, <1>4

LEMMA EntryFits ==
  ASSUME MatchInv, SentInv',
         \/ \E p \in Plans : Evaluate(p)
         \/ TellEnd \/ Forget \/ Refused \/ AmendStop \/ Record \/ TellProgress
         \/ \E type \in {"market", "limit"} : Send(type)
  PROVE  MatchInv'
<1> USE DEF At
<1>1. DOMAIN task = TaskFields /\ OrdersOK /\ TaskOK /\ PlansOK
  BY DEF MatchInv, SentInv, TaskOK
<1>2. ASSUME NEW p \in Plans, Evaluate(p)
      PROVE  MatchInv'
  <2>1. UNCHANGED <<mem, saved, order>>
    BY <1>2 DEF Evaluate, redis, world
  <2>2. CASE task' = [task EXCEPT !.todo = @ \ {p}]
    <3>1. task'.pc = "evaluate"
      BY <1>1, <1>2, <2>2 DEF Evaluate, TaskFields
    <3> QED
      BY <2>1, <3>1, TaskRests DEF Holding
  <2>3. ASSUME NEW pc, task' = [task EXCEPT !.pc = pc, !.plan = p, !.state = Planned(mem[p])]
        PROVE  MatchInv'
    <3>1. task'.plan = p /\ task'.state = Planned(mem[p])
      BY <1>1, <2>3 DEF TaskFields
    <3>2. Fits(p, Planned(mem[p]))
      BY <1>1, PlannedFits DEF MatchInv, RecordsFit, PlansOK
    <3> QED
      BY <2>1, <3>1, <3>2, TaskTakes
  <2> QED
    BY <1>2, <2>2, <2>3 DEF Evaluate
<1>3. CASE TellEnd \/ AmendStop
  <2>1. UNCHANGED <<mem, saved, order>> /\ (Goto("forget") \/ (Goto("record") /\ task.pc = "amend"))
    BY <1>3 DEF TellEnd, AmendStop, keys, redis, world
  <2>2. task'.pc \in Holding =>
          task.pc \in Holding /\ task'.plan = task.plan /\ task'.state = task.state
    BY <1>1, <2>1, GotoFields DEF Holding
  <2> QED
    BY <2>1, <2>2, TaskRests
<1>4. CASE Refused
  <2>1. UNCHANGED <<mem, saved, order>> /\ task' = Idle
    BY <1>4 DEF Refused, redis, world
  <2> QED
    BY <2>1, TaskRests, IdleTask DEF Holding
<1>5. ASSUME NextPlan
      PROVE  task'.pc \notin Holding
  BY <1>1, <1>5, NextPlanFields DEF TaskOK, Holding
<1>6. CASE TellProgress
  BY <1>5, <1>6, TaskRests DEF TellProgress, world
<1>7. CASE Forget
  <2>1. /\ mem' = [mem EXCEPT ![task.plan] = NoState(task.plan)]
        /\ saved' = [saved EXCEPT ![task.plan] = NoState(task.plan)]
        /\ UNCHANGED order /\ NextPlan
    BY <1>7 DEF Forget, Erase, world
  <2>2. \A p \in Plans : /\ mem'[p] \in {mem[p], NoState(p)}
                         /\ saved'[p] \in {saved[p], NoState(p)}
    BY <1>1, <2>1 DEF PlansOK
  <2>3. \A p \in Plans : /\ mem'[p] = mem[p] \/ Fits(p, mem'[p])
                         /\ saved'[p] = saved[p] \/ Fits(p, saved'[p])
    BY <2>2, NothingFits
  <2> QED
    BY <1>1, <1>5, <2>1, <2>3, OrdersStay, FitsKept
<1>8. CASE Record
  <2>1. Fits(task.plan, task.state) /\ task.pc = "record"
    BY <1>8 DEF Record, MatchInv, TaskFits, Holding
  <2>2. /\ mem' = [mem EXCEPT ![task.plan] = task.state]
        /\ saved' = [saved EXCEPT ![task.plan] = task.state]
        /\ UNCHANGED order
        /\ NextPlan \/ \E pc : Goto(pc)
    BY <1>8 DEF Record, Save, world
  <2>3. \A p \in Plans : /\ mem'[p] = mem[p] \/ (p = task.plan /\ mem'[p] = task.state)
                         /\ saved'[p] = saved[p] \/ (p = task.plan /\ saved'[p] = task.state)
    BY <1>1, <2>2 DEF PlansOK
  <2>4. \A p \in Plans : /\ mem'[p] = mem[p] \/ Fits(p, mem'[p])
                         /\ saved'[p] = saved[p] \/ Fits(p, saved'[p])
    BY <2>1, <2>3
  <2>5. task'.pc \in Holding =>
          task.pc \in Holding /\ task'.plan = task.plan /\ task'.state = task.state
    BY <1>1, <1>5, <2>1, <2>2, GotoFields DEF Holding
  <2> QED
    BY <1>1, <2>2, <2>4, <2>5, OrdersStay, FitsKept
<1>9. ASSUME NEW type \in {"market", "limit"}, Send(type)
      PROVE  MatchInv'
  <2>1. PICK p, s, l, x :
          /\ p = task.plan /\ s = task.state /\ l = Leg
          /\ x = IF type = "market" THEN "filled" ELSE "pending"
    OBVIOUS
  <2>2. UNCHANGED <<mem, saved>> /\ Accept(type) /\ task.pc = "send"
    BY <1>9 DEF Send, redis
  <2>3. p \in Plans /\ StateOK(p, s) /\ Fits(p, s)
    BY <1>1, <2>1, <2>2 DEF TaskOK, Holding, MatchInv, TaskFits
  <2>4. /\ OrdersOK' /\ OrdersGoOn
        /\ l \in Legs(p) => order'[p][l] = IF type = "market" THEN "open" ELSE "pending"
    BY <1>1, <2>1, <2>2, <2>3, OrderTaken
  <2>5. task'.plan = p /\ task'.state = Placed(p, s, l, x)
    BY <1>1, <1>9, <2>1 DEF Send, TaskFields
  <2>6. \A k \in Legs(p) : Placed(p, s, l, x).legs[k] = IF k = l THEN x ELSE s.legs[k]
    BY <2>3, PlacedLegs
  <2>7. Fits(p, s)'
    BY <2>3, <2>4, FitsOn
  <2>8. \A k \in Legs(p) : LegFits(order'[p][k], Placed(p, s, l, x).legs[k])
    BY <2>1, <2>4, <2>6, <2>7 DEF Fits, LegFits
  <2>9. Fits(task.plan, task.state)'
    BY <2>5, <2>8 DEF Fits
  <2> QED
    BY <2>2, <2>4, <2>9, FitsKept
<1> QED
  BY <1>2, <1>3, <1>4, <1>6, <1>7, <1>8, <1>9

LEMMA ReconcileFits ==
  ASSUME MatchInv, SentInv',
         \/ Submissions \/ PollEnds
         \/ \E p \in Plans : Reconcile(p)
         \/ \E p \in Plans : \E l \in Legs(p) : AdoptPosition(p, l)
  PROVE  MatchInv'
<1>1. DOMAIN task = TaskFields /\ PlansOK
  BY DEF MatchInv, SentInv, TaskOK
<1>2. CASE Submissions \/ PollEnds
  <2>1. UNCHANGED <<mem, saved, order>>
    BY <1>2 DEF Submissions, PollEnds, redis, world
  <2>2. task'.pc \in {"reconcile", "idle"}
    BY <1>2, IdleTask DEF Submissions, PollEnds, Idle
  <2> QED
    BY <2>1, <2>2, TaskRests DEF Holding
<1>3. ASSUME NEW p \in Plans, Reconcile(p)
      PROVE  MatchInv'
  <2>1. UNCHANGED <<mem, saved, order>>
    BY <1>3 DEF Reconcile, redis, world
  <2>2. task'.plan = p /\ task'.state = Reconciled(p, mem[p])
    BY <1>1, <1>3 DEF Reconcile, TaskFields
  <2>3. Fits(p, Reconciled(p, mem[p]))
    BY <1>1, ReconciledFits DEF MatchInv, RecordsFit, PlansOK
  <2> QED
    BY <2>1, <2>2, <2>3, TaskTakes
<1>4. ASSUME NEW p \in Plans, NEW l \in Legs(p), AdoptPosition(p, l)
      PROVE  MatchInv'
  <2>1. UNCHANGED <<mem, saved, order>> /\ l \in Adopted(p, mem[p])
    BY <1>4 DEF AdoptPosition, redis, world
  <2>2. task'.plan = p /\ task'.state = WithFilled(mem[p], {l})
    BY <1>4 DEF AdoptPosition, Idle
  <2>3. Fits(p, WithFilled(mem[p], {l}))
    <3>1. \A k \in Legs(p) : k \in {l} => order[p][k] = "open"
      BY <2>1 DEF Adopted
    <3> QED
      BY <1>1, <3>1, FilledFits DEF MatchInv, RecordsFit, PlansOK
  <2> QED
    BY <2>1, <2>2, <2>3, TaskTakes
<1> QED
  BY <1>2, <1>3, <1>4

LEMMA FaultsFit ==
  ASSUME MatchInv, SentInv', Fails \/ Crash
  PROVE  MatchInv'
<1>1. DOMAIN task = TaskFields /\ OrdersOK /\ TaskOK /\ PlansOK
  BY DEF MatchInv, SentInv, TaskOK
<1>2. Interrupted
  BY DEF Fails, Crash
<1>3. OrdersOK' /\ OrdersGoOn
  <2>1. \/ UNCHANGED order
        \/ At("send") /\ \E type \in {"market", "limit"} : Accept(type)
    BY <1>2 DEF Interrupted
  <2>2. At("send") => task.plan \in Plans
    BY <1>1 DEF At, TaskOK, Holding
  <2> QED
    BY <1>1, <2>1, <2>2, OrdersStay, OrderTaken
<1>4. PICK s : /\ \/ UNCHANGED saved \/ saved' = [saved EXCEPT ![task.plan] = s]
               /\ \/ mem' = mem \/ mem' = [mem EXCEPT ![task.plan] = s]
                  \/ mem' = [p \in Plans |-> NoState(p)]
               /\ task.plan \in Plans => Fits(task.plan, s)
  <2>1. CASE At("receive")
    <3>1. /\ SaveInterrupted(task.plan, Received(task.plan))
          /\ \/ mem' = [mem EXCEPT ![task.plan] = Received(task.plan)]
             \/ mem' = [p \in Plans |-> NoState(p)]
      BY <1>2, <2>1 DEF At, Interrupted, Fails, Crash
    <3> QED
      BY <3>1, NothingFits DEF SaveInterrupted
  <2>2. CASE At("record")
    <3>1. /\ SaveInterrupted(task.plan, task.state)
          /\ \/ mem' = [mem EXCEPT ![task.plan] = task.state]
             \/ mem' = [p \in Plans |-> NoState(p)]
      BY <1>2, <2>2 DEF At, Interrupted, Fails, Crash
    <3>2. Fits(task.plan, task.state)
      BY <2>2 DEF At, MatchInv, TaskFits, Holding
    <3> QED
      BY <3>1, <3>2 DEF SaveInterrupted
  <2>3. CASE ~At("receive") /\ ~At("record")
    <3>1. \/ UNCHANGED saved
          \/ saved' = [saved EXCEPT ![task.plan] = NoState(task.plan)]
      BY <1>2, <2>3 DEF Interrupted, EraseInterrupted
    <3>2. \/ mem' = mem \/ mem' = [mem EXCEPT ![task.plan] = NoState(task.plan)]
          \/ mem' = [p \in Plans |-> NoState(p)]
      BY <2>3 DEF Fails, Crash
    <3> QED
      BY <3>1, <3>2, NothingFits
  <2> QED
    BY <2>1, <2>2, <2>3
<1>5. ASSUME NEW p \in Plans
      PROVE  /\ mem'[p] = mem[p] \/ Fits(p, mem'[p])
             /\ saved'[p] = saved[p] \/ Fits(p, saved'[p])
  <2>1. DOMAIN mem = Plans /\ DOMAIN saved = Plans
    BY <1>1 DEF PlansOK
  <2>2. mem'[p] \in {mem[p], NoState(p)} \/ (p = task.plan /\ mem'[p] = s)
    BY <1>4, <2>1
  <2>3. saved'[p] = saved[p] \/ (p = task.plan /\ saved'[p] = s)
    BY <1>4, <2>1
  <2> QED
    BY <1>4, <2>2, <2>3, NothingFits
<1>6. task'.pc \in {"idle", "evaluate"}
  <2>1. CASE task' = Idle
    BY <2>1, IdleTask
  <2>2. CASE task' = [Evaluation EXCEPT !.todo = {q \in Plans : IsPendingEntryStage(mem'[q])}]
    BY <2>2, EvaluationFields DEF TaskFields
  <2> QED
    BY <2>1, <2>2 DEF Fails, Crash
<1> QED
  BY <1>3, <1>5, <1>6, FitsKept DEF Holding

LEMMA WorldFits ==
  ASSUME MatchInv, SentInv',
         \/ Restore \/ TenSeconds
         \/ \E p \in Plans : GraceLost(p) \/ Lapse(p)
         \/ \E p \in Plans : \E l \in Legs(p) : Broker(p, l)
         \/ UNCHANGED vars
  PROVE  MatchInv'
<1>1. DOMAIN task = TaskFields /\ OrdersOK /\ TaskOK /\ PlansOK
  BY DEF MatchInv, SentInv, TaskOK
<1>2. CASE Restore
  <2>1. /\ mem' = [p \in Plans |->
             IF p \in tracked /\ saved[p].stage # "Closed" THEN saved[p] ELSE NoState(p)]
        /\ UNCHANGED <<saved, order, task>>
    BY <1>2 DEF Restore
  <2>2. \A p \in Plans : Fits(p, mem'[p])
    BY <2>1, NothingFits DEF MatchInv, RecordsFit
  <2> QED
    BY <1>1, <2>1, <2>2, OrdersStay, FitsKept
<1>3. CASE TenSeconds
  <2>1. /\ mem' = [p \in Plans |-> Waited(mem[p])]
        /\ saved' = [p \in Plans |-> Waited(saved[p])]
        /\ \A p \in Plans : ~Some(order[p], {"filling"})
        /\ UNCHANGED order
    BY <1>3 DEF TenSeconds, world
  <2>2. \A p \in Plans : \A l \in Legs(p) : order[p][l] # "filling"
    BY <1>1, <2>1 DEF OrdersOK, Some
  <2>3. ASSUME NEW p \in Plans
        PROVE  Fits(p, mem'[p]) /\ Fits(p, saved'[p])
    <3>1. StateOK(p, mem[p]) /\ Fits(p, mem[p]) /\ StateOK(p, saved[p]) /\ Fits(p, saved[p])
      BY <1>1 DEF PlansOK, MatchInv, RecordsFit
    <3>2. Fits(p, Waited(mem[p])) /\ Fits(p, Waited(saved[p]))
      BY <2>2, <3>1, WaitedFits
    <3> QED
      BY <2>1, <3>2
  <2>4. OrdersOK' /\ OrdersGoOn
    BY <1>1, <2>1, OrdersStay
  <2>5. /\ task'.pc = task.pc /\ task'.plan = task.plan
        /\ task'.state \in {task.state, Waited(task.state)}
    BY <1>1, <1>3 DEF TenSeconds, TaskFields
  <2>6. ASSUME task'.pc \in Holding, task'.state = Waited(task.state)
        PROVE  Fits(task.plan, task.state)'
    <3>1. PICK p, s : /\ p = task.plan /\ s = task.state /\ p \in Plans
                      /\ StateOK(p, s) /\ Fits(p, s)
      BY <1>1, <2>5, <2>6 DEF TaskOK, MatchInv, TaskFits
    <3>2. Fits(p, Waited(s))
      BY <2>2, <3>1, WaitedFits
    <3>3. PICK w : w = Waited(s) /\ task'.plan = p /\ task'.state = w
      BY <2>5, <2>6, <3>1
    <3>4. Fits(p, w)'
      BY <2>4, <3>1, <3>2, <3>3, FitsOn
    <3> QED
      BY <3>3, <3>4 DEF Fits
  <2> QED
    BY <2>3, <2>4, <2>5, <2>6, FitsKept
<1>4. CASE UNCHANGED <<mem, saved, task, order>>
  BY <1>1, <1>4, OrdersStay, FitsKept
<1>5. ASSUME NEW p \in Plans, GraceLost(p) \/ Lapse(p)
      PROVE  UNCHANGED <<mem, saved, task, order>>
  BY <1>5 DEF GraceLost, Lapse, redis
<1>6. ASSUME NEW p \in Plans, NEW l \in Legs(p), Broker(p, l)
      PROVE  MatchInv'
  <2>1. PICK x : OrderBecomes(p, l, x) /\ Onward(order[p][l], x) /\ UNCHANGED <<mem, saved, task>>
    BY <1>6 DEF Broker, Trigger, FillLands, OwnerCancels, Becomes, OrderBecomes, Onward, redis
  <2> QED
    BY <1>1, <2>1, OrderMoves, FitsKept
<1>7. CASE UNCHANGED vars
  BY <1>4, <1>7 DEF vars, redis, world
<1> QED
  BY <1>2, <1>3, <1>4, <1>5, <1>6, <1>7

LEMMA InitMatch == Init => MatchInv
<1> SUFFICES ASSUME Init PROVE MatchInv
  OBVIOUS
<1>1. SentInv
  BY InitSent
<1>2. OrdersOK
  BY DEF Init, OrdersOK
<1>3. RecordsFit
  BY NothingFits DEF Init, RecordsFit
<1>4. TaskFits
  BY IdleTask DEF Init, TaskFits, Holding
<1> QED
  BY <1>1, <1>2, <1>3, <1>4 DEF MatchInv

LEMMA StepMatch == MatchInv /\ [Next]_vars => MatchInv'
<1> SUFFICES ASSUME MatchInv, [Next]_vars PROVE MatchInv'
  OBVIOUS
<1>1. SentInv'
  BY StepSent DEF MatchInv
<1>2. CASE Step
  BY <1>1, <1>2, WorldFits, IntakeFits, EntryFits, ReconcileFits DEF Step
<1>3. CASE \E p \in Plans, l \in UNION {Legs(q) : q \in Plans} :
             l \in Legs(p) /\ (AdoptPosition(p, l) \/ Broker(p, l))
  BY <1>1, <1>3, WorldFits, ReconcileFits
<1>4. CASE \E p \in Plans : GraceLost(p) \/ Lapse(p)
  BY <1>1, <1>4, WorldFits
<1>5. CASE TenSeconds \/ UNCHANGED vars
  BY <1>1, <1>5, WorldFits
<1> QED
  BY <1>1, <1>2, <1>3, <1>4, <1>5, FaultsFit DEF Next

(* What is recorded of a leg, in memory or in Redis, was so at the broker: no *)
(* leg is called filled that has no position, and none cancelled that may     *)
(* still fill (ReconcileSubmittedLegsAsync).                                  *)
THEOREM RecordsAreTrue == Spec => []RecordsMatchBroker
<1>1. Init => MatchInv
  BY InitMatch
<1>2. MatchInv /\ [Next]_vars => MatchInv'
  BY StepMatch
<1>3. MatchInv => RecordsMatchBroker
  <2> SUFFICES ASSUME MatchInv, NEW p \in Plans, NEW l \in Legs(p), NEW s \in {mem[p], saved[p]}
               PROVE  /\ s.legs[l] = "filled" => order[p][l] = "open"
                      /\ s.legs[l] = "cancelled" => order[p][l] = "cancelled"
                      /\ s.legs[l] \in Waiting => order[p][l] # "none"
    BY DEF RecordsMatchBroker
  <2>1. LegFits(order[p][l], s.legs[l])
    BY DEF MatchInv, RecordsFit, Fits
  <2> QED
    BY <2>1 DEF LegFits, Waiting
<1> QED
  BY <1>1, <1>2, <1>3, PTL DEF Spec

-----------------------------------------------------------------------------
(* What the states of a plan have in common, wherever one is kept. A plan is  *)
(* called closed only when every leg of it was cancelled: a leg that was      *)
(* never planned stands only beside a filled one, or in a plan not begun.     *)

Cancelled(p, s) == \A l \in Legs(p) : s.legs[l] = "cancelled"
Unbegun(p, s)   == \A l \in Legs(p) : s.legs[l] = "none"
Begun(p, s)     == \A l \in Legs(p) : s.legs[l] # "none"
Entered(p, s)   == \E l \in Legs(p) : s.legs[l] = "filled"

Whole(p, s) ==
  /\ \A l \in Legs(p) : s.legs[l] \in LegStages
  /\ Unbegun(p, s) \/ Begun(p, s) \/ Entered(p, s)

Sound(p, s) ==
  /\ StateOK(p, s) /\ Whole(p, s)
  /\ s.stage = "Closed" => Cancelled(p, s)
  /\ s.stage = "None" => Unbegun(p, s)

LEMMA DerivedSound ==
  ASSUME NEW p, NEW s, StateOK(p, s), Whole(p, s), s.stage = DeriveRuntimeStage(s.legs)
  PROVE  Sound(p, s)
<1>1. s.stage # "None"
  BY DEF DeriveRuntimeStage
<1>2. ASSUME s.stage = "Closed"
      PROVE  Cancelled(p, s)
  <2>1. /\ Some(s.legs, {"cancelled"}) /\ ~Some(s.legs, Waiting \cup {"planned"})
        /\ ~Some(s.legs, {"filled"})
    BY <1>2 DEF DeriveRuntimeStage, Waiting, Some
  <2>2. \A l \in Legs(p) : s.legs[l] \in {"none", "cancelled"}
    BY <2>1 DEF StateOK, Whole, LegStages, Some, Waiting
  <2>3. \E l \in Legs(p) : s.legs[l] = "cancelled"
    BY <2>1 DEF StateOK, Some
  <2> QED
    BY <2>2, <2>3 DEF Whole, Unbegun, Begun, Entered, Cancelled
<1> QED
  BY <1>1, <1>2 DEF Sound

LEMMA NothingSound ==
  ASSUME NEW p
  PROVE  Sound(p, NoState(p)) /\ Sound(p, Received(p)) /\ Received(p).stage = "Received"
<1>1. /\ NoState(p).stage = "None" /\ Received(p).stage = "Received"
      /\ NoState(p).legs = [l \in Legs(p) |-> "none"]
      /\ Received(p).legs = [l \in Legs(p) |-> "none"]
  BY DEF NoState, Received
<1> QED
  BY <1>1, NoStateOK, ReceivedOK DEF Sound, Whole, Unbegun, LegStages

LEMMA PlannedSound ==
  ASSUME NEW p, NEW s, Sound(p, s), IsPendingEntryStage(s)
  PROVE  Sound(p, Planned(s)) /\ Begun(p, Planned(s)) /\ IsPendingEntryStage(Planned(s))
<1> DEFINE legs == [l \in DOMAIN s.legs |-> IF s.legs[l] = "none" THEN "planned" ELSE s.legs[l]]
<1>1. Planned(s) = [s EXCEPT !.legs = legs]
  BY DEF Planned
<1>2. /\ DOMAIN legs = Legs(p)
      /\ \A l \in Legs(p) : legs[l] # "none" /\ legs[l] \in LegStages
  BY DEF Sound, StateOK, Whole, LegStages
<1> HIDE DEF legs
<1>3. /\ DOMAIN Planned(s) = {"stage", "next", "legs"} /\ Planned(s).stage = s.stage
      /\ Planned(s).legs = legs /\ Planned(s).next = s.next
  BY <1>1 DEF Sound, StateOK
<1>4. StateOK(p, Planned(s))
  BY <1>2, <1>3 DEF Sound, StateOK
<1> QED
  BY <1>2, <1>3, <1>4 DEF Sound, Whole, Begun, IsPendingEntryStage

LEMMA PlacedSound ==
  ASSUME NEW p, NEW s, Sound(p, s), Begun(p, s), NEW l, l \in Nat,
         NEW x \in {"filled", "pending"}
  PROVE  Sound(p, Placed(p, s, l, x)) /\ Begun(p, Placed(p, s, l, x))
         /\ Placed(p, s, l, x).stage # "None"
<1> DEFINE legs == [s.legs EXCEPT ![l] = x]
           st == IF l < LegCount(p) THEN "Submitting" ELSE DeriveRuntimeStage(legs)
<1>1. Placed(p, s, l, x) = [stage |-> st, next |-> l, legs |-> legs]
  BY DEF Placed
<1>2. DOMAIN legs = Legs(p) /\ \A k \in Legs(p) : legs[k] # "none" /\ legs[k] \in LegStages
  BY DEF Sound, StateOK, Whole, Begun, LegStages
<1>3. st = "Submitting" \/ st = DeriveRuntimeStage(legs)
  OBVIOUS
<1>4. DeriveRuntimeStage(legs) # "None"
  BY DEF DeriveRuntimeStage
<1> HIDE DEF legs, st
<1>5. PICK d : d = Placed(p, s, l, x) /\ DOMAIN d = {"stage", "next", "legs"}
               /\ d.stage = st /\ d.legs = legs /\ d.next = l
  BY <1>1
<1>6. StateOK(p, d) /\ Whole(p, d) /\ Begun(p, d)
  BY <1>2, <1>5 DEF StateOK, Whole, Begun
<1>7. Sound(p, d)
  <2>1. CASE st = "Submitting"
    BY <1>5, <1>6, <2>1 DEF Sound
  <2>2. CASE st = DeriveRuntimeStage(legs)
    BY <1>5, <1>6, <2>2, DerivedSound
  <2> QED
    BY <1>3, <2>1, <2>2
<1> QED
  BY <1>3, <1>4, <1>5, <1>6, <1>7

LEMMA FilledSound ==
  ASSUME NEW p, NEW s, Sound(p, s), NEW a
  PROVE  Sound(p, WithFilled(s, a)) /\ WithFilled(s, a).stage # "None"
<1> DEFINE ls == [l \in DOMAIN s.legs |-> IF l \in a THEN "filled" ELSE s.legs[l]]
<1>a. PICK legs, st : legs = ls /\ st = DeriveRuntimeStage(legs)
  OBVIOUS
<1>b. WithFilled(s, a) = [s EXCEPT !.legs = legs, !.stage = st]
  BY <1>a DEF WithFilled
<1>c. legs = [l \in Legs(p) |-> IF l \in a THEN "filled" ELSE s.legs[l]]
  BY <1>a DEF Sound, StateOK
<1> HIDE DEF ls
<1>1. PICK d : /\ d = WithFilled(s, a) /\ legs = d.legs
               /\ legs = [l \in Legs(p) |-> IF l \in a THEN "filled" ELSE s.legs[l]]
               /\ d.stage = DeriveRuntimeStage(legs)
  BY <1>a, <1>b, <1>c DEF Sound, StateOK
<1>2. \A l \in Legs(p) : legs[l] = IF l \in a THEN "filled" ELSE s.legs[l]
  BY <1>1
<1>3. Whole(p, d)
  <2>1. \A l \in Legs(p) : d.legs[l] \in LegStages
    BY <1>1, <1>2 DEF Sound, Whole, LegStages
  <2>2. CASE \E l \in Legs(p) : l \in a
    BY <1>1, <1>2, <2>1, <2>2 DEF Whole, Entered
  <2>3. CASE \A l \in Legs(p) : l \notin a
    BY <1>1, <1>2, <2>1, <2>3 DEF Sound, Whole, Unbegun, Begun, Entered
  <2> QED
    BY <2>2, <2>3
<1>4. StateOK(p, d)
  BY <1>1, AdoptedOK DEF Sound
<1>5. d.stage # "None"
  BY <1>1 DEF DeriveRuntimeStage
<1> QED
  BY <1>1, <1>3, <1>4, <1>5, DerivedSound

LEMMA ReconciledSound ==
  ASSUME NEW p, NEW s, Sound(p, s)
  PROVE  Sound(p, Reconciled(p, s)) /\ Reconciled(p, s).stage # "None"
<1>1. PICK w : w = WithFilled(s, Adopted(p, s)) /\ Sound(p, w)
  BY FilledSound
<1> DEFINE ls == [l \in Legs(p) |->
               CASE order[p][l] = "pending" /\ w.legs[l] \in Waiting -> "pending"
                 [] order[p][l] \in {"filling", "cancelled"}         -> Missing(w.legs[l])
                 [] OTHER                                            -> w.legs[l]]
<1>a. PICK legs, st : legs = ls /\ st = DeriveRuntimeStage(legs)
  OBVIOUS
<1>b. Reconciled(p, s) = [s EXCEPT !.legs = legs, !.stage = st]
  BY <1>1, <1>a DEF Reconciled
<1>2. PICK d :
         /\ d = Reconciled(p, s) /\ legs = d.legs
         /\ legs = [l \in Legs(p) |->
               CASE order[p][l] = "pending" /\ w.legs[l] \in Waiting -> "pending"
                 [] order[p][l] \in {"filling", "cancelled"}         -> Missing(w.legs[l])
                 [] OTHER                                            -> w.legs[l]]
         /\ d.stage = DeriveRuntimeStage(legs)
  BY <1>a, <1>b DEF Sound, StateOK
<1> HIDE DEF ls
<1>3. ASSUME NEW l \in Legs(p)
      PROVE  /\ legs[l] \in LegStages
             /\ legs[l] = "none" <=> w.legs[l] = "none"
             /\ w.legs[l] = "filled" => legs[l] = "filled"
  <2>1. w.legs[l] \in LegStages
    BY <1>1 DEF Sound, Whole
  <2>2. \/ legs[l] = "pending" /\ w.legs[l] \in Waiting
        \/ legs[l] = Missing(w.legs[l])
        \/ legs[l] = w.legs[l]
    BY <1>2
  <2> QED
    BY <2>1, <2>2 DEF LegStages, Waiting, Missing
<1>4. Whole(p, d)
  BY <1>1, <1>2, <1>3 DEF Sound, Whole, Unbegun, Begun, Entered
<1>5. StateOK(p, d)
  BY <1>2, ReconciledOK DEF Sound
<1>6. d.stage # "None"
  BY <1>2 DEF DeriveRuntimeStage
<1> QED
  BY <1>2, <1>4, <1>5, <1>6, DerivedSound

LEMMA WaitedSound ==
  ASSUME NEW p, NEW s, Sound(p, s)
  PROVE  /\ Sound(p, Waited(s)) /\ Waited(s).stage = s.stage
         /\ Begun(p, s) => Begun(p, Waited(s))
<1> DEFINE ls == [l \in DOMAIN s.legs |-> IF s.legs[l] = "gone" THEN "overdue" ELSE s.legs[l]]
<1>a. PICK legs : legs = ls
  OBVIOUS
<1>b. Waited(s) = [s EXCEPT !.legs = legs]
  BY <1>a DEF Waited
<1>c. legs = [l \in Legs(p) |-> IF s.legs[l] = "gone" THEN "overdue" ELSE s.legs[l]]
  BY <1>a DEF Sound, StateOK
<1> HIDE DEF ls
<1>1. PICK d : /\ d = Waited(s) /\ d.stage = s.stage
               /\ d.legs = [l \in Legs(p) |-> IF s.legs[l] = "gone" THEN "overdue" ELSE s.legs[l]]
  BY <1>b, <1>c DEF Sound, StateOK
<1>2. StateOK(p, d)
  BY <1>1, WaitedOK DEF Sound
<1>3. \A l \in Legs(p) : d.legs[l] = IF s.legs[l] = "gone" THEN "overdue" ELSE s.legs[l]
  BY <1>1
<1>4. Whole(p, d)
  BY <1>3 DEF Sound, Whole, LegStages, Unbegun, Begun, Entered
<1> QED
  BY <1>1, <1>2, <1>3, <1>4 DEF Sound, Cancelled, Unbegun, Begun

\* Every state that is kept is sound, and so is the one that is worked on.
RecordsSound == \A p \in Plans : Sound(p, mem[p]) /\ Sound(p, saved[p])

TaskSound == task.pc \in Holding =>
  /\ Sound(task.plan, task.state) /\ task.state.stage # "None"
  /\ task.back = "evaluate" => Begun(task.plan, task.state)

SoundInv == SentInv /\ RecordsSound /\ TaskSound

LEMMA SoundKept ==
  ASSUME SoundInv, SentInv',
         \A p \in Plans : /\ mem'[p] = mem[p] \/ Sound(p, mem'[p])
                          /\ saved'[p] = saved[p] \/ Sound(p, saved'[p]),
         task'.pc \in Holding =>
           \/ /\ task.pc \in Holding /\ task'.plan = task.plan
              /\ task'.state = task.state /\ task'.back = task.back
           \/ TaskSound'
  PROVE  SoundInv'
<1>1. RecordsSound'
  BY DEF SoundInv, RecordsSound
<1>2. TaskSound'
  BY DEF SoundInv, TaskSound
<1> QED
  BY <1>1, <1>2 DEF SoundInv

LEMMA TaskSoundKept ==
  ASSUME SoundInv, SentInv', UNCHANGED <<mem, saved>>,
         task'.pc \in Holding =>
           \/ /\ task.pc \in Holding /\ task'.plan = task.plan
              /\ task'.state = task.state /\ task'.back = task.back
           \/ TaskSound'
  PROVE  SoundInv'
BY SoundKept

LEMMA IntakeSound ==
  ASSUME SoundInv, SentInv',
         Poll \/ EntriesRead \/ Claim \/ Admit \/ Receive \/ Announce \/ SetCursor
  PROVE  SoundInv'
<1>1. DOMAIN task = TaskFields
  BY DEF SoundInv, SentInv, TaskOK
<1>2. CASE Poll \/ Admit \/ Announce
  <2>1. UNCHANGED <<mem, saved>> /\ \E pc \in {"read", "cursor", "receive"} : Goto(pc)
    BY <1>2 DEF Poll, Admit, Announce, redis
  <2>2. task'.pc \notin Holding
    BY <1>1, <2>1, GotoFields DEF Holding
  <2> QED
    BY <2>1, <2>2, TaskSoundKept
<1>3. CASE EntriesRead \/ Claim \/ SetCursor
  <2>1. task'.pc \notin Holding
    <3>1. CASE EntriesRead
      BY <3>1, EvaluationFields DEF EntriesRead, Holding
    <3>2. CASE Claim
      BY <1>1, <3>2 DEF Claim, Redelivered, TaskFields, Holding
    <3>3. CASE SetCursor
      BY <1>1, <3>3 DEF SetCursor, TaskFields, Holding
    <3> QED
      BY <1>3, <3>1, <3>2, <3>3
  <2>2. UNCHANGED <<mem, saved>>
    BY <1>3 DEF EntriesRead, Claim, SetCursor, redis
  <2> QED
    BY <2>1, <2>2, TaskSoundKept
<1>4. CASE Receive
  <2>1. /\ mem' = [mem EXCEPT ![task.plan] = Received(task.plan)]
        /\ saved' = [saved EXCEPT ![task.plan] = Received(task.plan)]
        /\ Goto("announce")
    BY <1>4 DEF Receive, Save
  <2>2. \A p \in Plans : /\ mem'[p] \in {mem[p], Received(p)}
                         /\ saved'[p] \in {saved[p], Received(p)}
    BY <2>1 DEF SoundInv, SentInv, PlansOK
  <2>3. task'.pc \notin Holding
    BY <1>1, <2>1, GotoFields DEF Holding
  <2>4. \A p \in Plans : /\ mem'[p] = mem[p] \/ Sound(p, mem'[p])
                         /\ saved'[p] = saved[p] \/ Sound(p, saved'[p])
    BY <2>2, NothingSound
  <2> QED
    BY <2>3, <2>4, SoundKept
<1> QED
  BY <1>2, <1>3, <1>4

LEMMA EntrySound ==
  ASSUME SoundInv, SentInv',
         \/ \E p \in Plans : Evaluate(p)
         \/ TellEnd \/ Forget \/ Refused \/ AmendStop \/ Record \/ TellProgress
         \/ \E type \in {"market", "limit"} : Send(type)
  PROVE  SoundInv'
<1> USE DEF At
<1>1. DOMAIN task = TaskFields /\ TaskOK /\ PlansOK
  BY DEF SoundInv, SentInv, TaskOK
<1>2. ASSUME NEW p \in Plans, Evaluate(p)
      PROVE  SoundInv'
  <2>1. UNCHANGED <<mem, saved>> /\ task.pc = "evaluate" /\ p \in task.todo
    BY <1>2 DEF Evaluate, redis
  <2>2. CASE task' = [task EXCEPT !.todo = @ \ {p}]
    <3>1. task'.pc = "evaluate"
      BY <1>1, <2>1, <2>2 DEF TaskFields
    <3> QED
      BY <2>1, <3>1, TaskSoundKept DEF Holding
  <2>3. ASSUME NEW pc, task' = [task EXCEPT !.pc = pc, !.plan = p, !.state = Planned(mem[p])]
        PROVE  SoundInv'
    <3>1. task'.plan = p /\ task'.state = Planned(mem[p])
      BY <1>1, <2>3 DEF TaskFields
    <3>2. Sound(p, mem[p]) /\ IsPendingEntryStage(mem[p])
      BY <1>1, <2>1 DEF SoundInv, RecordsSound, TaskOK
    <3>3. /\ Sound(p, Planned(mem[p])) /\ Begun(p, Planned(mem[p]))
          /\ Planned(mem[p]).stage # "None"
      BY <3>2, PlannedSound DEF IsPendingEntryStage
    <3>4. TaskSound'
      BY <3>1, <3>3 DEF TaskSound
    <3> QED
      BY <2>1, <3>4, TaskSoundKept
  <2> QED
    BY <1>2, <2>2, <2>3 DEF Evaluate
<1>3. CASE TellEnd \/ AmendStop
  <2>1. UNCHANGED <<mem, saved>> /\ (Goto("forget") \/ (Goto("record") /\ task.pc = "amend"))
    BY <1>3 DEF TellEnd, AmendStop, keys, redis
  <2>2. task'.pc \in Holding =>
          /\ task.pc \in Holding /\ task'.plan = task.plan
          /\ task'.state = task.state /\ task'.back = task.back
    BY <1>1, <2>1, GotoFields DEF Holding
  <2> QED
    BY <2>1, <2>2, TaskSoundKept
<1>4. CASE Refused
  <2>1. UNCHANGED <<mem, saved>> /\ task' = Idle
    BY <1>4 DEF Refused, redis
  <2> QED
    BY <2>1, TaskSoundKept, IdleTask DEF Holding
<1>5. ASSUME NextPlan
      PROVE  task'.pc \notin Holding
  BY <1>1, <1>5, NextPlanFields DEF TaskOK, Holding
<1>6. CASE TellProgress
  BY <1>5, <1>6, TaskSoundKept DEF TellProgress
<1>7. CASE Forget
  <2>1. /\ mem' = [mem EXCEPT ![task.plan] = NoState(task.plan)]
        /\ saved' = [saved EXCEPT ![task.plan] = NoState(task.plan)]
        /\ NextPlan
    BY <1>7 DEF Forget, Erase
  <2>2. \A p \in Plans : /\ mem'[p] \in {mem[p], NoState(p)}
                         /\ saved'[p] \in {saved[p], NoState(p)}
    BY <1>1, <2>1 DEF PlansOK
  <2>3. \A p \in Plans : /\ mem'[p] = mem[p] \/ Sound(p, mem'[p])
                         /\ saved'[p] = saved[p] \/ Sound(p, saved'[p])
    BY <2>2, NothingSound
  <2> QED
    BY <1>5, <2>1, <2>3, SoundKept
<1>8. CASE Record
  <2>1. Sound(task.plan, task.state) /\ task.pc = "record"
    BY <1>8 DEF Record, SoundInv, TaskSound, Holding
  <2>2. /\ mem' = [mem EXCEPT ![task.plan] = task.state]
        /\ saved' = [saved EXCEPT ![task.plan] = task.state]
        /\ NextPlan \/ \E pc : Goto(pc)
    BY <1>8 DEF Record, Save
  <2>3. \A p \in Plans : /\ mem'[p] = mem[p] \/ (p = task.plan /\ mem'[p] = task.state)
                         /\ saved'[p] = saved[p] \/ (p = task.plan /\ saved'[p] = task.state)
    BY <1>1, <2>2 DEF PlansOK
  <2>4. \A p \in Plans : /\ mem'[p] = mem[p] \/ Sound(p, mem'[p])
                         /\ saved'[p] = saved[p] \/ Sound(p, saved'[p])
    BY <2>1, <2>3
  <2>5. task'.pc \in Holding =>
          /\ task.pc \in Holding /\ task'.plan = task.plan
          /\ task'.state = task.state /\ task'.back = task.back
    BY <1>1, <1>5, <2>1, <2>2, GotoFields DEF Holding
  <2> QED
    BY <2>4, <2>5, SoundKept
<1>9. ASSUME NEW type \in {"market", "limit"}, Send(type)
      PROVE  SoundInv'
  <2>1. PICK p, s, l, x :
          /\ p = task.plan /\ s = task.state /\ l = Leg
          /\ x = IF type = "market" THEN "filled" ELSE "pending"
    OBVIOUS
  <2>2. UNCHANGED <<mem, saved>> /\ task.pc = "send"
    BY <1>9 DEF Send, redis
  <2>3. Sound(p, s) /\ Begun(p, s) /\ l \in Nat
    BY <1>1, <2>1, <2>2 DEF TaskOK, Holding, SoundInv, TaskSound, Sound, StateOK, Leg
  <2>4. task'.plan = p /\ task'.state = Placed(p, s, l, x)
    BY <1>1, <1>9, <2>1 DEF Send, TaskFields
  <2>5. TaskSound'
    BY <2>1, <2>3, <2>4, PlacedSound DEF TaskSound
  <2> QED
    BY <2>2, <2>5, TaskSoundKept
<1> QED
  BY <1>2, <1>3, <1>4, <1>6, <1>7, <1>8, <1>9

LEMMA ReconcileSound ==
  ASSUME SoundInv, SentInv',
         \/ Submissions \/ PollEnds
         \/ \E p \in Plans : Reconcile(p)
         \/ \E p \in Plans : \E l \in Legs(p) : AdoptPosition(p, l)
  PROVE  SoundInv'
<1>1. DOMAIN task = TaskFields /\ TaskOK
  BY DEF SoundInv, SentInv, TaskOK
<1>2. CASE Submissions \/ PollEnds
  <2>1. UNCHANGED <<mem, saved>>
    BY <1>2 DEF Submissions, PollEnds, redis
  <2>2. task'.pc \in {"reconcile", "idle"}
    BY <1>2, IdleTask DEF Submissions, PollEnds, Idle
  <2> QED
    BY <2>1, <2>2, TaskSoundKept DEF Holding
<1>3. ASSUME NEW p \in Plans, Reconcile(p)
      PROVE  SoundInv'
  <2>1. UNCHANGED <<mem, saved>> /\ task.back = "reconcile"
    BY <1>1, <1>3 DEF Reconcile, redis, At, TaskOK
  <2>2. task'.plan = p /\ task'.state = Reconciled(p, mem[p]) /\ task'.back = task.back
    BY <1>1, <1>3 DEF Reconcile, TaskFields
  <2>3. Sound(p, Reconciled(p, mem[p])) /\ Reconciled(p, mem[p]).stage # "None"
    BY ReconciledSound DEF SoundInv, RecordsSound
  <2>4. TaskSound'
    BY <2>1, <2>2, <2>3 DEF TaskSound
  <2> QED
    BY <2>1, <2>4, TaskSoundKept
<1>4. ASSUME NEW p \in Plans, NEW l \in Legs(p), AdoptPosition(p, l)
      PROVE  SoundInv'
  <2>1. UNCHANGED <<mem, saved>>
    BY <1>4 DEF AdoptPosition, redis
  <2>2. task'.plan = p /\ task'.state = WithFilled(mem[p], {l}) /\ task'.back = "idle"
    BY <1>4 DEF AdoptPosition, Idle
  <2>3. Sound(p, WithFilled(mem[p], {l})) /\ WithFilled(mem[p], {l}).stage # "None"
    BY FilledSound DEF SoundInv, RecordsSound
  <2>4. TaskSound'
    BY <2>2, <2>3 DEF TaskSound
  <2> QED
    BY <2>1, <2>4, TaskSoundKept
<1> QED
  BY <1>2, <1>3, <1>4

\* What a step cut off in the middle leaves: the new state s of its plan, in
\* Redis, in memory, in both or in neither, or nothing in memory at all.
LEMMA CutOffState ==
  ASSUME SoundInv, Fails \/ Crash
  PROVE  \E s :
    /\ \/ UNCHANGED saved
       \/ saved' = [saved EXCEPT ![task.plan] = s]
    /\ \/ mem' = mem \/ mem' = [mem EXCEPT ![task.plan] = s]
       \/ mem' = [p \in Plans |-> NoState(p)]
    /\ Sound(task.plan, s)
    /\ s.stage = "None" \/ At("receive") \/ At("record")
<1>1. Interrupted
  BY DEF Fails, Crash
<1>2. CASE At("receive")
  <2>1. /\ SaveInterrupted(task.plan, Received(task.plan))
        /\ \/ mem' = [mem EXCEPT ![task.plan] = Received(task.plan)]
           \/ mem' = [p \in Plans |-> NoState(p)]
    BY <1>1, <1>2 DEF At, Interrupted, Fails, Crash
  <2> QED
    BY <1>2, <2>1, NothingSound DEF SaveInterrupted
<1>3. CASE At("record")
  <2>1. /\ SaveInterrupted(task.plan, task.state)
        /\ \/ mem' = [mem EXCEPT ![task.plan] = task.state]
           \/ mem' = [p \in Plans |-> NoState(p)]
    BY <1>1, <1>3 DEF At, Interrupted, Fails, Crash
  <2>2. Sound(task.plan, task.state)
    BY <1>3 DEF At, SoundInv, TaskSound, Holding
  <2> QED
    BY <1>3, <2>1, <2>2 DEF SaveInterrupted
<1>4. CASE ~At("receive") /\ ~At("record")
  <2>1. \/ UNCHANGED saved
        \/ saved' = [saved EXCEPT ![task.plan] = NoState(task.plan)]
    BY <1>1, <1>4 DEF Interrupted, EraseInterrupted
  <2>2. \/ mem' = mem \/ mem' = [mem EXCEPT ![task.plan] = NoState(task.plan)]
        \/ mem' = [p \in Plans |-> NoState(p)]
    BY <1>4 DEF Fails, Crash
  <2> QED
    BY <2>1, <2>2, NothingSound, NothingKnown
<1> QED
  BY <1>2, <1>3, <1>4

LEMMA FaultsSound ==
  ASSUME SoundInv, SentInv', Fails \/ Crash
  PROVE  SoundInv'
<1>1. DOMAIN mem = Plans /\ DOMAIN saved = Plans
  BY DEF SoundInv, SentInv, PlansOK
<1>2. PICK s : /\ \/ UNCHANGED saved
                  \/ saved' = [saved EXCEPT ![task.plan] = s]
               /\ \/ mem' = mem \/ mem' = [mem EXCEPT ![task.plan] = s]
                  \/ mem' = [p \in Plans |-> NoState(p)]
               /\ Sound(task.plan, s)
  BY CutOffState
<1>3. ASSUME NEW p \in Plans
      PROVE  /\ mem'[p] = mem[p] \/ Sound(p, mem'[p])
             /\ saved'[p] = saved[p] \/ Sound(p, saved'[p])
  <2>1. mem'[p] \in {mem[p], NoState(p)} \/ (p = task.plan /\ mem'[p] = s)
    BY <1>1, <1>2
  <2>2. saved'[p] = saved[p] \/ (p = task.plan /\ saved'[p] = s)
    BY <1>1, <1>2
  <2> QED
    BY <1>2, <2>1, <2>2, NothingSound
<1>4. task'.pc \in {"idle", "evaluate"}
  <2>1. CASE task' = Idle
    BY <2>1, IdleTask
  <2>2. CASE task' = [Evaluation EXCEPT !.todo = {q \in Plans : IsPendingEntryStage(mem'[q])}]
    BY <2>2, EvaluationFields DEF TaskFields
  <2> QED
    BY <2>1, <2>2 DEF Fails, Crash
<1> QED
  BY <1>3, <1>4, SoundKept DEF Holding

LEMMA WorldSound ==
  ASSUME SoundInv, SentInv',
         \/ Restore \/ TenSeconds
         \/ \E p \in Plans : GraceLost(p) \/ Lapse(p)
         \/ \E p \in Plans : \E l \in Legs(p) : Broker(p, l)
         \/ UNCHANGED vars
  PROVE  SoundInv'
<1>1. DOMAIN task = TaskFields
  BY DEF SoundInv, SentInv, TaskOK
<1>2. CASE Restore
  <2>1. /\ mem' = [p \in Plans |->
             IF p \in tracked /\ saved[p].stage # "Closed" THEN saved[p] ELSE NoState(p)]
        /\ UNCHANGED <<saved, task>>
    BY <1>2 DEF Restore
  <2>2. \A p \in Plans : Sound(p, mem'[p])
    BY <2>1, NothingSound DEF SoundInv, RecordsSound
  <2> QED
    BY <2>1, <2>2, SoundKept
<1>3. CASE TenSeconds
  <2>1. /\ mem' = [p \in Plans |-> Waited(mem[p])]
        /\ saved' = [p \in Plans |-> Waited(saved[p])]
    BY <1>3 DEF TenSeconds
  <2>2. \A p \in Plans : Sound(p, mem'[p]) /\ Sound(p, saved'[p])
    BY <2>1, WaitedSound DEF SoundInv, RecordsSound
  <2>3. /\ task'.pc = task.pc /\ task'.plan = task.plan /\ task'.back = task.back
        /\ task'.state \in {task.state, Waited(task.state)}
    BY <1>1, <1>3 DEF TenSeconds, TaskFields
  <2>4. ASSUME task'.pc \in Holding, task'.state = Waited(task.state)
        PROVE  TaskSound'
    <3>1. PICK p, s : /\ p = task.plan /\ s = task.state /\ Sound(p, s) /\ s.stage # "None"
                      /\ task.back = "evaluate" => Begun(p, s)
      BY <2>3, <2>4 DEF SoundInv, TaskSound
    <3>2. /\ Sound(p, Waited(s)) /\ Waited(s).stage # "None"
          /\ Begun(p, s) => Begun(p, Waited(s))
      BY <3>1, WaitedSound
    <3> QED
      BY <2>3, <2>4, <3>1, <3>2 DEF TaskSound
  <2> QED
    BY <2>2, <2>3, <2>4, SoundKept
<1>4. CASE UNCHANGED <<mem, saved, task>>
  BY <1>4, SoundKept
<1>5. ASSUME NEW p \in Plans, GraceLost(p) \/ Lapse(p)
      PROVE  UNCHANGED <<mem, saved, task>>
  BY <1>5 DEF GraceLost, Lapse, redis
<1>6. ASSUME NEW p \in Plans, NEW l \in Legs(p), Broker(p, l)
      PROVE  UNCHANGED <<mem, saved, task>>
  BY <1>6 DEF Broker, Trigger, FillLands, OwnerCancels, Becomes, redis
<1>7. CASE UNCHANGED vars
  BY <1>4, <1>7 DEF vars, redis
<1> QED
  BY <1>2, <1>3, <1>4, <1>5, <1>6, <1>7

LEMMA StepSound ==
  ASSUME SoundInv, SentInv', [Next]_vars
  PROVE  SoundInv'
<1>1. CASE Step
  BY <1>1, WorldSound, IntakeSound, EntrySound, ReconcileSound DEF Step
<1>2. CASE \E p \in Plans, l \in UNION {Legs(q) : q \in Plans} :
             l \in Legs(p) /\ (AdoptPosition(p, l) \/ Broker(p, l))
  BY <1>2, WorldSound, ReconcileSound
<1>3. CASE \E p \in Plans : GraceLost(p) \/ Lapse(p)
  BY <1>3, WorldSound
<1>4. CASE TenSeconds \/ UNCHANGED vars
  BY <1>4, WorldSound
<1> QED
  BY <1>1, <1>2, <1>3, <1>4, FaultsSound DEF Next

-----------------------------------------------------------------------------
(* One live plan. A plan is known while the memory holds it or a restart      *)
(* would find it; of any two known plans one was ended. While the memory is   *)
(* complete it holds every known plan that was not, so that the admission of  *)
(* a plan, which looks at the memory alone, sees them all.                    *)

Known(p) == mem[p].stage # "None" \/ (p \in tracked /\ saved[p].stage # "None")

Rivals == \A p, q \in Plans : p # q /\ Known(p) /\ Known(q) => Ended(p) \/ Ended(q)

Complete == restored => \A p \in Plans : Known(p) => mem[p].stage # "None" \/ Ended(p)

TaskLive ==
  /\ task.pc # "idle" => restored
  /\ task.pc = "receive" => \A q \in Plans \ {task.plan} : mem[q].stage = "None" \/ Ended(q)
  /\ task.pc \in Holding => mem[task.plan].stage # "None"
  /\ task.pc \in {"expire", "reject", "forget"} => task.plan \in Plans
  /\ task.pc = "forget" => Ended(task.plan)
  /\ task.back = "reconcile" => \A q \in task.todo : q = task.plan \/ mem[q].stage # "None"
  /\ task.pc = "reconcile" => \A q \in task.todo : mem[q].stage # "None"

LiveInv == MatchInv /\ SoundInv /\ Told /\ Rivals /\ Complete /\ TaskLive

LEMMA OrdersStep ==
  ASSUME OrdersOK, TaskOK, [Next]_vars
  PROVE  OrdersGoOn
<1>1. ASSUME UNCHANGED order
      PROVE  OrdersGoOn
  BY <1>1, OrdersStay
<1>2. CASE Restore \/ Poll \/ EntriesRead \/ Claim \/ Admit \/ Receive \/ Announce \/ SetCursor
  BY <1>1, <1>2 DEF Restore, Poll, EntriesRead, Claim, Admit, Receive, Announce, SetCursor, world
<1>3. CASE TellEnd \/ Forget \/ Refused \/ AmendStop \/ Record \/ TellProgress
  BY <1>1, <1>3 DEF TellEnd, Forget, Refused, AmendStop, Record, TellProgress, world
<1>4. CASE Submissions \/ PollEnds \/ TenSeconds \/ UNCHANGED vars
  BY <1>1, <1>4 DEF Submissions, PollEnds, TenSeconds, vars, world
<1>5. ASSUME NEW p \in Plans, Evaluate(p) \/ Reconcile(p) \/ GraceLost(p) \/ Lapse(p)
      PROVE  OrdersGoOn
  BY <1>1, <1>5 DEF Evaluate, Reconcile, GraceLost, Lapse, world
<1>6. ASSUME NEW type \in {"market", "limit"}, Send(type)
      PROVE  OrdersGoOn
  <2>1. task.plan \in Plans
    BY <1>6 DEF Send, At, TaskOK, Holding
  <2> QED
    BY <1>6, <2>1, OrderTaken DEF Send
<1>7. ASSUME NEW p \in Plans, NEW l \in Legs(p), AdoptPosition(p, l) \/ Broker(p, l)
      PROVE  OrdersGoOn
  <2>1. CASE AdoptPosition(p, l)
    BY <1>1, <2>1 DEF AdoptPosition, world
  <2>2. CASE Broker(p, l)
    <3>1. PICK x : OrderBecomes(p, l, x) /\ Onward(order[p][l], x)
      BY <2>2 DEF Broker, Trigger, FillLands, OwnerCancels, Becomes, OrderBecomes, Onward
    <3> QED
      BY <3>1, OrderMoves
  <2> QED
    BY <1>7, <2>1, <2>2
<1>8. CASE Fails \/ Crash
  <2>1. \/ UNCHANGED order
        \/ At("send") /\ \E type \in {"market", "limit"} : Accept(type)
    BY <1>8 DEF Fails, Crash, Interrupted
  <2>2. At("send") => task.plan \in Plans
    BY DEF At, TaskOK, Holding
  <2> QED
    BY <1>1, <2>1, <2>2, OrderTaken
<1> QED
  BY <1>2, <1>3, <1>4, <1>5, <1>6, <1>7, <1>8 DEF Next, Step

\* Nothing revives a plan that was ended.
LEMMA EndedStays ==
  ASSUME LiveInv, [Next]_vars, NEW p \in Plans, Ended(p)
  PROVE  Ended(p)'
<1>1. OrdersGoOn
  BY OrdersStep DEF LiveInv, MatchInv, SentInv
<1>2. Told' /\ Priority(lifecycle[p]) =< Priority(lifecycle'[p])
  BY LifecycleStep DEF LiveInv
<1>3. CASE lifecycle[p] \in {"rejected", "expired"}
  <2>1. Priority(lifecycle[p]) = 100
    BY <1>3 DEF Priority
  <2>2. lifecycle'[p] \in Lifecycles
    BY <1>2 DEF Told
  <2>3. \A u \in Lifecycles \ {"rejected", "expired"} : Priority(u) \in 10 .. 50
    BY DEF Priority, Lifecycles
  <2>4. lifecycle'[p] \in {"rejected", "expired"}
    BY <1>2, <2>1, <2>2, <2>3
  <2> QED
    BY <2>4 DEF Ended
<1>4. CASE \A l \in Legs(p) : order[p][l] = "cancelled"
  BY <1>1, <1>4 DEF Ended, OrdersGoOn, Onward
<1> QED
  BY <1>3, <1>4 DEF Ended

LEMMA ClosedIsEnded ==
  ASSUME NEW p \in Plans, NEW s, Sound(p, s), Fits(p, s), s.stage = "Closed"
  PROVE  Ended(p)
BY DEF Sound, Cancelled, Fits, LegFits, Ended

\* A step after which no plan is known that was not, and one that makes plan w
\* known while every other known plan was ended.
LEMMA RivalsKept ==
  ASSUME LiveInv, [Next]_vars, \A p \in Plans : Known(p)' => Known(p)
  PROVE  Rivals'
BY EndedStays DEF LiveInv, Rivals

LEMMA RivalsNew ==
  ASSUME LiveInv, [Next]_vars, NEW w \in Plans,
         \A q \in Plans \ {w} : (Known(q) => Ended(q)) /\ (Known(q)' => Known(q))
  PROVE  Rivals'
BY EndedStays DEF Rivals

\* A step that changes nothing that is known.
LEMMA Quiet ==
  ASSUME LiveInv, [Next]_vars, MatchInv', SoundInv', UNCHANGED <<mem, saved, tracked, restored>>,
         TaskLive'
  PROVE  LiveInv'
<1>1. \A p \in Plans : Known(p)' <=> Known(p)
  BY DEF Known
<1>2. Rivals'
  BY <1>1, RivalsKept
<1>3. Complete'
  BY <1>1, EndedStays DEF LiveInv, Complete
<1> QED
  BY <1>2, <1>3, LifecycleStep DEF LiveInv

\* While a plan is being received every other known plan was ended.
LEMMA ReceivedAlone ==
  ASSUME LiveInv, At("receive"), NEW q \in Plans \ {task.plan}, Known(q)
  PROVE  Ended(q)
BY DEF LiveInv, Complete, TaskLive, At

LEMMA IdleLive ==
  ASSUME task' = Idle
  PROVE  TaskLive'
BY IdleTask DEF TaskLive, Holding

\* A task that is neither receiving, forgetting, reconciling nor holding.
LEMMA PlainTask ==
  ASSUME restored', task'.back # "reconcile",
         task'.pc \notin {"receive", "expire", "reject", "forget", "reconcile"} \cup Holding
  PROVE  TaskLive'
BY DEF TaskLive

LEMMA IntakeLive ==
  ASSUME LiveInv, [Next]_vars, MatchInv', SoundInv',
         Poll \/ EntriesRead \/ Claim \/ Admit \/ Receive \/ Announce \/ SetCursor
  PROVE  LiveInv'
<1> USE DEF At
<1>1. /\ DOMAIN task = TaskFields /\ TaskOK /\ PlansOK /\ TaskLive
      /\ task.pc \in Intake => task.back = "idle"
  BY DEF LiveInv, MatchInv, SentInv, TaskOK
<1>2. CASE Poll \/ Announce \/ Claim \/ SetCursor \/ EntriesRead
  <2>1. UNCHANGED <<mem, saved, tracked, restored>> /\ restored
    BY <1>1, <1>2 DEF Poll, Announce, Claim, SetCursor, EntriesRead, redis, keys, TaskLive
  <2>2. /\ task'.back # "reconcile"
        /\ task'.pc \in {"read", "cursor", "admit", "evaluate"}
    <3>1. CASE Poll \/ Announce
      <4>1. \E pc \in {"read", "cursor"} : Goto(pc)
        BY <3>1 DEF Poll, Announce
      <4>2. task.back = "idle"
        BY <1>1, <3>1 DEF Poll, Announce, Intake
      <4> QED
        BY <1>1, <4>1, <4>2, GotoFields
    <3>2. CASE Claim \/ SetCursor
      <4>1. task.back = "idle"
        BY <1>1, <3>2 DEF Claim, SetCursor, Intake
      <4> QED
        BY <1>1, <3>2, <4>1 DEF Claim, SetCursor, Redelivered, TaskFields
    <3>3. CASE EntriesRead
      BY <3>3, EvaluationFields DEF EntriesRead
    <3> QED
      BY <1>2, <3>1, <3>2, <3>3
  <2>3. TaskLive'
    BY <2>1, <2>2, PlainTask DEF Holding
  <2> QED
    BY <2>1, <2>3, Quiet
<1>3. CASE Admit
  <2>1. UNCHANGED <<mem, saved, tracked, restored>> /\ restored /\ task.back = "idle"
    BY <1>1, <1>3 DEF Admit, keys, TaskLive, Intake
  <2>2. CASE Goto("cursor")
    BY <1>1, <2>1, <2>2, GotoFields, PlainTask, Quiet DEF Holding
  <2>3. CASE Goto("receive") /\ ~HasBlockingSameDirectionLivePlan(task.plan)
    <3>1. ASSUME NEW q \in Plans \ {task.plan}
          PROVE  mem[q].stage = "None" \/ Ended(q)
      <4>1. mem[q].stage \in {"None", "Closed"}
        BY <2>3 DEF HasBlockingSameDirectionLivePlan
      <4>2. Sound(q, mem[q]) /\ Fits(q, mem[q])
        BY DEF LiveInv, SoundInv, RecordsSound, MatchInv, RecordsFit
      <4> QED
        BY <4>1, <4>2, ClosedIsEnded
    <3>2. /\ task'.pc = "receive" /\ task'.back = task.back /\ task'.plan = task.plan
      BY <1>1, <2>3, GotoFields
    <3>3. \A q \in Plans \ {task'.plan} : mem'[q].stage = "None" \/ Ended(q)'
      BY <2>1, <3>1, <3>2, EndedStays
    <3>4. TaskLive'
      BY <2>1, <3>2, <3>3 DEF TaskLive, Holding
    <3> QED
      BY <2>1, <3>4, Quiet
  <2> QED
    BY <1>3, <2>2, <2>3 DEF Admit
<1>4. CASE Receive
  <2>1. PICK w : w = task.plan /\ w \in Plans
    BY <1>1, <1>4 DEF Receive, TaskOK, Intake
  <2>2. /\ mem' = [mem EXCEPT ![w] = Received(w)]
        /\ saved' = [saved EXCEPT ![w] = Received(w)]
        /\ tracked' = tracked \cup {w}
        /\ UNCHANGED restored /\ Goto("announce") /\ task.pc = "receive"
    BY <1>4, <2>1 DEF Receive, Save
  <2>3. /\ mem'[w].stage # "None"
        /\ \A q \in Plans \ {w} : /\ mem'[q] = mem[q] /\ saved'[q] = saved[q]
                                  /\ q \in tracked' <=> q \in tracked
    BY <1>1, <2>1, <2>2, NothingSound DEF PlansOK
  <2>4. \A q \in Plans \ {w} : Known(q)' <=> Known(q)
    BY <2>3 DEF Known
  <2>5. Rivals'
    BY <2>1, <2>2, <2>4, ReceivedAlone, RivalsNew
  <2>6. Complete'
    BY <2>2, <2>3, <2>4, EndedStays DEF LiveInv, Complete
  <2>7. TaskLive'
    <3>1. restored' /\ task'.back # "reconcile" /\ task'.pc = "announce"
      BY <1>1, <2>2, GotoFields DEF TaskLive, Intake
    <3> QED
      BY <3>1, PlainTask DEF Holding
  <2> QED
    BY <2>5, <2>6, <2>7, LifecycleStep DEF LiveInv
<1> QED
  BY <1>2, <1>3, <1>4

LEMMA EndOfPlanLive ==
  ASSUME LiveInv, NextPlan, restored', \A q \in Plans \ {task.plan} : mem'[q] = mem[q]
  PROVE  TaskLive'
<1>1. /\ task'.pc = task.back /\ task'.back = task.back
      /\ task'.todo = task.todo \ {task.plan}
      /\ task.back \in {"idle", "evaluate", "reconcile"} /\ task.todo \subseteq Plans
  BY NextPlanFields DEF LiveInv, MatchInv, SentInv, TaskOK
<1>2. task.back = "reconcile" => \A q \in task'.todo : mem'[q].stage # "None"
  BY <1>1 DEF LiveInv, TaskLive
<1> QED
  BY <1>1, <1>2 DEF TaskLive, Holding

LEMMA EntryLive ==
  ASSUME LiveInv, [Next]_vars, MatchInv', SoundInv',
         \/ \E p \in Plans : Evaluate(p)
         \/ TellEnd \/ Forget \/ Refused \/ AmendStop \/ Record \/ TellProgress
         \/ \E type \in {"market", "limit"} : Send(type)
  PROVE  LiveInv'
<1> USE DEF At
<1>1. DOMAIN task = TaskFields /\ TaskOK /\ PlansOK /\ TaskLive
  BY DEF LiveInv, MatchInv, SentInv, TaskOK
<1>2. ASSUME NEW p \in Plans, Evaluate(p)
      PROVE  LiveInv'
  <2>1. /\ UNCHANGED <<mem, saved, tracked, restored>> /\ restored
        /\ task.back = "evaluate" /\ mem[p].stage # "None" /\ task.pc = "evaluate"
    BY <1>1, <1>2 DEF Evaluate, redis, TaskLive, TaskOK, IsPendingEntryStage
  <2>2. CASE task' = [task EXCEPT !.todo = @ \ {p}]
    <3>1. task'.pc = task.pc /\ task'.back = task.back
      BY <1>1, <2>2 DEF TaskFields
    <3> QED
      BY <2>1, <3>1, PlainTask, Quiet DEF Holding
  <2>3. ASSUME NEW pc \in {"expire", "reject", "send"},
               task' = [task EXCEPT !.pc = pc, !.plan = p, !.state = Planned(mem[p])]
        PROVE  LiveInv'
    <3>1. task'.pc = pc /\ task'.back = task.back /\ task'.plan = p
      BY <1>1, <2>3 DEF TaskFields
    <3>2. TaskLive'
      BY <2>1, <3>1 DEF TaskLive
    <3> QED
      BY <2>1, <3>2, Quiet
  <2> QED
    BY <1>2, <2>2, <2>3 DEF Evaluate
<1>3. CASE TellEnd
  <2>1. PICK p, s : /\ p = task.plan /\ p \in Plans /\ s \in {"expired", "rejected"}
                    /\ PersistPlanExecutionState(p, s)
    BY <1>1, <1>3 DEF TellEnd, TaskLive
  <2>2. /\ UNCHANGED <<mem, saved, tracked, restored>> /\ Goto("forget") /\ restored
    BY <1>1, <1>3 DEF TellEnd, keys, TaskLive
  <2>3. lifecycle'[p] \in {"rejected", "expired"}
    <3>1. Told /\ \A u \in Lifecycles : Priority(u) \in 10 .. 100
      BY DEF LiveInv, Priority, Lifecycles
    <3>2. Priority(s) = 100
      BY <2>1 DEF Priority
    <3>3. ~(Priority(lifecycle[p]) > Priority(s))
      BY <2>1, <3>1, <3>2 DEF Told
    <3>4. lifecycle'[p] = s
      BY <2>1, <3>1, <3>3 DEF PersistPlanExecutionState, Told
    <3> QED
      BY <2>1, <3>4
  <2>4. Ended(p)'
    BY <2>3 DEF Ended
  <2>5. /\ task'.pc = "forget" /\ task'.back = task.back /\ task'.plan = p
        /\ task'.todo = task.todo
    BY <1>1, <2>1, <2>2, GotoFields
  <2>6. Ended(task.plan)'
    BY <2>4, <2>5 DEF Ended
  <2>7. TaskLive'
    BY <1>1, <2>1, <2>2, <2>5, <2>6 DEF TaskLive, Holding
  <2> QED
    BY <2>2, <2>7, Quiet
<1>4. CASE Refused
  <2>1. UNCHANGED <<mem, saved, tracked, restored>> /\ task' = Idle
    BY <1>4 DEF Refused, redis
  <2> QED
    BY <2>1, IdleLive, Quiet
<1>5. CASE AmendStop
  <2>1. /\ UNCHANGED <<mem, saved, tracked, restored>> /\ Goto("record") /\ task.pc = "amend"
        /\ restored
    BY <1>1, <1>5 DEF AmendStop, redis, TaskLive
  <2>2. /\ task'.pc = "record" /\ task'.back = task.back /\ task'.plan = task.plan
        /\ task'.todo = task.todo
    BY <1>1, <2>1, GotoFields
  <2>3. TaskLive'
    BY <1>1, <2>1, <2>2 DEF TaskLive, Holding
  <2> QED
    BY <2>1, <2>3, Quiet
<1>6. CASE TellProgress
  <2>1. UNCHANGED <<mem, saved, tracked, restored>> /\ NextPlan /\ restored
    BY <1>1, <1>6 DEF TellProgress, keys, TaskLive
  <2> QED
    BY <2>1, EndOfPlanLive, Quiet
<1>7. CASE Forget
  <2>1. PICK w : w = task.plan /\ w \in Plans /\ Ended(w)
    BY <1>1, <1>7 DEF Forget, TaskLive
  <2>2. /\ mem' = [mem EXCEPT ![w] = NoState(w)]
        /\ saved' = [saved EXCEPT ![w] = NoState(w)]
        /\ tracked' = tracked \ {w} /\ UNCHANGED restored /\ restored /\ NextPlan
    BY <1>1, <1>7, <2>1 DEF Forget, Erase, TaskLive
  <2>3. /\ ~Known(w)'
        /\ \A q \in Plans \ {w} : mem'[q] = mem[q] /\ saved'[q] = saved[q]
    BY <1>1, <2>1, <2>2, NothingKnown DEF PlansOK, Known
  <2>4. \A q \in Plans \ {w} : Known(q)' <=> Known(q)
    BY <2>2, <2>3 DEF Known
  <2>5. Rivals'
    BY <2>3, <2>4, RivalsKept
  <2>6. Complete'
    BY <2>2, <2>3, <2>4, EndedStays DEF LiveInv, Complete
  <2>7. TaskLive'
    BY <2>1, <2>2, <2>3, EndOfPlanLive
  <2> QED
    BY <2>5, <2>6, <2>7, LifecycleStep DEF LiveInv
<1>8. CASE Record
  <2>1. PICK w, s : /\ w = task.plan /\ s = task.state /\ w \in Plans
                    /\ mem[w].stage # "None" /\ s.stage # "None"
                    /\ Sound(w, s) /\ Fits(w, s)
    BY <1>1, <1>8 DEF Record, TaskOK, TaskLive, Holding, LiveInv, SoundInv, TaskSound,
                      MatchInv, TaskFits
  <2>2. /\ mem' = [mem EXCEPT ![w] = s] /\ saved' = [saved EXCEPT ![w] = s]
        /\ tracked' = tracked \cup {w} /\ UNCHANGED restored /\ restored
        /\ NextPlan \/ (Goto(AfterRecord) /\ AfterRecord \notin {"idle", "reconcile"})
    BY <1>1, <1>8, <2>1 DEF Record, Save, TaskLive
  <2>3. /\ mem'[w] = s /\ saved'[w] = s
        /\ \A q \in Plans \ {w} : /\ mem'[q] = mem[q] /\ saved'[q] = saved[q]
                                  /\ q \in tracked' <=> q \in tracked
    BY <1>1, <2>1, <2>2 DEF PlansOK
  <2>4. Known(w) /\ \A q \in Plans \ {w} : Known(q)' <=> Known(q)
    BY <2>1, <2>3 DEF Known
  <2>5. Rivals'
    BY <2>4, RivalsKept
  <2>6. Complete'
    BY <2>1, <2>2, <2>3, <2>4, EndedStays DEF LiveInv, Complete
  <2>7. TaskLive'
    <3>1. CASE NextPlan
      BY <2>1, <2>2, <2>3, <3>1, EndOfPlanLive
    <3>2. CASE Goto(AfterRecord) /\ AfterRecord \notin {"idle", "reconcile"}
      <4>1. /\ AfterRecord \in {"send", "told", "forget"}
            /\ AfterRecord = "forget" => s.stage = "Closed"
        BY <2>1, <3>2 DEF AfterRecord
      <4>2. /\ task'.pc = AfterRecord /\ task'.back = task.back /\ task'.plan = w
            /\ task'.todo = task.todo
        BY <1>1, <2>1, <3>2, GotoFields
      <4>3. AfterRecord = "forget" => Ended(w)'
        BY <2>1, <4>1, ClosedIsEnded, EndedStays
      <4>4. task'.pc = "forget" => Ended(task.plan)'
        BY <4>2, <4>3 DEF Ended
      <4>5. task.todo \subseteq Plans
        BY <1>1 DEF TaskOK
      <4>6. task.back = "reconcile" => \A q \in task.todo : q = w \/ mem'[q].stage # "None"
        BY <1>1, <2>1, <2>3, <4>5 DEF TaskLive
      <4> QED
        BY <2>1, <2>2, <2>3, <4>1, <4>2, <4>4, <4>6 DEF TaskLive
    <3> QED
      BY <2>2, <3>1, <3>2
  <2> QED
    BY <2>5, <2>6, <2>7, LifecycleStep DEF LiveInv
<1>9. ASSUME NEW type \in {"market", "limit"}, Send(type)
      PROVE  LiveInv'
  <2>1. UNCHANGED <<mem, saved, tracked, restored>> /\ task.pc = "send" /\ restored
    BY <1>1, <1>9 DEF Send, redis, TaskLive
  <2>2. /\ task'.pc \in {"amend", "record"} /\ task'.back = task.back
        /\ task'.plan = task.plan /\ task'.todo = task.todo
    BY <1>1, <1>9 DEF Send, TaskFields
  <2>3. TaskLive'
    BY <1>1, <2>1, <2>2 DEF TaskLive, Holding
  <2> QED
    BY <2>1, <2>3, Quiet
<1> QED
  BY <1>2, <1>3, <1>4, <1>5, <1>6, <1>7, <1>8, <1>9

LEMMA ReconcileLive ==
  ASSUME LiveInv, [Next]_vars, MatchInv', SoundInv',
         \/ Submissions \/ PollEnds
         \/ \E p \in Plans : Reconcile(p)
         \/ \E p \in Plans : \E l \in Legs(p) : AdoptPosition(p, l)
  PROVE  LiveInv'
<1>1. DOMAIN task = TaskFields /\ TaskOK /\ TaskLive
  BY DEF LiveInv, MatchInv, SentInv, TaskOK
<1>2. CASE Submissions
  <2>1. UNCHANGED <<mem, saved, tracked, restored>> /\ restored
    BY <1>1, <1>2 DEF Submissions, At, redis, TaskLive
  <2>2. /\ task'.pc = "reconcile"
        /\ task'.todo = {q \in Plans : NeedsSubmittedReconcile(mem[q])}
    BY <1>2 DEF Submissions, Idle
  <2>3. ASSUME NEW q \in Plans, mem[q].stage = "None"
        PROVE  ~NeedsSubmittedReconcile(mem[q])
    <3>1. StateOK(q, mem[q]) /\ Unbegun(q, mem[q])
      BY <2>3 DEF LiveInv, SoundInv, RecordsSound, Sound
    <3> QED
      BY <2>3, <3>1 DEF StateOK, Unbegun, NeedsSubmittedReconcile, Some, Waiting
  <2>4. TaskLive'
    BY <2>1, <2>2, <2>3 DEF TaskLive, Holding
  <2> QED
    BY <2>1, <2>4, Quiet
<1>3. CASE PollEnds
  <2>1. UNCHANGED <<mem, saved, tracked, restored>> /\ task' = Idle
    BY <1>3 DEF PollEnds, redis
  <2> QED
    BY <2>1, IdleLive, Quiet
<1>4. ASSUME NEW p \in Plans, Reconcile(p)
      PROVE  LiveInv'
  <2>1. /\ UNCHANGED <<mem, saved, tracked, restored>> /\ restored
        /\ task.pc = "reconcile" /\ p \in task.todo
    BY <1>1, <1>4 DEF Reconcile, At, redis, TaskLive
  <2>2. /\ task'.pc \in {"record", "amend"} /\ task'.plan = p /\ task'.todo = task.todo
    BY <1>1, <1>4 DEF Reconcile, TaskFields
  <2>3. TaskLive'
    BY <1>1, <2>1, <2>2 DEF TaskLive
  <2> QED
    BY <2>1, <2>3, Quiet
<1>5. ASSUME NEW p \in Plans, NEW l \in Legs(p), AdoptPosition(p, l)
      PROVE  LiveInv'
  <2>1. /\ UNCHANGED <<mem, saved, tracked, restored>> /\ restored
        /\ mem[p].stage # "None"
    BY <1>5 DEF AdoptPosition, redis
  <2>2. task'.pc = "amend" /\ task'.plan = p /\ task'.todo = {}
    BY <1>5 DEF AdoptPosition, Idle
  <2>3. TaskLive'
    BY <2>1, <2>2 DEF TaskLive
  <2> QED
    BY <2>1, <2>3, Quiet
<1> QED
  BY <1>2, <1>3, <1>4, <1>5

LEMMA FaultsLive ==
  ASSUME LiveInv, [Next]_vars, MatchInv', SoundInv', Fails \/ Crash
  PROVE  LiveInv'
<1>1. /\ DOMAIN task = TaskFields /\ TaskOK /\ PlansOK /\ TaskLive /\ Told'
  BY LifecycleStep DEF LiveInv, MatchInv, SentInv, TaskOK
<1>2. Interrupted /\ tracked' = tracked
  BY DEF Fails, Crash, Interrupted, SaveInterrupted, EraseInterrupted
<1>3. PICK s : /\ \/ UNCHANGED saved
                  \/ saved' = [saved EXCEPT ![task.plan] = s]
               /\ \/ mem' = mem \/ mem' = [mem EXCEPT ![task.plan] = s]
                  \/ mem' = [p \in Plans |-> NoState(p)]
               /\ s.stage = "None" \/ At("receive") \/ At("record")
  BY CutOffState DEF LiveInv
<1>4. /\ DOMAIN mem = Plans /\ DOMAIN saved = Plans
      /\ \A p \in Plans : NoState(p).stage = "None"
  BY <1>1, NothingKnown DEF PlansOK
<1>5. ASSUME NEW q \in Plans, q # task.plan
      PROVE  Known(q)' => Known(q)
  <2>1. mem'[q] \in {mem[q], NoState(q)} /\ saved'[q] = saved[q]
    BY <1>3, <1>4, <1>5
  <2> QED
    BY <1>2, <1>4, <2>1 DEF Known
<1>6. Rivals'
  <2>1. CASE At("receive")
    <3>1. task.plan \in Plans
      BY <1>1, <2>1 DEF At, TaskOK, Intake
    <3>2. PICK w \in Plans : w = task.plan
      BY <3>1
    <3>3. \A q \in Plans \ {w} : (Known(q) => Ended(q)) /\ (Known(q)' => Known(q))
      BY <1>5, <2>1, <3>2, ReceivedAlone
    <3> QED
      BY <3>3, RivalsNew
  <2>2. CASE At("record")
    <3>1. task.plan \in Plans => Known(task.plan)
      BY <1>1, <2>2 DEF At, TaskLive, Holding, Known
    <3> QED
      BY <1>5, <3>1, RivalsKept
  <2>3. CASE s.stage = "None"
    <3>1. ASSUME NEW p \in Plans, p = task.plan
          PROVE  Known(p)' => Known(p)
      <4>1. mem'[p] \in {mem[p], s, NoState(p)} /\ saved'[p] \in {saved[p], s}
        BY <1>3, <1>4, <3>1
      <4> QED
        BY <1>2, <1>4, <2>3, <4>1 DEF Known
    <3> QED
      BY <1>5, <3>1, RivalsKept
  <2> QED
    BY <1>3, <2>1, <2>2, <2>3
<1>7. CASE Crash
  <2>1. restored' = FALSE /\ task' = Idle
    BY <1>7 DEF Crash
  <2> QED
    BY <1>1, <1>6, <2>1, IdleLive DEF LiveInv, Complete
<1>8. CASE Fails
  <2>1. restored /\ restored' = restored
    BY <1>1, <1>8 DEF Fails, TaskLive
  <2>2. TaskLive'
    <3>1. CASE task' = Idle
      BY <3>1, IdleLive
    <3>2. CASE task' = [Evaluation EXCEPT !.todo = {q \in Plans : IsPendingEntryStage(mem'[q])}]
      <4>1. task'.pc = "evaluate" /\ task'.back = "evaluate"
        BY <3>2, EvaluationFields DEF TaskFields
      <4> QED
        BY <2>1, <4>1, PlainTask DEF Holding
    <3> QED
      BY <1>8, <3>1, <3>2 DEF Fails
  <2>3. ASSUME NEW p \in Plans, Known(p)'
        PROVE  mem'[p].stage # "None" \/ Ended(p)'
    <3>1. CASE mem'[p] = mem[p] /\ saved'[p] = saved[p]
      BY <1>2, <2>1, <2>3, <3>1, EndedStays DEF LiveInv, Complete, Known
    <3>2. CASE p = task.plan /\ At("receive")
      <4>1. mem' = [mem EXCEPT ![p] = Received(p)]
        BY <1>8, <3>2 DEF Fails, At
      <4> QED
        BY <1>4, <4>1, NothingSound
    <3>3. CASE p = task.plan /\ At("record")
      <4>1. mem' = [mem EXCEPT ![p] = task.state]
        BY <1>8, <3>3 DEF Fails, At
      <4>2. task.state.stage # "None"
        BY <3>3 DEF LiveInv, SoundInv, TaskSound, At, Holding
      <4> QED
        BY <1>4, <4>1, <4>2
    <3>4. CASE p = task.plan /\ At("forget")
      BY <1>1, <3>4, EndedStays DEF TaskLive, At
    <3>5. CASE ~At("receive") /\ ~At("record") /\ ~At("forget")
      <4>1. mem' = mem /\ saved' = saved
        BY <1>2, <1>8, <3>5 DEF Fails, Interrupted
      <4> QED
        BY <3>1, <4>1
    <3>6. CASE p # task.plan /\ (At("receive") \/ At("record") \/ At("forget"))
      <4>1. \E x : mem' = [mem EXCEPT ![task.plan] = x]
        BY <1>8, <3>6 DEF Fails, At
      <4>2. mem'[p] = mem[p] /\ saved'[p] = saved[p]
        BY <1>3, <1>4, <3>6, <4>1
      <4> QED
        BY <3>1, <4>2
    <3> QED
      BY <3>2, <3>3, <3>4, <3>5, <3>6
  <2>4. Complete'
    BY <2>3 DEF Complete
  <2> QED
    BY <1>1, <1>6, <2>2, <2>4 DEF LiveInv
<1> QED
  BY <1>7, <1>8

LEMMA WorldLive ==
  ASSUME LiveInv, [Next]_vars, MatchInv', SoundInv',
         \/ Restore \/ TenSeconds
         \/ \E p \in Plans : GraceLost(p) \/ Lapse(p)
         \/ \E p \in Plans : \E l \in Legs(p) : Broker(p, l)
         \/ UNCHANGED vars
  PROVE  LiveInv'
<1>1. /\ DOMAIN task = TaskFields /\ TaskOK /\ PlansOK /\ TaskLive /\ Told'
  BY LifecycleStep DEF LiveInv, MatchInv, SentInv, TaskOK
<1>2. CASE Restore
  <2>1. /\ mem' = [p \in Plans |->
             IF p \in tracked /\ saved[p].stage # "Closed" THEN saved[p] ELSE NoState(p)]
        /\ UNCHANGED <<saved, tracked, task>> /\ restored' = TRUE /\ task.pc = "idle"
        /\ task.back = "idle"
    BY <1>1, <1>2 DEF Restore, At, TaskOK, Intake
  <2>2. \A p \in Plans :
          mem'[p] = IF p \in tracked /\ saved[p].stage # "Closed" THEN saved[p] ELSE NoState(p)
    BY <2>1
  <2>3. \A p \in Plans : Known(p)' => Known(p)
    BY <2>1, <2>2, NothingKnown DEF Known
  <2>4. Rivals'
    BY <2>3, RivalsKept
  <2>5. ASSUME NEW p \in Plans, Known(p)'
        PROVE  mem'[p].stage # "None" \/ Ended(p)'
    <3>1. CASE saved[p].stage = "Closed"
      <4>1. Sound(p, saved[p]) /\ Fits(p, saved[p])
        BY DEF LiveInv, SoundInv, RecordsSound, MatchInv, RecordsFit
      <4> QED
        BY <3>1, <4>1, ClosedIsEnded, EndedStays
    <3>2. CASE saved[p].stage # "Closed"
      BY <2>1, <2>2, <2>5, <3>2, NothingKnown DEF Known
    <3> QED
      BY <3>1, <3>2
  <2>6. Complete'
    BY <2>5 DEF Complete
  <2>7. TaskLive'
    BY <2>1, PlainTask DEF Holding
  <2> QED
    BY <1>1, <2>4, <2>6, <2>7 DEF LiveInv
<1>3. CASE TenSeconds
  <2>1. /\ mem' = [p \in Plans |-> Waited(mem[p])]
        /\ saved' = [p \in Plans |-> Waited(saved[p])]
        /\ UNCHANGED <<tracked, restored>>
    BY <1>3 DEF TenSeconds
  <2>2. \A p \in Plans : mem'[p].stage = mem[p].stage /\ saved'[p].stage = saved[p].stage
    BY <2>1, WaitedSound DEF LiveInv, SoundInv, RecordsSound
  <2>3. \A p \in Plans : Known(p)' <=> Known(p)
    BY <2>1, <2>2 DEF Known
  <2>4. Rivals'
    BY <2>3, RivalsKept
  <2>5. Complete'
    BY <2>1, <2>2, <2>3, EndedStays DEF LiveInv, Complete
  <2>6. /\ task'.pc = task.pc /\ task'.plan = task.plan /\ task'.back = task.back
        /\ task'.todo = task.todo
    BY <1>1, <1>3 DEF TenSeconds, TaskFields
  <2>7. task.pc = "forget" => Ended(task.plan)'
    <3>1. CASE task.pc = "forget"
      <4>1. PICK p \in Plans : p = task.plan /\ Ended(p)
        BY <1>1, <3>1 DEF TaskLive
      <4>2. Ended(p)'
        BY <4>1, EndedStays
      <4> QED
        BY <2>6, <4>1, <4>2 DEF Ended
    <3> QED
      BY <3>1
  <2>8. task.pc = "receive" =>
          \A q \in Plans \ {task.plan} : mem'[q].stage = "None" \/ Ended(q)'
    BY <1>1, <2>2, EndedStays DEF TaskLive
  <2>9. task.todo \subseteq Plans /\ (task.pc \in Holding => task.plan \in Plans)
    BY <1>1 DEF TaskOK
  <2>10. TaskLive'
    BY <1>1, <2>1, <2>2, <2>6, <2>7, <2>8, <2>9 DEF TaskLive
  <2> QED
    BY <1>1, <2>4, <2>5, <2>10 DEF LiveInv
<1>4. ASSUME UNCHANGED <<mem, saved, tracked, restored, task>>
      PROVE  LiveInv'
  <2>1. task.pc = "forget" => Ended(task.plan)'
    <3>1. CASE task.pc = "forget"
      <4>1. PICK p \in Plans : p = task.plan /\ Ended(p)
        BY <1>1, <3>1 DEF TaskLive
      <4>2. Ended(p)'
        BY <4>1, EndedStays
      <4> QED
        BY <1>4, <4>1, <4>2 DEF Ended
    <3> QED
      BY <3>1
  <2>2. task.pc = "receive" =>
          \A q \in Plans \ {task.plan} : mem[q].stage = "None" \/ Ended(q)'
    BY <1>1, EndedStays DEF TaskLive
  <2>3. TaskLive'
    BY <1>1, <1>4, <2>1, <2>2 DEF TaskLive
  <2> QED
    BY <1>4, <2>3, Quiet
<1>5. ASSUME NEW p \in Plans, GraceLost(p) \/ Lapse(p)
      PROVE  UNCHANGED <<mem, saved, tracked, restored, task>>
  BY <1>5 DEF GraceLost, Lapse, redis
<1>6. ASSUME NEW p \in Plans, NEW l \in Legs(p), Broker(p, l)
      PROVE  UNCHANGED <<mem, saved, tracked, restored, task>>
  BY <1>6 DEF Broker, Trigger, FillLands, OwnerCancels, Becomes, redis
<1>7. CASE UNCHANGED vars
  BY <1>4, <1>7 DEF vars, redis
<1> QED
  BY <1>2, <1>3, <1>4, <1>5, <1>6, <1>7

(* Two plans of one direction are live in the runtime at once only when one   *)
(* of them was ended before and a failure left its state in Redis for a       *)
(* restart to find (HasBlockingSameDirectionLivePlan, RestoreAsync).          *)
THEOREM LivePlansAreOne == Spec => []OneLivePlan
<1>1. Init => LiveInv
  <2> SUFFICES ASSUME Init PROVE LiveInv
    OBVIOUS
  <2>1. MatchInv
    BY InitMatch
  <2>2. \A p \in Plans : /\ mem[p] = NoState(p) /\ saved[p] = NoState(p)
                         /\ ~Known(p)
    BY NothingKnown DEF Init, Known
  <2>3. SoundInv
    BY <2>1, <2>2, NothingSound, IdleTask
       DEF MatchInv, SoundInv, RecordsSound, TaskSound, Init, Holding
  <2>4. Told /\ Rivals /\ Complete
    BY <2>2 DEF Told, Lifecycles, Init, Rivals, Complete
  <2>5. TaskLive
    BY IdleTask DEF Init, TaskLive, Holding
  <2> QED
    BY <2>1, <2>3, <2>4, <2>5 DEF LiveInv
<1>2. LiveInv /\ [Next]_vars => LiveInv'
  <2> SUFFICES ASSUME LiveInv, [Next]_vars PROVE LiveInv'
    OBVIOUS
  <2>1. MatchInv' /\ SentInv'
    BY StepMatch DEF LiveInv, MatchInv
  <2>2. SoundInv'
    BY <2>1, StepSound DEF LiveInv
  <2>3. CASE Step
    BY <2>1, <2>2, <2>3, WorldLive, IntakeLive, EntryLive, ReconcileLive DEF Step
  <2>4. CASE \E p \in Plans, l \in UNION {Legs(q) : q \in Plans} :
               l \in Legs(p) /\ (AdoptPosition(p, l) \/ Broker(p, l))
    BY <2>1, <2>2, <2>4, WorldLive, ReconcileLive
  <2>5. CASE \E p \in Plans : GraceLost(p) \/ Lapse(p)
    BY <2>1, <2>2, <2>5, WorldLive
  <2>6. CASE TenSeconds \/ UNCHANGED vars
    BY <2>1, <2>2, <2>6, WorldLive
  <2> QED
    BY <2>1, <2>2, <2>3, <2>4, <2>5, <2>6, FaultsLive DEF Next
<1>3. LiveInv => OneLivePlan
  BY DEF LiveInv, Rivals, Known, OneLivePlan, Live
<1> QED
  BY <1>1, <1>2, <1>3, PTL DEF Spec
=============================================================================
