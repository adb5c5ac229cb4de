--------------------------- MODULE SetupLifecycle ---------------------------
(* The life of a trade setup in the analysis process: the scanner and the     *)
(* zone watch create it and advance it to confirmed, a handler publishes at   *)
(* most one TradePlan from it, and the expiry sweeper, the invalidation check *)
(* and the start-up reconciliation close it.  They are tasks of one event     *)
(* loop that interleave at every call to Redis.                               *)
(*                                                                            *)
(* Setups are setups of ONE thesis.  A handler's market gates are choices of  *)
(* the environment; what they do to the record, the expiry index, the thesis  *)
(* claim, the route lock and the plan stream is the code's.                   *)
EXTENDS Naturals, FiniteSets

CONSTANTS
  Setups,       \* the setups of one thesis
  Workers,      \* handlers that can run at the same time
  Sweeper,      \* the expiry sweeper task
  Scanner,      \* the invalidation check of the scanner task
  Nobody,       \* no owner
  MaxFaults     \* bound on crashes, failed calls and lapsed locks

Actors == Workers \cup {Sweeper, Scanner}

ASSUME ActorsDistinct ==
  /\ Sweeper # Scanner
  /\ {Sweeper, Scanner} \cap Workers = {}
  /\ Nobody \notin Setups \cup Workers
ASSUME Bounds == MaxFaults \in Nat

VARIABLES
  setup,    \* analysis:setup:{id}: the state of the record, or "missing"
  indexed,  \* analysis:setup_expiry: the members of the expiry index
  due,      \* setups whose expires_at has passed
  thesis,   \* analysis:active_thesis: the setup that holds the thesis
  plan,     \* the plan of a setup: never published, live, or ended
  lock,     \* auto_trade:route_lock: the handler that holds it
  act,      \* where each task is in its code
  rewritten,  \* setups whose record a create wrote over (history)
  faults
vars == <<setup, indexed, due, thesis, plan, lock, act, rewritten, faults>>

-----------------------------------------------------------------------------
(* The transition graph. *)

PrePlan == {"discovered", "watching", "touched", "forming", "confirmed"}
Terminal == {"cancelled", "invalidated", "expired", "consumed"}
PublicationWon == {"plan_built", "plan_published", "armed"}
States == PrePlan \cup PublicationWon \cup Terminal

Edges == [
  missing        |-> {},
  discovered     |-> {"watching", "invalidated", "expired"},
  watching       |-> {"touched", "invalidated", "expired"},
  touched        |-> {"forming", "watching", "invalidated", "expired"},
  forming        |-> {"confirmed", "watching", "invalidated", "expired"},
  confirmed      |-> {"plan_built", "invalidated", "expired"},
  plan_built     |-> {"plan_published", "cancelled"},
  plan_published |-> {"armed", "cancelled", "expired", "consumed"},
  armed          |-> {"consumed", "cancelled", "expired"},
  cancelled      |-> {}, invalidated |-> {}, expired |-> {}, consumed |-> {}]
\* Mutant: a setup whose plan is built may still be invalidated.
BuiltMayBreak == [Edges EXCEPT !.plan_built = @ \cup {"invalidated"}]
Transitions == Edges

Successor == [discovered |-> "watching", watching |-> "touched",
              touched |-> "forming", forming |-> "confirmed"]

Publishable == {"confirmed", "plan_built"}

\* resolve_existing_v8_state: the durable truth about a setup's plan.
AlreadyTerminal(s) == setup[s] \in Terminal \/ plan[s] = "ended"
AlreadyPublished(s) ==
  \/ setup[s] \in {"plan_published", "armed", "consumed"}
  \/ plan[s] = "live"
  \/ setup[s] = "plan_built" /\ plan[s] # "none"

\* terminal_state_for_preflight_failure
PreflightTerminal(state) ==
  CASE state = "plan_built" -> "cancelled"
    [] state \in PrePlan -> "invalidated"
    [] OTHER -> "none"

-----------------------------------------------------------------------------
(* A task is idle or at a label of its code, working on one setup. While it   *)
(* is inside transition_setup, goal is the state it wants, seen the state it  *)
(* read, and ok and bad the labels it returns to.                             *)

Labels == {"idle", "load", "cas", "sync", "unindex", "finalize", "save",
           "index_new", "admit", "refuse", "lock",
           "resolve", "gates", "claim", "build", "final", "publish",
           "release", "delete", "unlock", "retire"}

Idle == [pc |-> "idle", on |-> Nobody, goal |-> "missing", seen |-> "missing",
         ok |-> "idle", bad |-> "idle", zone |-> FALSE, bound |-> FALSE]

At(a, label) == act[a].pc = label
On(a) == act[a].on

\* The task's record once it has reached a label.
Reach(a, label) ==
  IF label = "idle" THEN Idle
  ELSE [act[a] EXCEPT !.pc = label, !.goal = "missing", !.seen = "missing",
                      !.ok = "idle", !.bad = "idle"]

\* The record of a task that begins at a label.
Begin(s, label, zone) ==
  [pc |-> label, on |-> s, goal |-> "missing", seen |-> "missing",
   ok |-> "idle", bad |-> "idle", zone |-> zone, bound |-> TRUE]

\* The record of a task that enters transition_setup.
Entering(s, goal, ok, bad, zone, bound) ==
  [pc |-> "load", on |-> s, goal |-> goal, seen |-> "missing",
   ok |-> ok, bad |-> bad, zone |-> zone, bound |-> bound]
Calling(a, goal, ok, bad) ==
  Entering(On(a), goal, ok, bad, act[a].zone, act[a].bound)
Call(a, goal, ok, bad) == act' = [act EXCEPT ![a] = Calling(a, goal, ok, bad)]

\* _advance_setup_to_confirmed from a state of the chain, and its failure:
\* the match then goes on without a thesis.
AdvanceFrom(a, state) ==
  IF state = "confirmed" THEN Reach(a, "admit")
  ELSE Calling(a, Successor[state], "advance", "unbound")
NotAdvanced(a) == [Reach(a, "admit") EXCEPT !.bound = FALSE]

\* transition_setup returns to the label its caller named.
Return(a, label) ==
  CASE label = "advance" -> AdvanceFrom(a, act[a].goal)
    [] label = "unbound" -> NotAdvanced(a)
    [] OTHER -> Reach(a, label)
Goto(a, label) == act' = [act EXCEPT ![a] = Return(a, label)]

\* transition_setup reports "unchanged": the sweeper takes the setup for
\* already terminal, everyone else goes on as after a change.
Unchanged(a) == IF a = Sweeper THEN "unindex" ELSE act[a].ok

-----------------------------------------------------------------------------
(* transition_setup: load and check, compare and set, index. *)

\* What the first half leaves: the record is at the goal already, the edge is
\* illegal, or the state read is remembered for the comparison.
Loaded(a, r, state) ==
  CASE state = r.goal -> Return(a, Unchanged(a))
    [] state # r.goal /\ r.goal \notin Transitions[state] -> Return(a, r.bad)
    [] OTHER -> [r EXCEPT !.pc = "cas", !.seen = state]

Load(a) ==
  /\ At(a, "load")
  /\ act' = [act EXCEPT ![a] = Loaded(a, act[a], setup[On(a)])]
  /\ UNCHANGED <<setup, indexed, due, thesis, plan, lock, faults, rewritten>>

\* Mutant: the script writes without comparing.
WritesAnyway(a) == TRUE

\* _TRANSITION_LUA: a record that moved on is never overwritten.
MayWrite(a) == setup[On(a)] = act[a].seen

CompareAndSet(a) ==
  /\ At(a, "cas")
  /\ LET s == On(a) IN
     \/ /\ setup[s] = act[a].goal
        /\ Goto(a, Unchanged(a))
        /\ UNCHANGED setup
     \/ /\ setup[s] # act[a].goal /\ MayWrite(a)
        /\ setup' = [setup EXCEPT ![s] = act[a].goal]
        /\ act' = [act EXCEPT ![a].pc = "sync"]
     \/ /\ setup[s] # act[a].goal /\ ~MayWrite(a)
        /\ Goto(a, act[a].bad)
        /\ UNCHANGED setup
  /\ UNCHANGED <<indexed, due, thesis, plan, lock, faults, rewritten>>

\* _sync_expiry_index: a terminal record leaves the index, another is scored.
SyncIndex(a) ==
  /\ At(a, "sync")
  /\ indexed' = IF act[a].goal \in Terminal THEN indexed \ {On(a)}
                                            ELSE indexed \cup {On(a)}
  /\ Goto(a, act[a].ok)
  /\ UNCHANGED <<setup, due, thesis, plan, lock, faults, rewritten>>

Transition(a) == Load(a) \/ CompareAndSet(a) \/ SyncIndex(a)

-----------------------------------------------------------------------------
(* The thesis claim. *)

Released(s) == IF thesis = s THEN Nobody ELSE thesis

\* release_active_thesis reads the owner and then deletes the key. After that
\* the task goes on at label, or sets the state it still owes to the record.
Release(a) ==
  /\ At(a, "release")
  /\ Goto(a, IF thesis = On(a) THEN "delete" ELSE "unlock")
  /\ UNCHANGED <<setup, indexed, due, thesis, plan, lock, faults, rewritten>>

DeleteThesis(a) ==
  /\ At(a, "delete")
  /\ thesis' = Nobody
  /\ Goto(a, IF a = Sweeper THEN "idle" ELSE "unlock")
  /\ UNCHANGED <<setup, indexed, due, plan, lock, faults, rewritten>>

-----------------------------------------------------------------------------
(* The expiry sweeper. *)

\* expire_setup's own check of the state it loaded.
Expirable(state) == state \in PrePlan

SweepDue(s) ==
  /\ At(Sweeper, "idle")
  /\ s \in indexed \cap due
  /\ act' = [act EXCEPT ![Sweeper] =
       IF Expirable(setup[s])
       THEN Entering(s, "expired", "finalize", "idle", FALSE, TRUE)
       ELSE Begin(s, "unindex", FALSE)]
  /\ UNCHANGED <<setup, indexed, due, thesis, plan, lock, faults, rewritten>>

Unindex(a) ==
  /\ At(a, "unindex")
  /\ indexed' = indexed \ {On(a)}
  /\ Goto(a, "idle")
  /\ UNCHANGED <<setup, due, thesis, plan, lock, faults, rewritten>>

\* finalize_terminal_setup after the transition: close the card, drop the
\* index member, release the thesis.
Finalize(a) ==
  /\ At(a, "finalize")
  /\ indexed' = indexed \ {On(a)}
  /\ Goto(a, IF thesis = On(a) THEN "delete" ELSE "idle")
  /\ UNCHANGED <<setup, due, thesis, plan, lock, faults, rewritten>>

\* Closing the card raised: the sweeper logs it and nothing else is cleaned.
FinalizeFails(a) ==
  /\ At(a, "finalize") /\ faults < MaxFaults
  /\ faults' = faults + 1
  /\ Goto(a, "idle")
  /\ UNCHANGED <<setup, indexed, due, thesis, plan, lock, rewritten>>

-----------------------------------------------------------------------------
(* The scanner finds the structure of a publishable setup broken. *)

StructureBreaks(s) ==
  /\ At(Scanner, "idle")
  /\ setup[s] \in Publishable
  /\ act' = [act EXCEPT ![Scanner] =
       Entering(s, "invalidated", "idle", "idle", FALSE, TRUE)]
  /\ UNCHANGED <<setup, indexed, due, thesis, plan, lock, faults, rewritten>>

-----------------------------------------------------------------------------
(* A handler. It begins with a zone that became executable (zone), which      *)
(* creates the setup or finds it, or with a closed bar and a stored match.    *)

\* create_setup's load: a setup that is past the chain is left alone.
Activate(w, s) ==
  /\ At(w, "idle")
  /\ \/ /\ setup[s] = "missing"
        /\ act' = [act EXCEPT ![w] = Begin(s, "save", TRUE)]
     \/ /\ setup[s] \in PrePlan \ {"confirmed"}
        /\ act' = [act EXCEPT ![w] =
             Entering(s, Successor[setup[s]], "advance", "unbound", TRUE, TRUE)]
     \/ /\ setup[s] \notin PrePlan \cup {"missing"} \/ setup[s] = "confirmed"
        /\ act' = [act EXCEPT ![w] = Begin(s, "admit", TRUE)]
  /\ UNCHANGED <<setup, indexed, due, thesis, plan, lock, faults, rewritten>>

BarCloses(w, s) ==
  /\ At(w, "idle") /\ setup[s] # "missing"
  /\ act' = [act EXCEPT ![w] = Begin(s, "admit", FALSE)]
  /\ UNCHANGED <<setup, indexed, due, thesis, plan, lock, faults, rewritten>>

\* _save: the record is written whatever is there by now, then indexed.
SaveNew(w) ==
  /\ At(w, "save")
  /\ setup' = [setup EXCEPT ![On(w)] = "discovered"]
  /\ rewritten' = IF setup[On(w)] = "missing" THEN rewritten ELSE rewritten \cup {On(w)}
  /\ Goto(w, "index_new")
  /\ UNCHANGED <<indexed, due, thesis, plan, lock, faults>>

IndexNew(w) ==
  /\ At(w, "index_new")
  /\ indexed' = indexed \cup {On(w)}
  /\ act' = [act EXCEPT ![w] = AdvanceFrom(w, "discovered")]
  /\ UNCHANGED <<setup, due, thesis, plan, lock, faults, rewritten>>

\* The label at which a handler ends: an activation checks what came of it.
End(w) == IF act[w].zone THEN "retire" ELSE "idle"

\* _admit_strategy_intent_for_cycle, and whether the intent is then chosen.
Admit(w) ==
  /\ At(w, "admit")
  /\ LET s == On(w) IN
     \/ AlreadyTerminal(s) /\ Goto(w, "refuse")
     \/ ~AlreadyTerminal(s) /\ AlreadyPublished(s) /\ Goto(w, "lock")
     \/ /\ ~AlreadyTerminal(s) /\ ~AlreadyPublished(s)
        /\ \E label \in {"refuse", "lock", End(w)} : Goto(w, label)
  /\ UNCHANGED <<setup, indexed, due, thesis, plan, lock, faults, rewritten>>

\* A terminal admission failure closes the setup; the route lock is not held.
Refuse(w) ==
  /\ At(w, "refuse")
  /\ LET goal == PreflightTerminal(setup[On(w)]) IN
     IF goal = "none" THEN Goto(w, End(w)) ELSE Call(w, goal, End(w), End(w))
  /\ UNCHANGED <<setup, indexed, due, thesis, plan, lock, faults, rewritten>>

TakeLock(w) ==
  /\ At(w, "lock")
  /\ IF lock[On(w)] = Nobody
     THEN lock' = [lock EXCEPT ![On(w)] = w] /\ Goto(w, "resolve")
     ELSE UNCHANGED lock /\ Goto(w, End(w))
  /\ UNCHANGED <<setup, indexed, due, thesis, plan, faults, rewritten>>

\* The head of _publish_trade_plan_v8: reconcile what an earlier run left.
Resolve(w) ==
  /\ At(w, "resolve")
  /\ LET s == On(w) IN
     \/ AlreadyTerminal(s) /\ Goto(w, "unlock")
     \/ /\ ~AlreadyTerminal(s) /\ AlreadyPublished(s)
        /\ IF setup[s] = "plan_built"
           THEN Call(w, "plan_published", "unlock", "unlock")
           ELSE Goto(w, "unlock")
     \/ /\ ~AlreadyTerminal(s) /\ ~AlreadyPublished(s)
        /\ IF setup[s] = "plan_built"
           THEN Call(w, "cancelled", "unlock", "unlock")
           ELSE Goto(w, "gates")
  /\ UNCHANGED <<setup, indexed, due, thesis, plan, lock, faults, rewritten>>

\* What each market gate may decide against a setup: keep it for a later try,
\* or end it (_record_v8_build_rejected). First the gates before the claims.
SpotGate == {"wait", "reject"}
ReactionWindow == {"wait", "reject"}
SweepBody == {"reject"}
Structure == {"reject"}
Metadata == {"reject"}
EntryZone == {"wait"}
Retest == {"wait"}
TargetRoom == {"reject"}
BeforeClaim == UNION {SpotGate, ReactionWindow, SweepBody, Structure, Metadata,
                      EntryZone, Retest, TargetRoom}
\* Then those that hold the claim.
Barriers == {"reject"}
NewsGuard == {"wait"}
Exposure == {"reject"}
EntryPolicy == {"reject", "wait"}
Builder == {"reject", "expire"}
HoldingClaim == UNION {Barriers, NewsGuard, Exposure, EntryPolicy, Builder}

EndedBy == [reject |-> "invalidated", expire |-> "expired"]

\* An unbound or no longer publishable setup is rejected, a due one expires.
MayPass(w) == act[w].bound /\ setup[On(w)] \in Publishable

Gates(w) ==
  /\ At(w, "gates")
  /\ \/ "wait" \in BeforeClaim /\ Goto(w, "unlock")
     \/ \E v \in BeforeClaim \ {"wait"} : Call(w, EndedBy[v], "unlock", "unlock")
     \/ On(w) \in due /\ Call(w, EndedBy.expire, "unlock", "unlock")
     \/ MayPass(w) /\ Goto(w, "claim")
  /\ UNCHANGED <<setup, indexed, due, thesis, plan, lock, faults, rewritten>>

\* claim_active_thesis
ClaimGranted(s) == thesis \in {Nobody, s}

ClaimThesis(w) ==
  /\ At(w, "claim")
  /\ IF ClaimGranted(On(w))
     THEN thesis' = On(w) /\ Goto(w, "build")
     ELSE UNCHANGED thesis /\ Call(w, "invalidated", "unlock", "unlock")
  /\ UNCHANGED <<setup, indexed, due, plan, lock, faults, rewritten>>

\* The guards that hold the claim and the builder: a reject and a wait give
\* the claim back, an error outside the builder's own handlers keeps it.
Build(w) ==
  /\ At(w, "build")
  /\ \/ Goto(w, "final") /\ UNCHANGED thesis
     \/ "wait" \in HoldingClaim /\ Goto(w, "release") /\ UNCHANGED thesis
     \/ /\ thesis' = Released(On(w))
        /\ \E v \in HoldingClaim \ {"wait"} :
             Call(w, EndedBy[v], "unlock", "unlock")
  /\ UNCHANGED <<setup, indexed, due, plan, lock, faults, rewritten>>

BuildRaises(w) ==
  /\ At(w, "build") /\ faults < MaxFaults
  /\ faults' = faults + 1
  /\ act' = [act EXCEPT ![w] = [Reach(w, "unlock") EXCEPT !.zone = FALSE]]
  /\ UNCHANGED <<setup, indexed, due, thesis, plan, lock, rewritten>>

\* The last look at the record before the stream.
FinalCheck(w) ==
  /\ At(w, "final")
  /\ LET state == setup[On(w)] IN
     \/ state \in Terminal /\ Goto(w, "release")
     \/ state \in {"plan_published", "armed"} /\ Goto(w, "unlock")
     \/ state = "plan_built" /\ Goto(w, "publish")
     \/ state \in PrePlan /\ Call(w, "plan_built", "publish", "release")
  /\ UNCHANGED <<setup, indexed, due, thesis, plan, lock, faults, rewritten>>

\* _PUBLISH_PLAN_LUA: the tombstone refuses a second publication of one plan.
InStream(s) == [plan EXCEPT ![s] = IF @ = "none" THEN "live" ELSE @]

Publish(w) ==
  /\ At(w, "publish")
  /\ plan' = InStream(On(w))
  /\ Call(w, "plan_published", "unlock", "release")
  /\ UNCHANGED <<setup, indexed, due, thesis, lock, faults, rewritten>>

\* The publish call failed, before or after its effect: the claims are given
\* back and the setup is rejected.
PublishFails(w) ==
  /\ At(w, "publish") /\ faults < MaxFaults
  /\ faults' = faults + 1
  /\ plan' \in {plan, InStream(On(w))}
  /\ thesis' = Released(On(w))
  /\ Call(w, "invalidated", "unlock", "unlock")
  /\ UNCHANGED <<setup, indexed, due, lock, rewritten>>

\* release_owned_lock compares the token.
Unlock(w) ==
  /\ At(w, "unlock")
  /\ lock' = [lock EXCEPT ![On(w)] = IF @ = w THEN Nobody ELSE @]
  /\ Goto(w, End(w))
  /\ UNCHANGED <<setup, indexed, due, thesis, plan, faults, rewritten>>

\* The end of an activation that published nothing.
Retire(w) ==
  /\ At(w, "retire")
  /\ LET s == On(w) IN
     IF AlreadyPublished(s) \/ setup[s] \in Terminal
     THEN Goto(w, "idle")
     ELSE Call(w, "invalidated", "idle", "idle")
  /\ UNCHANGED <<setup, indexed, due, thesis, plan, lock, faults, rewritten>>

-----------------------------------------------------------------------------
(* The environment. *)

FallsDue(s) ==
  /\ setup[s] # "missing" /\ s \notin due
  /\ due' = due \cup {s}
  /\ UNCHANGED <<setup, indexed, thesis, plan, lock, act, faults, rewritten>>

\* The engine rejects, cancels, expires or completes the plan.
PlanEnds(s) ==
  /\ plan[s] = "live"
  /\ plan' = [plan EXCEPT ![s] = "ended"]
  /\ UNCHANGED <<setup, indexed, due, thesis, lock, act, faults, rewritten>>

\* The lock's time to live: behind a handler that is gone, or under one that
\* took longer.
Working(w, s) == On(w) = s /\ act[w].pc # "idle"

LockLapses(s) ==
  /\ lock[s] # Nobody
  /\ IF Working(lock[s], s)
     THEN faults < MaxFaults /\ faults' = faults + 1
     ELSE UNCHANGED faults
  /\ lock' = [lock EXCEPT ![s] = Nobody]
  /\ UNCHANGED <<setup, indexed, due, thesis, plan, act, rewritten>>

\* Mutant: the start-up pass rebuilds no index.
NothingReindexed == {}

\* A restart. reconcile_startup_state runs before any task starts: it finalizes
\* the terminal setups whose route outcome does not say so yet, and indexes
\* every setup that can still expire.
Reindexed == {s \in Setups : setup[s] \in PrePlan}

Restart ==
  /\ faults < MaxFaults
  /\ faults' = faults + 1
  /\ act' = [a \in Actors |-> Idle]
  /\ \E repaired \in SUBSET {s \in Setups : setup[s] \in Terminal} :
       /\ thesis' = IF thesis \in repaired THEN Nobody ELSE thesis
       /\ indexed' = (indexed \ repaired) \cup Reindexed
  /\ UNCHANGED <<setup, due, plan, lock, rewritten>>

-----------------------------------------------------------------------------
Init ==
  /\ setup = [s \in Setups |-> "missing"]
  /\ indexed = {} /\ due = {}
  /\ thesis = Nobody
  /\ plan = [s \in Setups |-> "none"]
  /\ lock = [s \in Setups |-> Nobody]
  /\ act = [a \in Actors |-> Idle]
  /\ rewritten = {}
  /\ faults = 0

\* What a handler does once it has begun.
Handle(w) ==
  \/ Transition(w) \/ SaveNew(w) \/ IndexNew(w)
  \/ Admit(w) \/ Refuse(w) \/ TakeLock(w) \/ Resolve(w) \/ Gates(w)
  \/ ClaimThesis(w) \/ Build(w) \/ FinalCheck(w) \/ Publish(w)
  \/ Release(w) \/ DeleteThesis(w) \/ Unlock(w) \/ Retire(w)

Sweep ==
  \/ Transition(Sweeper) \/ Unindex(Sweeper) \/ Finalize(Sweeper)
  \/ DeleteThesis(Sweeper)

Fault ==
  \/ \E w \in Workers : BuildRaises(w) \/ PublishFails(w)
  \/ FinalizeFails(Sweeper)
  \/ Restart

Next ==
  \/ \E w \in Workers :
       Handle(w) \/ \E s \in Setups : Activate(w, s) \/ BarCloses(w, s)
  \/ Sweep \/ \E s \in Setups : SweepDue(s)
  \/ Transition(Scanner) \/ \E s \in Setups : StructureBreaks(s)
  \/ \E s \in Setups : FallsDue(s) \/ PlanEnds(s) \/ LockLapses(s)
  \/ Fault

Spec == Init /\ [][Next]_vars

\* The event loop runs every task that can go on; the sweeper polls and takes
\* every due member of the index.
Fairness ==
  /\ \A w \in Workers : WF_vars(Handle(w))
  /\ WF_vars(Sweep) /\ WF_vars(Transition(Scanner))
  /\ \A s \in Setups : WF_vars(SweepDue(s))

FairSpec == Spec /\ Fairness

-----------------------------------------------------------------------------
(* Every variable keeps its type: a task only ever asks for states of the     *)
(* lifecycle graph.                                                           *)
TypeOK ==
  /\ setup \in [Setups -> States \cup {"missing"}]
  /\ indexed \subseteq Setups /\ due \subseteq Setups
  /\ thesis \in Setups \cup {Nobody}
  /\ plan \in [Setups -> {"none", "live", "ended"}]
  /\ lock \in [Setups -> Workers \cup {Nobody}]
  /\ act \in [Actors -> [pc : Labels, on : Setups \cup {Nobody},
                         goal : States \cup {"missing"},
                         seen : States \cup {"missing"},
                         ok : Labels \cup {"advance"},
                         bad : Labels \cup {"unbound"},
                         zone : BOOLEAN, bound : BOOLEAN]]
  /\ rewritten \subseteq Setups
  /\ faults \in 0..MaxFaults

(* Create and transition race: a create that found no record writes one over  *)
(* whatever another handler made of the setup meanwhile (_save has no         *)
(* condition).  Such setups are rewritten; the two properties below are about *)
(* all others.                                                                *)

(* The publish call never comes after an invalidation that won: whatever fails *)
(* between building the plan and recording it, a setup that reads             *)
(* "invalidated" has no plan in the stream (transition_setup's graph and the  *)
(* order build - publish - record of _publish_trade_plan_v8).                 *)
InvalidatedHasNoPlan ==
  \A s \in Setups \ rewritten : setup[s] = "invalidated" => plan[s] = "none"

(* A setup that can expire is in the index the sweeper reads, or the task that *)
(* wrote it last is about to put it there (_sync_expiry_index after the save, *)
(* the rebuild of reconcile_startup_state after a crash between the two).     *)
ExpirableIsIndexed ==
  \A s \in Setups \ rewritten : setup[s] \in PrePlan =>
    \/ s \in indexed
    \/ \E a \in Actors : On(a) = s /\ act[a].pc \in {"index_new", "sync"}

(* A closed setup is written by no task that loaded it while it was open, nor *)
(* by the start-up pass (_TRANSITION_LUA): what reopens it is the save of a   *)
(* create that had found no record.                                           *)
OnlyCreateReopens ==
  [][\A s \in Setups : setup[s] \in Terminal /\ setup'[s] # setup[s] =>
       /\ setup'[s] = "discovered"
       /\ \E w \in Workers : At(w, "save") /\ On(w) = s]_vars


-----------------------------------------------------------------------------
(* What the code's comments claim and the code does not keep.                 *)

(* A setup with a live plan is not closed: a late sweeper pass leaves alone   *)
(* what publication won (setup_lifecycle.py:418-425).  But expire_setup       *)
(* checks one load and transition_setup works on its own: a publication       *)
(* between the two is expired.                                                *)
TerminalHasNoLivePlan ==
  \A s \in Setups : setup[s] \in Terminal => plan[s] # "live"

(* Only rearm_setup, which nobody calls, leads back from a terminal state     *)
(* (setup_lifecycle.py:471).  The save of a create does, too.                 *)
OnlyRearmReopens ==
  [][\A s \in Setups : setup[s] \in Terminal => setup'[s] = setup[s]]_vars

(* A thesis has one live plan (claim_active_thesis, setup_lifecycle.py:509).  *)
(* An expired setup gives its claim back though its plan lives.               *)
OneActivePlan ==
  \A s, t \in Setups : plan[s] = "live" /\ plan[t] = "live" => s = t
=============================================================================
