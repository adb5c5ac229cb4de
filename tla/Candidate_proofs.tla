----------------------------- MODULE Candidate_proofs -----------------------------
(* What holds of one candidate: first for any number of executors, order      *)
(* requests and faults (CandidateExecutor), then for any use of the leases on *)
(* its record (CandidateLease).                                               *)
EXTENDS CandidateLease, CandidateExecutor, FiniteSetTheorems, TLAPS

-----------------------------------------------------------------------------
(* THE EXECUTORS: any number of executors, order requests and faults and any  *)
(* lease window, recheck delay and quorum, provided that the gate's read      *)
(* follows its renewal within one unit of time.                               *)

-----------------------------------------------------------------------------
(* What the scripts do to the fields of a record.                             *)

RecFields == {"state", "event", "format", "token", "lease", "key", "outcome"}

RecOK(r) ==
  /\ DOMAIN r = RecFields
  /\ r.lease \in 0 .. LeaseSeconds /\ r.key \in Nat /\ r.lease =< r.key
  /\ r.token = NoToken \/ r.token \in Workers

LEMMA Windows ==
  /\ LeaseSeconds \in Nat /\ LeaseSeconds > 0 /\ RetentionSeconds \in Nat
  /\ LeaseSeconds =< RetentionSeconds /\ PublishSeconds \in Nat
  /\ SettleSeconds \in Nat /\ SettleSeconds < LeaseSeconds
  /\ NoToken \notin Workers
BY LeaseWindowAssumption, ProgressAssumption, ExecutorAssumption, NullAssumption
   DEF LeaseWindowAssumption, ProgressAssumption, ExecutorAssumption, NullAssumption, Workers

\* A missing record and the publisher's.
LEMMA UnleasedFields ==
  ASSUME NEW s, NEW e, NEW f, NEW o, NEW ttl \in Nat
  PROVE  /\ RecOK(Unleased(s, e, f, o, ttl))
         /\ Unleased(s, e, f, o, ttl).state = s
         /\ Unleased(s, e, f, o, ttl).token = NoToken
BY Windows DEF Unleased, RecOK, RecFields

LEMMA ClaimedFields ==
  ASSUME NEW r, NEW e, NEW t \in Workers
  PROVE  /\ RecOK(Claimed(r, e, t))
         /\ Claimed(r, e, t).state = ClaimedState(r)
         /\ Claimed(r, e, t).token = t
BY Windows DEF Claimed, RecOK, RecFields

LEMMA RenewedFields ==
  ASSUME NEW r, RecOK(r)
  PROVE  /\ RecOK(Renewed(r))
         /\ Renewed(r).state = r.state /\ Renewed(r).token = r.token
         /\ Renewed(r).lease = LeaseSeconds
<1>1. /\ DOMAIN Renewed(r) = RecFields
      /\ Renewed(r).state = r.state /\ Renewed(r).token = r.token
      /\ Renewed(r).lease = LeaseSeconds /\ Renewed(r).key = LeaseSeconds
  BY DEF Renewed, RecOK, RecFields
<1> QED
  BY <1>1, Windows DEF RecOK

LEMMA TransitionedFields ==
  ASSUME NEW r, RecOK(r), NEW s
  PROVE  /\ RecOK(Transitioned(r, s))
         /\ Transitioned(r, s).state = s
         /\ s = "retryable_error" => Transitioned(r, s).token = NoToken
         /\ s # "retryable_error" => /\ Transitioned(r, s).token = r.token
                                     /\ Transitioned(r, s).lease = LeaseSeconds
<1>1. CASE s = "retryable_error"
  <2>1. Transitioned(r, s) = [r EXCEPT !.state = s, !.token = NoToken, !.lease = 0,
                                       !.key = RetentionSeconds]
    BY <1>1 DEF Transitioned
  <2>2. /\ DOMAIN Transitioned(r, s) = RecFields
        /\ Transitioned(r, s).state = s /\ Transitioned(r, s).token = NoToken
        /\ Transitioned(r, s).lease = 0 /\ Transitioned(r, s).key = RetentionSeconds
    BY <2>1 DEF RecOK, RecFields
  <2> QED
    BY <1>1, <2>2, Windows DEF RecOK
<1>2. CASE s # "retryable_error"
  <2>1. Transitioned(r, s) = [r EXCEPT !.state = s, !.lease = LeaseSeconds, !.key = RetentionSeconds]
    BY <1>2 DEF Transitioned
  <2>2. /\ DOMAIN Transitioned(r, s) = RecFields
        /\ Transitioned(r, s).state = s /\ Transitioned(r, s).token = r.token
        /\ Transitioned(r, s).lease = LeaseSeconds /\ Transitioned(r, s).key = RetentionSeconds
    BY <2>1 DEF RecOK, RecFields
  <2> QED
    BY <1>2, <2>2, Windows DEF RecOK
<1> QED
  BY <1>1, <1>2

LEMMA CompletedFields ==
  ASSUME NEW r, RecOK(r), NEW s, NEW o
  PROVE  /\ RecOK(Completed(r, s, o))
         /\ Completed(r, s, o).state = s /\ Completed(r, s, o).token = NoToken
         /\ Completed(r, s, o).key = RetentionSeconds
<1>1. /\ DOMAIN Completed(r, s, o) = RecFields
      /\ Completed(r, s, o).state = s /\ Completed(r, s, o).token = NoToken
      /\ Completed(r, s, o).lease = 0 /\ Completed(r, s, o).key = RetentionSeconds
  BY DEF Completed, RecOK, RecFields
<1> QED
  BY <1>1, Windows DEF RecOK

\* A second: the lease is one shorter, and the key never ends before it.
LEMMA AgedFields ==
  ASSUME NEW r, RecOK(r), NEW a,
         a = IF r.key > LeaseSeconds THEN [r EXCEPT !.lease = Before(@)] ELSE Aged(r)
  PROVE  /\ RecOK(a)
         /\ a.state = r.state /\ a.token = r.token
         /\ a.lease = Before(r.lease)
         /\ r.key > LeaseSeconds => a.key = r.key
<1>1. CASE r.key > LeaseSeconds
  <2>1. /\ DOMAIN a = RecFields
        /\ a.state = r.state /\ a.token = r.token
        /\ a.lease = Before(r.lease) /\ a.key = r.key
    BY <1>1 DEF RecOK, RecFields
  <2> QED
    BY <2>1, Windows DEF RecOK, Before
<1>2. CASE ~(r.key > LeaseSeconds)
  <2>1. a = [r EXCEPT !.lease = Before(@), !.key = Before(@)]
    BY <1>2 DEF Aged
  <2>2. /\ DOMAIN a = RecFields
        /\ a.state = r.state /\ a.token = r.token
        /\ a.lease = Before(r.lease) /\ a.key = Before(r.key)
    BY <2>1 DEF RecOK, RecFields
  <2> QED
    BY <1>2, <2>2, Windows DEF RecOK, Before
<1> QED
  BY <1>1, <1>2

-----------------------------------------------------------------------------
(* The invariant. A request that is not settled is covered by the lease of a  *)
(* record that says so; an executor past the snapshot owns the candidate and  *)
(* found nothing, or it owns nothing.                                         *)

Early  == {"processing", "checked", "adopting", "reread", "submit"}
Passed == {"checked", "reread", "submit"}

AllFree == \A o \in Orders : order[o].state = "free"

WorkersOK ==
  /\ DOMAIN worker = Workers
  /\ \A w \in Workers : DOMAIN worker[w] = {"pc", "heart", "order", "left", "wait"}

OrdersOK ==
  /\ DOMAIN order = Orders
  /\ \A o \in Orders : /\ DOMAIN order[o] = {"state", "left"}
                       /\ order[o].state \in {"free", "ready", "flight", "open"}
                       /\ order[o].left \in 0 .. SettleSeconds

Single == \A a, b \in Orders :
  order[a].state # "free" /\ order[b].state # "free" => a = b

\* While a request is on its way the record says "submitting" or "unknown", and
\* its lease outlasts the request: no recovery can start.
Covered == \A o \in Orders :
  order[o].state \in {"ready", "flight"} =>
    /\ rec.state \in {"broker_submitting", "broker_outcome_unknown"}
    /\ rec.lease > order[o].left

\* What the owner's step says of the record.
Owner(w) ==
  rec.token = w =>
    /\ worker[w].pc \in Early => rec.state = "processing"
    /\ worker[w].pc \in Executing => rec.state \in Active
    /\ worker[w].pc \in Recovering => rec.state \in {"processing", "broker_reconciling"}
    /\ worker[w].pc \in Passed => AllFree
    /\ worker[w].pc \in {"absent", "freeing"} /\ rec.state = "broker_reconciling" => AllFree

\* What an executor's step says of its request, whoever owns the candidate.
Standing(w) ==
  /\ worker[w].pc = "reread" => rec.token = w /\ rec.lease > 0
  /\ worker[w].pc \in {"ready", "awaiting", "filled"} => worker[w].order \in Orders
  /\ worker[w].pc = "ready" => order[worker[w].order].state = "ready"
  /\ worker[w].pc = "filled" => order[worker[w].order].state = "open"
  /\ worker[w].pc \in {"adopting", "adopt"} => Visible # {}

Sole == \A v, w \in Workers : worker[v].pc = "ready" /\ worker[w].pc = "ready" => v = w

\* A terminal record is written for longer than a lease window.
Lasting == LeaseSeconds < RetentionSeconds /\ rec.state \in Terminal => rec.key > LeaseSeconds

OrderInv ==
  /\ RecOK(rec) /\ WorkersOK /\ OrdersOK
  /\ Single /\ Covered /\ Sole /\ Lasting
  /\ \A w \in Workers : Owner(w) /\ Standing(w)

-----------------------------------------------------------------------------
(* One executor moves.                                                        *)

\* Executor w goes to step p ...
Goes(w, p) ==
  /\ WorkersOK'
  /\ \A v \in Workers \ {w} : worker'[v] = worker[v]
  /\ worker'[w].pc = p

\* ... and its request stays, or p has none.
To(w, p) ==
  /\ Goes(w, p)
  /\ worker'[w].order = worker[w].order \/ p \notin {"ready", "awaiting", "filled"}

\* The record is left alone, or written by its owner or claimer w, while nobody
\* else is between the renewal and the read of the gate.
Turn(w) ==
  \/ rec' = rec
  \/ /\ rec'.token \in {w, NoToken}
     /\ \A v \in Workers \ {w} : worker[v].pc # "reread"

LEMMA OwnerTurn ==
  ASSUME OrderInv, NEW w \in Workers, rec.token = w, rec'.token \in {w, NoToken}
  PROVE  Turn(w)
BY DEF OrderInv, Standing, Turn

\* Steps of w leave what holds of another executor.
LEMMA Bystander ==
  ASSUME OrderInv, NEW w \in Workers, NEW p, Goes(w, p), Turn(w),
         AllFree => AllFree' \/ rec'.token = w,
         \A o \in Orders : order[o].state = "open" => order'[o].state = "open",
         NEW v \in Workers \ {w},
         worker[v].pc = "ready" => order'[worker[v].order] = order[worker[v].order]
  PROVE  (Owner(v) /\ Standing(v))'
<1>1. worker'[v] = worker[v] /\ v # NoToken
  BY Windows DEF Goes
<1>2. Owner(v) /\ Standing(v)
  BY DEF OrderInv
<1>3. rec'.token = v => rec' = rec /\ (AllFree => AllFree')
  BY <1>1 DEF Turn
<1>4. worker[v].pc = "reread" => rec' = rec
  BY DEF Turn
<1>5. Visible # {} => Visible' # {}
  BY DEF Visible
<1>6. Owner(v)'
  BY <1>1, <1>2, <1>3 DEF Owner
<1>7. Standing(v)'
  BY <1>1, <1>2, <1>4, <1>5 DEF Standing
<1> QED
  BY <1>6, <1>7

\* The steps w may take without touching the orders.
MayMove(w, p) ==
  /\ p \in Early => worker[w].pc \in Early
  /\ p \in Executing => worker[w].pc \in Executing
  /\ p \in Recovering => worker[w].pc \in Recovering
  /\ p \in Passed => worker[w].pc \in Passed \/ (worker[w].pc = "processing" /\ Visible = {})
  /\ p \in {"absent", "freeing"} => worker[w].pc \in {"absent", "freeing"} \/ Visible = {}
  /\ p \in {"ready", "awaiting"} => worker[w].pc = p
  /\ p = "filled" => \/ worker[w].pc = p
                     \/ worker[w].pc = "awaiting" /\ order[worker[w].order].state = "open"
  /\ p \in {"adopting", "adopt"} => worker[w].pc = p \/ Visible # {}

\* Nothing on its way and nothing to be seen: nothing at all.
LEMMA NothingThere ==
  ASSUME OrderInv, Visible = {}, rec.state \notin {"broker_submitting", "broker_outcome_unknown"}
  PROVE  AllFree
BY DEF OrderInv, Covered, OrdersOK, Visible, AllFree

Renews(w) == MayRenew(rec, Event, w) /\ rec' = Renewed(rec)

LEMMA Renewal ==
  ASSUME OrderInv, NEW w \in Workers, Renews(w)
  PROVE  /\ RecOK(rec') /\ rec'.state = rec.state /\ rec'.token = rec.token
         /\ rec.token = w
         /\ rec'.lease = LeaseSeconds /\ rec.lease =< LeaseSeconds /\ LeaseSeconds > 0
         /\ Lasting'
<1>1. RecOK(rec') /\ rec'.state = rec.state /\ rec'.token = rec.token /\ rec'.lease = LeaseSeconds
  BY RenewedFields DEF Renews, OrderInv
<1>2. rec.token = w /\ rec.state \notin Terminal
  BY DEF Renews, MayRenew, Owns, Active, Recovery, Terminal
<1> QED
  BY <1>1, <1>2, Windows DEF OrderInv, RecOK, Lasting

\* w moves on, and the record is left alone or renewed.
LEMMA MovesOn ==
  ASSUME OrderInv, NEW w \in Workers, NEW p, To(w, p), MayMove(w, p), order' = order,
         rec' = rec \/ Renews(w),
         p = "reread" => worker[w].pc = p \/ Renews(w)
  PROVE  OrderInv'
<1>1. /\ RecOK(rec') /\ rec'.state = rec.state /\ rec'.token = rec.token
      /\ rec'.lease \in Nat /\ rec.lease \in Nat /\ rec'.lease >= rec.lease
      /\ Lasting'
  BY Renewal, Windows DEF OrderInv, RecOK, Lasting
<1>2. Turn(w)
  BY Renewal, OwnerTurn DEF Turn
<1>3. \A v \in Workers \ {w} : (Owner(v) /\ Standing(v))'
  BY <1>2, Bystander DEF AllFree, To
<1>4. Owner(w) /\ Standing(w) /\ worker'[w].pc = p
  BY DEF OrderInv, To, Goes
<1>5. Visible' = Visible /\ (AllFree' <=> AllFree)
  BY DEF Visible, AllFree
<1>6. Owner(w)'
  <2> SUFFICES ASSUME rec'.token = w PROVE Owner(w)'
    BY DEF Owner
  <2>1. /\ p \in Early => rec'.state = "processing"
        /\ p \in Executing => rec'.state \in Active
        /\ p \in Recovering => rec'.state \in {"processing", "broker_reconciling"}
    BY <1>1, <1>4 DEF Owner, MayMove
  <2>2. p \in Passed => AllFree'
    <3>1. worker[w].pc = "processing" => rec.state = "processing"
      BY <1>1, <1>4 DEF Owner, Early
    <3> QED
      BY <1>1, <1>4, <1>5, <3>1, NothingThere DEF Owner, MayMove
  <2>3. p \in {"absent", "freeing"} /\ rec'.state = "broker_reconciling" => AllFree'
    BY <1>1, <1>4, <1>5, NothingThere DEF Owner, MayMove
  <2> QED
    BY <1>4, <2>1, <2>2, <2>3 DEF Owner
<1>7. Standing(w)'
  <2>1. p = "reread" => rec'.token = w /\ rec'.lease > 0
    BY <1>1, <1>4, Renewal DEF Standing
  <2>2. p \in {"ready", "awaiting", "filled"} =>
          /\ worker'[w].order = worker[w].order
          /\ worker[w].pc = p \/ (worker[w].pc = "awaiting" /\ p = "filled")
    BY DEF To, MayMove
  <2>3. /\ p \in {"ready", "awaiting", "filled"} => worker'[w].order \in Orders
        /\ p = "ready" => order'[worker'[w].order].state = "ready"
        /\ p = "filled" => order'[worker'[w].order].state = "open"
    BY <1>4, <2>2 DEF Standing, MayMove
  <2>4. p \in {"adopting", "adopt"} => Visible' # {}
    BY <1>4, <1>5 DEF Standing, MayMove
  <2> QED
    BY <1>4, <2>1, <2>3, <2>4 DEF Standing
<1>8. WorkersOK' /\ OrdersOK' /\ Single' /\ Covered'
  BY <1>1 DEF To, Goes, OrderInv, OrdersOK, Single, Covered
<1>9. Sole'
  <2>1. \A v \in Workers : worker'[v].pc = "ready" => worker[v].pc = "ready"
    BY <1>4 DEF To, Goes, MayMove
  <2> QED
    BY <2>1 DEF Sole, OrderInv
<1> QED
  BY <1>1, <1>3, <1>6, <1>7, <1>8, <1>9 DEF OrderInv

Unsettled == \E o \in Orders : order[o].state \in {"ready", "flight"}

\* The owner's fenced write, with which its processing ends.
LEMMA OwnerLeaves ==
  ASSUME OrderInv, NEW w \in Workers, NEW p, To(w, p), order' = order,
         rec.token = w, RecOK(rec'), rec'.token \in {w, NoToken}, Lasting',
         p \notin Leased \/ (p \in {"clearing", "adopted"} /\ rec'.token = NoToken),
         ~Unsettled \/ (rec'.state = "broker_outcome_unknown" /\ rec'.lease = LeaseSeconds)
  PROVE  OrderInv'
<1>1. \A v \in Workers \ {w} : (Owner(v) /\ Standing(v))'
  BY OwnerTurn, Bystander DEF AllFree, To
<1>2. worker'[w].pc = p /\ w # NoToken
  BY Windows DEF To, Goes
<1>3. p \notin Early /\ p \notin Passed
      /\ p \notin {"absent", "freeing", "reread", "ready", "awaiting", "filled", "adopting", "adopt"}
  BY DEF Leased, Executing, Recovering, Early, Passed
<1>4. Owner(w)'
  BY <1>2, <1>3 DEF Owner, Leased
<1>5. Standing(w)'
  BY <1>2, <1>3 DEF Standing
<1>6. Covered'
  BY Windows DEF Covered, Unsettled, OrderInv, OrdersOK
<1>7. WorkersOK' /\ OrdersOK' /\ Single'
  BY DEF To, Goes, OrderInv, OrdersOK, Single
<1>8. Sole'
  BY <1>2, <1>3 DEF To, Goes, Sole, OrderInv
<1> QED
  BY <1>1, <1>4, <1>5, <1>6, <1>7, <1>8 DEF OrderInv

LEMMA Completes ==
  ASSUME OrderInv, NEW w \in Workers, NEW p, NEW s \in {"ordered", "rejected"}, To(w, p),
         p \notin Leased \/ p = "adopted",
         MayComplete(rec, Event, w), rec' = Completed(rec, s, "other"),
         ~Unsettled, order' = order
  PROVE  OrderInv'
<1>1. RecOK(rec') /\ rec'.token = NoToken /\ rec'.key = RetentionSeconds
  BY CompletedFields DEF OrderInv
<1>2. Lasting'
  BY <1>1, Windows DEF Lasting
<1>3. rec.token = w
  BY DEF MayComplete, Owns
<1> QED
  BY <1>1, <1>2, <1>3, OwnerLeaves

LEMMA Transits ==
  ASSUME OrderInv, NEW w \in Workers, NEW p, NEW s, To(w, p),
         p \notin Leased \/ (p = "clearing" /\ s = "retryable_error"),
         s \in {"broker_outcome_unknown", "retryable_error"},
         MayTransition(rec, Event, w, s), rec' = Transitioned(rec, s), order' = order
  PROVE  OrderInv'
<1>1. /\ RecOK(rec') /\ rec'.state = s
      /\ s = "retryable_error" => rec'.token = NoToken
      /\ s # "retryable_error" => rec'.token = rec.token /\ rec'.lease = LeaseSeconds
  BY TransitionedFields DEF OrderInv
<1>2. rec.token = w /\ s \in AllowedTransitions(rec.state)
  BY DEF MayTransition, Owns
<1>3. Lasting'
  BY <1>1 DEF Lasting, Terminal
<1>4. s = "retryable_error" => rec.state \in {"processing", "broker_reconciling"}
  BY <1>2 DEF AllowedTransitions
<1>5. s = "retryable_error" => ~Unsettled
  BY <1>4 DEF OrderInv, Covered, Unsettled
<1> QED
  BY <1>1, <1>2, <1>3, <1>5, OwnerLeaves

\* No request is on its way when a candidate can be claimed.
LEMMA ClaimsFind ==
  ASSUME OrderInv, NEW policy \in {DefaultClaim, RecoveryClaim}, MayClaim(rec, Event, policy)
  PROVE  /\ ~Unsettled
         /\ \A v \in Workers : worker[v].pc # "reread"
         /\ policy = DefaultClaim => ClaimedState(rec) = "processing"
         /\ rec.state \notin Terminal
<1>1. policy.rejected = FALSE /\ (policy = DefaultClaim => ~policy.submitting /\ ~policy.recovery)
  BY DEF DefaultClaim, RecoveryClaim
<1>2. /\ rec.state \notin {"processing", "broker_submitting", "broker_outcome_unknown"} \/ rec.lease = 0
      /\ policy = DefaultClaim => rec.state \notin Uncertain
      /\ rec.state \notin Terminal
  BY <1>1 DEF MayClaim, Reclaimable, Expired, Retryable, Recovery, Uncertain, Terminal
<1>3. ~Unsettled
  BY <1>2, Windows DEF OrderInv, OrdersOK, Covered, Unsettled
<1>4. ASSUME NEW v \in Workers, worker[v].pc = "reread"
      PROVE  FALSE
  BY <1>2, <1>4 DEF OrderInv, Standing, Owner, Early
<1> QED
  BY <1>2, <1>3, <1>4 DEF ClaimedState

LEMMA ClaimsKeep ==
  ASSUME OrderInv, NEW w \in Workers, NEW p, NEW policy \in {DefaultClaim, RecoveryClaim},
         MayClaim(rec, Event, policy), rec' = Claimed(rec, Event, w), To(w, p), order' = order,
         (p = "processing" /\ policy = DefaultClaim) \/ p = "look"
  PROVE  OrderInv'
<1>1. RecOK(rec') /\ rec'.state = ClaimedState(rec) /\ rec'.token = w
  BY ClaimedFields
<1>2. rec'.state \in {"processing", "broker_reconciling"}
  BY <1>1 DEF ClaimedState
<1>3. Turn(w) /\ ~Unsettled
  BY <1>1, ClaimsFind DEF Turn
<1>4. \A v \in Workers \ {w} : (Owner(v) /\ Standing(v))'
  BY <1>3, Bystander DEF AllFree, To
<1>5. worker'[w].pc = p
  BY DEF To, Goes
<1>6. Owner(w)'
  BY <1>1, <1>2, <1>5, ClaimsFind DEF Owner, Early, Passed, Executing, Recovering, Active
<1>7. Standing(w)'
  BY <1>5 DEF Standing
<1>8. Covered' /\ Lasting'
  BY <1>2, <1>3 DEF Covered, Unsettled, Lasting, Terminal
<1>9. WorkersOK' /\ OrdersOK' /\ Single' /\ Sole'
  BY <1>5 DEF To, Goes, OrderInv, OrdersOK, Single, Sole
<1> QED
  BY <1>1, <1>4, <1>6, <1>7, <1>8, <1>9 DEF OrderInv

\* The gate opens: only the owner gets here, and it found nothing.
LEMMA Opens ==
  ASSUME OrderInv, NEW w \in Workers, NEW o \in Orders, At(w, "submit"),
         MayTransition(rec, Event, w, "broker_submitting"),
         rec' = Transitioned(rec, "broker_submitting"), Goes(w, "ready"),
         worker'[w].order = o,
         order' = [order EXCEPT ![o] = [state |-> "ready", left |-> SettleSeconds]]
  PROVE  OrderInv'
<1>1. /\ RecOK(rec') /\ rec'.state = "broker_submitting"
      /\ rec'.token = rec.token /\ rec'.lease = LeaseSeconds /\ rec.token = w
  BY TransitionedFields DEF OrderInv, MayTransition, Owns
<1>2. AllFree
  BY <1>1 DEF OrderInv, Owner, Passed, At
<1>3. /\ DOMAIN order' = Orders
      /\ order'[o] = [state |-> "ready", left |-> SettleSeconds]
      /\ \A a \in Orders : a # o => order'[a] = order[a]
  BY DEF OrderInv, OrdersOK
<1>4. \A v \in Workers : worker[v].pc # "ready"
  BY <1>2 DEF OrderInv, Standing, AllFree
<1>5. Turn(w)
  BY <1>1, OwnerTurn
<1>6. \A a \in Orders : order[a].state = "open" => order'[a].state = "open"
  BY <1>2 DEF AllFree
<1>7. \A v \in Workers \ {w} : (Owner(v) /\ Standing(v))'
  BY <1>1, <1>4, <1>5, <1>6, Bystander
<1>8. worker'[w].pc = "ready"
  BY DEF Goes
<1>9. Owner(w)' /\ Standing(w)'
  BY <1>1, <1>3, <1>8 DEF Owner, Standing, Early, Passed, Executing, Recovering, Active
<1>10. OrdersOK' /\ Single' /\ Covered'
  BY <1>1, <1>2, <1>3, Windows DEF OrderInv, OrdersOK, Single, Covered, AllFree
<1>11. Sole' /\ Lasting' /\ WorkersOK'
  BY <1>1, <1>4 DEF Goes, Sole, Lasting, Terminal
<1> QED
  BY <1>1, <1>7, <1>9, <1>10, <1>11 DEF OrderInv

\* A request about to be sent is sent, or withdrawn.
LEMMA RequestMoves ==
  ASSUME OrderInv, NEW w \in Workers, NEW p, At(w, "ready"), Goes(w, p),
         p \in {"awaiting", "unknown", "releasing", "down"},
         p = "awaiting" => worker'[w].order = worker[w].order,
         rec' = rec, OrdersOK',
         \A o \in Orders : o # worker[w].order => order'[o] = order[o],
         order'[worker[w].order].state \in {"free", "flight"},
         order'[worker[w].order].left =< order[worker[w].order].left
  PROVE  OrderInv'
<1> DEFINE r == worker[w].order
<1>1. r \in Orders /\ order[r].state = "ready" /\ Owner(w)
  BY DEF OrderInv, Standing, At
<1>2. \A v \in Workers : worker[v].pc = "ready" => v = w
  BY DEF OrderInv, Sole, At
<1>3. \A o \in Orders : order[o].state = "open" => order'[o].state = "open"
  BY <1>1
<1>4. Turn(w) /\ ~AllFree
  BY <1>1 DEF Turn, AllFree
<1>5. \A v \in Workers \ {w} : (Owner(v) /\ Standing(v))'
  BY <1>2, <1>3, <1>4, Bystander
<1>6. worker'[w].pc = p
  BY DEF Goes
<1>7. Owner(w)'
  BY <1>1, <1>6 DEF Owner, Early, Passed, Executing, Recovering, At
<1>8. Standing(w)'
  BY <1>1, <1>6 DEF Standing
<1>9. Single'
  BY <1>1 DEF OrderInv, Single
<1>10. Covered'
  <2> SUFFICES ASSUME NEW o \in Orders, order'[o].state \in {"ready", "flight"}
               PROVE  /\ rec.state \in {"broker_submitting", "broker_outcome_unknown"}
                      /\ rec.lease > order'[o].left
    BY DEF Covered
  <2>1. order[o].state \in {"ready", "flight"} /\ order'[o].left =< order[o].left
    BY <1>1, Windows DEF OrderInv, OrdersOK
  <2>2. rec.lease \in Nat /\ order[o].left \in Nat /\ order'[o].left \in Nat
    BY Windows DEF OrderInv, OrdersOK, RecOK
  <2> QED
    BY <2>1, <2>2 DEF OrderInv, Covered
<1>11. Sole'
  BY <1>2, <1>6 DEF Goes, Sole
<1> QED
  BY <1>5, <1>7, <1>8, <1>9, <1>10, <1>11 DEF OrderInv, Goes, RecOK, Lasting

-----------------------------------------------------------------------------
(* The executor's own fields.                                                 *)

WorkerFields == {"pc", "heart", "order", "left", "wait"}

LEMMA Becoming ==
  ASSUME OrderInv, NEW w \in Workers, NEW x, NEW p,
         worker' = [worker EXCEPT ![w] = x], DOMAIN x = WorkerFields, x.pc = p
  PROVE  /\ Goes(w, p) /\ worker'[w] = x
         /\ x.order = worker[w].order \/ p \notin {"ready", "awaiting", "filled"} => To(w, p)
<1>1. worker'[w] = x /\ \A v \in Workers \ {w} : worker'[v] = worker[v]
  BY DEF OrderInv, WorkersOK
<1>2. WorkersOK'
  BY <1>1 DEF OrderInv, WorkersOK, WorkerFields
<1> QED
  BY <1>1, <1>2 DEF Goes, To

LEMMA Gotos ==
  ASSUME OrderInv, NEW w \in Workers, NEW p, Goto(w, p)
  PROVE  To(w, p)
<1> DEFINE x == [worker[w] EXCEPT !.pc = p]
<1>1. DOMAIN x = WorkerFields /\ x.pc = p /\ x.order = worker[w].order
  BY DEF OrderInv, WorkersOK, WorkerFields
<1>2. worker' = [worker EXCEPT ![w] = x]
  BY DEF Goto
<1> HIDE DEF x
<1> QED
  BY <1>1, <1>2, Becoming

LEMMA Returns ==
  ASSUME OrderInv, NEW w \in Workers
  PROVE  /\ Return(w) => To(w, "idle")
         /\ ReturnTrue(w) => To(w, "advance")
<1>1. DOMAIN Idle = WorkerFields /\ Idle.pc = "idle"
  BY DEF Idle, WorkerFields
<1>2. /\ DOMAIN [Idle EXCEPT !.pc = "advance"] = WorkerFields
      /\ [Idle EXCEPT !.pc = "advance"].pc = "advance"
  BY DEF Idle, WorkerFields
<1>3. Return(w) => To(w, "idle")
  BY <1>1, Becoming DEF Return
<1>4. ReturnTrue(w) => To(w, "advance")
  BY <1>2, Becoming DEF ReturnTrue
<1> QED
  BY <1>3, <1>4

LEMMA StartsOver ==
  ASSUME OrderInv, NEW w \in Workers, NEW p, p \notin {"ready", "awaiting", "filled"},
         worker' = [worker EXCEPT ![w] = [Idle EXCEPT !.pc = p]]
  PROVE  To(w, p)
<1>1. /\ DOMAIN [Idle EXCEPT !.pc = p] = WorkerFields
      /\ [Idle EXCEPT !.pc = p].pc = p
  BY DEF Idle, WorkerFields
<1> QED
  BY <1>1, Becoming

LEMMA Sleeps ==
  ASSUME OrderInv, NEW w \in Workers, NEW n, Sleep(w, n)
  PROVE  To(w, "giveup") \/ To(w, "waiting")
<1>1. CASE Goto(w, "giveup")
  BY <1>1, Gotos
<1>2. CASE worker' = [worker EXCEPT ![w].pc = "waiting", ![w].wait = n]
  <2> DEFINE x == [worker[w] EXCEPT !.pc = "waiting", !.wait = n]
  <2>1. DOMAIN x = WorkerFields /\ x.pc = "waiting"
    BY DEF OrderInv, WorkersOK, WorkerFields
  <2>2. worker' = [worker EXCEPT ![w] = x]
    BY <1>2 DEF OrderInv, WorkersOK
  <2> HIDE DEF x
  <2> QED
    BY <2>1, <2>2, Becoming
<1> QED
  BY <1>1, <1>2 DEF Sleep

LEMMA HeartOnly ==
  ASSUME OrderInv, NEW w \in Workers, NEW h, worker' = [worker EXCEPT ![w].heart = h]
  PROVE  To(w, worker[w].pc)
<1> DEFINE x == [worker[w] EXCEPT !.heart = h]
<1>1. DOMAIN x = WorkerFields /\ x.pc = worker[w].pc /\ x.order = worker[w].order
  BY DEF OrderInv, WorkersOK, WorkerFields
<1>2. worker' = [worker EXCEPT ![w] = x]
  OBVIOUS
<1> HIDE DEF x
<1> QED
  BY <1>1, <1>2, Becoming

-----------------------------------------------------------------------------
(* The actions.                                                               *)

\* Leaving the leased part of the code needs no permission.
LEMMA Leaves ==
  ASSUME OrderInv, NEW w \in Workers, NEW p, p \notin Leased, To(w, p),
         UNCHANGED <<rec, order>>
  PROVE  OrderInv'
<1>1. MayMove(w, p) /\ p # "reread"
  BY DEF MayMove, Leased, Executing, Recovering, Early, Passed
<1> QED
  BY <1>1, MovesOn

LEMMA Outside == {"idle", "advance", "recover", "done", "down"} \cap Leased = {}
BY DEF Leased, Executing, Recovering

\* A candidate being processed by its owner has no request on its way.
LEMMA OwnerWaitsForNothing ==
  ASSUME OrderInv, NEW w \in Workers, rec.token = w,
         worker[w].pc \in Early \cup Recovering \cup {"filled"}
  PROVE  ~Unsettled
<1>1. CASE worker[w].pc \in Early \cup Recovering
  BY <1>1 DEF OrderInv, Owner, Covered, Unsettled
<1>2. CASE worker[w].pc = "filled"
  BY <1>2 DEF OrderInv, Standing, Single, Unsettled
<1> QED
  BY <1>1, <1>2

\* The completion whose result the caller ignores.
LEMMA TriesToComplete ==
  ASSUME OrderInv, NEW w \in Workers, NEW s \in {"ordered", "rejected"},
         worker[w].pc \in Early \cup {"filled"},
         TryComplete(w, s), ReturnTrue(w), order' = order
  PROVE  OrderInv'
<1>1. To(w, "advance") /\ "advance" \notin Leased
  BY Returns, Outside
<1>2. CASE MayComplete(rec, Event, w)
  BY <1>1, <1>2, Completes, OwnerWaitsForNothing DEF TryComplete, MayComplete, Owns
<1>3. CASE ~MayComplete(rec, Event, w)
  BY <1>1, <1>3, Leaves DEF TryComplete
<1> QED
  BY <1>2, <1>3

LEMMA TriesToMarkUnknown ==
  ASSUME OrderInv, NEW w \in Workers, TryMarkUnknown(w) \/ rec' = rec, Return(w), order' = order
  PROVE  OrderInv'
<1>1. To(w, "idle") /\ "idle" \notin Leased
  BY Returns, Outside
<1>2. CASE rec' = rec
  BY <1>1, <1>2, Leaves
<1>3. CASE MayTransition(rec, Event, w, "broker_outcome_unknown")
           /\ rec' = Transitioned(rec, "broker_outcome_unknown")
  BY <1>1, <1>3, Transits
<1> QED
  BY <1>2, <1>3 DEF TryMarkUnknown

LEMMA IntakeSteps ==
  ASSUME OrderInv, NEW w \in Workers,
         Claim(w) \/ Dispose(w) \/ Reject(w) \/ Snapshot(w) \/ Adopt(w)
  PROVE  OrderInv'
<1>1. CASE Claim(w)
  BY <1>1, Gotos, ClaimsKeep DEF Claim
<1>2. CASE Dispose(w)
  <2>1. To(w, "advance") \/ To(w, "recover")
    BY <1>2, Gotos, Returns DEF Dispose
  <2> QED
    BY <1>2, <2>1, Leaves, Outside DEF Dispose
<1>3. CASE Reject(w)
  BY <1>3, TriesToComplete DEF Reject, At, Early
<1>4. CASE Snapshot(w)
  <2> DEFINE p == IF Visible # {} THEN "adopting" ELSE "checked"
  <2>1. To(w, p)
    BY <1>4, Gotos DEF Snapshot
  <2>2. MayMove(w, p) /\ p # "reread"
    BY <1>4 DEF Snapshot, MayMove, At, Early, Executing, Recovering, Passed
  <2> QED
    BY <1>4, <2>1, <2>2, MovesOn DEF Snapshot
<1>5. CASE Adopt(w)
  BY <1>5, TriesToComplete DEF Adopt, At, Early
<1> QED
  BY <1>1, <1>2, <1>3, <1>4, <1>5

LEMMA GateSteps ==
  ASSUME OrderInv, NEW w \in Workers, GateRenew(w) \/ GateReread(w) \/ Submit(w)
  PROVE  OrderInv'
<1>1. CASE GateRenew(w)
  <2>1. CASE ~Lost(w) /\ MayRenew(rec, Event, w)
    <3> DEFINE x == [worker[w] EXCEPT !.pc = "reread", !.heart = "beating"]
    <3>1. DOMAIN x = WorkerFields /\ x.pc = "reread"
      BY DEF OrderInv, WorkersOK, WorkerFields
    <3>2. worker' = [worker EXCEPT ![w] = x]
      BY <1>1, <2>1 DEF GateRenew, OrderInv, WorkersOK
    <3>3. To(w, "reread")
      <4> HIDE DEF x
      <4> QED BY <3>1, <3>2, Becoming
    <3>4. MayMove(w, "reread")
      BY <1>1 DEF GateRenew, MayMove, At, Early, Executing, Recovering, Passed
    <3>5. Renews(w) /\ order' = order
      BY <1>1, <2>1 DEF GateRenew, Renews
    <3> QED
      BY <3>3, <3>4, <3>5, MovesOn
  <2>2. CASE ~(~Lost(w) /\ MayRenew(rec, Event, w))
    BY <1>1, <2>2, Returns, Leaves, Outside DEF GateRenew
  <2> QED
    BY <2>1, <2>2
<1>2. CASE GateReread(w)
  <2>1. rec.state = "processing"
    BY <1>2 DEF GateReread, At, OrderInv, Standing, Owner, Early
  <2>2. Goto(w, "submit") /\ UNCHANGED <<rec, order>>
    BY <1>2, <2>1 DEF GateReread
  <2>3. MayMove(w, "submit")
    BY <1>2 DEF GateReread, MayMove, At, Early, Executing, Recovering, Passed
  <2> QED
    BY <2>2, <2>3, Gotos, MovesOn
<1>3. CASE Submit(w)
  <2>1. CASE MayTransition(rec, Event, w, "broker_submitting")
    <3>1. PICK o \in Orders : Open(w, o)
      BY <1>3, <2>1 DEF Submit
    <3> DEFINE x == [worker[w] EXCEPT !.pc = "ready", !.order = o]
    <3>2. DOMAIN x = WorkerFields /\ x.pc = "ready" /\ x.order = o
      BY DEF OrderInv, WorkersOK, WorkerFields
    <3>3. worker' = [worker EXCEPT ![w] = x]
      BY <3>1 DEF Open, OrderInv, WorkersOK
    <3>4. Goes(w, "ready") /\ worker'[w].order = o
      <4> HIDE DEF x
      <4> QED BY <3>2, <3>3, Becoming
    <3> QED
      BY <1>3, <2>1, <3>1, <3>4, Opens DEF Submit, Open
  <2>2. CASE ~MayTransition(rec, Event, w, "broker_submitting")
    BY <1>3, <2>2, Returns, Leaves, Outside DEF Submit
  <2> QED
    BY <2>1, <2>2
<1> QED
  BY <1>1, <1>2, <1>3

\* What a request about to be sent becomes.
LEMMA RequestFields ==
  ASSUME OrderInv, NEW w \in Workers, At(w, "ready"),
         \/ order' = [order EXCEPT ![worker[w].order] = Free]
         \/ order' = [order EXCEPT ![worker[w].order].state = "flight"]
  PROVE  /\ OrdersOK'
         /\ \A o \in Orders : o # worker[w].order => order'[o] = order[o]
         /\ order'[worker[w].order].state \in {"free", "flight"}
         /\ order'[worker[w].order].left =< order[worker[w].order].left
<1> DEFINE r == worker[w].order
<1>1. r \in Orders
  BY DEF OrderInv, Standing, At
<1>2. CASE order' = [order EXCEPT ![r] = Free]
  <2>1. /\ order'[r] = [state |-> "free", left |-> 0]
        /\ DOMAIN order' = Orders
        /\ \A o \in Orders : o # r => order'[o] = order[o]
    BY <1>1, <1>2 DEF Free, OrderInv, OrdersOK
  <2> QED
    BY <1>1, <2>1, Windows DEF OrderInv, OrdersOK
<1>3. CASE order' = [order EXCEPT ![r].state = "flight"]
  <2>1. /\ DOMAIN order'[r] = {"state", "left"}
        /\ order'[r].state = "flight" /\ order'[r].left = order[r].left
        /\ DOMAIN order' = Orders
        /\ \A o \in Orders : o # r => order'[o] = order[o]
    BY <1>1, <1>3 DEF OrderInv, OrdersOK
  <2> QED
    BY <1>1, <2>1, Windows DEF OrderInv, OrdersOK
<1> QED
  BY <1>2, <1>3

LEMMA RequestSteps ==
  ASSUME OrderInv, NEW w \in Workers,
         Send(w) \/ Cancelled(w) \/ Answer(w) \/ Fill(w) \/ MarkUnknown(w) \/ Release(w)
  PROVE  OrderInv'
<1>1. CASE Send(w)
  <2>1. To(w, "awaiting") /\ At(w, "ready") /\ rec' = rec
        /\ order' = [order EXCEPT ![worker[w].order].state = "flight"]
    BY <1>1, Gotos DEF Send
  <2> QED
    BY <2>1, RequestFields, RequestMoves DEF To
<1>2. CASE Cancelled(w)
  <2>1. To(w, "unknown") /\ rec' = rec
    BY <1>2, Gotos DEF Cancelled
  <2>2. CASE At(w, "ready") /\ order' = [order EXCEPT ![worker[w].order] = Free]
    BY <2>1, <2>2, RequestFields, RequestMoves DEF To
  <2>3. CASE At(w, "awaiting") /\ order' = order
    <3>1. MayMove(w, "unknown")
      BY <2>3 DEF MayMove, At, Early, Executing, Recovering, Passed
    <3> QED
      BY <2>1, <2>3, <3>1, MovesOn
  <2> QED
    BY <1>2, <2>2, <2>3 DEF Cancelled
<1>3. CASE Answer(w)
  <2>1. UNCHANGED <<rec, order>> /\ At(w, "awaiting")
    BY <1>3 DEF Answer
  <2>2. CASE order[worker[w].order].state = "open" /\ Goto(w, "filled")
    <3>1. MayMove(w, "filled")
      BY <2>1, <2>2 DEF MayMove, At, Early, Executing, Recovering, Passed
    <3> QED
      BY <2>1, <2>2, <3>1, Gotos, MovesOn
  <2>3. CASE Goto(w, "unknown")
    <3>1. MayMove(w, "unknown")
      BY <2>1 DEF MayMove, At, Early, Executing, Recovering, Passed
    <3> QED
      BY <2>1, <2>3, <3>1, Gotos, MovesOn
  <2> QED
    BY <1>3, <2>2, <2>3 DEF Answer
<1>4. CASE Fill(w)
  BY <1>4, TriesToComplete DEF Fill, At
<1>5. CASE MarkUnknown(w)
  BY <1>5, TriesToMarkUnknown DEF MarkUnknown
<1>6. CASE Release(w)
  <2>1. To(w, "idle") /\ "idle" \notin Leased /\ order' = order
    BY <1>6, Returns, Outside DEF Release
  <2>2. CASE ~Lost(w) /\ MayTransition(rec, Event, w, "retryable_error")
    BY <1>6, <2>1, <2>2, Transits DEF Release
  <2>3. CASE ~(~Lost(w) /\ MayTransition(rec, Event, w, "retryable_error"))
    BY <1>6, <2>1, <2>3, Leaves DEF Release
  <2> QED
    BY <2>2, <2>3
<1> QED
  BY <1>1, <1>2, <1>3, <1>4, <1>5, <1>6

\* A recovery step that leaves the record and the orders alone.
LEMMA RecoveryMoves ==
  ASSUME OrderInv, NEW w \in Workers, worker[w].pc \in Recovering, UNCHANGED <<rec, order>>,
         \/ To(w, "giveup") \/ To(w, "waiting") \/ To(w, "look") \/ To(w, "failed")
         \/ To(w, "adopt") /\ Visible # {}
         \/ To(w, "absent") /\ Visible = {}
         \/ To(w, "freeing") /\ At(w, "absent")
  PROVE  OrderInv'
<1>1. ASSUME NEW p \in {"giveup", "waiting", "look", "failed", "adopt", "absent", "freeing"},
             p = "adopt" => Visible # {}, p = "absent" => Visible = {},
             p = "freeing" => At(w, "absent"), To(w, p)
      PROVE  OrderInv'
  <2>1. MayMove(w, p) /\ p # "reread"
    BY <1>1 DEF MayMove, At, Early, Executing, Recovering, Passed
  <2> QED
    BY <1>1, <2>1, MovesOn
<1> QED
  BY <1>1

LEMMA RecoverySteps ==
  ASSUME OrderInv, NEW w \in Workers,
         \/ StartRecovery(w) \/ Look(w) \/ AbsenceCheck(w) \/ Awake(w) \/ ReleaseAbsent(w)
         \/ AdoptFound(w) \/ ClearProgress(w) \/ GiveUp(w) \/ Abandon(w)
         \/ Advance(w) \/ Restart(w)
  PROVE  OrderInv'
<1>1. CASE StartRecovery(w)
  <2>1. CASE MayClaim(rec, Event, RecoveryClaim)
    <3> DEFINE x == [Idle EXCEPT !.pc = "look", !.left = RecoverySeconds + 1]
    <3>1. worker' = [worker EXCEPT ![w] = x] /\ DOMAIN x = WorkerFields /\ x.pc = "look"
      BY <1>1, <2>1 DEF StartRecovery, Idle, WorkerFields
    <3>2. To(w, "look")
      <4> HIDE DEF x
      <4> QED BY <3>1, Becoming
    <3> QED
      BY <1>1, <2>1, <3>2, ClaimsKeep DEF StartRecovery
  <2>2. CASE ~MayClaim(rec, Event, RecoveryClaim)
    BY <1>1, <2>2, Returns, Leaves, Outside DEF StartRecovery
  <2> QED
    BY <2>1, <2>2
<1>2. CASE Look(w)
  <2>1. worker[w].pc \in Recovering /\ UNCHANGED <<rec, order>>
    BY <1>2 DEF Look, At, Recovering
  <2>2. \/ Goto(w, "giveup")
        \/ Goto(w, "adopt") /\ Visible # {}
        \/ Goto(w, "absent") /\ Visible = {}
    BY <1>2 DEF Look
  <2> QED
    BY <2>1, <2>2, Gotos, RecoveryMoves
<1>3. CASE AbsenceCheck(w)
  <2>1. worker[w].pc \in Recovering /\ UNCHANGED <<rec, order>> /\ At(w, "absent")
    BY <1>3 DEF AbsenceCheck, At, Recovering
  <2>2. \/ Return(w) \/ Goto(w, "freeing")
        \/ \E n : Sleep(w, n)
    BY <1>3 DEF AbsenceCheck
  <2>3. CASE Return(w)
    BY <2>1, <2>3, Returns, Leaves, Outside
  <2>4. CASE Goto(w, "freeing")
    BY <2>1, <2>4, Gotos, RecoveryMoves
  <2>5. CASE \E n : Sleep(w, n)
    BY <2>1, <2>5, Sleeps, RecoveryMoves
  <2> QED
    BY <2>2, <2>3, <2>4, <2>5
<1>4. CASE Awake(w)
  <2>1. worker[w].pc \in Recovering /\ UNCHANGED <<rec, order>> /\ Goto(w, "look")
    BY <1>4 DEF Awake, At, Recovering
  <2> QED
    BY <2>1, Gotos, RecoveryMoves
<1>5. CASE ReleaseAbsent(w)
  <2>1. CASE MayTransition(rec, Event, w, "retryable_error")
    BY <1>5, <2>1, Gotos, Transits DEF ReleaseAbsent
  <2>2. CASE ~MayTransition(rec, Event, w, "retryable_error")
    BY <1>5, <2>2, Returns, Leaves, Outside DEF ReleaseAbsent
  <2> QED
    BY <2>1, <2>2
<1>6. CASE AdoptFound(w)
  <2>1. CASE MayComplete(rec, Event, w)
    <3>1. ~Unsettled
      BY <1>6, <2>1, OwnerWaitsForNothing DEF AdoptFound, At, Recovering, MayComplete, Owns
    <3> QED
      BY <1>6, <2>1, <3>1, Gotos, Completes DEF AdoptFound
  <2>2. CASE ~MayComplete(rec, Event, w)
    BY <1>6, <2>2, Returns, Leaves, Outside DEF AdoptFound
  <2> QED
    BY <2>1, <2>2
<1>7. CASE ClearProgress(w)
  BY <1>7, Returns, Leaves, Outside DEF ClearProgress
<1>8. CASE GiveUp(w)
  BY <1>8, TriesToMarkUnknown DEF GiveUp
<1>9. CASE Abandon(w)
  BY <1>9, Returns, Leaves, Outside DEF Abandon
<1>10. CASE Advance(w)
  <2> DEFINE p == "done"
  <2>1. UNCHANGED <<rec, order>> /\ worker' = [worker EXCEPT ![w] = [Idle EXCEPT !.pc = p]]
    BY <1>10 DEF Advance
  <2>2. p \notin Leased /\ p \notin {"ready", "awaiting", "filled"}
    BY DEF Leased, Executing, Recovering
  <2> HIDE DEF p
  <2>3. To(w, p)
    BY <2>1, <2>2, StartsOver
  <2> QED
    BY <2>1, <2>2, <2>3, Leaves
<1>11. CASE Restart(w)
  <2> DEFINE p == IF cursorPast THEN "done" ELSE "idle"
  <2>1. UNCHANGED <<rec, order>> /\ worker' = [worker EXCEPT ![w] = [Idle EXCEPT !.pc = p]]
    BY <1>11 DEF Restart
  <2>2. p \in {"done", "idle"}
    OBVIOUS
  <2> HIDE DEF p
  <2> QED
    BY <2>1, <2>2, StartsOver, Leaves, Outside
<1> QED
  BY <1>1, <1>2, <1>3, <1>4, <1>5, <1>6, <1>7, <1>8, <1>9, <1>10, <1>11

-----------------------------------------------------------------------------
(* Heartbeat, faults, broker and clock.                                       *)

LEMMA HeartSteps ==
  ASSUME OrderInv, NEW w \in Workers, Beat(w) \/ Stall(w) \/ BeatFails(w)
  PROVE  OrderInv'
<1>1. To(w, worker[w].pc)
  BY HeartOnly DEF Beat, Stall, BeatFails
<1>2. order' = order /\ (rec' = rec \/ Renews(w))
  BY DEF Beat, Stall, BeatFails, Renews
<1>3. MayMove(w, worker[w].pc)
  BY DEF MayMove
<1> QED
  BY <1>1, <1>2, <1>3, MovesOn

LEMMA FaultSteps ==
  ASSUME OrderInv, NEW w \in Workers,
         Crash(w) \/ Fails(w) \/ ResponseLost(w) \/ RecoveryFails(w) \/ IdentityConflict(w)
  PROVE  OrderInv'
<1>1. CASE Crash(w)
  <2>1. rec' = rec /\ order' = Withdrawn(w) /\ To(w, "down")
    BY <1>1, StartsOver DEF Crash
  <2>2. CASE At(w, "ready")
    BY <2>1, <2>2, RequestFields, RequestMoves DEF Withdrawn, To
  <2>3. CASE ~At(w, "ready")
    BY <2>1, <2>3, Leaves, Outside DEF Withdrawn
  <2> QED
    BY <2>2, <2>3
<1>2. CASE Fails(w)
  <2> DEFINE x == [worker[w] EXCEPT !.pc = "releasing", !.order = NoOrder]
  <2>1. DOMAIN x = WorkerFields /\ x.pc = "releasing"
    BY DEF OrderInv, WorkersOK, WorkerFields
  <2>2. worker' = [worker EXCEPT ![w] = x]
    BY <1>2 DEF Fails, OrderInv, WorkersOK
  <2>3. To(w, "releasing")
    <3> HIDE DEF x
    <3> QED BY <2>1, <2>2, Becoming
  <2>4. rec' = rec /\ order' = Withdrawn(w)
    BY <1>2 DEF Fails
  <2>5. CASE At(w, "ready")
    BY <2>3, <2>4, <2>5, RequestFields, RequestMoves DEF Withdrawn, To
  <2>6. CASE ~At(w, "ready")
    <3>1. MayMove(w, "releasing")
      BY <1>2 DEF Fails, MayMove, Early, Executing, Recovering, Passed
    <3> QED
      BY <2>3, <2>4, <2>6, <3>1, MovesOn DEF Withdrawn
  <2> QED
    BY <2>5, <2>6
<1>3. CASE ResponseLost(w)
  <2>1. To(w, "unknown") /\ UNCHANGED <<rec, order>>
    BY <1>3, Gotos DEF ResponseLost
  <2>2. MayMove(w, "unknown")
    BY <1>3 DEF ResponseLost, MayMove, At, Early, Executing, Recovering, Passed
  <2> QED
    BY <2>1, <2>2, MovesOn
<1>4. CASE RecoveryFails(w)
  <2>1. To(w, "failed") /\ UNCHANGED <<rec, order>> /\ worker[w].pc \in Recovering
    BY <1>4, Gotos DEF RecoveryFails
  <2> QED
    BY <2>1, RecoveryMoves
<1>5. CASE IdentityConflict(w)
  BY <1>5, Returns, Leaves, Outside DEF IdentityConflict
<1> QED
  BY <1>1, <1>2, <1>3, <1>4, <1>5

\* The broker settles a request: nobody is about to send it.
LEMMA BrokerSteps ==
  ASSUME OrderInv, NEW o \in Orders, Settle(o) \/ Drop(o)
  PROVE  OrderInv'
<1>1. order[o].state = "flight" /\ UNCHANGED <<rec, worker>>
  BY DEF Settle, Drop
<1>2. /\ order'[o] \in {[state |-> "open", left |-> 0], [state |-> "free", left |-> 0]}
      /\ DOMAIN order' = Orders
      /\ \A a \in Orders : a # o => order'[a] = order[a]
  BY DEF Settle, Drop, Free, OrderInv, OrdersOK
<1>3. OrdersOK'
  BY <1>2, Windows DEF OrderInv, OrdersOK
<1>4. Single' /\ Covered'
  BY <1>1, <1>2 DEF OrderInv, Single, Covered
<1>5. ASSUME NEW w \in Workers
      PROVE  (Owner(w) /\ Standing(w))'
  <2>1. ~AllFree
    BY <1>1 DEF AllFree
  <2>2. Visible # {} => Visible' # {}
    BY <1>1, <1>2 DEF Visible
  <2>3. Owner(w)'
    BY <1>1, <2>1 DEF OrderInv, Owner
  <2>4. Standing(w)'
    BY <1>1, <1>2, <2>2 DEF OrderInv, Standing
  <2> QED
    BY <2>3, <2>4
<1> QED
  BY <1>1, <1>3, <1>4, <1>5 DEF OrderInv, RecOK, WorkersOK, Sole, Lasting

\* The key of the record outlives its lease, and so every request on its way.
LEMMA ExpiryStep ==
  ASSUME OrderInv, KeyExpires
  PROVE  OrderInv'
<1>1. rec' = Absent /\ UNCHANGED <<worker, order>> /\ rec.key = 0
  BY DEF KeyExpires, Due
<1>2. rec.lease = 0
  BY <1>1, Windows DEF OrderInv, RecOK
<1>3. ~Unsettled /\ \A w \in Workers : worker[w].pc # "reread"
  BY <1>2, Windows DEF OrderInv, OrdersOK, Covered, Standing, Unsettled
<1>4. RecOK(rec') /\ rec'.state = "absent" /\ rec'.token = NoToken
  BY <1>1, UnleasedFields DEF Absent
<1>5. Covered' /\ Lasting'
  BY <1>1, <1>3, <1>4 DEF Covered, Unsettled, Lasting, Terminal
<1>6. ASSUME NEW w \in Workers
      PROVE  (Owner(w) /\ Standing(w))'
  <2>1. w # NoToken
    BY Windows
  <2> QED
    BY <1>1, <1>3, <1>4, <2>1 DEF OrderInv, Owner, Standing, Visible
<1> QED
  BY <1>1, <1>4, <1>5, <1>6 DEF OrderInv, WorkersOK, OrdersOK, Single, Sole

\* A second passes, but not between the renewal and the read of the gate.
LEMMA TickStep ==
  ASSUME "reread" \in PromptSteps, OrderInv, Tick
  PROVE  OrderInv'
<1>1. /\ RecOK(rec') /\ rec'.state = rec.state /\ rec'.token = rec.token
      /\ rec'.lease = Before(rec.lease)
      /\ rec.key > LeaseSeconds => rec'.key = rec.key
  BY AgedFields DEF Tick, OrderInv
<1>2. /\ DOMAIN worker' = Workers
      /\ \A w \in Workers : worker'[w] = [worker[w] EXCEPT !.left = Before(@), !.wait = Before(@)]
  BY DEF Tick
<1>3. \A w \in Workers : /\ DOMAIN worker'[w] = WorkerFields
                         /\ worker'[w].pc = worker[w].pc /\ worker'[w].order = worker[w].order
  BY <1>2 DEF OrderInv, WorkersOK, WorkerFields
<1>4. /\ DOMAIN order' = Orders
      /\ \A o \in Orders : order'[o] = [order[o] EXCEPT !.left = Before(@)]
  BY DEF Tick
<1>5. \A o \in Orders : /\ DOMAIN order'[o] = {"state", "left"}
                        /\ order'[o].state = order[o].state
                        /\ order'[o].left = Before(order[o].left)
  BY <1>4 DEF OrderInv, OrdersOK
<1>6. OrdersOK'
  BY <1>4, <1>5, Windows DEF OrderInv, OrdersOK, Before
<1>7. Covered'
  <2> SUFFICES ASSUME NEW o \in Orders, order[o].state \in {"ready", "flight"}
               PROVE  Before(rec.lease) > Before(order[o].left)
    BY <1>1, <1>5 DEF OrderInv, Covered
  <2>1. order[o].left > 0 /\ rec.lease > order[o].left
    BY DEF Tick, OrderInv, Covered
  <2>2. order[o].left \in Nat /\ rec.lease \in Nat
    BY Windows DEF OrderInv, OrdersOK, RecOK
  <2> QED
    BY <2>1, <2>2 DEF Before
<1>8. \A w \in Workers : worker[w].pc # "reread"
  BY DEF Tick
<1>9. Visible' = Visible /\ (AllFree' <=> AllFree)
  BY <1>5 DEF Visible, AllFree
<1>10. ASSUME NEW w \in Workers
       PROVE  (Owner(w) /\ Standing(w))'
  <2>1. Owner(w)'
    BY <1>1, <1>3, <1>9 DEF OrderInv, Owner
  <2>2. Standing(w)'
    BY <1>3, <1>5, <1>8, <1>9 DEF OrderInv, Standing
  <2> QED
    BY <2>1, <2>2
<1>11. Single' /\ Sole'
  BY <1>3, <1>5 DEF OrderInv, Single, Sole
<1>12. WorkersOK' /\ Lasting'
  BY <1>1, <1>2, <1>3 DEF OrderInv, WorkersOK, WorkerFields, Lasting
<1> QED
  BY <1>1, <1>6, <1>7, <1>10, <1>11, <1>12 DEF OrderInv

-----------------------------------------------------------------------------
(* The theorems.                                                              *)

LEMMA OrderInvInit ==
  ASSUME Init
  PROVE  OrderInv
<1>1. /\ RecOK(rec) /\ rec.state \in {"published", "absent"} /\ rec.token = NoToken
  BY UnleasedFields, Windows DEF Init, Published, Absent
<1>2. \A w \in Workers : worker[w].pc = "idle"
  BY DEF Init, Idle
<1>3. AllFree
  BY DEF Init, AllFree, Free
<1>4. WorkersOK /\ OrdersOK
  BY Windows DEF Init, Idle, Free, WorkersOK, OrdersOK
<1>5. ASSUME NEW w \in Workers
      PROVE  Owner(w) /\ Standing(w)
  BY <1>1, <1>2, Windows DEF Owner, Standing
<1> QED
  BY <1>1, <1>2, <1>3, <1>4, <1>5
     DEF OrderInv, AllFree, Single, Covered, Sole, Lasting, Terminal

LEMMA OrderInvKept ==
  ASSUME "reread" \in PromptSteps, OrderInv, [Next]_vars
  PROVE  OrderInv'
<1>1. ASSUME NEW w \in Workers, Proceed(w)
      PROVE  OrderInv'
  BY <1>1, IntakeSteps, GateSteps, RequestSteps, RecoverySteps DEF Proceed
<1>2. ASSUME NEW w \in Workers, Beat(w) \/ Disturb(w)
      PROVE  OrderInv'
  BY <1>2, HeartSteps, FaultSteps DEF Disturb
<1>3. ASSUME NEW o \in Orders, Settle(o) \/ Drop(o)
      PROVE  OrderInv'
  BY <1>3, BrokerSteps
<1>4. CASE KeyExpires
  BY <1>4, ExpiryStep
<1>5. CASE Tick
  BY <1>5, TickStep
<1>6. CASE UNCHANGED vars
  BY <1>6 DEF vars, OrderInv, RecOK, WorkersOK, OrdersOK, Single, Covered, Sole, Lasting,
              Owner, Standing, AllFree, Visible
<1> QED
  BY <1>1, <1>2, <1>3, <1>4, <1>5, <1>6 DEF Next

LEMMA AtMostOne ==
  ASSUME NEW S, \A a, b \in S : a = b
  PROVE  Cardinality(S) \in {0, 1} /\ (Cardinality(S) = 0 <=> S = {})
<1>1. CASE S = {}
  BY <1>1, FS_EmptySet
<1>2. CASE S # {}
  <2>1. PICK a : a \in S
    BY <1>2
  <2>2. S = {a}
    BY <2>1
  <2>3. Cardinality({a}) = 1
    BY FS_Singleton
  <2> QED
    BY <1>2, <2>2, <2>3
<1> QED
  BY <1>1, <1>2

(* At most one order is at the broker, on its way there or about to be sent,  *)
(* whatever executors overlap and however they fail (EnsureBrokerLeaseAsync,  *)
(* the snapshot before placement, and recovery).                              *)
THEOREM NoDuplicateOrder ==
  ASSUME "reread" \in PromptSteps
  PROVE  Spec => []AtMostOneOrder
<1>1. OrderInv => AtMostOneOrder
  <2> SUFFICES ASSUME OrderInv PROVE AtMostOneOrder
    OBVIOUS
  <2> DEFINE S == {o \in Orders : order[o].state # "free"}
  <2>1. \A a, b \in S : a = b
    BY DEF OrderInv, Single
  <2>2. Cardinality(S) \in {0, 1}
    <3> HIDE DEF S
    <3> QED BY <2>1, AtMostOne
  <2> QED
    BY <2>2 DEF AtMostOneOrder
<1> QED
  BY <1>1, OrderInvInit, OrderInvKept, PTL DEF Spec

\* What the steps do to the state of the record, by the step.
LEMMA Releasing ==
  ASSUME OrderInv, [Next]_vars, rec.state = "broker_reconciling", rec'.state = "retryable_error"
  PROVE  \E w \in Workers : /\ MayTransition(rec, Event, w, "retryable_error")
                            /\ worker[w].pc \in {"releasing", "freeing"}
<1>1. rec' # rec /\ RecOK(rec)
  BY DEF OrderInv
<1>2. rec' # Renewed(rec) /\ rec' # Transitioned(rec, "broker_submitting")
      /\ rec' # Transitioned(rec, "broker_outcome_unknown")
      /\ \A w \in Workers : rec' # Claimed(rec, Event, w)
      /\ \A s \in {"ordered", "rejected"} : rec' # Completed(rec, s, "other")
  BY <1>1, RenewedFields, TransitionedFields, ClaimedFields, CompletedFields DEF ClaimedState
<1>3. ASSUME NEW w \in Workers, Proceed(w)
      PROVE  Release(w) \/ ReleaseAbsent(w)
  BY <1>1, <1>2, <1>3 DEF Proceed, Claim, Dispose, Reject, Snapshot, Adopt, GateRenew,
     GateReread, Submit, Send, Cancelled, Answer, Fill, MarkUnknown, StartRecovery, Look,
     AbsenceCheck, Awake, AdoptFound, ClearProgress, GiveUp, Abandon, Advance, Restart,
     TryComplete, TryMarkUnknown
<1>4. ASSUME NEW w \in Workers, Release(w) \/ ReleaseAbsent(w)
      PROVE  MayTransition(rec, Event, w, "retryable_error")
             /\ worker[w].pc \in {"releasing", "freeing"}
  BY <1>1, <1>4 DEF Release, ReleaseAbsent, At
<1>5. \A w \in Workers : ~Beat(w) /\ ~Disturb(w)
  BY <1>1, <1>2 DEF Beat, Disturb, Crash, Stall, BeatFails, Fails, ResponseLost,
     RecoveryFails, IdentityConflict
<1>6. \A o \in Orders : ~Settle(o) /\ ~Drop(o)
  BY <1>1 DEF Settle, Drop
<1>7. ~KeyExpires
  BY UnleasedFields, Windows DEF KeyExpires, Absent
<1>8. ~Tick
  BY <1>1, AgedFields DEF Tick
<1>9. ~UNCHANGED vars
  BY <1>1 DEF vars
<1> QED
  BY <1>3, <1>4, <1>5, <1>6, <1>7, <1>8, <1>9 DEF Next

(* Recovery hands a candidate back only when no order of it exists or can     *)
(* still arrive (RecoverBrokerOutcomeAsync).                                  *)
THEOREM HandedBackWhenAbsent ==
  ASSUME "reread" \in PromptSteps
  PROVE  Spec => ReleaseOnlyWhenAbsent
<1>1. ASSUME OrderInv, [Next]_vars, rec.state = "broker_reconciling",
             rec'.state = "retryable_error"
      PROVE  AllFree
  <2>1. PICK w \in Workers : /\ MayTransition(rec, Event, w, "retryable_error")
                             /\ worker[w].pc \in {"releasing", "freeing"}
    BY <1>1, Releasing
  <2>2. rec.token = w
    BY <2>1 DEF MayTransition, Owns
  <2>3. worker[w].pc # "releasing"
    BY <1>1, <2>2 DEF OrderInv, Owner, Executing, Active
  <2> QED
    BY <1>1, <2>1, <2>2, <2>3 DEF OrderInv, Owner
<1>2. OrderInv /\ [Next]_vars =>
        [rec.state = "broker_reconciling" /\ rec'.state = "retryable_error" =>
           \A o \in Orders : order[o].state = "free"]_vars
  BY <1>1 DEF AllFree
<1> QED
  BY <1>2, OrderInvInit, OrderInvKept, PTL DEF Spec, ReleaseOnlyWhenAbsent

-----------------------------------------------------------------------------
(* The refinement: what decides the candidate, and what shows an order.       *)

Decided == IF rec.state \in {"ordered", "rejected"} THEN rec.state ELSE "none"

Completing(w) ==
  /\ MayComplete(rec, Event, w) /\ order' = order
  /\ \/ Reject(w) /\ rec' = Completed(rec, "rejected", "other")
     \/ /\ Adopt(w) \/ Fill(w) \/ AdoptFound(w)
        /\ rec' = Completed(rec, "ordered", "other")

\* The ways an executor's step writes the record.
LEMMA Writes ==
  ASSUME NEW w \in Workers, Proceed(w) \/ Beat(w) \/ Disturb(w)
  PROVE  \/ rec' = rec
         \/ rec' = Renewed(rec)
         \/ \E s \in {"broker_submitting", "broker_outcome_unknown", "retryable_error"} :
              MayTransition(rec, Event, w, s) /\ rec' = Transitioned(rec, s)
         \/ \E policy \in {DefaultClaim, RecoveryClaim} :
              MayClaim(rec, Event, policy) /\ rec' = Claimed(rec, Event, w)
         \/ Completing(w)
<1>1. CASE Claim(w) \/ Dispose(w) \/ Snapshot(w) \/ GateRenew(w) \/ GateReread(w) \/ Submit(w)
  BY <1>1 DEF Claim, Dispose, Snapshot, GateRenew, GateReread, Submit
<1>2. CASE Reject(w) \/ Adopt(w) \/ Fill(w) \/ AdoptFound(w)
  BY <1>2 DEF Reject, Adopt, Fill, AdoptFound, TryComplete, Completing
<1>3. CASE Send(w) \/ Cancelled(w) \/ Answer(w) \/ MarkUnknown(w) \/ Release(w)
           \/ StartRecovery(w) \/ Look(w) \/ AbsenceCheck(w)
  BY <1>3 DEF Send, Cancelled, Answer, MarkUnknown, Release, StartRecovery, Look,
     AbsenceCheck, TryMarkUnknown
<1>4. CASE Awake(w) \/ ReleaseAbsent(w) \/ ClearProgress(w) \/ GiveUp(w) \/ Abandon(w)
           \/ Advance(w) \/ Restart(w)
  BY <1>4 DEF Awake, ReleaseAbsent, ClearProgress, GiveUp, Abandon, Advance, Restart,
     TryMarkUnknown
<1>5. CASE Beat(w) \/ Disturb(w)
  BY <1>5 DEF Beat, Disturb, Crash, Stall, BeatFails, Fails, ResponseLost,
     RecoveryFails, IdentityConflict
<1> QED
  BY <1>1, <1>2, <1>3, <1>4, <1>5 DEF Proceed

\* Only a completion decides, and nothing undoes it.
LEMMA DecidedOnce ==
  ASSUME OrderInv, LeaseSeconds < RetentionSeconds, [Next]_vars
  PROVE  Decided' = Decided \/ \E w \in Workers : Completing(w)
<1>1. RecOK(rec)
  BY DEF OrderInv
<1>2. ASSUME NEW w \in Workers, Proceed(w) \/ Beat(w) \/ Disturb(w), ~Completing(w)
      PROVE  Decided' = Decided
  <2>1. CASE rec' = rec \/ rec' = Renewed(rec)
    BY <1>1, <2>1, RenewedFields DEF Decided
  <2>2. ASSUME NEW s \in {"broker_submitting", "broker_outcome_unknown", "retryable_error"},
               MayTransition(rec, Event, w, s), rec' = Transitioned(rec, s)
        PROVE  Decided' = Decided
    <3>1. rec'.state = s /\ s \in AllowedTransitions(rec.state)
      BY <1>1, <2>2, TransitionedFields DEF MayTransition
    <3> QED
      BY <3>1 DEF AllowedTransitions, Decided
  <2>3. ASSUME NEW policy \in {DefaultClaim, RecoveryClaim},
               MayClaim(rec, Event, policy), rec' = Claimed(rec, Event, w)
        PROVE  Decided' = Decided
    BY <2>3, ClaimsFind, ClaimedFields DEF ClaimedState, Decided, Terminal
  <2> QED
    BY <1>2, <2>1, <2>2, <2>3, Writes
<1>3. ASSUME NEW o \in Orders, Settle(o) \/ Drop(o)
      PROVE  Decided' = Decided
  BY <1>3 DEF Settle, Drop, Decided
<1>4. CASE KeyExpires
  <2>1. rec.state \notin Terminal
    BY <1>4, Windows DEF KeyExpires, Due, OrderInv, Lasting
  <2> QED
    BY <1>4, <2>1, UnleasedFields, Windows DEF KeyExpires, Absent, Terminal, Decided
<1>5. CASE Tick
  BY <1>1, <1>5, AgedFields DEF Tick, Decided
<1>6. CASE UNCHANGED vars
  BY <1>6 DEF vars, Decided
<1> QED
  BY <1>2, <1>3, <1>4, <1>5, <1>6 DEF Next

\* Only the broker shows an order.
LEMMA ShownByBroker ==
  ASSUME OrderInv, [Next]_vars
  PROVE  Visible' = Visible \/ \E o \in Orders : Settle(o)
<1>1. ASSUME NEW w \in Workers, Proceed(w) \/ Beat(w) \/ Disturb(w)
      PROVE  Visible' = Visible
  <2>1. \/ order' = order
        \/ At(w, "ready") /\ order' = [order EXCEPT ![worker[w].order] = Free]
        \/ At(w, "ready") /\ order' = [order EXCEPT ![worker[w].order].state = "flight"]
        \/ \E o \in Orders : Open(w, o)
    <3>1. CASE Claim(w) \/ Dispose(w) \/ Reject(w) \/ Snapshot(w) \/ Adopt(w) \/ GateRenew(w)
               \/ GateReread(w) \/ Submit(w) \/ Send(w) \/ Cancelled(w) \/ Answer(w)
      BY <3>1 DEF Claim, Dispose, Reject, Snapshot, Adopt, GateRenew, GateReread, Submit,
         Send, Cancelled, Answer
    <3>2. CASE Fill(w) \/ MarkUnknown(w) \/ Release(w) \/ StartRecovery(w) \/ Look(w)
               \/ AbsenceCheck(w) \/ Awake(w) \/ ReleaseAbsent(w) \/ AdoptFound(w)
               \/ ClearProgress(w) \/ GiveUp(w) \/ Abandon(w) \/ Advance(w) \/ Restart(w)
      BY <3>2 DEF Fill, MarkUnknown, Release, StartRecovery, Look, AbsenceCheck, Awake,
         ReleaseAbsent, AdoptFound, ClearProgress, GiveUp, Abandon, Advance, Restart
    <3>3. CASE Beat(w) \/ Disturb(w)
      BY <3>3 DEF Beat, Disturb, Crash, Stall, BeatFails, Fails, ResponseLost,
         RecoveryFails, IdentityConflict, Withdrawn
    <3> QED
      BY <1>1, <3>1, <3>2, <3>3 DEF Proceed
  <2>2. CASE order' = order
    BY <2>2 DEF Visible
  <2>3. CASE /\ At(w, "ready")
             /\ \/ order' = [order EXCEPT ![worker[w].order] = Free]
                \/ order' = [order EXCEPT ![worker[w].order].state = "flight"]
    <3>1. order[worker[w].order].state = "ready"
      BY <2>3 DEF OrderInv, Standing, At
    <3>2. \A o \in Orders : o # worker[w].order => order'[o] = order[o]
      BY <2>3, RequestFields
    <3>3. order'[worker[w].order].state \in {"free", "flight"}
      BY <2>3, RequestFields
    <3> QED
      BY <3>1, <3>2, <3>3 DEF Visible
  <2>4. CASE \E o \in Orders : Open(w, o)
    <3>1. PICK o \in Orders : Open(w, o)
      BY <2>4
    <3>2. order'[o].state = "ready" /\ \A a \in Orders : a # o => order'[a] = order[a]
      BY <3>1 DEF Open, OrderInv, OrdersOK
    <3> QED
      BY <3>1, <3>2 DEF Visible, Open
  <2> QED
    BY <2>1, <2>2, <2>3, <2>4
<1>2. ASSUME NEW o \in Orders, Drop(o)
      PROVE  Visible' = Visible
  <2>1. order'[o].state = "free" /\ \A a \in Orders : a # o => order'[a] = order[a]
    BY <1>2 DEF Drop, Free, OrderInv, OrdersOK
  <2> QED
    BY <1>2, <2>1 DEF Visible, Drop
<1>3. CASE Tick
  <2>1. \A o \in Orders : order'[o] = [order[o] EXCEPT !.left = Before(@)]
    BY <1>3 DEF Tick
  <2>2. \A o \in Orders : order'[o].state = order[o].state
    BY <2>1 DEF OrderInv, OrdersOK
  <2> QED
    BY <2>2 DEF Visible
<1>4. CASE KeyExpires \/ UNCHANGED vars
  BY <1>4 DEF KeyExpires, vars, Visible
<1> QED
  BY <1>1, <1>2, <1>3, <1>4 DEF Next

Placed == Cardinality(Visible)

LEMMA PlacedCounts ==
  ASSUME OrderInv
  PROVE  Placed \in {0, 1} /\ (Placed = 0 <=> Visible = {})
<1>1. \A a, b \in Visible : a = b
  BY DEF OrderInv, Single, Visible
<1> QED
  BY <1>1, AtMostOne DEF Placed

\* An order appears while nothing is decided and nothing else is there.
LEMMA PlacesOne ==
  ASSUME OrderInv, OrderInv', NEW o \in Orders, Settle(o)
  PROVE  Placed = 0 /\ Decided = "none" /\ Placed' = 1 /\ Decided' = Decided
<1>1. order[o].state = "flight" /\ rec' = rec
  BY DEF Settle
<1>2. Visible = {}
  BY <1>1 DEF OrderInv, Single, Visible
<1>3. o \in Visible'
  BY DEF Settle, Visible, OrderInv, OrdersOK
<1>4. Placed = 0
  BY <1>2, PlacedCounts
<1>5. Placed' = 1
  <2>1. \A a, b \in Visible' : a = b
    BY DEF OrderInv, Single, Visible
  <2>2. Cardinality(Visible') \in {0, 1} /\ (Cardinality(Visible') = 0 <=> Visible' = {})
    BY <2>1, AtMostOne
  <2> QED
    BY <1>3, <2>2 DEF Placed
<1>6. Decided = "none" /\ Decided' = Decided
  BY <1>1 DEF OrderInv, Covered, Decided
<1> QED
  BY <1>4, <1>5, <1>6

\* "ordered" is said of an order that is there.
LEMMA DecidesOne ==
  ASSUME OrderInv, NEW w \in Workers, Completing(w)
  PROVE  /\ Placed' = Placed /\ Decided = "none"
         /\ Decided' = "rejected" \/ (Decided' = "ordered" /\ Placed = 1)
<1>1. Visible' = Visible
  BY DEF Completing, Visible
<1>2. Decided = "none"
  BY DEF Completing, MayComplete, Active, Recovery, Decided
<1>3. CASE rec' = Completed(rec, "rejected", "other")
  <2>1. rec'.state = "rejected"
    BY <1>3, CompletedFields DEF OrderInv
  <2> QED
    BY <1>1, <1>2, <2>1 DEF Placed, Decided
<1>4. CASE rec' = Completed(rec, "ordered", "other") /\ (Adopt(w) \/ Fill(w) \/ AdoptFound(w))
  <2>1. rec'.state = "ordered"
    BY <1>4, CompletedFields DEF OrderInv
  <2>2. Visible # {}
    <3>1. CASE Fill(w)
      BY <3>1 DEF Fill, At, OrderInv, Standing, Visible
    <3>2. CASE Adopt(w) \/ AdoptFound(w)
      BY <3>2 DEF Adopt, AdoptFound, At, OrderInv, Standing
    <3> QED
      BY <1>4, <3>1, <3>2
  <2>3. Placed = 1
    BY <2>2, PlacedCounts
  <2> QED
    BY <1>1, <1>2, <2>1, <2>3 DEF Placed, Decided
<1> QED
  BY <1>3, <1>4 DEF Completing

(* The executors implement CandidateOutcome: at most one order is placed, for *)
(* a candidate nothing was decided of, it is decided once, and "ordered" only *)
(* of an order that is there (EnsureBrokerLeaseAsync, Complete, recovery). A  *)
(* terminal record must be written for longer than a lease window.            *)
THEOREM ExecutorsImplementOutcome ==
  ASSUME "reread" \in PromptSteps, LeaseSeconds < RetentionSeconds
  PROVE  Spec => ImplementsOutcome
<1>1. Init => Outcome!Init
  <2> SUFFICES ASSUME Init PROVE Outcome!Init
    OBVIOUS
  <2>1. Visible = {}
    BY DEF Init, Visible, Free
  <2>2. Cardinality(Visible) = 0
    BY <2>1, FS_EmptySet
  <2>3. rec.state \notin {"ordered", "rejected"}
    BY DEF Init, Published, Absent, Unleased
  <2> QED
    BY <2>2, <2>3 DEF Outcome!Init
<1>2. OrderInv /\ OrderInv' /\ [Next]_vars => [Outcome!Next]_(Outcome!vars)
  <2> SUFFICES ASSUME OrderInv, OrderInv', [Next]_vars
               PROVE  \/ Outcome!Next
                      \/ Placed' = Placed /\ Decided' = Decided
    BY DEF Outcome!vars, Placed, Decided
  <2>1. CASE \E o \in Orders : Settle(o)
    <3>1. Outcome!Place
      BY <2>1, PlacesOne DEF Outcome!Place, Placed, Decided
    <3> QED
      BY <3>1 DEF Outcome!Next
  <2>2. CASE \E w \in Workers : Completing(w)
    <3>1. Outcome!Order \/ Outcome!Reject
      BY <2>2, DecidesOne DEF Outcome!Order, Outcome!Reject, Placed, Decided
    <3> QED
      BY <3>1 DEF Outcome!Next
  <2>3. CASE Visible' = Visible /\ Decided' = Decided
    BY <2>3 DEF Placed
  <2> QED
    BY <2>1, <2>2, <2>3, DecidedOnce, ShownByBroker
<1> QED
  BY <1>1, <1>2, OrderInvInit, OrderInvKept, PTL DEF Spec, ImplementsOutcome, Outcome!Spec

-----------------------------------------------------------------------------
(* THE LEASES: every set of events and tokens, every lease window, retention, *)
(* recheck interval and quorum.                                               *)

USE LeaseWindowAssumption, NullAssumption, ProgressAssumption
    DEF LeaseWindowAssumption, NullAssumption, ProgressAssumption

-----------------------------------------------------------------------------
(* The scripts return records.                                               *)

\* A claim, whatever it claims, leaves a lease-owned record of the claimer
\* (CandidateExecutionScripts.Acquire).
LEMMA ClaimedType ==
  ASSUME NEW r \in Record, NEW e \in Events \cup {NoEvent}, NEW t \in Tokens
  PROVE  /\ Claimed(r, e, t) \in Record
         /\ Claimed(r, e, t).state \in {"processing", "broker_reconciling"}
         /\ Claimed(r, e, t).token = t
         /\ Claimed(r, e, t).lease = LeaseSeconds
         /\ Claimed(r, e, t).key = LeaseSeconds
<1>1. ClaimedState(r) \in {"processing", "broker_reconciling"}
  BY DEF ClaimedState
<1> QED
  BY <1>1 DEF Claimed, Record, States, Active, Recovery

\* A renewal moves both deadlines and nothing else (Renew).
LEMMA RenewedType ==
  ASSUME NEW r \in Record
  PROVE  /\ Renewed(r) \in Record
         /\ Renewed(r).state = r.state
         /\ Renewed(r).token = r.token
         /\ Renewed(r).lease = LeaseSeconds
         /\ Renewed(r).key = LeaseSeconds
<1> DEFINE q == [r EXCEPT !.lease = LeaseSeconds]
<1>1. q \in Record
  BY DEF Record
<1>2. Renewed(r) = [q EXCEPT !.key = LeaseSeconds]
  BY DEF Renewed
<1>3. Renewed(r) \in Record
  <2> HIDE DEF q
  <2> QED BY <1>1, <1>2 DEF Record
<1> QED
  BY <1>3 DEF Renewed, Record

\* A release keeps no owner and no window (Transition).
LEMMA ReleasedType ==
  ASSUME NEW r \in Record
  PROVE  LET v == Transitioned(r, "retryable_error") IN
         /\ v \in Record
         /\ v.state = "retryable_error"
         /\ v.token = NoToken
         /\ v.lease = 0
<1> DEFINE q1 == [r EXCEPT !.state = "retryable_error"]
           q2 == [q1 EXCEPT !.token = NoToken]
           q3 == [q2 EXCEPT !.lease = 0]
           v  == Transitioned(r, "retryable_error")
<1>1. q1 \in Record
  BY DEF Record, States, Retryable
<1>2. q2 \in Record
  <2> HIDE DEF q1
  <2> QED BY <1>1 DEF Record
<1>3. q3 \in Record
  <2> HIDE DEF q2
  <2> QED BY <1>2 DEF Record
<1>4. v = [q3 EXCEPT !.key = RetentionSeconds]
  BY DEF Transitioned
<1>5. v \in Record
  <2> HIDE DEF q3
  <2> QED BY <1>3, <1>4 DEF Record
<1> QED
  BY <1>5 DEF Transitioned, Record

\* Any other transition keeps the owner and gives it a full window (Transition).
LEMMA TransitionedType ==
  ASSUME NEW r \in Record, NEW s \in States, s # "retryable_error"
  PROVE  /\ Transitioned(r, s) \in Record
         /\ Transitioned(r, s).state = s
         /\ Transitioned(r, s).token = r.token
         /\ Transitioned(r, s).lease = LeaseSeconds
         /\ Transitioned(r, s).key = RetentionSeconds
<1> DEFINE q1 == [r EXCEPT !.state = s]
           q2 == [q1 EXCEPT !.lease = LeaseSeconds]
<1>1. q1 \in Record
  BY DEF Record
<1>2. q2 \in Record
  <2> HIDE DEF q1
  <2> QED BY <1>1 DEF Record
<1>3. Transitioned(r, s) = [q2 EXCEPT !.key = RetentionSeconds]
  BY DEF Transitioned
<1>4. Transitioned(r, s) \in Record
  <2> HIDE DEF q2
  <2> QED BY <1>2, <1>3 DEF Record
<1> QED
  BY <1>4 DEF Transitioned, Record

\* A completion leaves a terminal record nobody owns (Complete).
LEMMA CompletedType ==
  ASSUME NEW r \in Record, NEW s \in Completions, NEW o \in {"other", "flip_pending"}
  PROVE  /\ Completed(r, s, o) \in Record
         /\ Completed(r, s, o).state = s
         /\ Completed(r, s, o).token = NoToken
         /\ Completed(r, s, o).lease = 0
<1> DEFINE q1 == [r EXCEPT !.state = s]
           q2 == [q1 EXCEPT !.token = NoToken]
           q3 == [q2 EXCEPT !.lease = 0]
           q4 == [q3 EXCEPT !.key = RetentionSeconds]
<1>1. q1 \in Record
  BY DEF Record, Completions, States, Terminal
<1>2. q2 \in Record
  <2> HIDE DEF q1
  <2> QED BY <1>1 DEF Record
<1>3. q3 \in Record
  <2> HIDE DEF q2
  <2> QED BY <1>2 DEF Record
<1>4. q4 \in Record
  <2> HIDE DEF q3
  <2> QED BY <1>3 DEF Record
<1>5. Completed(r, s, o) = [q4 EXCEPT !.outcome = o]
  BY DEF Completed
<1>6. Completed(r, s, o) \in Record
  <2> HIDE DEF q4
  <2> QED BY <1>4, <1>5 DEF Record
<1> QED
  BY <1>6 DEF Completed, Record

\* A second brings both deadlines one second nearer and changes nothing else.
LEMMA AgedType ==
  ASSUME NEW r \in Record
  PROVE  /\ Aged(r) \in Record
         /\ Aged(r).state = r.state
         /\ Aged(r).token = r.token
         /\ Aged(r).lease = Before(r.lease)
         /\ Aged(r).key = Before(r.key)
<1> DEFINE q == [r EXCEPT !.lease = Before(@)]
<1>1. Before(r.lease) \in 0 .. LeaseSeconds /\ Before(r.key) \in Nat
  BY DEF Before, Record
<1>2. q \in Record /\ q.key = r.key
  BY <1>1 DEF Record
<1>3. Aged(r) = [q EXCEPT !.key = Before(@)]
  BY DEF Aged
<1>4. Aged(r) \in Record
  <2> HIDE DEF q
  <2> QED BY <1>1, <1>2, <1>3 DEF Record
<1> QED
  BY <1>4 DEF Aged, Record

\* The records the publisher and older deployments write, and the missing one,
\* are records (candidate_publish.py, decode_record).
LEMMA FixedRecords ==
  /\ Absent \in Record
  /\ LegacyRecords(PublishSeconds) \subseteq Record
  /\ \A r \in LegacyRecords(PublishSeconds) : r.token = NoToken /\ r.lease = 0
  /\ \A e \in Events : Published(e, PublishSeconds) \in Record
<1> USE DEF Unleased, Record, States, Terminal, Retryable, Active, Recovery
<1>1. Absent \in Record
  BY DEF Absent
<1>2. \A e \in Events : Published(e, PublishSeconds) \in Record
  BY DEF Published
<1>3. ASSUME NEW r \in LegacyRecords(PublishSeconds)
      PROVE  r \in Record /\ r.token = NoToken /\ r.lease = 0
  <2>1. CASE r = Unleased("completed", NoEvent, "plain", "flip_pending", PublishSeconds)
    BY <2>1
  <2>2. CASE \E s \in {"published", "processing", "dry_run", "ordered", "rejected", "invalid"} :
               r = Unleased(s, NoEvent, "plain", "other", PublishSeconds)
    BY <2>2
  <2> QED
    BY <2>1, <2>2 DEF LegacyRecords
<1> QED
  BY <1>1, <1>2, <1>3

-----------------------------------------------------------------------------
(* Type correctness.                                                         *)

\* Quorum confirmations need a whole number of recheck delays (RecordAbsenceCheck).
LEMMA MaxSpanType == MaxSpan \in Nat
<1>1. \A m, n \in Nat : m * n \in Nat
  OBVIOUS
<1>2. Quorum - 1 \in Nat /\ CheckSeconds \in Nat
  OBVIOUS
<1> QED
  BY <1>1, <1>2 DEF MaxSpan

\* Every variable keeps its type: in particular no lease in the record is
\* longer than the lease window.
THEOREM TypeCorrect == LeaseSpec => []LeaseTypeOK
<1> USE MaxSpanType
<1>1. LeaseInit => LeaseTypeOK
  <2> SUFFICES ASSUME LeaseInit PROVE LeaseTypeOK
    OBVIOUS
  <2>1. candidate \in Record
    BY FixedRecords DEF LeaseInit
  <2>2. stream \subseteq Events
    BY DEF LeaseInit
  <2>3. absences \in Progress
    BY DEF LeaseInit, Progress, NoProgress
  <2>4. /\ held \in [Tokens -> Events \cup {NoEvent}]
        /\ valid \in [Tokens -> 0 .. LeaseSeconds]
        /\ span \in 0 .. MaxSpan
    BY DEF LeaseInit
  <2>5. unsettled \in BOOLEAN
    BY DEF LeaseInit
  <2> QED
    BY <2>1, <2>2, <2>3, <2>4, <2>5 DEF LeaseTypeOK
<1>2. LeaseTypeOK /\ [LeaseNext]_leaseVars => LeaseTypeOK'
  <2> SUFFICES ASSUME LeaseTypeOK, [LeaseNext]_leaseVars PROVE LeaseTypeOK'
    OBVIOUS
  <2> USE DEF LeaseTypeOK
  <2>1. ASSUME NEW e \in Events, Publish(e) PROVE LeaseTypeOK'
    BY <2>1, FixedRecords DEF Publish
  <2>2. ASSUME NEW e \in Events, NEW policy \in Policies, NEW t \in Tokens,
               ClaimLease(e, policy, t)
        PROVE  LeaseTypeOK'
    BY <2>2, ClaimedType DEF ClaimLease
  <2>3. ASSUME NEW t \in Tokens, Renew(t) PROVE LeaseTypeOK'
    BY <2>3, RenewedType DEF Renew
  <2>4. ASSUME NEW t \in Tokens, NEW s \in States, Transition(t, s) PROVE LeaseTypeOK'
    <3>1. candidate' \in Record
      BY <2>4, TransitionedType, ReleasedType DEF Transition
    <3>2. valid' \in [Tokens -> 0 .. LeaseSeconds]
      BY <2>4 DEF Transition
    <3>3. unsettled' \in BOOLEAN
      BY <2>4, Zenon DEF Transition
    <3> QED
      BY <2>4, <3>1, <3>2, <3>3 DEF Transition
  <2>5. ASSUME NEW t \in Tokens, NEW s \in Completions, Complete(t, s) PROVE LeaseTypeOK'
    <3>1. candidate' \in Record
      BY <2>5, CompletedType DEF Complete
    <3>2. valid' \in [Tokens -> 0 .. LeaseSeconds]
      BY <2>5 DEF Complete
    <3>3. unsettled' \in BOOLEAN
      BY <2>5 DEF Complete
    <3> QED
      BY <2>5, <3>1, <3>2, <3>3 DEF Complete
  <2>6. ASSUME NEW t \in Tokens, RecordAbsenceCheck(t) PROVE LeaseTypeOK'
    BY <2>6 DEF RecordAbsenceCheck, Progress, Confirmed, Counted, UpTo
  <2>7. ASSUME LoseProgress PROVE LeaseTypeOK'
    BY <2>7 DEF LoseProgress, Progress, NoProgress
  <2>8. ASSUME NEW t \in Tokens, Forget(t) PROVE LeaseTypeOK'
    BY <2>8 DEF Forget
  <2>9. ASSUME LoseKey PROVE LeaseTypeOK'
    BY <2>9, FixedRecords DEF LoseKey
  <2>10. ASSUME LeaseTick PROVE LeaseTypeOK'
    <3>1. absences' \in Progress
      BY <2>10 DEF LeaseTick, AgedProgress, Progress, UpTo
    <3>2. span' \in 0 .. MaxSpan
      BY <2>10 DEF LeaseTick, UpTo
    <3>3. valid' \in [Tokens -> 0 .. LeaseSeconds]
      BY <2>10 DEF LeaseTick, Before
    <3> QED
      BY <2>10, <3>1, <3>2, <3>3, AgedType DEF LeaseTick
  <2>11. CASE UNCHANGED leaseVars
    BY <2>11 DEF leaseVars
  <2> QED
    BY <2>1, <2>2, <2>3, <2>4, <2>5, <2>6, <2>7, <2>8, <2>9, <2>10, <2>11 DEF LeaseNext
<1> QED
  BY <1>1, <1>2, PTL DEF LeaseSpec

-----------------------------------------------------------------------------
(* Ownership.                                                                *)

IInv == LeaseTypeOK /\ LeaseCovered

\* A record that may be claimed has no holder left inside its window: it was
\* released, completed, deleted, or its lease ran out (Acquire).
LEMMA ClaimableIsFree ==
  ASSUME IInv, NEW e \in Events, NEW policy \in Policies, MayClaim(candidate, e, policy),
         NEW t \in Tokens
  PROVE  valid[t] = 0
<1> USE DEF IInv, LeaseTypeOK
<1>1. candidate.lease \in Nat /\ valid[t] \in Nat /\ valid[t] =< candidate.lease
  BY DEF LeaseCovered, Record
<1>2. CASE candidate.state \notin Active \cup Recovery
  BY <1>1, <1>2 DEF LeaseCovered
<1>3. CASE candidate.state \in Active \cup Recovery
  <2>1. candidate.lease = 0
    BY <1>3 DEF MayClaim, Identified, Reclaimable, Expired, Active, Recovery, Retryable
  <2> QED
    BY <1>1, <2>1
<1> QED
  BY <1>2, <1>3

\* Every fenced script, the clock and the key's expiry keep the record in step
\* with the windows its holders count on (CandidateExecutionScripts).
LEMMA CoverageKept == IInv /\ LeaseTypeOK' /\ [LeaseNext]_leaseVars => LeaseCovered'
<1> SUFFICES ASSUME IInv, LeaseTypeOK', [LeaseNext]_leaseVars PROVE LeaseCovered'
  OBVIOUS
<1> USE DEF IInv
<1>0. /\ candidate \in Record /\ candidate.lease \in Nat /\ candidate.key \in Nat
      /\ valid \in [Tokens -> 0 .. LeaseSeconds]
      /\ NoToken \notin Tokens
  BY DEF LeaseTypeOK, Record
<1>1. ASSUME NEW e \in Events, Publish(e) PROVE LeaseCovered'
  <2>1. candidate.state \notin Active \cup Recovery
    BY <1>1 DEF Publish, Active, Recovery
  <2>2. candidate.lease = 0
    BY <2>1 DEF LeaseCovered
  <2>3. \A t \in Tokens : valid'[t] = 0
    BY <1>0, <1>1, <2>2 DEF Publish, LeaseCovered
  <2>4. candidate'.token = NoToken /\ candidate'.lease = 0
    BY <1>1 DEF Publish, Published, Unleased
  <2> QED
    BY <2>3, <2>4 DEF LeaseCovered, ExclusiveLease
<1>2. ASSUME NEW e \in Events, NEW policy \in Policies, NEW t \in Tokens,
             ClaimLease(e, policy, t)
      PROVE  LeaseCovered'
  <2>1. \A u \in Tokens : valid[u] = 0
    BY <1>2, ClaimableIsFree DEF ClaimLease
  <2>2. \A u \in Tokens : valid'[u] = IF u = t THEN LeaseSeconds ELSE 0
    BY <1>0, <1>2, <2>1 DEF ClaimLease
  <2>3. /\ candidate'.state \in Active \cup Recovery
        /\ candidate'.token = t
        /\ candidate'.lease = LeaseSeconds /\ candidate'.key = LeaseSeconds
    BY <1>0, <1>2, ClaimedType DEF ClaimLease, Active, Recovery
  <2> QED
    BY <2>2, <2>3 DEF LeaseCovered, ExclusiveLease
<1>3. ASSUME NEW t \in Tokens, Renew(t) PROVE LeaseCovered'
  <2>1. candidate.token = t /\ candidate.state \in Active \cup Recovery
    BY <1>3 DEF Renew, MayRenew, Owns
  <2>2. /\ candidate'.state = candidate.state /\ candidate'.token = t
        /\ candidate'.lease = LeaseSeconds /\ candidate'.key = LeaseSeconds
    BY <1>0, <1>3, <2>1, RenewedType DEF Renew
  <2>3. \A u \in Tokens : valid'[u] =< LeaseSeconds /\ (valid'[u] > 0 => u = t)
    BY <1>0, <1>3, <2>1 DEF Renew, LeaseCovered, ExclusiveLease
  <2> QED
    BY <2>1, <2>2, <2>3 DEF LeaseCovered, ExclusiveLease
<1>4. ASSUME NEW t \in Tokens, NEW s \in States, Transition(t, s) PROVE LeaseCovered'
  <2>1. candidate.token = t
    BY <1>4 DEF Transition, MayTransition, Owns
  <2>2. \A u \in Tokens : u # t => valid'[u] = 0
    BY <1>0, <1>4, <2>1 DEF Transition, LeaseCovered, ExclusiveLease
  <2>3. CASE s = "retryable_error"
    <3>1. candidate'.token = NoToken /\ candidate'.lease = 0
      BY <1>0, <1>4, <2>3, ReleasedType DEF Transition
    <3>2. valid'[t] = 0
      BY <1>0, <1>4, <2>3 DEF Transition
    <3> QED
      BY <2>2, <3>1, <3>2 DEF LeaseCovered, ExclusiveLease
  <2>4. CASE s # "retryable_error"
    <3>1. /\ candidate'.token = t /\ candidate'.state = s
          /\ candidate'.lease = LeaseSeconds /\ candidate'.key = RetentionSeconds
      BY <1>0, <1>4, <2>1, <2>4, TransitionedType DEF Transition
    <3>2. s \in Active \cup Recovery
      BY <1>4, <2>4 DEF Transition, MayTransition, AllowedTransitions, Active, Recovery
    <3>3. valid'[t] = LeaseSeconds
      BY <1>0, <1>4, <2>4 DEF Transition
    <3> QED
      BY <2>2, <3>1, <3>2, <3>3 DEF LeaseCovered, ExclusiveLease
  <2> QED
    BY <2>3, <2>4
<1>5. ASSUME NEW t \in Tokens, NEW s \in Completions, Complete(t, s) PROVE LeaseCovered'
  <2>1. candidate.token = t
    BY <1>5 DEF Complete, MayComplete, Owns
  <2>2. \A u \in Tokens : valid'[u] = 0
    BY <1>0, <1>5, <2>1 DEF Complete, LeaseCovered, ExclusiveLease
  <2>3. candidate'.token = NoToken /\ candidate'.lease = 0
    BY <1>0, <1>5, CompletedType DEF Complete
  <2> QED
    BY <2>2, <2>3 DEF LeaseCovered, ExclusiveLease
<1>6. ASSUME UNCHANGED <<candidate, valid>> PROVE LeaseCovered'
  BY <1>6 DEF LeaseCovered, ExclusiveLease
<1>7. ASSUME NEW t \in Tokens, Forget(t) PROVE LeaseCovered'
  BY <1>0, <1>7 DEF Forget, LeaseCovered, ExclusiveLease
<1>8. ASSUME LoseKey PROVE LeaseCovered'
  <2>1. candidate.key = 0
    BY <1>8 DEF LoseKey, Due
  <2>2. \A t \in Tokens : valid[t] = 0
    BY <1>0, <2>1 DEF LeaseCovered, ExclusiveLease
  <2>3. candidate'.token = NoToken /\ candidate'.lease = 0
    BY <1>8 DEF LoseKey, Absent, Unleased
  <2> QED
    BY <1>8, <2>2, <2>3 DEF LoseKey, LeaseCovered, ExclusiveLease
<1>9. ASSUME LeaseTick PROVE LeaseCovered'
  <2>1. /\ candidate'.state = candidate.state /\ candidate'.token = candidate.token
        /\ candidate'.lease = Before(candidate.lease) /\ candidate'.key = Before(candidate.key)
    BY <1>0, <1>9, AgedType DEF LeaseTick
  <2>2. \A t \in Tokens : valid'[t] = Before(valid[t])
    BY <1>9 DEF LeaseTick
  <2> QED
    BY <1>0, <2>1, <2>2 DEF LeaseCovered, ExclusiveLease, Before
<1> QED
  BY <1>1, <1>2, <1>3, <1>4, <1>5, <1>6, <1>7, <1>8, <1>9
  DEF LeaseNext, leaseVars, RecordAbsenceCheck, LoseProgress

\* The inductive invariant: the record accounts for every window still open.
THEOREM Coverage == LeaseSpec => []LeaseCovered
<1>1. LeaseInit => LeaseCovered
  <2> SUFFICES ASSUME LeaseInit PROVE LeaseCovered
    OBVIOUS
  <2>1. candidate.token = NoToken /\ candidate.lease = 0
    BY FixedRecords DEF LeaseInit, Absent, Unleased
  <2>2. \A t \in Tokens : valid[t] = 0
    BY DEF LeaseInit
  <2> QED
    BY <2>1, <2>2 DEF LeaseCovered, ExclusiveLease
<1> QED
  BY <1>1, TypeCorrect, CoverageKept, PTL DEF LeaseSpec, IInv

\* Never do two executors count on the candidate at once, whatever they, the
\* clock and the key's expiry do.
THEOREM Exclusive == LeaseSpec => []ExclusiveLease
<1>1. LeaseCovered => ExclusiveLease
  BY DEF LeaseCovered
<1> QED
  BY <1>1, Coverage, PTL

-----------------------------------------------------------------------------
(* Outcomes.                                                                 *)

\* No call rewrites a terminal record.
THEOREM Final == LeaseSpec => TerminalIsFinal
<1> DEFINE A == candidate.state \in Terminal =>
                     \/ candidate'.state = candidate.state
                     \/ candidate'.state = "absent" /\ candidate.key = 0
<1>1. LeaseTypeOK /\ [LeaseNext]_leaseVars => [A]_leaseVars
  <2> SUFFICES ASSUME LeaseTypeOK, LeaseNext, candidate.state \in Terminal PROVE A
    OBVIOUS
  <2>0. candidate \in Record
    BY DEF LeaseTypeOK
  <2> USE DEF Terminal, Retryable, Active, Recovery
  <2>1. ASSUME NEW e \in Events, Publish(e) PROVE FALSE
    BY <2>1 DEF Publish
  <2>2. ASSUME NEW e \in Events, NEW policy \in Policies, NEW t \in Tokens,
               ClaimLease(e, policy, t)
        PROVE  FALSE
    BY <2>2 DEF ClaimLease, MayClaim, Reclaimable, Policies, DefaultClaim, RecoveryClaim
  <2>3. ASSUME NEW t \in Tokens, Renew(t) PROVE FALSE
    BY <2>3 DEF Renew, MayRenew
  <2>4. ASSUME NEW t \in Tokens, NEW s \in States, Transition(t, s) PROVE FALSE
    BY <2>4 DEF Transition, MayTransition, AllowedTransitions
  <2>5. ASSUME NEW t \in Tokens, NEW s \in Completions, Complete(t, s) PROVE FALSE
    BY <2>5 DEF Complete, MayComplete
  <2>6. ASSUME UNCHANGED candidate PROVE A
    BY <2>6
  <2>7. ASSUME LoseKey PROVE A
    BY <2>7 DEF LoseKey, Due, Absent, Unleased
  <2>8. ASSUME LeaseTick PROVE A
    BY <2>0, <2>8, AgedType DEF LeaseTick
  <2> QED
    BY <2>1, <2>2, <2>3, <2>4, <2>5, <2>6, <2>7, <2>8
    DEF LeaseNext, RecordAbsenceCheck, LoseProgress, Forget
<1> QED
  BY <1>1, TypeCorrect, PTL DEF LeaseSpec, TerminalIsFinal

\* A candidate that may have an order leaves the uncertain states only
\* through a completion, a recovery owner's release, or its key's expiry.
THEOREM Uncertainty == LeaseSpec => UncertaintyIsKept
<1> DEFINE A == candidate.state \in Uncertain =>
                  \/ candidate'.state \in Uncertain \cup Completions
                  \/ candidate.state = "broker_reconciling" /\ candidate'.state = "retryable_error"
                  \/ candidate'.state = "absent" /\ candidate.key = 0
<1>1. LeaseTypeOK /\ [LeaseNext]_leaseVars => [A]_leaseVars
  <2> SUFFICES ASSUME LeaseTypeOK, LeaseNext, candidate.state \in Uncertain PROVE A
    OBVIOUS
  <2>0. candidate \in Record
    BY DEF LeaseTypeOK
  <2>1. ASSUME NEW e \in Events, Publish(e) PROVE FALSE
    BY <2>1 DEF Publish, Uncertain, Recovery
  <2>2. ASSUME NEW e \in Events, NEW policy \in Policies, NEW t \in Tokens,
               ClaimLease(e, policy, t)
        PROVE  A
    BY <2>2 DEF ClaimLease, Claimed, ClaimedState, Uncertain, Recovery
  <2>3. ASSUME NEW t \in Tokens, Renew(t) PROVE A
    BY <2>0, <2>3, RenewedType DEF Renew
  <2>4. ASSUME NEW t \in Tokens, NEW s \in States, Transition(t, s) PROVE A
    <3>1. candidate'.state = s
      BY <2>0, <2>4, TransitionedType, ReleasedType DEF Transition
    <3>2. s \in AllowedTransitions(candidate.state)
      BY <2>4 DEF Transition, MayTransition
    <3> QED
      BY <3>1, <3>2 DEF AllowedTransitions, Uncertain, Recovery
  <2>5. ASSUME NEW t \in Tokens, NEW s \in Completions, Complete(t, s) PROVE A
    BY <2>0, <2>5, CompletedType DEF Complete
  <2>6. ASSUME UNCHANGED candidate PROVE A
    BY <2>6
  <2>7. ASSUME LoseKey PROVE A
    BY <2>7 DEF LoseKey, Due, Absent, Unleased
  <2>8. ASSUME LeaseTick PROVE A
    BY <2>0, <2>8, AgedType DEF LeaseTick
  <2> QED
    BY <2>1, <2>2, <2>3, <2>4, <2>5, <2>6, <2>7, <2>8
    DEF LeaseNext, RecordAbsenceCheck, LoseProgress, Forget
<1> QED
  BY <1>1, TypeCorrect, PTL DEF LeaseSpec, UncertaintyIsKept

-----------------------------------------------------------------------------
(* Broker absence.                                                           *)

\* Where the span is still counted exactly, it covers the age of the last
\* confirmation on top of the spacing of the earlier ones.
Spacing ==
  absences.count > 0 /\ span < MaxSpan =>
    (absences.count - 1) * CheckSeconds + absences.age =< span

\* Confirmations beyond the quorum are not counted, so none needs more than
\* MaxSpan (RecordAbsenceCheck).
LEMMA SpanOfCount ==
  ASSUME NEW n \in 1 .. Quorum
  PROVE  /\ (n - 1) * CheckSeconds \in Nat
         /\ (n - 1) * CheckSeconds =< MaxSpan
         /\ n * CheckSeconds = (n - 1) * CheckSeconds + CheckSeconds
<1>1. \A a, b, c \in Nat : a =< b => a * c =< b * c
  OBVIOUS
<1>2. n - 1 \in Nat /\ Quorum - 1 \in Nat /\ n - 1 =< Quorum - 1
  OBVIOUS
<1>3. (n - 1) * CheckSeconds =< MaxSpan
  BY <1>1, <1>2 DEF MaxSpan
<1>4. \A a, b \in Nat : a * b \in Nat
  OBVIOUS
<1>5. (n - 1) * CheckSeconds \in Nat
  BY <1>2, <1>4
<1>6. \A a, b \in Nat : a > 0 => a * b = (a - 1) * b + b
  OBVIOUS
<1>7. n * CheckSeconds = (n - 1) * CheckSeconds + CheckSeconds
  BY <1>6
<1> QED
  BY <1>3, <1>5, <1>7

\* A confirmation is refused until the recheck delay has passed since the last
\* one, whoever asks (RecordAbsenceCheck).
LEMMA SpacingKept == LeaseTypeOK /\ LeaseTypeOK' /\ Spacing /\ [LeaseNext]_leaseVars => Spacing'
<1> SUFFICES ASSUME LeaseTypeOK, LeaseTypeOK', Spacing, [LeaseNext]_leaseVars PROVE Spacing'
  OBVIOUS
<1>0. /\ absences \in Progress
      /\ absences.count \in 0 .. Quorum /\ absences.age \in 0 .. CheckSeconds
      /\ span \in 0 .. MaxSpan /\ MaxSpan \in Nat
  BY MaxSpanType DEF LeaseTypeOK, Progress
<1>1. CASE UNCHANGED <<absences, span>>
  BY <1>1 DEF Spacing, MaxSpan
<1>2. ASSUME NEW t \in Tokens, RecordAbsenceCheck(t) PROVE Spacing'
  <2> DEFINE e == held[t]
             n == Counted(absences, e)
  <2>1. absences'.count = UpTo(n, Quorum) /\ absences'.age = 0
    BY <1>2 DEF RecordAbsenceCheck, Confirmed
  <2>2. n \in 0 .. Quorum
    BY <1>0 DEF Counted
  <2>3. CASE n = 0
    <3>1. absences'.count = 1 /\ span' = 0
      BY <1>2, <2>1, <2>3 DEF RecordAbsenceCheck, UpTo
    <3>2. (1 - 1) * CheckSeconds = 0
      OBVIOUS
    <3> QED
      BY <2>1, <3>1, <3>2 DEF Spacing
  <2>4. CASE n > 0
    <3>1. n = absences.count /\ absences.age = CheckSeconds /\ span' = span
      BY <1>0, <1>2, <2>4 DEF RecordAbsenceCheck, TooSoon, Counted
    <3>2. absences'.count \in {n, n + 1} /\ absences'.count \in 1 .. Quorum
      BY <2>1, <2>2, <2>4 DEF UpTo
    <3>3. CASE absences'.count = n
      BY <1>0, <2>1, <2>2, <2>4, <3>1, <3>3, SpanOfCount DEF Spacing, MaxSpan
    <3>4. CASE absences'.count = n + 1
      <4>1. n \in 1 .. Quorum
        BY <2>2, <2>4
      <4>2. /\ (n + 1) - 1 = n
            /\ (n - 1) * CheckSeconds \in Nat
            /\ n * CheckSeconds = (n - 1) * CheckSeconds + CheckSeconds
        BY <4>1, SpanOfCount
      <4>3. span < MaxSpan => (n - 1) * CheckSeconds + CheckSeconds =< span
        BY <2>4, <3>1 DEF Spacing
      <4>4. span < MaxSpan => n * CheckSeconds =< span
        BY <4>2, <4>3
      <4> HIDE DEF n
      <4>5. n * CheckSeconds + 0 = n * CheckSeconds
        BY <2>2
      <4> QED
        BY <2>1, <3>1, <3>4, <4>2, <4>4, <4>5 DEF Spacing, MaxSpan
    <3> QED
      BY <3>2, <3>3, <3>4
  <2> QED
    BY <2>2, <2>3, <2>4
<1>3. CASE LoseProgress
  BY <1>3 DEF LoseProgress, NoProgress, Spacing
<1>4. CASE LeaseTick
  <2>1. /\ absences'.count = absences.count
        /\ absences.count > 0 => absences'.age =< absences.age + 1
        /\ absences.count > 0 => span' = UpTo(span, MaxSpan)
    BY <1>0, <1>4 DEF LeaseTick, AgedProgress, UpTo, Progress
  <2>2. CASE absences.count > 0 /\ span' < MaxSpan
    <3>1. span' = span + 1 /\ span < MaxSpan
      BY <1>0, <2>1, <2>2 DEF UpTo
    <3>2. (absences.count - 1) * CheckSeconds \in Nat
      BY <1>0, <2>2, SpanOfCount
    <3>3. absences'.age \in Nat
      BY DEF LeaseTypeOK, Progress
    <3>4. (absences.count - 1) * CheckSeconds + absences.age =< span
      BY <2>2, <3>1 DEF Spacing
    <3>5. (absences.count - 1) * CheckSeconds + absences'.age =< span'
      BY <1>0, <2>1, <2>2, <3>1, <3>2, <3>3, <3>4
    <3> QED
      BY <2>1, <3>5 DEF Spacing, MaxSpan
  <2>3. CASE ~(absences.count > 0 /\ span' < MaxSpan)
    BY <2>1, <2>3 DEF Spacing, MaxSpan
  <2> QED
    BY <2>2, <2>3
<1> QED
  BY <1>1, <1>2, <1>3, <1>4
  DEF LeaseNext, leaseVars, Publish, ClaimLease, Renew, Transition, Complete, Forget, LoseKey

\* An absence confirmed by n counted snapshots took at least n - 1 recheck
\* intervals, whoever counted them.
THEOREM Spaced == LeaseSpec => []AbsenceIsSpaced
<1>1. LeaseInit => Spacing
  BY DEF LeaseInit, NoProgress, Spacing
<1>2. LeaseTypeOK /\ Spacing => AbsenceIsSpaced
  <2> SUFFICES ASSUME LeaseTypeOK, Spacing, absences.count > 0
               PROVE  (absences.count - 1) * CheckSeconds =< span
    BY DEF AbsenceIsSpaced
  <2>1. /\ absences.count \in 1 .. Quorum /\ absences.age \in Nat
        /\ span \in 0 .. MaxSpan /\ MaxSpan \in Nat
    BY MaxSpanType DEF LeaseTypeOK, Progress
  <2>2. /\ (absences.count - 1) * CheckSeconds \in Nat
        /\ (absences.count - 1) * CheckSeconds =< MaxSpan
    BY <2>1, SpanOfCount
  <2>3. CASE span < MaxSpan
    BY <2>1, <2>2, <2>3 DEF Spacing
  <2>4. CASE span = MaxSpan
    BY <2>2, <2>4
  <2> QED
    BY <2>1, <2>3, <2>4
<1> QED
  BY <1>1, <1>2, TypeCorrect, SpacingKept, PTL DEF LeaseSpec
=============================================================================
