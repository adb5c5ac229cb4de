------------------------------ MODULE SetupCard ------------------------------
(* The Telegram card of one setup and the notices that reply to it           *)
(* (setup_card.py, delivery.py). The card exists twice, as a message at      *)
(* Telegram and as its id and text in Redis, and four kinds of tasks write   *)
(* both: the publisher of the plan, the retry it schedules, the event        *)
(* delivery, and the replies the delivery puts off until there is a card.    *)
(*                                                                           *)
(* A step ends where the code awaits Telegram, or leaves the create lock or  *)
(* the card open to other tasks; Redis reads between two such places are one *)
(* step. A text is its headline (activated or not) and its status line.      *)
EXTENDS Naturals, Sequences, FiniteSets

CONSTANTS
  MaxRoots,   \* roots posted at Telegram
  MaxFaults   \* failed calls, lapsed locks and restarts

ASSUME SetupCardAssumption == MaxRoots \in Nat \ {0} /\ MaxFaults \in Nat

VARIABLES
  card,     \* auto_trade:forming_message
  status,   \* auto_trade:forming_status
  pending,  \* auto_trade:forming_reconcile_pending
  lock,     \* the create lock; its value names no holder, the model does
  claimed,  \* v8_notify and telegram_terminal claims
  events,   \* the event stream
  cursor,   \* auto_trade:telegram_event_cursor
  root,     \* root messages at Telegram
  told,     \* how often a notice of each kind was posted
  ended,    \* the setup is terminal
  plan,     \* the setup's plan at the engine
  task,
  faults,
  orphaned  \* history: a root may exist that no key knows of

vars == <<card, status, pending, lock, claimed, events, cursor, root, told,
          ended, plan, task, faults, orphaned>>
keys  == <<card, status, pending>>
inbox == <<claimed, events, cursor>>
world == <<ended, plan, faults, orphaned>>

Notices == {"filled", "closed"}
Kinds   == Notices \cup {"status", "over"}
Lines   == {"none", "queued", "published", "filled", "over"}
Texts   == [head : BOOLEAN, line : Lines]
Roots   == 1..MaxRoots
Tasks   == {"publisher", "later", "delivery"} \cup Notices

\* CARD_STATUS_PRIORITY
Priority == [none |-> 0, queued |-> 10, published |-> 100, filled |-> 150, over |-> 200]

\* The root card of a published plan: IN ZONE, WAITING FILL.
Published == [head |-> FALSE, line |-> "published"]

\* apply_forming_card_status: a fill moves to the headline and takes the first
\* status line with it; nothing brings the old headline back.
Applied(text, line) ==
  CASE line = "none"   -> text
    [] line = "filled" -> [head |-> TRUE, line |-> IF text.head THEN text.line ELSE "none"]
    [] OTHER           -> [text EXCEPT !.line = line]

\* A card with id 0 reserves the create of a root that is being sent.
Card(id, text) == [known |-> TRUE, id |-> id, text |-> text]
NoCard == [Card(0, Published) EXCEPT !.known = FALSE]
Live(c) == c.id # 0
Posted(n) == root[n].at = "posted"
Unsent == {n \in Roots : root[n].at = "unsent"}
Put(n, text) == root' = [root EXCEPT ![n] = [at |-> "posted", text |-> text]]

\* _SAVE_STATUS_LUA
Refused(line) == Priority[status] > Priority[line]
Raised(line)  == IF Refused(line) THEN status ELSE line

\* clear_forming_card
Cleared == card' = NoCard /\ status' = "none" /\ pending' = "none"

\* `ret` is where a task goes on after the card's or the line's subroutine.
Idle == [pc |-> "idle", id |-> 0, text |-> Published, line |-> "none",
         ret |-> "idle"]
Ensuring(ret) == [Idle EXCEPT !.pc = "ensure", !.ret = ret]
At(t, pc) == task[t].pc = pc
Goto(t, pc) == task' = [task EXCEPT ![t].pc = pc]
Return(t, id) ==
  task' = [task EXCEPT ![t] = IF @.ret = "idle" THEN Idle ELSE
             [Idle EXCEPT !.pc = task[t].ret, !.id = id, !.ret = task[t].ret]]
Show(t, id, text, pc) ==
  task' = [task EXCEPT ![t].id = id, ![t].text = text, ![t].pc = pc]
WriteLine(t, line, ret) ==
  task' = [task EXCEPT ![t].pc = "line", ![t].line = line, ![t].ret = ret]

-----------------------------------------------------------------------------
(* Calls to Telegram. telegram_actor.py makes edits and replies in the order  *)
(* they are submitted: a call has its effect when it is submitted, and its    *)
(* caller goes on, in a later step, when it is answered.                      *)

Fault == faults < MaxFaults /\ faults' = faults + 1

\* An edit is made, or refused as the root is gone, or fails: with or without
\* its effect.
EditRoot(t, id, text, done, gone, fail) ==
  \/ Posted(id) /\ Put(id, text) /\ faults' = faults /\ Show(t, id, text, done)
  \/ ~Posted(id) /\ UNCHANGED <<root, faults>> /\ Show(t, id, text, gone)
  \/ Fault /\ (root' = root \/ (Put(id, text) /\ Posted(id))) /\ Show(t, id, text, fail)

Silent == UNCHANGED <<root, faults>>

\* A card with the wanted text is not edited.
Match(t, text, same, done, gone, fail) ==
  \/ card.text = text /\ Silent /\ Show(t, card.id, text, same)
  \/ card.text # text /\ EditRoot(t, card.id, text, done, gone, fail)

-----------------------------------------------------------------------------
(* ensure_plan_published_root_card and post_or_edit_forming_card *)

\* A live card is kept as it is.
Ensure(t) ==
  /\ At(t, "ensure")
  /\ IF Live(card) THEN Return(t, card.id) ELSE Show(t, 0, Published, "post")
  /\ UNCHANGED <<keys, lock, inbox, root, told, world>>

\* A setup that has ended gets no card; a card at hand is edited when its text
\* differs; otherwise a root is created.
Post(t) ==
  /\ At(t, "post")
  /\ LET text == Applied(task[t].text, status) IN
     \/ ended /\ Silent /\ Return(t, 0)
     \/ ~ended /\ Live(card) /\ Match(t, text, "persist", "persist", "create", "failed")
     \/ ~ended /\ ~Live(card) /\ Silent /\ Show(t, 0, text, "create")
  /\ UNCHANGED <<keys, lock, inbox, told, ended, plan, orphaned>>

\* Mutant: the winner trusts what it saw before it had the lock.
ClaimBlind(t) == lock = "free" /\ lock' = t /\ Silent /\ Goto(t, "reserve")

\* _send_forming_card_once: the winner of the create lock looks again.
Claim(t) ==
  /\ lock = "free" /\ lock' = t
  /\ \/ Live(card) /\ Match(t, task[t].text, "unlock", "unlock", "reserve", "failheld")
     \/ ~Live(card) /\ Silent /\ Goto(t, "reserve")

Create(t) ==
  /\ At(t, "create")
  /\ \/ Claim(t)
     \/ lock # "free" /\ lock' = lock /\ Silent /\ Goto(t, "peer")
  /\ UNCHANGED <<keys, inbox, told, ended, plan, orphaned>>

\* The wait ends with the holder's card, with its lock, or with nothing.
Peer(t) ==
  /\ At(t, "peer")
  /\ \/ /\ Live(card) /\ lock' = lock
        /\ Match(t, task[t].text, "persist", "persist", "create", "failed")
     \/ ~Live(card) /\ Claim(t)
     \/ ~Live(card) /\ lock # "free" /\ lock' = lock /\ Silent /\ Return(t, 0)
  /\ UNCHANGED <<keys, inbox, told, ended, plan, orphaned>>

Reserve(t) ==
  /\ At(t, "reserve")
  /\ card' = Card(0, task[t].text)
  /\ Goto(t, "send")
  /\ UNCHANGED <<status, pending, lock, inbox, root, told, world>>

\* Telegram takes a new root, the next of Roots.
Sent(t, n) == n \in Unsent /\ (\A m \in Unsent : n =< m) /\ Put(n, task[t].text)

Send(t) ==
  /\ At(t, "send")
  /\ \E n \in Roots : Sent(t, n) /\ Show(t, n, task[t].text, "save")
  /\ UNCHANGED <<keys, lock, inbox, told, world>>

\* A failed send clears every key of the card; the root may be there.
SendFails(t) ==
  /\ At(t, "send") /\ Fault
  /\ Cleared
  /\ \/ UNCHANGED <<root, orphaned>>
     \/ (\E n \in Roots : Sent(t, n)) /\ orphaned' = TRUE
  /\ Goto(t, "failheld")
  /\ UNCHANGED <<lock, inbox, told, ended, plan>>

\* The id is saved, then the lock deleted, whoever holds it.
Unlock(t) ==
  /\ \/ At(t, "save") /\ card' = Card(task[t].id, task[t].text) /\ Goto(t, "persist")
     \/ At(t, "unlock") /\ card' = card /\ Goto(t, "persist")
     \/ At(t, "failheld") /\ card' = card /\ Goto(t, "failed")
  /\ lock' = "free"
  /\ UNCHANGED <<status, pending, inbox, root, told, world>>

-----------------------------------------------------------------------------
(* reconcile_forming_card_after_send. A root that is gone by now was removed  *)
(* as the setup ended, and the card goes with it.                             *)

\* Mutant: the text computed before the send is trusted after it.
RecheckNothing(t) ==
  /\ At(t, "persist")
  /\ card' = Card(task[t].id, task[t].text)
  /\ Silent /\ Goto(t, "mark")
  /\ UNCHANGED <<status, pending, lock, inbox, told, ended, plan, orphaned>>

\* The card is saved. The setup may have ended, or the status changed, while
\* Telegram answered.
Recheck(t) ==
  /\ At(t, "persist")
  /\ card' = Card(task[t].id, task[t].text)
  /\ LET text == Applied(task[t].text, status) IN
     \/ ended /\ Silent /\ Goto(t, "remove")
     \/ ~ended /\ text = task[t].text /\ Silent /\ Goto(t, "pending")
     \/ /\ ~ended /\ text # task[t].text
        /\ EditRoot(t, task[t].id, text, "resave", "resave", "failed")
  /\ UNCHANGED <<status, pending, lock, inbox, told, ended, plan, orphaned>>

\* A changed text is saved. Once more for the end; and a status that found no
\* card is taken up.
ApplyPending(t) ==
  /\ task[t].pc \in {"pending", "resave"}
  /\ card' = IF At(t, "resave") THEN Card(task[t].id, task[t].text) ELSE card
  /\ LET text == Applied(task[t].text, pending) IN
     \/ ended /\ Silent /\ Goto(t, "remove") /\ pending' = pending
     \/ ~ended /\ text = task[t].text /\ Silent /\ Goto(t, "mark") /\ pending' = "none"
     \/ /\ ~ended /\ text # task[t].text /\ pending' = pending
        /\ EditRoot(t, task[t].id, text, "clear", "clear", "failed")
  /\ UNCHANGED <<status, lock, inbox, told, ended, plan, orphaned>>

\* Mutant: the keys are cleared, the root stays.
RemoveKeys(t) ==
  /\ At(t, "remove")
  /\ Cleared
  /\ Return(t, 0)
  /\ UNCHANGED <<lock, inbox, root, told, world>>

\* _delete_or_neutralize
Remove(t) ==
  /\ At(t, "remove")
  /\ root' = [root EXCEPT ![task[t].id].at = "gone"]
  /\ Cleared
  /\ Return(t, 0)
  /\ UNCHANGED <<lock, inbox, told, world>>

\* The status of a card that was made or edited.
Mark(t) ==
  /\ \/ At(t, "mark") /\ UNCHANGED <<card, pending>>
     \/ At(t, "clear") /\ card' = Card(task[t].id, task[t].text) /\ pending' = "none"
  /\ status' = Raised("published")
  /\ Return(t, task[t].id)
  /\ UNCHANGED <<lock, inbox, root, told, world>>

\* The card is saved when its line was shown.
SaveLine(t) ==
  /\ \/ At(t, "painted") /\ card' = Card(task[t].id, task[t].text)
     \/ At(t, "unpainted") /\ card' = card
  /\ Return(t, task[t].id)
  /\ UNCHANGED <<status, pending, lock, inbox, root, told, world>>

-----------------------------------------------------------------------------
(* edit_forming_card_status: the status is saved unless a higher one is, then *)
(* shown on a live card, or left for the task that is creating the card.      *)

Line(t) ==
  /\ At(t, "line")
  /\ LET line == task[t].line IN
     /\ status' = Raised(line)
     /\ pending' = IF Refused(line) \/ Live(card) \/ ended THEN pending ELSE line
     /\ LET text == Applied(card.text, line) IN
        \/ /\ Refused(line) \/ ~Live(card) \/ card.text = text
           /\ Silent /\ Return(t, 0)
        \/ /\ ~Refused(line) /\ Live(card) /\ card.text # text
           /\ EditRoot(t, card.id, text, "painted", "unpainted", "failed")
  /\ UNCHANGED <<card, lock, inbox, told, ended, plan, orphaned>>

-----------------------------------------------------------------------------
(* The publisher *)

\* _emit_setup_card_status
Emit ==
  /\ At("publisher", "emit")
  /\ status' = Raised("queued")
  /\ events' = Append(events, "status")
  /\ Goto("publisher", "publish")
  /\ UNCHANGED <<card, pending, lock, claimed, cursor, root, told, world>>

Publish ==
  /\ At("publisher", "publish")
  /\ plan' = "live"
  /\ task' = [task EXCEPT !["publisher"] = Ensuring("idle")]
  /\ UNCHANGED <<keys, lock, inbox, root, told, ended, faults, orphaned>>

-----------------------------------------------------------------------------
(* Event delivery *)

Event == events[cursor + 1]

\* Mutant: a claim is not recognised, as after a restart with a salted hash.
TakenAnew(e) == FALSE

Taken(e) == e \in claimed

\* _deliver_auto_trade_event: a notice is claimed before any of it is sent.
Entry ==
  /\ task["delivery"].pc \in {"idle", "entry"}
  /\ cursor < Len(events)
  /\ IF Taken(Event)
     THEN claimed' = claimed /\ Goto("delivery", "advance")
     ELSE /\ claimed' = claimed \cup ({Event} \ {"status"})
          /\ LET lining(line, ret) == [Idle EXCEPT !.pc = "line", !.line = line, !.ret = ret]
             IN task' = [task EXCEPT !["delivery"] =
                  CASE Event = "status" -> lining("queued", "advance")
                    [] Event = "filled" -> Ensuring("activate")
                    [] Event = "closed" -> [Idle EXCEPT !.pc = "kill"]
                    [] Event = "over"   -> lining("over", "kill")]
  /\ UNCHANGED <<keys, lock, events, cursor, root, told, world>>

\* _mark_forming_card_position_activated
Activate ==
  /\ At("delivery", "activate")
  /\ WriteLine("delivery", "filled", "reply")
  /\ UNCHANGED <<keys, lock, inbox, root, told, world>>

\* kill_setup_card: the root stays, its status is forgotten.
Kill ==
  /\ At("delivery", "kill")
  /\ status' = "none" /\ pending' = "none"
  /\ Goto("delivery", IF Event = "closed" THEN "reply" ELSE "advance")
  /\ UNCHANGED <<card, lock, inbox, root, told, world>>

\* _post_manage_reply: the card is waited for, then made.
Reply ==
  /\ At("delivery", "reply")
  /\ \/ Live(card) /\ task' = [task EXCEPT !["delivery"].id = card.id,
                                           !["delivery"].pc = "tell",
                                           !["delivery"].ret = "advance"]
     \/ ~Live(card) /\ task' = [task EXCEPT !["delivery"].ret = "anchor",
                                            !["delivery"].pc = "ensure"]
  /\ UNCHANGED <<keys, lock, inbox, root, told, world>>

\* _schedule_deferred_manage_reply, when there is still no card.
Anchor ==
  /\ At("delivery", "anchor")
  /\ IF task["delivery"].id # 0
     THEN task' = [task EXCEPT !["delivery"].pc = "tell", !["delivery"].ret = "advance"]
     ELSE task' = [task EXCEPT !["delivery"].pc = "advance", ![Event] = Ensuring("answer")]
  /\ UNCHANGED <<keys, lock, inbox, root, told, world>>

\* The reply itself; Telegram refuses one to a root that is gone.
Telling(n, id) == told' = IF id # 0 /\ Posted(id) THEN [told EXCEPT ![n] = @ + 1] ELSE told

Tell ==
  /\ At("delivery", "tell")
  /\ \/ /\ Telling(Event, task["delivery"].id)
        /\ Goto("delivery", "advance")
        /\ faults' = faults
     \/ /\ Fault
        /\ told' = told \/ Telling(Event, task["delivery"].id)
        /\ Goto("delivery", "failed")
  /\ UNCHANGED <<keys, lock, inbox, root, ended, plan, orphaned>>

Advance ==
  /\ At("delivery", "advance")
  /\ cursor' = cursor + 1
  /\ task' = [task EXCEPT !["delivery"] = Idle]
  /\ UNCHANGED <<keys, lock, claimed, events, root, told, world>>

\* The put-off reply; whatever it tells, it then marks the card activated.
Answer(n) ==
  /\ At(n, "answer")
  /\ IF task[n].id # 0 /\ Posted(task[n].id)
     THEN Telling(n, task[n].id) /\ WriteLine(n, "filled", "idle")
     ELSE told' = told /\ task' = [task EXCEPT ![n] = Idle]
  /\ UNCHANGED <<keys, lock, inbox, root, world>>

-----------------------------------------------------------------------------
(* Failed calls, lapsed locks and restarts *)

\* What each task makes of an exception. The publisher schedules a retry; the
\* delivery tries for a card twice, swallows a failed status of a fill or an
\* end, and else meets its entry again, or passes it after a second flood (both
\* floods are one failure here).
Raise(t) ==
  /\ At(t, "failed")
  /\ CASE t = "publisher" ->
            task' = [task EXCEPT ![t] = Idle, !["later"] = Ensuring("idle")]
       [] t = "delivery" ->
            \/ /\ task[t].ret \in {"activate", "anchor", "reply", "kill"}
               /\ Return(t, 0)
            \/ task[t].ret \in {"activate", "anchor"} /\ Goto(t, "ensure")
            \/ task[t].ret = "advance" /\ Goto(t, "advance")
            \/ /\ task[t].ret = "advance"
               /\ task' = [task EXCEPT ![t] = [Idle EXCEPT !.pc = "entry"]]
       [] OTHER -> task' = [task EXCEPT ![t] = Idle]
  /\ UNCHANGED <<keys, lock, inbox, root, told, world>>

\* The lock's time to live runs out under a holder at work.
LockLapses ==
  /\ lock \in Tasks
  /\ Fault
  /\ lock' = "free"
  /\ orphaned' = TRUE
  /\ UNCHANGED <<keys, inbox, root, told, ended, plan, task>>

\* A lock left by a restart runs out.
LockExpires ==
  /\ lock = "left"
  /\ lock' = "free"
  /\ UNCHANGED <<keys, inbox, root, told, world, task>>

\* A restart forgets every task; startup_reconciliation.py then clears the
\* card of an ended setup and marks a status that has no card.
Restart ==
  /\ Fault
  /\ task' = [t \in Tasks |-> IF t = "publisher" /\ plan = "none"
                              THEN [Idle EXCEPT !.pc = "emit"] ELSE Idle]
  /\ lock' = IF lock = "free" THEN "free" ELSE "left"
  /\ orphaned' = (orphaned \/ \E t \in Tasks : At(t, "save"))
  /\ IF ended /\ card.known
     THEN Cleared
     ELSE /\ pending' = IF ~card.known /\ status # "none" /\ ~ended THEN status ELSE pending
          /\ UNCHANGED <<card, status>>
  /\ UNCHANGED <<inbox, root, told, ended, plan>>

-----------------------------------------------------------------------------
(* The engine and the setup's end *)

PlanMoves(from, to) ==
  /\ plan = from /\ plan' = to
  /\ events' = Append(events, to)
  /\ UNCHANGED <<keys, lock, claimed, cursor, root, told, ended, task, faults, orphaned>>

SetupEnds ==
  /\ plan \in {"over", "closed"} /\ ~ended
  /\ ended' = TRUE
  /\ UNCHANGED <<keys, lock, inbox, root, told, plan, task, faults, orphaned>>

Env ==
  \/ PlanMoves("live", "filled")
  \/ PlanMoves("live", "over")
  \/ PlanMoves("filled", "closed")
  \/ SetupEnds

CardStep(t) ==
  \/ Ensure(t) \/ Post(t) \/ Create(t) \/ Peer(t) \/ Reserve(t) \/ Send(t)
  \/ Unlock(t) \/ Recheck(t) \/ ApplyPending(t) \/ Remove(t) \/ Mark(t)
  \/ Line(t) \/ SaveLine(t) \/ Raise(t)

PublisherStep == Emit \/ Publish
DeliveryStep  == Entry \/ Activate \/ Kill \/ Reply \/ Anchor \/ Tell \/ Advance

Faulty == LockLapses \/ Restart \/ \E t \in Tasks : SendFails(t)

Init ==
  /\ card = NoCard /\ status = "none" /\ pending = "none"
  /\ lock = "free"
  /\ claimed = {} /\ events = <<>> /\ cursor = 0
  /\ root = [n \in Roots |-> [at |-> "unsent", text |-> Published]]
  /\ told = [n \in Notices |-> 0]
  /\ ended = FALSE /\ plan = "none"
  /\ task = [t \in Tasks |-> IF t = "publisher" THEN [Idle EXCEPT !.pc = "emit"] ELSE Idle]
  /\ faults = 0 /\ orphaned = FALSE

Next ==
  \/ \E t \in Tasks : CardStep(t)
  \/ PublisherStep \/ DeliveryStep \/ \E n \in Notices : Answer(n)
  \/ LockExpires \/ Faulty \/ Env

\* The event loop runs every task that can go on, and a lock's time runs out.
\* The engine, the setup's end and faults owe nothing.
Fairness ==
  /\ \A t \in Tasks : WF_vars(CardStep(t))
  /\ \A n \in Notices : WF_vars(Answer(n))
  /\ WF_vars(PublisherStep) /\ WF_vars(DeliveryStep) /\ WF_vars(LockExpires)

Spec     == Init /\ [][Next]_vars
FairSpec == Spec /\ Fairness

-----------------------------------------------------------------------------
(* Properties *)

\* Every key, message and task holds what the code can put there, and a card
\* names a root that was posted.
TypeOK ==
  /\ card \in [known : BOOLEAN, id : 0..MaxRoots, text : Texts]
  /\ Live(card) => root[card.id].at # "unsent"
  /\ status \in Lines /\ pending \in Lines
  /\ lock \in Tasks \cup {"free", "left"}
  /\ claimed \subseteq Kinds \ {"status"}
  /\ events \in Seq(Kinds) /\ cursor \in 0..Len(events)
  /\ root \in [Roots -> [at : {"unsent", "posted", "gone"}, text : Texts]]
  /\ told \in [Notices -> Nat]
  /\ ended \in BOOLEAN /\ orphaned \in BOOLEAN
  /\ plan \in {"none", "live", "filled", "over", "closed"}
  /\ \A t \in Tasks : /\ task[t].id \in 0..MaxRoots /\ task[t].text \in Texts
                      /\ task[t].line \in Lines
  /\ faults \in 0..MaxFaults

\* However the publisher, its retry, the delivery and the put-off replies
\* interleave, a setup has one root at Telegram (setup_card.py:1-12), unless a
\* root was posted and its id lost, or the lock lapsed under its holder.
OneCard == ~orphaned => Cardinality({n \in Roots : Posted(n)}) =< 1

\* What setup_card.py:855-856 says without that exception: callers contend on a
\* lock "so only one Telegram root is posted". But a send that fails after
\* Telegram posted the root clears the card, and the next caller posts another;
\* and the lock lives 30 s, while a send may wait 360 s for a flood to clear.
OneRoot == Cardinality({n \in Roots : Posted(n)}) =< 1

\* A notice is posted once, through retries of its entry, put-off replies and
\* restarts between the post and the cursor (the claims of delivery.py:2388).
NoticeSentOnce == \A n \in Notices : told[n] =< 1

\* A fill the delivery has taken reaches the headline of the root, though the
\* root may be in flight when it comes (P0-4, setup_card.py:1095), unless the
\* position closes meanwhile or a call fails.
FillIsShown ==
  "filled" \in claimed ~>
     \/ \E n \in Roots : Posted(n) /\ root[n].text.head
     \/ plan = "closed" \/ faults > 0

\* A root posted for a setup that ended before the post is taken away again
\* (setup_card.py:1105), unless a call fails.
EndedIsNotCarded ==
  \A n \in Roots :
    [](ended /\ root[n].at = "unsent" => [](Posted(n) => <>(~Posted(n) \/ faults > 0)))
=============================================================================
