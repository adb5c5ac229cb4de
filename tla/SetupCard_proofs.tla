--------------------------- MODULE SetupCard_proofs ---------------------------
(* Proofs about SetupCard for any number of roots and of faults.              *)
(*                                                                            *)
(* A notice is posted once because what may still post it is counted with     *)
(* what was posted: the delivery while it works on the claimed entry, or the  *)
(* put-off reply it has scheduled, never both, and neither after the post. A  *)
(* restart forgets the one that may still post, never the claim.              *)
(*                                                                            *)
(* There is one root because a task that may post one holds the create lock   *)
(* and found none, while the card, or the sender that has just posted, knows  *)
(* the one there is. The setup's end takes the root and the card away under   *)
(* the tasks at work: what keeps those that looked before the end from        *)
(* bringing a removed root back is that no more than one of them is left.     *)
EXTENDS SetupCard, FiniteSetTheorems, TLAPS

(* The places of the delivery from which a post may follow. `advance` leaves  *)
(* the entry; it keeps the return address of the subroutine it came from.     *)
Ahead == {"activate", "reply", "anchor", "kill", "tell"}
Busy(t) == t.pc \notin {"idle", "entry"}
MayTell(t) == Busy(t) /\ t.pc # "advance" /\ (t.pc \in Ahead \/ t.ret \in Ahead)

Shape ==
  /\ DOMAIN task = Tasks
  /\ \A t \in Tasks : DOMAIN task[t] = {"pc", "id", "text", "line", "ret"}
  /\ \A t \in Tasks : /\ task[t].ret # "tell"
                      /\ task[t].pc = "answer" => task[t].ret = "answer"

Entries ==
  /\ events \in Seq(Kinds) /\ cursor \in Nat
  /\ Busy(task["delivery"]) => cursor < Len(events)
  /\ MayTell(task["delivery"]) => Event \in claimed
  /\ task["delivery"].pc = "tell" => task["delivery"].ret = "advance"

Answers(n) == task[n].ret = "answer"
Delivers(n) == MayTell(task["delivery"]) /\ Event = n

Once ==
  /\ DOMAIN told = Notices
  /\ \A n \in Notices :
       /\ told[n] \in {0, 1}
       /\ n \notin claimed => told[n] = 0 /\ ~Answers(n)
       /\ told[n] = 1 => ~Answers(n) /\ ~Delivers(n)
       /\ ~(Answers(n) /\ Delivers(n))

OnceInv == Shape /\ Entries /\ Once

-----------------------------------------------------------------------------
(* What a step of the card's subroutine does to the tasks: none comes closer  *)
(* to a post than it was.                                                     *)

Calm(u) ==
  /\ DOMAIN task'[u] = {"pc", "id", "text", "line", "ret"}
  /\ task'[u].ret # "tell"
  /\ task'[u].pc = "answer" => task'[u].ret = "answer"
  /\ task'[u].ret = "answer" => task[u].ret = "answer"
  /\ MayTell(task'[u]) => MayTell(task[u])
  /\ u = "delivery" /\ Busy(task'[u]) => Busy(task[u])
  /\ task'[u].pc = "tell" => task[u].pc = "tell" /\ task'[u].ret = task[u].ret

Quiet == DOMAIN task' = Tasks /\ \A u \in Tasks : Calm(u)

Inside == {"post", "create", "peer", "reserve", "send", "save", "persist", "unlock",
           "failheld", "failed", "pending", "resave", "remove", "mark", "clear",
           "painted", "unpainted", "ensure"}

LEMMA IdleShape ==
  /\ DOMAIN Idle = {"pc", "id", "text", "line", "ret"}
  /\ Idle.pc = "idle" /\ Idle.ret = "idle"
BY DEF Idle

LEMMA IdleFrom ==
  ASSUME NEW pc, NEW id, NEW ret
  PROVE  LET i == [Idle EXCEPT !.pc = pc, !.id = id, !.ret = ret]
         IN  /\ DOMAIN i = {"pc", "id", "text", "line", "ret"}
             /\ i.pc = pc /\ i.ret = ret
BY DEF Idle

LEMMA IdleAt ==
  ASSUME NEW pc
  PROVE  LET i == [Idle EXCEPT !.pc = pc]
         IN  /\ DOMAIN i = {"pc", "id", "text", "line", "ret"}
             /\ i.pc = pc /\ i.ret = "idle"
BY DEF Idle

LEMMA EnsuringAt ==
  ASSUME NEW ret
  PROVE  /\ DOMAIN Ensuring(ret) = {"pc", "id", "text", "line", "ret"}
         /\ Ensuring(ret).pc = "ensure" /\ Ensuring(ret).ret = ret
BY DEF Ensuring, Idle

LEMMA GotoQuiet ==
  ASSUME Shape, NEW t \in Tasks, NEW pc \in Inside, Busy(task[t]), task[t].pc # "advance",
         Goto(t, pc)
  PROVE  Quiet
BY DEF Shape, Goto, Inside, Quiet, Calm, MayTell, Ahead, Busy

LEMMA ShowQuiet ==
  ASSUME Shape, NEW t \in Tasks, NEW pc \in Inside, Busy(task[t]), task[t].pc # "advance",
         NEW id, NEW text, Show(t, id, text, pc)
  PROVE  Quiet
BY DEF Shape, Show, Inside, Quiet, Calm, MayTell, Ahead, Busy

LEMMA ReturnQuiet ==
  ASSUME Shape, NEW t \in Tasks, Busy(task[t]), task[t].pc # "advance", NEW id, Return(t, id)
  PROVE  Quiet
<1>1. CASE task[t].ret = "idle"
  <2>1. task' = [task EXCEPT ![t] = Idle]
    BY <1>1 DEF Return
  <2> QED
    BY <2>1, IdleShape DEF Shape, Quiet, Calm, MayTell, Ahead, Busy
<1>2. CASE task[t].ret # "idle"
  <2> DEFINE i == [Idle EXCEPT !.pc = task[t].ret, !.id = id, !.ret = task[t].ret]
  <2>1. task' = [task EXCEPT ![t] = i]
    BY <1>2 DEF Return
  <2>2. /\ DOMAIN i = {"pc", "id", "text", "line", "ret"}
        /\ i.pc = task[t].ret /\ i.ret = task[t].ret
    BY IdleFrom
  <2> HIDE DEF i
  <2> QED
    BY <2>1, <2>2 DEF Shape, Quiet, Calm, MayTell, Ahead, Busy
<1> QED
  BY <1>1, <1>2

(* The calls of Telegram only choose where the task goes on.                  *)
LEMMA EditQuiet ==
  ASSUME Shape, NEW t \in Tasks, Busy(task[t]), task[t].pc # "advance", NEW id, NEW text,
         NEW done \in Inside, NEW gone \in Inside, NEW fail \in Inside,
         EditRoot(t, id, text, done, gone, fail)
  PROVE  Quiet
BY ShowQuiet DEF EditRoot

LEMMA MatchQuiet ==
  ASSUME Shape, NEW t \in Tasks, Busy(task[t]), task[t].pc # "advance", NEW text,
         NEW same \in Inside, NEW done \in Inside, NEW gone \in Inside,
         NEW fail \in Inside, Match(t, text, same, done, gone, fail)
  PROVE  Quiet
BY ShowQuiet, EditQuiet DEF Match

LEMMA ClaimQuiet ==
  ASSUME Shape, NEW t \in Tasks, Busy(task[t]), task[t].pc # "advance", Claim(t)
  PROVE  Quiet
<1>1. {"unlock", "reserve", "failheld"} \subseteq Inside
  BY DEF Inside
<1> QED
  BY <1>1, GotoQuiet, MatchQuiet DEF Claim

LEMMA CardQuiet ==
  ASSUME Shape, NEW t \in Tasks, CardStep(t)
  PROVE  Quiet /\ UNCHANGED <<claimed, events, cursor, told>>
<1>1. \A pc \in Inside \cup {"line", "failed"} :
         At(t, pc) => Busy(task[t]) /\ task[t].pc # "advance"
  BY DEF At, Busy, Inside
<1>2. {"post", "create", "peer", "reserve", "send", "save", "persist", "unlock", "failheld",
       "failed", "pending", "resave", "remove", "mark", "clear", "painted",
       "unpainted", "ensure"} \subseteq Inside
  BY DEF Inside
<1>3. CASE Ensure(t)
  BY <1>1, <1>2, <1>3, ReturnQuiet, ShowQuiet DEF Ensure, inbox
<1>4. CASE Post(t)
  BY <1>1, <1>2, <1>4, ReturnQuiet, ShowQuiet, MatchQuiet DEF Post, inbox
<1>5. CASE Create(t)
  BY <1>1, <1>2, <1>5, GotoQuiet, ClaimQuiet DEF Create, inbox
<1>6. CASE Peer(t)
  BY <1>1, <1>2, <1>6, ReturnQuiet, MatchQuiet, ClaimQuiet DEF Peer, inbox
<1>7. CASE Reserve(t)
  BY <1>1, <1>2, <1>7, GotoQuiet DEF Reserve, inbox
<1>8. CASE Send(t)
  BY <1>1, <1>2, <1>8, ShowQuiet DEF Send, inbox
<1>9. CASE Unlock(t)
  BY <1>1, <1>2, <1>9, GotoQuiet DEF Unlock, inbox
<1>10. CASE Recheck(t)
  BY <1>1, <1>2, <1>10, GotoQuiet, EditQuiet DEF Recheck, inbox
<1>11. CASE ApplyPending(t)
  <2>1. Busy(task[t]) /\ task[t].pc # "advance"
    BY <1>11 DEF ApplyPending, Busy
  <2> QED
    BY <1>2, <1>11, <2>1, GotoQuiet, EditQuiet DEF ApplyPending, inbox
<1>12. CASE Remove(t)
  BY <1>1, <1>2, <1>12, ReturnQuiet DEF Remove, inbox
<1>13. CASE Mark(t)
  BY <1>1, <1>2, <1>13, ReturnQuiet DEF Mark, inbox
<1>14. CASE Line(t)
  BY <1>1, <1>2, <1>14, ReturnQuiet, EditQuiet DEF Line, inbox
<1>15. CASE SaveLine(t)
  BY <1>1, <1>2, <1>15, ReturnQuiet DEF SaveLine, inbox
<1>16. CASE Raise(t)
  <2>1. Busy(task[t]) /\ task[t].pc = "failed" /\ UNCHANGED <<claimed, events, cursor, told>>
    BY <1>16 DEF Raise, At, Busy, inbox
  <2>2. CASE t = "publisher"
    <3>1. task' = [task EXCEPT ![t] = Idle, !["later"] = Ensuring("idle")]
      BY <1>16, <2>2 DEF Raise
    <3> QED
      BY <2>1, <2>2, <3>1, IdleShape, EnsuringAt
         DEF Shape, Quiet, Calm, MayTell, Ahead, Busy, Tasks
  <2>3. CASE t = "delivery"
    <3>1. CASE task[t].ret \in {"activate", "anchor", "reply", "kill"} /\ Return(t, 0)
      BY <2>1, <3>1, ReturnQuiet
    <3>2. CASE Goto(t, "ensure")
      BY <1>2, <2>1, <3>2, GotoQuiet
    <3>3. CASE Goto(t, "advance")
      BY <2>1, <3>3 DEF Goto, Shape, Quiet, Calm, MayTell, Ahead, Busy
    <3>4. CASE task' = [task EXCEPT ![t] = [Idle EXCEPT !.pc = "entry"]]
      BY <2>1, <3>4, IdleAt DEF Shape, Quiet, Calm, MayTell, Ahead, Busy
    <3> QED
      BY <1>16, <2>3, <3>1, <3>2, <3>3, <3>4 DEF Raise
  <2>4. CASE t \notin {"publisher", "delivery"}
    <3>1. task' = [task EXCEPT ![t] = Idle]
      BY <1>16, <2>4 DEF Raise
    <3> QED
      BY <2>1, <3>1, IdleShape DEF Shape, Quiet, Calm, MayTell, Ahead, Busy
  <2> QED
    BY <2>1, <2>2, <2>3, <2>4
<1> QED
  BY <1>3, <1>4, <1>5, <1>6, <1>7, <1>8, <1>9, <1>10, <1>11, <1>12, <1>13, <1>14, <1>15,
     <1>16 DEF CardStep

-----------------------------------------------------------------------------
(* The invariant holds                                                        *)

LEMMA OnceInit == Init => OnceInv
<1> SUFFICES ASSUME Init PROVE OnceInv
  OBVIOUS
<1>1. \A t \in Tasks : task[t] = Idle \/ task[t] = [Idle EXCEPT !.pc = "emit"]
  BY DEF Init
<1>2. DOMAIN task = Tasks /\ task["delivery"] = Idle
  BY DEF Init, Tasks
<1>3. \A n \in Notices : task[n] = Idle
  BY DEF Init, Tasks, Notices
<1>4. Shape
  BY <1>1, <1>2, IdleShape, IdleAt DEF Shape
<1>5. Entries
  BY <1>2, IdleShape DEF Init, Entries, Busy, MayTell, Ahead, Kinds
<1>6. Once
  BY <1>3, <1>2, IdleShape DEF Init, Once, Answers, Delivers, MayTell, Ahead
<1> QED
  BY <1>4, <1>5, <1>6 DEF OnceInv

(* A step that comes closer to no post, claims nothing and moves no cursor;   *)
(* events may be added behind the one at the cursor.                          *)
LEMMA QuietStep ==
  ASSUME OnceInv, Quiet, UNCHANGED <<claimed, cursor, told>>,
         events' = events \/ \E e \in Kinds : events' = Append(events, e)
  PROVE  OnceInv'
<1>1. Shape'
  BY DEF Quiet, Calm, Shape
<1>2. "delivery" \in Tasks /\ Notices \subseteq Tasks
  BY DEF Tasks
<1>3. Calm("delivery") /\ \A n \in Notices : Calm(n)
  BY <1>2 DEF Quiet
<1>4. /\ events' \in Seq(Kinds) /\ cursor' \in Nat
      /\ cursor < Len(events) => cursor' < Len(events') /\ Event' = Event
  BY DEF OnceInv, Entries, Event
<1>5. Entries'
  BY <1>3, <1>4 DEF OnceInv, Entries, Calm, MayTell, Busy
<1>6. \A n \in Notices : (Answers(n)' => Answers(n)) /\ (Delivers(n)' => Delivers(n))
  BY <1>3, <1>4 DEF OnceInv, Entries, Calm, Answers, Delivers, MayTell, Busy, Ahead
<1>7. Once'
  BY <1>6 DEF OnceInv, Once
<1> QED
  BY <1>1, <1>5, <1>7 DEF OnceInv

(* A restart leaves every task idle, or the publisher at its start.           *)
LEMMA RestartQuiet ==
  ASSUME Shape, Restart
  PROVE  Quiet /\ UNCHANGED <<claimed, events, cursor, told>>
<1>1. DOMAIN task' = Tasks
  BY DEF Restart
<1>2. \A t \in Tasks : task'[t] = Idle \/ (task'[t] = [Idle EXCEPT !.pc = "emit"]
                                         /\ t = "publisher")
  BY DEF Restart
<1> QED
  BY <1>1, <1>2, IdleShape, IdleAt DEF Restart, inbox, Quiet, Calm, MayTell, Ahead, Busy

LEMMA SameQuiet == Shape /\ UNCHANGED task => Quiet
BY DEF Shape, Quiet, Calm

(* Claiming: nothing was posted of a notice before its claim.                 *)
LEMMA EntryStep ==
  ASSUME OnceInv, Entry
  PROVE  OnceInv'
<1> DEFINE d == task'["delivery"]
<1>1. /\ ~Busy(task["delivery"]) /\ cursor < Len(events) /\ Event \in Kinds
      /\ UNCHANGED <<events, cursor, told>>
  BY DEF Entry, Busy, OnceInv, Entries, Event
<1>2. Event' = Event
  BY <1>1 DEF Event
<1>3. CASE Taken(Event)
  <2>1. claimed' = claimed /\ Goto("delivery", "advance")
    BY <1>3 DEF Entry
  <2>2. /\ DOMAIN task' = Tasks /\ d.pc = "advance" /\ d.ret # "tell"
        /\ DOMAIN d = {"pc", "id", "text", "line", "ret"}
        /\ \A u \in Tasks \ {"delivery"} : task'[u] = task[u]
    BY <2>1 DEF Goto, OnceInv, Shape, Tasks
  <2> HIDE DEF d
  <2> QED
    BY <1>1, <1>2, <2>1, <2>2
       DEF d, OnceInv, Shape, Entries, Once, Answers, Delivers, MayTell, Busy, Notices, Tasks
<1>4. CASE ~Taken(Event)
  <2> DEFINE lining(line, ret) == [Idle EXCEPT !.pc = "line", !.line = line, !.ret = ret]
  <2>1. claimed' = claimed \cup ({Event} \ {"status"})
    BY <1>4 DEF Entry
  <2>2. \/ Event = "status" /\ task' = [task EXCEPT !["delivery"] = lining("queued", "advance")]
        \/ Event = "filled" /\ task' = [task EXCEPT !["delivery"] = Ensuring("activate")]
        \/ Event = "closed" /\ task' = [task EXCEPT !["delivery"] = [Idle EXCEPT !.pc = "kill"]]
        \/ Event = "over"   /\ task' = [task EXCEPT !["delivery"] = lining("over", "kill")]
    BY <1>1, <1>4 DEF Entry, Kinds, Notices
  <2>3. \A line, ret : /\ DOMAIN lining(line, ret) = {"pc", "id", "text", "line", "ret"}
                       /\ lining(line, ret).pc = "line" /\ lining(line, ret).ret = ret
    BY DEF Idle
  <2> HIDE DEF lining
  <2>4. /\ DOMAIN task' = Tasks
        /\ \A u \in Tasks \ {"delivery"} : task'[u] = task[u]
        /\ DOMAIN d = {"pc", "id", "text", "line", "ret"}
        /\ d.pc \in {"line", "ensure", "kill"} /\ d.ret \in {"advance", "activate", "idle", "kill"}
        /\ Event = "status" => ~MayTell(d)
    BY <2>2, <2>3, IdleAt, EnsuringAt DEF OnceInv, Shape, Tasks, MayTell, Ahead
  <2> HIDE DEF d
  <2>5. Shape'
    BY <2>4 DEF d, OnceInv, Shape, Tasks
  <2>6. Entries'
    BY <1>1, <1>2, <2>1, <2>4 DEF d, OnceInv, Entries, Busy
  <2>7. ~MayTell(task["delivery"])' \/ Event \notin claimed
    BY <1>4, <2>4 DEF d, Taken
  <2>8. \A n \in Notices : Answers(n)' = Answers(n)
    BY <2>4 DEF Answers, Notices, Tasks
  <2>9. \A n \in Notices : Delivers(n)' => n = Event /\ n \notin claimed
    BY <1>2, <1>4 DEF Delivers, Taken
  <2>10. Once'
    BY <1>1, <2>1, <2>8, <2>9 DEF OnceInv, Once
  <2> QED
    BY <2>5, <2>6, <2>10 DEF OnceInv
<1> QED
  BY <1>3, <1>4

(* A step of the delivery that leaves it in d, and may start the put-off      *)
(* reply to the event it was at.                                              *)
LEMMA DeliveryMoves ==
  ASSUME OnceInv, NEW d, MayTell(task["delivery"]), UNCHANGED <<claimed, events, cursor, told>>,
         DOMAIN d = {"pc", "id", "text", "line", "ret"}, d.ret # "tell", d.pc # "answer",
         d.pc = "tell" => d.ret = "advance",
         \/ task' = [task EXCEPT !["delivery"] = d]
         \/ task' = [task EXCEPT !["delivery"] = d, ![Event] = Ensuring("answer")] /\ ~MayTell(d)
  PROVE  OnceInv'
<1>1. cursor < Len(events) /\ Event \in claimed /\ Event' = Event /\ Event \in Kinds
  BY DEF OnceInv, Entries, MayTell, Event
<1>2. /\ DOMAIN task' = Tasks /\ task'["delivery"] = d
      /\ \A u \in Tasks \ {"delivery"} :
            \/ task'[u] = task[u]
            \/ u = Event /\ task'[u] = Ensuring("answer") /\ ~MayTell(d)
  BY <1>1 DEF OnceInv, Shape, Tasks, Kinds, Notices
<1>3. Shape'
  BY <1>2, EnsuringAt DEF OnceInv, Shape
<1>4. Entries'
  BY <1>1, <1>2 DEF OnceInv, Entries
<1>5. \A n \in Notices :
         /\ Delivers(n)' => Delivers(n)
         /\ Answers(n)' => Answers(n) \/ (Delivers(n) /\ ~Delivers(n)')
  BY <1>1, <1>2, EnsuringAt DEF Answers, Delivers, Notices, Tasks
<1>6. Once'
  BY <1>1, <1>5 DEF OnceInv, Once, Delivers
<1> QED
  BY <1>3, <1>4, <1>6 DEF OnceInv

LEMMA DeliveryAhead ==
  ASSUME OnceInv, Activate \/ Kill \/ Reply \/ Anchor
  PROVE  OnceInv'
<1> DEFINE d == task["delivery"]
<1>1. /\ MayTell(d) /\ DOMAIN d = {"pc", "id", "text", "line", "ret"} /\ d.ret # "tell"
      /\ UNCHANGED <<claimed, events, cursor, told>>
  BY DEF Activate, Kill, Reply, Anchor, At, MayTell, Ahead, Busy, OnceInv, Shape, Tasks, inbox
<1>2. ASSUME NEW pc \in {"reply", "advance"}, task' = [task EXCEPT !["delivery"].pc = pc]
      PROVE  OnceInv'
  <2>1. [d EXCEPT !.pc = pc].pc = pc /\ [d EXCEPT !.pc = pc].ret = d.ret
        /\ DOMAIN [d EXCEPT !.pc = pc] = DOMAIN d
    BY <1>1
  <2>2. task' = [task EXCEPT !["delivery"] = [d EXCEPT !.pc = pc]]
    BY <1>2
  <2> HIDE DEF d
  <2> QED
    BY <1>1, <2>1, <2>2, DeliveryMoves DEF d
<1>3. CASE Activate
  <2> DEFINE n == [d EXCEPT !.pc = "line", !.line = "filled", !.ret = "reply"]
  <2>1. task' = [task EXCEPT !["delivery"] = n]
    BY <1>3 DEF Activate, WriteLine
  <2>2. DOMAIN n = {"pc", "id", "text", "line", "ret"} /\ n.pc = "line" /\ n.ret = "reply"
    BY <1>1
  <2> HIDE DEF n
  <2> QED
    BY <1>1, <2>1, <2>2, DeliveryMoves
<1>4. CASE Kill
  BY <1>2, <1>4 DEF Kill, Goto
<1>5. CASE Reply
  <2> DEFINE n(id, pc, ret) == [d EXCEPT !.id = id, !.pc = pc, !.ret = ret]
  <2>1. \/ task' = [task EXCEPT !["delivery"] = n(card.id, "tell", "advance")]
        \/ task' = [task EXCEPT !["delivery"] = n(d.id, "ensure", "anchor")]
    <3>1. CASE task' = [task EXCEPT !["delivery"].id = card.id, !["delivery"].pc = "tell",
                                    !["delivery"].ret = "advance"]
      BY <1>1, <3>1 DEF OnceInv, Shape, Tasks
    <3>2. CASE task' = [task EXCEPT !["delivery"].ret = "anchor", !["delivery"].pc = "ensure"]
      BY <1>1, <3>2 DEF OnceInv, Shape, Tasks
    <3> QED
      BY <1>5, <3>1, <3>2 DEF Reply
  <2>2. \A id, pc, ret : /\ DOMAIN n(id, pc, ret) = {"pc", "id", "text", "line", "ret"}
                         /\ n(id, pc, ret).pc = pc /\ n(id, pc, ret).ret = ret
    BY <1>1
  <2> HIDE DEF n
  <2> QED
    BY <1>1, <2>1, <2>2, DeliveryMoves
<1>6. CASE Anchor
  <2> DEFINE n(pc, ret) == [d EXCEPT !.pc = pc, !.ret = ret]
  <2>1. \/ task' = [task EXCEPT !["delivery"] = n("tell", "advance")]
        \/ task' = [task EXCEPT !["delivery"] = n("advance", d.ret), ![Event] = Ensuring("answer")]
    <3>1. CASE task' = [task EXCEPT !["delivery"].pc = "tell", !["delivery"].ret = "advance"]
      BY <1>1, <3>1 DEF OnceInv, Shape, Tasks
    <3>2. CASE task' = [task EXCEPT !["delivery"].pc = "advance", ![Event] = Ensuring("answer")]
      BY <1>1, <3>2 DEF OnceInv, Shape, Tasks
    <3> QED
      BY <1>6, <3>1, <3>2 DEF Anchor
  <2>2. \A pc, ret : /\ DOMAIN n(pc, ret) = {"pc", "id", "text", "line", "ret"}
                     /\ n(pc, ret).pc = pc /\ n(pc, ret).ret = ret
    BY <1>1
  <2>3. ~MayTell(n("advance", d.ret))
    BY <2>2 DEF MayTell
  <2> HIDE DEF n
  <2> QED
    BY <1>1, <2>1, <2>2, <2>3, DeliveryMoves
<1> QED
  BY <1>3, <1>4, <1>5, <1>6

(* The post: the one that was ahead is made, and none is ahead after it.      *)
LEMMA TellStep == OnceInv /\ Tell => OnceInv'
<1> SUFFICES ASSUME OnceInv, Tell PROVE OnceInv'
  OBVIOUS
<1> DEFINE d == task'["delivery"]
<1>1. /\ task["delivery"].pc = "tell" /\ task["delivery"].ret = "advance"
      /\ MayTell(task["delivery"]) /\ UNCHANGED <<claimed, events, cursor>>
      /\ Goto("delivery", "advance") \/ Goto("delivery", "failed")
      /\ told' = told \/ Telling(Event, task["delivery"].id)
  BY DEF Tell, At, inbox, OnceInv, Entries, MayTell, Busy, Ahead
<1>2. cursor < Len(events) /\ Event \in claimed /\ Event' = Event
  BY <1>1 DEF OnceInv, Entries, MayTell, Event
<1>3. /\ DOMAIN task' = Tasks /\ \A u \in Tasks \ {"delivery"} : task'[u] = task[u]
      /\ DOMAIN d = {"pc", "id", "text", "line", "ret"}
      /\ d.pc \in {"advance", "failed"} /\ d.ret = "advance"
  BY <1>1 DEF Goto, OnceInv, Shape, Tasks
<1>4. ~MayTell(d)
  BY <1>3 DEF MayTell, Ahead
<1> HIDE DEF d
<1>5. Shape'
  BY <1>3 DEF d, OnceInv, Shape
<1>6. Entries'
  BY <1>1, <1>2, <1>3, <1>4 DEF d, OnceInv, Entries
<1>7. \A n \in Notices : ~Delivers(n)' /\ (Answers(n)' <=> Answers(n))
  BY <1>3, <1>4 DEF d, Delivers, Answers, Notices, Tasks
<1>8. /\ DOMAIN told' = Notices
      /\ \A n \in Notices : told'[n] = told[n] \/ (Delivers(n) /\ told'[n] = told[n] + 1)
  BY <1>1 DEF OnceInv, Once, Telling, Delivers
<1>9. Once'
  BY <1>1, <1>2, <1>7, <1>8 DEF OnceInv, Once, Delivers
<1> QED
  BY <1>5, <1>6, <1>9 DEF OnceInv

LEMMA AdvanceStep == OnceInv /\ Advance => OnceInv'
<1> SUFFICES ASSUME OnceInv, Advance PROVE OnceInv'
  OBVIOUS
<1>1. /\ DOMAIN task' = Tasks /\ task'["delivery"] = Idle
      /\ \A u \in Tasks \ {"delivery"} : task'[u] = task[u]
      /\ cursor' = cursor + 1 /\ UNCHANGED <<claimed, events, told>>
  BY DEF Advance, OnceInv, Shape, Tasks
<1>2. ~MayTell(Idle) /\ ~Busy(Idle)
  BY IdleShape DEF MayTell, Busy
<1>3. Shape'
  BY <1>1, IdleShape DEF OnceInv, Shape
<1>4. Entries'
  BY <1>1, <1>2, IdleShape DEF OnceInv, Entries
<1>5. \A n \in Notices : ~Delivers(n)' /\ (Answers(n)' <=> Answers(n))
  BY <1>1, <1>2 DEF Delivers, Answers, Notices, Tasks
<1>6. Once'
  BY <1>1, <1>5 DEF OnceInv, Once
<1> QED
  BY <1>3, <1>4, <1>6 DEF OnceInv

LEMMA AnswerStep == ASSUME OnceInv, NEW n \in Notices, Answer(n) PROVE OnceInv'
<1> DEFINE d == task'[n]
<1>1. /\ task[n].pc = "answer" /\ n \in Tasks \ {"delivery"}
      /\ UNCHANGED <<claimed, events, cursor>>
      /\ told' = told \/ Telling(n, task[n].id)
      /\ WriteLine(n, "filled", "idle") \/ task' = [task EXCEPT ![n] = Idle]
  BY DEF Answer, At, inbox, Notices, Tasks
<1>2. Answers(n)
  BY <1>1 DEF OnceInv, Shape, Answers
<1>3. /\ DOMAIN task' = Tasks /\ \A u \in Tasks \ {n} : task'[u] = task[u]
      /\ DOMAIN d = {"pc", "id", "text", "line", "ret"}
      /\ d.pc \in {"line", "idle"} /\ d.ret = "idle"
  BY <1>1, IdleShape DEF WriteLine, OnceInv, Shape
<1> HIDE DEF d
<1>4. Shape'
  BY <1>3 DEF d, OnceInv, Shape
<1>5. "delivery" \in Tasks \ {n} /\ Notices \subseteq Tasks
  BY <1>1 DEF Tasks, Notices
<1>6. Event' = Event
  BY <1>1 DEF Event
<1>7. Entries'
  BY <1>1, <1>3, <1>5, <1>6 DEF OnceInv, Entries
<1>8. /\ ~Answers(n)'
      /\ \A m \in Notices : Delivers(m)' <=> Delivers(m)
      /\ \A m \in Notices \ {n} : Answers(m)' <=> Answers(m)
  BY <1>3, <1>5, <1>6 DEF d, Answers, Delivers
<1>9. /\ DOMAIN told' = Notices
      /\ told'[n] \in {told[n], told[n] + 1}
      /\ \A m \in Notices \ {n} : told'[m] = told[m]
  BY <1>1 DEF OnceInv, Once, Telling
<1>10. Once'
  BY <1>1, <1>2, <1>8, <1>9 DEF OnceInv, Once
<1> QED
  BY <1>4, <1>7, <1>10 DEF OnceInv

(* What else changes the tasks: nothing comes closer to a post.               *)
LEMMA PublisherQuiet ==
  ASSUME Shape, Emit \/ Publish
  PROVE  Quiet
<1>1. CASE Emit
  BY <1>1 DEF Emit, Goto, At, Shape, Quiet, Calm, MayTell, Busy, Ahead, Tasks
<1>2. CASE Publish
  <2>1. task' = [task EXCEPT !["publisher"] = Ensuring("idle")]
    BY <1>2 DEF Publish
  <2> QED
    BY <2>1, EnsuringAt DEF Shape, Quiet, Calm, MayTell, Busy, Ahead, Tasks
<1> QED
  BY <1>1, <1>2

LEMMA OnceStep == OnceInv /\ [Next]_vars => OnceInv'
<1> SUFFICES ASSUME OnceInv, [Next]_vars PROVE OnceInv'
  OBVIOUS
<1>0. Shape
  BY DEF OnceInv
<1>1. CASE \E t \in Tasks : CardStep(t)
  BY <1>0, <1>1, CardQuiet, QuietStep
<1>2. CASE PublisherStep
  <2>1. /\ UNCHANGED <<claimed, cursor, told>>
        /\ events' = events \/ \E e \in Kinds : events' = Append(events, e)
    BY <1>2 DEF PublisherStep, Emit, Publish, inbox, Kinds
  <2> QED
    BY <1>0, <1>2, <2>1, PublisherQuiet, QuietStep DEF PublisherStep
<1>3. CASE DeliveryStep
  BY <1>3, EntryStep, DeliveryAhead, TellStep, AdvanceStep DEF DeliveryStep
<1>4. CASE \E n \in Notices : Answer(n)
  BY <1>4, AnswerStep
<1>5. CASE LockExpires \/ LockLapses
  <2>1. UNCHANGED <<task, claimed, events, cursor, told>>
    BY <1>5 DEF LockExpires, LockLapses, inbox
  <2> QED
    BY <1>0, <2>1, SameQuiet, QuietStep
<1>6. CASE \E t \in Tasks : SendFails(t)
  <2>1. PICK t \in Tasks : SendFails(t)
    BY <1>6
  <2>2. /\ Busy(task[t]) /\ task[t].pc # "advance" /\ Goto(t, "failheld")
        /\ "failheld" \in Inside /\ UNCHANGED <<claimed, events, cursor, told>>
    BY <2>1 DEF SendFails, At, Busy, inbox, Inside
  <2> QED
    BY <1>0, <2>2, GotoQuiet, QuietStep
<1>7. CASE Restart
  BY <1>0, <1>7, RestartQuiet, QuietStep
<1>8. CASE Env
  <2>1. /\ UNCHANGED <<task, claimed, cursor, told>>
        /\ events' = events \/ \E e \in Kinds : events' = Append(events, e)
    BY <1>8 DEF Env, PlanMoves, SetupEnds, inbox, Kinds, Notices
  <2> QED
    BY <1>0, <2>1, SameQuiet, QuietStep
<1>9. CASE UNCHANGED vars
  <2>1. UNCHANGED <<task, claimed, events, cursor, told>>
    BY <1>9 DEF vars, inbox
  <2> QED
    BY <1>0, <2>1, SameQuiet, QuietStep
<1> QED
  BY <1>1, <1>2, <1>3, <1>4, <1>5, <1>6, <1>7, <1>8, <1>9 DEF Next, Faulty

(* A notice is posted at most once, through retried entries, put-off replies  *)
(* and restarts (the claims of delivery.py).                                  *)
THEOREM NoticesSentOnce == Spec => []NoticeSentOnce
<1>1. OnceInv => NoticeSentOnce
  BY DEF OnceInv, Once, NoticeSentOnce
<1> QED
  BY OnceInit, OnceStep, <1>1, PTL DEF Spec

-----------------------------------------------------------------------------
(* One root. After the setup's end a task posts a root only if it looked      *)
(* before; the tasks that did are counted by the groups that take turns.      *)

Groups == {{"publisher", "later"}, {"filled"}, {"delivery", "closed"}}

\* A maker may still post a root; a writer is about to save the one it knows.
Making  == {"create", "peer", "reserve", "send"}
Writing == {"save", "unlock", "persist", "pending", "resave", "remove", "clear", "painted"}
Holding == {"reserve", "send", "save", "unlock", "failheld"}
Maker(t)   == task[t].pc \in Making
Writer(t)  == task[t].pc \in Writing
Engaged(t) == Maker(t) \/ Writer(t)
Gone(n)    == root[n].at = "gone"

Returns == {"idle", "activate", "reply", "anchor", "kill", "advance", "answer"}

\* What is known of a root is a root, and none is gone before the setup ended.
Known ==
  /\ DOMAIN root = Roots
  /\ \A n \in Roots : /\ DOMAIN root[n] = {"at", "text"}
                      /\ root[n].at \in {"unsent", "posted", "gone"}
  /\ Live(card) => card.id \in Roots /\ root[card.id].at # "unsent"
  /\ \A t \in Tasks :
       /\ task[t].ret \in Returns
       /\ Writer(t) => task[t].id \in Roots /\ root[task[t].id].at # "unsent"
       /\ task[t].pc = "remove" => ended
  /\ ended \in BOOLEAN
  /\ ~ended => \A n \in Roots : ~Gone(n)

\* The retry follows the publisher. The put-off reply to the close follows the
\* last event, and none is put off twice.
Turns ==
  /\ task["publisher"].pc \in {"emit", "publish"} => plan = "none"
  /\ task["later"].pc # "idle" => task["publisher"].pc = "idle"
  /\ \A i \in 1..Len(events) : events[i] = "closed" => i = Len(events) /\ plan = "closed"
  /\ \A n \in Notices : task[n].pc # "idle" => Answers(n) \/ told[n] = 1
  /\ task["closed"].pc # "idle" =>
       /\ plan = "closed"
       /\ \/ task["delivery"].pc = "advance" /\ cursor + 1 = Len(events)
          \/ cursor = Len(events)

Locks == \A t \in Tasks : task[t].pc \in Holding => lock = t

\* A root that is gone was removed by a group that is done with it.
GoneOut ==
  \A m \in Roots : Gone(m) =>
    \E g \in Groups : \A t \in g : ~Maker(t) /\ ~(Writer(t) /\ task[t].id = m)

\* A card whose root is gone meets one maker at most.
Stale ==
  Live(card) /\ Gone(card.id) => \A t, u \in Tasks : Maker(t) /\ Maker(u) => t = u

\* While another root may come, the card or its sender knows the one there is.
Open == ~ended \/ \E t \in Tasks : Maker(t)
Empty == \A n \in Roots : ~Posted(n)

Alone ==
  /\ \A m, n \in Roots : Posted(m) /\ Posted(n) => m = n
  /\ (\E t \in Tasks : task[t].pc \in {"reserve", "send"}) => Empty
  /\ Open => \A n \in Roots : Posted(n) =>
       /\ card.id = n \/ \E t \in Tasks : task[t].pc = "save" /\ task[t].id = n
       /\ \A t \in Tasks : Writer(t) => task[t].id = n

Sole == Locks /\ GoneOut /\ Stale /\ Alone

CardInv == Known /\ Turns /\ (orphaned \/ Sole)

LEMMA TasksAre ==
  /\ Tasks = {"publisher", "later", "delivery", "filled", "closed"}
  /\ Notices \subseteq Tasks
  /\ Making \cap Writing = {} /\ (Making \cup Writing) \cap Returns = {}
  /\ Returns \cap Holding = {}
BY DEF Tasks, Notices, Making, Writing, Returns, Holding

LEMMA RootsAre == 0 \notin Roots
BY DEF Roots

(* Of a group one task at most is engaged.                                    *)
LEMMA OneOfTwo ==
  ASSUME OnceInv, Turns
  PROVE  /\ ~(Engaged("publisher") /\ Engaged("later"))
         /\ ~(Engaged("delivery") /\ Engaged("closed"))
<1>1. ~(Engaged("publisher") /\ Engaged("later"))
  BY DEF Turns, Engaged, Maker, Writer, Making, Writing
<1>2. ASSUME Engaged("closed") PROVE ~Engaged("delivery")
  <2>1. task["delivery"].pc = "advance" \/ ~Busy(task["delivery"])
    BY <1>2 DEF Turns, Engaged, Maker, Writer, Making, Writing, OnceInv, Entries
  <2> QED
    BY <2>1 DEF Busy, Engaged, Maker, Writer, Making, Writing
<1> QED
  BY <1>1, <1>2

\* So three engaged tasks are of three groups.
LEMMA OfEachGroup ==
  ASSUME OnceInv, Turns, NEW t \in Tasks, NEW u \in Tasks, NEW v \in Tasks,
         t # u, u # v, t # v, Engaged(t), Engaged(u), Engaged(v), NEW g \in Groups
  PROVE  t \in g \/ u \in g \/ v \in g
<1>1. /\ ~("publisher" \in {t, u, v} /\ "later" \in {t, u, v})
      /\ ~("delivery" \in {t, u, v} /\ "closed" \in {t, u, v})
  BY OneOfTwo
<1> QED
  BY <1>1 DEF Tasks, Notices, Groups

(* A root that is gone leaves room for two engaged tasks.                     *)
LEMMA NoRoom ==
  ASSUME OnceInv, Turns, GoneOut, NEW m \in Roots, Gone(m),
         NEW t \in Tasks, NEW u \in Tasks, NEW v \in Tasks, t # u, Maker(t), Maker(u),
         Writer(v), task[v].id = m
  PROVE  FALSE
<1>1. t # v /\ u # v
  BY TasksAre DEF Maker, Writer
<1>2. PICK g \in Groups : \A x \in g : ~Maker(x) /\ ~(Writer(x) /\ task[x].id = m)
  BY DEF GoneOut
<1>3. t \in g \/ u \in g \/ v \in g
  BY <1>1, OfEachGroup DEF Engaged
<1> QED
  BY <1>2, <1>3

-----------------------------------------------------------------------------
(* What a step does to a task.                                                *)

\* A task becomes a maker from a maker, or before the end; what it knows of a
\* root it had, or took from the card.
Mild(u) ==
  LET old == task[u]  new == task'[u] IN
  /\ new.ret \in Returns /\ (new.pc = "remove" => ended)
  /\ new.pc \in Making => old.pc \in Making \/ ~ended
  /\ new.pc \in Writing =>
       \/ old.pc \in Writing /\ new.id = old.id
       \/ /\ Live(card) /\ new.id = card.id
          /\ old.pc \in Making \/ ~ended \/ (new.pc = "painted" /\ Posted(card.id))
  /\ old.pc = "save" => (new.pc = "save" /\ new.id = old.id) \/ card'.id = old.id

SameRoots ==
  /\ DOMAIN root' = Roots
  /\ \A n \in Roots : DOMAIN root'[n] = {"at", "text"} /\ root'[n].at = root[n].at

CardFrom ==
  \/ card'.id = card.id
  \/ \E t \in Tasks : Writer(t) /\ card'.id = task[t].id
  \/ card'.id = 0 /\ (Empty \/ ~Open')

LEMMA KnownStep ==
  ASSUME Known, \A u \in Tasks : Mild(u), SameRoots, ended' = ended,
         card'.id = 0 \/ CardFrom
  PROVE  Known'
<1>1. Live(card)' => card'.id \in Roots /\ root'[card'.id].at # "unsent"
  BY RootsAre DEF Known, SameRoots, CardFrom, Live
<1>2. ASSUME NEW t \in Tasks
      PROVE  /\ task'[t].ret \in Returns
             /\ Writer(t)' => task'[t].id \in Roots /\ root'[task'[t].id].at # "unsent"
             /\ task'[t].pc = "remove" => ended
  <2>1. Mild(t)
    OBVIOUS
  <2> QED
    BY <2>1 DEF Known, SameRoots, Mild, Writer
<1> QED
  BY <1>1, <1>2 DEF Known, SameRoots, Gone

LEMMA SoleStep ==
  ASSUME OnceInv, Known, Turns, Sole, \A u \in Tasks : Mild(u), SameRoots, ended' = ended,
         CardFrom, Locks',
         (\E t \in Tasks : task'[t].pc \in {"reserve", "send"}) => Empty
  PROVE  Sole'
<1>1. \A n \in Roots : (Posted(n)' <=> Posted(n)) /\ (Gone(n)' <=> Gone(n))
  BY DEF SameRoots, Posted, Gone
<1>2. \A t \in Tasks : ended /\ Maker(t)' => Maker(t)
  BY DEF Mild, Maker
<1>3. Open' => Open
  BY <1>2 DEF Open
<1>4. \A n \in Roots : Gone(n) => ended
  BY DEF Known
<1>5. GoneOut'
  <2> SUFFICES ASSUME NEW m \in Roots, Gone(m)
               PROVE  \E g \in Groups : \A t \in g :
                        ~Maker(t)' /\ ~(Writer(t)' /\ task'[t].id = m)
    BY <1>1 DEF GoneOut
  <2>1. PICK g \in Groups : \A t \in g : ~Maker(t) /\ ~(Writer(t) /\ task[t].id = m)
    BY DEF Sole, GoneOut
  <2>2. ASSUME NEW t \in g PROVE ~Maker(t)' /\ ~(Writer(t)' /\ task'[t].id = m)
    <3>1. t \in Tasks
      BY DEF Groups, Tasks, Notices
    <3>2. Mild(t) /\ ~Maker(t) /\ ~(Writer(t) /\ task[t].id = m) /\ ended /\ ~Posted(m)
      BY <1>4, <2>1, <3>1 DEF Gone, Posted
    <3> QED
      BY <3>2 DEF Mild, Maker, Writer
  <2> QED
    BY <2>2
<1>6. Stale'
  <2> SUFFICES ASSUME Live(card)', Gone(card.id)', NEW t \in Tasks, NEW u \in Tasks,
                      Maker(t)', Maker(u)', t # u
               PROVE  FALSE
    BY DEF Stale
  <2>0. card'.id \in Roots
    BY RootsAre DEF Known, CardFrom, Live, Sole
  <2>1. Gone(card'.id) /\ ended
    BY <1>1, <1>4, <2>0
  <2>2. Maker(t) /\ Maker(u)
    BY <1>2, <2>1
  <2>3. CASE card'.id = card.id
    BY <2>1, <2>2, <2>3 DEF Sole, Stale, Live
  <2>4. CASE \E v \in Tasks : Writer(v) /\ card'.id = task[v].id
    BY <2>0, <2>1, <2>2, <2>4, NoRoom DEF Sole
  <2> QED
    BY <2>3, <2>4 DEF CardFrom, Live
<1>7. ASSUME Open', NEW n \in Roots, Posted(n)
      PROVE  /\ card'.id = n \/ \E t \in Tasks : task'[t].pc = "save" /\ task'[t].id = n
             /\ \A t \in Tasks : Writer(t)' => task'[t].id = n
  <2>1. /\ card.id = n \/ \E t \in Tasks : task[t].pc = "save" /\ task[t].id = n
        /\ \A t \in Tasks : Writer(t) => task[t].id = n
    BY <1>3, <1>7 DEF Sole, Alone
  <2>2. card'.id = n \/ \E t \in Tasks : task'[t].pc = "save" /\ task'[t].id = n
    <3>1. CASE card'.id = card.id
      <4>1. ASSUME NEW t \in Tasks, task[t].pc = "save", task[t].id = n
            PROVE  (task'[t].pc = "save" /\ task'[t].id = n) \/ card'.id = n
        BY <4>1 DEF Mild
      <4> QED
        BY <2>1, <3>1, <4>1
    <3>2. CASE \E t \in Tasks : Writer(t) /\ card'.id = task[t].id
      BY <2>1, <3>2
    <3> QED
      BY <1>7, <3>1, <3>2 DEF CardFrom, Empty
  <2>3. ASSUME NEW t \in Tasks, Writer(t)' PROVE task'[t].id = n
    <3>1. Mild(t) /\ task'[t].pc \in Writing
      BY <2>3 DEF Writer
    <3>2. CASE task[t].pc \in Writing /\ task'[t].id = task[t].id
      BY <2>1, <3>2 DEF Writer
    <3>3. CASE /\ Live(card) /\ task'[t].id = card.id /\ card.id # n
               /\ task[t].pc \in Making \/ ~ended \/ Posted(card.id)
      <4>1. card.id \in Roots /\ root[card.id].at \in {"posted", "gone"}
        BY <3>3 DEF Known
      <4>2. ~Posted(card.id)
        BY <1>7, <3>3, <4>1 DEF Sole, Alone
      <4>3. Gone(card.id)
        BY <4>1, <4>2 DEF Posted, Gone
      <4>4. ended /\ Maker(t)
        BY <1>4, <3>3, <4>1, <4>2, <4>3 DEF Maker
      <4>5. PICK u \in Tasks : Maker(u)'
        BY <1>7, <4>4 DEF Open
      <4>6. Maker(u) /\ u # t
        BY <1>2, <2>3, <4>4, <4>5, TasksAre DEF Maker, Writer
      <4> QED
        BY <3>3, <4>3, <4>4, <4>6 DEF Sole, Stale
    <3> QED
      BY <3>1, <3>2, <3>3 DEF Mild
  <2> QED
    BY <2>2, <2>3
<1>8. Alone'
  <2>1. \A m, n \in Roots : Posted(m)' /\ Posted(n)' => m = n
    BY <1>1 DEF Sole, Alone
  <2>2. Empty' <=> Empty
    BY <1>1 DEF Empty
  <2> QED
    BY <1>1, <1>7, <2>1, <2>2 DEF Alone
<1> QED
  BY <1>5, <1>6, <1>8 DEF Sole

-----------------------------------------------------------------------------
(* The records a step of the card's subroutine leaves.                        *)

Rest(t) == \A u \in Tasks : u # t => task'[u] = task[u]

LEMMA GotoIs ==
  ASSUME Shape, NEW t \in Tasks, NEW pc, Goto(t, pc)
  PROVE  Rest(t) /\ task'[t].pc = pc /\ task'[t].id = task[t].id /\ task'[t].ret = task[t].ret
BY DEF Shape, Goto, Rest

LEMMA ShowIs ==
  ASSUME Shape, NEW t \in Tasks, NEW id, NEW text, NEW pc, Show(t, id, text, pc)
  PROVE  Rest(t) /\ task'[t].pc = pc /\ task'[t].id = id /\ task'[t].ret = task[t].ret
BY DEF Shape, Show, Rest

LEMMA ReturnIs ==
  ASSUME Shape, NEW t \in Tasks, NEW id, Return(t, id)
  PROVE  Rest(t) /\ task'[t].pc = task[t].ret /\ task'[t].ret = task[t].ret
<1>1. CASE task[t].ret = "idle"
  <2>1. task' = [task EXCEPT ![t] = Idle]
    BY <1>1 DEF Return
  <2> QED
    BY <1>1, <2>1, IdleShape DEF Shape, Rest
<1>2. CASE task[t].ret # "idle"
  <2> DEFINE i == [Idle EXCEPT !.pc = task[t].ret, !.id = id, !.ret = task[t].ret]
  <2>1. task' = [task EXCEPT ![t] = i]
    BY <1>2 DEF Return
  <2>2. i.pc = task[t].ret /\ i.ret = task[t].ret
    BY IdleFrom
  <2> HIDE DEF i
  <2> QED
    BY <2>1, <2>2 DEF Shape, Rest
<1> QED
  BY <1>1, <1>2

LEMMA StillRoots == Known /\ root' = root => SameRoots
BY DEF Known, SameRoots

(* An edit changes the text of a root that is there.                          *)
LEMMA EditIs ==
  ASSUME Shape, Known, NEW t \in Tasks, NEW id \in Roots, NEW text, NEW done, NEW gone,
         NEW fail, EditRoot(t, id, text, done, gone, fail)
  PROVE  /\ SameRoots /\ Rest(t) /\ task'[t].id = id /\ task'[t].ret = task[t].ret
         /\ task'[t].pc \in {done, gone, fail}
         /\ task'[t].pc \notin {gone, fail} => Posted(id)
         /\ task'[t].pc \notin {done, fail} => ~Posted(id)
<1>1. ASSUME Put(id, text), Posted(id) PROVE SameRoots
  BY <1>1 DEF Known, Put, Posted, SameRoots
<1>2. SameRoots
  BY <1>1, StillRoots DEF EditRoot
<1> QED
  BY <1>2, ShowIs DEF EditRoot

LEMMA MatchIs ==
  ASSUME Shape, Known, NEW t \in Tasks, Live(card), NEW text, NEW same, NEW done, NEW gone,
         NEW fail, Match(t, text, same, done, gone, fail)
  PROVE  /\ SameRoots /\ Rest(t) /\ task'[t].id = card.id /\ task'[t].ret = task[t].ret
         /\ task'[t].pc \in {same, done, gone, fail}
         /\ task'[t].pc \notin {same, done, fail} => ~Posted(card.id)
<1>1. card.id \in Roots
  BY DEF Known
<1>2. CASE root' = root /\ Show(t, card.id, text, same)
  BY <1>2, ShowIs, StillRoots
<1>3. CASE EditRoot(t, card.id, text, done, gone, fail)
  BY <1>1, <1>3, EditIs
<1> QED
  BY <1>2, <1>3 DEF Match, Silent

-----------------------------------------------------------------------------
(* Steps that post no root and remove none.                                   *)

LEMMA RestMild ==
  ASSUME Known, NEW t \in Tasks, Rest(t), Mild(t)
  PROVE  \A u \in Tasks : Mild(u)
<1>1. ASSUME NEW u \in Tasks, task'[u] = task[u] PROVE Mild(u)
  BY <1>1 DEF Known, Mild
<1> QED
  BY <1>1 DEF Rest

LEMMA OutMild ==
  ASSUME NEW t \in Tasks, task'[t].pc \notin Making \cup Writing, task'[t].ret \in Returns,
         task[t].pc # "save"
  PROVE  Mild(t)
BY DEF Mild, Writing

LEMMA CardMoves ==
  ASSUME OnceInv, CardInv, \A u \in Tasks : Mild(u), SameRoots, UNCHANGED <<ended, orphaned>>,
         card'.id = 0 \/ CardFrom,
         Sole => /\ CardFrom /\ Locks'
                 /\ (\E t \in Tasks : task'[t].pc \in {"reserve", "send"}) => Empty
  PROVE  Known' /\ (orphaned' \/ Sole')
<1>1. Known'
  BY KnownStep DEF CardInv
<1>2. Sole => Sole'
  BY SoleStep DEF CardInv
<1> QED
  BY <1>1, <1>2 DEF CardInv

LEMMA TaskMoves ==
  ASSUME OnceInv, CardInv, NEW t \in Tasks, Rest(t), Mild(t), SameRoots,
         UNCHANGED <<ended, orphaned, lock>>, CardFrom,
         task'[t].pc \in Holding => task[t].pc \in Holding,
         task'[t].pc \in {"reserve", "send"} => task[t].pc \in {"reserve", "send"}
  PROVE  Known' /\ (orphaned' \/ Sole')
<1>1. \A u \in Tasks : Mild(u)
  BY RestMild DEF CardInv
<1>2. ASSUME Sole
      PROVE  /\ Locks'
             /\ (\E u \in Tasks : task'[u].pc \in {"reserve", "send"}) => Empty
  <2>1. \A u \in Tasks : /\ task'[u].pc \in Holding => task[u].pc \in Holding
                         /\ task'[u].pc \in {"reserve", "send"} => task[u].pc \in {"reserve", "send"}
    BY DEF Rest
  <2> QED
    BY <1>2, <2>1 DEF Sole, Locks, Alone
<1> QED
  BY <1>1, <1>2, CardMoves

\* Most of them leave the card alone and the task outside.
LEMMA TaskLeaves ==
  ASSUME OnceInv, CardInv, NEW t \in Tasks, Rest(t), SameRoots,
         UNCHANGED <<ended, orphaned, lock>>, CardFrom,
         task'[t].pc \notin Making \cup Writing \cup Holding, task'[t].ret \in Returns,
         task[t].pc # "save"
  PROVE  Known' /\ (orphaned' \/ Sole')
BY OutMild, TaskMoves DEF Making

(* The steps of the card's subroutine one by one.                             *)
Ordinary(t) ==
  \/ Ensure(t) \/ Post(t) \/ Recheck(t) \/ ApplyPending(t) \/ Mark(t) \/ Line(t)
  \/ SaveLine(t) \/ Raise(t)

LEMMA Plainly ==
  /\ {"post", "failed", "mark", "unpainted", "ensure", "advance", "entry", "idle"}
        \cap (Making \cup Writing \cup Holding) = {}
  /\ {"persist", "pending", "resave", "remove", "clear", "painted"} \subseteq Writing
  /\ {"persist", "pending", "resave", "remove", "clear", "painted", "create", "peer"}
        \cap Holding = {}
  /\ {"create", "peer", "reserve", "send"} \subseteq Making
  /\ {"unlock", "save"} \subseteq Writing /\ "failheld" \notin Making \cup Writing
BY DEF Making, Writing, Holding

LEMMA ReturnSole ==
  ASSUME OnceInv, CardInv, NEW t \in Tasks, NEW id, Return(t, id), SameRoots,
         UNCHANGED <<ended, orphaned, lock>>, CardFrom, task[t].pc # "save"
  PROVE  Known' /\ (orphaned' \/ Sole')
<1>1. Rest(t) /\ task'[t].pc = task[t].ret /\ task'[t].ret = task[t].ret
  BY ReturnIs DEF OnceInv
<1>2. task[t].ret \in Returns
  BY DEF CardInv, Known
<1> QED
  BY <1>1, <1>2, TasksAre, TaskLeaves

LEMMA EnsureSole ==
  ASSUME OnceInv, CardInv, NEW t \in Tasks, Ensure(t)
  PROVE  Known' /\ (orphaned' \/ Sole')
<1>1. /\ SameRoots /\ CardFrom /\ UNCHANGED <<ended, orphaned, lock>> /\ task[t].pc # "save"
      /\ task[t].ret \in Returns
  BY StillRoots DEF Ensure, At, keys, world, CardFrom, CardInv, Known
<1>2. CASE Return(t, card.id)
  BY <1>1, <1>2, ReturnSole
<1>3. CASE Show(t, 0, Published, "post")
  <2>1. Rest(t) /\ task'[t].pc = "post" /\ task'[t].ret = task[t].ret
    BY <1>3, ShowIs DEF OnceInv
  <2> QED
    BY <1>1, <2>1, Plainly, TaskLeaves
<1> QED
  BY <1>2, <1>3 DEF Ensure

LEMMA PostSole ==
  ASSUME OnceInv, CardInv, NEW t \in Tasks, Post(t)
  PROVE  Known' /\ (orphaned' \/ Sole')
<1> DEFINE text == Applied(task[t].text, status)
<1>1. /\ CardFrom /\ UNCHANGED <<ended, orphaned, lock>> /\ task[t].pc = "post"
      /\ task[t].ret \in Returns
  BY DEF Post, At, keys, CardFrom, CardInv, Known
<1>2. CASE Silent /\ Return(t, 0)
  <2>1. SameRoots
    BY <1>2, StillRoots DEF Silent, CardInv
  <2> QED
    BY <1>1, <1>2, <2>1, ReturnSole
<1>3. CASE ~ended /\ Live(card) /\ Match(t, text, "persist", "persist", "create", "failed")
  <2>1. /\ SameRoots /\ Rest(t) /\ task'[t].id = card.id /\ task'[t].ret = task[t].ret
        /\ task'[t].pc \in {"persist", "create", "failed"}
    BY <1>3, MatchIs DEF OnceInv, CardInv
  <2>2. Mild(t)
    BY <1>1, <1>3, <2>1 DEF Mild
  <2> QED
    BY <1>1, <2>1, <2>2, Plainly, TaskMoves
<1>4. CASE ~ended /\ Silent /\ Show(t, 0, text, "create")
  <2>1. SameRoots /\ Rest(t) /\ task'[t].pc = "create" /\ task'[t].ret = task[t].ret
    BY <1>4, ShowIs, StillRoots DEF Silent, OnceInv, CardInv
  <2>2. Mild(t)
    BY <1>1, <1>4, <2>1, Plainly, TasksAre DEF Mild
  <2> QED
    BY <1>1, <2>1, <2>2, Plainly, TaskMoves
<1> QED
  BY <1>2, <1>3, <1>4 DEF Post

LEMMA RecheckSole ==
  ASSUME OnceInv, CardInv, NEW t \in Tasks, Recheck(t) \/ ApplyPending(t)
  PROVE  Known' /\ (orphaned' \/ Sole')
<1> DEFINE id == task[t].id
<1>1. /\ UNCHANGED <<ended, orphaned, lock>> /\ task[t].pc \in {"persist", "pending", "resave"}
      /\ card'.id = card.id \/ card'.id = id
  BY DEF Recheck, ApplyPending, At, Card
<1>2. Writer(t) /\ id \in Roots /\ task[t].ret \in Returns /\ CardFrom
  BY <1>1, Plainly DEF Writer, CardInv, Known, CardFrom
<1>3. ASSUME NEW pc \in {"remove", "pending", "mark"}, Goto(t, pc), Silent,
             pc = "remove" => ended
      PROVE  Known' /\ (orphaned' \/ Sole')
  <2>1. /\ SameRoots /\ Rest(t) /\ task'[t].pc = pc /\ task'[t].id = id
        /\ task'[t].ret = task[t].ret
    BY <1>3, GotoIs, StillRoots DEF Silent, OnceInv, CardInv
  <2>2. Mild(t)
    BY <1>1, <1>2, <1>3, <2>1, Plainly DEF Mild, Writer, Making
  <2> QED
    BY <1>1, <1>2, <1>3, <2>1, <2>2, Plainly, TaskMoves
<1>4. ASSUME NEW pc \in {"resave", "clear"}, NEW text, EditRoot(t, id, text, pc, pc, "failed")
      PROVE  Known' /\ (orphaned' \/ Sole')
  <2>1. /\ SameRoots /\ Rest(t) /\ task'[t].id = id /\ task'[t].ret = task[t].ret
        /\ task'[t].pc \in {pc, "failed"}
    BY <1>2, <1>4, EditIs DEF OnceInv, CardInv
  <2>2. Mild(t)
    BY <1>1, <1>2, <2>1, Plainly DEF Mild, Writer, Making
  <2> QED
    BY <1>1, <1>2, <2>1, <2>2, Plainly, TaskMoves
<1> QED
  BY <1>3, <1>4 DEF Recheck, ApplyPending

LEMMA MarkSole ==
  ASSUME OnceInv, CardInv, NEW t \in Tasks, Mark(t) \/ SaveLine(t)
  PROVE  Known' /\ (orphaned' \/ Sole')
<1>1. /\ UNCHANGED <<ended, orphaned, lock>> /\ task[t].pc # "save" /\ Return(t, task[t].id)
      /\ root' = root
      /\ card'.id = card.id \/ (task[t].pc \in {"clear", "painted"} /\ card'.id = task[t].id)
  BY DEF Mark, SaveLine, At, Card, world
<1>2. SameRoots /\ CardFrom
  BY <1>1, StillRoots, Plainly DEF CardFrom, CardInv, Writer
<1> QED
  BY <1>1, <1>2, ReturnSole

LEMMA LineSole ==
  ASSUME OnceInv, CardInv, NEW t \in Tasks, Line(t)
  PROVE  Known' /\ (orphaned' \/ Sole')
<1>1. /\ CardFrom /\ UNCHANGED <<ended, orphaned, lock>> /\ task[t].pc = "line"
      /\ task[t].ret \in Returns
  BY DEF Line, At, CardFrom, CardInv, Known
<1>2. CASE Silent /\ Return(t, 0)
  <2>1. SameRoots
    BY <1>2, StillRoots DEF Silent, CardInv
  <2> QED
    BY <1>1, <1>2, <2>1, ReturnSole
<1>3. ASSUME NEW text, Live(card), EditRoot(t, card.id, text, "painted", "unpainted", "failed")
      PROVE  Known' /\ (orphaned' \/ Sole')
  <2>1. /\ SameRoots /\ Rest(t) /\ task'[t].id = card.id /\ task'[t].ret = task[t].ret
        /\ task'[t].pc \in {"painted", "unpainted", "failed"}
        /\ task'[t].pc = "painted" => Posted(card.id)
    BY <1>3, EditIs DEF OnceInv, CardInv, Known
  <2>2. Mild(t)
    BY <1>1, <1>3, <2>1, Plainly DEF Mild, Making
  <2> QED
    BY <1>1, <2>1, <2>2, Plainly, TaskMoves DEF Making
<1> QED
  BY <1>2, <1>3 DEF Line

LEMMA SetLeaves ==
  ASSUME OnceInv, CardInv, NEW t \in Tasks, NEW r, task' = [task EXCEPT ![t] = r],
         r.pc \notin Making \cup Writing \cup Holding, r.ret \in Returns, SameRoots,
         UNCHANGED <<ended, orphaned, lock>>, CardFrom, task[t].pc # "save"
  PROVE  Known' /\ (orphaned' \/ Sole')
<1>1. Rest(t) /\ task'[t].pc = r.pc /\ task'[t].ret = r.ret
  BY DEF Rest, OnceInv, Shape
<1> QED
  BY <1>1, TaskLeaves

LEMMA RaiseSole ==
  ASSUME OnceInv, CardInv, NEW t \in Tasks, Raise(t)
  PROVE  Known' /\ (orphaned' \/ Sole')
<1>1. /\ CardFrom /\ UNCHANGED <<ended, orphaned, lock>> /\ task[t].pc = "failed" /\ SameRoots
      /\ task[t].ret \in Returns
  BY StillRoots DEF Raise, At, keys, world, CardFrom, CardInv, Known
<1>2. CASE t = "publisher"
  <2>1. task' = [task EXCEPT ![t] = Idle, !["later"] = Ensuring("idle")]
    BY <1>2 DEF Raise
  <2>2. task["later"].pc = "idle" \/ task["publisher"].pc = "idle"
    BY DEF CardInv, Turns
  <2>3. /\ task'["publisher"] = Idle /\ task'["later"] = Ensuring("idle")
        /\ \A u \in Tasks \ {"publisher", "later"} : task'[u] = task[u]
    BY <1>2, <2>1 DEF OnceInv, Shape, Tasks
  <2>4. Idle.pc = "idle" /\ Idle.ret = "idle"
    BY DEF Idle
  <2>5. Ensuring("idle").pc = "ensure" /\ Ensuring("idle").ret = "idle"
    BY EnsuringAt
  <2>6. "publisher" \in Tasks /\ "later" \in Tasks /\ "idle" \in Returns
    BY DEF Tasks, Returns
  <2>7. Mild("publisher") /\ Mild("later")
    BY <1>1, <1>2, <2>2, <2>3, <2>4, <2>5, <2>6, Plainly, OutMild
  <2>8. \A u \in Tasks \ {"publisher", "later"} : Mild(u)
    BY <2>3 DEF CardInv, Known, Mild
  <2>9. \A u \in Tasks : Mild(u)
    BY <2>7, <2>8
  <2>10. \A u \in Tasks : task'[u].pc \in Making \cup Holding => task'[u] = task[u]
    BY <2>3, <2>4, <2>5, Plainly
  <2>11. Sole => Locks' /\ ((\E u \in Tasks : task'[u].pc \in {"reserve", "send"}) => Empty)
    BY <1>1, <2>10 DEF Sole, Locks, Alone, Making
  <2> QED
    BY <1>1, <2>9, <2>11, CardMoves
<1>3. CASE t = "delivery" /\ Return(t, 0)
  BY <1>1, <1>3, ReturnSole
<1>4. CASE \E pc \in {"ensure", "advance"} : Goto(t, pc)
  <2>1. PICK pc \in {"ensure", "advance"} : Goto(t, pc)
    BY <1>4
  <2>2. Rest(t) /\ task'[t].pc = pc /\ task'[t].ret = task[t].ret
    BY <2>1, GotoIs DEF OnceInv
  <2> QED
    BY <1>1, <2>2, Plainly, TaskLeaves
<1>5. CASE task' = [task EXCEPT ![t] = [Idle EXCEPT !.pc = "entry"]]
  <2> DEFINE r == [Idle EXCEPT !.pc = "entry"]
  <2>1. r.pc = "entry" /\ r.ret = "idle"
    BY IdleAt
  <2>2. task' = [task EXCEPT ![t] = r]
    BY <1>5
  <2> HIDE DEF r
  <2> QED
    BY <1>1, <2>1, <2>2, Plainly, SetLeaves DEF Returns
<1>6. CASE task' = [task EXCEPT ![t] = Idle]
  BY <1>1, <1>6, IdleShape, Plainly, SetLeaves DEF Returns
<1> QED
  BY <1>2, <1>3, <1>4, <1>5, <1>6 DEF Raise

(* The create lock. Its winner finds no other holder, so that whatever root   *)
(* there is, the card knows it.                                               *)
LEMMA ClaimSole ==
  ASSUME OnceInv, CardInv, NEW t \in Tasks, Claim(t), task[t].pc \in {"create", "peer"},
         UNCHANGED <<card, ended, orphaned>>
  PROVE  Known' /\ (orphaned' \/ Sole')
<1>1. /\ SameRoots /\ Rest(t) /\ task'[t].ret = task[t].ret
      /\ task'[t].pc \in {"unlock", "reserve", "failheld"}
      /\ task'[t].pc = "unlock" => Live(card) /\ task'[t].id = card.id
      /\ task'[t].pc = "reserve" => ~Live(card) \/ ~Posted(card.id)
  <2>1. CASE Live(card) /\ Match(t, task[t].text, "unlock", "unlock", "reserve", "failheld")
    BY <2>1, MatchIs DEF OnceInv, CardInv
  <2>2. CASE ~Live(card) /\ Silent /\ Goto(t, "reserve")
    BY <2>2, GotoIs, StillRoots DEF OnceInv, CardInv, Silent
  <2> QED
    BY <2>1, <2>2 DEF Claim
<1>2. lock = "free" /\ lock' = t /\ "free" \notin Tasks
  BY DEF Claim, Tasks, Notices
<1>3. Maker(t)
  BY DEF Maker, Making
<1>4. Mild(t)
  BY <1>1, <1>3, Plainly, TasksAre DEF Mild, Maker, CardInv, Known
<1>5. \A u \in Tasks : Mild(u)
  BY <1>1, <1>4, RestMild DEF CardInv
<1>6. CardFrom
  BY DEF CardFrom
<1>7. ASSUME Sole
      PROVE  Locks' /\ ((\E u \in Tasks : task'[u].pc \in {"reserve", "send"}) => Empty)
  <2>1. \A u \in Tasks : task[u].pc \notin Holding
    BY <1>2, <1>7 DEF Sole, Locks
  <2>2. Locks'
    BY <1>1, <1>2, <2>1 DEF Rest, Locks
  <2>3. ASSUME NEW u \in Tasks, task'[u].pc \in {"reserve", "send"} PROVE Empty
    <3>1. u = t /\ task'[t].pc = "reserve"
      BY <1>1, <2>1, <2>3 DEF Rest, Holding
    <3>2. ASSUME NEW n \in Roots, Posted(n) PROVE FALSE
      <4>1. card.id = n
        BY <1>3, <1>7, <2>1, <3>2 DEF Sole, Alone, Open, Holding
      <4> QED
        BY <1>1, <3>1, <3>2, <4>1, RootsAre DEF Live
    <3> QED
      BY <3>2 DEF Empty
  <2> QED
    BY <2>2, <2>3
<1> QED
  BY <1>1, <1>5, <1>6, <1>7, CardMoves

LEMMA CreateSole ==
  ASSUME OnceInv, CardInv, NEW t \in Tasks, Create(t) \/ Peer(t)
  PROVE  Known' /\ (orphaned' \/ Sole')
<1>1. /\ task[t].pc \in {"create", "peer"} /\ UNCHANGED <<card, ended, orphaned>> /\ CardFrom
      /\ task[t].ret \in Returns
  BY DEF Create, Peer, At, keys, CardFrom, CardInv, Known
<1>2. CASE Claim(t)
  BY <1>1, <1>2, ClaimSole
<1>3. CASE lock' = lock /\ Silent /\ Goto(t, "peer")
  <2>1. SameRoots /\ Rest(t) /\ task'[t].pc = "peer" /\ task'[t].ret = task[t].ret
    BY <1>3, GotoIs, StillRoots DEF Silent, OnceInv, CardInv
  <2>2. Mild(t)
    BY <1>1, <2>1, Plainly, TasksAre DEF Mild, Making
  <2> QED
    BY <1>1, <1>3, <2>1, <2>2, Plainly, TaskMoves
<1>4. CASE /\ Live(card) /\ lock' = lock
           /\ Match(t, task[t].text, "persist", "persist", "create", "failed")
  <2>1. /\ SameRoots /\ Rest(t) /\ task'[t].id = card.id /\ task'[t].ret = task[t].ret
        /\ task'[t].pc \in {"persist", "create", "failed"}
    BY <1>4, MatchIs DEF OnceInv, CardInv
  <2>2. Mild(t)
    BY <1>1, <1>4, <2>1, Plainly DEF Mild, Making
  <2> QED
    BY <1>1, <1>4, <2>1, <2>2, Plainly, TaskMoves
<1>5. CASE lock' = lock /\ Silent /\ Return(t, 0)
  <2>1. SameRoots
    BY <1>5, StillRoots DEF Silent, CardInv
  <2> QED
    BY <1>1, <1>5, <2>1, ReturnSole
<1> QED
  BY <1>2, <1>3, <1>4, <1>5 DEF Create, Peer

(* A reservation hides no root: there is none.                                *)
LEMMA ReserveSole ==
  ASSUME OnceInv, CardInv, NEW t \in Tasks, Reserve(t)
  PROVE  Known' /\ (orphaned' \/ Sole')
<1>1. /\ task[t].pc = "reserve" /\ UNCHANGED <<lock, root, ended, orphaned>> /\ card'.id = 0
      /\ task[t].ret \in Returns
  BY DEF Reserve, At, Card, world, CardInv, Known
<1>2. Rest(t) /\ task'[t].pc = "send" /\ task'[t].ret = task[t].ret /\ SameRoots
  BY <1>1, GotoIs, StillRoots DEF Reserve, OnceInv, CardInv
<1>3. Mild(t)
  BY <1>1, <1>2, Plainly, TasksAre DEF Mild, Making
<1>4. \A u \in Tasks : Mild(u)
  BY <1>2, <1>3, RestMild DEF CardInv
<1>5. Sole => CardFrom /\ Locks' /\ Empty
  <2>1. Sole => Empty
    BY <1>1 DEF Sole, Alone
  <2>2. \A u \in Tasks : task'[u].pc \in Holding => task[u].pc \in Holding
    BY <1>1, <1>2 DEF Rest, Holding
  <2> QED
    BY <1>1, <2>1, <2>2 DEF CardFrom, Sole, Locks
<1> QED
  BY <1>1, <1>2, <1>4, <1>5, CardMoves

\* The holder's lock is its own, so that it frees nobody else's.
LEMMA UnlockSole ==
  ASSUME OnceInv, CardInv, NEW t \in Tasks, Unlock(t)
  PROVE  Known' /\ (orphaned' \/ Sole')
<1>1. /\ task[t].pc \in {"save", "unlock", "failheld"}
      /\ UNCHANGED <<root, ended, orphaned>> /\ lock' = "free" /\ task[t].ret \in Returns
      /\ card'.id = card.id \/ (task[t].pc = "save" /\ card'.id = task[t].id)
      /\ task[t].pc = "save" => card'.id = task[t].id
      /\ \/ task[t].pc \in {"save", "unlock"} /\ Goto(t, "persist")
         \/ task[t].pc = "failheld" /\ Goto(t, "failed")
  BY DEF Unlock, At, Card, world, CardInv, Known
<1>2. /\ Rest(t) /\ task'[t].id = task[t].id /\ task'[t].ret = task[t].ret /\ SameRoots
      /\ \/ task[t].pc \in {"save", "unlock"} /\ task'[t].pc = "persist"
         \/ task'[t].pc = "failed"
  BY <1>1, GotoIs, StillRoots DEF OnceInv, CardInv
<1>3. CardFrom
  BY <1>1, Plainly DEF CardFrom, Writer
<1>4. Mild(t)
  BY <1>1, <1>2, Plainly DEF Mild, Making
<1>5. \A u \in Tasks : Mild(u)
  BY <1>2, <1>4, RestMild DEF CardInv
<1>6. ASSUME Sole
      PROVE  Locks' /\ ((\E u \in Tasks : task'[u].pc \in {"reserve", "send"}) => Empty)
  <2>1. ASSUME NEW u \in Tasks, task'[u].pc \in Holding PROVE FALSE
    <3>1. u # t
      BY <1>2, <2>1, Plainly
    <3>2. task[u].pc \in Holding /\ task[t].pc \in Holding
      BY <1>1, <1>2, <2>1, <3>1 DEF Rest, Holding
    <3> QED
      BY <1>6, <3>1, <3>2 DEF Sole, Locks
  <2> QED
    BY <2>1 DEF Locks, Holding
<1> QED
  BY <1>1, <1>2, <1>3, <1>5, <1>6, CardMoves

-----------------------------------------------------------------------------
(* Steps that post a root or remove one, and the rest.                        *)

LEMMA KnownPosts ==
  ASSUME Known, Shape, NEW t \in Tasks, NEW n \in Roots, NEW text, root[n].at = "unsent",
         Put(n, text), ended' = ended, card'.id \in {0, card.id}, Rest(t),
         task'[t].ret \in Returns, task'[t].pc # "remove", Writer(t)' => task'[t].id = n
  PROVE  /\ Known' /\ root'[n].at = "posted"
         /\ \A m \in Roots : m # n => root'[m] = root[m]
<1>1. /\ DOMAIN root' = Roots /\ DOMAIN root'[n] = {"at", "text"} /\ root'[n].at = "posted"
      /\ \A m \in Roots : m # n => root'[m] = root[m]
  BY DEF Known, Put
<1>2. Live(card)' => card'.id \in Roots /\ root'[card'.id].at # "unsent"
  BY <1>1 DEF Known, Live
<1>3. ASSUME NEW u \in Tasks
      PROVE  /\ task'[u].ret \in Returns
             /\ Writer(u)' => task'[u].id \in Roots /\ root'[task'[u].id].at # "unsent"
             /\ task'[u].pc = "remove" => ended
  BY <1>1 DEF Known, Rest, Writer
<1>4. ~ended => \A m \in Roots : ~Gone(m)'
  BY <1>1 DEF Known, Gone
<1>5. \A m \in Roots : DOMAIN root'[m] = {"at", "text"} /\ root'[m].at \in {"unsent", "posted", "gone"}
  BY <1>1 DEF Known
<1>6. ended \in BOOLEAN
  BY DEF Known
<1> QED
  BY <1>1, <1>2, <1>3, <1>4, <1>5, <1>6 DEF Known

(* A new root is the only one, and its sender knows it.                       *)
LEMMA SendSole ==
  ASSUME OnceInv, CardInv, NEW t \in Tasks, Send(t)
  PROVE  Known' /\ (orphaned' \/ Sole')
<1>1. /\ task[t].pc = "send" /\ UNCHANGED <<card, lock, ended, orphaned>> /\ Maker(t)
      /\ task[t].ret \in Returns
  BY DEF Send, At, keys, world, Maker, Making, CardInv, Known
<1>2. PICK n \in Roots : Sent(t, n) /\ Show(t, n, task[t].text, "save")
  BY DEF Send
<1>3. Rest(t) /\ task'[t].pc = "save" /\ task'[t].id = n /\ task'[t].ret = task[t].ret
  BY <1>2, ShowIs DEF OnceInv
<1>4. Put(n, task[t].text) /\ root[n].at = "unsent"
  BY <1>2 DEF Sent, Unsent
<1> DEFINE text == task[t].text
<1> HIDE DEF text
<1>5. Known' /\ root'[n].at = "posted" /\ \A m \in Roots : m # n => root'[m] = root[m]
  <2>1. Put(n, text)
    BY <1>4 DEF text
  <2> QED
    BY <1>1, <1>3, <1>4, <2>1, KnownPosts DEF CardInv, OnceInv
<1> SUFFICES ASSUME Sole PROVE Sole'
  BY <1>1, <1>5 DEF CardInv
<1>6. Empty /\ ~Posted(n) /\ ~Gone(n)
  BY <1>1, <1>4 DEF Sole, Alone, Posted, Gone
<1>7. /\ \A m \in Roots : (Gone(m)' <=> Gone(m)) /\ (Posted(m)' <=> m = n)
  BY <1>5, <1>6 DEF Empty, Posted, Gone
<1>8. \A u \in Tasks : Maker(u)' => Maker(u) /\ u # t
  BY <1>3, TasksAre, Plainly DEF Rest, Maker, Making
<1>9. lock = t /\ \A u \in Tasks : u # t => task[u].pc \notin Holding
  BY <1>1 DEF Sole, Locks, Holding
<1>10. Locks'
  BY <1>1, <1>3, <1>9 DEF Rest, Locks
<1>11. GoneOut'
  <2> SUFFICES ASSUME NEW m \in Roots, Gone(m)
               PROVE  \E g \in Groups : \A u \in g :
                        ~Maker(u)' /\ ~(Writer(u)' /\ task'[u].id = m)
    BY <1>7 DEF GoneOut
  <2>1. PICK g \in Groups : \A u \in g : ~Maker(u) /\ ~(Writer(u) /\ task[u].id = m)
    BY DEF Sole, GoneOut
  <2>2. ASSUME NEW u \in g PROVE ~Maker(u)' /\ ~(Writer(u)' /\ task'[u].id = m)
    <3>1. u \in Tasks
      BY DEF Groups, Tasks, Notices
    <3>2. u # t
      BY <1>1, <2>1
    <3> QED
      BY <1>3, <2>1, <3>1, <3>2 DEF Rest, Maker, Writer
  <2> QED
    BY <2>2
<1>12. Stale'
  <2>1. Live(card) => card.id \in Roots
    BY DEF CardInv, Known
  <2> QED
    BY <1>1, <1>7, <1>8, <2>1 DEF Sole, Stale, Live
<1>13. Alone'
  <2>1. \A u \in Tasks : task'[u].pc \notin {"reserve", "send"}
    BY <1>3, <1>9 DEF Rest, Holding
  <2>2. ASSUME Open', NEW u \in Tasks, Writer(u)' PROVE task'[u].id = n
    <3>1. CASE u = t
      BY <1>3, <3>1
    <3>2. CASE u # t
      <4>1. Writer(u) /\ task[u].id \in Roots /\ root[task[u].id].at # "unsent"
        BY <1>3, <2>2, <3>2 DEF Rest, Writer, CardInv, Known
      <4> DEFINE w == task[u].id
      <4>2. Gone(w)
        BY <1>6, <4>1 DEF Empty, Posted, Gone, CardInv, Known
      <4>3. ended
        BY <4>1, <4>2 DEF CardInv, Known
      <4>4. PICK x \in Tasks : Maker(x)'
        BY <1>1, <2>2, <4>3 DEF Open
      <4> HIDE DEF w
      <4>5. w \in Roots /\ task[u].id = w
        BY <4>1 DEF w
      <4>6. FALSE
        BY <1>1, <1>8, <4>1, <4>2, <4>4, <4>5, NoRoom DEF Sole, CardInv
      <4> QED
        BY <4>6
    <3> QED
      BY <3>1, <3>2
  <2>3. task'[t].pc = "save" /\ task'[t].id = n
    BY <1>3
  <2> QED
    BY <1>7, <2>1, <2>2, <2>3 DEF Alone
<1> QED
  BY <1>10, <1>11, <1>12, <1>13 DEF Sole

\* A send that fails leaves no root, or one that is not looked for.
LEMMA SendFailsSole ==
  ASSUME OnceInv, CardInv, NEW t \in Tasks, SendFails(t)
  PROVE  Known' /\ (orphaned' \/ Sole')
<1>1. /\ task[t].pc = "send" /\ UNCHANGED <<lock, ended>> /\ card'.id = 0
      /\ task[t].ret \in Returns /\ Goto(t, "failheld")
  BY DEF SendFails, At, Cleared, NoCard, Card, CardInv, Known
<1>2. Rest(t) /\ task'[t].pc = "failheld" /\ task'[t].ret = task[t].ret
  BY <1>1, GotoIs DEF OnceInv
<1>3. CASE UNCHANGED <<root, orphaned>>
  <2>1. SameRoots /\ Mild(t)
    BY <1>1, <1>2, <1>3, StillRoots, Plainly DEF Mild, CardInv
  <2>2. \A u \in Tasks : Mild(u)
    BY <1>2, <2>1, RestMild DEF CardInv
  <2>3. Sole => CardFrom
    BY <1>1 DEF Sole, Alone, CardFrom
  <2>4. \A u \in Tasks : task'[u].pc \in Holding => task[u].pc \in Holding
    BY <1>1, <1>2 DEF Rest, Holding
  <2>5. Sole => Locks' /\ ((\E u \in Tasks : task'[u].pc \in {"reserve", "send"}) => Empty)
    BY <1>1, <2>4 DEF Sole, Locks, Alone
  <2> QED
    BY <1>1, <1>3, <2>1, <2>2, <2>3, <2>5, CardMoves
<1>4. CASE (\E n \in Roots : Sent(t, n)) /\ orphaned' = TRUE
  <2>1. PICK n \in Roots : Sent(t, n)
    BY <1>4
  <2> DEFINE text == task[t].text
  <2>2. Put(n, text) /\ root[n].at = "unsent"
    BY <2>1 DEF Sent, Unsent
  <2> HIDE DEF text
  <2>3. ~Writer(t)'
    BY <1>2, Plainly DEF Writer
  <2> QED
    BY <1>1, <1>2, <1>4, <2>2, <2>3, KnownPosts DEF CardInv, OnceInv
<1> QED
  BY <1>3, <1>4 DEF SendFails

(* The remover is done with its root, and no other task of its group is       *)
(* engaged.                                                                   *)
LEMMA RemoveSole ==
  ASSUME OnceInv, CardInv, NEW t \in Tasks, Remove(t)
  PROVE  Known' /\ (orphaned' \/ Sole')
<1> DEFINE r == task[t].id
<1>1. /\ task[t].pc = "remove" /\ UNCHANGED <<lock, ended, orphaned>> /\ card'.id = 0
      /\ task[t].ret \in Returns /\ ended /\ Writer(t) /\ r \in Roots
      /\ root' = [root EXCEPT ![r].at = "gone"] /\ Return(t, 0)
  BY DEF Remove, At, Cleared, NoCard, Card, CardInv, Known, world, Writer, Writing
<1> HIDE DEF r
<1>2. Rest(t) /\ task'[t].pc = task[t].ret /\ task'[t].ret = task[t].ret
  BY <1>1, ReturnIs DEF OnceInv
<1>3. task'[t].pc \notin Making \cup Writing \cup Holding /\ task'[t].pc # "remove"
  BY <1>1, <1>2, TasksAre, Plainly
<1>4. /\ DOMAIN root' = Roots /\ root'[r].at = "gone"
      /\ \A m \in Roots : DOMAIN root'[m] = {"at", "text"}
      /\ \A m \in Roots : m # r => root'[m] = root[m]
  BY <1>1 DEF CardInv, Known
<1>5. Known'
  <2>1. ~Live(card)'
    BY <1>1 DEF Live
  <2>2. ASSUME NEW u \in Tasks
        PROVE  /\ task'[u].ret \in Returns
               /\ Writer(u)' => task'[u].id \in Roots /\ root'[task'[u].id].at # "unsent"
               /\ task'[u].pc = "remove" => ended
    BY <1>1, <1>2, <1>3, <1>4 DEF CardInv, Known, Rest, Writer
  <2>3. \A m \in Roots : root'[m].at \in {"unsent", "posted", "gone"}
    BY <1>4 DEF CardInv, Known
  <2> QED
    BY <1>1, <1>4, <2>1, <2>2, <2>3 DEF Known
<1> SUFFICES ASSUME Sole PROVE Sole'
  BY <1>1, <1>5 DEF CardInv
<1>6. \A m \in Roots : /\ Posted(m)' <=> Posted(m) /\ m # r
                       /\ Gone(m)' <=> Gone(m) \/ m = r
  BY <1>4 DEF Posted, Gone
<1>7. \A u \in Tasks : /\ Maker(u)' => Maker(u) /\ u # t
                       /\ Writer(u)' => Writer(u) /\ task'[u] = task[u] /\ u # t
  BY <1>2, <1>3 DEF Rest, Maker, Writer
<1>8. Locks'
  BY <1>1, <1>2, <1>3 DEF Rest, Sole, Locks
<1>9. GoneOut'
  <2> SUFFICES ASSUME NEW m \in Roots, Gone(m) \/ m = r
               PROVE  \E g \in Groups : \A u \in g :
                        ~Maker(u)' /\ ~(Writer(u)' /\ task'[u].id = m)
    BY <1>6 DEF GoneOut
  <2>1. \A g \in Groups : g \subseteq Tasks
    BY DEF Groups, Tasks, Notices
  <2>2. CASE Gone(m)
    <3>1. PICK g \in Groups : \A u \in g : ~Maker(u) /\ ~(Writer(u) /\ task[u].id = m)
      BY <2>2 DEF Sole, GoneOut
    <3> QED
      BY <1>7, <2>1, <3>1
  <2>3. CASE m = r
    <3>1. PICK g \in Groups : t \in g
      BY TasksAre DEF Groups
    <3>2. \A u \in g : u # t => ~Engaged(u)
      BY <1>1, <3>1, OneOfTwo DEF Groups, Engaged, CardInv
    <3> QED
      BY <1>7, <2>1, <3>2 DEF Engaged
  <2> QED
    BY <2>2, <2>3
<1>10. Stale'
  BY <1>1 DEF Stale, Live
<1>11. Alone'
  <2>1. \A u \in Tasks : task'[u].pc \in {"reserve", "send"} => task[u].pc \in {"reserve", "send"}
    BY <1>2, <1>3 DEF Rest, Making
  <2>2. Open' => Open
    BY <1>1, <1>7 DEF Open
  <2>3. ASSUME Open', NEW n \in Roots, Posted(n)' PROVE FALSE
    <3>1. task[t].id = n
      BY <1>1, <1>6, <2>2, <2>3 DEF Sole, Alone
    <3> QED
      BY <1>6, <2>3, <3>1 DEF r
  <2>4. Empty => Empty'
    BY <1>6 DEF Empty
  <2>5. \A m, n \in Roots : Posted(m)' /\ Posted(n)' => m = n
    BY <1>6 DEF Sole, Alone
  <2> QED
    BY <2>1, <2>3, <2>4, <2>5 DEF Sole, Alone
<1> QED
  BY <1>8, <1>9, <1>10, <1>11 DEF Sole

LEMMA CardStepSole ==
  ASSUME OnceInv, CardInv, NEW t \in Tasks, CardStep(t)
  PROVE  Known' /\ (orphaned' \/ Sole')
BY EnsureSole, PostSole, CreateSole, ReserveSole, SendSole, UnlockSole, RecheckSole,
   RemoveSole, MarkSole, LineSole, RaiseSole DEF CardStep

(* Steps of the tasks outside the card's subroutine.                          *)
Outside(u) ==
  /\ task'[u].pc \notin Making \cup Writing \cup Holding /\ task'[u].ret \in Returns
  /\ task[u].pc # "save"

LEMMA AsideSole ==
  ASSUME OnceInv, CardInv, UNCHANGED <<root, ended, orphaned>>, card'.id = card.id,
         lock' = lock \/ (lock = "left" /\ lock' = "free"),
         \A u \in Tasks : task'[u] = task[u] \/ Outside(u)
  PROVE  Known' /\ (orphaned' \/ Sole')
<1>1. \A u \in Tasks : Mild(u)
  <2>1. ASSUME NEW u \in Tasks, task'[u] = task[u] PROVE Mild(u)
    BY <2>1 DEF CardInv, Known, Mild
  <2> QED
    BY <2>1, OutMild DEF Outside
<1>2. SameRoots /\ CardFrom
  BY StillRoots DEF CardInv, CardFrom
<1>3. \A u \in Tasks : task'[u].pc \in Making \cup Holding => task'[u] = task[u]
  BY DEF Outside
<1>4. "left" \notin Tasks
  BY DEF Tasks, Notices
<1>5. Sole => Locks' /\ ((\E u \in Tasks : task'[u].pc \in {"reserve", "send"}) => Empty)
  BY <1>3, <1>4 DEF Sole, Locks, Alone, Making
<1> QED
  BY <1>1, <1>2, <1>5, CardMoves

(* A restart leaves no task with anything; a root whose id it lost is no      *)
(* longer looked for.                                                         *)
LEMMA RestartSole ==
  ASSUME OnceInv, CardInv, Restart
  PROVE  Known' /\ (orphaned' \/ Sole')
<1>1. \A u \in Tasks : task'[u].pc \in {"idle", "emit"} /\ task'[u].ret = "idle"
  <2>1. \A u \in Tasks : task'[u] = Idle \/ task'[u] = [Idle EXCEPT !.pc = "emit"]
    BY DEF Restart
  <2> QED
    BY <2>1, IdleShape, IdleAt
<1>2. "idle" \in Returns /\ {"idle", "emit"} \cap (Making \cup Writing \cup Holding) = {}
      /\ "remove" \notin {"idle", "emit"}
  BY DEF Returns, Making, Writing, Holding
<1>3. UNCHANGED <<root, ended>> /\ (card'.id = card.id \/ (card'.id = 0 /\ ended))
  BY DEF Restart, Cleared, NoCard, Card
<1>4. Known'
  BY <1>1, <1>2, <1>3 DEF CardInv, Known, Live, Writer, Gone
<1>5. CASE \E t \in Tasks : At(t, "save")
  BY <1>4, <1>5 DEF Restart
<1>6. CASE ~\E t \in Tasks : At(t, "save")
  <2>1. \A u \in Tasks : Mild(u)
    BY <1>1, <1>2, <1>6, OutMild DEF At
  <2>2. CardFrom
    BY <1>1, <1>2, <1>3 DEF CardFrom, Open, Maker
  <2>3. SameRoots
    BY <1>3, StillRoots DEF CardInv
  <2>4. Locks' /\ ~\E u \in Tasks : task'[u].pc \in {"reserve", "send"}
    BY <1>1, <1>2 DEF Locks
  <2>5. Sole => Sole'
    BY <1>3, <2>1, <2>2, <2>3, <2>4, SoleStep DEF CardInv
  <2>6. orphaned => orphaned'
    BY DEF Restart
  <2> QED
    BY <1>4, <2>5, <2>6 DEF CardInv
<1> QED
  BY <1>5, <1>6

\* At the end of the setup no root is gone yet.
LEMMA EndSole ==
  ASSUME OnceInv, CardInv, SetupEnds
  PROVE  Known' /\ (orphaned' \/ Sole')
<1>1. UNCHANGED <<card, root, lock, task, orphaned>> /\ ended' = TRUE /\ ~ended
  BY DEF SetupEnds, keys
<1>2. Known'
  BY <1>1 DEF CardInv, Known, Live, Writer, Gone
<1>3. ASSUME Sole PROVE Sole'
  BY <1>1, <1>3 DEF Sole, Locks, GoneOut, Stale, Alone, Open, Empty, Posted, Gone, Maker,
                    Writer, Live
<1> QED
  BY <1>1, <1>2, <1>3 DEF CardInv

LEMMA LapseSole ==
  ASSUME CardInv, LockLapses
  PROVE  Known' /\ orphaned'
BY DEF LockLapses, CardInv, Known, Live, Writer, Gone, keys

-----------------------------------------------------------------------------
(* Whose turn it is.                                                          *)

Turn(t) ==
  /\ Rest(t)
  /\ task[t].pc \notin {"idle", "entry", "advance"}
  /\ task'[t].pc \notin {"emit", "publish"}
  /\ t \in Notices => task'[t].pc = "idle" \/ task'[t].ret = task[t].ret

LEMMA TurnsPass ==
  ASSUME OnceInv, Turns, NEW t \in Tasks, Turn(t), UNCHANGED <<events, cursor, told, plan>>
  PROVE  Turns'
<1>1. task'["publisher"].pc \in {"emit", "publish"} => plan = "none"
  BY TasksAre DEF Turns, Turn, Rest
<1>2. task'["later"].pc # "idle" => task'["publisher"].pc = "idle"
  BY TasksAre DEF Turns, Turn, Rest
<1>3. \A n \in Notices : task'[n].pc # "idle" => task'[n].ret = "answer" \/ told[n] = 1
  BY TasksAre DEF Turns, Turn, Rest, Answers
<1>4. task'["closed"].pc # "idle" =>
        /\ plan = "closed"
        /\ \/ task'["delivery"].pc = "advance" /\ cursor + 1 = Len(events)
           \/ cursor = Len(events)
  <2>1. CASE t = "delivery"
    <3>1. cursor < Len(events) /\ task["delivery"].pc # "advance"
      BY <2>1 DEF OnceInv, Entries, Busy, Turn
    <3>2. task["closed"].pc = "idle"
      BY <3>1 DEF Turns, OnceInv, Entries
    <3> QED
      BY <2>1, <3>2, TasksAre DEF Turn, Rest
  <2>2. CASE t # "delivery"
    BY <2>2, TasksAre DEF Turns, Turn, Rest
  <2> QED
    BY <2>1, <2>2
<1> QED
  BY <1>1, <1>2, <1>3, <1>4 DEF Turns, Answers

\* Where a call or a subroutine takes its task.
Onward == Inside \cup Returns

LEMMA OnwardIs ==
  ASSUME Shape, NEW t \in Tasks, task[t].ret \in Returns,
         task[t].pc \in Inside \cup {"line"},
         \/ \E pc \in Inside \cup {"advance"} : Goto(t, pc)
         \/ \E id, text : \E pc \in Inside : Show(t, id, text, pc)
         \/ \E id : Return(t, id)
  PROVE  Turn(t)
<1>1. task[t].pc \notin {"idle", "entry", "advance"}
  BY DEF Inside
<1>2. Rest(t) /\ task'[t].ret = task[t].ret /\ task'[t].pc \in Onward
  BY GotoIs, ShowIs, ReturnIs DEF Onward, Returns
<1> QED
  BY <1>1, <1>2 DEF Turn, Onward, Inside, Returns

LEMMA CardTurns ==
  ASSUME OnceInv, CardInv, NEW t \in Tasks, CardStep(t) \/ SendFails(t)
  PROVE  Turns'
<1>1. Shape /\ task[t].ret \in Returns /\ Turns
  BY DEF OnceInv, CardInv, Known
<1>2. UNCHANGED <<events, cursor, told, plan>>
  BY DEF CardStep, SendFails, Ensure, Post, Create, Peer, Reserve, Send, Unlock, Recheck,
         ApplyPending, Remove, Mark, Line, SaveLine, Raise, inbox, world
<1>3. /\ {"post", "create", "peer", "reserve", "send", "save", "persist", "unlock",
          "failheld", "failed", "pending", "resave", "remove", "mark", "clear", "painted",
          "unpainted", "ensure"} \subseteq Inside
  BY DEF Inside
<1>4. Turn(t) => Turns'
  BY <1>1, <1>2, TurnsPass
<1>5. CASE Ensure(t)
  BY <1>1, <1>3, <1>5, <1>4, OnwardIs DEF Ensure, At
<1>6. CASE Post(t)
  BY <1>1, <1>3, <1>6, <1>4, OnwardIs DEF Post, Match, EditRoot, At
<1>7. CASE Create(t)
  BY <1>1, <1>3, <1>7, <1>4, OnwardIs DEF Create, Claim, Match, EditRoot, At
<1>8. CASE Peer(t)
  BY <1>1, <1>3, <1>8, <1>4, OnwardIs DEF Peer, Claim, Match, EditRoot, At
<1>9. CASE Reserve(t)
  BY <1>1, <1>3, <1>9, <1>4, OnwardIs DEF Reserve, At
<1>10. CASE Send(t)
  BY <1>1, <1>3, <1>10, <1>4, OnwardIs DEF Send, At
<1>11. CASE Unlock(t)
  BY <1>1, <1>3, <1>11, <1>4, OnwardIs DEF Unlock, At
<1>12. CASE Recheck(t)
  BY <1>1, <1>3, <1>12, <1>4, OnwardIs DEF Recheck, EditRoot, At
<1>13. CASE ApplyPending(t)
  BY <1>1, <1>3, <1>13, <1>4, OnwardIs DEF ApplyPending, EditRoot, At
<1>14. CASE Remove(t)
  BY <1>1, <1>3, <1>14, <1>4, OnwardIs DEF Remove, At
<1>15. CASE Mark(t)
  BY <1>1, <1>3, <1>15, <1>4, OnwardIs DEF Mark, At
<1>16. CASE Line(t)
  BY <1>1, <1>3, <1>16, <1>4, OnwardIs DEF Line, EditRoot, At
<1>17. CASE SaveLine(t)
  BY <1>1, <1>3, <1>17, <1>4, OnwardIs DEF SaveLine, At
<1>18. CASE SendFails(t)
  BY <1>1, <1>3, <1>18, <1>4, OnwardIs DEF SendFails, At
<1>19. CASE Raise(t)
  <2>1. task[t].pc = "failed"
    BY <1>19 DEF Raise, At
  <2>2. CASE t = "publisher"
    <3>1. task' = [task EXCEPT ![t] = Idle, !["later"] = Ensuring("idle")]
      BY <1>19, <2>2 DEF Raise
    <3>2. /\ task'["publisher"] = Idle
          /\ \A u \in Tasks \ {"publisher", "later"} : task'[u] = task[u]
      BY <1>1, <2>2, <3>1 DEF Shape, Tasks
    <3> QED
      BY <1>1, <1>2, <2>1, <2>2, <3>2, IdleShape, TasksAre DEF Turns, Answers, Notices
  <2>3. CASE t = "delivery" /\ Return(t, 0)
    BY <1>1, <1>2, <1>3, <2>1, <2>3, OnwardIs, TurnsPass
  <2>4. CASE t = "delivery" /\ \E pc \in {"ensure", "advance"} : Goto(t, pc)
    BY <1>1, <1>2, <1>3, <2>1, <2>4, OnwardIs, TurnsPass
  <2>5. CASE t = "delivery" /\ task' = [task EXCEPT ![t] = [Idle EXCEPT !.pc = "entry"]]
    <3>1. Rest(t) /\ task'[t].pc = "entry"
      BY <1>1, <2>5, IdleAt DEF Rest, Shape
    <3>2. Turn(t)
      BY <2>1, <2>5, <3>1 DEF Turn, Notices
    <3> QED
      BY <1>1, <1>2, <3>2, TurnsPass
  <2>6. CASE task' = [task EXCEPT ![t] = Idle]
    <3>1. Rest(t) /\ task'[t].pc = "idle"
      BY <1>1, <2>6, IdleShape DEF Rest, Shape
    <3>2. Turn(t)
      BY <2>1, <3>1 DEF Turn
    <3> QED
      BY <1>1, <1>2, <3>2, TurnsPass
  <2> QED
    BY <1>19, <2>2, <2>3, <2>4, <2>5, <2>6 DEF Raise
<1> QED
  BY <1>5, <1>6, <1>7, <1>8, <1>9, <1>10, <1>11, <1>12, <1>13, <1>14, <1>15, <1>16, <1>17,
     <1>18, <1>19 DEF CardStep

(* The other steps of the tasks: each leaves one task outside, the put-off    *)
(* reply begins as the delivery leaves it.                                    *)
Beside == {"line", "kill", "ensure", "reply", "advance", "tell", "failed", "idle"}

LEMMA BesideIs ==
  /\ Beside \cap (Making \cup Writing \cup Holding) = {}
  /\ Beside \cap {"emit", "publish"} = {}
BY DEF Beside, Making, Writing, Holding

LEMMA EntryIs ==
  ASSUME OnceInv, CardInv, Entry
  PROVE  /\ Rest("delivery") /\ task'["delivery"].pc \in Beside
         /\ task'["delivery"].ret \in Returns
<1>1. Event \in Kinds /\ Shape /\ "delivery" \in Tasks /\ task["delivery"].ret \in Returns
  BY TasksAre DEF Entry, OnceInv, Entries, Event, CardInv, Known
<1> DEFINE lining(line, ret) == [Idle EXCEPT !.pc = "line", !.line = line, !.ret = ret]
<1>2. \/ Goto("delivery", "advance")
      \/ task' = [task EXCEPT !["delivery"] = lining("queued", "advance")]
      \/ task' = [task EXCEPT !["delivery"] = Ensuring("activate")]
      \/ task' = [task EXCEPT !["delivery"] = [Idle EXCEPT !.pc = "kill"]]
      \/ task' = [task EXCEPT !["delivery"] = lining("over", "kill")]
  BY <1>1 DEF Entry, Kinds, Notices
<1>3. \A line, ret : lining(line, ret).pc = "line" /\ lining(line, ret).ret = ret
  BY DEF Idle
<1> HIDE DEF lining
<1>4. ASSUME NEW r, task' = [task EXCEPT !["delivery"] = r],
             r.pc \in {"line", "ensure", "kill"},
             r.ret \in {"advance", "activate", "idle", "kill"}
      PROVE  /\ Rest("delivery") /\ task'["delivery"].pc \in Beside
             /\ task'["delivery"].ret \in Returns
  BY <1>1, <1>4 DEF Rest, Shape, Beside, Returns
<1>5. CASE Goto("delivery", "advance")
  BY <1>1, <1>5, GotoIs DEF Beside
<1>6. CASE task' = [task EXCEPT !["delivery"] = lining("queued", "advance")]
  BY <1>3, <1>4, <1>6
<1>7. CASE task' = [task EXCEPT !["delivery"] = Ensuring("activate")]
  BY <1>4, <1>7, EnsuringAt
<1>8. CASE task' = [task EXCEPT !["delivery"] = [Idle EXCEPT !.pc = "kill"]]
  <2> DEFINE r == [Idle EXCEPT !.pc = "kill"]
  <2>1. r.pc = "kill" /\ r.ret = "idle"
    BY IdleAt
  <2>2. task' = [task EXCEPT !["delivery"] = r]
    BY <1>8
  <2> HIDE DEF r
  <2> QED
    BY <1>4, <2>1, <2>2
<1>9. CASE task' = [task EXCEPT !["delivery"] = lining("over", "kill")]
  BY <1>3, <1>4, <1>9
<1> QED
  BY <1>2, <1>5, <1>6, <1>7, <1>8, <1>9

LEMMA DeliveryIs ==
  ASSUME OnceInv, CardInv, Activate \/ Kill \/ Reply \/ Tell \/ Advance
  PROVE  /\ Rest("delivery") /\ task'["delivery"].pc \in Beside
         /\ task'["delivery"].ret \in Returns /\ Busy(task["delivery"])
<1>1. Shape /\ "delivery" \in Tasks /\ task["delivery"].ret \in Returns
  BY TasksAre DEF OnceInv, CardInv, Known
<1>2. Busy(task["delivery"])
  BY DEF Activate, Kill, Reply, Tell, Advance, At, Busy
<1>3. CASE Activate
  <2>1. task' = [task EXCEPT !["delivery"].pc = "line", !["delivery"].line = "filled",
                             !["delivery"].ret = "reply"]
    BY <1>3 DEF Activate, WriteLine
  <2> QED
    BY <1>1, <1>2, <2>1 DEF Shape, Rest, Beside, Returns
<1>4. CASE Kill
  BY <1>1, <1>2, <1>4, GotoIs DEF Kill, Beside
<1>5. CASE Reply
  <2>1. \/ task' = [task EXCEPT !["delivery"].id = card.id, !["delivery"].pc = "tell",
                                !["delivery"].ret = "advance"]
        \/ task' = [task EXCEPT !["delivery"].ret = "anchor", !["delivery"].pc = "ensure"]
    BY <1>5 DEF Reply
  <2> QED
    BY <1>1, <1>2, <2>1 DEF Shape, Rest, Beside, Returns
<1>6. CASE Tell
  BY <1>1, <1>2, <1>6, GotoIs DEF Tell, Beside
<1>7. CASE Advance
  <2>1. task' = [task EXCEPT !["delivery"] = Idle]
    BY <1>7 DEF Advance
  <2> QED
    BY <1>1, <1>2, <2>1, IdleShape DEF Shape, Rest, Beside, Returns
<1> QED
  BY <1>3, <1>4, <1>5, <1>6, <1>7

\* The put-off reply is scheduled when none is: its task is idle.
LEMMA AnchorIs ==
  ASSUME OnceInv, CardInv, Anchor
  PROVE  \/ /\ Rest("delivery") /\ task'["delivery"].pc \in Beside
            /\ task'["delivery"].ret \in Returns
         \/ /\ task'["delivery"].pc = "advance" /\ task'["delivery"].ret \in Returns
            /\ \A u \in Tasks \ {"delivery"} :
                 \/ task'[u] = task[u]
                 \/ /\ u = Event /\ u \in Notices /\ task[u].pc = "idle"
                    /\ task'[u].pc = "ensure" /\ task'[u].ret = "answer"
<1>1. Shape /\ "delivery" \in Tasks /\ task["delivery"].ret \in Returns
  BY TasksAre DEF OnceInv, CardInv, Known
<1>2. CASE task' = [task EXCEPT !["delivery"].pc = "tell", !["delivery"].ret = "advance"]
  BY <1>1, <1>2 DEF Shape, Rest, Beside, Returns
<1>3. CASE task' = [task EXCEPT !["delivery"].pc = "advance", ![Event] = Ensuring("answer")]
  <2>1. cursor < Len(events) /\ Event \in Kinds /\ MayTell(task["delivery"])
    BY DEF Anchor, At, OnceInv, Entries, Event, Busy, MayTell, Ahead
  <2>2. ASSUME Event \in Notices PROVE task[Event].pc = "idle"
    <3>1. Delivers(Event)
      BY <2>1 DEF Delivers
    <3>2. ~Answers(Event) /\ told[Event] # 1
      BY <2>2, <3>1 DEF OnceInv, Once
    <3> QED
      BY <2>2, <3>2 DEF CardInv, Turns
  <2>3. Event # "delivery"
    BY <2>1 DEF Kinds, Notices
  <2>4. /\ task'["delivery"].pc = "advance" /\ task'["delivery"].ret = task["delivery"].ret
        /\ \A u \in Tasks \ {"delivery"} :
             task'[u] = task[u] \/ (u = Event /\ task'[u] = Ensuring("answer"))
    BY <1>1, <1>3, <2>3 DEF Shape
  <2>5. Event \in Tasks => Event \in Notices
    BY <2>1 DEF Tasks, Kinds, Notices
  <2> QED
    BY <1>1, <2>2, <2>4, <2>5, EnsuringAt
<1> QED
  BY <1>2, <1>3 DEF Anchor

LEMMA AnswerIs ==
  ASSUME OnceInv, CardInv, NEW n \in Notices, Answer(n)
  PROVE  /\ Rest(n) /\ task[n].pc = "answer" /\ task'[n].ret = "idle" /\ Answers(n)
         /\ \/ task'[n].pc = "line" /\ told' = [told EXCEPT ![n] = @ + 1]
            \/ task'[n].pc = "idle" /\ told' = told
<1>1. Shape /\ n \in Tasks /\ task[n].pc = "answer"
  BY TasksAre DEF OnceInv, Answer, At
<1>2. Answers(n)
  BY <1>1 DEF Shape, Answers
<1>3. CASE WriteLine(n, "filled", "idle") /\ told' = [told EXCEPT ![n] = @ + 1]
  <2>1. task' = [task EXCEPT ![n].pc = "line", ![n].line = "filled", ![n].ret = "idle"]
    BY <1>3 DEF WriteLine
  <2> QED
    BY <1>1, <1>2, <1>3, <2>1 DEF Shape, Rest
<1>4. CASE told' = told /\ task' = [task EXCEPT ![n] = Idle]
  BY <1>1, <1>2, <1>4, IdleShape DEF Shape, Rest
<1> QED
  BY <1>3, <1>4 DEF Answer, Telling

LEMMA PublisherIs ==
  ASSUME OnceInv, CardInv, PublisherStep
  PROVE  /\ Rest("publisher") /\ task'["publisher"].ret \in Returns
         /\ \/ Emit /\ task["publisher"].pc = "emit" /\ task'["publisher"].pc = "publish"
            \/ Publish /\ task["publisher"].pc = "publish" /\ task'["publisher"].pc = "ensure"
<1>1. Shape /\ "publisher" \in Tasks /\ task["publisher"].ret \in Returns
  BY TasksAre DEF OnceInv, CardInv, Known
<1>2. CASE Emit
  BY <1>1, <1>2, GotoIs DEF Emit, At
<1>3. CASE Publish
  <2>1. task' = [task EXCEPT !["publisher"] = Ensuring("idle")] /\ task["publisher"].pc = "publish"
    BY <1>3 DEF Publish, At
  <2> QED
    BY <1>1, <1>3, <2>1, EnsuringAt DEF Shape, Rest, Returns
<1> QED
  BY <1>2, <1>3 DEF PublisherStep

LEMMA BesideSole ==
  ASSUME OnceInv, CardInv, PublisherStep \/ DeliveryStep \/ \E n \in Notices : Answer(n)
  PROVE  Known' /\ (orphaned' \/ Sole')
<1>1. UNCHANGED <<card, root, ended, orphaned, lock>>
  BY DEF PublisherStep, Emit, Publish, DeliveryStep, Entry, Activate, Kill, Reply, Anchor, Tell,
         Advance, Answer, keys, world
<1>2. ASSUME NEW t \in Tasks, Rest(t), task'[t].pc \in Beside \cup {"publish"},
             task'[t].ret \in Returns, task[t].pc # "save"
      PROVE  \A u \in Tasks : task'[u] = task[u] \/ Outside(u)
  BY <1>2, BesideIs DEF Rest, Outside, Making, Writing, Holding
<1>3. CASE PublisherStep
  <2>1. /\ Rest("publisher") /\ task'["publisher"].pc \in Beside \cup {"publish"}
        /\ task'["publisher"].ret \in Returns /\ task["publisher"].pc # "save"
    BY <1>3, PublisherIs DEF Beside
  <2> QED
    BY <1>1, <1>2, <2>1, TasksAre, AsideSole
<1>4. CASE Entry \/ Activate \/ Kill \/ Reply \/ Tell \/ Advance
  <2>1. /\ Rest("delivery") /\ task'["delivery"].pc \in Beside
        /\ task'["delivery"].ret \in Returns
    BY <1>4, EntryIs, DeliveryIs
  <2>2. task["delivery"].pc # "save"
    BY <1>4 DEF Entry, Activate, Kill, Reply, Tell, Advance, At
  <2> QED
    BY <1>1, <1>2, <2>1, <2>2, TasksAre, AsideSole
<1>5. CASE Anchor
  <2>1. task["delivery"].pc # "save"
    BY <1>5 DEF Anchor, At
  <2>2. "answer" \in Returns /\ {"ensure", "advance"} \subseteq Beside
    BY DEF Returns, Beside
  <2>3. \A u \in Tasks : task'[u] = task[u] \/ Outside(u)
    BY <1>2, <1>5, <2>1, <2>2, AnchorIs, BesideIs, TasksAre DEF Outside
  <2> QED
    BY <1>1, <2>3, AsideSole
<1>6. CASE \E n \in Notices : Answer(n)
  <2>1. PICK n \in Notices : Answer(n)
    BY <1>6
  <2>2. /\ Rest(n) /\ task'[n].pc \in Beside /\ task'[n].ret \in Returns
        /\ task[n].pc # "save" /\ n \in Tasks
    BY <2>1, AnswerIs, TasksAre DEF Beside, Returns
  <2> QED
    BY <1>1, <1>2, <2>2, AsideSole
<1> QED
  BY <1>3, <1>4, <1>5, <1>6 DEF DeliveryStep

(* Whose turn it is after those steps.                                        *)
LEMMA PublisherTurns ==
  ASSUME OnceInv, CardInv, PublisherStep
  PROVE  Turns'
<1>1. /\ Rest("publisher") /\ task["publisher"].pc \in {"emit", "publish"}
      /\ task'["publisher"].pc \in {"emit", "publish"} => plan' = plan
      /\ events' = events \/ events' = Append(events, "status")
      /\ UNCHANGED <<told, cursor>>
  BY PublisherIs DEF Emit, Publish, world, inbox
<1>2. plan = "none" /\ task["later"].pc = "idle" /\ task["closed"].pc = "idle"
  BY <1>1 DEF CardInv, Turns
<1>3. \A u \in {"later", "closed", "filled", "delivery"} : task'[u] = task[u]
  BY <1>1, TasksAre DEF Rest
<1>4. /\ events' \in Seq(Kinds)
      /\ \A i \in 1..Len(events') : events'[i] # "closed"
  <2>1. \A i \in 1..Len(events) : events[i] # "closed"
    BY <1>2 DEF CardInv, Turns
  <2> QED
    BY <1>1, <2>1 DEF OnceInv, Entries, Kinds
<1> QED
  BY <1>1, <1>2, <1>3, <1>4 DEF CardInv, Turns, Answers, Notices

LEMMA DeliveryTurns ==
  ASSUME OnceInv, CardInv, OnceInv', DeliveryStep
  PROVE  Turns'
<1>1. /\ UNCHANGED <<events, plan>>
      /\ cursor' = cursor \/ (Advance /\ cursor' = cursor + 1)
      /\ told' = told \/ Tell
  BY DEF DeliveryStep, Entry, Activate, Kill, Reply, Anchor, Tell, Advance, inbox, world
<1>2. \A n \in Notices : told[n] = 1 => told'[n] = 1
  <2>1. CASE Tell
    <3>1. \A n \in Notices : told'[n] \in {told[n], told[n] + 1}
      BY <2>1 DEF Tell, Telling, OnceInv, Once
    <3>2. \A n \in Notices : told'[n] \in {0, 1}
      BY DEF OnceInv, Once
    <3> QED
      BY <3>1, <3>2
  <2> QED
    BY <1>1, <2>1
<1>3. cursor < Len(events) /\ cursor \in Nat
  BY DEF DeliveryStep, Entry, Activate, Kill, Reply, Anchor, Tell, Advance, At, Busy, OnceInv,
         Entries
<1>4. ASSUME NEW n \in Notices, task'[n] = task[n]
      PROVE  task'[n].pc # "idle" => Answers(n)' \/ told'[n] = 1
  BY <1>2, <1>4 DEF CardInv, Turns, Answers
<1>5. CASE Advance
  <2>1. Rest("delivery") /\ task["delivery"].pc = "advance" /\ cursor' = cursor + 1
    BY <1>5, DeliveryIs DEF Advance, At
  <2>2. \A u \in {"publisher", "later", "closed", "filled"} : task'[u] = task[u]
    BY <2>1, TasksAre DEF Rest
  <2>3. task'["closed"].pc # "idle" => plan = "closed" /\ cursor' = Len(events)
    BY <1>3, <2>1, <2>2 DEF CardInv, Turns
  <2> QED
    BY <1>1, <1>4, <2>2, <2>3 DEF CardInv, Turns, Notices
<1>6. CASE Entry \/ Activate \/ Kill \/ Reply \/ Tell
  <2>1. Rest("delivery") /\ task["delivery"].pc # "advance"
    BY <1>6, EntryIs, DeliveryIs DEF Entry, Activate, Kill, Reply, Tell, At
  <2>2. \A u \in {"publisher", "later", "closed", "filled"} : task'[u] = task[u]
    BY <2>1, TasksAre DEF Rest
  <2>3. task["closed"].pc = "idle"
    BY <1>3, <2>1 DEF CardInv, Turns
  <2> QED
    BY <1>1, <1>4, <2>2, <2>3 DEF CardInv, Turns, Notices
<1>7. CASE Anchor
  <2>1. UNCHANGED <<cursor, told>> /\ task["delivery"].pc = "anchor"
    BY <1>7 DEF Anchor, At, inbox
  <2>2. task["closed"].pc = "idle"
    BY <1>3, <2>1 DEF CardInv, Turns
  <2>3. CASE Rest("delivery")
    <3>1. \A u \in {"publisher", "later", "closed", "filled"} : task'[u] = task[u]
      BY <2>3, TasksAre DEF Rest
    <3> QED
      BY <1>1, <1>4, <2>1, <2>2, <3>1 DEF CardInv, Turns, Notices
  <2>4. CASE /\ task'["delivery"].pc = "advance"
             /\ \A u \in Tasks \ {"delivery"} :
                  \/ task'[u] = task[u]
                  \/ /\ u = Event /\ u \in Notices /\ task[u].pc = "idle"
                     /\ task'[u].pc = "ensure" /\ task'[u].ret = "answer"
    <3>1. task'["publisher"] = task["publisher"] /\ task'["later"] = task["later"]
      BY <2>4 DEF Tasks, Notices
    <3>2. \A n \in Notices : task'[n].pc # "idle" => Answers(n)' \/ told'[n] = 1
      BY <1>4, <2>4 DEF Tasks, Notices, Answers
    <3>3. task'["closed"].pc # "idle" => plan = "closed" /\ cursor + 1 = Len(events)
      <4>1. task'["closed"].pc # "idle" => Event = "closed"
        BY <2>2, <2>4 DEF Tasks, Notices
      <4>2. cursor + 1 \in 1..Len(events)
        BY <1>3 DEF OnceInv, Entries
      <4> QED
        BY <4>1, <4>2 DEF CardInv, Turns, Event
    <3> QED
      BY <1>1, <2>1, <2>4, <3>1, <3>2, <3>3 DEF CardInv, Turns
  <2> QED
    BY <1>7, <2>3, <2>4, AnchorIs
<1> QED
  BY <1>5, <1>6, <1>7 DEF DeliveryStep

LEMMA AnswerTurns ==
  ASSUME OnceInv, CardInv, NEW n \in Notices, Answer(n)
  PROVE  Turns'
<1>1. UNCHANGED <<events, cursor, plan>>
  BY DEF Answer, inbox, world
<1>2. /\ Rest(n) /\ task[n].pc = "answer" /\ Answers(n)
      /\ \/ task'[n].pc = "line" /\ told' = [told EXCEPT ![n] = @ + 1]
         \/ task'[n].pc = "idle" /\ told' = told
  BY AnswerIs
<1>3. told[n] = 0 /\ DOMAIN told = Notices
  BY <1>2 DEF OnceInv, Once
<1>4. task'[n].pc = "idle" \/ told'[n] = 1
  BY <1>2, <1>3
<1>5. \A m \in Notices \ {n} : told'[m] = told[m] /\ task'[m] = task[m]
  BY <1>2, <1>3, TasksAre DEF Rest
<1>6. \A m \in Notices : task'[m].pc # "idle" => Answers(m)' \/ told'[m] = 1
  BY <1>4, <1>5 DEF CardInv, Turns, Answers
<1>7. \A u \in {"publisher", "later", "delivery"} : task'[u] = task[u]
  BY <1>2, TasksAre DEF Rest, Notices
<1>8. task'["closed"].pc # "idle" => task["closed"].pc # "idle"
  BY <1>2, TasksAre DEF Rest
<1> QED
  BY <1>1, <1>6, <1>7, <1>8 DEF CardInv, Turns

LEMMA OtherTurns ==
  ASSUME OnceInv, CardInv, LockExpires \/ LockLapses \/ Restart \/ Env
  PROVE  Turns'
<1>1. CASE LockExpires \/ LockLapses \/ SetupEnds
  <2>1. UNCHANGED <<task, events, cursor, told, plan>>
    BY <1>1 DEF LockExpires, LockLapses, SetupEnds, inbox, world
  <2> QED
    BY <2>1 DEF CardInv, Turns, Answers
<1>2. CASE Restart
  <2>1. UNCHANGED <<events, cursor, told, plan>>
    BY <1>2 DEF Restart, inbox
  <2>2. \A u \in Tasks : /\ task'[u] = Idle \/ (task'[u] = [Idle EXCEPT !.pc = "emit"]
                                                /\ u = "publisher" /\ plan = "none")
    BY <1>2 DEF Restart
  <2>3. \A u \in Tasks : task'[u].pc = "idle" \/ (u = "publisher" /\ plan = "none")
    BY <2>2, IdleShape
  <2>4. /\ task'["publisher"].pc # "idle" => plan = "none"
        /\ \A u \in Tasks \ {"publisher"} : task'[u].pc = "idle"
    BY <2>3, TasksAre
  <2> QED
    BY <2>1, <2>4, TasksAre DEF CardInv, Turns, Notices
<1>3. ASSUME NEW from \in {"live", "filled"}, NEW to \in {"filled", "over", "closed"},
             PlanMoves(from, to)
      PROVE  Turns'
  <2>1. /\ UNCHANGED <<task, cursor, told>> /\ plan = from /\ plan' = to
        /\ events' = Append(events, to)
    BY <1>3 DEF PlanMoves
  <2>2. /\ task["publisher"].pc \notin {"emit", "publish"} /\ task["closed"].pc = "idle"
        /\ \A i \in 1..Len(events) : events[i] # "closed"
    BY <2>1 DEF CardInv, Turns
  <2>3. \A i \in 1..Len(events') : events'[i] = "closed" => i = Len(events') /\ to = "closed"
    BY <2>1, <2>2 DEF OnceInv, Entries
  <2> QED
    BY <2>1, <2>2, <2>3 DEF CardInv, Turns, Answers
<1> QED
  BY <1>1, <1>2, <1>3 DEF Env

-----------------------------------------------------------------------------
(* The invariant holds.                                                       *)

LEMMA CardInit == Init => CardInv
<1> SUFFICES ASSUME Init PROVE CardInv
  OBVIOUS
<1>1. \A u \in Tasks : /\ task[u].pc = "idle" \/ (u = "publisher" /\ task[u].pc = "emit")
                       /\ task[u].ret = "idle"
  <2>1. \A u \in Tasks : task[u] = Idle \/ (u = "publisher" /\ task[u] = [Idle EXCEPT !.pc = "emit"])
    BY DEF Init
  <2> QED
    BY <2>1, IdleShape, IdleAt
<1>2. "idle" \in Returns /\ {"idle", "emit"} \cap (Making \cup Writing \cup Holding) = {}
  BY DEF Returns, Making, Writing, Holding
<1>3. card.id = 0 /\ ended = FALSE /\ plan = "none" /\ events = <<>> /\ cursor = 0
  BY DEF Init, NoCard, Card
<1>4. DOMAIN root = Roots /\ \A n \in Roots : DOMAIN root[n] = {"at", "text"} /\ root[n].at = "unsent"
  BY DEF Init
<1>5. Known
  BY <1>1, <1>2, <1>3, <1>4 DEF Known, Live, Writer, Gone
<1>6. Turns
  BY <1>1, <1>3, TasksAre DEF Turns, Notices
<1>7. Sole
  BY <1>1, <1>2, <1>3, <1>4 DEF Sole, Locks, GoneOut, Stale, Alone, Gone, Posted, Live, Empty
<1> QED
  BY <1>5, <1>6, <1>7 DEF CardInv

LEMMA CardInvStep == OnceInv /\ OnceInv' /\ CardInv /\ [Next]_vars => CardInv'
<1> SUFFICES ASSUME OnceInv, OnceInv', CardInv, [Next]_vars
             PROVE  Turns' /\ Known' /\ (orphaned' \/ Sole')
  BY DEF CardInv
<1>1. CASE \E t \in Tasks : CardStep(t)
  BY <1>1, CardStepSole, CardTurns
<1>2. CASE PublisherStep
  BY <1>2, BesideSole, PublisherTurns
<1>3. CASE DeliveryStep
  BY <1>3, BesideSole, DeliveryTurns
<1>4. CASE \E n \in Notices : Answer(n)
  BY <1>4, BesideSole, AnswerTurns
<1>5. CASE LockExpires
  <2>1. UNCHANGED <<card, root, ended, orphaned, task>> /\ lock = "left" /\ lock' = "free"
    BY <1>5 DEF LockExpires, keys, world
  <2> QED
    BY <1>5, <2>1, AsideSole, OtherTurns
<1>6. CASE LockLapses
  BY <1>6, LapseSole, OtherTurns
<1>7. CASE \E t \in Tasks : SendFails(t)
  BY <1>7, SendFailsSole, CardTurns
<1>8. CASE Restart
  BY <1>8, RestartSole, OtherTurns
<1>9. CASE Env
  <2>1. CASE SetupEnds
    BY <1>9, <2>1, EndSole, OtherTurns
  <2>2. CASE \E from, to : PlanMoves(from, to)
    <3>1. UNCHANGED <<card, root, ended, orphaned, task, lock>>
      BY <2>2 DEF PlanMoves, keys
    <3> QED
      BY <1>9, <3>1, AsideSole, OtherTurns
  <2> QED
    BY <1>9, <2>1, <2>2 DEF Env
<1>10. CASE UNCHANGED vars
  <2>1. UNCHANGED <<card, root, ended, orphaned, task, lock, events, cursor, told, plan>>
    BY <1>10 DEF vars
  <2>2. Turns'
    BY <2>1 DEF CardInv, Turns, Answers
  <2> QED
    BY <2>1, <2>2, AsideSole
<1> QED
  BY <1>1, <1>2, <1>3, <1>4, <1>5, <1>6, <1>7, <1>8, <1>9, <1>10 DEF Next, Faulty

(* A setup has one root at Telegram at most, however the publisher, its       *)
(* retry, the delivery and the put-off replies interleave, unless a send      *)
(* failed after its post or the create lock lapsed under its holder           *)
(* (_send_forming_card_once and reconcile_forming_card_after_send of          *)
(* setup_card.py).                                                            *)
THEOREM OneCardOnly == Spec => []OneCard
<1>1. CardInv => OneCard
  <2> SUFFICES ASSUME CardInv, ~orphaned
               PROVE  Cardinality({n \in Roots : Posted(n)}) =< 1
    BY DEF OneCard
  <2>1. \A m, n \in Roots : Posted(m) /\ Posted(n) => m = n
    BY DEF CardInv, Sole, Alone
  <2>2. CASE Empty
    BY <2>2, FS_EmptySet DEF Empty
  <2>3. CASE ~Empty
    <3>1. PICK n \in Roots : Posted(n)
      BY <2>3 DEF Empty
    <3>2. {m \in Roots : Posted(m)} = {n}
      BY <2>1, <3>1
    <3> QED
      BY <3>2, FS_Singleton
  <2> QED
    BY <2>2, <2>3
<1> QED
  BY OnceInit, OnceStep, CardInit, CardInvStep, <1>1, PTL DEF Spec
====
