------------------------- MODULE ManualSignals_proofs -------------------------
(* Proofs about ManualSignals for any number of targets, commands, faults and *)
(* any backlog.                                                               *)
(*                                                                            *)
(* A target is booked once because its ordinal is in the Redis set before its *)
(* leg is on the row, and only a worker that put it there goes on to book it. *)
EXTENDS ManualSignals, TLAPS

RowFields == {"st", "fill", "exec", "rev", "pos", "legs"}

Shape ==
  /\ DOMAIN row = RowFields
  /\ \E S : row.legs \in Seq(S)

Legs0(legs) == 1..Len(legs)

\* The legs of targets differ, and their ordinals are marked.
Distinct(legs) ==
  \A i, j \in Legs0(legs) : legs[i].tp # 0 /\ legs[i].tp = legs[j].tp => i = j

Marked(legs, set) == \A i \in Legs0(legs) : legs[i].tp \in set \cup {0}

\* The leg the worker is about to book is marked and not on the row.
Awaited(legs, w) ==
  w.pc = "book" =>
    /\ w.item.n \in ordinals
    /\ \A i \in Legs0(legs) : legs[i].tp # 0 => legs[i].tp # w.item.n

BookInv ==
  /\ Shape
  /\ Distinct(row.legs) /\ Marked(row.legs, ordinals) /\ Awaited(row.legs, worker)

LEMMA BookInit == Init => BookInv
<1> SUFFICES ASSUME Init PROVE BookInv
  OBVIOUS
<1>1. row.legs = <<>> /\ DOMAIN row = RowFields /\ worker.pc = "idle"
  BY DEF Init, RowFields, Idle
<1>2. <<>> \in Seq({}) /\ Len(<<>>) = 0
  OBVIOUS
<1> QED
  BY <1>1, <1>2 DEF BookInv, Shape, Distinct, Marked, Awaited, Legs0

-----------------------------------------------------------------------------
(* What the store does to the legs: nothing, or one leg is added at the end.  *)

Kept(w) == DOMAIN w = RowFields /\ w.legs = row.legs

Added(w, tp) ==
  /\ DOMAIN w = RowFields
  /\ \E leg : leg.tp = tp /\ w.legs = Append(row.legs, leg)

LEMMA StoreKeeps ==
  ASSUME Shape
  PROVE  /\ \A status : Kept(ExecStatus(row, status))
         /\ \A r : Kept(Rearmed(row, r))
         /\ Kept(Expired(row)) /\ Kept(MarkedFilled(row)) /\ Kept(Filled(row))
         /\ Kept(RowCancelled(row)) /\ Kept(RowDeleted(row))
<1>1. DOMAIN row = RowFields
  BY DEF Shape
<1>2. \A status : Kept(ExecStatus(row, status))
  BY <1>1 DEF ExecStatus, Kept, RowFields
<1>3. \A r : Kept(Rearmed(row, r))
  BY <1>1 DEF Rearmed, Kept, RowFields
<1>4. Kept(Expired(row))
  BY <1>1 DEF Expired, Kept, RowFields
<1>5. Kept(MarkedFilled(row))
  BY <1>4 DEF MarkedFilled, Kept, RowFields
<1>6. Kept(Filled(row))
  BY <1>1 DEF Filled, Kept, RowFields
<1>7. Kept(RowCancelled(row)) /\ Kept(RowDeleted(row))
  BY <1>1 DEF RowCancelled, RowDeleted, Kept, RowFields
<1> QED
  BY <1>2, <1>3, <1>4, <1>5, <1>6, <1>7

LEMMA LegAdded ==
  ASSUME Shape, NEW tp, NEW units
  PROVE  Kept(LegClosed(row, tp, units)) \/ Added(LegClosed(row, tp, units), tp)
<1> DEFINE share == IF units = 0 THEN Remaining(row.legs) ELSE units
           leg == [tp |-> tp, units |-> share]
           legs == Append(row.legs, leg)
           st == IF Used(legs) = Targets THEN "closed" ELSE "open"
           w == [row EXCEPT !.legs = legs, !.st = st]
<1>1. LegClosed(row, tp, units) \in {row, w}
  BY DEF LegClosed
<1>2. leg.tp = tp
  OBVIOUS
<1> HIDE DEF leg, st, legs
<1>3. DOMAIN w = RowFields /\ w.legs = legs
  BY DEF Shape, RowFields
<1> HIDE DEF w
<1> QED
  BY <1>1, <1>2, <1>3 DEF legs, Kept, Added, Shape

LEMMA GroupAdded ==
  ASSUME Shape
  PROVE  Kept(GroupClosed(row)) \/ Added(GroupClosed(row), 0)
<1> DEFINE leg == [tp |-> 0, units |-> Targets]
           w == [row EXCEPT !.st = "closed", !.legs = Append(@, leg)]
<1>1. GroupClosed(row) \in {row, w}
  BY DEF GroupClosed
<1>2. leg.tp = 0
  OBVIOUS
<1> HIDE DEF leg
<1>3. DOMAIN w = RowFields /\ w.legs = Append(row.legs, leg)
  BY DEF Shape, RowFields
<1> HIDE DEF w
<1> QED
  BY <1>1, <1>2, <1>3 DEF Kept, Added, Shape

LEMMA AppendIs ==
  ASSUME NEW S, NEW s \in Seq(S), NEW e
  PROVE  /\ Append(s, e) \in Seq(S \cup {e})
         /\ Len(s) \in Nat /\ Len(Append(s, e)) = Len(s) + 1
         /\ Append(s, e)[Len(s) + 1] = e
         /\ \A i \in 1..Len(s) : Append(s, e)[i] = s[i]
<1>1. s \in Seq(S \cup {e})
  OBVIOUS
<1> QED
  BY <1>1

-----------------------------------------------------------------------------
(* The steps                                                                  *)

(* A leg without a target, or none; nothing new is awaited.                   *)
LEMMA PlainStep ==
  ASSUME BookInv, Kept(row') \/ Added(row', 0), ordinals \subseteq ordinals',
         worker' = worker \/ worker'.pc # "book"
  PROVE  BookInv'
<1>1. CASE Kept(row')
  BY <1>1 DEF BookInv, Kept, Shape, Distinct, Marked, Awaited, Legs0
<1>2. CASE Added(row', 0)
  <2>1. PICK leg : leg.tp = 0 /\ row'.legs = Append(row.legs, leg)
    BY <1>2 DEF Added
  <2>2. PICK S : row.legs \in Seq(S)
    BY DEF BookInv, Shape
  <2> DEFINE k == Len(row.legs)
             new == row'.legs
  <2>3. /\ new \in Seq(S \cup {leg}) /\ k \in Nat /\ Len(new) = k + 1 /\ new[k + 1] = leg
        /\ \A i \in 1..k : new[i] = row.legs[i]
    BY <2>1, <2>2, AppendIs
  <2> HIDE DEF new
  <2>4. \A i \in 1..Len(new) : new[i].tp # 0 => i \in 1..k /\ new[i] = row.legs[i]
    BY <2>1, <2>3
  <2>5. Distinct(new) /\ Marked(new, ordinals')
    BY <2>4, <2>3 DEF BookInv, Distinct, Marked, Legs0
  <2>6. worker'.pc = "book" =>
          /\ worker'.item.n \in ordinals'
          /\ \A i \in 1..Len(new) : new[i].tp # 0 => new[i].tp # worker'.item.n
    BY <2>4 DEF BookInv, Awaited, Legs0
  <2> QED
    BY <1>2, <2>3, <2>5, <2>6 DEF BookInv, Shape, Added, new, Distinct, Marked, Awaited, Legs0
<1> QED
  BY <1>1, <1>2

(* The awaited leg is added; the worker awaits none after it.                 *)
LEMMA BookStep ==
  ASSUME BookInv, worker.pc = "book", Kept(row') \/ Added(row', worker.item.n),
         ordinals' = ordinals, worker'.pc # "book"
  PROVE  BookInv'
<1>1. CASE Kept(row')
  BY <1>1, PlainStep
<1>2. CASE Added(row', worker.item.n)
  <2>1. PICK leg : leg.tp = worker.item.n /\ row'.legs = Append(row.legs, leg)
    BY <1>2 DEF Added
  <2>2. PICK S : row.legs \in Seq(S)
    BY DEF BookInv, Shape
  <2> DEFINE k == Len(row.legs)
             new == row'.legs
  <2>3. /\ new \in Seq(S \cup {leg}) /\ k \in Nat /\ Len(new) = k + 1 /\ new[k + 1] = leg
        /\ \A i \in 1..k : new[i] = row.legs[i]
    BY <2>1, <2>2, AppendIs
  <2> HIDE DEF new
  <2>4. Distinct(new)
    BY <2>1, <2>3 DEF BookInv, Distinct, Awaited, Legs0
  <2>5. Marked(new, ordinals)
    BY <2>1, <2>3 DEF BookInv, Marked, Awaited, Legs0
  <2> QED
    BY <1>2, <2>3, <2>4, <2>5 DEF BookInv, Shape, Added, new, Distinct, Marked, Awaited, Legs0
<1> QED
  BY <1>1, <1>2

LEMMA IdleAt == Idle.pc = "idle"
BY DEF Idle

LEMMA HandleStep == BookInv /\ Handle => BookInv'
<1> SUFFICES ASSUME BookInv, Handle PROVE BookInv'
  OBVIOUS
<1>1. Shape
  BY DEF BookInv
<1>2. Kept(row)
  BY DEF Kept, BookInv, Shape
<1>3. CASE HandleStatus
  BY <1>1, <1>3, StoreKeeps, PlainStep, IdleAt DEF HandleStatus, Done
<1>4. CASE HandleIntent
  BY <1>2, <1>4, PlainStep, IdleAt DEF HandleIntent, Done
<1>5. CASE HandleFill
  <2>1. worker'.pc # "book"
    BY <1>5, IdleAt DEF HandleFill, Goes, Done
  <2> QED
    BY <1>1, <1>5, <2>1, StoreKeeps, PlainStep DEF HandleFill
<1>6. CASE HandleCancelled
  <2>1. worker'.pc # "book"
    BY <1>6, IdleAt DEF HandleCancelled, Goes, Done
  <2>2. Kept(row')
    BY <1>1, <1>2, <1>6, StoreKeeps DEF HandleCancelled
  <2> QED
    BY <1>6, <2>1, <2>2, PlainStep DEF HandleCancelled
<1>7. CASE HandleTakeProfit
  <2>1. CASE worker' = Idle /\ ordinals' = ordinals
    BY <1>2, <1>7, <2>1, PlainStep, IdleAt DEF HandleTakeProfit
  <2>2. CASE item.n \notin ordinals /\ ordinals' = ordinals \cup {item.n} /\ Goes("book")
    <3>1. row' = row
      BY <1>7 DEF HandleTakeProfit
    <3>2. worker'.item.n = item.n
      BY <2>2 DEF Goes
    <3> QED
      BY <2>2, <3>1, <3>2 DEF BookInv, Shape, Distinct, Marked, Awaited, Legs0
  <2> QED
    BY <1>7, <2>1, <2>2 DEF HandleTakeProfit, Done
<1>8. CASE HandleClosed
  BY <1>1, <1>2, <1>8, LegAdded, PlainStep, IdleAt DEF HandleClosed, Booked, Done
<1>9. CASE HandleGroupResult
  BY <1>1, <1>2, <1>9, GroupAdded, PlainStep, IdleAt DEF HandleGroupResult, Booked, Done
<1> QED
  BY <1>3, <1>4, <1>5, <1>6, <1>7, <1>8, <1>9 DEF Handle

WorkerInv == DOMAIN worker = {"pc", "item", "rev"}

LEMMA WorkerStep == WorkerInv /\ [Next]_vars => WorkerInv'
<1> SUFFICES ASSUME WorkerInv, [Next]_vars PROVE WorkerInv'
  OBVIOUS
<1>1. DOMAIN Idle = {"pc", "item", "rev"}
  BY DEF Idle
<1>2. CASE Handle
  <2>1. worker' = Idle \/ \E pc, rev : worker' = [pc |-> pc, item |-> item, rev |-> rev]
    BY <1>2 DEF Handle, HandleStatus, HandleIntent, HandleFill, HandleCancelled,
                HandleTakeProfit, HandleClosed, HandleGroupResult, Booked, Goes, Done
  <2> QED
    BY <1>1, <2>1 DEF WorkerInv
<1>3. CASE Finish
  BY <1>1, <1>3 DEF Finish, Done, WorkerInv
<1>4. CASE Restart \/ HandlerFails
  BY <1>1, <1>4 DEF Restart, HandlerFails, Done, WorkerInv
<1>5. CASE \/ Order \/ Command \/ DispatchIntent \/ DispatchEvent \/ EngineCommand
           \/ Midnight \/ Sweep \/ CommandFails \/ UNCHANGED vars
  BY <1>5 DEF Order, Command, Update, Flag, Request, Direct, Arm, Publish, DispatchIntent,
              DispatchEvent, EngineCommand, Midnight, Sweep, CommandFails, bot, vars, WorkerInv
<1>6. ASSUME NEW r \in Revs, EngineTakes(r) \/ OrderFills(r) \/ Adopt(r) \/ OrderExpires(r)
                             \/ StopHit(r) \/ \E n \in Ordinals : TargetReached(r, n)
      PROVE  WorkerInv'
  BY <1>6 DEF EngineTakes, OrderFills, Adopt, OrderExpires, StopHit, TargetReached, bot,
              WorkerInv
<1> QED
  BY <1>2, <1>3, <1>4, <1>5, <1>6 DEF Next

LEMMA FinishStep == BookInv /\ WorkerInv /\ Finish => BookInv'
<1> SUFFICES ASSUME BookInv, WorkerInv, Finish PROVE BookInv'
  OBVIOUS
<1>1. Shape /\ Kept(row) /\ ordinals' = ordinals
  BY DEF BookInv, Kept, Shape, Finish
<1>2. CASE worker.pc = "book"
  <2> DEFINE units == IF worker.item.n = Targets THEN 0 ELSE 1
  <2>1. row' = LegClosed(row, worker.item.n, units) /\ worker' = Idle
    BY <1>2 DEF Finish, Done
  <2> HIDE DEF units
  <2>2. Kept(row') \/ Added(row', worker.item.n)
    BY <1>1, <2>1, LegAdded
  <2>3. worker'.pc # "book"
    BY <2>1, IdleAt
  <2> QED
    BY <1>1, <1>2, <2>2, <2>3, BookStep
<1>3. CASE worker.pc # "book"
  <2>1. worker'.pc # "book"
    BY <1>3, IdleAt DEF Finish, Done, WorkerInv
  <2>2. Kept(row')
    BY <1>1, <1>3, StoreKeeps DEF Finish
  <2> QED
    BY <1>1, <2>1, <2>2, PlainStep
<1> QED
  BY <1>2, <1>3

LEMMA FaultStep == BookInv /\ (Restart \/ HandlerFails \/ CommandFails) => BookInv'
<1> SUFFICES ASSUME BookInv, Restart \/ HandlerFails \/ CommandFails PROVE BookInv'
  OBVIOUS
<1>1. Shape /\ Kept(row)
  BY DEF BookInv, Kept, Shape
<1>2. Kept(row')
  BY <1>1, StoreKeeps DEF Restart, HandlerFails, CommandFails
<1>3. ordinals' = ordinals /\ (worker' = worker \/ worker' = Idle)
  BY DEF Restart, HandlerFails, CommandFails, Done
<1> QED
  BY <1>2, <1>3, PlainStep, IdleAt

(* The branches of the owner's path through the database.                     *)
DirectVerbs == {"cancel", "delete", "close", "close_part", "active"}
OwnerInv ==
  /\ DOMAIN owner = {"pc", "verb", "rev"}
  /\ owner.pc = "direct" => owner.verb \in DirectVerbs

LEMMA OwnerStep == OwnerInv /\ [Next]_vars => OwnerInv'
<1> SUFFICES ASSUME OwnerInv, [Next]_vars PROVE OwnerInv'
  OBVIOUS
<1>1. ASSUME owner' = owner PROVE OwnerInv'
  BY <1>1 DEF OwnerInv
<1>2. ASSUME owner' = Away PROVE OwnerInv'
  BY <1>2 DEF OwnerInv, Away
<1>3. CASE Order
  BY <1>3 DEF Order, OrderModify, OrderDelete, OrderCancel, OrderActive, OrderClose, Runs,
              OwnerInv, DirectVerbs
<1>4. CASE Command
  <2>1. CASE Update
    BY <2>1 DEF Update, Runs, OwnerInv
  <2>2. CASE Flag \/ Arm
    <3>1. DOMAIN owner' = DOMAIN owner /\ owner'.pc \in {"request", "publish"}
      BY <2>2 DEF Flag, Arm, OwnerInv
    <3> QED
      BY <3>1 DEF OwnerInv
  <2>3. CASE Request \/ Direct \/ Publish
    BY <1>2, <2>3 DEF Request, Direct, Publish
  <2> QED
    BY <1>4, <2>1, <2>2, <2>3 DEF Command
<1>5. CASE Restart \/ CommandFails
  BY <1>2, <1>5 DEF Restart, CommandFails
<1>6. CASE \/ DispatchIntent \/ DispatchEvent \/ Handle \/ Finish \/ EngineCommand
           \/ Midnight \/ Sweep \/ HandlerFails \/ UNCHANGED vars
  BY <1>1, <1>6 DEF DispatchIntent, DispatchEvent, Handle, Finish, EngineCommand, Midnight,
                    Sweep, HandlerFails, vars
<1>7. ASSUME NEW r \in Revs, EngineTakes(r) \/ OrderFills(r) \/ Adopt(r) \/ OrderExpires(r)
                             \/ StopHit(r) \/ \E n \in Ordinals : TargetReached(r, n)
      PROVE  OwnerInv'
  BY <1>1, <1>7 DEF EngineTakes, OrderFills, Adopt, OrderExpires, StopHit, TargetReached
<1> QED
  BY <1>3, <1>4, <1>5, <1>6, <1>7 DEF Next

LEMMA CommandStep == BookInv /\ OwnerInv /\ Command => BookInv'
<1> SUFFICES ASSUME BookInv, OwnerInv, Command PROVE BookInv'
  OBVIOUS
<1>1. Shape /\ Kept(row)
  BY DEF BookInv, Kept, Shape
<1>2. ordinals' = ordinals /\ worker' = worker
  BY DEF Command, Update, Flag, Request, Direct, Arm, Publish, bot
<1>3. Kept(row') \/ Added(row', 0)
  <2>1. CASE Direct
    <3>1. row' \in {RowCancelled(row), RowDeleted(row), LegClosed(row, 0, 0),
                    LegClosed(row, 0, 1), MarkedFilled(row)}
      BY <2>1 DEF Direct, OwnerInv, DirectVerbs
    <3> QED
      BY <1>1, <3>1, StoreKeeps, LegAdded
  <2>2. CASE Arm
    BY <1>1, <2>2, StoreKeeps DEF Arm
  <2>3. CASE Update \/ Flag \/ Request \/ Publish
    BY <1>1, <2>3 DEF Update, Flag, Request, Publish, bot
  <2> QED
    BY <2>1, <2>2, <2>3 DEF Command
<1> QED
  BY <1>2, <1>3, PlainStep

LEMMA OnceStep == BookInv /\ OwnerInv /\ WorkerInv /\ [Next]_vars => BookInv'
<1> SUFFICES ASSUME BookInv, OwnerInv, WorkerInv, [Next]_vars PROVE BookInv'
  OBVIOUS
<1>1. Shape /\ Kept(row)
  BY DEF BookInv, Kept, Shape
<1>2. ASSUME UNCHANGED <<row, ordinals, worker>>
      PROVE  BookInv'
  BY <1>1, <1>2, PlainStep
<1>3. CASE Order \/ DispatchIntent \/ DispatchEvent \/ EngineCommand \/ Midnight
  BY <1>2, <1>3 DEF Order, DispatchIntent, DispatchEvent, EngineCommand, Midnight, bot
<1>4. ASSUME NEW r \in Revs, EngineTakes(r) \/ OrderFills(r) \/ Adopt(r) \/ OrderExpires(r)
                             \/ StopHit(r) \/ \E n \in Ordinals : TargetReached(r, n)
      PROVE  BookInv'
  BY <1>2, <1>4 DEF EngineTakes, OrderFills, Adopt, OrderExpires, StopHit, TargetReached, bot
<1>5. CASE Sweep
  BY <1>1, <1>5, StoreKeeps, PlainStep DEF Sweep
<1>6. CASE UNCHANGED vars
  BY <1>2, <1>6 DEF vars, bot
<1> QED
  BY <1>3, <1>4, <1>5, <1>6, CommandStep, HandleStep, FinishStep, FaultStep DEF Next

(* A take profit is booked on the signal at most once, through repeated       *)
(* events, restarts and a target reached under two revisions                  *)
(* (_handle_take_profit).                                                     *)
THEOREM TargetBookedOnce == Spec => []BookedOnce
<1>1. BookInv => BookedOnce
  BY DEF BookInv, Distinct, Legs0, BookedOnce
<1>2. Init => OwnerInv /\ WorkerInv
  BY DEF Init, OwnerInv, Away, WorkerInv, Idle
<1> QED
  BY BookInit, OnceStep, OwnerStep, WorkerStep, <1>1, <1>2, PTL DEF Spec
=============================================================================
