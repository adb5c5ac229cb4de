------------------------------- MODULE FlipClose -------------------------------
(***************************************************************************)
(* The range flip: closing a position that reached its range target goes   *)
(* through a marker kept as a candidate record under flip:{symbol}:{range},*)
(* claimed and completed with the same fenced scripts as a candidate, but  *)
(* with an empty stream event id.  Prices stay at the target.              *)
(***************************************************************************)
EXTENDS CandidateRecord

CONSTANTS
  Token,            \* of Tokens: the lease of the executor's latest claim
  ConfirmSeconds    \* a number: FlipConfirmTimeoutSeconds

VARIABLES
  rec,       \* the marker
  expires,   \* seconds until a pending marker times out
  close      \* how far the executor got with the close

vars == <<rec, expires, close>>

TypeOK ==
  /\ rec \in Record
  /\ expires \in 0 .. ConfirmSeconds
  /\ close \in {"wanted", "claimed", "requested", "done"}

Init ==
  /\ rec = Absent
  /\ expires = 0
  /\ close = "wanted"

\* BeginFlipCloseAsync: claim the marker, then complete it as pending.  A
\* refusal of either leaves the position open until the next price.
Claim ==
  /\ close = "wanted"
  /\ MayClaim(rec, NoEvent, FlipClaim)
  /\ rec' = Claimed(rec, NoEvent, Token)
  /\ close' = "claimed"
  /\ UNCHANGED expires

Complete ==
  /\ close = "claimed"
  /\ IF MayComplete(rec, NoEvent, Token)
     THEN /\ rec' = Completed(rec, "completed", "flip_pending")
          /\ expires' = ConfirmSeconds
          /\ close' = "requested"
     ELSE close' = "wanted" /\ UNCHANGED <<rec, expires>>

\* OverrideFlipClaim rewrites pending markers only.
Rearmed == IF rec.outcome = "flip_pending" THEN Overridden(rec) ELSE rec

\* The broker closes the position, or does not confirm in time; the marker is
\* released either way.
Answer ==
  /\ close = "requested"
  /\ close' \in {"done", "wanted"}
  /\ rec' = Rearmed
  /\ UNCHANGED expires

\* A candidate for the opposite side finds the marker past its expiry.
Expire ==
  /\ rec.outcome = "flip_pending"
  /\ expires = 0
  /\ rec' = Rearmed
  /\ UNCHANGED <<expires, close>>

KeyExpires ==
  /\ Due(rec)
  /\ rec' = Absent
  /\ UNCHANGED <<expires, close>>

Tick ==
  /\ ~Due(rec)
  /\ rec' = Aged(rec)
  /\ expires' = Before(expires)
  /\ UNCHANGED close

Next == Claim \/ Complete \/ Answer \/ Expire \/ KeyExpires \/ Tick

\* Prices keep coming, and the broker confirms one of the closes it is asked for.
Spec ==
  /\ Init
  /\ [][Next]_vars
  /\ WF_vars(Claim) /\ WF_vars(Complete)
  /\ SF_vars(Answer /\ close' = "done")
  /\ WF_vars(KeyExpires) /\ WF_vars(Tick)

\* What AutoTradeEngineTests.cs:470 asserts: at the range target the
\* position is closed.
ClosedAtTarget == <>(close = "done")
=============================================================================
