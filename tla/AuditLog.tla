------------------------------- MODULE AuditLog -------------------------------
(***************************************************************************)
(* What the promotion store promises of its audit trail: per promotion, a  *)
(* gapless history that only grows at its end, in which a milestone occurs *)
(* at most once.                                                           *)
(***************************************************************************)
EXTENDS Sequences, Naturals

CONSTANTS Promotions, EventTypes, Repeatable

VARIABLE log    \* per promotion, its events in the order of their seq

Recorded(p) == {log[p][i] : i \in 1 .. Len(log[p])}

LInit == log = [p \in Promotions |-> <<>>]

Record(p, e) ==
  /\ e \in Repeatable \/ e \notin Recorded(p)
  /\ log' = [log EXCEPT ![p] = Append(@, e)]

LNext == \E p \in Promotions, e \in EventTypes : Record(p, e)

LSpec == LInit /\ [][LNext]_log

=============================================================================
