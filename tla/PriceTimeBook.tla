--------------------------- MODULE PriceTimeBook ---------------------------
(***************************************************************************)
(* What the order book promises: an order that comes in trades with the     *)
(* resting orders of the other side, at the best price first and in the     *)
(* order of arrival within a price, until its quantity or the prices it     *)
(* accepts are used up; what is left of it rests behind the others.         *)
(***************************************************************************)
EXTENDS Integers, Sequences, FiniteSets, SequencesExt

CONSTANTS Ids, Prices, Qtys,
          Capacity,     \* how many orders may rest
          NoOrder       \* "no order is being matched"

VARIABLES
    resting,    \* per side and price, the resting orders by arrival
    incoming    \* the order being matched, with what is left of it

vars == <<resting, incoming>>

Sides == {"BUY", "SELL"}
Other(side) == IF side = "BUY" THEN "SELL" ELSE "BUY"

Levels(side) == {p \in Prices : resting[side][p] # <<>>}

BestOf(side, levels) ==
    CHOOSE p \in levels : \A q \in levels : IF side = "BUY" THEN p >= q ELSE p <= q

Crosses(order, p) == IF order.side = "BUY" THEN order.price >= p ELSE order.price <= p

CanTrade ==
    /\ incoming # NoOrder
    /\ incoming.qty > 0
    /\ \E p \in Levels(Other(incoming.side)) : Crosses(incoming, p)

RestingIds == {resting[s][p][i].id : <<s, p, i>> \in
                {t \in Sides \X Prices \X (1..Capacity) : t[3] <= Len(resting[t[1]][t[2]])}}

Init ==
    /\ resting = [s \in Sides |-> [p \in Prices |-> <<>>]]
    /\ incoming = NoOrder

\* Order ids are unique among the resting orders.
Submit(o) ==
    /\ incoming = NoOrder
    /\ o.id \notin RestingIds
    /\ incoming' = o
    /\ UNCHANGED resting

\* The oldest order at the best price trades the smaller of the quantities.
Trade ==
    /\ CanTrade
    /\ LET side == Other(incoming.side)
           p    == BestOf(side, Levels(side))
           old  == Head(resting[side][p])
           n    == IF old.qty < incoming.qty THEN old.qty ELSE incoming.qty
       IN  /\ incoming' = [incoming EXCEPT !.qty = @ - n]
           /\ resting' = [resting EXCEPT ![side][p] =
                            IF n = old.qty THEN Tail(@)
                                           ELSE [@ EXCEPT ![1].qty = old.qty - n]]

\* What is left rests, or is dropped when the book is full.
Rest ==
    /\ incoming # NoOrder
    /\ ~CanTrade
    /\ incoming' = NoOrder
    /\ resting' = IF incoming.qty > 0 /\ Cardinality(RestingIds) < Capacity
                  THEN [resting EXCEPT ![incoming.side][incoming.price] =
                            Append(@, [id |-> incoming.id, qty |-> incoming.qty])]
                  ELSE resting

Cancel(id) ==
    /\ incoming = NoOrder
    /\ id \in RestingIds
    /\ resting' = [s \in Sides |-> [p \in Prices |->
                    SelectSeq(resting[s][p], LAMBDA o : o.id # id)]]
    /\ UNCHANGED incoming

Next ==
    \/ \E id \in Ids, p \in Prices, n \in Qtys, s \in Sides :
            Submit([id |-> id, price |-> p, qty |-> n, side |-> s])
    \/ Trade
    \/ Rest
    \/ \E id \in Ids : Cancel(id)

Spec == Init /\ [][Next]_vars

=============================================================================
