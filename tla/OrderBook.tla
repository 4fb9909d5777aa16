----------------------------- MODULE OrderBook -----------------------------
(***************************************************************************)
(* The order book of Solution/HFT: orders are nodes of a fixed pool, linked *)
(* into a free list or into the FIFO of their price level; a hash map finds *)
(* an order by its id.  limit_order makes one step per round of its loops.  *)
(* The program has one thread; pc says where in limit_order it is.          *)
(***************************************************************************)
EXTENDS Integers, Sequences, FiniteSets, FiniteSetsExt, SequencesExt

CONSTANTS
    Ids,        \* order ids
    Prices,
    Qtys,       \* quantities of submitted orders
    PoolSize,   \* MaxOrders, at least 1
    NoOrder     \* "no order is being matched"

VARIABLES
    node,       \* m_pool: the nodes
    free,       \* m_free_list
    limits,     \* m_buy_limits and m_sell_limits: price to level
    orderMap,   \* m_order_map: id to node
    incoming,   \* the arguments of limit_order and remaining_qty
    pc,         \* where limit_order is
    cur,        \* resting_order
    level       \* best_sell_price or best_buy_price

vars == <<node, free, limits, orderMap, incoming, pc, cur, level>>

Null == 0
Slots == 1..PoolSize
Sides == {"BUY", "SELL"}
Other(side) == IF side = "BUY" THEN "SELL" ELSE "BUY"

\* What a free node holds apart from next is never read: allocate and
\* limit_order overwrite all of it.
Blank == [id |-> Null, price |-> 0, qty |-> 0, side |-> "BUY", prev |-> Null,
          next |-> Null]

TypeOK ==
    /\ node \in [Slots -> [id : Ids \cup {Null}, price : Prices \cup {0}, qty : Nat,
                           side : Sides, prev : Slots \cup {Null},
                           next : Slots \cup {Null}]]
    /\ free \in Slots \cup {Null}
    /\ \A s \in Sides :
        /\ DOMAIN limits[s] \subseteq Prices
        /\ \A p \in DOMAIN limits[s] :
            limits[s][p] \in [volume : Nat, head : Slots \cup {Null},
                              tail : Slots \cup {Null}]
    /\ DOMAIN orderMap \subseteq Ids
    /\ \A id \in DOMAIN orderMap : orderMap[id] \in Slots
    /\ pc \in {"idle", "outer", "inner"}
    /\ cur \in Slots \cup {Null}

\* OrderPool(): every node is linked to the one after it.
Init ==
    /\ node = [n \in Slots |-> [Blank EXCEPT !.next = IF n = PoolSize THEN Null ELSE n + 1]]
    /\ free = 1
    /\ limits = [s \in Sides |-> <<>>]
    /\ orderMap = <<>>
    /\ incoming = NoOrder
    /\ pc = "idle"
    /\ cur = Null
    /\ level = 0

-----------------------------------------------------------------------------
(* Pool and lists *)

\* f without k.
Erase(f, k) == [x \in DOMAIN f \ {k} |-> f[x]]

\* f with k mapped to v.
Put(f, k, v) == [x \in DOMAIN f \cup {k} |-> IF x = k THEN v ELSE f[x]]

\* deallocate, on the nodes; the caller makes n the head of the free list.
deallocate(nodes, n) == [nodes EXCEPT ![n] = [Blank EXCEPT !.next = free]]

\* Limit::remove, on the nodes.
Unlink(nodes, n) ==
    [m \in Slots |->
        CASE m = nodes[n].prev -> [nodes[m] EXCEPT !.next = nodes[n].next]
          [] m = nodes[n].next -> [nodes[m] EXCEPT !.prev = nodes[n].prev]
          [] OTHER -> nodes[m]]

\* Limit::remove, on the level.
Shortened(lim, nodes, n) ==
    [volume |-> lim.volume - nodes[n].qty,
     head |-> IF lim.head = n THEN nodes[n].next ELSE lim.head,
     tail |-> IF lim.tail = n THEN nodes[n].prev ELSE lim.tail]

\* Limit::append, on the level; a new level has neither head nor tail.
Lengthened(lim, n, qty) ==
    [volume |-> lim.volume + qty, head |-> IF lim.head = Null THEN n ELSE lim.head,
     tail |-> n]

NewLimit == [volume |-> 0, head |-> Null, tail |-> Null]

LimitAt(side, p) == IF p \in DOMAIN limits[side] THEN limits[side][p] ELSE NewLimit

-----------------------------------------------------------------------------
(* limit_order *)

\* begin(): the maps are sorted, asks ascending and bids descending.
Best(side) == IF side = "BUY" THEN Max(DOMAIN limits[side]) ELSE Min(DOMAIN limits[side])

\* Mutant of Crosses: a price that is equal does not match.
Crosses_Strict(order, p) == IF order.side = "BUY" THEN order.price > p ELSE order.price < p

Crosses(order, p) == IF order.side = "BUY" THEN order.price >= p ELSE order.price <= p

Resting == Other(incoming.side)

MoreToMatch ==
    /\ incoming.qty > 0
    /\ DOMAIN limits[Resting] # {}
    /\ Crosses(incoming, Best(Resting))

\* The call.  An id identifies one resting order.
LimitOrder(id, p, n, s) ==
    /\ pc = "idle"
    /\ id \notin DOMAIN orderMap
    /\ incoming' = [id |-> id, price |-> p, qty |-> n, side |-> s]
    /\ pc' = "outer"
    /\ UNCHANGED <<node, free, limits, orderMap, cur, level>>

\* The outer loop picks the best level and starts at its head.
PickLevel ==
    /\ pc = "outer"
    /\ MoreToMatch
    /\ level' = Best(Resting)
    /\ cur' = limits[Resting][Best(Resting)].head
    /\ pc' = "inner"
    /\ UNCHANGED <<node, free, limits, orderMap, incoming>>

\* Mutant of Match: next is read after the node was recycled.
Match_NextAfterFree ==
    LET n    == IF node[cur].qty < incoming.qty THEN node[cur].qty ELSE incoming.qty
        paid == [node EXCEPT ![cur].qty = @ - n]
        lim  == [limits[Resting][level] EXCEPT !.volume = @ - n]
        gone == paid[cur].qty = 0
    IN  /\ pc = "inner"
        /\ cur # Null
        /\ incoming.qty > 0
        /\ incoming' = [incoming EXCEPT !.qty = @ - n]
        /\ node' = IF gone THEN deallocate(Unlink(paid, cur), cur) ELSE paid
        /\ free' = IF gone THEN cur ELSE free
        /\ limits' = [limits EXCEPT ![Resting][level] =
                        IF gone THEN Shortened(lim, paid, cur) ELSE lim]
        /\ orderMap' = IF gone THEN Erase(orderMap, node[cur].id) ELSE orderMap
        /\ cur' = node'[cur].next
        /\ UNCHANGED <<pc, level>>

\* One round of the inner loop: trade with resting_order; when it is used up,
\* detach it, forget its id and recycle it.
Match ==
    LET n    == IF node[cur].qty < incoming.qty THEN node[cur].qty ELSE incoming.qty
        paid == [node EXCEPT ![cur].qty = @ - n]
        lim  == [limits[Resting][level] EXCEPT !.volume = @ - n]
        gone == paid[cur].qty = 0
    IN  /\ pc = "inner"
        /\ cur # Null
        /\ incoming.qty > 0
        /\ incoming' = [incoming EXCEPT !.qty = @ - n]
        /\ node' = IF gone THEN deallocate(Unlink(paid, cur), cur) ELSE paid
        /\ free' = IF gone THEN cur ELSE free
        /\ limits' = [limits EXCEPT ![Resting][level] =
                        IF gone THEN Shortened(lim, paid, cur) ELSE lim]
        /\ orderMap' = IF gone THEN Erase(orderMap, node[cur].id) ELSE orderMap
        /\ cur' = node[cur].next
        /\ UNCHANGED <<pc, level>>

\* After the inner loop, a level without orders is deleted.
LeaveLevel ==
    /\ pc = "inner"
    /\ cur = Null \/ incoming.qty = 0
    /\ limits' = IF limits[Resting][level].head = Null
                 THEN [limits EXCEPT ![Resting] = Erase(@, level)] ELSE limits
    /\ pc' = "outer"
    /\ cur' = Null
    /\ level' = 0
    /\ UNCHANGED <<node, free, orderMap, incoming>>

\* The second phase: what is left takes a node of the pool, if there is one,
\* and becomes the tail of its level.
Book ==
    LET o   == incoming
        lim == LimitAt(o.side, o.price)
    IN  /\ pc = "outer"
        /\ ~MoreToMatch
        /\ IF o.qty > 0 /\ free # Null
           THEN /\ node' = [m \in Slots |->
                    CASE m = free -> [id |-> o.id, price |-> o.price, qty |-> o.qty,
                                      side |-> o.side, prev |-> lim.tail, next |-> Null]
                      [] m = lim.tail -> [node[m] EXCEPT !.next = free]
                      [] OTHER -> node[m]]
                /\ free' = node[free].next
                /\ limits' = [limits EXCEPT ![o.side] =
                                Put(@, o.price, Lengthened(lim, free, o.qty))]
                /\ orderMap' = Put(orderMap, o.id, free)
           ELSE UNCHANGED <<node, free, limits, orderMap>>
        /\ incoming' = NoOrder
        /\ pc' = "idle"
        /\ UNCHANGED <<cur, level>>

-----------------------------------------------------------------------------

\* cancel_order of an order that rests; any other id is ignored.
CancelOrder(id) ==
    /\ pc = "idle"
    /\ id \in DOMAIN orderMap
    /\ LET n   == orderMap[id]
           s   == node[n].side
           p   == node[n].price
           lim == Shortened(limits[s][p], node, n)
       IN  /\ limits' = [limits EXCEPT ![s] =
                            IF lim.head = Null THEN Erase(@, p) ELSE Put(@, p, lim)]
           /\ node' = deallocate(Unlink(node, n), n)
           /\ free' = n
           /\ orderMap' = Erase(orderMap, id)
    /\ UNCHANGED <<incoming, pc, cur, level>>

Next ==
    \/ \E id \in Ids, p \in Prices, n \in Qtys, s \in Sides : LimitOrder(id, p, n, s)
    \/ PickLevel
    \/ Match
    \/ LeaveLevel
    \/ Book
    \/ \E id \in Ids : CancelOrder(id)

Spec == Init /\ [][Next]_vars

-----------------------------------------------------------------------------
(* Properties *)

\* The nodes reached from n through next, in order (at most PoolSize of them).
Chain(n) ==
    LET walk[k \in 0..PoolSize] ==
            IF k = 0 THEN <<>>
            ELSE LET s == walk[k - 1]
                     m == IF s = <<>> THEN n ELSE node[Last(s)].next
                 IN  IF m = Null \/ Len(s) < k - 1 THEN s ELSE Append(s, m)
    IN  walk[PoolSize]

Occupied == {<<s, p>> \in Sides \X Prices : p \in DOMAIN limits[s]}

\* Every node of the pool is in the free list or in exactly one level's list,
\* and in it once: nothing leaks and nothing is used after it was recycled.
PoolPartitioned ==
    LET lists == {Chain(free)} \cup {Chain(limits[t[1]][t[2]].head) : t \in Occupied}
    IN  /\ UNION {Range(l) : l \in lists} = Slots
        /\ Len(Chain(free))
             + MapThenSumSet(LAMBDA t : Len(Chain(limits[t[1]][t[2]].head)), Occupied)
           = PoolSize

\* A level's list is doubly linked from head to tail, its volume is the sum of
\* its orders, all of them of its side and price and with something left.
LevelsSound ==
    \A t \in Occupied :
        LET lim  == limits[t[1]][t[2]]
            list == Chain(lim.head)
        IN  /\ lim.tail = IF list = <<>> THEN Null ELSE Last(list)
            /\ lim.volume = FoldSeq(LAMBDA n, sum : node[n].qty + sum, 0, list)
            /\ \A i \in 1..Len(list) :
                /\ node[list[i]].prev = IF i = 1 THEN Null ELSE list[i - 1]
                /\ node[list[i]].side = t[1] /\ node[list[i]].price = t[2]
                /\ node[list[i]].qty > 0

\* The hash map knows exactly the resting orders, each under its own id.
MapFindsOrders ==
    {<<id, orderMap[id]>> : id \in DOMAIN orderMap} =
        UNION {{<<node[n].id, n>> : n \in Range(Chain(limits[t[1]][t[2]].head))} :
                t \in Occupied}

\* Between calls no bid meets an ask, and every level has an order.
NeverCrossed ==
    pc = "idle" =>
        /\ \A b \in DOMAIN limits["BUY"], a \in DOMAIN limits["SELL"] : b < a
        /\ \A t \in Occupied : limits[t[1]][t[2]].head # Null

\* The linked lists and the pool implement price-time priority.
QueueAt(s, p) ==
    IF p \in DOMAIN limits[s]
    THEN LET list == Chain(limits[s][p].head)
         IN  [i \in 1..Len(list) |-> [id |-> node[list[i]].id, qty |-> node[list[i]].qty]]
    ELSE <<>>

Ideal == INSTANCE PriceTimeBook WITH
    Capacity <- PoolSize,
    resting <- [s \in Sides |-> [p \in Prices |-> QueueAt(s, p)]]

PriceTimePriority == Ideal!Spec

=============================================================================
