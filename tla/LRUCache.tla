------------------------------ MODULE LRUCache ------------------------------
(***************************************************************************)
(* MemoryFriendlyLRUCache: a recency list and a hash map whose nodes come   *)
(* from two pools of Capacity blocks each.  A pool is the sequence of its   *)
(* free blocks, the one handed out next first.  An exhausted pool throws,   *)
(* which would leave list and map in disagreement.                          *)
(***************************************************************************)
EXTENDS Integers, Sequences, SequencesExt, FiniteSets

CONSTANTS Keys, Values, Capacity, NoValue

VARIABLES
    list,       \* m_list: its nodes from front to back
    item,       \* the key and value stored in each block of the list's pool
    map,        \* m_map: key to the list node and the map's own block
    listPool,   \* free blocks of the list's allocator
    mapPool,    \* free blocks of the map's allocator
    threw,      \* a call ended in bad_alloc
    answer      \* what the last call returned

cacheVars == <<list, item, map, listPool, mapPool, threw, answer>>

Blocks == 1..Capacity

\* With no blocks put would evict from an empty list.
ASSUME CacheAssumption == Capacity \in Nat \ {0}

CacheTypeOK ==
    /\ list \in Seq(Blocks) /\ listPool \in Seq(Blocks) /\ mapPool \in Seq(Blocks)
    /\ item \in [Blocks -> (Keys \X Values) \cup {NoValue}]
    /\ DOMAIN map \subseteq Keys
    /\ \A k \in DOMAIN map : map[k] \in [at : Blocks, block : Blocks]
    /\ threw \in BOOLEAN
    /\ answer \in Values \cup {NoValue}

\* init_pool pushes the blocks one by one, so the last one is on top.
init_pool == [i \in Blocks |-> Capacity + 1 - i]

CacheInit ==
    /\ list = <<>>
    /\ item = [b \in Blocks |-> NoValue]
    /\ map = <<>>
    /\ listPool = init_pool
    /\ mapPool = init_pool
    /\ threw = FALSE
    /\ answer = NoValue

\* m_list.splice(m_list.begin(), m_list, node): the iterator finds the node.
splice(b) ==
    LET at == CHOOSE i \in 1..Len(list) : list[i] = b
    IN  <<b>> \o RemoveAt(list, at)

-----------------------------------------------------------------------------
\* get of a key that is cached.
GetHit(k) ==
    /\ k \in DOMAIN map
    /\ list' = splice(map[k].at)
    /\ answer' = item[map[k].at][2]
    /\ UNCHANGED <<item, map, listPool, mapPool, threw>>

GetMiss(k) ==
    /\ k \notin DOMAIN map
    /\ answer' = NoValue
    /\ UNCHANGED <<list, item, map, listPool, mapPool, threw>>

\* Mutant of PutUpdate: the position is not refreshed.
PutUpdate_Stays(k, v) ==
    /\ k \in DOMAIN map
    /\ item' = [item EXCEPT ![map[k].at] = <<k, v>>]
    /\ answer' = NoValue
    /\ UNCHANGED <<list, map, listPool, mapPool, threw>>

\* put of a key that is cached.
PutUpdate(k, v) ==
    /\ k \in DOMAIN map
    /\ item' = [item EXCEPT ![map[k].at] = <<k, v>>]
    /\ list' = splice(map[k].at)
    /\ answer' = NoValue
    /\ UNCHANGED <<map, listPool, mapPool, threw>>

Full == Len(list) >= Capacity

\* emplace_front, then m_map[key]; kept, index, free and room are what eviction
\* left of the list, the map and the two pools.  Each throws on an empty pool.
Emplace(k, v, kept, index, free, room) ==
    LET node == IF free = <<>> THEN <<>> ELSE <<Head(free)>>
        done == node # <<>> /\ room # <<>>
    IN  /\ answer' = NoValue
        /\ threw' = (threw \/ ~done)
        /\ list' = node \o kept
        /\ item' = [b \in Blocks |-> IF node = <<b>> THEN <<k, v>> ELSE item[b]]
        /\ listPool' = IF node = <<>> THEN free ELSE Tail(free)
        /\ map' = IF done THEN [x \in DOMAIN index \cup {k} |->
                        IF x = k THEN [at |-> Head(free), block |-> Head(room)]
                                 ELSE index[x]] ELSE index
        /\ mapPool' = IF done THEN Tail(room) ELSE room

\* put of a new key while there is room.
PutNew(k, v) ==
    /\ k \notin DOMAIN map
    /\ ~Full
    /\ Emplace(k, v, list, map, listPool, mapPool)

\* Mutant of PutEvict: the map keeps the entry of the evicted key.
PutEvict_MapKeeps(k, v) ==
    /\ k \notin DOMAIN map
    /\ Full
    /\ Emplace(k, v, Front(list), map, <<Last(list)>> \o listPool, mapPool)

\* put of a new key into a full cache: the back of the list leaves the map,
\* then the list, and its blocks are the next ones to be handed out.
PutEvict(k, v) ==
    LET old == item[Last(list)][1]
    IN  /\ k \notin DOMAIN map
        /\ Full
        /\ Emplace(k, v, Front(list), [x \in DOMAIN map \ {old} |-> map[x]],
                   <<Last(list)>> \o listPool, <<map[old].block>> \o mapPool)

CacheNext ==
    \E k \in Keys :
        \/ GetHit(k)
        \/ GetMiss(k)
        \/ \E v \in Values : PutUpdate(k, v) \/ PutNew(k, v) \/ PutEvict(k, v)

CacheSpec == CacheInit /\ [][CacheNext]_cacheVars

-----------------------------------------------------------------------------
(* Properties *)

\* Eviction always makes room in both pools before put asks for a block, so no
\* call ends in bad_alloc.
NeverThrows == ~threw

\* Every block is free or in use, never both; the map has an entry for each
\* list node, under the key stored there.
PoolsAndMapAgree ==
    /\ Range(list) \cup Range(listPool) = Blocks
    /\ Len(list) + Len(listPool) = Capacity
    /\ {map[k].block : k \in DOMAIN map} \cup Range(mapPool) = Blocks
    /\ Cardinality(DOMAIN map) + Len(mapPool) = Capacity
    /\ {<<k, map[k].at>> : k \in DOMAIN map} = {<<item[b][1], b>> : b \in Range(list)}

\* Cache: the pools never run out in the middle of put; every block of both is
\* free or in use, and list and map agree.
CacheSound == CacheTypeOK /\ NeverThrows /\ PoolsAndMapAgree

\* List, map and pools together keep the keys used last.
Lru == INSTANCE LeastRecentlyUsed WITH
    recent <- [i \in 1..Len(list) |-> item[list[i]]]

\* Cache: get and put implement least recently used.
CacheKeepsMostRecent == Lru!Spec

=============================================================================
