---------------------------- MODULE MCComponents ----------------------------
(***************************************************************************)
(* Six components that share no state with one another or with the modules  *)
(* that have runs of their own.  A behaviour runs one of them, the subject; *)
(* the others stay as they start.  Those with theorems are extended, so that *)
(* the run checks the definitions the theorems state.                       *)
(***************************************************************************)
EXTENDS Integers, Sequences, FiniteSets, TLC, PipeSessions, RobotControl, LRUCache,
        QoiCodec

CONSTANTS
    Ids, Prices, Qtys, PoolSize, NoOrder,   \* OrderBook
    Texts, MaxBytes                         \* Huffman

VARIABLES
    subject,
    node, free, limits, orderMap, incoming, pc, cur, level,
    text, nodes, queue, flat_idx, tree, bytes, packed, writer, reader, curr, result, stage

bookVars  == <<node, free, limits, orderMap, incoming, pc, cur, level>>
textVars  == <<text, nodes, queue, flat_idx, tree, bytes, packed, writer, reader, curr,
               result, stage>>

Book  == INSTANCE OrderBook
Text  == INSTANCE Huffman

\* What the theorems about the components assume holds of the instance.
ASSUME ComponentAssumptions == SessionsAssumption /\ RobotAssumption

\* Only the subject "text" needs more than one text to start with.
Init ==
    /\ subject \in {"pipe", "book", "cache", "qoi", "text", "robot"}
    /\ SessionsInit /\ Book!Init /\ CacheInit /\ QoiInit /\ Text!Init /\ RobotInit
    /\ subject # "text" => text = <<1, 2>>

RunPipe ==
    /\ subject = "pipe"
    /\ SessionsNext
    /\ UNCHANGED <<subject, bookVars, cacheVars, qoiVars, textVars, robotVars>>

RunBook ==
    /\ subject = "book"
    /\ Book!Next
    /\ UNCHANGED <<subject, sessionVars, cacheVars, qoiVars, textVars, robotVars>>

RunCache ==
    /\ subject = "cache"
    /\ CacheNext
    /\ UNCHANGED <<subject, sessionVars, bookVars, qoiVars, textVars, robotVars>>

RunQoi ==
    /\ subject = "qoi"
    /\ QoiNext
    /\ UNCHANGED <<subject, sessionVars, bookVars, cacheVars, textVars, robotVars>>

RunText ==
    /\ subject = "text"
    /\ Text!Next
    /\ UNCHANGED <<subject, sessionVars, bookVars, cacheVars, qoiVars, robotVars>>

RunRobot ==
    /\ subject = "robot"
    /\ RobotNext
    /\ UNCHANGED <<subject, sessionVars, bookVars, cacheVars, qoiVars, textVars>>

Next == RunPipe \/ RunBook \/ RunCache \/ RunQoi \/ RunText \/ RunRobot

vars == <<subject, sessionVars, bookVars, cacheVars, qoiVars, textVars, robotVars>>

Spec == Init /\ [][Next]_vars

-----------------------------------------------------------------------------
(* The instance *)

\* The book only compares order ids for equality.
Symmetry == Permutations(Ids)

Rgba(r, g, b, a) == [r |-> r, g |-> g, b |-> b, a |-> a]

\* Pixels between which every opcode occurs: QOI_OP_DIFF with -2 and 1 and from
\* 0 to 255 and back, QOI_OP_LUMA with the ends of its green range, QOI_OP_RGB,
\* QOI_OP_RGBA; the last but two and the last share a slot of the table.
SomePixels == {
    Rgba(0, 0, 0, 255), Rgba(255, 254, 1, 255), Rgba(1, 1, 1, 255),
    Rgba(2, 0, 0, 255), Rgba(31, 31, 24, 255), Rgba(224, 224, 231, 255),
    Rgba(128, 127, 3, 255), Rgba(0, 0, 0, 0), Rgba(40, 0, 0, 7)}

Copies(c, n) == [i \in 1..n |-> c]

\* All short texts of two or three characters, and texts of five characters with
\* all combinations of three frequencies.
SomeTexts ==
    {s \in UNION {[1..n -> 1..3] : n \in 2..4} : Cardinality({s[i] : i \in DOMAIN s}) > 1}
    \cup
    {Copies(1, f[1]) \o Copies(2, f[2]) \o Copies(3, f[3]) \o Copies(4, f[4])
        \o Copies(5, f[5]) : f \in [1..5 -> {1, 2, 4}]}

\* The third command's type is not known.
SomeProgram == <<"known", "known", "unknown">>

-----------------------------------------------------------------------------
(* Properties *)

\* Order book: the free list and the levels' lists partition m_pool, append and
\* remove keep each level doubly linked and its total_volume the sum of its
\* orders, m_order_map knows exactly the resting orders, and between calls of
\* limit_order and cancel_order no bid meets an ask and no level is empty.
BookSound ==
    /\ Book!TypeOK /\ Book!PoolPartitioned /\ Book!LevelsSound
    /\ Book!MapFindsOrders /\ Book!NeverCrossed

\* Order book: the matching loops of limit_order implement price-time priority.
BookPriceTimePriority == Book!PriceTimePriority

\* Huffman: decompressEmbeddedData gives back the text from the packed bytes, and
\* reads all of their bits and no others.
TextLossless == Text!Lossless

\* Huffman: no prefix code makes the text shorter than the constructor's.
TextOptimal == Text!Optimal

=============================================================================
