------------------------------ MODULE Huffman ------------------------------
(***************************************************************************)
(* The Huffman compressor for embedded text (Huffman_String.cpp): a step is *)
(* one round of the loop that merges the two rarest nodes, one node of the  *)
(* breadth-first flattening, the packing of one character, or one bit of    *)
(* the decoder.  Characters are numbers above 0.  The array of the bytes is *)
(* as long as MaxBytes says (65000 in the code; the constructor runs at     *)
(* compile time, where a write past its end does not compile).              *)
(***************************************************************************)
EXTENDS Integers, Sequences, SequencesExt, FiniteSetsExt

CONSTANTS
    Texts,      \* inputs: sequences of at least two different characters
    MaxBytes    \* the length of compressed_bytes

VARIABLES
    text,       \* input
    nodes,      \* the temporary nodes, leaves first
    queue,      \* nodes to flatten
    flat_idx,
    tree,       \* the flat tree; tree[n + 1] is the code's tree[n]
    bytes,      \* compressed_bytes
    packed,     \* characters packed so far
    writer,     \* current_byte_idx and current_bit_shift
    reader,     \* BitReader's byte_idx and bit_idx
    curr,       \* curr_node_idx
    result,     \* what the decoder has written
    stage       \* "merge", "flatten", "pack" or "decode"

vars == <<text, nodes, queue, flat_idx, tree, bytes, packed, writer, reader, curr,
          result, stage>>

Times(c) == Len(SelectSeq(text, LAMBDA x : x = c))

Leaf(c, f) == [ch |-> c, freq |-> f, left |-> 0, right |-> 0, active |-> TRUE]

\* The constructor starts with a leaf per character, in the order of the codes.
Init ==
    /\ text \in Texts
    /\ LET chars == SetToSortSeq(Range(text), <)
       IN  nodes = [i \in 1..Len(chars) |-> Leaf(chars[i], Times(chars[i]))]
    /\ queue = <<>> /\ flat_idx = 0 /\ tree = <<>>
    /\ bytes = [i \in 0..(MaxBytes - 1) |-> 0] /\ packed = 0
    /\ writer = [byte |-> 0, bit |-> 0] /\ reader = [byte |-> 0, bit |-> 0]
    /\ curr = 0 /\ result = <<>>
    /\ stage = "merge"

-----------------------------------------------------------------------------
(* Building the tree *)

\* Mutant of Pair: the old minimum is forgotten when there is a new one.
Pair_Forgets ==
    LET scan[i \in 0..Len(nodes)] ==
            IF i = 0 THEN [first |-> 0, second |-> 0]
            ELSE LET p == scan[i - 1]
                 IN  IF ~nodes[i].active THEN p
                     ELSE IF p.first = 0 \/ nodes[i].freq < nodes[p.first].freq
                     THEN [first |-> i, second |-> IF p.second = 0 THEN p.first ELSE p.second]
                     ELSE IF p.second = 0 \/ nodes[i].freq < nodes[p.second].freq
                     THEN [p EXCEPT !.second = i] ELSE p
    IN  scan[Len(nodes)]

\* The scan for the two active nodes of least frequency; 0 stands for -1.
Pair ==
    LET scan[i \in 0..Len(nodes)] ==
            IF i = 0 THEN [first |-> 0, second |-> 0]
            ELSE LET p == scan[i - 1]
                 IN  IF ~nodes[i].active THEN p
                     ELSE IF p.first = 0 \/ nodes[i].freq < nodes[p.first].freq
                     THEN [first |-> i, second |-> p.first]
                     ELSE IF p.second = 0 \/ nodes[i].freq < nodes[p.second].freq
                     THEN [p EXCEPT !.second = i] ELSE p
    IN  scan[Len(nodes)]

Merge ==
    LET a == Pair.first
        b == Pair.second
    IN  /\ stage = "merge"
        /\ IF b # 0
           THEN /\ nodes' = Append([nodes EXCEPT ![a].active = FALSE, ![b].active = FALSE],
                        [ch |-> 0, freq |-> nodes[a].freq + nodes[b].freq,
                         left |-> a, right |-> b, active |-> TRUE])
                /\ UNCHANGED <<queue, stage>>
           ELSE /\ queue' = <<Len(nodes)>>
                /\ stage' = "flatten"
                /\ UNCHANGED nodes
        /\ UNCHANGED <<text, flat_idx, tree, bytes, packed, writer, reader, curr, result>>

IsLeaf(n) == nodes[n].ch # 0

\* The children that become nodes of the flat tree, in the order of their index.
Children(n) == SelectSeq(<<n.left, n.right>>, LAMBDA c : ~IsLeaf(c))

\* How a child is written: a character negated, or the index it will have.
Link(c, index) == IF IsLeaf(c) THEN -nodes[c].ch ELSE index

Flatten ==
    /\ stage = "flatten"
    /\ IF queue = <<>>
       THEN stage' = "pack" /\ UNCHANGED <<queue, flat_idx, tree>>
       ELSE LET n   == nodes[Head(queue)]
                mid == IF IsLeaf(n.left) THEN flat_idx ELSE flat_idx + 1
            IN  /\ tree' = Append(tree, [left |-> Link(n.left, mid),
                                         right |-> Link(n.right, mid + 1)])
                /\ flat_idx' = flat_idx + Len(Children(n))
                /\ queue' = Tail(queue) \o Children(n)
                /\ UNCHANGED stage
    /\ UNCHANGED <<text, nodes, bytes, packed, writer, reader, curr, result>>

-----------------------------------------------------------------------------
(* Writing and reading *)

\* BitPath: the bits from the root to the character as a number, looking to the
\* left first; a length of 0 says that the character is not below this node.
find_path(target) ==
    LET NotFound == [bits |-> 0, len |-> 0]
        path[n \in 0..Len(tree) - 1] ==
            LET Below(child, bit) ==
                    IF child <= 0
                    THEN IF -child = target THEN [bits |-> bit, len |-> 1] ELSE NotFound
                    ELSE IF path[child].len = 0 THEN NotFound
                    ELSE [bits |-> bit * 2 ^ path[child].len + path[child].bits,
                          len  |-> path[child].len + 1]
                left == Below(tree[n + 1].left, 0)
            IN  IF left.len > 0 THEN left ELSE Below(tree[n + 1].right, 1)
    IN  path[0]

\* (path.bits >> (path.len - 1 - b)) & 1 for each b from 0
PathBits(path) == [b \in 1..path.len |-> (path.bits \div 2 ^ (path.len - b)) % 2]

\* The next bit's place, for the writer and for the reader.
Advance(at) ==
    IF at.bit + 1 = 8 THEN [byte |-> at.byte + 1, bit |-> 0]
                      ELSE [at EXCEPT !.bit = @ + 1]

BitOf(byte, k) == (byte \div 2 ^ k) % 2

\* byte | (1 << k)
SetBit(byte, k) == IF BitOf(byte, k) = 1 THEN byte ELSE byte + 2 ^ k

\* Mutant of PutBit: fills a byte from its low bit.
PutBit_LowFirst(out, bit) ==
    [bytes |-> IF bit = 1 THEN [out.bytes EXCEPT ![out.at.byte] = SetBit(@, out.at.bit)]
                          ELSE out.bytes,
     at    |-> Advance(out.at)]

PutBit(out, bit) ==
    [bytes |-> IF bit = 1 THEN [out.bytes EXCEPT ![out.at.byte] = SetBit(@, 7 - out.at.bit)]
                          ELSE out.bytes,
     at    |-> Advance(out.at)]

\* One round of the packing loop, or its end.
Pack ==
    /\ stage = "pack"
    /\ IF packed < Len(text)
       THEN LET out == FoldLeft(PutBit, [bytes |-> bytes, at |-> writer],
                                PathBits(find_path(text[packed + 1])))
            IN  /\ bytes' = out.bytes
                /\ writer' = out.at
                /\ packed' = packed + 1
                /\ UNCHANGED stage
       ELSE stage' = "decode" /\ UNCHANGED <<bytes, writer, packed>>
    /\ UNCHANGED <<text, nodes, queue, flat_idx, tree, reader, curr, result>>

\* How many bytes the constructor says it has written.
compressed_size == writer.byte + (IF writer.bit > 0 THEN 1 ELSE 0)

\* The bit that read_bit returns.
read_bit == BitOf(bytes[reader.byte], 7 - reader.bit)

\* One round of decompressEmbeddedData's loop.
Decode ==
    LET step == IF read_bit = 0 THEN tree[curr + 1].left ELSE tree[curr + 1].right
    IN  /\ stage = "decode"
        /\ Len(result) < Len(text)
        /\ reader' = Advance(reader)
        /\ curr' = IF step <= 0 THEN 0 ELSE step
        /\ result' = IF step <= 0 THEN Append(result, -step) ELSE result
        /\ UNCHANGED <<text, nodes, queue, flat_idx, tree, bytes, packed, writer, stage>>

Next == Merge \/ Flatten \/ Pack \/ Decode

Spec == Init /\ [][Next]_vars

-----------------------------------------------------------------------------
(* Properties *)

\* The decoder writes the text, character by character, from the bytes that the
\* constructor packed: it reads no byte after the compressed_size first, and
\* stands where the writer stopped exactly when the text is complete.
Lossless ==
    /\ IsPrefix(result, text)
    /\ stage = "decode" =>
        /\ reader = writer <=> result = text
        /\ result # text => reader.byte < compressed_size

\* The lengths of the code words of a prefix code satisfy Kraft's inequality.
Lengths ==
    LET chars == Range(text)
        most  == Cardinality(chars) - 1
    IN  {l \in [chars -> 1..most] :
            MapThenSumSet(LAMBDA c : 2 ^ (most - l[c]), chars) <= 2 ^ most}

\* No prefix code for the characters of this text makes it shorter.
Optimal ==
    (stage = "decode" /\ result = <<>>) =>
        \A l \in Lengths :
            8 * writer.byte + writer.bit <= MapThenSumSet(LAMBDA c : Times(c) * l[c], Range(text))

=============================================================================
