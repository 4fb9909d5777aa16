------------------------------ MODULE QoiCodec ------------------------------
(***************************************************************************)
(* The QOI compressor (QOI4MCU.cpp) and the decoder for microcontrollers    *)
(* (DecompessQOI.cpp).  Feed is one pixel through the compressor's loop;    *)
(* Decode is one round of the decoder's loop over the bytes written so far. *)
(* The decoder sees only those bytes, so running the two in step is the     *)
(* same as running the decoder on the finished file.  Channels are bytes    *)
(* and wrap around as the code's uint8_t and int8_t do.                     *)
(***************************************************************************)
EXTENDS Integers, Sequences, SequencesExt

CONSTANTS
    Pixels,     \* the pixels of images: [r, g, b, a] with bytes
    MaxChanges  \* bound: how often a pixel differs from the one before it

VARIABLES
    prevPixel, history, runLength,  \* the compressor's registers
    stream,                         \* bytes written and not yet decoded
    px, colorHistory,               \* the decoder's registers
    todo,       \* history: pixels compressed and not yet drawn
    drawn, due, \* history: what the last round drew, and what it had to draw
    changes, finished

\* Channels are bytes.
Pixel == [r : 0..255, g : 0..255, b : 0..255, a : 0..255]

ASSUME QoiAssumption == Pixels \subseteq Pixel /\ MaxChanges \in Nat

encoder == <<prevPixel, history, runLength>>
decoder == <<px, colorHistory>>
qoiVars == <<prevPixel, history, runLength, stream, px, colorHistory, todo, drawn,
          due, changes, finished>>

Black == [r |-> 0, g |-> 0, b |-> 0, a |-> 255]

hash(p) == (p.r * 3 + p.g * 5 + p.b * 7 + p.a * 11) % 64

QoiInit ==
    /\ prevPixel = Black /\ px = Black
    /\ history = [i \in 0..63 |-> Black]
    /\ colorHistory = [i \in 0..63 |-> Black]
    /\ runLength = 0
    /\ stream = <<>> /\ todo = <<>> /\ drawn = <<>> /\ due = <<>>
    /\ changes = 0
    /\ finished = FALSE

-----------------------------------------------------------------------------
(* The compressor *)

\* A difference as an int8_t.
Int8(n) == ((n + 128) % 256) - 128

\* Mutant of Run: written without the bias of one.
Run_NoBias(n) == IF n = 0 THEN <<>> ELSE <<192 + n>>

\* QOI_OP_RUN of n pixels; no pixels, no byte.
Run(n) == IF n = 0 THEN <<>> ELSE <<192 + n - 1>>

Small(d) == d \in -2..1

\* The bytes of a pixel that is neither a repetition nor in the table.
Coded(c, p) ==
    LET dr == Int8(c.r - p.r)
        dg == Int8(c.g - p.g)
        db == Int8(c.b - p.b)
        rg == Int8(dr - dg)
        bg == Int8(db - dg)
    IN  CASE c.a # p.a -> <<255, c.r, c.g, c.b, c.a>>
          [] c.a = p.a /\ Small(dr) /\ Small(dg) /\ Small(db) ->
                <<64 + (dr + 2) * 16 + (dg + 2) * 4 + db + 2>>
          [] c.a = p.a /\ ~(Small(dr) /\ Small(dg) /\ Small(db))
             /\ dg \in -32..31 /\ rg \in -8..7 /\ bg \in -8..7 ->
                <<128 + dg + 32, (rg + 8) * 16 + bg + 8>>
          [] OTHER -> <<254, c.r, c.g, c.b>>

\* Two codes fewer than six bits have: the others are QOI_OP_RGB and QOI_OP_RGBA.
RunLimit == 62

\* The pixel before again: count it, and write the run when it is full.
Repeat ==
    /\ ~finished /\ stream = <<>>
    /\ runLength' = (runLength + 1) % RunLimit
    /\ stream' = IF runLength + 1 = RunLimit THEN Run(RunLimit) ELSE <<>>
    /\ todo' = Append(todo, prevPixel)
    /\ drawn' = <<>> /\ due' = <<>>
    /\ UNCHANGED <<prevPixel, history, decoder, changes, finished>>

\* Another pixel: the run so far, then an index or the coded pixel.
Feed(c) ==
    /\ ~finished /\ stream = <<>> /\ changes < MaxChanges
    /\ c # prevPixel
    /\ stream' = Run(runLength) \o
            IF history[hash(c)] = c THEN <<hash(c)>> ELSE Coded(c, prevPixel)
    /\ history' = [history EXCEPT ![hash(c)] = c]
    /\ prevPixel' = c
    /\ runLength' = 0
    /\ todo' = Append(todo, c)
    /\ changes' = changes + 1
    /\ drawn' = <<>> /\ due' = <<>>
    /\ UNCHANGED <<decoder, finished>>

\* The end of the image: the run so far and the eight bytes of the end marker.
Finish ==
    /\ ~finished /\ stream = <<>>
    /\ finished' = TRUE
    /\ runLength' = 0
    /\ stream' = Run(runLength) \o <<0, 0, 0, 0, 0, 0, 0, 1>>
    /\ drawn' = <<>> /\ due' = <<>>
    /\ UNCHANGED <<prevPixel, history, decoder, todo, changes>>

-----------------------------------------------------------------------------
(* The decoder *)

Add(n, d) == (n + d) % 256

\* The last pixel's alpha with other colours.
Rgb(r, g, b) == [r |-> r, g |-> g, b |-> b, a |-> px.a]

\* The pixel that the bytes at the front of the stream stand for.
Decoded(s) ==
    LET b == s[1]
        dg == (b % 64) - 32
    IN  CASE b = 254 -> Rgb(s[2], s[3], s[4])
          [] b = 255 -> [r |-> s[2], g |-> s[3], b |-> s[4], a |-> s[5]]
          [] b < 64 -> colorHistory[b]
          [] b \in 64..127 -> Rgb(Add(px.r, ((b \div 16) % 4) - 2),
                                  Add(px.g, ((b \div 4) % 4) - 2),
                                  Add(px.b, (b % 4) - 2))
          [] b \in 128..191 -> Rgb(Add(px.r, dg - 8 + (s[2] \div 16)),
                                   Add(px.g, dg),
                                   Add(px.b, dg - 8 + (s[2] % 16)))
          [] OTHER -> px

\* How many bytes they are, and how many pixels.
Bytes(b) == CASE b = 254 -> 4 [] b = 255 -> 5 [] b \in 128..191 -> 2 [] OTHER -> 1
Count(b) == IF b \in 192..253 THEN (b % 64) + 1 ELSE 1

\* One round of the loop; it ends when every pixel has been drawn.
Decode ==
    LET p == Decoded(stream)
        n == Count(Head(stream))
    IN  /\ stream # <<>> /\ todo # <<>>
        /\ px' = p
        /\ colorHistory' = [colorHistory EXCEPT ![hash(p)] = p]
        /\ drawn' = [i \in 1..n |-> p]
        /\ due' = SubSeq(todo, 1, IF n < Len(todo) THEN n ELSE Len(todo))
        /\ todo' = SubSeq(todo, n + 1, Len(todo))
        /\ stream' = SubSeq(stream, Bytes(Head(stream)) + 1, Len(stream))
        /\ UNCHANGED <<encoder, changes, finished>>

QoiNext == Repeat \/ (\E c \in Pixels : Feed(c)) \/ Finish \/ Decode

QoiSpec == QoiInit /\ [][QoiNext]_qoiVars

-----------------------------------------------------------------------------
(* Properties *)

\* The decoder draws exactly the pixels that were compressed, in order, and
\* once the stream is used up only the pixels of the current run are missing.
Lossless ==
    /\ drawn = due
    /\ stream = <<>> => Len(todo) = runLength

\* Compressor and decoder keep the same table although only the decoder stores
\* the pixel of a run again; the last pixel is always in it.
TablesAgree ==
    stream = <<>> =>
        /\ colorHistory = history
        /\ px = prevPixel
        /\ history[hash(prevPixel)] = prevPixel

\* QOI: the decoder draws exactly the pixels the compressor was given, and the
\* colour tables of the two stay the same.
QoiLossless == Lossless /\ TablesAgree

=============================================================================
