------------------------- MODULE LeastRecentlyUsed -------------------------
(***************************************************************************)
(* What the cache promises: it holds the Capacity keys used last, each with *)
(* the value put last; get answers from it and counts as a use.             *)
(***************************************************************************)
EXTENDS Integers, Sequences, SequencesExt

CONSTANTS Keys, Values, Capacity, NoValue

VARIABLES
    recent,     \* <<key, value>> pairs, the one used last first
    answer      \* what the last call returned

vars == <<recent, answer>>

At(k) == {i \in 1..Len(recent) : recent[i][1] = k}

Init == recent = <<>> /\ answer = NoValue

\* get
Hit(k) == \E i \in At(k) :
    /\ answer' = recent[i][2]
    /\ recent' = <<recent[i]>> \o RemoveAt(recent, i)

Miss(k) ==
    /\ At(k) = {}
    /\ answer' = NoValue
    /\ UNCHANGED recent

\* put of a key that is held, and of another one: the key used longest ago has
\* to go when there is no room.
Renew(k, v) == \E i \in At(k) :
    /\ answer' = NoValue
    /\ recent' = <<<<k, v>>>> \o RemoveAt(recent, i)

Add(k, v) ==
    /\ At(k) = {}
    /\ answer' = NoValue
    /\ recent' = <<<<k, v>>>> \o IF Len(recent) < Capacity THEN recent ELSE Front(recent)

Next ==
    \E k \in Keys :
        Hit(k) \/ Miss(k) \/ \E v \in Values : Renew(k, v) \/ Add(k, v)

Spec == Init /\ [][Next]_vars

=============================================================================
