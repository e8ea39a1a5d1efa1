------------------------------ MODULE SecondFactor ------------------------------
(***************************************************************************)
(* What two-step verification promises, whatever runs at once.  A code     *)
(* that was sent is a door: it opens once, lets in one visitor who is      *)
(* meant for it, while attempts are left, and stays shut from then on.     *)
(* Only who came in by a door turns the factor on or off.  Recovery codes  *)
(* come in kits: a kit is made once, is there before the factor turns on,  *)
(* and gives a code to one login.                                          *)
(***************************************************************************)
EXTENDS Naturals

CONSTANTS
    Setups, Logins, Disablings,            \* who answers a code
    SetupDoors, LoginDoors, DisableDoors,  \* the codes sent
    Regenerations,                         \* who else makes recovery codes
    Enrolled,                              \* the setups complete from the start
    Methods,
    MaxAttempts,
    Nothing                                \* no door, no kit

Visitors == Setups \cup Logins \cup Disablings
Doors == SetupDoors \cup LoginDoors \cup DisableDoors
Kits == Setups \cup Regenerations   \* a kit is named after its maker

DoorsFor(v) ==
    IF v \in Setups THEN SetupDoors ELSE IF v \in Logins THEN LoginDoors ELSE DisableDoors

DoorsLike(d) ==
    IF d \in SetupDoors THEN SetupDoors ELSE IF d \in LoginDoors THEN LoginDoors ELSE DisableDoors

VARIABLES
    factor,   \* "off", or the method in use
    door,     \* door[d] \in {"none", "open", "shut"}
    sent,     \* sent[d]: the method the code of setup door d was sent for
    misses,   \* misses[d]: the wrong answers counted at door d
    stage,    \* stage[v] \in {"outside", "inside", "away"}
    entry,    \* entry[v]: the door visitor v, who is inside, came in by
    held,     \* held[l]: the kit login l has used a code of
    kit       \* kit[k] \in {"unmade", "fresh", "used", "gone"}

vars == <<factor, door, sent, misses, stage, entry, held, kit>>

Init ==
    /\ factor \in IF Enrolled = {} THEN {"off"} ELSE Methods
    /\ door = [d \in Doors |-> "none"]
    /\ sent \in [SetupDoors -> Methods]
    /\ misses = [d \in Doors |-> 0]
    /\ stage = [v \in Visitors |-> IF v \in Enrolled THEN "inside" ELSE "outside"]
    /\ entry = [v \in Visitors |-> Nothing]
    /\ held = [l \in Logins |-> Nothing]
    /\ kit = [k \in Kits |-> IF k \in Enrolled THEN "fresh" ELSE "unmade"]

(* A door opens, and some of its purpose that are open shut.               *)
Open(d, S) ==
    /\ door[d] = "none"
    /\ \A e \in S : door[e] = "open"
    /\ door' = [e \in Doors |-> IF e = d THEN "open" ELSE IF e \in S THEN "shut" ELSE door[e]]
    /\ UNCHANGED <<factor, sent, misses, stage, entry, held, kit>>

Shut(d) ==
    /\ door[d] = "open"
    /\ door' = [door EXCEPT ![d] = "shut"]
    /\ UNCHANGED <<factor, sent, misses, stage, entry, held, kit>>

(* The visitors in R leave, and what they held is lost.                    *)
Leave(R) ==
    /\ stage' = [v \in Visitors |-> IF v \in R THEN "away" ELSE stage[v]]
    /\ entry' = [v \in Visitors |-> IF v \in R THEN Nothing ELSE entry[v]]
    /\ held' = [l \in Logins |-> IF l \in R THEN Nothing ELSE held[l]]

WithoutMakers(R) == [k \in Kits |-> IF k \in R /\ kit[k] = "unmade" THEN "gone" ELSE kit[k]]

Admits(d, v) ==
    /\ stage[v] = "outside"
    /\ door[d] = "open"
    /\ misses[d] < MaxAttempts

Miss(v, d) ==
    /\ Admits(d, v)
    /\ misses' = [misses EXCEPT ![d] = @ + 1]
    /\ Leave({v})
    /\ kit' = WithoutMakers({v})
    /\ UNCHANGED <<factor, door, sent>>

Enter(v, d) ==
    /\ Admits(d, v)
    /\ door' = [door EXCEPT ![d] = "shut"]
    /\ stage' = [stage EXCEPT ![v] = "inside"]
    /\ entry' = [entry EXCEPT ![v] = d]
    /\ UNCHANGED <<factor, sent, misses, held, kit>>

(* The door shuts behind a visitor who never hears of it.                  *)
Waste(v, d) ==
    /\ Admits(d, v)
    /\ door' = [door EXCEPT ![d] = "shut"]
    /\ Leave({v})
    /\ kit' = WithoutMakers({v})
    /\ UNCHANGED <<factor, sent, misses>>

(* A login uses a code of a kit, perhaps without hearing of it.            *)
Burn(l, k) ==
    /\ stage[l] = "outside"
    /\ kit[k] = "fresh"
    /\ kit' = [kit EXCEPT ![k] = "used"]
    /\ \E h \in {k, Nothing} : held' = [held EXCEPT ![l] = h]
    /\ UNCHANGED <<factor, door, sent, misses, stage, entry>>

(* Without a factor a login needs no door.                                 *)
LetIn(l) ==
    /\ factor = "off"
    /\ stage[l] = "outside"
    /\ stage' = [stage EXCEPT ![l] = "inside"]
    /\ UNCHANGED <<factor, door, sent, misses, entry, held, kit>>

(* Who came in by a door; it may leave with the error it gets back.        *)
CameIn(v) == stage[v] = "inside" /\ entry[v] \in DoorsFor(v)
MayLeave(v) == Leave({}) \/ Leave({v})

WithoutKits(S) == [k \in Kits |-> IF k \in S THEN "gone" ELSE kit[k]]
Made == {k \in Kits : kit[k] # "unmade"}

Make(k, S) ==
    /\ kit[k] = "unmade"
    /\ k \in Setups => CameIn(k)
    /\ S \subseteq Made
    /\ kit' = [WithoutKits(S) EXCEPT ![k] = "fresh"]
    /\ MayLeave(k)
    /\ UNCHANGED <<factor, door, sent, misses>>

TurnOn(v) ==
    /\ CameIn(v)
    /\ v \in Made
    /\ factor' = sent[entry[v]]
    /\ UNCHANGED <<door, sent, misses, stage, entry, held, kit>>

(* A setup that could not be completed takes recovery codes along.         *)
Discard(v, S) ==
    /\ CameIn(v)
    /\ v \in Made
    /\ S \subseteq Made
    /\ kit' = WithoutKits(S)
    /\ Leave({v})
    /\ UNCHANGED <<factor, door, sent, misses>>

TurnOff(v, S) ==
    /\ CameIn(v)
    /\ S \subseteq Made
    /\ factor' = "off"
    /\ kit' = WithoutKits(S)
    /\ MayLeave(v)
    /\ UNCHANGED <<door, sent, misses>>

(* Some give up, all at once when the server stops.                        *)
GiveUp(R) ==
    /\ Leave(R)
    /\ kit' = WithoutMakers(R)
    /\ UNCHANGED <<factor, door, sent, misses>>

(* Most of what a request does shows nowhere.                               *)
Idle == UNCHANGED vars

Next ==
    \/ Idle
    \/ \E R \in SUBSET (Visitors \cup Kits) : GiveUp(R)
    \/ \E d \in Doors : Shut(d) \/ \E S \in SUBSET DoorsLike(d) : Open(d, S)
    \/ \E v \in Visitors : \E d \in DoorsFor(v) : Miss(v, d) \/ Enter(v, d) \/ Waste(v, d)
    \/ \E l \in Logins : LetIn(l) \/ \E k \in Kits : Burn(l, k)
    \/ \E v \in Setups : TurnOn(v)
    \/ \E S \in SUBSET Kits :
          \/ \E k \in Kits : Make(k, S)
          \/ \E v \in Setups : Discard(v, S)
          \/ \E v \in Disablings : TurnOff(v, S)

Spec == Init /\ [][Next]_vars

=============================================================================
