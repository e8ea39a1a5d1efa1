------------------------------- MODULE Notebook -------------------------------
(***************************************************************************)
(* What the notes of a user promise, whatever runs at once: every request  *)
(* takes place in one instant, on a note that is there and in the place    *)
(* the request is meant for, and a save gives a note tags that exist.      *)
(***************************************************************************)
EXTENDS Naturals, FiniteSets

CONSTANTS
    Notes,     \* the notes that are, were or will be
    Tags,      \* the tags that are, were or will be
    Names,     \* what tags may be called
    Writers,   \* the saves a note may have its content from
    MaxTags,   \* how many tags a save may select
    Absent     \* no note, no tag, the content from before

VARIABLES
    place,     \* place[n]: where note n is found
    content,   \* content[n]: the save it has its title and text from
    links,     \* links[n]: its tags
    name       \* name[t]: what tag t is called

vars == <<place, content, links, name>>

Places == {"active", "pinned", "archived", "trash"}
Writable == Places \ {"trash"}

Existing == {t \in Tags : name[t] # Absent}
Selections == {W \in SUBSET Existing : Cardinality(W) <= MaxTags}

Init ==
    /\ place \in [Notes -> Places \cup {Absent}]
    /\ content = [n \in Notes |-> Absent]
    /\ links \in [Notes -> SUBSET Tags]
    /\ name \in [Tags -> Names \cup {Absent}]

Write(n) ==
    /\ \E w \in Writers : content' = [content EXCEPT ![n] = w]
    /\ \E W \in Selections : links' = [links EXCEPT ![n] = W]
    /\ UNCHANGED name

Create(n) ==
    /\ place[n] = Absent
    /\ place' = [place EXCEPT ![n] = "active"]
    /\ Write(n)

Save(n) ==
    /\ place[n] \in Writable
    /\ Write(n)
    /\ UNCHANGED place

Move(n, from, to) ==
    /\ place[n] \in from
    /\ place' = [place EXCEPT ![n] = to]
    /\ UNCHANGED <<content, links, name>>

Pin(n) == Move(n, {"active"}, "pinned")
Unpin(n) == Move(n, {"pinned"}, "active")
Archive(n) == Move(n, {"active", "pinned"}, "archived")
Unarchive(n) == Move(n, {"archived"}, "active")
MoveToTrash(n) == Move(n, Writable, "trash")
Restore(n) == Move(n, {"trash"}, "active")

Destroy(n) ==
    /\ place[n] = "trash"
    /\ place' = [place EXCEPT ![n] = Absent]
    /\ content' = [content EXCEPT ![n] = Absent]
    /\ links' = [links EXCEPT ![n] = {}]
    /\ UNCHANGED name

(* A tag has a name no other tag has, when it is made and when renamed.    *)
NameTag(t, g) ==
    /\ \A u \in Tags \ {t} : name[u] # g
    /\ name' = [name EXCEPT ![t] = g]
    /\ UNCHANGED <<place, content, links>>

DeleteTag(t) ==
    /\ name' = [name EXCEPT ![t] = Absent]
    /\ links' = [n \in Notes |-> links[n] \ {t}]
    /\ UNCHANGED <<place, content>>

(* A request is refused, or finds nothing to change.                       *)
Refuse == UNCHANGED vars

Next ==
    \/ Refuse
    \/ \E n \in Notes :
          \/ Create(n) \/ Save(n) \/ Pin(n) \/ Unpin(n) \/ Archive(n)
          \/ Unarchive(n) \/ MoveToTrash(n) \/ Restore(n) \/ Destroy(n)
    \/ \E t \in Tags : DeleteTag(t) \/ \E g \in Names : NameTag(t, g)

Spec == Init /\ [][Next]_vars

=============================================================================
