---------------------------- MODULE AttachmentShelf ----------------------------
(***************************************************************************)
(* What the attachment part of Bridopen promises its user, with no         *)
(* database, no disk and no concurrent requests: each note of the account  *)
(* is live, in the trash or gone, and has a shelf of attachments that can  *)
(* be opened.  Attachments are put on and taken off live notes only, a     *)
(* shelf never holds more than MaxAttachments of them, and a note that is  *)
(* deleted for good takes its whole shelf away in the same instant.        *)
(*                                                                         *)
(* The one exception is an attachment whose upload is about to be reported *)
(* as failed although it is on its shelf, because an answer was lost: it   *)
(* may drop off again, whatever the state of its note.                     *)
(***************************************************************************)
EXTENDS Naturals, FiniteSets

CONSTANTS
    Notes,          \* the notes of one account
    Attachments,    \* everything that may ever be attached
    MaxAttachments, \* limit of attachments per note
    AnswersGetLost  \* whether an upload may succeed without learning of it

VARIABLES
    state,    \* state[n]: "live", "trashed" or "gone"
    shelf,    \* shelf[n]: the attachments of note n that can be opened
    doubtful  \* those on a shelf whose upload takes itself for failed

vars == <<state, shelf, doubtful>>

Init ==
    /\ state = [n \in Notes |-> "live"]
    /\ shelf = [n \in Notes |-> {}]
    /\ doubtful = {}

(* An attachment appears on a live note that has room for it.              *)
Attach(n, a) ==
    /\ state[n] = "live"
    /\ \A m \in Notes : a \notin shelf[m]
    /\ Cardinality(shelf[n]) < MaxAttachments
    /\ shelf' = [shelf EXCEPT ![n] = @ \cup {a}]
    /\ \/ UNCHANGED doubtful
       \/ AnswersGetLost /\ doubtful' = doubtful \cup {a}
    /\ UNCHANGED state

(* An attachment of a live note is removed.                                *)
Detach(n, a) ==
    /\ state[n] = "live"
    /\ a \in shelf[n]
    /\ shelf' = [shelf EXCEPT ![n] = @ \ {a}]
    /\ doubtful' = doubtful \ {a}
    /\ UNCHANGED state

(* A doubtful attachment drops off its shelf ...                           *)
Drop(a) ==
    /\ a \in doubtful
    /\ shelf' = [n \in Notes |-> shelf[n] \ {a}]
    /\ doubtful' = doubtful \ {a}
    /\ UNCHANGED state

(* ... or stays for good, as all of them do when the server is restarted.  *)
Settle ==
    /\ doubtful' \in SUBSET doubtful
    /\ UNCHANGED <<state, shelf>>

Discard(n) ==
    /\ state[n] = "live"
    /\ state' = [state EXCEPT ![n] = "trashed"]
    /\ UNCHANGED <<shelf, doubtful>>

Recover(n) ==
    /\ state[n] = "trashed"
    /\ state' = [state EXCEPT ![n] = "live"]
    /\ UNCHANGED <<shelf, doubtful>>

(* A note leaves for good, and only from the trash.                        *)
Erase(n) ==
    /\ state[n] = "trashed"
    /\ state' = [state EXCEPT ![n] = "gone"]
    /\ shelf' = [shelf EXCEPT ![n] = {}]
    /\ doubtful' = doubtful \ shelf[n]

(* The account is closed: every note leaves at once.                       *)
EraseAll ==
    /\ state' = [n \in Notes |-> "gone"]
    /\ shelf' = [n \in Notes |-> {}]
    /\ doubtful' = {}

Next ==
    \/ \E n \in Notes, a \in Attachments : Attach(n, a) \/ Detach(n, a)
    \/ \E a \in Attachments : Drop(a)
    \/ Settle
    \/ \E n \in Notes : Discard(n) \/ Recover(n) \/ Erase(n)
    \/ EraseAll

Spec == Init /\ [][Next]_vars

=============================================================================
