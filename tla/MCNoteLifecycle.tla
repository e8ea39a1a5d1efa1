---------------------------- MODULE MCNoteLifecycle ----------------------------
(* NoteLifecycle for TLC: requests of a kind are interchangeable, and so   *)
(* are the notes and the tags there are at first.                          *)
EXTENDS NoteLifecycle, TLC

Interchangeable ==
    UNION {Permutations(S) :
              S \in {KeptNotes, KeptTags, Saves, Moves, Purges, TagForms, TagDeletes}}

=============================================================================
