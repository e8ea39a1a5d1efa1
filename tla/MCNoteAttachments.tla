--------------------------- MODULE MCNoteAttachments ---------------------------
(* NoteAttachments on small sets of requests.                              *)
EXTENDS NoteAttachments, TLC

Interchangeable ==
    Permutations(Uploads) \cup Permutations(Notes)
        \cup Permutations(Removals) \cup Permutations(Purges)

=============================================================================
