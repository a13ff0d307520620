----------------------------- MODULE SavedMedium -----------------------------
(* What the flash medium of appl/persistence promises to those who save       *)
(* settings: it holds what one save wrote, all of it, or nothing.  A save     *)
(* gives up what was there before the new contents are there; a reset in      *)
(* between leaves nothing.                                                    *)
CONSTANTS
    Contents,   \* what a save may write
    NONE

VARIABLES
    saved,      \* what a reader finds, or NONE
    writing     \* what the save under way writes, or NONE

vars == <<saved, writing>>

Init == saved = NONE /\ writing = NONE

Begin == writing = NONE /\ writing' \in Contents /\ UNCHANGED saved
GiveUp == saved' = NONE /\ UNCHANGED writing
Commit == saved = NONE /\ writing # NONE /\ saved' = writing /\ writing' = NONE
Abandon == writing' = NONE /\ UNCHANGED saved

Next == Begin \/ GiveUp \/ Commit \/ Abandon
Spec == Init /\ [][Next]_vars
=============================================================================
