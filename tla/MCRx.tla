-------------------------------- MODULE MCRx --------------------------------
(* Three handlers, two of them with the same priority, one of which keeps      *)
(* packets; three slots, so that the table fills up.                           *)
EXTENDS Rx
CONSTANTS snoop, monitor, watcher
MCCallbacks == {snoop, monitor, watcher}
MCPriority == [c \in MCCallbacks |-> IF c = snoop THEN 1 ELSE 2]
MCOwners == {watcher}
=============================================================================
