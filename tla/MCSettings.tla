----------------------------- MODULE MCSettings -----------------------------
(* Three serializers with one bit each.  The second one is saved by name and *)
(* has another version in the second image, so that its item is replaced in  *)
(* the middle of the list.                                                   *)
EXTENDS Settings
MCByName == {2}
MCValues == {0, 1}
MCDefault == <<0, 0, 0>>
MCFirmwares == {1, 2}
MCVersion == << <<1, 1, 1>>, <<1, 2, 1>> >>
=============================================================================
