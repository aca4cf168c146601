---------------------------- MODULE FileCabinetMC ----------------------------
(* Small instances of FileCabinet for TLC.                                  *)
EXTENDS FileCabinet

(* The name of one file is the beginning of that of the other.             *)
TwoNames == {"f", "fg"}
SecondIsLonger == [f |-> {"f", "fg"}, fg |-> {"fg"}]

(* Both files are in one drawer; the other drawer is empty.                *)
TwoDrawers == {0, 1}
OneDrawer == [f |-> 0, fg |-> 0]
=============================================================================
