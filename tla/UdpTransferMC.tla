--------------------------- MODULE UdpTransferMC ---------------------------
(* Small instances of UdpTransfer for TLC.                                 *)
EXTENDS UdpTransfer, TLC

ThreeNames == {"f", "g", "h"}
AllBytes == {"0", "a1", "a2", "a3", "b1", "b2", "b3", "b4", "c1", "c2", "c3"}

(* The two sides have different files f: of two rows, the client's not     *)
(* full.  Only the server has a file g, of as many rows as f, and an empty *)
(* file h.                                                                 *)
OfClient == [f |-> <<"a1", "a2", "a3">>, g |-> NoFile, h |-> NoFile]
OfServer == [f |-> <<"b1", "b2", "b3", "b4">>, g |-> <<"c1", "c2", "c3">>, h |-> <<>>]

Copies == {"get", "put"} \X {"f", "g"}
AllCommands ==
  Copies \cup ({"delete"} \X {"f", "g"}) \cup {<<"get", "h">>, <<"ls", "f">>, <<"exit", "f">>}

(* Answers come in time, some datagrams are lost, any is overtaken or none.*)
Overtaken == [faults |-> {"lose", "reorder"}, timely |-> TRUE, diskMayFail |-> FALSE,
              commands |-> AllCommands]
InOrder == [Overtaken EXCEPT !.faults = {"lose"}]

(* Datagrams are late, and lost and overtaken or lost and duplicated, and  *)
(* files may fail to be written.                                           *)
Late == [faults |-> {"lose", "reorder"}, timely |-> FALSE, diskMayFail |-> TRUE,
         commands |-> Copies]
LateTwice == [Late EXCEPT !.faults = {"lose", "duplicate"}]

(* One datagram is lost.                                                   *)
Lossy == [faults |-> {"lose"}, timely |-> TRUE, diskMayFail |-> FALSE, commands |-> Copies]

AllModes == {Overtaken, InOrder, Late, LateTwice}
OnlyLossy == {Lossy}
=============================================================================
