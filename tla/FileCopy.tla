------------------------------ MODULE FileCopy ------------------------------
(***************************************************************************)
(* What a file transfer protocol promises: a file is replaced in one step  *)
(* by the whole file of the same name on the other side, or is removed     *)
(* from the server.                                                        *)
(***************************************************************************)
CONSTANTS
  Names,    \* file names
  ClientFiles, ServerFiles,  \* the files there are at first
  Absent    \* no file

VARIABLES
  clientDir, serverDir   \* the content of each file, or Absent

vars == <<clientDir, serverDir>>

Init == clientDir = ClientFiles /\ serverDir = ServerFiles

Get(n) ==
  /\ serverDir[n] # Absent
  /\ clientDir' = [clientDir EXCEPT ![n] = serverDir[n]]
  /\ UNCHANGED serverDir

Put(n) ==
  /\ clientDir[n] # Absent
  /\ serverDir' = [serverDir EXCEPT ![n] = clientDir[n]]
  /\ UNCHANGED clientDir

Delete(n) ==
  /\ serverDir' = [serverDir EXCEPT ![n] = Absent]
  /\ UNCHANGED clientDir

Next == \E n \in Names : Get(n) \/ Put(n) \/ Delete(n)

Spec == Init /\ [][Next]_vars
=============================================================================
