----------------------------- MODULE UdpTransfer -----------------------------
(***************************************************************************)
(* The file transfer protocol of src/1_PA/udp: udp_server.c and            *)
(* udp_client.c, one client and the server, over datagrams that may be     *)
(* lost, duplicated, reordered or late.                                    *)
(*                                                                         *)
(* A file is a sequence of bytes.  Both programs hold the file they send   *)
(* or receive as an array of rows (file_buffer_2d) of RowLen bytes each,   *)
(* the 16 bytes of metadata in front apart, and know its size; a row that  *)
(* rows_rec does not mark as received is NoRow.  A ROW datagram says which *)
(* row of how many it is, but not of which file.                           *)
(*                                                                         *)
(* RESEND is not a message of this model.  req_resend, called when a row   *)
(* is missing, writes into the string literal "RESEND " (its strncpy has   *)
(* source and destination swapped), which ends the program.  So the branch *)
(* of listen_for_resend that receives a RESEND is never taken, and a       *)
(* sender that has sent its rows sends nothing more: each timeout of       *)
(* listen_for_resend only makes it listen again.                           *)
(***************************************************************************)
EXTENDS Integers, SequencesExt

CONSTANTS
  Names,         \* file names
  Bytes,         \* what files contain
  RowLen,        \* the bytes of a row: BUFSIZE - 16
  ClientFiles,   \* the files of the client at first: a Seq(Bytes) or NoFile
  ServerFiles,   \* the files of the server at first
  Modes,         \* the circumstances considered: see Mode
  MaxCmds,       \* bound: commands typed
  MaxFaults,     \* bound: datagrams lost or duplicated
  Zero,          \* the byte calloc fills a row with
  NoRow, NoFile

Operations == {"get", "put", "delete", "ls", "exit"}

(* What the network does; whether no answer comes later than its receiver  *)
(* waits; whether bin_to_file_2d may fail to open the file; the commands   *)
(* users type.                                                             *)
Mode == [faults: SUBSET {"lose", "duplicate", "reorder"}, timely: BOOLEAN,
         diskMayFail: BOOLEAN, commands: SUBSET (Operations \X Names)]

Dir == [Names -> Seq(Bytes) \cup {NoFile}]

ASSUME TransferAssumption ==
  /\ Zero \in Bytes /\ NoFile \notin Seq(Bytes)
  /\ RowLen \in Nat \ {0} /\ NoRow \notin [1..RowLen -> Bytes]
  /\ ClientFiles \in Dir /\ ServerFiles \in Dir
  /\ Modes \subseteq Mode
  /\ MaxCmds \in Nat /\ MaxFaults \in Nat

VARIABLES
  mode,                 \* the circumstances: never changed
  toServer, toClient,   \* datagrams on their way
  faults,               \* datagrams lost or duplicated so far
  serverDir, clientDir, \* the files on each side
  spc, cpc,             \* what each program waits for
  sname, ccmd,          \* the file the server receives; the client's command
  sbuf, cbuf,           \* file_buffer_2d
  ssize, csize,         \* filesize: that of the file sent or announced
  told,                 \* what the user has been told of the command
  cmds                  \* commands typed so far

net == <<toServer, toClient>>
server == <<serverDir, spc, sname, sbuf, ssize>>
client == <<clientDir, cpc, ccmd, cbuf, csize, told, cmds>>
vars == <<mode, net, faults, server, client>>

Init ==
  /\ mode \in Modes
  /\ toServer = <<>> /\ toClient = <<>>
  /\ faults = 0
  /\ serverDir = ServerFiles /\ clientDir = ClientFiles
  /\ spc = "main" /\ cpc = "user"
  /\ sname \in Names
  /\ ccmd \in mode.commands
  /\ sbuf = <<>> /\ cbuf = <<>> /\ ssize = 0 /\ csize = 0
  /\ told = "none"
  /\ cmds = 0
-----------------------------------------------------------------------------
(* The rows of a file.                                                     *)

NumRowsCut(size) == size \div RowLen         \* fault: the last row is left out

(* get_num_rows                                                            *)
NumRows(size) == (size + RowLen - 1) \div RowLen

RowsUnpadded(file) ==                         \* fault: the last row is shorter
  LET last == NumRows(Len(file))
  IN  [i \in 1..last |-> SubSeq(file, (i - 1) * RowLen + 1,
                                IF i = last THEN Len(file) ELSE i * RowLen)]

(* calloc_2d and read_file_to_buf: the last row ends in zeros.             *)
RowsOf(file) ==
  [i \in 1..NumRows(Len(file)) |->
     [j \in 1..RowLen |-> LET k == (i - 1) * RowLen + j
                          IN  IF k <= Len(file) THEN file[k] ELSE Zero]]

WholeRows(buf, size) == FlattenSeq(buf)       \* fault: the last row is not cut

(* bin_to_file_2d: every row is written whole, but the last one only as    *)
(* far as bytes remain.                                                    *)
FileOf(buf, size) ==
  FlattenSeq([i \in DOMAIN buf |->
                IF RowLen > size - (i - 1) * RowLen
                THEN SubSeq(buf[i], 1, size - (i - 1) * RowLen) ELSE buf[i]])
-----------------------------------------------------------------------------
(* Datagrams.                                                              *)

Word(w) == [type |-> w]
Command(c) == [type |-> "command", op |-> c[1], name |-> c[2]]
FileSize(size) == [type |-> "FILESIZE", size |-> size]
Row(buf, i) == [type |-> "ROW", num |-> i, total |-> Len(buf), data |-> buf[i]]

(* send_rows, called with every row marked                                 *)
Sent(buf) == [i \in DOMAIN buf |-> Row(buf, i)]

(* The positions a datagram may be received from.                          *)
Deliverable(chan) ==
  IF "reorder" \in mode.faults THEN DOMAIN chan ELSE DOMAIN chan \cap {1}

ServerTakes(i) == i \in Deliverable(toServer) /\ toServer' = RemoveAt(toServer, i)
ClientTakes(i) == i \in Deliverable(toClient) /\ toClient' = RemoveAt(toClient, i)

ServerSends(msgs) == toClient' = toClient \o msgs
ClientSends(msgs) == toServer' = toServer \o msgs
-----------------------------------------------------------------------------
(* file_buffer_2d on the receiving side.                                   *)

(* parse_rec_filesize refuses an empty file.                               *)
SizeAccepted(m) == m.type = "FILESIZE" /\ m.size > 0

BufferKept(m) ==                        \* fault: rows_rec is not cleared
  [i \in 1..NumRows(m.size) |-> IF i \in DOMAIN cbuf THEN cbuf[i] ELSE NoRow]

Unreceived(m) == [i \in 1..NumRows(m.size) |-> NoRow]

RowAccepted(m, buf) == m.type = "ROW" /\ m.total = Len(buf)

WithRow(m, buf) == [buf EXCEPT ![m.num] = m.data]

Complete(buf) == \A i \in DOMAIN buf : buf[i] # NoRow

(* bin_to_file_2d; that it failed is not looked at                         *)
Written(dir, n, buf, size) ==
  {[dir EXCEPT ![n] = FileOf(buf, size)]}
  \cup (IF mode.diskMayFail THEN {dir} ELSE {})

Unacknowledged == <<>>                  \* fault: ALLREC is not sent

Acknowledgement == <<Word("ALLREC")>>
-----------------------------------------------------------------------------
(* The server.                                                             *)

ServerIdle == spc' = "main" /\ UNCHANGED <<serverDir, sname, sbuf, ssize>>

(* handle_client_cmd, with a command or with anything else.                *)
ServerCommand ==
  /\ spc = "main"
  /\ \E i \in DOMAIN toServer :
     /\ ServerTakes(i)
     /\ LET m == toServer[i] IN
        \/ m.type # "command" /\ UNCHANGED <<toClient, server>>
        \/ /\ m.type = "command" /\ m.op = "get" /\ serverDir[m.name] # NoFile
           /\ sbuf' = RowsOf(serverDir[m.name]) /\ ssize' = Len(serverDir[m.name])
           /\ spc' = "SENDFILE"
           /\ ServerSends(<<FileSize(ssize')>>)
           /\ UNCHANGED <<serverDir, sname>>
        \/ /\ m.type = "command" /\ m.op \in {"get", "delete"}
           /\ serverDir[m.name] = NoFile
           /\ ServerSends(<<Word("FAIL")>>)
           /\ UNCHANGED server
        \/ /\ m.type = "command" /\ m.op = "delete" /\ serverDir[m.name] # NoFile
           /\ serverDir' = [serverDir EXCEPT ![m.name] = NoFile]
           /\ ServerSends(<<Word("SUCCESS")>>)
           /\ UNCHANGED <<spc, sname, sbuf, ssize>>
        \/ /\ m.type = "command" /\ m.op = "put"
           /\ sname' = m.name
           /\ spc' = "FILESIZE"
           /\ ServerSends(<<Word("SENDSIZE")>>)
           /\ UNCHANGED <<serverDir, sbuf, ssize>>
        \/ /\ m.type = "command" /\ m.op \in {"ls", "exit"}
           /\ ServerSends(<<Word(IF m.op = "ls" THEN "LIST" ELSE "GOODBYE")>>)
           /\ UNCHANGED server
  /\ UNCHANGED <<mode, faults, client>>

(* send_file_to_client: whatever comes instead of SENDFILE ends it.        *)
ServerSendsFile ==
  /\ spc = "SENDFILE"
  /\ \E i \in DOMAIN toServer :
     /\ ServerTakes(i)
     /\ \/ /\ toServer[i].type = "SENDFILE"
           /\ ServerSends(Sent(sbuf))
           /\ spc' = "ALLREC"
           /\ UNCHANGED <<serverDir, sname, sbuf, ssize>>
        \/ toServer[i].type # "SENDFILE" /\ ServerIdle /\ UNCHANGED toClient
  /\ UNCHANGED <<mode, faults, client>>

(* listen_for_resend: whatever is not ALLREC is dropped.                   *)
ServerListens ==
  /\ spc = "ALLREC"
  /\ \E i \in DOMAIN toServer :
     /\ ServerTakes(i)
     /\ spc' = IF toServer[i].type = "ALLREC" THEN "main" ELSE spc
  /\ UNCHANGED <<mode, toClient, faults, serverDir, sname, sbuf, ssize, client>>

(* rec_file_from_client                                                    *)
ServerFileSize ==
  /\ spc = "FILESIZE"
  /\ \E i \in DOMAIN toServer :
     /\ ServerTakes(i)
     /\ \/ /\ SizeAccepted(toServer[i])
           /\ sbuf' = Unreceived(toServer[i]) /\ ssize' = toServer[i].size
           /\ ServerSends(<<Word("SENDFILE")>>)
           /\ spc' = "ROW"
           /\ UNCHANGED <<serverDir, sname>>
        \/ ~SizeAccepted(toServer[i]) /\ ServerIdle /\ UNCHANGED toClient
  /\ UNCHANGED <<mode, faults, client>>

(* fill_buffer_from_client: an unexpected datagram ends it, and its caller *)
(* goes on as if the rows had stopped coming.                              *)
ServerRow ==
  /\ spc = "ROW"
  /\ \E i \in DOMAIN toServer :
     /\ ServerTakes(i)
     /\ \/ RowAccepted(toServer[i], sbuf) /\ sbuf' = WithRow(toServer[i], sbuf)
             /\ UNCHANGED spc
        \/ ~RowAccepted(toServer[i], sbuf) /\ spc' = "check" /\ UNCHANGED sbuf
  /\ UNCHANGED <<mode, toClient, faults, serverDir, sname, ssize, client>>

(* Nothing is on its way to the program, and the other one has nothing to  *)
(* answer: it does not read, or there is nothing for it to read.           *)
NothingForServer ==
  /\ toServer = <<>>
  /\ toClient = <<>> \/ cpc \in {"user", "exited", "crashed"}

NothingForClient ==
  /\ toClient = <<>>
  /\ toServer = <<>> \/ spc = "crashed"

ServerSilence ==
  /\ spc = "ROW"
  /\ mode.timely => NothingForServer /\ cpc # "check"
  /\ spc' = "check"
  /\ UNCHANGED <<mode, net, faults, serverDir, sname, sbuf, ssize, client>>

(* req_resend, ALLREC and bin_to_file_2d                                   *)
ServerCheck ==
  /\ spc = "check"
  /\ \/ /\ ~Complete(sbuf)
        /\ spc' = "crashed"
        /\ UNCHANGED <<toClient, serverDir>>
     \/ /\ Complete(sbuf)
        /\ ServerSends(Acknowledgement)
        /\ serverDir' \in Written(serverDir, sname, sbuf, ssize)
        /\ spc' = "main"
  /\ UNCHANGED <<mode, toServer, faults, sname, sbuf, ssize, client>>
-----------------------------------------------------------------------------
(* The client.  A command ends when the user is asked for the next one.    *)

Ends(result) == cpc' = "user" /\ told' = result

(* handle_usr_cmd                                                          *)
UserCommand(c) ==
  /\ cpc = "user" /\ cmds < MaxCmds
  /\ cmds' = cmds + 1
  /\ ccmd' = c
  /\ \/ /\ c[1] = "put" /\ clientDir[c[2]] = NoFile
        /\ Ends("failed")
        /\ UNCHANGED <<toServer, cbuf, csize>>
     \/ /\ c[1] = "put" /\ clientDir[c[2]] # NoFile
        /\ cbuf' = RowsOf(clientDir[c[2]]) /\ csize' = Len(clientDir[c[2]])
        /\ cpc' = "SENDSIZE" /\ told' = "none"
        /\ ClientSends(<<Command(c)>>)
     \/ /\ c[1] # "put"
        /\ cpc' = (CASE c[1] = "get" -> "FILESIZE" [] c[1] = "exit" -> "GOODBYE"
                     [] OTHER -> "reply")
        /\ told' = "none"
        /\ ClientSends(<<Command(c)>>)
        /\ UNCHANGED <<cbuf, csize>>
  /\ UNCHANGED <<mode, toClient, faults, server, clientDir>>

(* rec_file_from_server                                                    *)
ClientFileSize ==
  /\ cpc = "FILESIZE"
  /\ \E i \in DOMAIN toClient :
     /\ ClientTakes(i)
     /\ \/ /\ SizeAccepted(toClient[i])
           /\ cbuf' = Unreceived(toClient[i]) /\ csize' = toClient[i].size
           /\ ClientSends(<<Word("SENDFILE")>>)
           /\ cpc' = "ROW"
           /\ UNCHANGED told
        \/ /\ ~SizeAccepted(toClient[i]) /\ Ends("failed")
           /\ UNCHANGED <<toServer, cbuf, csize>>
  /\ UNCHANGED <<mode, faults, server, clientDir, ccmd, cmds>>

(* fill_buffer_from_server: unlike the server, the client gives up on an   *)
(* unexpected datagram, without telling the server.                        *)
ClientRow ==
  /\ cpc = "ROW"
  /\ \E i \in DOMAIN toClient :
     /\ ClientTakes(i)
     /\ \/ RowAccepted(toClient[i], cbuf) /\ cbuf' = WithRow(toClient[i], cbuf)
             /\ UNCHANGED <<cpc, told>>
        \/ ~RowAccepted(toClient[i], cbuf) /\ Ends("failed") /\ UNCHANGED cbuf
  /\ UNCHANGED <<mode, toServer, faults, server, clientDir, ccmd, csize, cmds>>

ClientSilence ==
  /\ cpc = "ROW"
  /\ mode.timely => NothingForClient /\ spc # "check"
  /\ cpc' = "check"
  /\ UNCHANGED <<mode, net, faults, server, clientDir, ccmd, cbuf, csize, told,
                 cmds>>

ClientCheck ==
  /\ cpc = "check"
  /\ \/ /\ ~Complete(cbuf)
        /\ cpc' = "crashed"
        /\ UNCHANGED <<toServer, clientDir, told>>
     \/ /\ Complete(cbuf)
        /\ ClientSends(Acknowledgement)
        /\ clientDir' \in Written(clientDir, ccmd[2], cbuf, csize)
        /\ Ends("done")
  /\ UNCHANGED <<mode, toClient, faults, server, ccmd, cbuf, csize, cmds>>

(* send_file_to_server                                                     *)
ClientSendSize ==
  /\ cpc = "SENDSIZE"
  /\ \E i \in DOMAIN toClient :
     /\ ClientTakes(i)
     /\ \/ /\ toClient[i].type = "SENDSIZE"
           /\ ClientSends(<<FileSize(csize)>>)
           /\ cpc' = "SENDFILE"
           /\ UNCHANGED told
        \/ toClient[i].type # "SENDSIZE" /\ Ends("failed") /\ UNCHANGED toServer
  /\ UNCHANGED <<mode, faults, server, clientDir, ccmd, cbuf, csize, cmds>>

ClientSendsFile ==
  /\ cpc = "SENDFILE"
  /\ \E i \in DOMAIN toClient :
     /\ ClientTakes(i)
     /\ \/ /\ toClient[i].type = "SENDFILE"
           /\ ClientSends(Sent(cbuf))
           /\ cpc' = "ALLREC"
           /\ UNCHANGED told
        \/ toClient[i].type # "SENDFILE" /\ Ends("failed") /\ UNCHANGED toServer
  /\ UNCHANGED <<mode, faults, server, clientDir, ccmd, cbuf, csize, cmds>>

ClientListens ==
  /\ cpc = "ALLREC"
  /\ \E i \in DOMAIN toClient :
     /\ ClientTakes(i)
     /\ IF toClient[i].type = "ALLREC" THEN Ends("done") ELSE UNCHANGED <<cpc, told>>
  /\ UNCHANGED <<mode, toServer, faults, server, clientDir, ccmd, cbuf, csize,
                 cmds>>

(* send_delete, send_ls and send_exit take the next datagram for the reply.*)
ClientReply ==
  /\ cpc \in {"reply", "GOODBYE"}
  /\ \E i \in DOMAIN toClient :
     /\ ClientTakes(i)
     /\ \/ cpc = "GOODBYE" /\ cpc' = "exited" /\ UNCHANGED told
        \/ /\ cpc = "reply"
           /\ Ends(IF ccmd[1] = "ls" \/ toClient[i].type = "SUCCESS"
                   THEN "done" ELSE "failed")
  /\ UNCHANGED <<mode, toServer, faults, server, clientDir, ccmd, cbuf, csize,
                 cmds>>

ClientTimeoutOnExit ==                  \* fault: only send_exit gives up
  /\ cpc = "GOODBYE"
  /\ mode.timely => NothingForClient
  /\ cpc' = "exited"
  /\ UNCHANGED <<mode, net, faults, server, clientDir, ccmd, cbuf, csize, told,
                 cmds>>

(* rec_from_server gives up after a second: the buffer is empty.           *)
ClientTimeout ==
  /\ cpc \in {"FILESIZE", "SENDSIZE", "SENDFILE", "reply", "GOODBYE"}
  /\ mode.timely => NothingForClient /\ spc \notin {"ROW", "check"}
  /\ \/ cpc = "GOODBYE" /\ cpc' = "exited" /\ UNCHANGED told
     \/ cpc # "GOODBYE" /\ Ends("failed")
  /\ UNCHANGED <<mode, net, faults, server, clientDir, ccmd, cbuf, csize, cmds>>
-----------------------------------------------------------------------------
(* The network.                                                            *)

Fault(f) == f \in mode.faults /\ faults < MaxFaults /\ faults' = faults + 1

Lose ==
  /\ Fault("lose")
  /\ \/ /\ \E i \in DOMAIN toServer : toServer' = RemoveAt(toServer, i)
        /\ UNCHANGED toClient
     \/ /\ \E i \in DOMAIN toClient : toClient' = RemoveAt(toClient, i)
        /\ UNCHANGED toServer
  /\ UNCHANGED <<mode, server, client>>

Duplicate ==
  /\ Fault("duplicate")
  /\ \/ /\ \E i \in DOMAIN toServer : ClientSends(<<toServer[i]>>)
        /\ UNCHANGED toClient
     \/ /\ \E i \in DOMAIN toClient : ServerSends(<<toClient[i]>>)
        /\ UNCHANGED toServer
  /\ UNCHANGED <<mode, server, client>>

(* The client has left, has crashed, or its user has typed MaxCmds commands.*)
Terminating ==
  /\ cpc \in {"exited", "crashed"} \/ (cpc = "user" /\ cmds = MaxCmds)
  /\ UNCHANGED vars

Server ==
  \/ ServerCommand \/ ServerSendsFile \/ ServerListens \/ ServerFileSize
  \/ ServerRow \/ ServerSilence \/ ServerCheck

Client ==
  \/ ClientFileSize \/ ClientRow \/ ClientSilence \/ ClientCheck \/ ClientSendSize
  \/ ClientSendsFile \/ ClientListens \/ ClientReply \/ ClientTimeout

Next ==
  \/ Server \/ Client
  \/ \E c \in mode.commands : UserCommand(c)
  \/ Lose \/ Duplicate
  \/ Terminating

Spec == Init /\ [][Next]_vars

(* Both programs run; what the network does not lose it delivers.  Users   *)
(* need not type anything.                                                 *)
FairSpec == Spec /\ WF_vars(Server) /\ WF_vars(Client)
-----------------------------------------------------------------------------
(* Every variable has its type.                                            *)
TypeOK ==
  /\ mode \in Modes
  /\ faults \in 0..MaxFaults
  /\ serverDir \in Dir /\ clientDir \in Dir
  /\ spc \in {"main", "SENDFILE", "ALLREC", "FILESIZE", "ROW", "check", "crashed"}
  /\ cpc \in {"user", "FILESIZE", "ROW", "check", "SENDSIZE", "SENDFILE", "ALLREC",
              "reply", "GOODBYE", "exited", "crashed"}
  /\ sname \in Names /\ ccmd \in mode.commands
  /\ sbuf \in Seq([1..RowLen -> Bytes] \cup {NoRow})
  /\ cbuf \in Seq([1..RowLen -> Bytes] \cup {NoRow})
  /\ ssize \in Nat /\ csize \in Nat
  /\ told \in {"none", "done", "failed"}
  /\ cmds \in 0..MaxCmds

(* The circumstances in which answers come in time and files can be        *)
(* written, and those in which moreover nothing overtakes.                 *)
Sound == mode.timely /\ ~mode.diskMayFail
Faithful == Sound /\ "reorder" \notin mode.faults /\ faults = 0

(* When the user is told that a file was transferred, the two sides have   *)
(* the same file; when told that it was deleted, it is gone.               *)
SuccessIsTrue ==
  Sound /\ told = "done" =>
    /\ ccmd[1] \in {"get", "put"} =>
         serverDir[ccmd[2]] # NoFile /\ clientDir[ccmd[2]] = serverDir[ccmd[2]]
    /\ ccmd[1] = "delete" => serverDir[ccmd[2]] = NoFile

Wanted(c) == IF c[1] = "put" THEN clientDir[c[2]] ELSE serverDir[c[2]]

(* Over a network that does nothing wrong a command fails only when the    *)
(* file it is about is missing or empty, or when the server still holds an *)
(* empty file: it waits for a SENDFILE the client does not send, and takes *)
(* the next command for it.                                                *)
FailsForAReason ==
  Faithful /\ told = "failed" => Wanted(ccmd) \in {NoFile, <<>>} \/ sbuf = <<>>

(* Rows that have not arrived are asked for again: neither program dies.   *)
NoCrash == spc # "crashed" /\ cpc # "crashed"

(* Every command comes to an end, although a datagram is lost, unless its  *)
(* sender listens for ALLREC, or its receiver dies for want of a row: not  *)
(* because of rows that overtake each other, or a command that failed.     *)
CommandsEnd ==
  cpc # "user" ~>
    \/ cpc \in {"user", "exited", "ALLREC"}
    \/ cpc = "crashed" /\ (faults > 0 \/ ~Sound)

(* The server goes back to its main loop, where it accepts commands, if    *)
(* the network loses nothing and the file is not empty.                    *)
ServerReturns ==
  Sound /\ spc # "main" ~>
    spc = "main" \/ faults > 0 \/ (spc = "SENDFILE" /\ sbuf = <<>>)

Contents ==
  {dir[n] : dir \in {ClientFiles, ServerFiles}, n \in Names} \ {NoFile}

(* The byte b belongs at the place k of the file f, or fills a row up.     *)
Belongs(b, k, f) == b = Zero \/ (k \in DOMAIN f /\ b = f[k])

(* Whatever the network does, a file has the size of one there was, and    *)
(* its bytes are in their place.  All of them are those of one file if no  *)
(* datagram comes twice, however late they are and whichever are lost or   *)
(* overtaken: a sender sends no other rows before it has its ALLREC.  That *)
(* file may be another one than the size is of, when FILESIZE was late.    *)
RowsOfOneFile ==
  \A d \in {clientDir, serverDir}, n \in Names : d[n] # NoFile =>
    /\ \E g \in Contents : Len(d[n]) = Len(g)
    /\ \A k \in DOMAIN d[n] : \E f \in Contents : Belongs(d[n][k], k, f)
    /\ "duplicate" \notin mode.faults =>
         \E f \in Contents : \A k \in DOMAIN d[n] : Belongs(d[n][k], k, f)

(* Files are copied whole: rows of two transfers are never mixed, and a    *)
(* file never gets the content of another one, if answers come in time.    *)
Copy == INSTANCE FileCopy WITH
  Absent <- NoFile,
  clientDir <- IF Sound THEN clientDir ELSE ClientFiles,
  serverDir <- IF Sound THEN serverDir ELSE ServerFiles

CopySpec == Copy!Spec
=============================================================================
