-------------------------------- MODULE Dfs --------------------------------
(***************************************************************************)
(* The distributed file system of src/4_PA as a whole: clients             *)
(* (df_client.c), each a process that runs one command, and four servers,  *)
(* with a worker for each connection.  FileCabinet models the threads of   *)
(* one server in detail; here its drawers are one list for each server,    *)
(* every name has a drawer of its own, and the file list is left out.      *)
(*                                                                         *)
(* Connections are streams: recv returns what has arrived, up to a limit,  *)
(* and knows nothing of where a message ends.  What one send wrote arrives *)
(* at once.  Lengths are those of the code, scaled down: HdrLen stands for *)
(* KILO, the length of a header, and twice that for MAX_MSG_SZ.  Of a      *)
(* header the first cell is its command, the second its other fields, and  *)
(* the rest are newlines.  Servers do not know of each other, so a command *)
(* can be followed at some servers only: the connections to the others are *)
(* left out.                                                               *)
(***************************************************************************)
EXTENDS Integers, SequencesExt

CONSTANTS
  Clients,     \* 1..n: the clients; a put by client k makes version k
  Jobs,        \* Jobs: what the clients run, [op, files, servers] for each
  Names,       \* file names
  Size,        \* Size[n]: the length of the client's file n
  BucketOf,    \* Names -> 0..3: file_cabinet_hash of the name's MD5
  Before,      \* the names put before, one after the other, as version 0
  HdrLen,      \* MAX_CMD_STR_SIZE, which is KILO
  Base,        \* numbers in headers are written in this base
  Stopped,     \* bound: the servers that may be stopped
  MaxStops,    \* bound: how often
  None

Servers == 0..3
Chunks == 1..4
Versions == Clients \cup {0}
Ids == Names \X Versions \X Chunks        \* chunk_name: <<name, version, chunk>>

ASSUME DfsAssumption ==
  /\ IsFiniteSet(Clients) /\ Clients = 1..Cardinality(Clients)
  /\ \A job \in Jobs, k \in Clients :
       \/ job[k].op = "none"
       \/ /\ job[k].op \in {"put", "get"}
          /\ job[k].files \in Seq(Names) \ {<<>>} /\ IsInjective(job[k].files)
          /\ job[k].op = "get" => Len(job[k].files) = 1
          /\ job[k].servers \in {<<0>>, <<0, 2>>, <<1, 3>>, <<0, 1, 2, 3>>}
  /\ Size \in [Names -> Nat] /\ BucketOf \in [Names -> 0..3]
  /\ Before \in Seq(Names) /\ IsInjective(Before)
  /\ HdrLen \in Nat \ 0..2
  /\ Base \in Nat \ 0..1 /\ Base * Base <= 2 * HdrLen
  /\ \A n \in Names : (Size[n] \div 4) + (Size[n] % 4) < Base * Base
                      /\ (Size[n] \div 4) + (Size[n] % 4) <= HdrLen
  /\ Stopped \subseteq 0..3 /\ MaxStops \in Nat
  /\ None \notin Names \cup Nat

VARIABLES
  cmd,        \* cmd[k]: the command client k is started with
  pc,         \* where client k is
  sent,       \* of a put: how many messages it has sent
  asked,      \* of a get: the server it asks
  reply,      \* of a get: its df_serv_cmd, filled in from headers
  left,       \* of a get: bytes_remaining, after a recv that fell short
  got,        \* of a get: the file it writes
  late,       \* of a get: some recv has timed out
  fresh,      \* of a get: the versions it may return (read by no action)
  up,         \* the servers that run
  stops,      \* how often servers were stopped
  cabinet,    \* cabinet[s]: the nodes of server s, the newest last
  file,       \* file[s][id]: the file of the chunk id, if server s has it
  socket,     \* socket[s]: the connection whose worker holds socket_sem
  wpc,        \* wpc[k][s]: where the worker for client k is
  wcmd,       \* its df_serv_cmd
  nodes,      \* of a get: the nodes it still has to send
  disturbed,  \* disturbed[k][s]: a recv took parts of two messages, a header was
              \* sent without its chunk, or the server died (read by no action)
  toServer, toClient   \* toServer[k][s]: what has been sent and not received

ofClient == <<cmd, pc, sent, asked, reply, left, got, late, fresh>>
ofServer == <<cabinet, file, socket, wpc, wcmd, nodes>>
power == <<up, stops>>
net == <<disturbed, toServer, toClient>>
vars == <<ofClient, ofServer, power, net>>
-----------------------------------------------------------------------------
(* The chunks of a file, and which servers get them.                       *)

(* send_chunk_to_serv                                                      *)
ChunkSize(n, c) == (Size[n] \div 4) + (IF c = 4 THEN Size[n] % 4 ELSE 0)

Offset(n, c) == (Size[n] \div 4) * (c - 1)

Byte(n, v, i) == <<"byte", <<n, v>>, i>>

Body(n, v, c) == [i \in 1..ChunkSize(n, c) |-> Byte(n, v, Offset(n, c) + i)]

(* get_distro                                                              *)
Distro ==
  << <<1, 2, 2, 3, 3, 4, 4, 1>>, <<4, 1, 1, 2, 2, 3, 3, 4>>,
     <<3, 4, 4, 1, 1, 2, 2, 3>>, <<2, 3, 3, 4, 4, 1, 1, 2>> >>

PartOfNeighbour(n, s, j) ==                \* fault: one chunk for each server
  Distro[BucketOf[n] + 1][2 * s + 1]

(* The chunk of file n that server s gets first, j = 0, or second, j = 1.  *)
Part(n, s, j) == Distro[BucketOf[n] + 1][2 * s + j + 1]
-----------------------------------------------------------------------------
(* Headers: df_serv_cmd, serv_cmd_to_str and str_to_serv_cmd.              *)

Digits(n) == IF n < Base THEN <<n>> ELSE <<n \div Base, n % Base>>

(* str2int; an empty string is 0, which the variable was before            *)
Value(digits) == FoldLeft(LAMBDA x, d : x * Base + d, 0, digits)

Blank == [op |-> "", name |-> None, ver |-> None, chunk |-> None, size |-> <<>>]

PutHeader(n, v, c) ==
  [op |-> "put", name |-> n, ver |-> v, chunk |-> c, size |-> Digits(ChunkSize(n, c))]

HeaderCells(h) == [i \in 1..HdrLen |-> <<"head", h, i>>]

TextToTheEnd(buf) == buf                   \* fault: bytes after a NUL are used

(* strlen: what is in a buffer up to the first NUL                         *)
Text(buf) ==
  LET nul == SelectInSeq(buf, LAMBDA c : c = <<"nul">>) IN
  IF nul = 0 THEN buf ELSE SubSeq(buf, 1, nul - 1)

(* A string is copied without its NUL: one that was longer keeps its end.  *)
(* Hashes, which stand for name and version, are of one length.            *)
Overwrite(old, new) == new \o SubSeq(old, Len(new) + 1, Len(old))

FieldsOfFirst(old, h) ==                   \* fault: fields are never replaced
  IF old.name = None
  THEN [h EXCEPT !.op = old.op, !.size = Overwrite(old.size, h.size)] ELSE old

Fields(old, h) == [h EXCEPT !.op = old.op, !.size = Overwrite(old.size, h.size)]

(* str_to_serv_cmd: the lines of a buffer, into a df_serv_cmd.  A line     *)
(* begins the buffer or follows another; no chunk ends with a newline.     *)
IsLine(text, i, at) == text[i][1] = "head" /\ text[i][3] = at

Line(text, c, i) ==
  CASE /\ IsLine(text, i, 1) /\ (i = 1 \/ text[i - 1][1] = "head")
       /\ text[i][2].op # "" -> [c EXCEPT !.op = text[i][2].op]
    [] IsLine(text, i, 2) -> Fields(c, text[i][2])
    [] OTHER -> c

Parsed(old, buf) ==
  LET text == Text(buf) IN FoldLeftDomain(LAMBDA c, i : Line(text, c, i), old, text)

(* What send_chunk sends of a file: blocks of MAX_MSG_SZ from a buffer of  *)
(* KILO bytes, so what follows the buffer in memory is sent too.           *)
Block(content) ==
  IF content = <<>> THEN <<>>
  ELSE [i \in 1..2 * HdrLen |->
         IF i <= Len(content) THEN content[i]
         ELSE IF i <= HdrLen THEN <<"nul">> ELSE <<"memory">>]

(* A header is in one buffer with something else.                          *)
Crosses(buf) ==
  \E i, j \in DOMAIN buf :
    buf[i][1] = "head" /\ (buf[j][1] # "head" \/ buf[j][2] # buf[i][2])
-----------------------------------------------------------------------------
(* Connections.                                                            *)

ClientEnded(k) == pc[k] \in {"done", "killed"}

ServerEnded(k, s) == wpc[k][s] = "closed"

(* What recv returns of a stream when it is asked for n bytes              *)
Taken(stream, n) == SubSeq(stream, 1, Min({n, Len(stream)}))

Remaining(stream, n) == SubSeq(stream, Min({n, Len(stream)}) + 1, Len(stream))

ServerReceivesOnly(k, s, n) ==             \* fault: socket_sem is not posted
  /\ socket[s] \in {k, None}
  /\ toServer[k][s] # <<>> \/ ClientEnded(k)
  /\ socket' = [socket EXCEPT ![s] = k]
  /\ toServer' = [toServer EXCEPT ![k][s] = Remaining(@, n)]
  /\ UNCHANGED <<toClient, disturbed>>

(* The worker receives at most n bytes, under socket_sem.  A recv of 0     *)
(* bytes, too, returns when there is something, or the connection ends.    *)
ServerReceives(k, s, n) ==
  /\ socket[s] \in {k, None}
  /\ toServer[k][s] # <<>> \/ ClientEnded(k)
  /\ socket' = [socket EXCEPT ![s] = None]
  /\ toServer' = [toServer EXCEPT ![k][s] = Remaining(@, n)]
  /\ disturbed' = [disturbed EXCEPT ![k][s] = @ \/ Crosses(Taken(toServer[k][s], n))]
  /\ UNCHANGED toClient

ServerSends(k, s, cells) ==
  /\ socket[s] = None
  /\ toClient' = [toClient EXCEPT ![k][s] = @ \o cells]
  /\ UNCHANGED <<socket, toServer>>

(* A program that sends where the other one has left something unread      *)
(* when it closed, or where it has sent before since, may be killed.       *)
MayBeKilled(stream) == stream # <<>>

(* The client receives at most n bytes of the server it asks.  If nothing  *)
(* has come, the connection has ended, or a second (SO_RCVTIMEO) passes.   *)
ClientReceives(k, n) ==
  LET s == asked[k]
      buf == Taken(toClient[k][s], n)
  IN
  /\ late' = [late EXCEPT ![k] = @ \/ (n > 0 /\ buf = <<>> /\ ~ServerEnded(k, s))]
  /\ toClient' = [toClient EXCEPT ![k][s] = Remaining(@, n)]
  /\ UNCHANGED toServer
-----------------------------------------------------------------------------
Id(c) == <<c.name, c.ver, c.chunk>>

(* The nodes of an undisturbed put, whose second header goes into the      *)
(* df_serv_cmd of the first.                                               *)
NodesBefore(s) ==
  FlattenSeq([i \in DOMAIN Before |->
    LET n == Before[i]
        first == [PutHeader(n, 0, Part(n, s, 0)) EXCEPT !.op = "get"]
    IN <<first, Fields(first, PutHeader(n, 0, Part(n, s, 1)))>>])

Init ==
  /\ cmd \in Jobs
  /\ pc = [k \in Clients |-> IF cmd[k].op = "none" THEN "done" ELSE "start"]
  /\ sent = [k \in Clients |-> 0]
  /\ asked = [k \in Clients |-> 0]
  /\ reply = [k \in Clients |-> Blank]
  /\ left = [k \in Clients |-> 0]
  /\ got = [k \in Clients |-> <<>>]
  /\ late = [k \in Clients |-> FALSE]
  /\ fresh = [k \in Clients |-> {}]
  /\ up = [s \in Servers |-> TRUE]
  /\ stops = 0
  /\ cabinet = [s \in Servers |-> NodesBefore(s)]
  /\ file = [s \in Servers |->
       [id \in {Id(NodesBefore(s)[i]) : i \in DOMAIN NodesBefore(s)} |->
          Body(id[1], id[2], id[3])]]
  /\ socket = [s \in Servers |-> None]
  /\ wpc = [k \in Clients |-> [s \in Servers |-> "none"]]
  /\ wcmd = [k \in Clients |-> [s \in Servers |-> Blank]]
  /\ nodes = [k \in Clients |-> [s \in Servers |-> <<>>]]
  /\ disturbed = [k \in Clients |-> [s \in Servers |-> FALSE]]
  /\ toServer = [k \in Clients |-> [s \in Servers |-> <<>>]]
  /\ toClient = [k \in Clients |-> [s \in Servers |-> <<>>]]
-----------------------------------------------------------------------------
(* The worker of server s for client k.                                    *)

Step(k, s, l, m) == wpc[k][s] = l /\ wpc' = [wpc EXCEPT ![k][s] = m]

(* drawer_lock, held for writing while a chunk is received, and for        *)
(* reading while one is sent.                                              *)
Writing(k, s, n) == wpc[k][s] \in {"body", "rest"} /\ wcmd[k][s].name = n

Reading(k, s, n) == wpc[k][s] = "sendbody" /\ wcmd[k][s].name = n

CanRead(s, n) == ~\E j \in Clients : Writing(j, s, n)

CanWrite(s, n) == ~\E j \in Clients : Writing(j, s, n) \/ Reading(j, s, n)

(* recv finds nothing, and waits with the semaphore.                       *)
Wait(k, s) ==
  /\ wpc[k][s] \in {"first", "body", "rest", "next"}
  /\ socket[s] = None /\ toServer[k][s] = <<>> /\ ~ClientEnded(k)
  /\ socket' = [socket EXCEPT ![s] = k]
  /\ UNCHANGED <<cabinet, file, wpc, wcmd, nodes, net>>

(* connection_handler and handle_cmd_dfs; what is neither put nor get, or  *)
(* cannot be read, ends the connection.                                    *)
ReceiveFirst(k, s) ==
  /\ wpc[k][s] = "first"
  /\ ServerReceives(k, s, 2 * HdrLen)
  /\ wcmd' = [wcmd EXCEPT ![k][s] = Parsed(@, Taken(toServer[k][s], 2 * HdrLen))]
  /\ \/ wcmd'[k][s].op = "put" /\ Step(k, s, "first", "add")
     \/ wcmd'[k][s].op = "get" /\ Step(k, s, "first", "find")
     \/ wcmd'[k][s].op = "" /\ Step(k, s, "first", "closed")
  /\ UNCHANGED <<cabinet, file, nodes>>

(* handle_put_dfs, for every header but the first                          *)
ReceiveNext(k, s) ==
  /\ wpc[k][s] = "next"
  /\ ServerReceives(k, s, HdrLen)
  /\ wcmd' = [wcmd EXCEPT ![k][s] =
       Parsed([@ EXCEPT !.op = ""], Taken(toServer[k][s], HdrLen))]
  /\ \/ wcmd'[k][s].op = "put" /\ Step(k, s, "next", "add")
     \/ wcmd'[k][s].op # "put" /\ Step(k, s, "next", "closed")
  /\ UNCHANGED <<cabinet, file, nodes>>

(* recieve_chunk: the node, the file, and what the file is to hold.        *)
AddNode(k, s) ==
  /\ Step(k, s, "add", "create")
  /\ CanWrite(s, wcmd[k][s].name)
  /\ cabinet' = [cabinet EXCEPT ![s] = Append(@, [wcmd[k][s] EXCEPT !.op = "get"])]
  /\ UNCHANGED <<file, socket, wcmd, nodes, net>>

CreateChunk(k, s) ==
  LET id == Id(wcmd[k][s]) IN
  /\ Step(k, s, "create", "body")
  /\ CanWrite(s, wcmd[k][s].name)
  /\ file' = [file EXCEPT ![s] =
       [x \in DOMAIN @ \cup {id} |-> IF x = id THEN <<>> ELSE @[x]]]
  /\ UNCHANGED <<cabinet, socket, wcmd, nodes, net>>

ReceiveBodyWhole(k, s) ==                  \* fault: recv until all has come
  LET id == Id(wcmd[k][s])
      limit == Value(wcmd[k][s].size) - Len(file[s][id])
      data == Taken(toServer[k][s], limit)
  IN
  /\ wpc[k][s] = "body"
  /\ ServerReceives(k, s, limit)
  /\ file' = [file EXCEPT ![s][id] = @ \o data]
  /\ Step(k, s, "body", IF Len(data) < limit THEN "body" ELSE "next")
  /\ UNCHANGED <<cabinet, wcmd, nodes>>

(* The loop receives once, and, if anything came, once more what is left,  *)
(* which is mostly nothing.                                                *)
ReceiveBody(k, s) ==
  LET id == Id(wcmd[k][s])
      size == Value(wcmd[k][s].size)
      limit == size - Len(file[s][id])
      data == Taken(toServer[k][s], limit)
  IN
  /\ wpc[k][s] \in {"body", "rest"}
  /\ ServerReceives(k, s, limit)
  /\ file' = [file EXCEPT ![s][id] = @ \o data]
  /\ \/ data # <<>> /\ Step(k, s, "body", "rest")
     \/ data = <<>> /\ Step(k, s, "body", "next")
     \/ Step(k, s, "rest", "next")
  /\ UNCHANGED <<cabinet, wcmd, nodes>>

OldestOf(list, I) == list[Min(I)]          \* fault: the search begins at the head

NewestOf(list, I) == list[Max(I)]

(* handle_get_dfs: the newest node of the file, and the newest of another  *)
(* chunk.  Without the second nothing is sent.                             *)
Find(k, s) ==
  LET n == wcmd[k][s].name
      found == {i \in DOMAIN cabinet[s] : cabinet[s][i].name = n}
      first == NewestOf(cabinet[s], found)
      others == {i \in found : cabinet[s][i].chunk # first.chunk}
  IN
  /\ wpc[k][s] = "find" /\ CanRead(s, n)
  /\ \/ /\ found # {} /\ others # {}
        /\ nodes' = [nodes EXCEPT ![k][s] = <<first, NewestOf(cabinet[s], others)>>]
        /\ Step(k, s, "find", "send")
     \/ /\ found = {} \/ others = {}
        /\ Step(k, s, "find", "closed")
        /\ UNCHANGED nodes
  /\ UNCHANGED <<cabinet, file, socket, wcmd, net>>

NodeSent(k, s, l) ==
  /\ nodes' = [nodes EXCEPT ![k][s] = Tail(@)]
  /\ Step(k, s, l, IF nodes'[k][s] = <<>> THEN "closed" ELSE "send")

(* send_chunk: a chunk that has no file yet is sent as a header only.      *)
SendHeader(k, s) ==
  LET n == nodes[k][s][1] IN
  /\ wpc[k][s] = "send" /\ CanRead(s, n.name)
  /\ wcmd' = [wcmd EXCEPT ![k][s] = Fields(@, n)]
  /\ ServerSends(k, s, HeaderCells(wcmd'[k][s]))
  /\ \/ /\ Id(n) \in DOMAIN file[s]
        /\ Step(k, s, "send", "sendbody")
        /\ UNCHANGED <<nodes, disturbed>>
     \/ /\ Id(n) \notin DOMAIN file[s]
        /\ NodeSent(k, s, "send")
        /\ disturbed' = [disturbed EXCEPT ![k][s] = TRUE]
  /\ UNCHANGED <<cabinet, file>>

SendBody(k, s) ==
  LET content == file[s][Id(nodes[k][s][1])] IN
  /\ wpc[k][s] = "sendbody"
  /\ NodeSent(k, s, "sendbody")
  /\ ServerSends(k, s, Block(content))
  /\ disturbed' = [disturbed EXCEPT ![k][s] = @ \/ content = <<>>]
  /\ UNCHANGED <<cabinet, file, wcmd>>

GoneWithDrawers(s) ==                      \* fault: drawers outlive the server
  up' = [up EXCEPT ![s] = FALSE] /\ UNCHANGED cabinet

(* The server is gone: its connections end, and so do its drawers.         *)
Gone(s) ==
  /\ up' = [up EXCEPT ![s] = FALSE]
  /\ cabinet' = [cabinet EXCEPT ![s] = <<>>]

(* A send to a client that has closed: SIGPIPE, or exit in send_wrap.      *)
Die(k, s) ==
  /\ wpc[k][s] \in {"send", "sendbody"}
  /\ ClientEnded(k) /\ MayBeKilled(toClient[k][s])
  /\ wpc[k][s] = "send" => CanRead(s, nodes[k][s][1].name)
  /\ socket[s] = None
  /\ Gone(s)
  /\ wpc' = [j \in Clients |-> [wpc[j] EXCEPT ![s] = IF @ = "none" THEN @ ELSE "closed"]]
  /\ disturbed' = [j \in Clients |->
       [disturbed[j] EXCEPT ![s] = @ \/ wpc[j][s] \notin {"none", "closed"}]]
  /\ UNCHANGED <<ofClient, file, socket, wcmd, nodes, toServer, toClient,
                 stops>>

Worker(k, s) ==
  /\ wpc[k][s] \notin {"none", "closed"}
  /\ \/ Wait(k, s) \/ ReceiveFirst(k, s) \/ ReceiveNext(k, s)
     \/ AddNode(k, s) \/ CreateChunk(k, s) \/ ReceiveBody(k, s)
     \/ Find(k, s) \/ SendHeader(k, s) \/ SendBody(k, s)
  /\ UNCHANGED <<ofClient, power>>
-----------------------------------------------------------------------------
(* Client k.                                                               *)

Goto(k, l, m) == pc[k] = l /\ pc' = [pc EXCEPT ![k] = m]

(* The versions of its file that a get starting now may find: the newest   *)
(* one if it can be answered, and those still being put.                   *)
Findable(n) ==
  LET found == {i \in DOMAIN cabinet[0] : cabinet[0][i].name = n}
      chunks == {cabinet[0][i].chunk : i \in found}
  IN IF \E c, d \in chunks : c # d
     THEN {cabinet[0][Max(found)].ver} \cup
          {j \in Clients : cmd[j].op = "put" /\ Contains(cmd[j].files, n) /\ ~ServerEnded(j, 0)}
     ELSE {}

(* main: every command needs every server.                                 *)
Connect(k) ==
  LET n == cmd[k].files[1] IN
  /\ \A s \in Servers : up[s]
  /\ Goto(k, "start", IF cmd[k].op = "put" THEN "put" ELSE "ask")
  /\ wpc' = [wpc EXCEPT ![k] =
       [s \in Servers |-> IF Contains(cmd[k].servers, s) THEN "first" ELSE "none"]]
  /\ \/ cmd[k].op = "put" /\ UNCHANGED <<reply, fresh>>
     \/ /\ cmd[k].op = "get"
        /\ reply' = [reply EXCEPT ![k] = [Blank EXCEPT !.op = "get", !.name = n]]
        /\ fresh' = [fresh EXCEPT ![k] = Findable(n)]
  /\ UNCHANGED <<cmd, sent, asked, left, got, late, cabinet, file, socket, wcmd,
                 nodes, net>>

Refuse(k) ==
  /\ \E s \in Servers : ~up[s]
  /\ Goto(k, "start", "refused")
  /\ UNCHANGED <<cmd, sent, asked, reply, left, got, late, fresh, ofServer,
                 net>>

ClientSends(k, s, cells) ==
  /\ toServer' = [toServer EXCEPT ![k][s] = @ \o cells]
  /\ UNCHANGED <<toClient, disturbed>>

(* The message the client of a put sends next: to which server, and the    *)
(* file and the chunk it is about.                                         *)
PerFile(k) == 4 * Len(cmd[k].servers)

FileOf(k) == cmd[k].files[(sent[k] \div PerFile(k)) + 1]

ServerOf(k) == cmd[k].servers[((sent[k] % PerFile(k)) \div 4) + 1]

ChunkOf(k) == Part(FileOf(k), ServerOf(k), (sent[k] % 4) \div 2)

(* handle_put_dfc sends two chunks to each server in turn, each a header   *)
(* and a body.  A send to a server that has closed may raise SIGPIPE.      *)
PutSend(k) ==
  LET n == FileOf(k)
      s == ServerOf(k)
      c == ChunkOf(k)
      isHeader == sent[k] % 2 = 0
      isLast == sent[k] + 1 = PerFile(k) * Len(cmd[k].files)
  IN
  /\ pc[k] = "put"
  /\ isHeader \/ ChunkSize(n, c) > 0
  /\ ClientSends(k, s, IF isHeader THEN HeaderCells(PutHeader(n, k, c)) ELSE Body(n, k, c))
  /\ sent' = [sent EXCEPT ![k] = @ + 1]
  /\ \/ Goto(k, "put", IF isLast THEN "done" ELSE "put")
     \/ /\ ServerEnded(k, s) /\ MayBeKilled(toServer[k][s])
        /\ Goto(k, "put", "killed")
  /\ UNCHANGED <<cmd, asked, reply, left, got, late, fresh, ofServer>>

(* Of an empty chunk it sends nothing, for ever.                           *)
Spins(k) ==
  pc[k] = "put" /\ sent[k] % 2 = 1 /\ ChunkSize(FileOf(k), ChunkOf(k)) = 0

SendNothing(k) == Spins(k) /\ UNCHANGED vars

(* get_chunk_from_server                                                   *)
Ask(k) ==
  /\ Goto(k, "ask", "header")
  /\ ClientSends(k, asked[k], HeaderCells(reply[k]))
  /\ UNCHANGED <<cmd, sent, asked, reply, left, got, late, fresh, ofServer>>

ReceiveHeader(k) ==
  /\ Goto(k, "header", "body")
  /\ ClientReceives(k, HdrLen)
  /\ reply' = [reply EXCEPT ![k] = Parsed(@, Taken(toClient[k][asked[k]], HdrLen))]
  /\ UNCHANGED <<cmd, sent, asked, left, got, fresh, ofServer, disturbed>>

(* get_body_from_serv: the file is open for appending, so its offset in    *)
(* the header does not matter.                                             *)
ReceiveChunk(k) ==
  LET s == asked[k]
      limit == IF pc[k] = "rest" THEN left[k] ELSE Value(reply[k].size)
      buf == Taken(toClient[k][s], limit)
  IN
  /\ pc[k] \in {"body", "rest"}
  /\ ClientReceives(k, limit)
  /\ got' = [got EXCEPT ![k] = @ \o Text(buf)]
  /\ \/ /\ Len(buf) \in 1..limit - 1
        /\ Goto(k, "body", "rest")
        /\ left' = [left EXCEPT ![k] = limit - Len(buf)]
     \/ /\ Goto(k, "rest", "next") \/ (Len(buf) \notin 1..limit - 1 /\ Goto(k, "body", "next"))
        /\ left' = [left EXCEPT ![k] = 0]
  /\ UNCHANGED <<cmd, sent, asked, reply, fresh, ofServer, disturbed>>

(* What comes next is a header, or the end of what this server sends.      *)
(* The command is cleared before the other server is asked with it.        *)
ReceiveNextHeader(k) ==
  LET buf == Taken(toClient[k][asked[k]], HdrLen) IN
  /\ pc[k] = "next"
  /\ ClientReceives(k, HdrLen)
  /\ reply' = [reply EXCEPT ![k] = Parsed([@ EXCEPT !.op = ""], buf)]
  /\ \/ reply'[k].op = "get" /\ Goto(k, "next", "body") /\ UNCHANGED asked
     \/ /\ reply'[k].op # "get" /\ asked[k] = 0
        /\ Goto(k, "next", "ask")
        /\ asked' = [asked EXCEPT ![k] = 2]
     \/ /\ reply'[k].op # "get" /\ asked[k] = 2
        /\ Goto(k, "next", "done")
        /\ UNCHANGED asked
  /\ UNCHANGED <<cmd, sent, left, got, fresh, ofServer, disturbed>>

Client(k) ==
  /\ pc[k] \notin {"done", "refused", "killed"}
  /\ \/ Connect(k) \/ Refuse(k) \/ PutSend(k)
     \/ Ask(k) \/ ReceiveHeader(k) \/ ReceiveChunk(k) \/ ReceiveNextHeader(k)
  /\ UNCHANGED power
-----------------------------------------------------------------------------
(* A server is told to stop, and joins its workers first.  Started again,  *)
(* it has empty drawers: what is on the disk is not read.                  *)
Joined(s) == \A k \in Clients : wpc[k][s] \in {"none", "closed"}

MainReturns(s) == Joined(s)

Stop(s) ==
  /\ up[s] /\ s \in Stopped /\ stops < MaxStops
  /\ MainReturns(s)
  /\ Gone(s)
  /\ stops' = stops + 1
  /\ UNCHANGED <<ofClient, file, socket, wpc, wcmd, nodes, net>>

StartAgain(s) ==
  /\ ~up[s]
  /\ up' = [up EXCEPT ![s] = TRUE]
  /\ UNCHANGED <<ofClient, ofServer, stops, net>>

Terminating ==
  /\ \A k \in Clients : pc[k] \in {"done", "refused", "killed"} /\ \A s \in Servers : Joined(s)
  /\ UNCHANGED vars

Next ==
  \/ \E k \in Clients : Client(k) \/ SendNothing(k) \/ \E s \in Servers : Worker(k, s) \/ Die(k, s)
  \/ \E s \in Servers : Stop(s) \/ StartAgain(s)
  \/ Terminating

Spec == Init /\ [][Next]_vars

(* Clients and workers run; nobody has to start a server again.  Behaviours*)
(* have finitely many steps, so that none of them waits while others run   *)
(* for ever.                                                               *)
Runs == \E k \in Clients : Client(k) \/ \E s \in Servers : Worker(k, s)

FairSpec == Spec /\ WF_vars(Runs)
-----------------------------------------------------------------------------
(* Every variable has its type.                                            *)
IsStream(cells) == \A i \in DOMAIN cells : cells[i][1] \in {"head", "byte", "nul", "memory"}

IsPlace(p) ==
  p \in {"none", "first", "add", "create", "body", "rest", "next",
         "find", "send", "sendbody", "closed"}

TypeOK ==
  /\ \A k \in Clients :
       /\ pc[k] \in {"start", "put", "ask", "header", "body", "rest", "next",
                     "done", "refused", "killed"}
       /\ sent[k] \in Nat /\ asked[k] \in {0, 2}
       /\ fresh[k] \subseteq Versions /\ late[k] \in BOOLEAN
       /\ \A i \in DOMAIN got[k] : got[k][i] # <<"nul">>
  /\ \A s \in Servers :
       /\ up[s] \in BOOLEAN /\ socket[s] \in Clients \cup {None}
       /\ ~up[s] => cabinet[s] = <<>> /\ Joined(s)
       /\ DOMAIN file[s] \subseteq Ids
       /\ \A k \in Clients :
            /\ IsPlace(wpc[k][s]) /\ Len(nodes[k][s]) <= 2
            /\ socket[s] = k => wpc[k][s] \in {"first", "body", "rest", "next"}
            /\ IsStream(toServer[k][s]) /\ IsStream(toClient[k][s])

(* What a put sends to server s: <<file, chunk>>, chunk after chunk.       *)
ChunksFor(k, s) ==
  FlattenSeq([i \in DOMAIN cmd[k].files |->
    <<<<cmd[k].files[i], Part(cmd[k].files[i], s, 0)>>,
      <<cmd[k].files[i], Part(cmd[k].files[i], s, 1)>>>>])

(* The length of chunk i is printed over a longer one, and so is read as   *)
(* another number.  A server that expects more bytes than come takes them  *)
(* from what follows, if something does.                                   *)
Misread(k, s, i) ==
  LET digits(j) == Len(Digits(ChunkSize(ChunksFor(k, s)[j][1], ChunksFor(k, s)[j][2])))
  IN i < Len(ChunksFor(k, s)) /\ \E j \in 1..i - 1 : digits(j) > digits(i)

PutDone(k, s) ==
  cmd[k].op = "put" /\ pc[k] = "done" /\ ServerEnded(k, s) /\ ~disturbed[k][s]

(* When a put is done and no recv of a server took parts of two messages,  *)
(* the server has the chunks it was sent, byte for byte, until one whose   *)
(* length is misread: offsets, lengths, the end of each chunk and what is  *)
(* left in df_serv_cmd of the chunk before agree between df_client.c and   *)
(* df_server_funs.c.                                                       *)
ChunksExact ==
  \A k \in Clients, s \in Servers : PutDone(k, s) =>
    \A i \in DOMAIN ChunksFor(k, s) :
      LET n == ChunksFor(k, s)[i][1]
          c == ChunksFor(k, s)[i][2]
      IN (\A j \in 1..i : ~Misread(k, s, j)) =>
           <<n, k, c>> \in DOMAIN file[s] /\ file[s][<<n, k, c>>] = Body(n, k, c)

(* After such a put to both of them, servers 0 and 2 together have every   *)
(* byte of its (first) file, and so have servers 1 and 3: handle_get_dfc asks *)
(* no more than one of these pairs.                                        *)
PairsHold ==
  \A k \in Clients, pair \in {{0, 2}, {1, 3}} :
    cmd[k].op = "put" /\ pair \subseteq Range(cmd[k].servers) /\ (\A s \in pair : PutDone(k, s))
      => \A i \in 1..Size[cmd[k].files[1]] :
           \E s \in pair, c \in Chunks :
             LET id == <<cmd[k].files[1], k, c>> IN
             id \in DOMAIN file[s] /\ Contains(file[s][id], Byte(id[1], k, i))

(* What a get may make of a chunk: where its length is misread and it      *)
(* fills the buffer of send_chunk, memory behind the buffer follows.       *)
ReadsAs(content, cells) ==
  \/ cells = content
  \/ /\ Len(content) >= HdrLen /\ IsPrefix(content, cells)
     /\ \A i \in Len(content) + 1..Len(cells) : cells[i] = <<"memory">>

(* A get to which no header came without its chunk wrote one whole chunk   *)
(* of server 0 or nothing: a server sends no chunk while it is received,   *)
(* and none is received twice.                                             *)
GotIsStored ==
  \A k \in Clients :
    cmd[k].op = "get" /\ pc[k] = "done" /\ ~disturbed[k][0]
      => got[k] = <<>> \/ \E content \in Range(file[0]) : ReadsAs(content, got[k])

(* If, moreover, nothing was late, and server 0 could answer when the get  *)
(* started, it wrote a chunk of the newest version there was then, or of   *)
(* one that was being put.                                                 *)
GetsFresh ==
  \A k \in Clients :
    cmd[k].op = "get" /\ pc[k] = "done" /\ ~disturbed[k][0] /\ ~late[k] /\ fresh[k] # {}
      => \E v \in fresh[k], c \in Chunks :
           LET id == <<cmd[k].files[1], v, c>> IN
           id \in DOMAIN file[0] /\ ReadsAs(file[0][id], got[k])

(* Every node of a cabinet has its chunk on the disk, or a worker is about *)
(* to create it: also after servers died and were started again.           *)
NodesHaveChunks ==
  \A s \in Servers : \A i \in DOMAIN cabinet[s] :
    \/ Id(cabinet[s][i]) \in DOMAIN file[s]
    \/ \E k \in Clients : wpc[k][s] = "create" /\ Id(wcmd[k][s]) = Id(cabinet[s][i])

(* Whatever the servers do, every client ends and every connection is      *)
(* closed, but for a put of a file that has an empty chunk: gets wait no   *)
(* more than a second, puts only send, and a worker waits in recv, with    *)
(* socket_sem and perhaps the lock of a drawer, only for a client that     *)
(* goes on or closes.                                                      *)
EverythingEnds ==
  <>[](/\ \A k \in Clients : pc[k] \in {"done", "refused", "killed"} \/ Spins(k)
       /\ \A s \in Servers : Joined(s) \/ \E k \in Clients : Spins(k))

(* A get queries one server for a version of the file and another for the  *)
(* remaining chunks: when nothing goes wrong and nobody puts the file,     *)
(* it writes every byte.                                                   *)
RemainingFetched ==
  \A k \in Clients :
    cmd[k].op = "get" =>
    LET n == cmd[k].files[1] IN
    /\ pc[k] = "done" /\ ~late[k]
    /\ \A s \in Servers : up[s] /\ ~disturbed[k][s]
    /\ stops = 0 /\ Contains(Before, n)
    /\ \A j \in Clients : cmd[j].op = "put" => ~Contains(cmd[j].files, n)
    => \A i \in 1..Size[n] : Contains(got[k], Byte(n, 0, i))
=============================================================================
