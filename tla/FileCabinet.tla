----------------------------- MODULE FileCabinet -----------------------------
(***************************************************************************)
(* The server of the distributed file system (src/4_PA): worker threads    *)
(* store chunks of files and send them back.  A drawer of the cabinet is a *)
(* list of the nodes of its chunks, newest last, under an rwlock; a chunk  *)
(* is a file of its own, written while its drawer is locked.               *)
(*                                                                         *)
(* A client splits a file in four and gives each server two of the chunks  *)
(* on one connection, here 1 and 2.  populate_file_cabinet_node stores the *)
(* hash of the file's name where the hash of name and time should be, and  *)
(* that is also what build_serv_cmd tells the client: no lookup tells the  *)
(* versions of a file apart.                                               *)
(*                                                                         *)
(* socket_sem is left out: a thread that holds it waits for no lock.       *)
(***************************************************************************)
EXTENDS Integers, Sequences, SequencesExt

CONSTANTS
  Threads,      \* the workers
  Names,        \* file names
  Drawers,      \* the indices of file_cabinet->arr
  DrawerOf,     \* Names -> Drawers: file_cabinet_hash of the name's MD5
  Extensions,   \* Extensions[n]: the names that begin with name n
  MaxPuts,      \* bound: puts of all clients
  MaxGets,      \* bound: gets of all clients
  None

Chunks == {1, 2}
Nodes == Names \X (1..MaxPuts) \X Chunks   \* <<name, put, chunk>>

ASSUME CabinetAssumption ==
  /\ DrawerOf \in [Names -> Drawers]
  /\ Extensions \in [Names -> SUBSET Names] /\ \A n \in Names : n \in Extensions[n]
  /\ MaxPuts \in Nat /\ MaxGets \in Nat
  /\ None \notin Threads /\ None \notin Names /\ None \notin Nodes

VARIABLES
  drawer,    \* drawer[d]: its nodes, from the first to the tail
  sibling,   \* sibling[n]: the node n->sibling points to
  writer,    \* writer[d]: the thread holding drawer_lock for writing
  readers,   \* readers[d][t]: read locks of the drawer held by t
  content,   \* content[n]: the chunk's file
  filelist,  \* the lines of the file "filelist"
  puts,      \* puts that have begun
  gets,      \* gets that have begun
  pc,        \* where each thread is
  node,      \* file_node of a put, the chunk a get sends
  name       \* cmd->filename_hr

lockVars == <<writer, readers>>
vars == <<drawer, sibling, lockVars, content, filelist, puts, gets, pc, node, name>>

Init ==
  /\ drawer = [d \in Drawers |-> <<>>]
  /\ sibling = [n \in Nodes |-> None]
  /\ writer = [d \in Drawers |-> None]
  /\ readers = [d \in Drawers |-> [t \in Threads |-> 0]]
  /\ content = [n \in Nodes |-> "absent"]
  /\ filelist = <<>>
  /\ puts = 0
  /\ gets = 0
  /\ pc = [t \in Threads |-> "idle"]
  /\ node = [t \in Threads |-> None]
  /\ name = [t \in Threads |-> None]

Drawer(t) == DrawerOf[name[t]]

(* Thread t, which is at l, goes to m.                                     *)
Step(t, l, m) == pc[t] = l /\ pc' = [pc EXCEPT ![t] = m]

(* The request is handled, as far as the thread will.                      *)
Ends(t, l) ==
  /\ Step(t, l, "idle")
  /\ node' = [node EXCEPT ![t] = None]
  /\ name' = [name EXCEPT ![t] = None]

(* The lock of a drawer prefers writers: one that waits keeps readers out. *)
WriterWaits(d) == \E t \in Threads : pc[t] \in {"addwait", "writewait"} /\ Drawer(t) = d

CanReadShared(d) == ~WriterWaits(d)        \* fault: rdlock in get_ll_wlock

CanRead(d) == writer[d] = None /\ ~WriterWaits(d)

CanWrite(d) == writer[d] = None /\ \A t \in Threads : readers[d][t] = 0

RdLock(d, t) == readers' = [readers EXCEPT ![d][t] = @ + 1]
-----------------------------------------------------------------------------
(* A put: recieve_chunk, once for each chunk.                              *)

StartPut(t, n) ==
  /\ Step(t, "idle", "list")
  /\ puts < MaxPuts
  /\ puts' = puts + 1
  /\ name' = [name EXCEPT ![t] = n]
  /\ node' = [node EXCEPT ![t] = <<n, puts', 1>>]
  /\ UNCHANGED <<drawer, sibling, lockVars, content, filelist, gets>>

(* record_to_file_list.  The list is locked for reading only, and so does  *)
(* not keep two threads apart.  A line counts when it begins with the name.*)
Listed(n) == \E i \in DOMAIN filelist : filelist[i] \in Extensions[n]

SearchFileList(t) ==
  /\ \/ Step(t, "list", "add") /\ Listed(name[t])
     \/ Step(t, "list", "record") /\ ~Listed(name[t])
  /\ UNCHANGED <<drawer, sibling, lockVars, content, filelist, puts, gets, node, name>>

NotRecorded(n) == UNCHANGED filelist       \* fault: the name is not written

Recorded(n) == filelist' = Append(filelist, n)

RecordName(t) ==
  /\ Step(t, "record", "add")
  /\ Recorded(name[t])
  /\ UNCHANGED <<drawer, sibling, lockVars, content, puts, gets, node, name>>

(* add_file_cabinet_entry and get_ll_wlock each wait for the lock.         *)
LockEnter(t) ==
  /\ Step(t, "add", "addwait") \/ Step(t, "write", "writewait")
  /\ UNCHANGED <<drawer, sibling, lockVars, content, filelist, puts, gets, node, name>>

NewBeforeTail(list, n) ==                  \* fault: the tail stays the tail
  IF list = <<>> THEN <<n>> ELSE Append(Front(list), n) \o <<Last(list)>>

NewTail(list, n) == Append(list, n)

AddEntry(t) ==
  /\ Step(t, "addwait", "write")
  /\ CanWrite(Drawer(t))
  /\ drawer' = [drawer EXCEPT ![Drawer(t)] = NewTail(@, node[t])]
  /\ UNCHANGED <<sibling, lockVars, content, filelist, puts, gets, node, name>>

CreateChunk(t) ==
  /\ Step(t, "writewait", "recv")
  /\ CanWrite(Drawer(t))
  /\ writer' = [writer EXCEPT ![Drawer(t)] = t]
  /\ content' = [content EXCEPT ![node[t]] = "begun"]
  /\ UNCHANGED <<drawer, sibling, readers, filelist, puts, gets, node, name>>

NoWrUnlock(t) == UNCHANGED writer          \* fault: the lock is not released

WrUnlock(t) == writer' = [writer EXCEPT ![Drawer(t)] = None]

(* The receive loop ends after the first recv that asks for less than the  *)
(* others: a chunk in more pieces, or of a client that closes, is cut      *)
(* short, which no property below tells apart.                             *)
ReceiveChunk(t) ==
  /\ Step(t, "recv", "next")
  /\ content' = [content EXCEPT ![node[t]] = "received"]
  /\ WrUnlock(t)
  /\ UNCHANGED <<drawer, sibling, readers, filelist, puts, gets, node, name>>

(* handle_put_dfs: the next chunk, unless the client has closed.           *)
NextChunk(t) ==
  /\ \/ /\ Step(t, "next", "list")
        /\ node[t][3] = 1
        /\ node' = [node EXCEPT ![t][3] = 2]
        /\ UNCHANGED name
     \/ Ends(t, "next")
  /\ UNCHANGED <<drawer, sibling, lockVars, content, filelist, puts, gets>>
-----------------------------------------------------------------------------
(* A get: handle_get_dfs.                                                  *)

(* The first server a client asks sends the newest version it has; another *)
(* is asked for the version the first one named, if it named one.  The     *)
(* server answers such requests; df_client never makes one (see Dfs).      *)
StartGet(t, n) ==
  /\ Step(t, "idle", "find") \/ Step(t, "idle", "findnone")
  /\ gets < MaxGets
  /\ gets' = gets + 1
  /\ name' = [name EXCEPT ![t] = n]
  /\ node' = [node EXCEPT ![t] = None]
  /\ UNCHANGED <<drawer, sibling, lockVars, content, filelist, puts>>

(* The positions in drawer d of the chunks of file n that are in C.        *)
Positions(d, n, C) == {i \in DOMAIN drawer[d] : drawer[d][i][1] = n /\ drawer[d][i][3] \in C}

(* find_chunk_sibling, which writes under the read lock.                   *)
WithSibling(d, n) ==
  LET others == Positions(d, n[1], Chunks \ {n[3]}) IN
  IF others = {} THEN sibling
  ELSE [sibling EXCEPT ![n] = drawer[d][Max(others)]]

(* get_file_agnostic; get_file_gnostic finds the same node, since what it  *)
(* compares is the hash of the name.                                       *)
FindFile(t) ==
  LET d == Drawer(t)
      found == Positions(d, name[t], Chunks)
  IN
  /\ Step(t, "find", "check")
  /\ found # {}
  /\ CanRead(d)
  /\ node' = [node EXCEPT ![t] = drawer[d][Max(found)]]
  /\ sibling' = WithSibling(d, node'[t])
  /\ UNCHANGED <<drawer, lockVars, content, filelist, puts, gets, name>>

(* The search fails: the lock is released only if the drawer is empty.     *)
Miss(t, d) ==
  /\ CanRead(d)
  /\ IF drawer[d] = <<>> THEN UNCHANGED readers ELSE RdLock(d, t)

MissFile(t) ==
  /\ Ends(t, "find")
  /\ Positions(Drawer(t), name[t], Chunks) = {}
  /\ Miss(t, Drawer(t))
  /\ UNCHANGED <<drawer, sibling, writer, content, filelist, puts, gets>>

(* A client whose first server did not answer names no version: nothing is *)
(* found.  get_file_agnostic is then passed the command where it expects a *)
(* hash, and searches whichever drawer that comes to.                      *)
MissVersion(t) ==
  /\ Step(t, "findnone", "findany")
  /\ Miss(t, Drawer(t))
  /\ UNCHANGED <<drawer, sibling, writer, content, filelist, puts, gets, node, name>>

MissAny(t) ==
  /\ Ends(t, "findany")
  /\ \E d \in Drawers : Miss(t, d)
  /\ UNCHANGED <<drawer, sibling, writer, content, filelist, puts, gets>>

CheckSibling(t) ==
  /\ \/ Ends(t, "check") /\ sibling[node[t]] = None
     \/ Step(t, "check", "send") /\ sibling[node[t]] # None /\ UNCHANGED <<node, name>>
  /\ UNCHANGED <<drawer, sibling, lockVars, content, filelist, puts, gets>>

(* After the node its sibling is sent, as it then is.                      *)
AfterSend(t, first, second) ==
  \/ /\ Step(t, first, "sendsib")
     /\ node' = [node EXCEPT ![t] = sibling[@]]
     /\ UNCHANGED name
  \/ Ends(t, second)

(* send_chunk: the header, and the body if there is a file.                *)
SendHeader(t) ==
  /\ pc[t] \in {"send", "sendsib"} /\ CanRead(Drawer(t))
  /\ \/ /\ content[node[t]] # "absent"
        /\ Step(t, "send", "body") \/ Step(t, "sendsib", "bodysib")
        /\ RdLock(Drawer(t), t)
        /\ UNCHANGED <<node, name>>
     \/ /\ content[node[t]] = "absent"
        /\ AfterSend(t, "send", "sendsib")
        /\ UNCHANGED readers
  /\ UNCHANGED <<drawer, sibling, writer, content, filelist, puts, gets>>

RdUnlockTwice(t) ==                        \* fault: two calls of release_ll_rwlock
  readers' = [readers EXCEPT ![Drawer(t)][t] = @ - 2]

RdUnlock(t) == readers' = [readers EXCEPT ![Drawer(t)][t] = @ - 1]

SendBody(t) ==
  /\ AfterSend(t, "body", "bodysib")
  /\ RdUnlock(t)
  /\ UNCHANGED <<drawer, sibling, writer, content, filelist, puts, gets>>
-----------------------------------------------------------------------------
Work(t) ==
  \/ SearchFileList(t) \/ RecordName(t) \/ LockEnter(t) \/ AddEntry(t)
  \/ CreateChunk(t) \/ ReceiveChunk(t) \/ NextChunk(t)
  \/ FindFile(t) \/ MissFile(t) \/ MissVersion(t) \/ MissAny(t)
  \/ CheckSibling(t) \/ SendHeader(t) \/ SendBody(t)

Next == \E t \in Threads : Work(t) \/ \E n \in Names : StartPut(t, n) \/ StartGet(t, n)

Spec == Init /\ [][Next]_vars

(* The scheduler runs the workers, and clients send what they announce or  *)
(* close.  They need not come.                                             *)
FairSpec == Spec /\ \A t \in Threads : WF_vars(Work(t))
-----------------------------------------------------------------------------
(* Every variable has its type.                                            *)
TypeOK ==
  /\ drawer \in [Drawers -> Seq(Nodes)]
  /\ sibling \in [Nodes -> Nodes \cup {None}]
  /\ writer \in [Drawers -> Threads \cup {None}]
  /\ readers \in [Drawers -> [Threads -> Nat]]
  /\ content \in [Nodes -> {"absent", "begun", "received"}]
  /\ filelist \in Seq(Names)
  /\ puts \in 0..MaxPuts /\ gets \in 0..MaxGets
  /\ pc \in [Threads -> {"idle", "list", "record", "add", "addwait", "write",
                         "writewait", "recv", "next", "find", "findnone", "findany",
                         "check", "send", "body", "sendsib", "bodysib"}]
  /\ node \in [Threads -> Nodes \cup {None}]
  /\ name \in [Threads -> Names \cup {None}]

(* A chunk is not written while it is read for a client.                   *)
NoTornChunk ==
  \A t \in Threads : pc[t] \in {"body", "bodysib"} => content[node[t]] # "begun"

(* find_chunk_sibling writes a node with other readers about, and the node *)
(* is used later with no lock: still, a sibling once found is never        *)
(* changed, however many versions are added, so no reader sees two.        *)
SiblingsStay ==
  [][\A n \in Nodes : sibling[n] # None => sibling'[n] = sibling[n]]_vars

(* A file of which a chunk is in the cabinet is in the file list, or one   *)
(* whose name begins with its name is.                                     *)
StoredIsListed ==
  \A d \in Drawers : \A i \in DOMAIN drawer[d] : Listed(drawer[d][i][1])

(* A thread that is not sending has read locks left from a search in vain. *)
LockLeft == \E d \in Drawers, t \in Threads : readers[d][t] > 0 /\ pc[t] \notin {"body", "bodysib"}

(* Every put and every get comes to an end, unless a search in vain has    *)
(* left a drawer locked.                                                   *)
RequestsEnd ==
  \A t \in Threads : pc[t] \in {"list", "find", "findnone"} ~> pc[t] = "idle" \/ LockLeft
=============================================================================
