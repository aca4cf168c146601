-------------------------- MODULE FileCabinetProofs --------------------------
(***************************************************************************)
(* Proofs about FileCabinet, for any number of workers, names, drawers,    *)
(* puts and gets.                                                          *)
(*                                                                         *)
(* The inductive invariant is built in layers: what a worker has where and *)
(* who holds which drawer; how the nodes of a put come into a drawer; what *)
(* a sibling was when it was found; what the file list holds by when.      *)
(***************************************************************************)
EXTENDS FileCabinet, IndexLemmas

Places == {"idle", "list", "record", "add", "addwait", "write", "writewait", "recv",
           "next", "find", "findnone", "findany", "check", "send", "body", "sendsib",
           "bodysib"}

Putting(t) == pc[t] \in {"list", "record", "add", "addwait", "write", "writewait",
                         "recv", "next"}
Finding(t) == pc[t] \in {"find", "findnone", "findany"}
Sending(t) == pc[t] \in {"check", "send", "body", "sendsib", "bodysib"}

(* Layer 1: what a worker has at each place of its code.                   *)
WorkOf(t) ==
  /\ Putting(t) \/ Finding(t) \/ Sending(t) => name[t] \in Names
  /\ Putting(t) \/ Sending(t) => node[t] \in Nodes /\ node[t][1] = name[t]
  /\ pc[t] \in {"send", "body"} => sibling[node[t]] # None

WorkInv == \A t \in Threads : WorkOf(t)

(* A node and its sibling are of one file.                                 *)
SameFileInv ==
  \A n \in Nodes : sibling[n] # None => sibling[n][1] = n[1]

(* A chunk is being written only by the worker that has locked its drawer; *)
(* a worker sends a chunk only with its drawer locked for reading.         *)
LockInv ==
  /\ \A d \in Drawers : writer[d] # None => \A t \in Threads : readers[d][t] = 0
  /\ \A t \in Threads : pc[t] = "recv" => writer[Drawer(t)] = t
  /\ \A t \in Threads : pc[t] \in {"body", "bodysib"} => readers[Drawer(t)][t] > 0
  /\ \A n \in Nodes : content[n] = "begun" =>
       \E t \in Threads : pc[t] = "recv" /\ node[t] = n

Layer1 == TypeOK /\ WorkInv /\ SameFileInv /\ LockInv

(* Layer 2: a put is the work of one worker, and a node is in its drawer   *)
(* once, as soon as the worker that makes it has added it.                 *)
Added(t) == pc[t] \in {"write", "writewait", "recv", "next"}

PutInv ==
  /\ \A t \in Threads : Putting(t) => node[t][2] =< puts
  /\ \A s, t \in Threads : Putting(s) /\ Putting(t) /\ s # t => node[s][2] # node[t][2]
  /\ \A d \in Drawers : \A i \in DOMAIN drawer[d] :
       /\ drawer[d][i][2] =< puts
       /\ DrawerOf[drawer[d][i][1]] = d
       /\ \A t \in Threads : Putting(t) /\ drawer[d][i][2] = node[t][2] =>
            \/ drawer[d][i][3] < node[t][3]
            \/ drawer[d][i] = node[t] /\ Added(t)

NodesOnce ==
  \A d \in Drawers : \A i, j \in DOMAIN drawer[d] : drawer[d][i] = drawer[d][j] => i = j

(* Layer 3: the sibling of a node was the last of the other chunks of its  *)
(* file before it.                                                         *)
Others(d, i) ==
  {j \in DOMAIN drawer[d] :
     j < i /\ drawer[d][j][1] = drawer[d][i][1] /\ drawer[d][j][3] # drawer[d][i][3]}

SiblingInv ==
  \A n \in Nodes : sibling[n] # None =>
    \E i \in DOMAIN drawer[DrawerOf[n[1]]] :
      LET d == DrawerOf[n[1]] IN
      /\ drawer[d][i] = n
      /\ Others(d, i) # {}
      /\ sibling[n] = drawer[d][Max(Others(d, i))]

(* Layer 4: a name is listed before its chunk is added.                    *)
ListInv ==
  /\ \A t \in Threads : pc[t] = "add" \/ pc[t] = "addwait" \/ Added(t) => Listed(name[t])
  /\ StoredIsListed

IInv == Layer1 /\ PutInv /\ NodesOnce /\ SiblingInv /\ ListInv
-----------------------------------------------------------------------------
(* A worker takes a step: it moves, and the others stay where they are.    *)
LEMMA Moved ==
  ASSUME TypeOK, NEW t \in Threads, NEW l, NEW m \in Places, Step(t, l, m)
  PROVE  /\ pc[t] = l /\ pc'[t] = m
         /\ pc' \in [Threads -> Places]
         /\ \A s \in Threads : s # t => pc'[s] = pc[s]
BY DEF TypeOK, Step, Places

(* A worker is done with its request.                                      *)
LEMMA Ended ==
  ASSUME TypeOK, NEW t \in Threads, NEW l, Ends(t, l)
  PROVE  /\ pc[t] = l /\ pc'[t] = "idle"
         /\ pc' \in [Threads -> Places]
         /\ node' \in [Threads -> Nodes \cup {None}]
         /\ name' \in [Threads -> Names \cup {None}]
         /\ \A s \in Threads : s # t => /\ pc'[s] = pc[s]
                                        /\ node'[s] = node[s] /\ name'[s] = name[s]
<1>1. Step(t, l, "idle") /\ node' = [node EXCEPT ![t] = None]
      /\ name' = [name EXCEPT ![t] = None]
  BY DEF Ends
<1>2. "idle" \in Places
  BY DEF Places
<1>3. /\ pc[t] = l /\ pc'[t] = "idle" /\ pc' \in [Threads -> Places]
      /\ \A s \in Threads : s # t => pc'[s] = pc[s]
  BY <1>1, <1>2, Moved
<1>. QED  BY <1>1, <1>3 DEF TypeOK

(* After a node its sibling is sent, or nothing.                           *)
LEMMA Sent ==
  ASSUME TypeOK, WorkInv, SameFileInv, NEW t \in Threads, NEW l, NEW m,
         AfterSend(t, l, m), l \in {"send", "body"}, m \in {"sendsib", "bodysib"}
  PROVE  /\ pc[t] \in {l, m} /\ pc'[t] \in {"idle", "sendsib"}
         /\ pc' \in [Threads -> Places]
         /\ node' \in [Threads -> Nodes \cup {None}]
         /\ name' \in [Threads -> Names \cup {None}]
         /\ pc'[t] = "sendsib" =>
              /\ name'[t] \in Names
              /\ node'[t] \in Nodes /\ node'[t][1] = name'[t]
         /\ \A s \in Threads : s # t => /\ pc'[s] = pc[s]
                                        /\ node'[s] = node[s] /\ name'[s] = name[s]
<1>1. CASE /\ Step(t, l, "sendsib")
           /\ node' = [node EXCEPT ![t] = sibling[@]]
           /\ UNCHANGED name
  <2>1. "sendsib" \in Places
    BY DEF Places
  <2>2. /\ pc[t] = l /\ pc'[t] = "sendsib" /\ pc' \in [Threads -> Places]
        /\ \A s \in Threads : s # t => pc'[s] = pc[s]
    BY <1>1, <2>1, Moved
  <2>3. /\ name[t] \in Names /\ node[t] \in Nodes /\ node[t][1] = name[t]
        /\ sibling[node[t]] # None
    BY <2>2 DEF WorkInv, WorkOf, Sending
  <2>4. sibling[node[t]] \in Nodes /\ sibling[node[t]][1] = name[t]
    BY <2>3 DEF TypeOK, SameFileInv
  <2>5. node'[t] = sibling[node[t]] /\ \A s \in Threads : s # t => node'[s] = node[s]
    BY <1>1 DEF TypeOK
  <2>6. node' \in [Threads -> Nodes \cup {None}]
    BY <1>1, <2>4 DEF TypeOK
  <2>. QED  BY <1>1, <2>2, <2>3, <2>4, <2>5, <2>6 DEF TypeOK
<1>2. CASE Ends(t, m)
  BY <1>2, Ended
<1>. QED  BY <1>1, <1>2 DEF AfterSend

(* A drawer that nobody writes is locked once more for reading.            *)
LEMMA OneLock ==
  ASSUME TypeOK, NEW t \in Threads, NEW d \in Drawers, CanRead(d), RdLock(d, t)
  PROVE  /\ readers' \in [Drawers -> [Threads -> Nat]]
         /\ readers'[d][t] > 0
         /\ \A e \in Drawers : \A s \in Threads :
              readers'[e][s] # readers[e][s] => s = t /\ writer[e] = None
<1>1. readers' = [readers EXCEPT ![d] = [readers[d] EXCEPT ![t] = readers[d][t] + 1]]
  BY DEF TypeOK, RdLock
<1>2. readers[d] \in [Threads -> Nat] /\ readers[d][t] \in Nat
  BY DEF TypeOK
<1>3. [readers[d] EXCEPT ![t] = readers[d][t] + 1] \in [Threads -> Nat]
  BY <1>2
<1>4. readers' \in [Drawers -> [Threads -> Nat]]
  BY <1>1, <1>3 DEF TypeOK
<1>5. /\ readers'[d] = [readers[d] EXCEPT ![t] = readers[d][t] + 1]
      /\ \A e \in Drawers : e # d => readers'[e] = readers[e]
  BY <1>1 DEF TypeOK
<1>6. /\ readers'[d][t] = readers[d][t] + 1
      /\ \A s \in Threads : s # t => readers'[d][s] = readers[d][s]
  BY <1>2, <1>5
<1>. QED  BY <1>2, <1>4, <1>5, <1>6 DEF CanRead

(* A worker gives back a read lock that it has.                            *)
LEMMA OneUnlock ==
  ASSUME TypeOK, NEW t \in Threads, Drawer(t) \in Drawers,
         readers[Drawer(t)][t] > 0, RdUnlock(t)
  PROVE  /\ readers' \in [Drawers -> [Threads -> Nat]]
         /\ \A e \in Drawers : \A s \in Threads :
              readers'[e][s] # readers[e][s] => s = t /\ e = Drawer(t)
<1> DEFINE d == Drawer(t)
<1>1. readers' = [readers EXCEPT ![d] = [readers[d] EXCEPT ![t] = readers[d][t] - 1]]
  BY DEF TypeOK, RdUnlock
<1> HIDE DEF d
<1>2. d \in Drawers /\ readers[d] \in [Threads -> Nat] /\ readers[d][t] - 1 \in Nat
  BY DEF TypeOK, d
<1>3. [readers[d] EXCEPT ![t] = readers[d][t] - 1] \in [Threads -> Nat]
  BY <1>2
<1>4. readers' \in [Drawers -> [Threads -> Nat]]
  BY <1>1, <1>3 DEF TypeOK
<1>5. /\ readers'[d] = [readers[d] EXCEPT ![t] = readers[d][t] - 1]
      /\ \A e \in Drawers : e # d => readers'[e] = readers[e]
  BY <1>1, <1>2 DEF TypeOK
<1>6. \A s \in Threads : s # t => readers'[d][s] = readers[d][s]
  BY <1>2, <1>5
<1>. QED  BY <1>4, <1>5, <1>6 DEF d

(* A search in vain takes at most a read lock, on a drawer nobody writes.  *)
LEMMA Missed ==
  ASSUME TypeOK, NEW t \in Threads, NEW d \in Drawers, Miss(t, d)
  PROVE  /\ readers' \in [Drawers -> [Threads -> Nat]]
         /\ \A e \in Drawers : \A s \in Threads :
              readers'[e][s] # readers[e][s] => s = t /\ writer[e] = None
<1>1. CanRead(d) /\ (UNCHANGED readers \/ RdLock(d, t))
  BY DEF Miss
<1>2. CASE UNCHANGED readers
  BY <1>2 DEF TypeOK
<1>3. CASE RdLock(d, t)
  BY <1>1, <1>3, OneLock
<1>. QED  BY <1>1, <1>2, <1>3

(* One worker takes a step: the others have what they had.                 *)
LEMMA OthersWork ==
  ASSUME WorkInv, NEW t \in Threads, WorkOf(t)',
         \A s \in Threads : s # t => pc'[s] = pc[s] /\ node'[s] = node[s] /\ name'[s] = name[s],
         \A n \in Nodes : sibling[n] # None => sibling'[n] # None
  PROVE  WorkInv'
<1> SUFFICES ASSUME NEW s \in Threads PROVE WorkOf(s)'
  BY DEF WorkInv
<1>1. CASE s = t
  BY <1>1
<1>2. CASE s # t
  BY <1>2 DEF WorkInv, WorkOf, Putting, Finding, Sending
<1>. QED  BY <1>1, <1>2

(* Worker t writes no chunk, and changes no lock but its own read locks.   *)
LEMMA LocksKept ==
  ASSUME TypeOK, WorkInv, LockInv, NEW t \in Threads,
         UNCHANGED <<writer, content>>,
         \A s \in Threads : s # t => pc'[s] = pc[s] /\ node'[s] = node[s] /\ name'[s] = name[s],
         pc[t] # "recv", pc'[t] # "recv",
         readers' \in [Drawers -> [Threads -> Nat]],
         \A d \in Drawers : \A s \in Threads :
           readers'[d][s] # readers[d][s] => s = t /\ writer[d] = None,
         pc'[t] \in {"body", "bodysib"} => readers'[Drawer(t)'][t] > 0
  PROVE  LockInv'
<1>1. \A d \in Drawers : writer'[d] # None => \A s \in Threads : readers'[d][s] = 0
  BY DEF LockInv
<1>2. \A s \in Threads : pc'[s] = "recv" => writer'[Drawer(s)'] = s
  BY DEF LockInv, Drawer
<1>3. \A s \in Threads : pc'[s] \in {"body", "bodysib"} => readers'[Drawer(s)'][s] > 0
  <2> SUFFICES ASSUME NEW s \in Threads, s # t, pc[s] \in {"body", "bodysib"}
               PROVE  readers'[Drawer(s)'][s] > 0
    OBVIOUS
  <2>1. Drawer(s)' = Drawer(s) /\ Drawer(s) \in Drawers
    BY CabinetAssumption DEF Drawer, WorkInv, WorkOf, Sending
  <2>2. readers'[Drawer(s)][s] = readers[Drawer(s)][s]
    BY <2>1
  <2>. QED  BY <2>1, <2>2 DEF LockInv
<1>4. \A n \in Nodes : content'[n] = "begun" =>
        \E s \in Threads : pc'[s] = "recv" /\ node'[s] = n
  BY DEF LockInv
<1>. QED  BY <1>1, <1>2, <1>3, <1>4 DEF LockInv

(* The chunks of a file in a drawer: their positions, their greatest.      *)
LastOf(d, n, C) == Max(Positions(d, n, C))

LEMMA PositionsInDrawer ==
  ASSUME TypeOK, NEW d \in Drawers, NEW n, NEW C, Positions(d, n, C) # {}
  PROVE  /\ LastOf(d, n, C) \in DOMAIN drawer[d]
         /\ \A y \in Positions(d, n, C) : y =< LastOf(d, n, C)
         /\ drawer[d][LastOf(d, n, C)] \in Nodes
         /\ drawer[d][LastOf(d, n, C)][1] = n /\ drawer[d][LastOf(d, n, C)][3] \in C
<1> DEFINE m == LastOf(d, n, C)
<1>1. drawer[d] \in Seq(Nodes)
  BY DEF TypeOK
<1>2. Len(drawer[d]) \in Nat /\ Positions(d, n, C) \subseteq 1..Len(drawer[d])
  BY <1>1 DEF Positions
<1>3. m \in Positions(d, n, C) /\ \A y \in Positions(d, n, C) : y =< m
  BY <1>2, MaxOfIndices DEF LastOf
<1>4. m \in DOMAIN drawer[d] /\ drawer[d][m][1] = n /\ drawer[d][m][3] \in C
  BY <1>3 DEF Positions
<1>5. drawer[d][m] \in Nodes
  BY <1>1, <1>4
<1>. QED  BY <1>3, <1>4, <1>5

(* The sibling that is found is another chunk of the same file.            *)
LEMMA SiblingFound ==
  ASSUME TypeOK, SameFileInv, NEW d \in Drawers, NEW n \in Nodes,
         sibling' = WithSibling(d, n)
  PROVE  /\ sibling' \in [Nodes -> Nodes \cup {None}]
         /\ SameFileInv'
         /\ \A x \in Nodes : x # n => sibling'[x] = sibling[x]
         /\ sibling[n] # None => sibling'[n] # None
<1> DEFINE others == Positions(d, n[1], Chunks \ {n[3]})
<1>1. CASE others = {}
  BY <1>1 DEF WithSibling, TypeOK, SameFileInv
<1>2. CASE others # {}
  <2>1. drawer[d][Max(others)] \in Nodes /\ drawer[d][Max(others)][1] = n[1]
    <3> DEFINE C == Chunks \ {n[3]}
    <3> HIDE DEF C
    <3>1. Positions(d, n[1], C) # {}
      BY <1>2 DEF C
    <3>2. /\ drawer[d][LastOf(d, n[1], C)] \in Nodes
          /\ drawer[d][LastOf(d, n[1], C)][1] = n[1]
      BY <3>1, PositionsInDrawer
    <3>. QED  BY <3>2 DEF C, LastOf
  <2>2. sibling' = [sibling EXCEPT ![n] = drawer[d][Max(others)]]
    BY <1>2 DEF WithSibling
  <2>3. None \notin Nodes
    BY CabinetAssumption
  <2>. QED  BY <2>1, <2>2, <2>3 DEF TypeOK, SameFileInv
<1>. QED  BY <1>1, <1>2
-----------------------------------------------------------------------------
LEMMA Layer1Init == Init => Layer1
BY CabinetAssumption
DEF Init, Layer1, TypeOK, WorkInv, WorkOf, SameFileInv, LockInv, Putting, Finding, Sending

(* The steps of a put keep layer 1.                                        *)
LEMMA PutKeepsLayer1 ==
  ASSUME Layer1, NEW t \in Threads,
         \/ SearchFileList(t) \/ RecordName(t) \/ LockEnter(t) \/ AddEntry(t)
         \/ CreateChunk(t) \/ ReceiveChunk(t) \/ NextChunk(t)
         \/ \E n \in Names : StartPut(t, n)
  PROVE  Layer1'
<1> USE CabinetAssumption DEF Layer1, lockVars, Drawer
<1>1. CASE SearchFileList(t)
  <2>1. TypeOK'
    BY <1>1 DEF SearchFileList, Step, TypeOK, WorkInv, WorkOf, Putting, Finding, Sending
  <2>2. WorkInv'
    BY <1>1 DEF SearchFileList, Step, TypeOK, WorkInv, WorkOf, Putting, Finding, Sending
  <2>3. SameFileInv'
    BY <1>1 DEF SearchFileList, Step, TypeOK, SameFileInv, WorkInv, WorkOf, Putting,
         Finding, Sending
  <2>4. LockInv'
    BY <1>1 DEF SearchFileList, Step, TypeOK, LockInv, WorkInv, WorkOf, Putting,
         Finding, Sending
  <2>. QED  BY <2>1, <2>2, <2>3, <2>4
<1>2. CASE RecordName(t)
  <2>1. TypeOK'
    BY <1>2 DEF RecordName, Recorded, Step, TypeOK, WorkInv, WorkOf, Putting, Finding,
         Sending
  <2>2. WorkInv'
    BY <1>2 DEF RecordName, Recorded, Step, TypeOK, WorkInv, WorkOf, Putting, Finding,
         Sending
  <2>3. SameFileInv'
    BY <1>2 DEF RecordName, Recorded, Step, TypeOK, SameFileInv, WorkInv, WorkOf,
         Putting, Finding, Sending
  <2>4. LockInv'
    BY <1>2 DEF RecordName, Recorded, Step, TypeOK, LockInv, WorkInv, WorkOf, Putting,
         Finding, Sending
  <2>. QED  BY <2>1, <2>2, <2>3, <2>4
<1>3. CASE LockEnter(t)
  <2>1. TypeOK'
    BY <1>3 DEF LockEnter, Step, TypeOK, WorkInv, WorkOf, Putting, Finding, Sending
  <2>2. WorkInv'
    BY <1>3 DEF LockEnter, Step, TypeOK, WorkInv, WorkOf, Putting, Finding, Sending
  <2>3. SameFileInv'
    BY <1>3 DEF LockEnter, Step, TypeOK, SameFileInv, WorkInv, WorkOf, Putting, Finding,
         Sending
  <2>4. LockInv'
    BY <1>3
       DEF LockEnter, Step, TypeOK, LockInv, WorkInv, WorkOf, Putting, Finding, Sending
  <2>. QED  BY <2>1, <2>2, <2>3, <2>4
<1>4. CASE AddEntry(t)
  <2>1. TypeOK'
    BY <1>4
       DEF AddEntry, NewTail, Step, TypeOK, WorkInv, WorkOf, Putting, Finding, Sending
  <2>2. WorkInv'
    BY <1>4
       DEF AddEntry, NewTail, Step, TypeOK, WorkInv, WorkOf, Putting, Finding, Sending
  <2>3. SameFileInv'
    BY <1>4 DEF AddEntry, NewTail, Step, TypeOK, SameFileInv, WorkInv, WorkOf, Putting,
         Finding, Sending
  <2>4. LockInv'
    BY <1>4 DEF AddEntry, NewTail, Step, TypeOK, LockInv, WorkInv, WorkOf, Putting,
         Finding, Sending
  <2>. QED  BY <2>1, <2>2, <2>3, <2>4
<1>5. CASE CreateChunk(t)
  <2>1. TypeOK'
    BY <1>5 DEF CreateChunk, CanWrite, Step, TypeOK, WorkInv, WorkOf, Putting, Finding,
         Sending
  <2>2. WorkInv'
    BY <1>5 DEF CreateChunk, CanWrite, Step, TypeOK, WorkInv, WorkOf, Putting, Finding,
         Sending
  <2>3. SameFileInv'
    BY <1>5 DEF CreateChunk, CanWrite, Step, TypeOK, SameFileInv, WorkInv, WorkOf,
         Putting, Finding, Sending
  <2>4. LockInv'
    BY <1>5 DEF CreateChunk, CanWrite, Step, TypeOK, LockInv, WorkInv, WorkOf, Putting,
         Finding, Sending
  <2>. QED  BY <2>1, <2>2, <2>3, <2>4
<1>6. CASE ReceiveChunk(t)
  <2>1. TypeOK'
    BY <1>6 DEF ReceiveChunk, WrUnlock, Step, TypeOK, WorkInv, WorkOf, Putting, Finding,
         Sending
  <2>2. WorkInv'
    BY <1>6 DEF ReceiveChunk, WrUnlock, Step, TypeOK, WorkInv, WorkOf, Putting, Finding,
         Sending
  <2>3. SameFileInv'
    BY <1>6 DEF ReceiveChunk, WrUnlock, Step, TypeOK, SameFileInv, WorkInv, WorkOf,
         Putting, Finding, Sending
  <2>4. LockInv'
    BY <1>6 DEF ReceiveChunk, WrUnlock, Step, TypeOK, LockInv, WorkInv, WorkOf, Putting,
         Finding, Sending
  <2>. QED  BY <2>1, <2>2, <2>3, <2>4
<1>7. CASE NextChunk(t)
  <2>1. CASE Ends(t, "next")
    <3>1. /\ pc[t] = "next" /\ pc'[t] = "idle" /\ pc' \in [Threads -> Places]
          /\ node' \in [Threads -> Nodes \cup {None}]
          /\ name' \in [Threads -> Names \cup {None}]
          /\ \A s \in Threads : s # t => pc'[s] = pc[s] /\ node'[s] = node[s]
                                         /\ name'[s] = name[s]
      BY <2>1, Ended
    <3>2. UNCHANGED <<drawer, sibling, lockVars, content, filelist, puts, gets>>
      BY <1>7 DEF NextChunk
    <3>3. TypeOK'
      BY <3>1, <3>2 DEF TypeOK, Places
    <3>4. WorkInv'
      BY <3>1, <3>2, OthersWork DEF WorkOf, Putting, Finding, Sending
    <3>5. LockInv'
      BY <3>1, <3>2, LocksKept DEF TypeOK
    <3>. QED  BY <3>2, <3>3, <3>4, <3>5 DEF SameFileInv
  <2>2. CASE /\ Step(t, "next", "list")
             /\ node[t][3] = 1
             /\ node' = [node EXCEPT ![t][3] = 2]
             /\ UNCHANGED name
    <3>1. "list" \in Places
      BY DEF Places
    <3>2. /\ pc[t] = "next" /\ pc'[t] = "list" /\ pc' \in [Threads -> Places]
          /\ \A s \in Threads : s # t => pc'[s] = pc[s]
      BY <2>2, <3>1, Moved
    <3>3. name[t] \in Names /\ node[t] \in Nodes /\ node[t][1] = name[t]
      BY <3>2 DEF WorkInv, WorkOf, Putting
    <3>4. node' = [node EXCEPT ![t] = [node[t] EXCEPT ![3] = 2]]
      BY <2>2 DEF TypeOK
    <3>5. [node[t] EXCEPT ![3] = 2] = <<node[t][1], node[t][2], 2>>
      BY <3>3 DEF Nodes
    <3>6. /\ [node[t] EXCEPT ![3] = 2] \in Nodes
          /\ [node[t] EXCEPT ![3] = 2][1] = name[t]
      BY <3>3, <3>5 DEF Nodes, Chunks
    <3>7. /\ node'[t] \in Nodes /\ node'[t][1] = name'[t]
          /\ node' \in [Threads -> Nodes \cup {None}]
          /\ \A s \in Threads : s # t => node'[s] = node[s] /\ name'[s] = name[s]
      BY <2>2, <3>4, <3>6 DEF TypeOK
    <3>8. UNCHANGED <<drawer, sibling, lockVars, content, filelist, puts, gets, name>>
      BY <1>7, <2>2 DEF NextChunk
    <3>9. TypeOK'
      BY <3>2, <3>7, <3>8 DEF TypeOK, Places
    <3>10. WorkInv'
      BY <3>2, <3>3, <3>7, <3>8, OthersWork DEF WorkOf, Putting, Finding, Sending
    <3>11. LockInv'
      BY <3>2, <3>7, <3>8, LocksKept DEF TypeOK
    <3>. QED  BY <3>8, <3>9, <3>10, <3>11 DEF SameFileInv
  <2>. QED  BY <1>7, <2>1, <2>2 DEF NextChunk
<1>8. CASE \E n \in Names : StartPut(t, n)
  <2> PICK n \in Names : StartPut(t, n)
    BY <1>8
  <2>1. TypeOK'
    BY DEF StartPut, Nodes, Chunks, Step, TypeOK, WorkInv, WorkOf, Putting, Finding,
         Sending
  <2>2. WorkInv'
    BY DEF StartPut, Nodes, Chunks, Step, TypeOK, WorkInv, WorkOf, Putting, Finding,
         Sending
  <2>3. SameFileInv'
    BY DEF StartPut, Nodes, Chunks, Step, TypeOK, SameFileInv, WorkInv, WorkOf, Putting,
         Finding, Sending
  <2>4. LockInv'
    BY DEF StartPut, Nodes, Chunks, Step, TypeOK, LockInv, WorkInv, WorkOf, Putting,
         Finding, Sending
  <2>. QED  BY <2>1, <2>2, <2>3, <2>4
<1>. QED
  BY <1>1, <1>2, <1>3, <1>4, <1>5, <1>6, <1>7, <1>8

(* A step of a get: a worker's own place, node, name and read locks        *)
(* change, and the sibling of one node.                                    *)
LEMMA GetStep ==
  ASSUME Layer1, NEW t \in Threads,
         UNCHANGED <<drawer, writer, content, filelist, puts>>,
         gets' \in 0..MaxGets,
         sibling' \in [Nodes -> Nodes \cup {None}], SameFileInv',
         \A n \in Nodes : sibling[n] # None => sibling'[n] # None,
         pc' \in [Threads -> Places],
         node' \in [Threads -> Nodes \cup {None}],
         name' \in [Threads -> Names \cup {None}],
         \A s \in Threads : s # t => pc'[s] = pc[s] /\ node'[s] = node[s] /\ name'[s] = name[s],
         pc[t] # "recv", pc'[t] # "recv", WorkOf(t)',
         readers' \in [Drawers -> [Threads -> Nat]],
         \A d \in Drawers : \A s \in Threads :
           readers'[d][s] # readers[d][s] => s = t /\ writer[d] = None,
         pc'[t] \in {"body", "bodysib"} => readers'[Drawer(t)'][t] > 0
  PROVE  Layer1'
<1>1. TypeOK'
  BY DEF TypeOK, Places, Layer1
<1>2. WorkInv'
  BY OthersWork DEF Layer1
<1>3. LockInv'
  BY LocksKept DEF Layer1
<1>. QED  BY <1>1, <1>2, <1>3 DEF Layer1

(* The steps of a get keep layer 1.                                        *)
LEMMA GetKeepsLayer1 ==
  ASSUME Layer1, NEW t \in Threads,
         \/ FindFile(t) \/ MissFile(t) \/ MissVersion(t) \/ MissAny(t)
         \/ CheckSibling(t) \/ SendHeader(t) \/ SendBody(t)
         \/ \E n \in Names : StartGet(t, n)
  PROVE  Layer1'
<1> USE CabinetAssumption DEF Layer1, lockVars
<1>0. /\ TypeOK
      /\ gets \in 0..MaxGets /\ sibling \in [Nodes -> Nodes \cup {None}] /\ SameFileInv
      /\ node \in [Threads -> Nodes \cup {None}] /\ name \in [Threads -> Names \cup {None}]
      /\ readers \in [Drawers -> [Threads -> Nat]]
  BY DEF TypeOK
<1>1. CASE FindFile(t)
  <2> DEFINE d == Drawer(t)
  <2>1. /\ Step(t, "find", "check")
        /\ Positions(d, name[t], Chunks) # {}
        /\ node' = [node EXCEPT ![t] = drawer[d][Max(Positions(d, name[t], Chunks))]]
        /\ sibling' = WithSibling(d, node'[t])
        /\ UNCHANGED <<drawer, lockVars, content, filelist, puts, gets, name>>
    BY <1>1 DEF FindFile
  <2>2. "check" \in Places
    BY DEF Places
  <2>3. /\ pc[t] = "find" /\ pc'[t] = "check" /\ pc' \in [Threads -> Places]
        /\ \A s \in Threads : s # t => pc'[s] = pc[s]
    BY <2>1, <2>2, Moved
  <2>4. name[t] \in Names /\ d \in Drawers
    BY <2>3 DEF WorkInv, WorkOf, Finding, Drawer
  <2> HIDE DEF d
  <2>5. /\ drawer[d][LastOf(d, name[t], Chunks)] \in Nodes
        /\ drawer[d][LastOf(d, name[t], Chunks)][1] = name[t]
    BY <2>1, <2>4, PositionsInDrawer
  <2>6. /\ node'[t] \in Nodes /\ node'[t][1] = name[t]
        /\ node' \in [Threads -> Nodes \cup {None}]
        /\ \A s \in Threads : s # t => node'[s] = node[s] /\ name'[s] = name[s]
    BY <2>1, <2>5 DEF TypeOK, LastOf
  <2>7. /\ sibling' \in [Nodes -> Nodes \cup {None}] /\ SameFileInv'
        /\ \A x \in Nodes : sibling[x] # None => sibling'[x] # None
    BY <2>1, <2>4, <2>6, SiblingFound
  <2>8. WorkOf(t)'
    BY <2>1, <2>3, <2>4, <2>6 DEF WorkOf, Putting, Finding, Sending
  <2>9. UNCHANGED <<drawer, writer, content, filelist, puts, gets, readers, name>>
    BY <2>1
  <2>10. pc'[t] \notin {"recv", "body", "bodysib"} /\ pc[t] # "recv"
    BY <2>3
  <2>. QED  BY <1>0, <2>3, <2>6, <2>7, <2>8, <2>9, <2>10, GetStep
<1>2. CASE MissFile(t) \/ MissAny(t)
  <2>1. PICK l \in {"find", "findany"} : Ends(t, l)
    BY <1>2 DEF MissFile, MissAny
  <2>2. /\ pc[t] = l /\ pc'[t] = "idle" /\ pc' \in [Threads -> Places]
        /\ node' \in [Threads -> Nodes \cup {None}]
        /\ name' \in [Threads -> Names \cup {None}]
        /\ \A s \in Threads : s # t => pc'[s] = pc[s] /\ node'[s] = node[s]
                                       /\ name'[s] = name[s]
    BY <2>1, Ended
  <2>3. name[t] \in Names /\ Drawer(t) \in Drawers
    BY <2>2 DEF WorkInv, WorkOf, Finding, Drawer
  <2>4. PICK d \in Drawers : Miss(t, d)
    BY <1>2, <2>3 DEF MissFile, MissAny
  <2>5. /\ readers' \in [Drawers -> [Threads -> Nat]]
        /\ \A e \in Drawers : \A s \in Threads :
             readers'[e][s] # readers[e][s] => s = t /\ writer[e] = None
    BY <2>4, Missed
  <2>6. UNCHANGED <<drawer, sibling, writer, content, filelist, puts, gets>>
    BY <1>2 DEF MissFile, MissAny
  <2>7. WorkOf(t)'
    BY <2>2 DEF WorkOf, Putting, Finding, Sending
  <2>8. pc'[t] \notin {"recv", "body", "bodysib"} /\ pc[t] # "recv"
    BY <2>2
  <2>9. SameFileInv' /\ \A x \in Nodes : sibling[x] # None => sibling'[x] # None
    BY <2>6 DEF SameFileInv
  <2>. QED  BY <1>0, <2>2, <2>5, <2>6, <2>7, <2>8, <2>9, GetStep
<1>3. CASE MissVersion(t)
  <2>1. /\ Step(t, "findnone", "findany") /\ Miss(t, Drawer(t))
        /\ UNCHANGED <<drawer, sibling, writer, content, filelist, puts, gets, node, name>>
    BY <1>3 DEF MissVersion
  <2>2. "findany" \in Places
    BY DEF Places
  <2>3. /\ pc[t] = "findnone" /\ pc'[t] = "findany" /\ pc' \in [Threads -> Places]
        /\ \A s \in Threads : s # t => pc'[s] = pc[s]
    BY <2>1, <2>2, Moved
  <2>4. name[t] \in Names /\ Drawer(t) \in Drawers
    BY <2>3 DEF WorkInv, WorkOf, Finding, Drawer
  <2>5. /\ readers' \in [Drawers -> [Threads -> Nat]]
        /\ \A e \in Drawers : \A s \in Threads :
             readers'[e][s] # readers[e][s] => s = t /\ writer[e] = None
    BY <2>1, <2>4, Missed
  <2>7. WorkOf(t)'
    BY <2>1, <2>3, <2>4 DEF WorkOf, Putting, Finding, Sending
  <2>8. pc'[t] \notin {"recv", "body", "bodysib"} /\ pc[t] # "recv"
    BY <2>3
  <2>9. SameFileInv' /\ \A x \in Nodes : sibling[x] # None => sibling'[x] # None
    BY <2>1 DEF SameFileInv
  <2>10. \A s \in Threads : s # t => pc'[s] = pc[s] /\ node'[s] = node[s]
                                     /\ name'[s] = name[s]
    BY <2>1, <2>3
  <2>. QED  BY <1>0, <2>1, <2>3, <2>5, <2>7, <2>8, <2>9, <2>10, GetStep
<1>4. CASE CheckSibling(t)
  <2>1. UNCHANGED <<drawer, sibling, writer, readers, content, filelist, puts, gets>>
    BY <1>4 DEF CheckSibling
  <2>2. /\ pc[t] = "check" /\ pc'[t] \in {"idle", "send"} /\ pc' \in [Threads -> Places]
        /\ node' \in [Threads -> Nodes \cup {None}]
        /\ name' \in [Threads -> Names \cup {None}]
        /\ pc'[t] = "send" => sibling[node[t]] # None /\ UNCHANGED <<node, name>>
        /\ \A s \in Threads : s # t => pc'[s] = pc[s] /\ node'[s] = node[s]
                                       /\ name'[s] = name[s]
    <3>1. CASE Ends(t, "check")
      BY <3>1, Ended
    <3>2. CASE Step(t, "check", "send") /\ sibling[node[t]] # None /\ UNCHANGED <<node, name>>
      <4>1. "send" \in Places
        BY DEF Places
      <4>. QED  BY <1>0, <3>2, <4>1, Moved
    <3>. QED  BY <1>4, <3>1, <3>2 DEF CheckSibling
  <2>3. WorkOf(t)'
    BY <2>1, <2>2 DEF WorkInv, WorkOf, Putting, Finding, Sending
  <2>4. pc'[t] \notin {"recv", "body", "bodysib"} /\ pc[t] # "recv"
    BY <2>2
  <2>5. SameFileInv' /\ \A x \in Nodes : sibling[x] # None => sibling'[x] # None
    BY <2>1 DEF SameFileInv
  <2>. QED  BY <1>0, <2>1, <2>2, <2>3, <2>4, <2>5, GetStep
<1>5. CASE SendHeader(t)
  <2>1. /\ pc[t] \in {"send", "sendsib"} /\ CanRead(Drawer(t))
        /\ UNCHANGED <<drawer, sibling, writer, content, filelist, puts, gets>>
    BY <1>5 DEF SendHeader
  <2>2. /\ name[t] \in Names /\ Drawer(t) \in Drawers
        /\ node[t] \in Nodes /\ node[t][1] = name[t]
    BY <2>1 DEF WorkInv, WorkOf, Sending, Drawer
  <2>3. SameFileInv' /\ \A x \in Nodes : sibling[x] # None => sibling'[x] # None
    BY <2>1 DEF SameFileInv
  <2>4. CASE /\ Step(t, "send", "body") \/ Step(t, "sendsib", "bodysib")
             /\ RdLock(Drawer(t), t)
             /\ UNCHANGED <<node, name>>
    <3>1. {"body", "bodysib"} \subseteq Places
      BY DEF Places
    <3>2. PICK l \in {"send", "sendsib"}, m \in {"body", "bodysib"} :
            Step(t, l, m) /\ (m = "body" => l = "send")
      BY <2>4
    <3>3. /\ pc[t] = l /\ pc'[t] = m /\ pc' \in [Threads -> Places]
          /\ \A s \in Threads : s # t => pc'[s] = pc[s]
      BY <3>1, <3>2, Moved
    <3>4. /\ readers' \in [Drawers -> [Threads -> Nat]]
          /\ readers'[Drawer(t)][t] > 0
          /\ \A e \in Drawers : \A s \in Threads :
               readers'[e][s] # readers[e][s] => s = t /\ writer[e] = None
      BY <2>1, <2>2, <2>4, OneLock
    <3>5. Drawer(t)' = Drawer(t)
      BY <2>4 DEF Drawer
    <3>6. WorkOf(t)'
      BY <2>1, <2>2, <2>4, <3>2, <3>3 DEF WorkInv, WorkOf, Putting, Finding, Sending
    <3>7. pc'[t] # "recv" /\ pc[t] # "recv"
      BY <3>3
    <3>8. \A s \in Threads : s # t => pc'[s] = pc[s] /\ node'[s] = node[s]
                                      /\ name'[s] = name[s]
      BY <2>4, <3>3
    <3>. QED  BY <1>0, <2>1, <2>3, <2>4, <3>3, <3>4, <3>5, <3>6, <3>7, <3>8, GetStep
  <2>5. CASE AfterSend(t, "send", "sendsib") /\ UNCHANGED readers
    <3>1. /\ pc'[t] \in {"idle", "sendsib"} /\ pc' \in [Threads -> Places]
          /\ node' \in [Threads -> Nodes \cup {None}]
          /\ name' \in [Threads -> Names \cup {None}]
          /\ pc'[t] = "sendsib" => /\ name'[t] \in Names
                                   /\ node'[t] \in Nodes /\ node'[t][1] = name'[t]
          /\ \A s \in Threads : s # t => pc'[s] = pc[s] /\ node'[s] = node[s]
                                         /\ name'[s] = name[s]
      BY <2>5, Sent
    <3>2. WorkOf(t)'
      BY <3>1 DEF WorkOf, Putting, Finding, Sending
    <3>3. pc'[t] \notin {"recv", "body", "bodysib"} /\ pc[t] # "recv"
      BY <2>1, <3>1
    <3>. QED  BY <1>0, <2>1, <2>3, <2>5, <3>1, <3>2, <3>3, GetStep
  <2>. QED  BY <1>5, <2>4, <2>5 DEF SendHeader
<1>6. CASE SendBody(t)
  <2>1. /\ AfterSend(t, "body", "bodysib") /\ RdUnlock(t)
        /\ UNCHANGED <<drawer, sibling, writer, content, filelist, puts, gets>>
    BY <1>6 DEF SendBody
  <2>2. /\ pc[t] \in {"body", "bodysib"}
        /\ pc'[t] \in {"idle", "sendsib"} /\ pc' \in [Threads -> Places]
        /\ node' \in [Threads -> Nodes \cup {None}]
        /\ name' \in [Threads -> Names \cup {None}]
        /\ pc'[t] = "sendsib" => /\ name'[t] \in Names
                                 /\ node'[t] \in Nodes /\ node'[t][1] = name'[t]
        /\ \A s \in Threads : s # t => pc'[s] = pc[s] /\ node'[s] = node[s]
                                       /\ name'[s] = name[s]
    BY <2>1, Sent
  <2>3. name[t] \in Names /\ Drawer(t) \in Drawers
    BY <2>2 DEF WorkInv, WorkOf, Sending, Drawer
  <2>4. readers[Drawer(t)][t] > 0
    BY <2>2 DEF LockInv
  <2>5. /\ readers' \in [Drawers -> [Threads -> Nat]]
        /\ \A e \in Drawers : \A s \in Threads :
             readers'[e][s] # readers[e][s] => s = t /\ e = Drawer(t)
    BY <1>0, <2>1, <2>3, <2>4, OneUnlock
  <2>6. writer[Drawer(t)] = None
    BY <2>3, <2>4 DEF LockInv
  <2>7. WorkOf(t)'
    BY <2>2 DEF WorkOf, Putting, Finding, Sending
  <2>8. pc'[t] \notin {"recv", "body", "bodysib"} /\ pc[t] # "recv"
    BY <2>2
  <2>9. SameFileInv' /\ \A x \in Nodes : sibling[x] # None => sibling'[x] # None
    BY <2>1 DEF SameFileInv
  <2>. QED  BY <1>0, <2>1, <2>2, <2>5, <2>6, <2>7, <2>8, <2>9, GetStep
<1>7. CASE \E n \in Names : StartGet(t, n)
  <2> PICK n \in Names : StartGet(t, n)
    BY <1>7
  <2>1. PICK m \in {"find", "findnone"} : Step(t, "idle", m)
    BY DEF StartGet
  <2>2. m \in Places
    BY <2>1 DEF Places
  <2>3. /\ pc[t] = "idle" /\ pc'[t] = m /\ pc' \in [Threads -> Places]
        /\ \A s \in Threads : s # t => pc'[s] = pc[s]
    BY <2>1, <2>2, Moved
  <2>4. /\ gets' \in 0..MaxGets
        /\ name' \in [Threads -> Names \cup {None}] /\ name'[t] = n
        /\ node' \in [Threads -> Nodes \cup {None}]
        /\ \A s \in Threads : s # t => node'[s] = node[s] /\ name'[s] = name[s]
        /\ UNCHANGED <<drawer, sibling, readers, writer, content, filelist, puts>>
    BY <1>0 DEF StartGet
  <2>5. WorkOf(t)'
    BY <2>3, <2>4 DEF WorkOf, Putting, Finding, Sending
  <2>6. pc'[t] \notin {"recv", "body", "bodysib"} /\ pc[t] # "recv"
    BY <2>3
  <2>7. SameFileInv' /\ \A x \in Nodes : sibling[x] # None => sibling'[x] # None
    BY <2>4 DEF SameFileInv
  <2>. QED  BY <1>0, <2>3, <2>4, <2>5, <2>6, <2>7, GetStep
<1>. QED
  BY <1>1, <1>2, <1>3, <1>4, <1>5, <1>6, <1>7

(* Layer 1 is inductive.                                                   *)
LEMMA Layer1Step == Layer1 /\ [Next]_vars => Layer1'
<1> SUFFICES ASSUME Layer1, [Next]_vars PROVE Layer1'
  OBVIOUS
<1>1. CASE UNCHANGED vars
  <2>1. UNCHANGED <<drawer, sibling, writer, readers, content, filelist, puts, gets,
                    pc, node, name>>
    BY <1>1 DEF vars, lockVars
  <2>2. TypeOK' /\ SameFileInv'
    BY <2>1 DEF Layer1, TypeOK, SameFileInv
  <2>3. WorkInv'
    BY <2>1 DEF Layer1, WorkInv, WorkOf, Putting, Finding, Sending
  <2>4. LockInv'
    BY <2>1 DEF Layer1, LockInv, Drawer
  <2>. QED  BY <2>2, <2>3, <2>4 DEF Layer1
<1>2. CASE Next
  <2> PICK t \in Threads : Work(t) \/ \E n \in Names : StartPut(t, n) \/ StartGet(t, n)
    BY <1>2 DEF Next
  <2>. QED  BY PutKeepsLayer1, GetKeepsLayer1 DEF Work
<1>. QED  BY <1>1, <1>2

(* Every variable has its type.                                            *)
THEOREM TypeCorrect == Spec => []TypeOK
<1>1. Spec => []Layer1
  BY Layer1Init, Layer1Step, PTL DEF Spec
<1>. QED  BY <1>1, PTL DEF Layer1

(* A worker that writes a chunk holds the lock of its drawer alone.        *)
LEMMA NotTorn == Layer1 => NoTornChunk
<1> SUFFICES ASSUME Layer1,
                    NEW t \in Threads, pc[t] \in {"body", "bodysib"},
                    content[node[t]] = "begun"
             PROVE  FALSE
  BY DEF NoTornChunk
<1>1. node[t] \in Nodes /\ node[t][1] = name[t] /\ name[t] \in Names
  BY DEF Layer1, WorkInv, WorkOf, Sending
<1>2. PICK s \in Threads : pc[s] = "recv" /\ node[s] = node[t]
  BY <1>1 DEF Layer1, LockInv
<1>3. name[s] = name[t]
  BY <1>1, <1>2 DEF Layer1, WorkInv, WorkOf, Putting
<1>4. Drawer(s) = Drawer(t) /\ Drawer(t) \in Drawers
  BY <1>1, <1>3, CabinetAssumption DEF Drawer
<1>5. writer[Drawer(t)] = s /\ readers[Drawer(t)][t] > 0
  BY <1>2, <1>4 DEF Layer1, LockInv
<1>6. s # None
  BY CabinetAssumption
<1>. QED  BY <1>4, <1>5, <1>6 DEF Layer1, LockInv

(* A chunk is not written while it is read for a client.                   *)
THEOREM NoChunkTorn == Spec => []NoTornChunk
<1>1. Spec => []Layer1
  BY Layer1Init, Layer1Step, PTL DEF Spec
<1>. QED  BY <1>1, NotTorn, PTL
-----------------------------------------------------------------------------
(* The steps that make or add no node keep what is said of nodes.          *)
LEMMA PutKept ==
  ASSUME PutInv, NodesOnce, UNCHANGED <<drawer, puts>>,
         \A s \in Threads :
           Putting(s)' => Putting(s) /\ node'[s] = node[s] /\ (Added(s) => Added(s)')
  PROVE  PutInv' /\ NodesOnce'
<1>1. NodesOnce'
  BY DEF NodesOnce
<1>2. PutInv'
  BY DEF PutInv
<1>. QED  BY <1>1, <1>2

LEMMA NoNodeMade ==
  ASSUME Layer1, NEW t \in Threads,
         \/ SearchFileList(t) \/ RecordName(t) \/ LockEnter(t)
         \/ CreateChunk(t) \/ ReceiveChunk(t)
         \/ FindFile(t) \/ MissFile(t) \/ MissVersion(t) \/ MissAny(t)
         \/ CheckSibling(t) \/ SendHeader(t) \/ SendBody(t)
         \/ \E n \in Names : StartGet(t, n)
  PROVE  /\ UNCHANGED <<drawer, puts>>
         /\ \A s \in Threads :
              Putting(s)' => Putting(s) /\ node'[s] = node[s] /\ (Added(s) => Added(s)')
<1> USE DEF Putting, Added, Step
<1>0. pc \in [Threads -> Places] /\ node \in [Threads -> Nodes \cup {None}]
  BY DEF Layer1, TypeOK, Places
<1>1. CASE SearchFileList(t) \/ RecordName(t) \/ LockEnter(t)
  BY <1>0, <1>1 DEF SearchFileList, RecordName, LockEnter
<1>2. CASE CreateChunk(t) \/ ReceiveChunk(t)
  BY <1>0, <1>2 DEF CreateChunk, ReceiveChunk
<1>3. CASE FindFile(t) \/ MissFile(t) \/ MissVersion(t) \/ MissAny(t)
  BY <1>0, <1>3 DEF FindFile, MissFile, MissVersion, MissAny, Ends
<1>4. CASE CheckSibling(t)
  BY <1>0, <1>4 DEF CheckSibling, Ends
<1>5. CASE SendHeader(t) \/ SendBody(t)
  BY <1>0, <1>5 DEF SendHeader, SendBody, AfterSend, Ends
<1>6. CASE \E n \in Names : StartGet(t, n)
  BY <1>0, <1>6 DEF StartGet
<1>. QED  BY <1>1, <1>2, <1>3, <1>4, <1>5, <1>6

(* A new put has a number that no worker and no node has.                  *)
LEMMA NewPut ==
  ASSUME Layer1, PutInv, NodesOnce, NEW t \in Threads, NEW n \in Names, StartPut(t, n)
  PROVE  PutInv' /\ NodesOnce'
<1>1. puts \in Nat /\ puts' = puts + 1 /\ UNCHANGED drawer
  BY CabinetAssumption DEF StartPut, Layer1, TypeOK
<1>2. /\ pc'[t] = "list" /\ node'[t] = <<n, puts + 1, 1>>
      /\ \A s \in Threads : s # t => pc'[s] = pc[s] /\ node'[s] = node[s]
  BY <1>1 DEF StartPut, Step, Layer1, TypeOK
<1>3. \A s \in Threads : s # t => (Putting(s)' <=> Putting(s)) /\ (Added(s)' <=> Added(s))
  BY <1>2 DEF Putting, Added
<1>4. \A s \in Threads : Putting(s) => node[s][2] \in Nat
  BY DEF Layer1, WorkInv, WorkOf, Nodes
<1>5. \A d \in Drawers : \A i \in DOMAIN drawer[d] : drawer[d][i][2] \in Nat
  <2> SUFFICES ASSUME NEW d \in Drawers, NEW i \in DOMAIN drawer[d]
               PROVE  drawer[d][i][2] \in Nat
    OBVIOUS
  <2>1. drawer[d][i] \in Nodes
    BY DEF Layer1, TypeOK
  <2>. QED  BY <2>1 DEF Nodes
<1>6. \A s \in Threads : Putting(s)' => node'[s][2] =< puts'
  BY <1>1, <1>2, <1>3, <1>4 DEF PutInv
<1>7. \A r, s \in Threads : Putting(r)' /\ Putting(s)' /\ r # s => node'[r][2] # node'[s][2]
  <2>1. \A s \in Threads : s # t /\ Putting(s) => node[s][2] # puts + 1
    BY <1>1, <1>4 DEF PutInv
  <2>. QED  BY <1>2, <1>3, <2>1 DEF PutInv
<1>8. \A d \in Drawers : \A i \in DOMAIN drawer[d] :
        drawer[d][i][2] =< puts' /\ drawer[d][i][2] # puts'
  BY <1>1, <1>5 DEF PutInv
<1>9. PutInv'
  BY <1>1, <1>2, <1>3, <1>6, <1>7, <1>8 DEF PutInv
<1>. QED  BY <1>1, <1>9 DEF NodesOnce

(* The second chunk of a put comes after the first.                        *)
LEMMA SecondChunk ==
  ASSUME Layer1, PutInv, NodesOnce, NEW t \in Threads, NextChunk(t)
  PROVE  PutInv' /\ NodesOnce'
<1>1. UNCHANGED <<drawer, puts>>
  BY DEF NextChunk
<1>2. CASE Ends(t, "next")
  <2>1. \A s \in Threads :
          Putting(s)' => Putting(s) /\ node'[s] = node[s] /\ (Added(s) => Added(s)')
    BY <1>2, Ended DEF Putting, Added, Layer1
  <2>. QED  BY <1>1, <2>1, PutKept
<1>3. CASE Step(t, "next", "list") /\ node[t][3] = 1 /\ node' = [node EXCEPT ![t][3] = 2]
  <2>1. /\ pc[t] = "next" /\ pc'[t] = "list"
        /\ \A s \in Threads : s # t => pc'[s] = pc[s] /\ node'[s] = node[s]
    BY <1>3 DEF Step, Layer1, TypeOK
  <2>2. node[t] \in Nodes
    BY <2>1 DEF Layer1, WorkInv, WorkOf, Putting
  <2>3. node' = [node EXCEPT ![t] = [node[t] EXCEPT ![3] = 2]]
    BY <1>3 DEF Layer1, TypeOK
  <2>4. node'[t] = [node[t] EXCEPT ![3] = 2]
    BY <2>3 DEF Layer1, TypeOK
  <2>5. node'[t] = <<node[t][1], node[t][2], 2>>
    BY <2>2, <2>4 DEF Nodes
  <2>6. \A s \in Threads : /\ Putting(s)' <=> Putting(s)
                           /\ node'[s][2] = node[s][2]
                           /\ s # t => (Added(s)' <=> Added(s))
    BY <2>1, <2>5 DEF Putting, Added
  <2>7. \A d \in Drawers : \A i \in DOMAIN drawer[d] :
          drawer[d][i][2] = node[t][2] => drawer[d][i][3] < 2
    <3> SUFFICES ASSUME NEW d \in Drawers, NEW i \in DOMAIN drawer[d],
                        drawer[d][i][2] = node[t][2]
                 PROVE  drawer[d][i][3] < 2
      OBVIOUS
    <3>1. drawer[d][i] \in Nodes
      BY DEF Layer1, TypeOK
    <3>2. drawer[d][i][3] < 1 \/ drawer[d][i] = node[t]
      BY <1>3, <2>1 DEF PutInv, Putting
    <3>. QED  BY <1>3, <3>1, <3>2 DEF Nodes, Chunks
  <2>8. PutInv'
    BY <1>1, <2>1, <2>5, <2>6, <2>7 DEF PutInv
  <2>. QED  BY <1>1, <2>8 DEF NodesOnce
<1>. QED  BY <1>2, <1>3 DEF NextChunk

(* What a worker adds becomes the last of its drawer.                      *)
LEMMA AddsLast ==
  ASSUME Layer1, NEW t \in Threads, AddEntry(t)
  PROVE  /\ \A d \in Drawers : \A i \in DOMAIN drawer[d] :
              i \in DOMAIN drawer'[d] /\ drawer'[d][i] = drawer[d][i]
         /\ \A d \in Drawers : \A i \in DOMAIN drawer'[d] \ DOMAIN drawer[d] :
              /\ d = Drawer(t) /\ drawer'[d][i] = node[t]
              /\ \A j \in DOMAIN drawer'[d] \ DOMAIN drawer[d] : i = j
         /\ \A d \in Drawers : drawer[d] \in Seq(Nodes)
         /\ node[t] \in Nodes /\ node[t][1] = name[t] /\ name[t] \in Names
         /\ pc[t] = "addwait" /\ pc'[t] = "write"
         /\ \A s \in Threads : s # t => pc'[s] = pc[s]
         /\ UNCHANGED <<sibling, filelist, puts, node, name>>
<1>1. /\ pc[t] = "addwait" /\ pc'[t] = "write"
      /\ \A s \in Threads : s # t => pc'[s] = pc[s]
      /\ UNCHANGED <<sibling, filelist, puts, node, name>>
  BY DEF AddEntry, Step, Layer1, TypeOK
<1>2. node[t] \in Nodes /\ node[t][1] = name[t] /\ name[t] \in Names
  BY <1>1 DEF Layer1, WorkInv, WorkOf, Putting
<1>3. /\ \A d \in Drawers : drawer[d] \in Seq(Nodes)
      /\ Drawer(t) \in Drawers
      /\ drawer'[Drawer(t)] = Append(drawer[Drawer(t)], node[t])
      /\ \A d \in Drawers : d # Drawer(t) => drawer'[d] = drawer[d]
  BY <1>2, CabinetAssumption DEF Layer1, TypeOK, AddEntry, NewTail, Drawer
<1>4. \A d \in Drawers : \A i \in DOMAIN drawer[d] :
        i \in DOMAIN drawer'[d] /\ drawer'[d][i] = drawer[d][i]
  BY <1>2, <1>3
<1>5. \A d \in Drawers : \A i \in DOMAIN drawer'[d] \ DOMAIN drawer[d] :
        d = Drawer(t) /\ drawer'[d][i] = node[t] /\ i = Len(drawer[d]) + 1
  BY <1>2, <1>3
<1>. QED  BY <1>1, <1>2, <1>3, <1>4, <1>5

LEMMA NodeAdded ==
  ASSUME Layer1, PutInv, NodesOnce, NEW t \in Threads, AddEntry(t)
  PROVE  PutInv' /\ NodesOnce'
<1> USE AddsLast
<1>1. \A s \in Threads : /\ Putting(s)' <=> Putting(s)
                         /\ s # t => (Added(s)' <=> Added(s))
                         /\ node'[s] = node[s]
  BY DEF Putting, Added
<1>2. Putting(t) /\ ~Added(t) /\ Added(t)'
  BY DEF Putting, Added
<1>3. \A d \in Drawers : \A i \in DOMAIN drawer[d] : drawer[d][i] # node[t]
  <2> SUFFICES ASSUME NEW d \in Drawers, NEW i \in DOMAIN drawer[d], drawer[d][i] = node[t]
               PROVE  FALSE
    OBVIOUS
  <2>1. node[t][3] < node[t][3]
    BY <1>2 DEF PutInv
  <2>2. node[t][3] \in Int
    BY DEF Nodes, Chunks
  <2>. QED  BY <2>1, <2>2
<1>4. NodesOnce'
  <2> SUFFICES ASSUME NEW d \in Drawers, NEW i \in DOMAIN drawer'[d],
                      NEW j \in DOMAIN drawer'[d], drawer'[d][i] = drawer'[d][j]
               PROVE  i = j
    BY DEF NodesOnce
  <2>1. CASE i \in DOMAIN drawer[d] /\ j \in DOMAIN drawer[d]
    BY <2>1 DEF NodesOnce
  <2>2. CASE i \notin DOMAIN drawer[d] /\ j \in DOMAIN drawer[d]
    BY <1>3, <2>2
  <2>3. CASE i \in DOMAIN drawer[d] /\ j \notin DOMAIN drawer[d]
    BY <1>3, <2>3
  <2>4. CASE i \notin DOMAIN drawer[d] /\ j \notin DOMAIN drawer[d]
    BY <2>4
  <2>. QED  BY <2>1, <2>2, <2>3, <2>4
<1>5. \A d \in Drawers : \A i \in DOMAIN drawer'[d] :
        /\ drawer'[d][i][2] =< puts'
        /\ DrawerOf[drawer'[d][i][1]] = d
        /\ \A s \in Threads : Putting(s)' /\ drawer'[d][i][2] = node'[s][2] =>
             \/ drawer'[d][i][3] < node'[s][3]
             \/ drawer'[d][i] = node'[s] /\ Added(s)'
  <2> SUFFICES ASSUME NEW d \in Drawers, NEW i \in DOMAIN drawer'[d]
               PROVE  /\ drawer'[d][i][2] =< puts'
                      /\ DrawerOf[drawer'[d][i][1]] = d
                      /\ \A s \in Threads : Putting(s)' /\ drawer'[d][i][2] = node'[s][2] =>
                           \/ drawer'[d][i][3] < node'[s][3]
                           \/ drawer'[d][i] = node'[s] /\ Added(s)'
    OBVIOUS
  <2>1. CASE i \in DOMAIN drawer[d]
    BY <1>1, <1>2, <2>1 DEF PutInv
  <2>2. CASE i \notin DOMAIN drawer[d]
    <3>1. d = Drawer(t) /\ drawer'[d][i] = node[t]
      BY <2>2
    <3>. QED  BY <1>1, <1>2, <3>1 DEF PutInv, Drawer
  <2>. QED  BY <2>1, <2>2
<1>6. PutInv'
  BY <1>1, <1>5 DEF PutInv
<1>. QED  BY <1>4, <1>6

(* Layer 2 is inductive given layer 1.                                     *)
LEMMA Layer2Step ==
  ASSUME Layer1, PutInv, NodesOnce, [Next]_vars
  PROVE  PutInv' /\ NodesOnce'
<1>1. CASE UNCHANGED vars
  BY <1>1, PutKept DEF vars, Putting, Added
<1>2. CASE Next
  <2> PICK t \in Threads : Work(t) \/ \E n \in Names : StartPut(t, n) \/ StartGet(t, n)
    BY <1>2 DEF Next
  <2>1. CASE AddEntry(t)
    BY <2>1, NodeAdded
  <2>2. CASE NextChunk(t)
    BY <2>2, SecondChunk
  <2>3. CASE \E n \in Names : StartPut(t, n)
    BY <2>3, NewPut
  <2>4. CASE ~AddEntry(t) /\ ~NextChunk(t) /\ ~\E n \in Names : StartPut(t, n)
    BY <2>4, NoNodeMade, PutKept DEF Work
  <2>. QED  BY <2>1, <2>2, <2>3, <2>4
<1>. QED  BY <1>1, <1>2
-----------------------------------------------------------------------------
(* The chunks a worker finds for a node are those that came before it.     *)
LEMMA FoundBefore ==
  ASSUME Layer1, NEW d \in Drawers, NEW n \in Names,
         Positions(d, n, Chunks) # {}
  PROVE  LET m == LastOf(d, n, Chunks) IN
         Positions(d, n, Chunks \ {drawer[d][m][3]}) = Others(d, m)
<1> DEFINE m == LastOf(d, n, Chunks)
<1>1. /\ m \in DOMAIN drawer[d] /\ drawer[d][m][1] = n
      /\ \A y \in Positions(d, n, Chunks) : y =< m
  BY PositionsInDrawer DEF Layer1
<1> HIDE DEF m
<1>2. \A j \in DOMAIN drawer[d] : drawer[d][j][3] \in Chunks /\ j \in Nat
  <2> SUFFICES ASSUME NEW j \in DOMAIN drawer[d]
               PROVE  drawer[d][j][3] \in Chunks /\ j \in Nat
    OBVIOUS
  <2>1. drawer[d] \in Seq(Nodes)
    BY DEF Layer1, TypeOK
  <2>2. drawer[d][j] \in Nodes /\ j \in Nat
    BY <2>1
  <2>. QED  BY <2>2 DEF Nodes
<1>3. \A j \in DOMAIN drawer[d] : drawer[d][j][1] = n => j =< m
  BY <1>1, <1>2 DEF Positions
<1>4. \A j \in DOMAIN drawer[d] : j =< m /\ drawer[d][j][3] # drawer[d][m][3] => j < m
  BY <1>1, <1>2
<1>5. Positions(d, n, Chunks \ {drawer[d][m][3]}) = Others(d, m)
  BY <1>1, <1>2, <1>3, <1>4 DEF Positions, Others
<1>. QED  BY <1>5 DEF m

(* FindFile gives the node it finds, and no other, the sibling of          *)
(* SiblingInv; if the node had one already it is the same.                 *)
LEMMA SiblingOfFound ==
  ASSUME Layer1, NodesOnce, SiblingInv, NEW t \in Threads, FindFile(t)
  PROVE  /\ SiblingInv'
         /\ \A n \in Nodes : sibling[n] # None => sibling'[n] = sibling[n]
<1> DEFINE d == Drawer(t)
           m == LastOf(d, name[t], Chunks)
           n == drawer[d][m]
<1>1. /\ pc[t] = "find" /\ Positions(d, name[t], Chunks) # {}
      /\ node' = [node EXCEPT ![t] = n]
      /\ sibling' = WithSibling(d, node'[t])
      /\ UNCHANGED drawer
  BY DEF FindFile, Step, LastOf
<1>2. node'[t] = n
  BY <1>1 DEF Layer1, TypeOK
<1>3. name[t] \in Names /\ d = DrawerOf[name[t]] /\ d \in Drawers
  BY <1>1, CabinetAssumption DEF Layer1, WorkInv, WorkOf, Finding, Drawer
<1>4. m \in DOMAIN drawer[d] /\ n \in Nodes /\ n[1] = name[t]
  BY <1>1, <1>3, PositionsInDrawer DEF Layer1
<1>5. Positions(d, n[1], Chunks \ {n[3]}) = Others(d, m)
  BY <1>1, <1>3, <1>4, FoundBefore
<1>6. sibling' = IF Others(d, m) = {} THEN sibling
                 ELSE [sibling EXCEPT ![n] = drawer[d][Max(Others(d, m))]]
  <2> HIDE DEF n, m, d
  <2>1. sibling' = WithSibling(d, n)
    BY <1>1, <1>2
  <2>. QED  BY <1>5, <2>1 DEF WithSibling
<1> HIDE DEF n
<1>7. sibling[n] # None => /\ Others(d, m) # {}
                           /\ sibling[n] = drawer[d][Max(Others(d, m))]
  <2> SUFFICES ASSUME sibling[n] # None
               PROVE  /\ Others(d, m) # {}
                      /\ sibling[n] = drawer[d][Max(Others(d, m))]
    OBVIOUS
  <2>1. PICK i \in DOMAIN drawer[d] :
          /\ drawer[d][i] = n
          /\ Others(d, i) # {}
          /\ sibling[n] = drawer[d][Max(Others(d, i))]
    BY <1>3, <1>4 DEF SiblingInv
  <2>2. i = m
    BY <1>3, <1>4, <2>1 DEF NodesOnce, n
  <2>. QED  BY <2>1, <2>2
<1>8. sibling \in [Nodes -> Nodes \cup {None}]
  BY DEF Layer1, TypeOK
<1>9. \A x \in Nodes : x # n \/ Others(d, m) = {} => sibling'[x] = sibling[x]
  BY <1>4, <1>6, <1>8
<1>10. Others(d, m) # {} => sibling'[n] = drawer[d][Max(Others(d, m))]
  BY <1>4, <1>6, <1>8
<1>11. \A x \in Nodes : sibling[x] # None => sibling'[x] = sibling[x]
  BY <1>7, <1>9, <1>10
<1>12. \A e, i : Others(e, i)' = Others(e, i)
  BY <1>1 DEF Others
<1>13. drawer[d][m] = n
  BY DEF n
<1> HIDE DEF m
<1>14. SiblingInv'
  <2> SUFFICES ASSUME NEW x \in Nodes, sibling'[x] # None
               PROVE  \E i \in DOMAIN drawer[DrawerOf[x[1]]] :
                        /\ drawer[DrawerOf[x[1]]][i] = x
                        /\ Others(DrawerOf[x[1]], i) # {}
                        /\ sibling'[x] = drawer[DrawerOf[x[1]]][Max(Others(DrawerOf[x[1]], i))]
    BY <1>1, <1>12 DEF SiblingInv
  <2>1. CASE x = n /\ Others(d, m) # {}
    BY <1>3, <1>4, <1>10, <1>13, <2>1
  <2>2. CASE ~(x = n /\ Others(d, m) # {})
    BY <1>9, <2>2 DEF SiblingInv
  <2>. QED  BY <2>1, <2>2
<1>. QED  BY <1>11, <1>14

(* A chunk that is added comes after all that is in the drawer.            *)
LEMMA SiblingsBefore ==
  ASSUME Layer1, SiblingInv, NEW t \in Threads, AddEntry(t)
  PROVE  SiblingInv'
<1> USE AddsLast
<1>1. \A d \in Drawers : \A i \in DOMAIN drawer[d] : Others(d, i)' = Others(d, i)
  <2> SUFFICES ASSUME NEW d \in Drawers, NEW i \in DOMAIN drawer[d],
                      NEW j \in DOMAIN drawer'[d], j < i
               PROVE  j \in DOMAIN drawer[d]
    BY DEF Others
  <2>1. drawer[d] \in Seq(Nodes) /\ drawer'[d] \in Seq(Nodes)
    BY PutKeepsLayer1 DEF Layer1, TypeOK
  <2>. QED  BY <2>1
<1>2. \A d \in Drawers : \A i \in DOMAIN drawer[d] :
        Others(d, i) # {} => Max(Others(d, i)) \in DOMAIN drawer[d]
  <2> SUFFICES ASSUME NEW d \in Drawers, NEW i \in DOMAIN drawer[d], Others(d, i) # {}
               PROVE  Max(Others(d, i)) \in DOMAIN drawer[d]
    OBVIOUS
  <2>1. Len(drawer[d]) \in Nat /\ Others(d, i) \subseteq 1..Len(drawer[d])
    BY DEF Others
  <2>. QED  BY <2>1, MaxOfIndices
<1>3. \A x \in Nodes : DrawerOf[x[1]] \in Drawers
  BY CabinetAssumption DEF Nodes
<1> SUFFICES ASSUME NEW x \in Nodes, sibling[x] # None
             PROVE  \E i \in DOMAIN drawer'[DrawerOf[x[1]]] :
                      LET d == DrawerOf[x[1]] IN
                      /\ drawer'[d][i] = x
                      /\ Others(d, i)' # {}
                      /\ sibling[x] = drawer'[d][Max(Others(d, i)')]
  BY DEF SiblingInv
<1> DEFINE d == DrawerOf[x[1]]
<1>4. PICK i \in DOMAIN drawer[d] :
        drawer[d][i] = x /\ Others(d, i) # {} /\ sibling[x] = drawer[d][Max(Others(d, i))]
  BY DEF SiblingInv
<1>5. d \in Drawers
  BY <1>3
<1> HIDE DEF d
<1>6. /\ i \in DOMAIN drawer'[d] /\ drawer'[d][i] = x
      /\ Others(d, i)' # {} /\ sibling[x] = drawer'[d][Max(Others(d, i)')]
  BY <1>1, <1>2, <1>4, <1>5
<1>. QED  BY <1>6 DEF d

(* Layer 3 is inductive given the others, and no step changes a sibling    *)
(* that a node has.                                                        *)
LEMMA SiblingStep ==
  ASSUME Layer1, NodesOnce, SiblingInv, [Next]_vars
  PROVE  /\ SiblingInv'
         /\ \A n \in Nodes : sibling[n] # None => sibling'[n] = sibling[n]
<1>1. CASE UNCHANGED <<drawer, sibling>>
  <2>1. \A d, i : Others(d, i)' = Others(d, i)
    BY <1>1 DEF Others
  <2>. QED  BY <1>1, <2>1 DEF SiblingInv
<1>2. CASE \E t \in Threads : FindFile(t)
  BY <1>2, SiblingOfFound
<1>3. CASE \E t \in Threads : AddEntry(t)
  BY <1>3, SiblingsBefore, AddsLast
<1>4. [Next]_vars => \/ UNCHANGED <<drawer, sibling>>
                     \/ \E t \in Threads : FindFile(t) \/ AddEntry(t)
  BY DEF Next, Work, vars, SearchFileList, RecordName, LockEnter, CreateChunk,
         ReceiveChunk, NextChunk, MissFile, MissVersion, MissAny, CheckSibling,
         SendHeader, SendBody, StartPut, StartGet
<1>. QED  BY <1>1, <1>2, <1>3, <1>4
-----------------------------------------------------------------------------
(* No step takes a line from the file list.                                *)
LEMMA FileListGrows ==
  ASSUME Layer1, [Next]_vars
  PROVE  \A i \in DOMAIN filelist : i \in DOMAIN filelist' /\ filelist'[i] = filelist[i]
<1>1. UNCHANGED filelist \/ \E t \in Threads : RecordName(t)
  BY DEF Next, Work, vars, SearchFileList, AddEntry, LockEnter, CreateChunk,
         ReceiveChunk, NextChunk, FindFile, MissFile, MissVersion, MissAny, CheckSibling,
         SendHeader, SendBody, StartPut, StartGet
<1>2. CASE UNCHANGED filelist
  BY <1>2
<1>3. CASE \E t \in Threads : RecordName(t)
  <2> PICK t \in Threads : RecordName(t)
    BY <1>3
  <2>1. name[t] \in Names /\ filelist \in Seq(Names)
    BY DEF RecordName, Step, Layer1, TypeOK, WorkInv, WorkOf, Putting
  <2>2. filelist' = Append(filelist, name[t])
    BY DEF RecordName, Recorded
  <2>. QED  BY <2>1, <2>2
<1>. QED  BY <1>1, <1>2, <1>3

(* A worker past the file list, and whose name must be in it.              *)
PastList(t) == pc[t] = "add" \/ pc[t] = "addwait" \/ Added(t)

LEMMA NameListed ==
  ASSUME Layer1, [Next]_vars, NEW s \in Threads, PastList(s)', PastList(s) => Listed(name[s])
  PROVE  Listed(name[s])'
<1>1. CASE PastList(s) /\ name'[s] = name[s]
  BY <1>1, FileListGrows DEF Listed
<1>2. CASE SearchFileList(s)
  <2>1. pc'[s] = "add" => Listed(name[s])
    BY <1>2 DEF SearchFileList, Step, Layer1, TypeOK
  <2>2. pc'[s] \in {"add", "record"} /\ name'[s] = name[s]
    BY <1>2 DEF SearchFileList, Step, Layer1, TypeOK
  <2>. QED  BY <2>1, <2>2, FileListGrows DEF PastList, Added, Listed
<1>3. CASE RecordName(s)
  <2>1. name[s] \in Names /\ filelist \in Seq(Names)
    BY <1>3 DEF RecordName, Step, Layer1, TypeOK, WorkInv, WorkOf, Putting
  <2>2. filelist' = Append(filelist, name[s]) /\ name' = name
    BY <1>3 DEF RecordName, Recorded
  <2>3. Len(filelist) + 1 \in DOMAIN filelist' /\ filelist'[Len(filelist) + 1] = name[s]
    BY <2>1, <2>2
  <2>4. name[s] \in Extensions[name[s]]
    BY <2>1, CabinetAssumption
  <2>. QED  BY <2>2, <2>3, <2>4 DEF Listed
<1>4. (PastList(s) /\ name'[s] = name[s]) \/ SearchFileList(s) \/ RecordName(s)
  <2>0. pc \in [Threads -> Places] /\ name \in [Threads -> Names \cup {None}]
    BY DEF Layer1, TypeOK, Places
  <2>1. CASE UNCHANGED vars
    BY <2>1 DEF vars, PastList, Added
  <2>2. CASE Next
    <3> PICK t \in Threads : Work(t) \/ \E n \in Names : StartPut(t, n) \/ StartGet(t, n)
      BY <2>2 DEF Next
    <3> USE <2>0 DEF PastList, Added, Step
    <3>1. CASE LockEnter(t) \/ AddEntry(t) \/ CreateChunk(t) \/ ReceiveChunk(t)
      BY <3>1 DEF LockEnter, AddEntry, CreateChunk, ReceiveChunk
    <3>2. CASE NextChunk(t) \/ CheckSibling(t)
      BY <3>2 DEF NextChunk, CheckSibling, Ends
    <3>3. CASE FindFile(t) \/ MissFile(t) \/ MissVersion(t) \/ MissAny(t)
      BY <3>3 DEF FindFile, MissFile, MissVersion, MissAny, Ends
    <3>4. CASE SendHeader(t) \/ SendBody(t)
      BY <3>4 DEF SendHeader, SendBody, AfterSend, Ends
    <3>5. CASE SearchFileList(t) \/ RecordName(t)
      BY <3>5 DEF SearchFileList, RecordName
    <3>6. CASE \E n \in Names : StartPut(t, n) \/ StartGet(t, n)
      BY <3>6 DEF StartPut, StartGet
    <3>. QED  BY <3>1, <3>2, <3>3, <3>4, <3>5, <3>6 DEF Work
  <2>. QED  BY <2>1, <2>2
<1>. QED  BY <1>1, <1>2, <1>3, <1>4

(* Layer 4 is inductive given layer 1.                                     *)
LEMMA ListStep ==
  ASSUME Layer1, ListInv, [Next]_vars
  PROVE  ListInv'
<1>1. \A s \in Threads : PastList(s)' => Listed(name[s])'
  BY NameListed DEF ListInv, PastList
<1>2. StoredIsListed'
  <2>1. CASE UNCHANGED drawer
    BY <2>1, FileListGrows DEF ListInv, StoredIsListed, Listed
  <2>2. CASE \E t \in Threads : AddEntry(t)
    <3> PICK t \in Threads : AddEntry(t)
      BY <2>2
    <3>1. \E k \in DOMAIN filelist' : filelist'[k] \in Extensions[node[t][1]]
      BY AddsLast, FileListGrows DEF ListInv, Added, Listed
    <3>2. \A d \in Drawers : \A i \in DOMAIN drawer'[d] : 
            \E k \in DOMAIN filelist' : filelist'[k] \in Extensions[drawer'[d][i][1]]
      <4> SUFFICES ASSUME NEW d \in Drawers, NEW i \in DOMAIN drawer'[d]
                   PROVE  \E k \in DOMAIN filelist' : filelist'[k] \in Extensions[drawer'[d][i][1]]
        OBVIOUS
      <4>1. CASE i \in DOMAIN drawer[d]
        BY <4>1, AddsLast, FileListGrows DEF ListInv, StoredIsListed, Listed
      <4>2. CASE i \notin DOMAIN drawer[d]
        BY <3>1, <4>2, AddsLast
      <4>. QED  BY <4>1, <4>2
    <3>. QED  BY <3>2 DEF StoredIsListed, Listed
  <2>3. UNCHANGED drawer \/ \E t \in Threads : AddEntry(t)
    BY DEF Next, Work, vars, SearchFileList, RecordName, LockEnter, CreateChunk,
           ReceiveChunk, NextChunk, FindFile, MissFile, MissVersion, MissAny,
           CheckSibling, SendHeader, SendBody, StartPut, StartGet
  <2>. QED  BY <2>1, <2>2, <2>3
<1>. QED  BY <1>1, <1>2 DEF ListInv, PastList
-----------------------------------------------------------------------------
LEMMA InitInv == Init => IInv
<1> SUFFICES ASSUME Init PROVE IInv
  OBVIOUS
<1>1. Layer1
  BY Layer1Init
<1>2. \A d \in Drawers : DOMAIN drawer[d] = {}
  BY DEF Init
<1>3. PutInv /\ NodesOnce
  BY <1>2 DEF Init, PutInv, NodesOnce, Putting
<1>4. SiblingInv
  BY DEF Init, SiblingInv
<1>5. ListInv
  BY <1>2 DEF Init, ListInv, StoredIsListed, Added
<1>. QED  BY <1>1, <1>3, <1>4, <1>5 DEF IInv

LEMMA Inductive == IInv /\ [Next]_vars => IInv'
BY Layer1Step, Layer2Step, SiblingStep, ListStep DEF IInv

(* What the server has is what was put, in the order in which it was put,  *)
(* and every sibling is the one SiblingInv names.                          *)
THEOREM Invariance == Spec => []IInv
BY InitInv, Inductive, PTL DEF Spec

(* A file of which a chunk is in the cabinet is in the file list.          *)
THEOREM ListedBeforeStored == Spec => []StoredIsListed
BY Invariance, PTL DEF IInv, ListInv

(* A sibling once found is never changed, although the worker that looks   *)
(* for it writes it while others read.                                     *)
THEOREM SiblingsKept == Spec => SiblingsStay
<1>1. IInv /\ [Next]_vars =>
        [\A n \in Nodes : sibling[n] # None => sibling'[n] = sibling[n]]_vars
  BY SiblingStep DEF IInv
<1>. QED  BY <1>1, Invariance, PTL DEF Spec, SiblingsStay
=============================================================================
