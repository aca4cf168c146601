-------------------------- MODULE ServerPoolProofs --------------------------
(***************************************************************************)
(* Proofs about ServerPool, for any number of threads, clients, signals    *)
(* and descriptors, and any files.                                         *)
(*                                                                         *)
(* A semaphore of the pool is a binary one, and "one thread at a time" is  *)
(* so only because whoever is between its sem_wait and its sem_post can be *)
(* named.  The inductive invariant says for each of the three semaphores   *)
(* who that is.                                                            *)
(*                                                                         *)
(* That a client gets its answer, and only its own, rests on where each    *)
(* connection is: with one worker at most, which holds what of the answer  *)
(* has not been sent.                                                      *)
(***************************************************************************)
EXTENDS ServerPool, IndexLemmas, FiniteSetTheorems, SequenceTheorems, TLAPS

Places == {"start", "mutex", "check", "accept", "waitrecv", "recv", "send", "close",
           "exit"}

TypeInv ==
  /\ acceptSem \in {0, 1} /\ keepMut \in {0, 1} /\ socketSem \in {0, 1}
  /\ keepRunning \in BOOLEAN
  /\ listening \in BOOLEAN
  /\ queue \subseteq Clients /\ served \subseteq Clients
  /\ pc \in [Threads -> Places]
  /\ client \in [Threads -> Clients \cup {NoClient}]
  /\ scenario \in Scenarios
  /\ closer \in {"start", "check", "shutdown", "exit"}
  /\ main \in {"joincloser", "join", "exited"}
  /\ handler \in [Procs -> {"no", "wait", "held"}]
  /\ signals \in 0..scenario.signals
  /\ killed \in BOOLEAN

(* accept_sem is held from its sem_wait to the return of accept.           *)
InTurn(t) == pc[t] \in {"mutex", "check", "accept"}

AcceptInv ==
  /\ \A t \in Threads : InTurn(t) => acceptSem = 0
  /\ \A s, t \in Threads : InTurn(s) /\ InTurn(t) => s = t

(* keep_running_mut is held by a worker or the closer that looks at the    *)
(* flag, or by a handler, which may run on any thread.                     *)
Reads(p) ==
  \/ p \in Threads /\ pc[p] = "check"
  \/ p = "closer" /\ closer = "check"

Writes(p) == handler[p] = "held"

KeepInv ==
  /\ \A p \in Procs : Reads(p) \/ Writes(p) => keepMut = 0
  /\ \A p, q \in Procs : /\ Reads(p) /\ Reads(q) => p = q
                         /\ Writes(p) /\ Writes(q) => p = q
                         /\ ~(Reads(p) /\ Writes(q))

(* socket_sem is held during recv.                                         *)
SocketInv ==
  /\ \A t \in Threads : pc[t] = "recv" => socketSem = 0
  /\ \A s, t \in Threads : pc[s] = "recv" /\ pc[t] = "recv" => s = t

(* The stop runs in one direction: the flag, the listening socket, the     *)
(* closer, the workers, main.                                              *)
StopInv ==
  /\ closer \in {"shutdown", "exit"} => ~keepRunning
  /\ ~listening => ~keepRunning
  /\ main # "joincloser" => closer = "exit"
  /\ main = "exited" => \A t \in Threads : pc[t] = "exit"

(* A worker has a client from accept to close.                             *)
ClientInv ==
  \A t \in Threads : pc[t] \in {"start", "mutex", "check", "accept", "exit"}
                       <=> client[t] = NoClient

IInv == TypeInv /\ AcceptInv /\ KeepInv /\ SocketInv /\ StopInv /\ ClientInv
-----------------------------------------------------------------------------
(* A worker takes a step: it moves, and the others stay where they are.    *)
LEMMA Moved ==
  ASSUME TypeInv, NEW t \in Threads, NEW l, NEW m \in Places, Step(t, l, m)
  PROVE  /\ pc[t] = l /\ pc'[t] = m
         /\ pc' \in [Threads -> Places]
         /\ \A s \in Threads : s # t => pc'[s] = pc[s]
BY DEF TypeInv, Step

(* accept_sem is taken by t, is posted by t, and is neither.               *)
LEMMA AcceptTaken ==
  ASSUME TypeInv, AcceptInv, NEW t \in Threads,
         acceptSem > 0, acceptSem' = acceptSem - 1,
         \A s \in Threads : s # t => pc'[s] = pc[s]
  PROVE  acceptSem' \in {0, 1} /\ AcceptInv'
<1>1. acceptSem = 1 /\ acceptSem' = 0
  BY DEF TypeInv
<1>2. \A s \in Threads : s # t => ~InTurn(s)'
  BY <1>1 DEF AcceptInv, InTurn
<1>. QED  BY <1>1, <1>2 DEF AcceptInv

LEMMA AcceptPosted ==
  ASSUME TypeInv, AcceptInv, NEW t \in Threads,
         InTurn(t), ~InTurn(t)', acceptSem' = acceptSem + 1,
         \A s \in Threads : s # t => pc'[s] = pc[s]
  PROVE  acceptSem' \in {0, 1} /\ AcceptInv'
<1>1. acceptSem = 0 /\ acceptSem' = 1
  BY DEF AcceptInv
<1>2. \A s \in Threads : ~InTurn(s)'
  BY DEF AcceptInv, InTurn
<1>. QED  BY <1>1, <1>2 DEF AcceptInv

LEMMA AcceptKept ==
  ASSUME TypeInv, AcceptInv, acceptSem' = acceptSem,
         \A s \in Threads : InTurn(s)' => InTurn(s)
  PROVE  acceptSem' \in {0, 1} /\ AcceptInv'
BY DEF TypeInv, AcceptInv

(* keep_running_mut is taken for p, is posted for p, and is neither.       *)
LEMMA KeepTaken ==
  ASSUME TypeInv, KeepInv, NEW p \in Procs,
         keepMut > 0, keepMut' = keepMut - 1,
         ~(Reads(p)' /\ Writes(p)'),
         \A q \in Procs : q # p => (Reads(q)' => Reads(q)) /\ (Writes(q)' => Writes(q))
  PROVE  keepMut' \in {0, 1} /\ KeepInv'
<1>1. keepMut = 1 /\ keepMut' = 0
  BY DEF TypeInv
<1>2. \A q \in Procs : q # p => ~Reads(q)' /\ ~Writes(q)'
  BY <1>1 DEF KeepInv
<1>. QED  BY <1>1, <1>2 DEF KeepInv

LEMMA KeepPosted ==
  ASSUME TypeInv, KeepInv, NEW p \in Procs,
         Reads(p) \/ Writes(p), ~Reads(p)', ~Writes(p)', keepMut' = keepMut + 1,
         \A q \in Procs : q # p => (Reads(q)' => Reads(q)) /\ (Writes(q)' => Writes(q))
  PROVE  keepMut' \in {0, 1} /\ KeepInv'
<1>1. keepMut = 0 /\ keepMut' = 1
  BY DEF KeepInv
<1>2. \A q \in Procs : ~Reads(q)' /\ ~Writes(q)'
  BY DEF KeepInv
<1>. QED  BY <1>1, <1>2 DEF KeepInv

LEMMA KeepKept ==
  ASSUME TypeInv, KeepInv, keepMut' = keepMut,
         \A q \in Procs : (Reads(q)' => Reads(q)) /\ (Writes(q)' => Writes(q))
  PROVE  keepMut' \in {0, 1} /\ KeepInv'
BY DEF TypeInv, KeepInv

(* socket_sem is taken by t, is posted by t, and is neither.               *)
LEMMA SocketTaken ==
  ASSUME TypeInv, SocketInv, NEW t \in Threads,
         socketSem > 0, socketSem' = socketSem - 1,
         \A s \in Threads : s # t => pc'[s] = pc[s]
  PROVE  socketSem' \in {0, 1} /\ SocketInv'
<1>1. socketSem = 1 /\ socketSem' = 0
  BY DEF TypeInv
<1>2. \A s \in Threads : s # t => pc'[s] # "recv"
  BY <1>1 DEF SocketInv
<1>. QED  BY <1>1, <1>2 DEF SocketInv

LEMMA SocketPosted ==
  ASSUME TypeInv, SocketInv, NEW t \in Threads,
         pc[t] = "recv", pc'[t] # "recv", socketSem' = socketSem + 1,
         \A s \in Threads : s # t => pc'[s] = pc[s]
  PROVE  socketSem' \in {0, 1} /\ SocketInv'
<1>1. socketSem = 0 /\ socketSem' = 1
  BY DEF SocketInv
<1>2. \A s \in Threads : pc'[s] # "recv"
  BY DEF SocketInv
<1>. QED  BY <1>1, <1>2 DEF SocketInv

LEMMA SocketKept ==
  ASSUME TypeInv, SocketInv, socketSem' = socketSem,
         \A s \in Threads : pc'[s] = "recv" => pc[s] = "recv"
  PROVE  socketSem' \in {0, 1} /\ SocketInv'
BY DEF TypeInv, SocketInv
-----------------------------------------------------------------------------
LEMMA IInvInit == Init => IInv
<1> SUFFICES ASSUME Init PROVE IInv
  OBVIOUS
<1>1. scenario.signals \in Nat
  BY PoolAssumption DEF Init
<1>2. 0 \in 0..scenario.signals
  BY <1>1
<1>3. TypeInv
  BY <1>2 DEF Init, TypeInv, Places
<1>4. AcceptInv /\ SocketInv /\ StopInv /\ ClientInv
  BY DEF Init, AcceptInv, InTurn, SocketInv, StopInv, ClientInv
<1>5. KeepInv
  BY DEF Init, KeepInv, Reads, Writes
<1>. QED  BY <1>3, <1>4, <1>5 DEF IInv

(* Every action keeps the invariant.  The steps of a worker move it, and   *)
(* those of the others leave all workers where they are.                   *)
LEMMA StepOfWaitAccept ==
  ASSUME IInv, NEW t \in Threads, WaitAccept(t)
  PROVE  IInv'
<1>1. Step(t, "start", "mutex")
  BY DEF WaitAccept
<1>2. /\ pc[t] = "start" /\ pc'[t] = "mutex"
      /\ pc' \in [Threads -> Places]
      /\ \A s \in Threads : s # t => pc'[s] = pc[s]
  BY <1>1, Moved DEF IInv, Places
<1>3. acceptSem' \in {0, 1} /\ AcceptInv'
  BY <1>2, AcceptTaken DEF WaitAccept, IInv, InTurn
<1>4. keepMut' \in {0, 1} /\ KeepInv'
  BY <1>2, PoolAssumption, KeepKept DEF WaitAccept, IInv, Procs, Reads, Writes, sigVars
<1>5. socketSem' \in {0, 1} /\ SocketInv'
  BY <1>2, SocketKept DEF WaitAccept, IInv
<1>6. TypeInv'
  BY <1>2, <1>3, <1>4, <1>5 DEF WaitAccept, IInv, TypeInv, netVars, sigVars, webVars
<1>7. StopInv'
  BY <1>1, <1>2 DEF WaitAccept, IInv, StopInv, netVars
<1>8. ClientInv'
  BY <1>1, <1>2 DEF WaitAccept, IInv, TypeInv, ClientInv
<1>. QED  BY <1>3, <1>4, <1>5, <1>6, <1>7, <1>8 DEF IInv

LEMMA StepOfWaitMutex ==
  ASSUME IInv, NEW t \in Threads, WaitMutex(t)
  PROVE  IInv'
<1>1. Step(t, "mutex", "check")
  BY DEF WaitMutex
<1>2. /\ pc[t] = "mutex" /\ pc'[t] = "check"
      /\ pc' \in [Threads -> Places]
      /\ \A s \in Threads : s # t => pc'[s] = pc[s]
  BY <1>1, Moved DEF IInv, Places
<1>3. acceptSem' \in {0, 1} /\ AcceptInv'
  BY <1>2, AcceptKept DEF WaitMutex, IInv, InTurn
<1>4. keepMut' \in {0, 1} /\ KeepInv'
  BY <1>2, PoolAssumption, KeepTaken
  DEF WaitMutex, IInv, KeepInv, Procs, Reads, Writes, sigVars
<1>5. socketSem' \in {0, 1} /\ SocketInv'
  BY <1>2, SocketKept DEF WaitMutex, IInv
<1>6. TypeInv'
  BY <1>2, <1>3, <1>4, <1>5 DEF WaitMutex, IInv, TypeInv, netVars, sigVars, webVars
<1>7. StopInv'
  BY <1>1, <1>2 DEF WaitMutex, IInv, StopInv, netVars
<1>8. ClientInv'
  BY <1>1, <1>2 DEF WaitMutex, IInv, TypeInv, ClientInv
<1>. QED  BY <1>3, <1>4, <1>5, <1>6, <1>7, <1>8 DEF IInv

LEMMA StepOfCheckRunning ==
  ASSUME IInv, NEW t \in Threads, CheckRunning(t)
  PROVE  IInv'
<1>1. PICK m \in {"accept", "exit"} :
        Step(t, "check", m) /\ (m = "exit" <=> ~keepRunning)
  BY DEF CheckRunning, IInv, TypeInv
<1>2. m \in Places
  BY DEF Places
<1>3. /\ pc[t] = "check" /\ pc'[t] = m
      /\ pc' \in [Threads -> Places]
      /\ \A s \in Threads : s # t => pc'[s] = pc[s]
  BY <1>1, <1>2, Moved DEF IInv
<1>4. acceptSem' \in {0, 1} /\ AcceptInv'
  <2>1. CASE m = "accept"
    BY <1>1, <1>3, <2>1, AcceptKept DEF CheckRunning, IInv, InTurn, Step
  <2>2. CASE m = "exit"
    BY <1>1, <1>3, <2>2, AcceptPosted DEF CheckRunning, IInv, InTurn, Step
  <2>. QED  BY <2>1, <2>2
<1>5. keepMut' \in {0, 1} /\ KeepInv'
  BY <1>3, PoolAssumption, KeepPosted
  DEF CheckRunning, IInv, KeepInv, Procs, Reads, Writes, sigVars
<1>6. socketSem' \in {0, 1} /\ SocketInv'
  BY <1>3, SocketKept DEF CheckRunning, IInv
<1>7. TypeInv'
  BY <1>3, <1>4, <1>5, <1>6 DEF CheckRunning, IInv, TypeInv, netVars, sigVars, webVars
<1>8. StopInv'
  BY <1>1, <1>3 DEF CheckRunning, IInv, StopInv, netVars
<1>9. ClientInv'
  BY <1>1, <1>3 DEF CheckRunning, IInv, TypeInv, ClientInv
<1>. QED  BY <1>4, <1>5, <1>6, <1>7, <1>8, <1>9 DEF IInv

LEMMA StepOfAcceptClient ==
  ASSUME IInv, NEW t \in Threads, AcceptClient(t)
  PROVE  IInv'
<1>1. Step(t, "accept", "waitrecv")
  BY DEF AcceptClient
<1>2. /\ pc[t] = "accept" /\ pc'[t] = "waitrecv"
      /\ pc' \in [Threads -> Places]
      /\ \A s \in Threads : s # t => pc'[s] = pc[s]
  BY <1>1, Moved DEF IInv, Places
<1>3. acceptSem' \in {0, 1} /\ AcceptInv'
  BY <1>2, AcceptPosted DEF AcceptClient, IInv, InTurn
<1>4. keepMut' \in {0, 1} /\ KeepInv'
  BY <1>2, PoolAssumption, KeepKept
  DEF AcceptClient, IInv, Procs, Reads, Writes, sigVars
<1>5. socketSem' \in {0, 1} /\ SocketInv'
  BY <1>2, SocketKept DEF AcceptClient, IInv
<1>6. TypeInv'
  BY <1>2, <1>3, <1>4, <1>5 DEF AcceptClient, IInv, TypeInv, sigVars, webVars
<1>7. StopInv'
  BY <1>1, <1>2 DEF AcceptClient, IInv, StopInv
<1>8. ClientInv'
  BY <1>1, <1>2, PoolAssumption DEF AcceptClient, IInv, TypeInv, ClientInv
<1>. QED  BY <1>3, <1>4, <1>5, <1>6, <1>7, <1>8 DEF IInv

LEMMA StepOfAcceptFails ==
  ASSUME IInv, NEW t \in Threads, AcceptFails(t)
  PROVE  IInv'
<1>1. Step(t, "accept", "exit")
  BY DEF AcceptFails
<1>2. /\ pc[t] = "accept" /\ pc'[t] = "exit"
      /\ pc' \in [Threads -> Places]
      /\ \A s \in Threads : s # t => pc'[s] = pc[s]
  BY <1>1, Moved DEF IInv, Places
<1>3. acceptSem' \in {0, 1} /\ AcceptInv'
  BY <1>2, AcceptPosted DEF AcceptFails, IInv, InTurn
<1>4. keepMut' \in {0, 1} /\ KeepInv'
  BY <1>2, PoolAssumption, KeepKept DEF AcceptFails, IInv, Procs, Reads, Writes, sigVars
<1>5. socketSem' \in {0, 1} /\ SocketInv'
  BY <1>2, SocketKept DEF AcceptFails, IInv
<1>6. TypeInv'
  BY <1>2, <1>3, <1>4, <1>5 DEF AcceptFails, IInv, TypeInv, netVars, sigVars, webVars
<1>7. StopInv'
  BY <1>1, <1>2 DEF AcceptFails, IInv, StopInv, netVars
<1>8. ClientInv'
  BY <1>1, <1>2 DEF AcceptFails, IInv, TypeInv, ClientInv
<1>. QED  BY <1>3, <1>4, <1>5, <1>6, <1>7, <1>8 DEF IInv

LEMMA StepOfWaitRecv ==
  ASSUME IInv, NEW t \in Threads, WaitRecv(t)
  PROVE  IInv'
<1>1. Step(t, "waitrecv", "recv")
  BY DEF WaitRecv
<1>2. /\ pc[t] = "waitrecv" /\ pc'[t] = "recv"
      /\ pc' \in [Threads -> Places]
      /\ \A s \in Threads : s # t => pc'[s] = pc[s]
  BY <1>1, Moved DEF IInv, Places
<1>3. acceptSem' \in {0, 1} /\ AcceptInv'
  BY <1>2, AcceptKept DEF WaitRecv, IInv, InTurn
<1>4. keepMut' \in {0, 1} /\ KeepInv'
  BY <1>2, PoolAssumption, KeepKept DEF WaitRecv, IInv, Procs, Reads, Writes, sigVars
<1>5. socketSem' \in {0, 1} /\ SocketInv'
  BY <1>2, SocketTaken DEF WaitRecv, IInv
<1>6. TypeInv'
  BY <1>2, <1>3, <1>4, <1>5 DEF WaitRecv, IInv, TypeInv, netVars, sigVars, webVars
<1>7. StopInv'
  BY <1>1, <1>2 DEF WaitRecv, IInv, StopInv, netVars
<1>8. ClientInv'
  BY <1>1, <1>2 DEF WaitRecv, IInv, TypeInv, ClientInv
<1>. QED  BY <1>3, <1>4, <1>5, <1>6, <1>7, <1>8 DEF IInv

LEMMA StepOfRecvRequest ==
  ASSUME IInv, NEW t \in Threads, RecvRequest(t)
  PROVE  IInv'
<1>1. Step(t, "recv", "send")
  BY DEF RecvRequest
<1>2. /\ pc[t] = "recv" /\ pc'[t] = "send"
      /\ pc' \in [Threads -> Places]
      /\ \A s \in Threads : s # t => pc'[s] = pc[s]
  BY <1>1, Moved DEF IInv, Places
<1>3. acceptSem' \in {0, 1} /\ AcceptInv'
  BY <1>2, AcceptKept DEF RecvRequest, IInv, InTurn
<1>4. keepMut' \in {0, 1} /\ KeepInv'
  BY <1>2, PoolAssumption, KeepKept DEF RecvRequest, IInv, Procs, Reads, Writes, sigVars
<1>5. socketSem' \in {0, 1} /\ SocketInv'
  BY <1>2, SocketPosted DEF RecvRequest, IInv, PostSocket
<1>6. TypeInv'
  BY <1>2, <1>3, <1>4, <1>5 DEF RecvRequest, IInv, TypeInv, sigVars
<1>7. StopInv'
  BY <1>1, <1>2 DEF RecvRequest, IInv, StopInv
<1>8. ClientInv'
  BY <1>1, <1>2 DEF RecvRequest, IInv, TypeInv, ClientInv
<1>. QED  BY <1>3, <1>4, <1>5, <1>6, <1>7, <1>8 DEF IInv

LEMMA StepOfSend ==
  ASSUME IInv, NEW t \in Threads, Send(t)
  PROVE  IInv'
<1>1. PICK m \in {"send", "close"} : Step(t, "send", m)
  BY DEF Send
<1>2. m \in Places
  BY DEF Places
<1>3. /\ pc[t] = "send" /\ pc'[t] = m
      /\ pc' \in [Threads -> Places]
      /\ \A s \in Threads : s # t => pc'[s] = pc[s]
  BY <1>1, <1>2, Moved DEF IInv
<1>4. acceptSem' \in {0, 1} /\ AcceptInv'
  BY <1>3, AcceptKept DEF Send, IInv, InTurn, semVars
<1>5. keepMut' \in {0, 1} /\ KeepInv'
  BY <1>3, PoolAssumption, KeepKept
  DEF Send, IInv, Procs, Reads, Writes, semVars, sigVars
<1>6. socketSem' \in {0, 1} /\ SocketInv'
  BY <1>3, SocketKept DEF Send, IInv, semVars
<1>7. TypeInv'
  BY <1>3, <1>4, <1>5, <1>6 DEF Send, IInv, TypeInv, netVars, sigVars
<1>8. StopInv'
  BY <1>1, <1>3 DEF Send, IInv, StopInv, Runs, netVars
<1>9. ClientInv'
  BY <1>1, <1>3, PoolAssumption DEF Send, IInv, TypeInv, ClientInv
<1>. QED  BY <1>4, <1>5, <1>6, <1>7, <1>8, <1>9 DEF IInv

LEMMA StepOfCloseClient ==
  ASSUME IInv, NEW t \in Threads, CloseClient(t)
  PROVE  IInv'
<1>1. Step(t, "close", "start")
  BY DEF CloseClient, LoopAgain
<1>2. /\ pc[t] = "close" /\ pc'[t] = "start"
      /\ pc' \in [Threads -> Places]
      /\ \A s \in Threads : s # t => pc'[s] = pc[s]
  BY <1>1, Moved DEF IInv, Places
<1>3. acceptSem' \in {0, 1} /\ AcceptInv'
  BY <1>2, AcceptKept DEF CloseClient, IInv, InTurn, semVars
<1>4. keepMut' \in {0, 1} /\ KeepInv'
  BY <1>2, PoolAssumption, KeepKept
  DEF CloseClient, IInv, Procs, Reads, Writes, semVars, sigVars
<1>5. socketSem' \in {0, 1} /\ SocketInv'
  BY <1>2, SocketKept DEF CloseClient, IInv, semVars
<1>6. TypeInv'
  BY <1>2, <1>3, <1>4, <1>5 DEF CloseClient, IInv, TypeInv, sigVars, webVars, ClientInv
<1>7. StopInv'
  BY <1>1, <1>2 DEF CloseClient, IInv, StopInv
<1>8. ClientInv'
  BY <1>1, <1>2 DEF CloseClient, IInv, TypeInv, ClientInv
<1>. QED  BY <1>3, <1>4, <1>5, <1>6, <1>7, <1>8 DEF IInv

LEMMA StepOfCloserWait ==
  ASSUME IInv, CloserWait
  PROVE  IInv'
<1>1. UNCHANGED <<pc, client, acceptSem, socketSem>>
  BY DEF CloserWait
<1>2. /\ acceptSem' \in {0, 1} /\ AcceptInv'
      /\ socketSem' \in {0, 1} /\ SocketInv'
      /\ ClientInv'
  BY <1>1, AcceptKept, SocketKept DEF IInv, InTurn, ClientInv
<1>3. keepMut' \in {0, 1} /\ KeepInv'
  BY <1>1, PoolAssumption, KeepTaken
  DEF CloserWait, IInv, TypeInv, KeepInv, Procs, Reads, Writes, sigVars
<1>4. TypeInv'
  BY <1>1, <1>2, <1>3, PoolAssumption
  DEF CloserWait, IInv, TypeInv, netVars, sigVars, webVars
<1>5. StopInv'
  BY <1>1 DEF CloserWait, IInv, StopInv, Runs, netVars
<1>. QED  BY <1>2, <1>3, <1>4, <1>5 DEF IInv

LEMMA StepOfCloserCheck ==
  ASSUME IInv, CloserCheck
  PROVE  IInv'
<1>1. UNCHANGED <<pc, client, acceptSem, socketSem>>
  BY DEF CloserCheck
<1>2. /\ acceptSem' \in {0, 1} /\ AcceptInv'
      /\ socketSem' \in {0, 1} /\ SocketInv'
      /\ ClientInv'
  BY <1>1, AcceptKept, SocketKept DEF IInv, InTurn, ClientInv
<1>3. keepMut' \in {0, 1} /\ KeepInv'
  BY <1>1, PoolAssumption, KeepPosted
  DEF CloserCheck, IInv, TypeInv, KeepInv, Procs, Reads, Writes, sigVars
<1>4. TypeInv'
  BY <1>1, <1>2, <1>3, PoolAssumption
  DEF CloserCheck, IInv, TypeInv, netVars, sigVars, webVars
<1>5. StopInv'
  BY <1>1 DEF CloserCheck, IInv, StopInv, Runs, netVars
<1>. QED  BY <1>2, <1>3, <1>4, <1>5 DEF IInv

LEMMA StepOfCloserShutdown ==
  ASSUME IInv, CloserShutdown
  PROVE  IInv'
<1>1. UNCHANGED <<pc, client, acceptSem, socketSem>>
  BY DEF CloserShutdown, semVars
<1>2. /\ acceptSem' \in {0, 1} /\ AcceptInv'
      /\ socketSem' \in {0, 1} /\ SocketInv'
      /\ ClientInv'
  BY <1>1, AcceptKept, SocketKept DEF IInv, InTurn, ClientInv
<1>3. keepMut' \in {0, 1} /\ KeepInv'
  BY <1>1, PoolAssumption, KeepKept
  DEF CloserShutdown, IInv, TypeInv, Procs, Reads, Writes, semVars, sigVars
<1>4. TypeInv'
  BY <1>1, <1>2, <1>3, PoolAssumption
  DEF CloserShutdown, ShutdownSocket, IInv, TypeInv, sigVars, webVars
<1>5. StopInv'
  BY <1>1 DEF CloserShutdown, ShutdownSocket, IInv, StopInv, Runs
<1>. QED  BY <1>2, <1>3, <1>4, <1>5 DEF IInv

LEMMA StepOfJoinCloser ==
  ASSUME IInv, JoinCloser
  PROVE  IInv'
<1>1. UNCHANGED <<pc, client, acceptSem, socketSem>>
  BY DEF JoinCloser, semVars
<1>2. /\ acceptSem' \in {0, 1} /\ AcceptInv'
      /\ socketSem' \in {0, 1} /\ SocketInv'
      /\ ClientInv'
  BY <1>1, AcceptKept, SocketKept DEF IInv, InTurn, ClientInv
<1>3. keepMut' \in {0, 1} /\ KeepInv'
  BY <1>1, PoolAssumption, KeepKept
  DEF JoinCloser, IInv, TypeInv, Procs, Reads, Writes, semVars, sigVars
<1>4. TypeInv'
  BY <1>1, <1>2, <1>3, PoolAssumption
  DEF JoinCloser, IInv, TypeInv, netVars, sigVars, webVars
<1>5. StopInv'
  BY <1>1 DEF JoinCloser, IInv, StopInv, Runs, netVars
<1>. QED  BY <1>2, <1>3, <1>4, <1>5 DEF IInv

LEMMA StepOfJoinThreads ==
  ASSUME IInv, JoinThreads
  PROVE  IInv'
<1>1. UNCHANGED <<pc, client, acceptSem, socketSem>>
  BY DEF JoinThreads, semVars
<1>2. /\ acceptSem' \in {0, 1} /\ AcceptInv'
      /\ socketSem' \in {0, 1} /\ SocketInv'
      /\ ClientInv'
  BY <1>1, AcceptKept, SocketKept DEF IInv, InTurn, ClientInv
<1>3. keepMut' \in {0, 1} /\ KeepInv'
  BY <1>1, PoolAssumption, KeepKept
  DEF JoinThreads, IInv, TypeInv, Procs, Reads, Writes, semVars, sigVars
<1>4. TypeInv'
  BY <1>1, <1>2, <1>3, PoolAssumption
  DEF JoinThreads, AllJoined, IInv, TypeInv, netVars, sigVars, webVars
<1>5. StopInv'
  BY <1>1 DEF JoinThreads, AllJoined, IInv, StopInv, Runs, netVars
<1>. QED  BY <1>2, <1>3, <1>4, <1>5 DEF IInv

LEMMA StepOfInterrupt ==
  ASSUME IInv, NEW p \in Procs, Interrupt(p)
  PROVE  IInv'
<1>1. UNCHANGED <<pc, client, acceptSem, socketSem>>
  BY DEF Interrupt, semVars
<1>2. /\ acceptSem' \in {0, 1} /\ AcceptInv'
      /\ socketSem' \in {0, 1} /\ SocketInv'
      /\ ClientInv'
  BY <1>1, AcceptKept, SocketKept DEF IInv, InTurn, ClientInv
<1>3. keepMut' \in {0, 1} /\ KeepInv'
  BY <1>1, PoolAssumption, KeepKept
  DEF Interrupt, IInv, TypeInv, Procs, Reads, Writes, semVars
<1>4. TypeInv'
  BY <1>1, <1>2, <1>3, PoolAssumption DEF Interrupt, IInv, TypeInv, netVars, webVars
<1>5. StopInv'
  BY <1>1 DEF Interrupt, IInv, StopInv, Runs, netVars
<1>. QED  BY <1>2, <1>3, <1>4, <1>5 DEF IInv

LEMMA StepOfHandlerWait ==
  ASSUME IInv, NEW p \in Procs, HandlerWait(p)
  PROVE  IInv'
<1>1. UNCHANGED <<pc, client, acceptSem, socketSem>>
  BY DEF HandlerWait
<1>2. /\ acceptSem' \in {0, 1} /\ AcceptInv'
      /\ socketSem' \in {0, 1} /\ SocketInv'
      /\ ClientInv'
  BY <1>1, AcceptKept, SocketKept DEF IInv, InTurn, ClientInv
<1>3. keepMut' \in {0, 1} /\ KeepInv'
  BY <1>1, PoolAssumption, KeepTaken
  DEF HandlerWait, IInv, TypeInv, KeepInv, Procs, Reads, Writes
<1>4. TypeInv'
  BY <1>1, <1>2, <1>3, PoolAssumption DEF HandlerWait, IInv, TypeInv, netVars, webVars
<1>5. StopInv'
  BY <1>1 DEF HandlerWait, IInv, StopInv, Runs, netVars
<1>. QED  BY <1>2, <1>3, <1>4, <1>5 DEF IInv

LEMMA StepOfHandlerPost ==
  ASSUME IInv, NEW p \in Procs, HandlerPost(p)
  PROVE  IInv'
<1>1. UNCHANGED <<pc, client, acceptSem, socketSem>>
  BY DEF HandlerPost, semVars
<1>2. /\ acceptSem' \in {0, 1} /\ AcceptInv'
      /\ socketSem' \in {0, 1} /\ SocketInv'
      /\ ClientInv'
  BY <1>1, AcceptKept, SocketKept DEF IInv, InTurn, ClientInv
<1>3. keepMut' \in {0, 1} /\ KeepInv'
  BY <1>1, PoolAssumption, KeepPosted
  DEF HandlerPost, IInv, TypeInv, KeepInv, Procs, Reads, Writes, semVars, sigVars
<1>4. TypeInv'
  BY <1>1, <1>2, <1>3, PoolAssumption
  DEF HandlerPost, IInv, TypeInv, netVars, sigVars, webVars
<1>5. StopInv'
  BY <1>1 DEF HandlerPost, IInv, StopInv, Runs, netVars
<1>. QED  BY <1>2, <1>3, <1>4, <1>5 DEF IInv

LEMMA StepOfConnect ==
  ASSUME IInv, NEW c \in Clients, Connect(c)
  PROVE  IInv'
<1>1. UNCHANGED <<pc, client, acceptSem, socketSem>>
  BY DEF Connect, semVars
<1>2. /\ acceptSem' \in {0, 1} /\ AcceptInv'
      /\ socketSem' \in {0, 1} /\ SocketInv'
      /\ ClientInv'
  BY <1>1, AcceptKept, SocketKept DEF IInv, InTurn, ClientInv
<1>3. keepMut' \in {0, 1} /\ KeepInv'
  BY <1>1, PoolAssumption, KeepKept
  DEF Connect, IInv, TypeInv, Procs, Reads, Writes, semVars, sigVars
<1>4. TypeInv'
  BY <1>1, <1>2, <1>3, PoolAssumption DEF Connect, IInv, TypeInv, sigVars, webVars
<1>5. StopInv'
  BY <1>1 DEF Connect, IInv, StopInv, Runs
<1>. QED  BY <1>2, <1>3, <1>4, <1>5 DEF IInv

LEMMA IInvStep == IInv /\ [Next]_vars => IInv'
<1> SUFFICES ASSUME IInv, [Next]_vars PROVE IInv'
  OBVIOUS
<1>1. ASSUME NEW t \in Threads, WaitAccept(t) PROVE IInv'
  BY <1>1, StepOfWaitAccept
<1>2. ASSUME NEW t \in Threads, WaitMutex(t) PROVE IInv'
  BY <1>2, StepOfWaitMutex
<1>3. ASSUME NEW t \in Threads, CheckRunning(t) PROVE IInv'
  BY <1>3, StepOfCheckRunning
<1>4. ASSUME NEW t \in Threads, AcceptClient(t) PROVE IInv'
  BY <1>4, StepOfAcceptClient
<1>5. ASSUME NEW t \in Threads, AcceptFails(t) PROVE IInv'
  BY <1>5, StepOfAcceptFails
<1>6. ASSUME NEW t \in Threads, WaitRecv(t) PROVE IInv'
  BY <1>6, StepOfWaitRecv
<1>7. ASSUME NEW t \in Threads, RecvRequest(t) PROVE IInv'
  BY <1>7, StepOfRecvRequest
<1>8. ASSUME NEW t \in Threads, Send(t) PROVE IInv'
  BY <1>8, StepOfSend
<1>9. ASSUME NEW t \in Threads, CloseClient(t) PROVE IInv'
  BY <1>9, StepOfCloseClient
<1>10. ASSUME CloserWait PROVE IInv'
  BY <1>10, StepOfCloserWait
<1>11. ASSUME CloserCheck PROVE IInv'
  BY <1>11, StepOfCloserCheck
<1>12. ASSUME CloserShutdown PROVE IInv'
  BY <1>12, StepOfCloserShutdown
<1>13. ASSUME JoinCloser PROVE IInv'
  BY <1>13, StepOfJoinCloser
<1>14. ASSUME JoinThreads PROVE IInv'
  BY <1>14, StepOfJoinThreads
<1>15. ASSUME NEW p \in Procs, Interrupt(p) PROVE IInv'
  BY <1>15, StepOfInterrupt
<1>16. ASSUME NEW p \in Procs, HandlerWait(p) PROVE IInv'
  BY <1>16, StepOfHandlerWait
<1>17. ASSUME NEW p \in Procs, HandlerPost(p) PROVE IInv'
  BY <1>17, StepOfHandlerPost
<1>18. ASSUME NEW c \in Clients, Connect(c) PROVE IInv'
  BY <1>18, StepOfConnect
<1>19. ASSUME UNCHANGED vars PROVE IInv'
  BY <1>19
  DEF vars, semVars, netVars, sigVars, webVars, IInv, TypeInv, AcceptInv, InTurn,
      KeepInv, Reads, Writes, SocketInv, StopInv, ClientInv
<1>. QED
  BY <1>1, <1>2, <1>3, <1>4, <1>5, <1>6, <1>7, <1>8, <1>9, <1>10, <1>11, <1>12, <1>13,
     <1>14, <1>15, <1>16, <1>17, <1>18, <1>19
  DEF Next, Worker, Terminated
-----------------------------------------------------------------------------
(* The invariant about semaphores, the stop and clients holds always.      *)
THEOREM Invariance == Spec => []IInv
BY IInvInit, IInvStep, PTL DEF Spec

(* OneAcceptor (ServerPool): one thread at a time is in accept.            *)
THEOREM AcceptExclusive == Spec => []OneAcceptor
<1>1. IInv => OneAcceptor
  BY DEF IInv, AcceptInv, InTurn, OneAcceptor
<1>. QED  BY <1>1, Invariance, PTL

(* NoWorkerAfterMain (ServerPool): main returns after all workers stopped. *)
THEOREM MainLast == Spec => []NoWorkerAfterMain
<1>1. IInv => NoWorkerAfterMain
  BY DEF IInv, StopInv, ClientInv, NoWorkerAfterMain
<1>. QED  BY <1>1, Invariance, PTL

(* WorkersStay (ServerPool): no worker leaves its loop without a reason.   *)
THEOREM StopsForAReason == Spec => WorkersStay
<1>1. IInv /\ [Next]_vars =>
        [\A t \in Threads : pc[t] # "exit" /\ pc'[t] = "exit"
           => ~keepRunning \/ fds = FdLimit]_vars
  <2> SUFFICES ASSUME IInv, [Next]_vars, NEW t \in Threads,
                      pc[t] # "exit", pc'[t] = "exit"
               PROVE  ~keepRunning \/ fds = FdLimit
    OBVIOUS
  <2>1. PICK s \in Threads : Worker(s)
    BY DEF IInv, TypeInv, Next, vars, Terminated, CloserWait, CloserCheck,
           CloserShutdown, JoinCloser, JoinThreads, Interrupt, HandlerWait,
           HandlerPost, Connect
  <2>2. (CheckRunning(t) /\ ~keepRunning) \/ AcceptFails(t)
    BY <2>1
    DEF IInv, TypeInv, Worker, WaitAccept, WaitMutex, CheckRunning, AcceptClient,
        AcceptFails, WaitRecv, RecvRequest, Send, CloseClient, LoopAgain, Step
  <2>. QED  BY <2>2 DEF AcceptFails, IInv, StopInv
<1>. QED  BY <1>1, Invariance, PTL DEF Spec, WorkersStay
-----------------------------------------------------------------------------
(* Every connection a worker has keeps a descriptor, and so may every file *)
(* that was sent.                                                          *)
Serving == {t \in Threads : client[t] # NoClient}

FdsInv ==
  /\ fds \in 0..FdLimit
  /\ Cardinality(Serving) =< fds

LEMMA ServingFinite ==
  IsFiniteSet(Serving) /\ Cardinality(Serving) \in Nat
<1>1. Serving \subseteq Threads
  BY DEF Serving
<1>2. IsFiniteSet(Threads)
  BY PoolAssumption
<1>3. IsFiniteSet(Serving)
  BY <1>1, <1>2, FS_Subset
<1>. QED  BY <1>3, FS_CardinalityType

LEMMA FdsInit == Init => FdsInv
<1> SUFFICES ASSUME Init PROVE FdsInv
  OBVIOUS
<1>1. Serving = {}
  BY DEF Init, Serving
<1>2. Cardinality(Serving) = 0
  BY <1>1, FS_EmptySet
<1>. QED  BY <1>2, PoolAssumption DEF Init, FdsInv

LEMMA FdsStep == IInv /\ FdsInv /\ [Next]_vars => FdsInv'
<1> SUFFICES ASSUME IInv, FdsInv, [Next]_vars PROVE FdsInv'
  OBVIOUS
<1>1. ASSUME NEW t \in Threads, AcceptClient(t) PROVE FdsInv'
  <2>1. client[t] = NoClient /\ t \in Threads
    BY <1>1 DEF AcceptClient, Step, IInv, ClientInv
  <2>2. Serving' = Serving \cup {t} /\ t \notin Serving
    BY <1>1, <2>1, PoolAssumption DEF AcceptClient, IInv, TypeInv, Serving
  <2>3. Cardinality(Serving') = Cardinality(Serving) + 1
    BY <2>2, ServingFinite, FS_AddElement
  <2>. QED  BY <1>1, <2>3, ServingFinite, PoolAssumption DEF AcceptClient, FdsInv
<1>2. ASSUME NEW t \in Threads, CloseClient(t) PROVE FdsInv'
  <2>1. client[t] # NoClient
    BY <1>2 DEF CloseClient, Step, IInv, ClientInv
  <2>2. Serving' = Serving \ {t} /\ t \in Serving
    BY <1>2, <2>1 DEF CloseClient, IInv, TypeInv, Serving
  <2>3. /\ Cardinality(Serving') = Cardinality(Serving) - 1
        /\ Cardinality(Serving') \in Nat
    BY <2>2, ServingFinite, FS_RemoveElement, FS_CardinalityType
  <2>. QED  BY <1>2, <2>3, ServingFinite, PoolAssumption DEF CloseClient, FdsInv
<1>3. ASSUME NEW t \in Threads, RecvRequest(t) PROVE FdsInv'
  <2>1. Serving' = Serving
    BY <1>3 DEF RecvRequest, Serving
  <2>2. PICK r : \/ FileFound(r) /\ fds < FdLimit /\ fds' = fds + 1
                 \/ UNCHANGED fds
    BY <1>3 DEF RecvRequest
  <2>. QED  BY <2>1, <2>2, ServingFinite, PoolAssumption DEF FdsInv
<1>4. ASSUME UNCHANGED <<fds, client>> PROVE FdsInv'
  BY <1>4 DEF FdsInv, Serving
<1>. QED
  BY <1>1, <1>2, <1>3, <1>4
  DEF Next, Worker, WaitAccept, WaitMutex, CheckRunning, AcceptFails, WaitRecv, Send,
      CloserWait, CloserCheck, CloserShutdown, JoinCloser, JoinThreads, Interrupt,
      HandlerWait, HandlerPost, Connect, Terminated, vars, netVars
-----------------------------------------------------------------------------
(* A worker is sending as long as it has something to send.                *)
IsSequence(s) == s \in Seq(Range(s))

TodoInv ==
  /\ DOMAIN todo = Threads
  /\ \A t \in Threads : IsSequence(todo[t]) /\ (todo[t] # <<>> <=> pc[t] = "send")

LEMMA SequencesAre ==
  ASSUME NEW S, NEW s \in Seq(S)
  PROVE  IsSequence(s)
<1>1. s \in [1..Len(s) -> S] /\ Len(s) \in Nat /\ DOMAIN s = 1..Len(s)
  BY LenProperties
<1>2. s \in [1..Len(s) -> Range(s)]
  BY <1>1 DEF Range
<1>3. Seq(Range(s)) = UNION {[1..n -> Range(s)] : n \in Nat}
  BY SeqDef
<1>. QED  BY <1>1, <1>2, <1>3 DEF IsSequence

LEMMA TailLast ==
  ASSUME NEW s, IsSequence(s), s # <<>>
  PROVE  IsSequence(Tail(s)) /\ (Tail(s) = <<>> <=> Len(s) = 1)
<1>1. s \in Seq(Range(s))
  BY DEF IsSequence
<1>2. Tail(s) \in Seq(Range(s)) /\ Len(Tail(s)) = Len(s) - 1 /\ Len(s) \in Nat
  BY <1>1, HeadTailProperties, LenProperties
<1>3. IsSequence(Tail(s))
  BY <1>2, SequencesAre
<1>4. Tail(s) = <<>> <=> Len(Tail(s)) = 0
  BY <1>2, EmptySeq
<1>. QED  BY <1>2, <1>3, <1>4

(* Every answer has a header.                                              *)
LEMMA ErrorIsSent ==
  ASSUME NEW r, NEW e
  PROVE  IsSequence(ErrorSends(r, e)) /\ ErrorSends(r, e) # <<>>
<1> DEFINE h == [status |-> e, type |-> "txt", length |-> 0,
                 version |-> IF Verdict(r) = "ok" THEN r.version ELSE "HTTP/0.9"]
<1>1. ErrorSends(r, e) = <<h>>
  BY DEF ErrorSends
<1> HIDE DEF h
<1>2. <<h>> \in Seq({h}) /\ <<h>> # <<>>
  OBVIOUS
<1>. QED  BY <1>1, <1>2, SequencesAre

LEMMA BlocksAre ==
  ASSUME NEW path \in DOMAIN Files
  PROVE  IsSequence(Blocks(Files[path]))
<1> DEFINE n == (Len(Files[path]) + BlockLen - 1) \div BlockLen
           b == Blocks(Files[path])
<1>1. n \in Nat
  <2>1. Len(Files[path]) + BlockLen - 1 \in Nat /\ BlockLen \in Nat /\ BlockLen > 0
    BY WebAssumption
  <2>. QED  BY <2>1
<1>2. DOMAIN b = 1..n /\ b \in [1..n -> Range(b)]
  BY DEF Blocks, Range
<1>3. Seq(Range(b)) = UNION {[1..m -> Range(b)] : m \in Nat}
  BY SeqDef
<1>. QED  BY <1>1, <1>2, <1>3 DEF IsSequence

LEMMA FileIsSent ==
  ASSUME NEW r
  PROVE  IsSequence(FileSends(r)) /\ FileSends(r) # <<>>
<1> DEFINE path == Opened(r)
           h == [status |-> "200", type |-> FileType(path), version |-> r.version,
                 length |-> IF path \in DOMAIN Files THEN Len(Files[path]) ELSE -1]
           b == IF path \in DOMAIN Files THEN Blocks(Files[path]) ELSE <<>>
           S == {h} \cup Range(b)
<1>1. FileSends(r) = <<h>> \o b
  BY DEF FileSends
<1>2. IsSequence(b)
  <2>1. CASE path \in DOMAIN Files
    BY <2>1, BlocksAre
  <2>2. CASE path \notin DOMAIN Files
    BY <2>2, EmptySeq DEF IsSequence
  <2>. QED  BY <2>1, <2>2
<1> HIDE DEF h, b
<1>3. b \in Seq(S)
  BY <1>2, SeqMonotonic DEF IsSequence
<1>4. <<h>> \in Seq(S) /\ <<h>> # <<>>
  OBVIOUS
<1>5. <<h>> \o b \in Seq(S) /\ <<h>> \o b # <<>>
  BY <1>3, <1>4, ConcatProperties, ConcatEqualIffEmpty
<1>. QED  BY <1>1, <1>5, SequencesAre

LEMMA TodoInit == Init => TodoInv
<1>1. IsSequence(<<>>)
  BY EmptySeq DEF IsSequence
<1>. QED  BY <1>1 DEF Init, TodoInv

LEMMA TodoStep == IInv /\ TodoInv /\ [Next]_vars => TodoInv'
<1> SUFFICES ASSUME IInv, TodoInv, [Next]_vars PROVE TodoInv'
  OBVIOUS
<1>1. ASSUME NEW t \in Threads, RecvRequest(t) PROVE TodoInv'
  <2>1. /\ pc'[t] = "send" /\ \A s \in Threads : s # t => pc'[s] = pc[s]
    BY <1>1, Moved DEF RecvRequest, IInv, Places
  <2>2. PICK sent : /\ IsSequence(sent) /\ sent # <<>>
                    /\ todo' = [todo EXCEPT ![t] = sent]
    BY <1>1, ErrorIsSent, FileIsSent DEF RecvRequest
  <2>. QED  BY <2>1, <2>2 DEF TodoInv
<1>2. ASSUME NEW t \in Threads, Send(t) PROVE TodoInv'
  <2>1. /\ pc[t] = "send" /\ pc'[t] = IF Len(todo[t]) = 1 THEN "close" ELSE "send"
        /\ \A s \in Threads : s # t => pc'[s] = pc[s]
    BY <1>2 DEF Send, Step, IInv, TypeInv
  <2>2. todo' = [todo EXCEPT ![t] = Tail(todo[t])]
    BY <1>2 DEF Send
  <2>3. IsSequence(Tail(todo[t])) /\ (Tail(todo[t]) = <<>> <=> Len(todo[t]) = 1)
    BY <2>1, TailLast DEF TodoInv
  <2>. QED  BY <2>1, <2>2, <2>3 DEF TodoInv
<1>3. ASSUME todo' = todo, \A t \in Threads : pc'[t] = "send" <=> pc[t] = "send"
      PROVE  TodoInv'
  BY <1>3 DEF TodoInv
<1>4. ASSUME NEW t \in Threads,
             \/ WaitAccept(t) \/ WaitMutex(t) \/ CheckRunning(t) \/ AcceptClient(t)
             \/ AcceptFails(t) \/ WaitRecv(t) \/ CloseClient(t)
      PROVE  TodoInv'
  <2>1. PICK m \in Places, l \in Places : Step(t, l, m) /\ l # "send" /\ m # "send"
    BY <1>4
    DEF WaitAccept, WaitMutex, CheckRunning, AcceptClient, AcceptFails, WaitRecv,
        CloseClient, LoopAgain, Places
  <2>2. \A s \in Threads : pc'[s] = "send" <=> pc[s] = "send"
    BY <2>1, Moved DEF IInv
  <2>3. todo' = todo
    BY <1>4
    DEF WaitAccept, WaitMutex, CheckRunning, AcceptClient, AcceptFails, WaitRecv,
        CloseClient, webVars
  <2>. QED  BY <1>3, <2>2, <2>3
<1>5. ASSUME UNCHANGED <<todo, pc>> PROVE TodoInv'
  BY <1>3, <1>5
<1>. QED
  BY <1>1, <1>2, <1>4, <1>5
  DEF Next, Worker, CloserWait, CloserCheck, CloserShutdown, JoinCloser, JoinThreads,
      Interrupt, HandlerWait, HandlerPost, Connect, Terminated, vars, webVars
-----------------------------------------------------------------------------
(* TypeOK (ServerPool): no semaphore counts beyond one, no descriptor is   *)
(* used beyond the limit, and a worker has something to send when it sends.*)
THEOREM TypeCorrect == Spec => []TypeOK
<1>1. IInv /\ FdsInv /\ TodoInv => TypeOK
  BY DEF IInv, TypeInv, Places, FdsInv, TodoInv, TypeOK
<1>2. Init => FdsInv /\ TodoInv
  BY FdsInit, TodoInit
<1>3. IInv /\ FdsInv /\ TodoInv /\ [Next]_vars => (FdsInv /\ TodoInv)'
  BY FdsStep, TodoStep
<1>. QED  BY <1>1, <1>2, <1>3, Invariance, PTL DEF Spec
-----------------------------------------------------------------------------
(* What the blocks of a file hold: all of it, and then zeros.              *)
LEMMA BlocksMakeTheFile ==
  ASSUME NEW f \in Seq(STRING)
  PROVE  IsPrefix(f, FlattenSeq(Blocks(f)))
<1> DEFINE n == (Len(f) + BlockLen - 1) \div BlockLen
           r == (Len(f) + BlockLen - 1) % BlockLen
           c == [k \in Nat \ {0} |-> IF k <= Len(f) THEN f[k] ELSE Zero]
           cut == [i \in Nat |-> i * BlockLen]
           parts == Blocks(f)
           whole == FlattenSeq(parts)
           S == STRING \cup {Zero}
<1>0. BlockLen \in Nat /\ BlockLen > 0 /\ Len(f) \in Nat
  BY WebAssumption
<1>1. n \in Nat /\ r \in 0..(BlockLen - 1) /\ Len(f) + BlockLen - 1 = BlockLen * n + r
  BY <1>0
<1> HIDE DEF r
<1>2. Len(parts) = n /\ DOMAIN parts = 1..n
  BY <1>1 DEF Blocks
<1> HIDE DEF n
<1>3. n * BlockLen >= Len(f) /\ (n = 0 => Len(f) = 0) /\ n * BlockLen \in Nat
  <2>1. n * BlockLen = BlockLen * n
    BY <1>0, <1>1
  <2>. QED  BY <1>0, <1>1, <2>1
<1>4. ASSUME n # 0 PROVE whole = Piece(c, 0, n * BlockLen)
  <2>1. cut[0] = 0 /\ \A i \in 0..n : cut[i] \in Nat
    BY <1>0, <1>1
  <2>2. ASSUME NEW i \in 1..n
        PROVE  cut[i - 1] =< cut[i] /\ parts[i] = Piece(c, cut[i - 1], cut[i] - cut[i - 1])
    <3>1. /\ cut[i - 1] = (i - 1) * BlockLen /\ cut[i] - cut[i - 1] = BlockLen
          /\ cut[i - 1] \in Nat /\ cut[i] \in Nat
      <4>1. i - 1 \in Nat /\ i \in Nat
        BY <1>1
      <4>2. cut[i - 1] = (i - 1) * BlockLen /\ cut[i] = i * BlockLen
        BY <4>1
      <4>3. i * BlockLen = (i - 1) * BlockLen + BlockLen /\ (i - 1) * BlockLen \in Nat
        BY <1>0, <4>1
      <4> HIDE DEF cut
      <4>. QED  BY <1>0, <4>2, <4>3
    <3>2. parts[i] = [j \in 1..BlockLen |-> LET k == (i - 1) * BlockLen + j
                                           IN  IF k <= Len(f) THEN f[k] ELSE Zero]
      BY <1>1 DEF Blocks, n
    <3> HIDE DEF cut, parts
    <3> DEFINE m == (i - 1) * BlockLen
    <3>3. m \in Nat
      BY <3>1
    <3>4. parts[i] = [j \in 1..BlockLen |-> IF m + j <= Len(f) THEN f[m + j] ELSE Zero]
      BY <3>2
    <3> HIDE DEF m
    <3>5. \A j \in 1..BlockLen : m + j \in Nat \ {0}
      BY <1>0, <3>3
    <3>6. Piece(c, m, BlockLen) = parts[i]
      BY <3>4, <3>5 DEF Piece
    <3>. QED  BY <1>0, <3>1, <3>6 DEF m
  <2>3. cut[n] = n * BlockLen
    BY <1>1
  <2> HIDE DEF cut, parts, c
  <2>4. CutInto(c, cut, parts)
    BY <1>2, <2>1, <2>2 DEF CutInto
  <2>5. Len(parts) \in Nat \ {0}
    BY <1>1, <1>2, <1>4
  <2>. QED  BY <1>2, <2>3, <2>4, <2>5, CutUp
<1>5. CASE n = 0
  <2>1. f = <<>>
    BY <1>3, <1>5, EmptySeq
  <2>2. whole = parts
    BY <1>2, <1>5 DEF FlattenSeq
  <2>3. Len(f) = 0 /\ Len(whole) = 0
    BY <1>2, <1>3, <1>5, <2>2
  <2>4. SubSeq(f, 1, 0) = <<>> /\ SubSeq(whole, 1, 0) = <<>>
    BY SubSeqEmpty
  <2>. QED  BY <2>3, <2>4 DEF IsPrefix
<1>6. CASE n # 0
  <2> DEFINE z == n * BlockLen
  <2>1. z \in Nat /\ z >= Len(f) /\ whole = Piece(c, 0, z)
    BY <1>3, <1>4, <1>6
  <2> HIDE DEF z, whole
  <2>2. \A k \in 1..z : whole[k] = c[0 + k] /\ c[0 + k] \in S
    <3> TAKE k \in 1..z
    <3>1. 0 + k = k /\ k \in Nat \ {0}
      BY <2>1
    <3>2. whole[k] = c[0 + k]
      BY <2>1 DEF Piece
    <3>3. c[k] = IF k <= Len(f) THEN f[k] ELSE Zero
      BY <3>1
    <3>4. k <= Len(f) => f[k] \in STRING
      <4>1. k <= Len(f) => k \in 1..Len(f)
        BY <1>0, <3>1
      <4>. QED  BY <4>1, ElementOfSeq
    <3>. QED  BY <3>1, <3>2, <3>3, <3>4
  <2>3. whole \in [1..z -> S]
    BY <2>1, <2>2 DEF Piece
  <2>4. whole \in Seq(S) /\ Len(whole) = z /\ f \in Seq(S)
    BY <2>1, <2>3, SeqMonotonic
  <2>5. \A k \in 1..Len(f) : whole[k] = f[k]
    <3> TAKE k \in 1..Len(f)
    <3>1. k \in 1..z /\ 0 + k = k /\ k \in Nat \ {0}
      BY <1>0, <2>1
    <3>2. c[k] = f[k]
      BY <3>1
    <3>. QED  BY <2>2, <3>1, <3>2
  <2> DEFINE s == SubSeq(f, 1, Len(f))
             t == SubSeq(whole, 1, Len(f))
  <2>6. /\ s \in Seq(S) /\ Len(s) = Len(f) /\ \A k \in 1..Len(f) : s[k] = f[k]
        /\ t \in Seq(S) /\ Len(t) = Len(f) /\ \A k \in 1..Len(f) : t[k] = whole[k]
    BY <1>0, <2>1, <2>4
  <2> HIDE DEF s, t, c, S
  <2>7. s = t
    BY <2>5, <2>6, SeqEqual
  <2>. QED  BY <1>0, <2>1, <2>4, <2>7 DEF IsPrefix, s, t, whole
<1>. QED  BY <1>5, <1>6

(* Where the file a path names is looked for.                              *)
LEMMA OpenedIsAsked ==
  ASSUME NEW r, r.path \in Seq(STRING) \ {<<>>}, Understood(r.path)
  PROVE  Opened(r) = Asked(r.path)
<1> DEFINE path == r.path
<1>1. path \in Seq(STRING) /\ path # <<>> /\ Len(path) \in Nat /\ Len(path) > 0
  BY EmptySeq
<1> DEFINE S == {"i", "n", "d", "e", "x", ".", "h", "t", "m", "l"}
<1>2. Index \in Seq(S) /\ Len(Index) = 10 /\ Index[1] # "/"
  <2>1. Index \in Seq(S)
    BY DEF Index
  <2>2. Len(Index) = 10
    BY DEF Index
  <2>3. Index[1] # "/"
    BY DEF Index
  <2>. QED  BY <2>1, <2>2, <2>3
<1> HIDE DEF path
<1>3. CASE Last(path) = "/"
  <2>1. Len(path) = 1 /\ path[1] = "/"
    BY <1>3 DEF Understood, Last, path
  <2>2. SubSeq(path, Len(Index) + 1, Len(path)) = <<>>
    BY <1>2, <2>1, SubSeqEmpty
  <2>3. Indexed(path) = Index
    BY <1>2, <1>3, <2>2, ConcatEmptySeq DEF Indexed
  <2>4. Tail(path) = <<>>
    <3>1. Tail(path) \in Seq(STRING) /\ Len(Tail(path)) = 0
      BY <1>1, <2>1, HeadTailProperties
    <3>. QED  BY <3>1, EmptySeq
  <2>5. Asked(path) = Index
    BY <1>2, <1>3, <2>1, <2>4, ConcatEmptySeq DEF Asked
  <2>6. Opened(r) = Index
    BY <1>2, <2>3 DEF Opened, path
  <2>. QED  BY <2>5, <2>6 DEF path
<1>4. CASE Last(path) # "/"
  <2>1. Opened(r) = IF path[1] = "/" THEN Tail(path) ELSE path
    BY <1>4 DEF Opened, Indexed, path
  <2>2. Opened(r) \in Seq(STRING)
    <3>1. Tail(path) \in Seq(STRING)
      BY <1>1, HeadTailProperties
    <3>. QED  BY <1>1, <2>1, <3>1
  <2>3. Asked(path) = (IF path[1] = "/" THEN Tail(path) ELSE path) \o <<>>
    BY <1>4 DEF Asked
  <2>. QED  BY <2>1, <2>2, <2>3, ConcatEmptySeq DEF path
<1>. QED  BY <1>3, <1>4

(* A header before a body.                                                 *)
LEMMA HeaderFirst ==
  ASSUME NEW S, NEW b \in Seq(S), NEW h \in S
  PROVE  (<<h>> \o b)[1] = h /\ Tail(<<h>> \o b) = b
<1> DEFINE a == <<h>> \o b
           d == Tail(a)
<1>1. <<h>> \in Seq(S) /\ Len(<<h>>) = 1 /\ <<h>>[1] = h
  OBVIOUS
<1>2. /\ a \in Seq(S) /\ Len(a) = Len(<<h>>) + Len(b)
      /\ \A i \in 1..(Len(<<h>>) + Len(b)) :
           a[i] = IF i =< Len(<<h>>) THEN <<h>>[i] ELSE b[i - Len(<<h>>)]
  BY <1>1, ConcatProperties, Zenon
<1>3. Len(b) \in Nat /\ Len(a) = Len(b) + 1
  BY <1>1, <1>2
<1> HIDE DEF a
<1>4. a[1] = h /\ a # <<>>
  <2>1. 1 \in 1..(Len(<<h>>) + Len(b)) /\ 1 =< Len(<<h>>)
    BY <1>1, <1>3
  <2>2. a[1] = h
    BY <1>1, <1>2, <2>1
  <2>3. Len(a) # 0
    BY <1>3
  <2>. QED  BY <2>2, <2>3, EmptySeq
<1>5. /\ d \in Seq(S) /\ Len(d) = Len(a) - 1
      /\ \A i \in 1..Len(d) : d[i] = a[i + 1]
  BY <1>2, <1>4, HeadTailProperties
<1>6. ASSUME NEW i \in 1..Len(b) PROVE d[i] = b[i]
  <2>1. /\ i \in 1..Len(d) /\ i + 1 \in 1..(Len(<<h>>) + Len(b))
        /\ ~(i + 1 =< Len(<<h>>)) /\ (i + 1) - Len(<<h>>) = i
    BY <1>1, <1>3, <1>5
  <2>2. d[i] = a[i + 1]
    BY <1>5, <2>1
  <2>3. a[i + 1] = b[(i + 1) - Len(<<h>>)]
    BY <1>2, <2>1
  <2>. QED  BY <2>1, <2>2, <2>3
<1>7. d = b
  <2>1. Len(d) = Len(b)
    BY <1>3, <1>5
  <2> HIDE DEF d
  <2>. QED  BY <1>5, <1>6, <2>1, SeqEqual
<1>. QED  BY <1>4, <1>7 DEF a, d

(* What the checks of parse_req let through.                               *)
LEMMA VerdictIs ==
  ASSUME NEW r
  PROVE  /\ Verdict(r) = "ok" <=>
              /\ r.method = "GET" /\ r.spaced /\ ~HasDotDot(r.path)
              /\ r.version \in {"HTTP/1.0", "HTTP/1.1"}
         /\ Verdict(r) # "200"
BY DEF Verdict

(* The answer to a request whose file is opened.                           *)
LEMMA FileAnswer ==
  ASSUME NEW r, FileFound(r)
  PROVE  LET a == FileSends(r)
         IN  /\ a[1].status = "200" /\ a[1].version = r.version
             /\ Opened(r) \in DOMAIN Files =>
                  /\ a[1].length = Len(Files[Opened(r)])
                  /\ IsPrefix(Files[Opened(r)], FlattenSeq(Tail(a)))
             /\ Opened(r) \notin DOMAIN Files => FlattenSeq(Tail(a)) = <<>>
<1> DEFINE path == Opened(r)
           h == [status |-> "200", type |-> FileType(path), version |-> r.version,
                 length |-> IF path \in DOMAIN Files THEN Len(Files[path]) ELSE -1]
           b == IF path \in DOMAIN Files THEN Blocks(Files[path]) ELSE <<>>
           S == {h} \cup Range(b)
<1>1. FileSends(r) = <<h>> \o b
  BY DEF FileSends
<1>2. IsSequence(b)
  <2>1. CASE path \in DOMAIN Files
    BY <2>1, BlocksAre
  <2>2. CASE path \notin DOMAIN Files
    BY <2>2, EmptySeq DEF IsSequence
  <2>. QED  BY <2>1, <2>2
<1>3. /\ h.status = "200" /\ h.version = r.version
      /\ path \in DOMAIN Files => h.length = Len(Files[path])
  OBVIOUS
<1>4. path \in DOMAIN Files => IsPrefix(Files[path], FlattenSeq(b))
  BY WebAssumption, BlocksMakeTheFile
<1>5. path \notin DOMAIN Files => FlattenSeq(b) = <<>>
  BY EmptySeq DEF FlattenSeq
<1> HIDE DEF h, b
<1>6. b \in Seq(S) /\ h \in S
  BY <1>2, SeqMonotonic DEF IsSequence
<1>7. (<<h>> \o b)[1] = h /\ Tail(<<h>> \o b) = b
  BY <1>6, HeaderFirst
<1>. QED  BY <1>1, <1>3, <1>4, <1>5, <1>7

(* The answer to any other request.                                        *)
LEMMA ErrorAnswer ==
  ASSUME NEW r, NEW e, e # "200"
  PROVE  LET a == ErrorSends(r, e)
         IN  a[1].status # "200" /\ FlattenSeq(Tail(a)) = <<>>
<1> DEFINE h == [status |-> e, type |-> "txt", length |-> 0,
                 version |-> IF Verdict(r) = "ok" THEN r.version ELSE "HTTP/0.9"]
<1>1. ErrorSends(r, e) = <<h>> /\ h.status = e
  BY DEF ErrorSends
<1> HIDE DEF h
<1>2. <<h>>[1] = h /\ Tail(<<h>>) = <<>>
  OBVIOUS
<1>3. FlattenSeq(<<>>) = <<>>
  BY EmptySeq DEF FlattenSeq
<1>. QED  BY <1>1, <1>2, <1>3
-----------------------------------------------------------------------------
(* A connection is in one place: waiting, with one worker, or closed.      *)
PlaceInv ==
  /\ IsFiniteSet(served)
  /\ queue \cap served = {}
  /\ \A t \in Threads : client[t] \notin queue \cup served
  /\ \A s, t \in Threads : client[s] = client[t] /\ client[t] # NoClient => s = t

(* Descriptors that are open or were used for a file and a client.         *)
Used == fds + Cardinality(served)

(* What the client that sends r is to be sent: the file, or the one error  *)
(* there is reason for.                                                    *)
Promised(r, used, a) ==
  /\ r # Silence
  /\ \/ FileFound(r) /\ a = FileSends(r)
     \/ /\ a = ErrorSends(r, IF Verdict(r) = "ok" THEN "404" ELSE Verdict(r))
        /\ FileFound(r) => used >= FdLimit

(* What a client has been sent and what its worker has still to send are   *)
(* together what it is to be sent, once its request has been read.         *)
AnswerOf(c) ==
  /\ c \notin served /\ (\A t \in Threads : client[t] # c) => answer[c] = <<>>
  /\ \A t \in Threads : client[t] = c =>
       /\ pc[t] \in {"waitrecv", "recv"} => answer[c] = <<>>
       /\ pc[t] = "send" => Promised(request[c], Used, answer[c] \o todo[t])
       /\ pc[t] = "close" => Promised(request[c], Used, answer[c])
  /\ c \in served => Promised(request[c], Used, answer[c])

AnswerInv ==
  /\ DOMAIN answer = Clients
  /\ \A c \in Clients : IsSequence(answer[c])
  /\ \A c \in Clients \ Rude : AnswerOf(c)

LEMMA PlaceInit == Init => PlaceInv
BY FS_EmptySet, PoolAssumption DEF Init, PlaceInv

LEMMA PlaceStep == IInv /\ PlaceInv /\ [Next]_vars => PlaceInv'
<1> SUFFICES ASSUME IInv, PlaceInv, [Next]_vars PROVE PlaceInv'
  OBVIOUS
<1>0. /\ client \in [Threads -> Clients \cup {NoClient}]
      /\ queue \subseteq Clients /\ served \subseteq Clients /\ NoClient \notin Clients
  BY PoolAssumption DEF IInv, TypeInv
<1>1. ASSUME NEW t \in Threads, AcceptClient(t) PROVE PlaceInv'
  <2>1. PICK c \in queue : client' = [client EXCEPT ![t] = c] /\ queue' = queue \ {c}
    BY <1>1 DEF AcceptClient
  <2>2. served' = served
    BY <1>1 DEF AcceptClient
  <2>. QED  BY <1>0, <2>1, <2>2 DEF PlaceInv
<1>2. ASSUME NEW t \in Threads, CloseClient(t) PROVE PlaceInv'
  <2>1. client[t] # NoClient
    BY <1>2 DEF CloseClient, Step, IInv, ClientInv
  <2>2. /\ served' = served \cup {client[t]} /\ queue' = queue
        /\ client' = [client EXCEPT ![t] = NoClient]
    BY <1>2 DEF CloseClient
  <2>3. IsFiniteSet(served')
    BY <2>2, FS_AddElement DEF PlaceInv
  <2>. QED  BY <1>0, <2>1, <2>2, <2>3 DEF PlaceInv
<1>3. ASSUME NEW c \in Clients, Connect(c) PROVE PlaceInv'
  BY <1>0, <1>3 DEF Connect, PlaceInv
<1>4. ASSUME UNCHANGED <<queue, served, client>> PROVE PlaceInv'
  BY <1>4 DEF PlaceInv
<1>. QED
  BY <1>1, <1>2, <1>3, <1>4
  DEF Next, Worker, WaitAccept, WaitMutex, CheckRunning, AcceptFails, WaitRecv,
      RecvRequest, Send, CloserWait, CloserCheck, CloserShutdown, JoinCloser,
      JoinThreads, Interrupt, HandlerWait, HandlerPost, Terminated, vars, netVars

(* A client that is closed leaves the descriptor of its file open.         *)
LEMMA UsedGrows ==
  ASSUME IInv, FdsInv, PlaceInv, [Next]_vars
  PROVE  Used \in Nat /\ Used' \in Nat /\ Used' >= Used
<1>0. /\ fds \in Nat /\ Cardinality(served) \in Nat /\ FdLimit \in Nat
      /\ IsFiniteSet(served)
  BY FS_CardinalityType, PoolAssumption, ServingFinite DEF FdsInv, PlaceInv
<1> Used \in Nat
  BY <1>0 DEF Used
<1>1. ASSUME NEW t \in Threads, AcceptClient(t) PROVE Used' \in Nat /\ Used' >= Used
  BY <1>0, <1>1 DEF AcceptClient, Used
<1>2. ASSUME NEW t \in Threads, CloseClient(t) PROVE Used' \in Nat /\ Used' >= Used
  <2>1. client[t] \notin served
    BY DEF PlaceInv
  <2>2. served' = served \cup {client[t]} /\ fds' = fds - 1
    BY <1>2 DEF CloseClient
  <2>3. Cardinality(served') = Cardinality(served) + 1
    BY <1>0, <2>1, <2>2, FS_AddElement
  <2>. QED  BY <1>0, <2>2, <2>3 DEF Used
<1>3. ASSUME NEW t \in Threads, RecvRequest(t) PROVE Used' \in Nat /\ Used' >= Used
  <2>1. served' = served
    BY <1>3 DEF RecvRequest
  <2>2. PICK r : \/ FileFound(r) /\ fds < FdLimit /\ fds' = fds + 1
                 \/ UNCHANGED fds
    BY <1>3 DEF RecvRequest
  <2>. QED  BY <1>0, <2>1, <2>2 DEF Used
<1>4. ASSUME UNCHANGED <<fds, served>> PROVE Used' \in Nat /\ Used' >= Used
  BY <1>4 DEF Used
<1>. QED
  BY <1>1, <1>2, <1>3, <1>4
  DEF Next, Worker, WaitAccept, WaitMutex, CheckRunning, AcceptFails, WaitRecv,
      Send, CloserWait, CloserCheck, CloserShutdown, JoinCloser,
      JoinThreads, Interrupt, HandlerWait, HandlerPost, Connect, Terminated, vars, netVars

(* What is promised stays promised when descriptors run out.               *)
LEMMA PromiseKept ==
  \A r, a : \A m, n \in Nat : m =< n /\ Promised(r, m, a) => Promised(r, n, a)
<1> SUFFICES ASSUME NEW r, NEW a, NEW m \in Nat, NEW n \in Nat, m =< n, Promised(r, m, a)
             PROVE  Promised(r, n, a)
  OBVIOUS
<1>1. m >= FdLimit => n >= FdLimit
  BY PoolAssumption
<1>. QED  BY <1>1 DEF Promised

(* To send an element moves it from one sequence to the other.             *)
LEMMA OneSent ==
  ASSUME NEW a, IsSequence(a), NEW s, IsSequence(s), s # <<>>
  PROVE  /\ Append(a, Head(s)) \o Tail(s) = a \o s
         /\ IsSequence(Append(a, Head(s)))
<1> DEFINE S == Range(a) \cup Range(s)
           x == Head(s)
           d == Tail(s)
           b == Append(a, x)
           u == b \o d
           v == a \o s
<1>1. a \in Seq(S) /\ s \in Seq(S)
  BY SeqMonotonic DEF IsSequence
<1> HIDE DEF S
<1>2. /\ x \in S /\ d \in Seq(S) /\ Len(d) = Len(s) - 1 /\ Len(s) \in Nat /\ Len(a) \in Nat
      /\ \A i \in 1..Len(d) : d[i] = s[i + 1]
  BY <1>1, HeadTailProperties, LenProperties
<1>3. x = s[1]
  BY <1>1
<1> HIDE DEF x, d
<1>4. /\ b \in Seq(S) /\ Len(b) = Len(a) + 1
      /\ \A i \in 1..Len(a) : b[i] = a[i]
      /\ b[Len(a) + 1] = x
  BY <1>1, <1>2, AppendProperties
<1> HIDE DEF b
<1>5. /\ u \in Seq(S) /\ Len(u) = Len(b) + Len(d)
      /\ \A i \in 1..(Len(b) + Len(d)) : u[i] = IF i =< Len(b) THEN b[i] ELSE d[i - Len(b)]
      /\ v \in Seq(S) /\ Len(v) = Len(a) + Len(s)
      /\ \A i \in 1..(Len(a) + Len(s)) : v[i] = IF i =< Len(a) THEN a[i] ELSE s[i - Len(a)]
  BY <1>1, <1>2, <1>4, ConcatProperties, Zenon
<1> HIDE DEF u, v
<1>6. Len(u) = Len(v) /\ Len(v) = Len(a) + Len(s)
  BY <1>2, <1>4, <1>5
<1>7. ASSUME NEW i \in 1..Len(u) PROVE u[i] = v[i]
  <2>1. i \in 1..(Len(b) + Len(d)) /\ i \in 1..(Len(a) + Len(s)) /\ i \in Nat
    BY <1>5, <1>6
  <2>2. CASE i =< Len(a)
    <3>1. i \in 1..Len(a) /\ i =< Len(b)
      BY <1>2, <1>4, <2>1, <2>2
    <3>. QED  BY <1>4, <1>5, <2>1, <2>2, <3>1
  <2>3. CASE i = Len(a) + 1
    <3>1. ~(i =< Len(a)) /\ i - Len(a) = 1 /\ i =< Len(b)
      BY <1>2, <1>4, <2>3
    <3>. QED  BY <1>3, <1>4, <1>5, <2>1, <2>3, <3>1
  <2>4. CASE i > Len(a) + 1
    <3>1. /\ ~(i =< Len(a)) /\ ~(i =< Len(b)) /\ i - Len(b) \in 1..Len(d)
          /\ (i - Len(b)) + 1 = i - Len(a)
      BY <1>2, <1>4, <2>1, <2>4
    <3>2. d[i - Len(b)] = s[(i - Len(b)) + 1]
      BY <1>2, <3>1
    <3>. QED  BY <1>5, <2>1, <3>1, <3>2
  <2>5. i =< Len(a) \/ i = Len(a) + 1 \/ i > Len(a) + 1
    BY <1>2, <2>1
  <2>. QED  BY <2>2, <2>3, <2>4, <2>5
<1>8. u = v
  BY <1>5, <1>6, <1>7, SeqEqual
<1>9. IsSequence(b)
  BY <1>4, SequencesAre
<1>. QED  BY <1>8, <1>9 DEF u, v, b, d, x

LEMMA AnswerInit == Init => AnswerInv
<1>1. IsSequence(<<>>)
  BY EmptySeq DEF IsSequence
<1>. QED  BY <1>1, PoolAssumption DEF Init, AnswerInv, AnswerOf

(* Steps that send nothing and leave clients where they are.               *)
LEMMA AnswerKept ==
  ASSUME AnswerInv, Used \in Nat, Used' \in Nat, Used' >= Used,
         UNCHANGED <<answer, todo, served, client, scenario>>,
         \A t \in Threads : client[t] # NoClient =>
           pc'[t] = pc[t] \/ (pc[t] = "waitrecv" /\ pc'[t] = "recv")
  PROVE  AnswerInv'
<1>1. ASSUME NEW c \in Clients \ Rude PROVE AnswerOf(c)'
  <2>1. AnswerOf(c) /\ c # NoClient /\ request'[c] = request[c]
    BY PoolAssumption DEF AnswerInv, request
  <2>2. \A a : Promised(request[c], Used, a) => Promised(request[c], Used', a)
    BY PromiseKept
  <2>3. \A t \in Threads : client[t] = c =>
          pc'[t] = pc[t] \/ (pc[t] = "waitrecv" /\ pc'[t] = "recv")
    BY <2>1
  <2>. QED  BY <2>1, <2>2, <2>3 DEF AnswerOf
<1>. QED  BY <1>1 DEF AnswerInv

LEMMA AnswerStep ==
  IInv /\ FdsInv /\ TodoInv /\ PlaceInv /\ AnswerInv /\ [Next]_vars => AnswerInv'
<1> SUFFICES ASSUME IInv, FdsInv, TodoInv, PlaceInv, AnswerInv, [Next]_vars
             PROVE  AnswerInv'
  OBVIOUS
<1>0. /\ client \in [Threads -> Clients \cup {NoClient}] /\ NoClient \notin Clients
      /\ queue \subseteq Clients /\ served \subseteq Clients
      /\ pc \in [Threads -> Places]
      /\ \A t \in Threads : pc[t] \in {"start", "mutex", "check", "accept", "exit"}
                              <=> client[t] = NoClient
  BY PoolAssumption DEF IInv, TypeInv, ClientInv
<1>used. Used \in Nat /\ Used' \in Nat /\ Used' >= Used
  BY UsedGrows
<1>kept. \A r, a : Promised(r, Used, a) => Promised(r, Used', a)
  BY <1>used, PromiseKept
<1>1. ASSUME NEW t \in Threads, WaitAccept(t) \/ WaitMutex(t) \/ CheckRunning(t) \/ AcceptFails(t)
      PROVE  AnswerInv'
  <2>1. PICK l, m : /\ Step(t, l, m) /\ l \in {"start", "mutex", "check", "accept"}
                    /\ UNCHANGED <<answer, todo, served, client, scenario>>
    BY <1>1
    DEF WaitAccept, WaitMutex, CheckRunning, AcceptFails, netVars, webVars
  <2>2. \A s \in Threads : client[s] # NoClient => pc'[s] = pc[s]
    BY <1>0, <2>1 DEF Step
  <2>. QED  BY <1>used, <2>1, <2>2, AnswerKept
<1>2. ASSUME NEW t \in Threads, WaitRecv(t) PROVE AnswerInv'
  <2>1. /\ Step(t, "waitrecv", "recv")
        /\ UNCHANGED <<answer, todo, served, client, scenario>>
    BY <1>2 DEF WaitRecv, netVars, webVars
  <2>2. \A s \in Threads : client[s] # NoClient =>
          pc'[s] = pc[s] \/ (pc[s] = "waitrecv" /\ pc'[s] = "recv")
    BY <1>0, <2>1 DEF Step
  <2>. QED  BY <1>used, <2>1, <2>2, AnswerKept
<1>3. ASSUME UNCHANGED <<answer, todo, served, client, scenario, pc>> PROVE AnswerInv'
  <2>1. \A s \in Threads : client[s] # NoClient => pc'[s] = pc[s]
    BY <1>3
  <2>. QED  BY <1>used, <1>3, <2>1, AnswerKept
<1>4. ASSUME NEW t \in Threads, AcceptClient(t) PROVE AnswerInv'
  <2>1. PICK q \in queue : client' = [client EXCEPT ![t] = q]
    BY <1>4 DEF AcceptClient
  <2>2. /\ UNCHANGED <<answer, todo, served, scenario>>
        /\ pc' = [pc EXCEPT ![t] = "waitrecv"] /\ pc[t] = "accept"
    BY <1>4 DEF AcceptClient, Step, webVars
  <2>3. /\ client'[t] = q /\ pc'[t] = "waitrecv" /\ client[t] = NoClient
        /\ \A s \in Threads : s # t => client'[s] = client[s] /\ pc'[s] = pc[s]
    BY <1>0, <2>1, <2>2
  <2>4. q \notin served /\ \A s \in Threads : client[s] # q
    BY DEF PlaceInv
  <2>5. ASSUME NEW c \in Clients \ Rude PROVE AnswerOf(c)'
    <3>1. AnswerOf(c) /\ c # NoClient /\ request' = request
      BY <1>0, <2>2 DEF AnswerInv, request
    <3>2. answer' = answer /\ served' = served /\ todo' = todo
      BY <2>2
    <3>3. c = q => answer[c] = <<>>
      BY <2>4, <3>1 DEF AnswerOf
    <3>4. (c \notin served /\ (\A s \in Threads : client'[s] # c)) => answer[c] = <<>>
      BY <2>3, <3>1 DEF AnswerOf
    <3>. QED  BY <1>kept, <2>3, <3>1, <3>2, <3>3, <3>4 DEF AnswerOf
  <2>. QED  BY <2>2, <2>5 DEF AnswerInv
<1>5. ASSUME NEW t \in Threads, RecvRequest(t) PROVE AnswerInv'
  <2>1. /\ UNCHANGED <<answer, served, client, scenario>>
        /\ pc' = [pc EXCEPT ![t] = "send"] /\ pc[t] = "recv"
    BY <1>5 DEF RecvRequest, Step
  <2>2. PICK r \in ({request[client[t]]} \cup (IF client[t] \in Rude THEN {Empty} ELSE {}))
                     \ {Silence} :
          \/ FileFound(r) /\ todo' = [todo EXCEPT ![t] = FileSends(r)]
          \/ /\ ~(FileFound(r) /\ fds < FdLimit)
             /\ todo' = [todo EXCEPT ![t] =
                  ErrorSends(r, IF Verdict(r) = "ok" THEN "404" ELSE Verdict(r))]
    BY <1>5 DEF RecvRequest
  <2>3. \/ FileFound(r) /\ todo'[t] = FileSends(r)
        \/ /\ ~(FileFound(r) /\ fds < FdLimit)
           /\ todo'[t] = ErrorSends(r, IF Verdict(r) = "ok" THEN "404" ELSE Verdict(r))
    BY <2>2 DEF TodoInv
  <2>4. \A s \in Threads : s # t => todo'[s] = todo[s] /\ pc'[s] = pc[s]
    BY <1>0, <2>1, <2>2 DEF TodoInv
  <2>5. IsSequence(todo'[t])
    BY <2>3, ErrorIsSent, FileIsSent
  <2>6. pc'[t] = "send"
    BY <1>0, <2>1
  <2>7. ~(fds < FdLimit) => Used >= FdLimit
    <3>1. /\ fds \in Nat /\ FdLimit \in Nat /\ Cardinality(served) \in Nat
      BY PoolAssumption, ServingFinite, FS_CardinalityType DEF FdsInv, PlaceInv
    <3>. QED  BY <3>1 DEF Used
  <2>8. ASSUME NEW c \in Clients \ Rude PROVE AnswerOf(c)'
    <3>1. AnswerOf(c) /\ request' = request
      BY <2>1 DEF AnswerInv, request
    <3>2. answer' = answer /\ served' = served /\ client' = client
      BY <2>1
    <3>3. ASSUME client[t] = c PROVE Promised(request[c], Used', answer[c] \o todo'[t])
      <4>1. r = request[c] /\ r # Silence
        BY <2>2, <3>3
      <4>2. Promised(request[c], Used, todo'[t])
        BY <2>3, <2>7, <4>1 DEF Promised
      <4>3. answer[c] = <<>>
        BY <2>1, <3>1, <3>3 DEF AnswerOf
      <4>4. <<>> \o todo'[t] = todo'[t]
        BY <2>5, ConcatEmptySeq DEF IsSequence
      <4>. QED  BY <1>kept, <4>2, <4>3, <4>4
    <3>. QED  BY <1>kept, <2>4, <2>6, <3>1, <3>2, <3>3 DEF AnswerOf
  <2>. QED  BY <2>1, <2>8 DEF AnswerInv
<1>6. ASSUME NEW t \in Threads, Send(t) PROVE AnswerInv'
  <2> DEFINE k == client[t]
  <2>1. /\ UNCHANGED <<served, client, scenario>>
        /\ pc' = [pc EXCEPT ![t] = IF Len(todo[t]) = 1 THEN "close" ELSE "send"]
        /\ pc[t] = "send"
        /\ todo' = [todo EXCEPT ![t] = Tail(todo[t])]
        /\ answer' = [answer EXCEPT ![k] = Append(answer[k], Head(todo[t]))]
    BY <1>6 DEF Send, Step, netVars
  <2>2. k \in Clients
    BY <1>0, <2>1
  <2>3. /\ IsSequence(todo[t]) /\ todo[t] # <<>> /\ IsSequence(answer[k])
        /\ DOMAIN answer = Clients /\ DOMAIN todo = Threads
    BY <2>1, <2>2 DEF TodoInv, AnswerInv
  <2>4. /\ answer'[k] = Append(answer[k], Head(todo[t])) /\ todo'[t] = Tail(todo[t])
        /\ \A c \in Clients : c # k => answer'[c] = answer[c]
        /\ \A s \in Threads : s # t => todo'[s] = todo[s] /\ pc'[s] = pc[s]
        /\ pc'[t] = IF Len(todo[t]) = 1 THEN "close" ELSE "send"
        /\ DOMAIN answer' = Clients
    BY <1>0, <2>1, <2>2, <2>3
  <2>5. answer'[k] \o todo'[t] = answer[k] \o todo[t] /\ IsSequence(answer'[k])
    <3>1. /\ Append(answer[k], Head(todo[t])) \o Tail(todo[t]) = answer[k] \o todo[t]
          /\ IsSequence(Append(answer[k], Head(todo[t])))
      BY <2>3, OneSent, Zenon
    <3>. QED  BY <2>4, <3>1
  <2>6. /\ IsSequence(todo'[t]) /\ (todo'[t] = <<>> <=> Len(todo[t]) = 1)
    BY <2>3, <2>4, TailLast
  <2>7. \A c \in Clients : IsSequence(answer'[c])
    BY <2>4, <2>5 DEF AnswerInv
  <2>8. k \notin served /\ \A s \in Threads : client[s] = k => s = t
    BY <1>0, <2>2 DEF PlaceInv
  <2>9. ASSUME NEW c \in Clients \ Rude PROVE AnswerOf(c)'
    <3>1. AnswerOf(c) /\ request' = request /\ served' = served /\ client' = client
      BY <2>1 DEF AnswerInv, request
    <3>2. CASE c # k
      <4>1. answer'[c] = answer[c]
        BY <2>4, <3>2
      <4>2. \A s \in Threads : client[s] = c => todo'[s] = todo[s] /\ pc'[s] = pc[s]
        BY <2>4, <3>2
      <4>. QED  BY <1>kept, <3>1, <4>1, <4>2 DEF AnswerOf
    <3>3. CASE c = k
      <4>1. Promised(request[c], Used', answer[c] \o todo[t])
        BY <1>kept, <2>1, <3>1, <3>3 DEF AnswerOf
      <4>2. Promised(request[c], Used', answer'[c] \o todo'[t])
        BY <2>5, <3>3, <4>1
      <4>3. pc'[t] = "close" => answer'[c] \o todo'[t] = answer'[c]
        <5>1. pc'[t] = "close" => todo'[t] = <<>>
          BY <2>4, <2>6
        <5>2. answer'[c] \o <<>> = answer'[c]
          BY <2>7, ConcatEmptySeq DEF IsSequence
        <5>. QED  BY <5>1, <5>2
      <4>4. pc'[t] \in {"close", "send"}
        BY <2>4
      <4>5. c \notin served /\ \A s \in Threads : client[s] = c => s = t
        BY <2>8, <3>3
      <4>6. client[t] = c
        BY <3>3
      <4>. QED  BY <3>1, <4>2, <4>3, <4>4, <4>5, <4>6 DEF AnswerOf
    <3>. QED  BY <3>2, <3>3
  <2>. QED  BY <2>4, <2>7, <2>9 DEF AnswerInv
<1>7. ASSUME NEW t \in Threads, CloseClient(t) PROVE AnswerInv'
  <2>1. /\ UNCHANGED <<answer, todo, scenario>>
        /\ pc' = [pc EXCEPT ![t] = "start"] /\ pc[t] = "close"
        /\ client' = [client EXCEPT ![t] = NoClient]
        /\ served' = served \cup {client[t]}
    BY <1>7 DEF CloseClient, Step, LoopAgain, webVars
  <2>2. /\ client'[t] = NoClient
        /\ \A s \in Threads : s # t => client'[s] = client[s] /\ pc'[s] = pc[s]
    BY <1>0, <2>1
  <2>3. ASSUME NEW c \in Clients \ Rude PROVE AnswerOf(c)'
    <3>1. AnswerOf(c) /\ request' = request /\ answer' = answer /\ todo' = todo
          /\ c # NoClient
      BY <1>0, <2>1 DEF AnswerInv, request
    <3>2. c \in served' => Promised(request[c], Used', answer[c])
      BY <1>kept, <2>1, <3>1 DEF AnswerOf
    <3>3. c \notin served' /\ (\A s \in Threads : client'[s] # c) => answer[c] = <<>>
      BY <2>1, <2>2, <3>1 DEF AnswerOf
    <3>4. \A s \in Threads : client'[s] = c => client[s] = c /\ pc'[s] = pc[s]
      BY <2>2, <3>1
    <3>. QED  BY <1>kept, <3>1, <3>2, <3>3, <3>4 DEF AnswerOf
  <2>. QED  BY <2>1, <2>3 DEF AnswerInv
<1>. QED
  BY <1>1, <1>2, <1>3, <1>4, <1>5, <1>6, <1>7
  DEF Next, Worker, CloserWait, CloserCheck, CloserShutdown, JoinCloser, JoinThreads,
      Interrupt, HandlerWait, HandlerPost, Connect, Terminated, vars, webVars, netVars

(* AnswersRight (ServerPool): a client that waits for its answer gets one  *)
(* header and the whole of the file it asked for, whatever other workers   *)
(* send meanwhile, and one error only if there is reason for it.           *)
THEOREM AnsweredRight == Spec => []AnswersRight
<1>1. TypeInv /\ AnswerInv => AnswersRight
  <2> SUFFICES ASSUME TypeInv, AnswerInv, NEW c \in served \ Rude,
                      Understood(request[c].path)
               PROVE  LET r == request[c]
                          header == answer[c][1]
                          body == FlattenSeq(Tail(answer[c]))
                          legal == /\ r.method = "GET" /\ r.spaced /\ ~HasDotDot(r.path)
                                   /\ r.version \in {"HTTP/1.0", "HTTP/1.1"}
                      IN \/ /\ legal /\ Asked(r.path) \in DOMAIN Files
                            /\ header.status = "200" /\ header.version = r.version
                            /\ header.length = Len(Files[Asked(r.path)])
                            /\ IsPrefix(Files[Asked(r.path)], body)
                         \/ /\ legal /\ Asked(r.path) \in Folders
                            /\ header.status = "200" /\ body = <<>>
                         \/ /\ header.status # "200" /\ body = <<>>
                            /\ legal /\ Asked(r.path) \in DOMAIN Files \cup Folders
                                 => fds + Cardinality(served) >= FdLimit
    BY Zenon DEF AnswersRight
  <2> DEFINE r == request[c]
             a == answer[c]
  <2>1. c \in Clients \ Rude /\ scenario \in Scenarios
    BY DEF TypeInv
  <2>2. Promised(r, Used, a)
    BY <2>1 DEF AnswerInv, AnswerOf
  <2>3. r.path \in Seq(STRING) \ {<<>>}
    BY <2>1, <2>2, PoolAssumption DEF Promised, request
  <2> HIDE DEF r, a
  <2>4. Opened(r) = Asked(r.path)
    BY <2>3, OpenedIsAsked DEF r
  <2>5. Verdict(r) = "ok" <=>
          /\ r.method = "GET" /\ r.spaced /\ ~HasDotDot(r.path)
          /\ r.version \in {"HTTP/1.0", "HTTP/1.1"}
    BY VerdictIs
  <2>6. CASE FileFound(r) /\ a = FileSends(r)
    <3>1. Verdict(r) = "ok" /\ Opened(r) \in DOMAIN Files \cup Folders
      BY <2>6 DEF FileFound
    <3>2. /\ a[1].status = "200" /\ a[1].version = r.version
          /\ Opened(r) \in DOMAIN Files =>
               /\ a[1].length = Len(Files[Opened(r)])
               /\ IsPrefix(Files[Opened(r)], FlattenSeq(Tail(a)))
          /\ Opened(r) \notin DOMAIN Files => FlattenSeq(Tail(a)) = <<>>
      BY <2>6, FileAnswer
    <3>. QED  BY <2>4, <2>5, <3>1, <3>2 DEF r, a
  <2>7. CASE /\ a = ErrorSends(r, IF Verdict(r) = "ok" THEN "404" ELSE Verdict(r))
             /\ FileFound(r) => Used >= FdLimit
    <3> DEFINE e == IF Verdict(r) = "ok" THEN "404" ELSE Verdict(r)
    <3>1. e # "200"
      BY VerdictIs
    <3> HIDE DEF e
    <3>2. a[1].status # "200" /\ FlattenSeq(Tail(a)) = <<>>
      BY <2>7, <3>1, ErrorAnswer DEF e
    <3>3. Verdict(r) = "ok" /\ Opened(r) \in DOMAIN Files \cup Folders
            => fds + Cardinality(served) >= FdLimit
      BY <2>7 DEF FileFound, Used
    <3>. QED  BY <2>4, <2>5, <3>2, <3>3 DEF r, a
  <2>. QED  BY <2>2, <2>6, <2>7 DEF Promised
<1>2. IInv => TypeInv
  BY DEF IInv
<1>3. Init => FdsInv /\ TodoInv /\ PlaceInv /\ AnswerInv
  BY FdsInit, TodoInit, PlaceInit, AnswerInit
<1>4. IInv /\ FdsInv /\ TodoInv /\ PlaceInv /\ AnswerInv /\ [Next]_vars
        => (FdsInv /\ TodoInv /\ PlaceInv /\ AnswerInv)'
  BY FdsStep, TodoStep, PlaceStep, AnswerStep
<1>. QED  BY <1>1, <1>2, <1>3, <1>4, Invariance, PTL DEF Spec
=============================================================================
