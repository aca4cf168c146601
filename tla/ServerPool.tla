----------------------------- MODULE ServerPool -----------------------------
(***************************************************************************)
(* The thread pool of the TCP web server (src/2_PA/web_serv/tcp_serv.c),   *)
(* reused with other request handlers by the proxy (src/3_PA) and the file *)
(* server (src/4_PA/df_server): worker threads take turns at accept, all   *)
(* socket calls are made holding one semaphore, and SIGINT asks a closer   *)
(* thread to shut the listening socket so that the workers stop.           *)
(*                                                                         *)
(* SIGINT goes to the main thread, or, while that one is running the       *)
(* handler and so has the signal masked, to any other thread.  The handler *)
(* suspends the thread it runs on.                                         *)
(*                                                                         *)
(* The requests and their answers are those of the web server: WebRequest. *)
(***************************************************************************)
EXTENDS WebRequest

CONSTANTS
  Threads,      \* the connection_handler threads
  Clients,      \* each connects at most once
  Scenarios,    \* [request, signals]: what each client sends, a request or
                \* Silence, and, as a bound, how many SIGINTs come
  Rude,         \* the clients that may close before they are answered
  FdLimit,      \* descriptors the process may have open for connections
  NoClient, Silence

ASSUME PoolAssumption ==
  /\ IsFiniteSet(Threads)
  /\ Threads # {} /\ "main" \notin Threads /\ "closer" \notin Threads
  /\ Rude \subseteq Clients
  /\ \A s \in Scenarios : s.signals \in Nat /\ \A c \in Clients :
       s.request[c] # Silence =>
         /\ DOMAIN s.request[c] = DOMAIN Empty
         /\ s.request[c].path \in Seq(STRING) \ {<<>>}
  /\ NoClient \notin Clients
  /\ FdLimit \in Nat

VARIABLES
  acceptSem,    \* accept_sem
  keepMut,      \* keep_running_mut
  socketSem,    \* socket_sem
  keepRunning,  \* keep_running
  listening,    \* shutdown has not been called on socket_desc
  queue,        \* the clients whose connections wait to be accepted
  served,       \* the clients whose connection has been closed
  fds,          \* descriptors open, apart from the listening socket
  pc,           \* where each worker is
  client,       \* client_sock
  scenario,     \* the scenario: never changed
  todo,         \* what handle_get has still to send
  answer,       \* what has been sent to each client
  closer,       \* where socket_closer is
  main,         \* where main is
  handler,      \* where sig_handler is on each thread, if it runs there
  signals,      \* SIGINTs delivered
  killed        \* the process was ended by SIGPIPE

semVars == <<acceptSem, keepMut, socketSem>>
netVars == <<listening, queue, served, fds>>
sigVars == <<handler, signals>>
webVars == <<scenario, todo, answer>>
vars == <<semVars, netVars, sigVars, webVars, keepRunning, pc, client, closer, main, killed>>

request == scenario.request

Procs == Threads \cup {"main", "closer"}

Init ==
  /\ acceptSem = 1 /\ keepMut = 1 /\ socketSem = 1
  /\ keepRunning = TRUE
  /\ listening = TRUE
  /\ queue = {} /\ served = {} /\ fds = 0
  /\ pc = [t \in Threads |-> "start"]
  /\ client = [t \in Threads |-> NoClient]
  /\ scenario \in Scenarios
  /\ todo = [t \in Threads |-> <<>>]
  /\ answer = [c \in Clients |-> <<>>]
  /\ closer = "start"
  /\ main = "joincloser"
  /\ handler = [p \in Procs |-> "no"]
  /\ signals = 0
  /\ killed = FALSE

(* The process exists and no signal handler is running on p.               *)
Runs(p) == ~killed /\ main # "exited" /\ handler[p] = "no"

(* Worker t, which is at l, goes to m.                                     *)
Step(t, l, m) == Runs(t) /\ pc[t] = l /\ pc' = [pc EXCEPT ![t] = m]
-----------------------------------------------------------------------------
(* connection_handler                                                      *)

WaitAccept(t) ==
  /\ Step(t, "start", "mutex")
  /\ acceptSem > 0
  /\ acceptSem' = acceptSem - 1
  /\ UNCHANGED <<keepMut, socketSem, netVars, sigVars, webVars, keepRunning,
                 client, closer, main, killed>>

WaitMutex(t) ==
  /\ Step(t, "mutex", "check")
  /\ keepMut > 0
  /\ keepMut' = keepMut - 1
  /\ UNCHANGED <<acceptSem, socketSem, netVars, sigVars, webVars, keepRunning,
                 client, closer, main, killed>>

CheckUnlocked(t) ==     \* fault: accept_sem is posted before accept
  /\ \/ keepRunning /\ Step(t, "check", "accept")
     \/ ~keepRunning /\ Step(t, "check", "exit")
  /\ acceptSem' = acceptSem + 1
  /\ keepMut' = keepMut + 1
  /\ UNCHANGED <<socketSem, netVars, sigVars, webVars, keepRunning, client,
                 closer, main, killed>>

(* Both semaphores are released when the thread is to stop, and only the   *)
(* mutex when it goes on to accept.                                        *)
CheckRunning(t) ==
  /\ \/ keepRunning /\ Step(t, "check", "accept") /\ UNCHANGED acceptSem
     \/ ~keepRunning /\ Step(t, "check", "exit") /\ acceptSem' = acceptSem + 1
  /\ keepMut' = keepMut + 1
  /\ UNCHANGED <<socketSem, netVars, sigVars, webVars, keepRunning, client,
                 closer, main, killed>>

AcceptClient(t) ==
  /\ Step(t, "accept", "waitrecv")
  /\ listening /\ fds < FdLimit
  /\ \E c \in queue :
       /\ client' = [client EXCEPT ![t] = c]
       /\ queue' = queue \ {c}
  /\ fds' = fds + 1
  /\ acceptSem' = acceptSem + 1
  /\ UNCHANGED <<keepMut, socketSem, listening, served, sigVars, webVars,
                 keepRunning, closer, main, killed>>

(* accept returns -1 when the socket has been shut down, and when there is *)
(* no descriptor for the connection: the worker stops in either case.      *)
AcceptFails(t) ==
  /\ Step(t, "accept", "exit")
  /\ ~listening \/ fds = FdLimit
  /\ acceptSem' = acceptSem + 1
  /\ UNCHANGED <<keepMut, socketSem, netVars, sigVars, webVars, keepRunning,
                 client, closer, main, killed>>

WaitRecv(t) ==
  /\ Step(t, "waitrecv", "recv")
  /\ socketSem > 0
  /\ socketSem' = socketSem - 1
  /\ UNCHANGED <<acceptSem, keepMut, netVars, sigVars, webVars, keepRunning,
                 client, closer, main, killed>>

NoPost == UNCHANGED socketSem      \* fault: the semaphore is kept

PostSocket == socketSem' = socketSem + 1

(* recv has no timeout: it returns when the client sends or closes.  The   *)
(* file is opened, and what is to be sent is known.  Its descriptor is     *)
(* never closed; without one the file is not found.                        *)
RecvRequest(t) ==
  LET c == client[t]
      received == {request[c]} \cup (IF c \in Rude THEN {Empty} ELSE {})
  IN
  /\ Step(t, "recv", "send")
  /\ PostSocket
  /\ \E r \in received \ {Silence} :
       \/ /\ FileFound(r) /\ fds < FdLimit
          /\ fds' = fds + 1
          /\ todo' = [todo EXCEPT ![t] = FileSends(r)]
       \/ /\ ~(FileFound(r) /\ fds < FdLimit)
          /\ todo' = [todo EXCEPT ![t] =
               ErrorSends(r, IF Verdict(r) = "ok" THEN "404" ELSE Verdict(r))]
          /\ UNCHANGED fds
  /\ UNCHANGED <<acceptSem, keepMut, listening, queue, served, scenario, answer,
                 sigVars, keepRunning, client, closer, main, killed>>

(* Every send takes the socket semaphore.  The second one to a client that *)
(* is gone raises SIGPIPE, which ends the process.                         *)
Send(t) ==
  LET c == client[t] IN
  /\ socketSem > 0
  /\ Step(t, "send", IF Len(todo[t]) = 1 THEN "close" ELSE "send")
  /\ todo' = [todo EXCEPT ![t] = Tail(@)]
  /\ answer' = [answer EXCEPT ![c] = Append(@, Head(todo[t]))]
  /\ \/ UNCHANGED killed
     \/ c \in Rude /\ answer[c] # <<>> /\ killed' = TRUE
  /\ UNCHANGED <<semVars, netVars, scenario, sigVars, keepRunning, client,
                 closer, main>>

LeaveLoop == "exit"                \* fault: one client per worker

LoopAgain == "start"

CloseClient(t) ==
  /\ Step(t, "close", LoopAgain)
  /\ served' = served \cup {client[t]}
  /\ client' = [client EXCEPT ![t] = NoClient]
  /\ fds' = fds - 1
  /\ UNCHANGED <<semVars, listening, queue, sigVars, webVars, keepRunning,
                 closer, main, killed>>

Worker(t) ==
  \/ WaitAccept(t) \/ WaitMutex(t) \/ CheckRunning(t) \/ AcceptClient(t)
  \/ AcceptFails(t) \/ WaitRecv(t) \/ RecvRequest(t) \/ Send(t) \/ CloseClient(t)
-----------------------------------------------------------------------------
(* socket_closer polls keep_running, then shuts the listening socket.      *)

CloserWait ==
  /\ Runs("closer") /\ closer = "start"
  /\ keepMut > 0
  /\ keepMut' = keepMut - 1
  /\ closer' = "check"
  /\ UNCHANGED <<acceptSem, socketSem, netVars, sigVars, webVars, keepRunning,
                 pc, client, main, killed>>

CloserCheck ==
  /\ Runs("closer") /\ closer = "check"
  /\ keepMut' = keepMut + 1
  /\ closer' = IF keepRunning THEN "start" ELSE "shutdown"
  /\ UNCHANGED <<acceptSem, socketSem, netVars, sigVars, webVars, keepRunning,
                 pc, client, main, killed>>

KeepListening == UNCHANGED listening   \* fault: shutdown is not called

ShutdownSocket == listening' = FALSE

CloserShutdown ==
  /\ Runs("closer") /\ closer = "shutdown"
  /\ ShutdownSocket
  /\ closer' = "exit"
  /\ UNCHANGED <<semVars, queue, served, fds, sigVars, webVars, keepRunning, pc,
                 client, main, killed>>
-----------------------------------------------------------------------------
(* main joins the closer and then every worker, and returns.               *)

JoinCloser ==
  /\ Runs("main") /\ main = "joincloser"
  /\ closer = "exit"
  /\ main' = "join"
  /\ UNCHANGED <<semVars, netVars, sigVars, webVars, keepRunning, pc, client,
                 closer, killed>>

SomeJoined == \E t \in Threads : pc[t] = "exit"   \* fault: one thread joined

AllJoined == \A t \in Threads : pc[t] = "exit"

JoinThreads ==
  /\ Runs("main") /\ main = "join"
  /\ AllJoined
  /\ main' = "exited"
  /\ UNCHANGED <<semVars, netVars, sigVars, webVars, keepRunning, pc, client,
                 closer, killed>>
-----------------------------------------------------------------------------
(* sig_handler, on the thread the signal is delivered to.                  *)

Exited(p) ==
  \/ p \in Threads /\ pc[p] = "exit"
  \/ p = "closer" /\ closer = "exit"

Interrupt(p) ==
  /\ Runs(p) /\ ~Exited(p)
  /\ signals < scenario.signals
  /\ p = "main" \/ handler["main"] # "no"
  /\ signals' = signals + 1
  /\ handler' = [handler EXCEPT ![p] = "wait"]
  /\ UNCHANGED <<semVars, netVars, webVars, keepRunning, pc, client, closer,
                 main, killed>>

HandlerWait(p) ==
  /\ ~killed /\ main # "exited" /\ handler[p] = "wait"
  /\ keepMut > 0
  /\ keepMut' = keepMut - 1
  /\ handler' = [handler EXCEPT ![p] = "held"]
  /\ UNCHANGED <<acceptSem, socketSem, netVars, webVars, signals, keepRunning,
                 pc, client, closer, main, killed>>

HandlerPost(p) ==
  /\ ~killed /\ main # "exited" /\ handler[p] = "held"
  /\ keepRunning' = FALSE
  /\ keepMut' = keepMut + 1
  /\ handler' = [handler EXCEPT ![p] = "no"]
  /\ UNCHANGED <<acceptSem, socketSem, netVars, webVars, signals, pc, client,
                 closer, main, killed>>
-----------------------------------------------------------------------------
Connect(c) ==
  /\ ~killed /\ main # "exited" /\ listening
  /\ c \notin queue \cup served
  /\ \A t \in Threads : client[t] # c
  /\ queue' = queue \cup {c}
  /\ UNCHANGED <<semVars, listening, served, fds, sigVars, webVars, keepRunning,
                 pc, client, closer, main, killed>>

(* The process has ended.                                                  *)
Terminated == (killed \/ main = "exited") /\ UNCHANGED vars

Next ==
  \/ \E t \in Threads : Worker(t)
  \/ CloserWait \/ CloserCheck \/ CloserShutdown
  \/ JoinCloser \/ JoinThreads
  \/ \E p \in Procs : Interrupt(p) \/ HandlerWait(p) \/ HandlerPost(p)
  \/ \E c \in Clients : Connect(c)
  \/ Terminated

Spec == Init /\ [][Next]_vars

Closer == CloserWait \/ CloserCheck \/ CloserShutdown
Main == JoinCloser \/ JoinThreads
Handler(p) == HandlerWait(p) \/ HandlerPost(p)

(* Every thread is scheduled, a client that is not silent sends its        *)
(* request, and a thread blocked in sem_wait is not overtaken for ever:    *)
(* the closer and the other workers take and give each semaphore again and *)
(* again, so weak fairness would not let it in.                            *)
Fairness ==
  /\ \A t \in Threads : SF_vars(Worker(t))
  /\ SF_vars(Closer)
  /\ WF_vars(Main)
  /\ \A p \in Procs : SF_vars(Handler(p))

FairSpec == Spec /\ Fairness
-----------------------------------------------------------------------------
(* Every variable has its type: each semaphore is a binary one.            *)
TypeOK ==
  /\ acceptSem \in {0, 1} /\ keepMut \in {0, 1} /\ socketSem \in {0, 1}
  /\ keepRunning \in BOOLEAN
  /\ listening \in BOOLEAN
  /\ queue \subseteq Clients /\ served \subseteq Clients
  /\ fds \in 0..FdLimit
  /\ pc \in [Threads -> {"start", "mutex", "check", "accept", "waitrecv", "recv",
                         "send", "close", "exit"}]
  /\ client \in [Threads -> Clients \cup {NoClient}]
  /\ scenario \in Scenarios
  /\ \A t \in Threads : todo[t] # <<>> <=> pc[t] = "send"
  /\ closer \in {"start", "check", "shutdown", "exit"}
  /\ main \in {"joincloser", "join", "exited"}
  /\ handler \in [Procs -> {"no", "wait", "held"}]
  /\ signals \in 0..scenario.signals
  /\ killed \in BOOLEAN

(* "ONE THREAD ACCEPTS AT A TIME"; and the flag is read and written by one *)
(* thread at a time, whether in its own code or in the signal handler.     *)
OneAcceptor ==
  \A s, t \in Threads : pc[s] = "accept" /\ pc[t] = "accept" => s = t

(* main returns, and frees what the workers use, after the last of them    *)
(* has left its loop, with no client accepted and not closed.              *)
NoWorkerAfterMain ==
  main = "exited" => \A t \in Threads : pc[t] = "exit" /\ client[t] = NoClient

(* A worker leaves its loop only when the server has been asked to stop,   *)
(* or when there is no descriptor left for a client it accepts.            *)
WorkersStay ==
  [][\A t \in Threads : pc[t] # "exit" /\ pc'[t] = "exit"
       => ~keepRunning \/ fds = FdLimit]_vars

(* What the server cannot go on from: SIGPIPE has ended it, a client that  *)
(* sends nothing has a worker in recv, or a second SIGINT has come, whose  *)
(* handler may wait for a semaphore its own thread holds.                  *)
Hindered ==
  \/ killed
  \/ \E t \in Threads : pc[t] = "recv" /\ request[client[t]] = Silence
  \/ signals > 1

(* After SIGINT the process ends cleanly.                                  *)
CleanExit == signals > 0 ~> main = "exited" \/ Hindered

(* A client that sends a request is served unless the server is stopped or *)
(* has lost all of its workers, and one whose connection was accepted also *)
(* during a stop.                                                          *)
ServedUnlessHindered ==
  \A c \in Clients :
    /\ c \in queue /\ request[c] # Silence ~>
         \/ c \in served \/ ~keepRunning \/ Hindered
         \/ \A t \in Threads : pc[t] = "exit"
    /\ (\E t \in Threads : client[t] = c) ~> c \in served \/ Hindered

(* The file a path names, with or without a slash before it: that of a     *)
(* path which ends in a slash is the index of the directory.  Only the     *)
(* index of the root is looked for where it is.                            *)
Asked(path) ==
  (IF path[1] = "/" THEN Tail(path) ELSE path)
    \o (IF Last(path) = "/" THEN Index ELSE <<>>)

Understood(path) == Last(path) = "/" => Len(path) = 1

(* A client that does not close early and asks for a file as it should     *)
(* gets one header and then the whole file, whatever other workers send    *)
(* meanwhile; its last block is longer than the header says.  Every other  *)
(* request is answered by one error, and so is this one when there is no   *)
(* descriptor for the file.                                                *)
AnswersRight ==
  \A c \in served \ Rude :
    LET r == request[c]
        header == answer[c][1]
        body == FlattenSeq(Tail(answer[c]))
        legal == /\ r.method = "GET" /\ r.spaced /\ ~HasDotDot(r.path)
                 /\ r.version \in {"HTTP/1.0", "HTTP/1.1"}
    IN Understood(r.path) =>
       \/ /\ legal /\ Asked(r.path) \in DOMAIN Files
          /\ header.status = "200" /\ header.version = r.version
          /\ header.length = Len(Files[Asked(r.path)])
          /\ IsPrefix(Files[Asked(r.path)], body)
       \/ /\ legal /\ Asked(r.path) \in Folders
          /\ header.status = "200" /\ body = <<>>
       \/ /\ header.status # "200" /\ body = <<>>
          /\ legal /\ Asked(r.path) \in DOMAIN Files \cup Folders
               => fds + Cardinality(served) >= FdLimit
=============================================================================
