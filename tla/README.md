# Network Systems: a TLA+ verification

TLA+ models of the concurrent and distributed programs of `src/`: a caching
proxy (PA3), the thread pool of the TCP servers (PA2, reused by PA3 and PA4), a
UDP file transfer protocol (PA1) and a distributed file system (PA4), with the
TLC runs that check them on small instances and TLAPS proofs, for instances of
every size, about the proxy's cache and its replies, the thread pool, the file
transfer and the file server.

## The system

### Proxy, `src/3_PA/proxy_serv` (modules `ProxyCache`, `RequestKey`, `RelayBuffer`, `PageStore`)

*State.* A hash table `cache->arr` of chains of `cache_node`s (key, announced
`filesize`), a pthread rwlock at the head of each chain, one file `./cache/<key>`
per cached page, one semaphore `socket_sem` around every `send` and `recv` of
every thread; per thread the request, the node it works on, `cache_flag`,
`bytes_rem` and the one receive buffer `message_buf`.

*Operations.* `handle_get` looks the key up (`get_cache_entry`), checks the age
of the file (`check_ttl`), serves it (`send_file_from_cache`) or connects to the
origin and relays its answer (`fetch_remote`), which writes it to the file and
adds the node (`add_cache_entry_non_block`) while it is sent to the client.

*Interaction.* Threads share the table, the files and the semaphore; origins and
clients are reached by TCP. Lookups drop the lock before the node is used; the
write lock is taken after the first packet and held across the rest of the fetch.

*Hard.* Two threads that miss the same page; a refetch while others read; nodes
used with no lock; origins that fail, stall or close; files that cannot be
opened; a header or a body that arrives in pieces; keys that collide.

*Correct when* no file is written by two threads or while it is sent, no key is
in a chain twice, no freed node is used, every node has a file, every request is
answered, and what is served is one whole version of the page that was asked for.

### Web server and thread pool, `src/2_PA/web_serv` (modules `ServerPool`, `WebRequest`)

*State.* `accept_sem`, `keep_running_mut`, `socket_sem`, `keep_running`, the
listening socket and its queue, the workers, `socket_closer`, `main`,
`sig_handler` and the descriptors the process has open.

*Operations.* Workers take turns at `accept`, receive a request under
`socket_sem`, answer it (`handle_get`: `parse_req`, `build_header`,
`send_response`, `send_error`) and close; SIGINT clears `keep_running`; the closer polls
it and shuts the socket, so that `accept` fails and workers leave; `main` joins
them all.

*Hard.* Two semaphores taken in two steps and released on three exits; a signal
handler that waits for a semaphore; `recv` with no timeout under a semaphore; a
file that is never closed; SIGPIPE; answers sent piece by piece between those of
other workers, with a last block that is padded.

*Correct when* one worker accepts at a time, workers stay until the server is
stopped, accepted clients are served with the answer their request calls for, `main` outlives every worker, and SIGINT
leads to a clean exit.

### UDP file transfer, `src/1_PA/udp` (modules `UdpTransfer`, `FileCopy`)

*State.* The files of both sides; where each program waits; the rows of a file
it sends or receives (`file_buffer_2d`, `rows_rec`); datagrams on their way.

*Operations.* `get`, `put`, `delete`, `ls`, `exit`. A copy is a size, a go-ahead
(`SENDFILE`), all rows, and `ALLREC`; the receiver takes a second of silence as
the end of the rows.

*Hard.* Lost, duplicated, overtaken and late datagrams; answers that do not say
which command they answer; a last row that is padded when read and cut when
written; an acknowledgement sent before the file is written.

*Correct when* a file is replaced only by the whole file of its name on the
other side, reports to the user are true, and both programs come back to where
they take commands.

### Distributed file system, `src/4_PA` (modules `FileCabinet`, `Dfs`)

*State.* The server: an array of "drawers", lists of the nodes of chunks with a
rwlock and a tail each; `node->sibling`; one file per chunk; the file `filelist`
with a rwlock. The client is a process that runs one command; it keeps one
`df_serv_cmd`, which every header it receives is parsed into, and so does the
worker of each connection.

*Operations.* A put (`handle_put_dfs`, `recieve_chunk`) records the name, adds a
node for the chunk and receives it into its file; a get (`handle_get_dfs`) finds
the newest node of the file and the chunk that goes with it and sends both.

*Interaction.* A client cuts a file in four and gives each of four servers two of
the chunks, by one of four tables (`get_distro`); it asks one server for the newest
version and then another. Both talk over streams: a header of 1024 bytes, then
the bytes of the chunk, with nothing between them. Workers of a server share
drawers, files, the list and `socket_sem`. A server that is started again knows
nothing of the chunks it has on disk.

*Hard.* A node is in its drawer before its chunk is written; siblings are written
under a read lock and read under none; a search in vain leaves the drawer
locked; the list is appended to under a read lock; clients that close early or
stop waiting after a second; receives that take parts of two messages; numbers
printed over longer ones; servers that stop, or that SIGPIPE ends.

*Correct when* no chunk is sent while it is written, a sibling found is not
changed under a reader, what is stored is listed; a chunk is stored as it was in
the file, two servers together have all of it, a get returns stored chunks of a
version that was there; every node has its chunk; clients, connections and
requests end. The repository's README says that this part is not complete.

### The rest

Wrappers that print errors around one system call, string helpers, the echo
exercises of PA2 and the web pages it serves have no state of their own and are
not modelled.

## Modules

| module | models | proved about |
| --- | --- | --- |
| `ProxyCache` | `handle_get`, `fetch_remote`, `cache.c`, run by several threads | yes |
| `ProxyCacheProofs` | the theorems about the table, its nodes, files and locks, about requests and replies, and that the cache implements `PageStore` | |
| `IndexLemmas` | least and greatest numbers with a property, sequences cut up and put together, for the proofs about lists and files | |
| `PageStore` | what the cache promises: pages withdrawn, published, served whole | |
| `RequestKey` | `parse_req`, `get_md5_str`, `check_dynamic` as functions of the URL | |
| `ProxyCacheMC` | instances of `ProxyCache`; checks their key tables against `RequestKey` | |
| `RelayBuffer`, `RelayBufferMC`, `RelayBufferProofs` | the receive loop of `fetch_remote` and `send_file`, byte by byte | |
| `WebRequest` | what PA2's server sends for a request, as functions of it | |
| `ServerPool`, `ServerPoolMC` | workers, closer, `main`, signal handler; uses `WebRequest` | yes |
| `ServerPoolProofs` | the theorems about `ServerPool` | |
| `UdpTransfer`, `UdpTransferMC` | both UDP programs and the network between them | yes |
| `UdpTransferProofs` | the theorems about `UdpTransfer` | |
| `FileCopy` | what the protocol promises: files replaced in one step | |
| `FileCabinet`, `FileCabinetMC` | the workers of the PA4 server, drawers, chunks and list | yes |
| `FileCabinetProofs` | the theorems about `FileCabinet` | |
| `Dfs`, `DfsMC` | clients and servers of PA4, the streams between them, stops and restarts | yes |
| `DfsProofs` | the theorems about what every step of `Dfs` keeps and what its puts store | |
| `DfsGetProofs` | the theorems about what its gets read | |

Definitions named as faulty in a comment (`\* fault: ...`) are variants of the
definition after them with a plausible bug; none is part of a specification.
They show that the properties can fail.

### How the models correspond to the code

**`ProxyCache`.** A thread's `pc` names the place between two calls at which
another thread can interfere: a lock operation, a system call, the unlocked use
of a node. Code between two such places is one action. `node[t]` is the pointer
`file`; `Nodes` are pairs of a thread and the number of its request, since a
request allocates at most one node. A page of the origin is `Parts[v]` packets
for its version `v`; a file, a relayed body and a cached reply are sequences of
`<<page, version, packet>>`, so that a torn, truncated or mixed page is visible.
Lengths are counted in packets. `ChangePage` and `Expire` are the origin's and
the clock's; an expired page is refetched into the same file and node, whose
`filesize` is overwritten (`RecvHeader`) before the lock is taken (`WrLock`).
The lock prefers writers, as the attribute it is created with says: a waiting
writer (`WrLockEnter`) keeps readers out. `OpenCached` returns with the read
lock held when the file cannot be opened, and `FreeUncached` goes on without
forwarding the first packet: both are what the code does. `add_cache_entry`,
which nothing calls, and `free_hash_table`, which runs when all threads have
been joined, are left out; `socket_sem` is one action except in the receive on
the origin, which takes time while it is held.

**`RequestKey`** gives the path `parse_req` extracts and the string that is
hashed; MD5 is taken to be injective. `ProxyCacheMC` gives TLC a table of keys
and an assumption that the table agrees with `RequestKey`.

**`RelayBuffer`** is one fetch by one thread. `recv` returns any number of bytes
that is there; the buffer keeps what was in it beyond them; the file is written
by `fprintf` to the first NUL; the client is sent `bytes_recvd` bytes. The first
piece has its own cases: no status line, a part of the header, all of it.

**`WebRequest`.** A request is its method, path and version, and whether there is
a space after the path; `Verdict` makes the checks in the order of `parse_req`,
`FileSends` and `ErrorSends` give what is sent, one item for each `send`. Paths are
sequences of characters, since `parse_req` writes the name of the index over the
beginning of a path that ends in a slash (`Indexed`).

**`ServerPool`.** One action per semaphore operation, system call and test of
`keep_running`. `listening` is false once `shutdown` was called. `RecvRequest`
receives, parses and opens the file, whose descriptor stays open; each `Send` is
one `send` under `socket_sem`. A `Scenario` is what each client sends and how
many signals come. SIGINT runs its handler on `main`, or on any
other thread while `main` is in the handler itself and has the signal masked; a
thread in the handler does nothing else until the handler returns.

**`UdpTransfer`.** One action per datagram received and per timeout. A file is a
sequence of bytes; `RowsOf` and `FileOf` turn it into rows and back as
`read_file_to_buf` and `bin_to_file_2d` do, with the size kept beside the rows. A
row missing from a buffer is `NoRow`. A `ROW` says its number and how many there
are. `RESEND` is not a message of the model: `req_resend`
writes into the string literal `"RESEND "`, because the arguments of `strncpy`
are swapped, and so ends the program that misses a row; the branch of
`listen_for_resend` that resends rows is never reached. A `Mode` says what the network may do, whether a timeout can
expire while an answer is still to come (`timely`), whether files can fail to be
opened, and what users type.

**`FileCabinet`.** One action per lock operation and per use of a file outside
them. A node is `<<name, put, chunk>>`; the put's number stands for the hash of
name and time in its `chunk_name`. No lookup compares it: the field
`filename_tmstmp_md5` is filled with `filename_md5` (`file_cabinet.c:46`), and so
is what the client is told (`df_server_funs.c:37`). So the newest chunk found and
its sibling can be of two versions while a file is put again. `sibling` is
written by `FindFile` under the read lock and read by `CheckSibling` and
`AfterSend` under none. `Miss` keeps the lock, as the code does where it returns
from the middle of a search. `socket_sem` is left out: its holder waits for
no lock. A put ends after the first chunk if the client closes. Requests for a
version are those of any client that asks for one: `df_client.c` means to, but
never does (`DfsGet`).

**`Dfs`.** One action per `send`, per `recv` and per place where a worker waits for
a lock. A stream is a sequence of cells: `HdrLen` cells for a header, the bytes of
a chunk, NULs, and memory beyond a buffer. `recv` takes up to as many as the code
asks for, whatever message they belong to, so a first receive of `MAX_MSG_SZ` can
take the beginning of the chunk (`Parsed` ignores it, and the chunk is then short
of it). Headers are parsed into a `df_serv_cmd` that keeps what the header does
not overwrite (`Fields`, `Overwrite`). A receive of 0 bytes, the last one of every
chunk, waits like any other until there is something to receive or the connection
has ended: the worker then holds `socket_sem` and the drawer's lock. `Block` is
what `send_chunk` sends: `MAX_MSG_SZ` bytes of a buffer of `KILO`, so that what
follows the buffer is sent too. The client's receives time out (`late`); what comes
afterwards is read as a header. `Die` is a send to a client that has closed;
`Stop` is SIGINT and the end of `main`, with the shutdown that `ServerPool` models in
one step. Drawers are one list for each server and every name has a drawer of its
own, so the lock a search in vain leaves behind (`FileCabinet`) is not met here.
`disturbed`, `late` and `fresh` are history variables that no action reads.

## Runs

Passing runs:

| run | instance | shows |
| --- | --- | --- |
| `ProxyCacheStable` | 3 threads, 2 pages of 2 packets in one bucket, one request each | with origins that answer in full: replies whole, every request finishes, chains only grow, and the cache implements `PageStore` |
| `ProxyCacheFaults` | 2 threads, 2 requests each, a page that can be cached and one with a query, pages that change, origins that send errors, no header, or stall, files that cannot be opened | no torn file, no key twice, no freed node in use, every node has a file, semaphore and locks returned, packets relayed in order |
| `RelayBufferMC` | bodies of 0 to 7 bytes, with and without a NUL, every way to cut them up, buffer of 4 | the client receives exactly the response; a response in one piece is cached exactly, and a later reply is the file and the zeros of its last block |
| `ServerPool` | 2 workers, 2 clients with requests of every kind or none, one of which may leave early, 3 descriptors, up to 2 SIGINTs | one acceptor, no worker after `main`, every answer the one the request calls for, workers leave for cause only; with fairness: clean exit, accepted clients served, waiting clients served, except in the situations `Hindered` names |
| `UdpTransfer` | 3 commands, 3 files one of them empty, up to 2 datagrams lost, any overtaken or none; or late, and lost and overtaken or lost and duplicated, with files that cannot be written | reports of success and failure are true, copies are whole, byte for byte, and of the right file (`FileCopy`), commands end; nobody dies and the server is not stuck as long as nothing is lost; whatever happens every byte is that of some file at its place, and rows of two files are not mixed unless a datagram comes twice |
| `FileCabinet` | 2 workers, 2 puts and 2 gets of 2 files in one drawer, one name the beginning of the other, and an empty drawer | no chunk is read while it is written, a sibling once found stays, stored files are listed; with fairness requests end unless a search in vain left a drawer locked |
| `Dfs` | 2 clients: put and get of one file, two puts of one file, a put of two files, a put of a file shorter than four bytes, puts of files of all four distributions to both pairs of servers; server 0 stopped and started again | where no receive crossed a message: chunks stored exactly, both pairs of servers hold all of the file, a get writes a stored chunk, if its length is misread with memory behind it, of a version there was; nodes have chunks; with fairness every client and connection ends |

Runs that show a disagreement between the code and what its documentation says:

| run | property | what happens |
| --- | --- | --- |
| `ProxyCacheLength` | `ContentLengthCorrect` | a refetch stores the new length in the shared node before it has the lock; a reader sends it with the old file |
| `ProxyCacheCollision` | `CachedReplyIsRequestedPage` | the path is copied from the start of the URL, so `/a` and `/b` have one key |
| `RelayBufferFile` | `CacheFileIsBody` | a response in several pieces is cached with leftovers of the piece before |
| `UdpTransferLost` | `NoCrash` | one lost row ends the receiver |
| `DfsGet` | `RemainingFetched` | the second server is asked with an empty command: a get writes one chunk of the file |

Met while modelling, with no run of their own: with a failing `fopen` a client
gets no answer and the read lock is kept (`server_funs.c:478`) or the first
packet is not forwarded (`3_PA/proxy_serv/proxy_funs.c:95`; the exceptions in `NothingLeaked` and
`RelayedInOrder`); an error page of several packets is cut after the first
(`proxy_funs.c:75`); a second SIGINT can wait for a semaphore its own thread
holds (`tcp_serv.c:182`; `Hindered`); a client that sends nothing keeps
`socket_sem` in `recv`, and nobody else is served (`tcp_serv.c:132`; `Hindered`);
only `/` finds its index, since the name is copied over the path and not behind it
(`2_PA/web_serv/server_funs.c:96`; `Understood`); a directory can be opened and is
answered with a length of -1; the last block of an answer is padded with zeros
beyond the length its header gives; the descriptor of a served file is never
closed (`2_PA/web_serv/server_funs.c:29`; the exception in `WorkersStay`); empty
files are refused, and leave the sender waiting (`udp_client.c:322`; the exception
in `FailsForAReason`); late answers are taken for those of the
next command (`CopySpec` fails when answers are not `timely`), and a late size
cuts or pads a file; when a row and a size come twice and another size is lost, a
row of one file is stored in another (three faults, hence not in the bounds of the
run; `RowsOfOneFile` says what holds then); a file is acknowledged before it is
written (`udp_server.c:529`); a lost `ALLREC` leaves the sender listening for ever
(`udp_server.c:373`; the exception in `CommandsEnd`); a get of a file that is not
there leaves the drawer locked for reading, and the next put to it waits for ever
(`file_cabinet.c:204`, `236`; the exception in `RequestsEnd`); a name whose
beginning is that of a listed file keeps it out of the list
(`df_server_funs.c:161`; `Listed`); two puts at once can list a name twice; a get
may be answered with a header without its chunk (`df_server_funs.c:95`). In `Dfs`:
when a header and its chunk arrive together, the receive takes both and the chunk
is stored without its beginning, ending with bytes of the next header
(`df_server.c:156`; `disturbed`); a length printed over a longer one is read as
another number (`utilities.c:340`; `Misread`); a client spins on an empty chunk
(`df_client.c:341`; `Spins`); the second chunk a server sends is never read, for the
padding of the first is taken for the end; a send to a client that has closed ends
the server (`4_PA/wrappers.c:6`; `Die`).

### Bounds, and why they are enough

* `Threads`. The conflicts over a chain are between one thread that writes, one
  that waits to write and one that reads: three threads in `ProxyCacheStable`.
  The faults need two threads with two requests each (`MaxReq`), one to leave
  something behind and one to find it. Threads are symmetric in the latter run;
  no symmetry is used where liveness is checked.
* One bucket: threads of different buckets share only `socket_sem`, and one
  bucket with two keys has all the conflicts.
* `Parts`: two packets, so that a page can be half there; two versions of
  different lengths, so that a stale length is visible.
* `RelayBuffer`: a buffer of 4 bytes and bodies of up to 7 need the buffer up to
  three times, with pieces longer and shorter than the one before.
* `ServerPool`: two workers take turns; three descriptors, `FdLimit`, run
  out after two clients and one leak, and files of one and of two blocks
  (`BlockLen`) have a full and a padded last block;
  two SIGINTs are the first number at which the handler runs outside `main`.
* `UdpTransfer`: two rows are the least that can arrive out of order or in part,
  with rows of two bytes (`RowLen`) a last row is full or not; files of as many
  rows are those that can be mixed up; three commands
  (`MaxCmds`) let one transfer be disturbed by what is left of another; two faults
  (`MaxFaults`) hit a message and its answer. Duplicates are in the mode in which
  answers may be late, since a duplicated answer is taken for that of the next
  command.
* `FileCabinet`: all conflicts are between a put and a get, two puts, or two gets
  of one drawer; two puts of one file give its chunks two versions, and a get
  after each shows whether a sibling changes; of two files one can be
  missing from a drawer that is not empty.
* `Dfs`: headers of three cells (`HdrLen`) have a command, other fields and padding,
  and chunks are no longer than that, as a chunk of up to `KILO` bytes is read and
  sent in one piece; in base 2 (`Base`) chunks of one and two bytes have lengths of
  one and two digits. Files of 3 to 6 bytes have empty chunks, equal ones and a
  longer last one. What two clients do to each other happens inside one server,
  and servers do not know of each other, so a command is followed at server 0, or,
  where two servers must agree, at a pair. One server is stopped once (`Stopped`,
  `MaxStops`), between, before or while the two commands run. A worker for
  each of two connections stands for the twenty of the code, of which only as many
  as there are connections matter.

### Fairness

`ProxyCache`: weak fairness of every thread; the scheduler runs threads, a client
that connected sends its request (the proxy's own `recv` on the client has no
timeout), and `recv` on an origin ends by data, close or its 10-second timeout.
`ServerPool`: strong fairness of the threads that wait for a semaphore, since
others take and post it again and again and a waiting thread is woken sooner or
later; weak fairness of `main`. Clients are not bound to connect, nor signals to
come. `UdpTransfer`: weak fairness of both programs; what is not lost arrives.
Users need not type anything. `FileCabinet`: weak fairness of every worker, which
for a waiting writer is justified by the lock's preference for writers; clients
send what they announce or close, but need not come. `Dfs`: weak fairness of all
clients and workers together. Commands are finite and stops are bounded, so
behaviours end, and while anybody can go on somebody does; nobody is bound
to start a server again. A client that spins is left out of what must happen.

The runs that do not stop at a final state of their own (a crash, an exit, a
response relayed) disable the deadlock check; in `ProxyCacheStable` it is on,
with the end of all requests as an explicit stuttering step, so that the run
also excludes a deadlock of locks and semaphore. In `ProxyCacheFaults` the read
lock that is kept when a cached file cannot be opened does stop later writers,
as that of a search in vain does in `FileCabinet`.

## Proofs

`ProxyCacheProofs` proves for any threads, pages, keys, buckets, page lengths
and numbers of requests, from `ConstantsAssumption` alone (keys and buckets are
functions, pages have packets, `None` is none of the other values):

| theorem | property |
| --- | --- |
| `NodesStayInChains` | `ChainsOnlyGrow` |
| `KeysAreUnique` | `UniqueKeys` |
| `NoFileIsTorn` | `NoTornFile` |
| `NodesHaveFiles` | `CachedOnDisk` |
| `FreedNodesAreUnused` | `NoUseAfterFree` |
| `TypeCorrect` | `TypeOK` |

None of these properties is inductive. The inductive invariant is built in
layers, each kept by every step given the layers before it:

1. `TypeOf1`, `ThreadInv`: what a thread has at each place of its code (a
   request, a node, a packet).
2. `NodeInv`, `AllocInv`, `ChainInv`, `UniqueKeys`: a node in use is the
   thread's own or in a chain, carries the key of the thread's request, and sits
   in the bucket of its key. `UniqueKeys` needs this: a node added under the lock
   of a bucket has that bucket's key, and the chain was searched for it. The
   search and the addition are one action because all additions are made
   under the write lock.
3. `LockInv`: a thread that writes a file holds its bucket's lock for writing,
   one that sends a file holds it for reading, and a writer excludes readers;
   with this `NoTornFile` follows, as two threads with one key have one bucket.
4. `PageInv`: where a file is read or written there is one, which types the
   replies too.
5. `FreedInv`: a freed node was allocated and is neither in a chain nor a
   pointer some thread is still to use. The hard case is `FreeUncached`: a thread
   frees its node only if no node of the chain has its key, so, by layer 2, the
   node is not in a chain; another thread can hold it only through a chain.

`ServerPoolProofs` proves for any finite set of workers, any clients, requests,
numbers of SIGINTs and descriptors, from `PoolAssumption` and `WebAssumption` (the
threads are different ones, paths and files are sequences and paths not empty, blocks are not
empty):

| theorem | property |
| --- | --- |
| `AcceptExclusive` | `OneAcceptor` |
| `MainLast` | `NoWorkerAfterMain` |
| `StopsForAReason` | `WorkersStay` |
| `TypeCorrect` | `TypeOK` |
| `AnsweredRight` | `AnswersRight` |

The semaphores are counters that anybody may post, so that they are binary ones
and exclude anything has to be proved. `IInv` names who is between the `sem_wait`
and the `sem_post` of each: `AcceptInv` a worker from the wait to the return of
`accept`; `KeepInv` a worker or the closer that reads the flag, or a handler,
which may run on a thread that reads it (then it waits); `SocketInv` a worker in
`recv`. While somebody is named the semaphore is 0, and at most one is named, so
a post makes it 1. `StopInv` orders a stop (flag, listening socket, closer,
`main`), from which `WorkersStay` follows: `accept` fails only if the socket has been
shut, hence the flag cleared, or for want of a descriptor. For `TypeOK`,
`FdsInv` counts one descriptor for each worker that has a client, so that closing
one never goes below 0, and `TodoInv` follows what is still to be sent.

For `AnsweredRight`, `PlaceInv` says that a connection is in one place: waiting, with one
worker, or closed. `AnswerOf` says for a client what it has been sent and what its worker has
still to send are, put together, what is `Promised`: the header and blocks of its file, or one
error, for a file that is there only if descriptors have run out. That reason stays: a
client that is closed gives one descriptor back, and its file keeps one (`UsedGrows`). What
remains is about sequences alone: the blocks of a file, put together, are the file and then
zeros (`BlocksMakeTheFile`, from `CutUp` of `IndexLemmas`), and an understood path is looked for
where it should be (`OpenedIsAsked`). `AnswersRight` was wrong about a path without a slash before
it, of which it dropped the first character; the server looks for such a path below the same
directory. It was corrected, and the run has such a request.

`RelayBufferProofs` proves for buffers and blocks of any length, any bodies of bytes, and every way
to cut a response up, from `BufferAssumption` (the header fits the buffer; bytes are 0 to 255):

| theorem | property |
| --- | --- |
| `TypeCorrect` | `TypeOK` |
| `RelayedWhole` | `RelayedFaithfully` |
| `OnePieceExact` | `OnePieceServedExactly` |

`RelayInv` says that what was sent is the part of the response that has arrived, and that
`bytes_rem` is what has not, header included: so the loop ends when all has come and not
before. `FileInv` is about a response that came at once: the buffer was clean, so the first NUL behind
the body is where it ends (`PrintedWhole`); the body of several pieces has no such
invariant, see `RelayBufferFile`. `InBlocksIs` says what `send_file` adds.

`ProxyCacheProofs` goes on to what requests leave behind and what clients receive:

| theorem | property | hypothesis |
| --- | --- | --- |
| `RequestsLeaveNothing` | `NothingLeaked` | |
| `RelayedAsReceived` | `RelayedInOrder` | |
| `WholeReplies` | `RepliesWhole` | `Steady` |
| `CacheIsAStore` | `StoreSpec` | `Steady` |

1. `KindInv`: in which states a reply is of which kind, and that a thread that waits for the
   write lock is one that caches.
2. `SockInv`, `WriterInv`, `LeftInv` count what is owed: who holds `socket_sem`, who a
   lock for writing, and how many read locks were left by requests that sent
   nothing. `NothingLeaked` is their sum once all requests have ended.
3. `OrderInv`: what was relayed are the packets before the one in hand, in order,
   or all of them but the first.
4. `SteadyInv`: where origins answer in full, `LengthInv` ties every announced length to
   the page, `RemoteOf` each `bytes_rem` to the packets still to come, `FileInv` each file
   to the progress of the thread that writes it, and `CachedOf` what was sent from a
   file to that file. Replies are then whole, and each step is one of `PageStore`
   (withdraw, publish, serve) or changes nothing of it.

`Steady` is that origins answer with a page, an error or no header but do not stall
(`Answers`), that files can be opened, and that all versions of a page have as many
packets. None can be left out: an origin that stalls leaves a truncated file, a
file that cannot be opened leaves a client with no answer, and a length that
changes is the finding of `ProxyCacheLength`. `ProxyCacheStable` is an instance.

`FileCabinetProofs` proves for any workers, drawers, names and numbers of puts:

| theorem | property |
| --- | --- |
| `NoChunkTorn` | `NoTornChunk` |
| `SiblingsKept` | `SiblingsStay` |
| `ListedBeforeStored` | `StoredIsListed` |
| `TypeCorrect` | `TypeOK` |

`Layer1` (`WorkInv`, `SameFileInv`, `LockInv`) says what a worker has at each place, that
the node it holds is of its file, and who holds a drawer's lock; a worker that
writes a chunk holds it for writing, which gives `NoTornChunk`. `PutInv` and `NodesOnce`
say that a node is in its drawer once and by whom it was put there. `SiblingInv` says that a
sibling is the last other chunk of the file before the node it belongs to; puts add at the
end, so that a search of a get made later finds the same; this is why `SiblingsStay` holds
although `sibling` is written under a read lock. `ListInv` says that the list was written
before the node was added.

`UdpTransferProofs` proves for any files, rows of any length, any number of commands
and of faults:

| theorem | property | hypothesis |
| --- | --- | --- |
| `RowsMakeTheFile` | rows put together again are the file they were cut from | |
| `TypeCorrect` | `TypeOK` | |
| `ToldTrue` | `SuccessIsTrue` | `OnceIfTimely` |
| `CopiesWhole` | `CopySpec` | `OnceIfTimely` |
| `FailuresExplained` | `FailsForAReason` | `OnceIfTimely` |
| `RowsKept` | `RowsOfOneFile` | |

1. `RowsMakeTheFile` is about `RowsOf` and `FileOf` alone: byte `k` is at row and column
   `(k - 1) \div RowLen` and `% RowLen`, and what the flattening of the rows gives is the function that
   satisfies its defining equation.
2. `TypeInv` adds to `TypeOK` what is on its way, and that buffers have as many rows as
   the size needs.
3. `TalkInv`, where answers come in time: for each datagram on its way, in which states
   the two programs are (`ServerMay`, `ClientMay`); only one direction is in use; rows
   received are among those sent, of the file the command names (`GetInv`, `PutInv`).
   From it what users are told is true, and a step that writes a file is a step of
   `FileCopy`.
4. `FlowInv`, where moreover nothing is lost or overtaken: what must be on its way in each
   state, so that a timeout has one of the causes `FailsForAReason` names.
5. Whatever the network does: `PlaceInv` says that every byte in a file, a buffer or a
   row on its way is, at its place, that of one of the first files. `OneInv`, without
   duplicates: each of the two streams of rows (`Down`, `Up`) is `Quiet`, or its rows are
   on their way once each and have not come (`RowsPhase`), or one `ALLREC` is (`AckPhase`);
   so a receiver that has all rows has those of the last sender.

`OnceIfTimely` is that no `Mode` both has answers in time and duplicates datagrams: the
copy of an answer is a late answer, taken for that of the next command, and the
properties fail then. `RowsKept` needs no hypothesis. `RowsOfOneFile` was stated for all
networks that do not reorder before; the proof of that failed, and TLC found three faults
that mix rows (above), beyond the two of the run. It is now stated without duplicates
instead, for networks that may reorder, and with what holds in any case.

`DfsProofs`, and `DfsGetProofs` for gets, prove for any number of clients, any commands and
files whose chunks fit a header (`DfsAssumption`), and any servers that stop and are
started again:

| theorem | property |
| --- | --- |
| `TypeCorrect` | `TypeOK` |
| `ChunksOfNodes` | `NodesHaveChunks` |
| `PutsAreExact` | `ChunksExact` |
| `PairsHaveAll` | `PairsHold` |
| `GetsAreStored` | `GotIsStored` |
| `GetsAreFresh` | `GetsFresh` |

A `df_serv_cmd` begins empty, is filled in from whatever a receive takes, and keeps
what a header does not overwrite. So none of these is inductive: that the file a worker
creates, and the length it expects, are those of some header rests on what the
connection carries. `IInv` has these parts:

1. `Types`: streams, files, nodes and `df_serv_cmd`s are made of headers with all their
   fields (`Full`), bytes, NULs and memory; of the requests of gets, fields may be missing.
2. `PutAt`, `ReplyAt`: as long as a worker has received nothing, or the client of a get
   has not yet got all the fields, the stream to it is empty or begins with a whole header
   (`Begins`); so the first receive fills in all the fields (`ParsedWhole`), and later
   ones, wherever they begin, do not empty any (`ParsedFull`). A client sends a
   chunk only behind its header, which `sent` and the distribution decide (`NextToSend`).
   `GetAt`: a get sends each server at most one header, which the first receive takes whole.
3. `WorkerAt`, `FileAt`, `LockInv`: what a worker has at each place; that a file that is
   being received is there and no longer than its announced length, which needs that no
   two workers receive chunks of one file.
4. `SocketInv`, `PowerInv`: who holds `socket_sem` receives; a server that does not run
   has no drawers and no workers, so a node is never added there.

With them `NodesHaveChunks` is kept: nodes are added by the worker that creates the chunk next,
nothing but the end of the server stops it in between, and with the server the nodes go.

What is stored needs more than what streams are made of, namely which cells of which messages
they hold. Two further invariants are kept given `IInv`:

5. `OriginInv`: where headers come from. Every header on the stream of a put, and every
   `df_serv_cmd` of its worker, names the client's version, one of its files and a chunk that
   the distribution gives this server (`Owned`); so do nodes and files (`Home`). So no other
   client's worker ever writes a chunk of this put, and every fact about one connection
   survives what the others do.
6. `TrackInv`: what is on its way on each connection of a put that is not yet disturbed,
   message for message. `SentTo` counts, from `sent` and the list of servers, how many of
   the messages on this connection were sent. `Carries`: the stream holds some end of a message
   and after it all later ones. `Holds`: for each place of the worker, which message
   that end is of, what the worker has of it, and that the chunks before it are on the disk
   byte for byte unless a length was misread. `Sends`: the client is not done
   before all is sent. A receive that takes no parts of two messages takes the rest of one,
   or part of one. `SizeAt` says what a worker reads as a length after longer ones, from
   which `Misread` is exactly when it is not the chunk's.

`ChunksExact` is `Holds` at the end of the connection. For `PairsHold`, the four
distributions give every chunk to one server of each pair, and of the first file only the
second chunk can have its length misread, whose file then still begins with the bytes of the
chunk (`Kept`).

A get reads what a worker sends while others add nodes and write chunks beside it. `AnswerInv`
follows one from what is on the disk of server 0 to the file the client writes:

7. `StoreInv`: what can be sent is whole. `OnceInv`: no chunk is received twice by server 0;
   those whose headers are still to come, the one that is about to be created and those
   on the disk are different ones, since a header's fields only ever come with its command
   (`Lined`). So a chunk that is there and that nobody receives stays as it is for good (`Settled`,
   `Kept0`). `FitInv`: no chunk is longer than its node says, nor than what is
   printed of that over a longer length (`OverwriteMore`). `ReadInv`: a node that is to be
   sent is in the cabinet, and its drawer is locked while its chunk is. `TextInv`: no
   header in a chunk is that of a get, so a client takes none for the next chunk.
8. `RequestInv`: what server 0 receives of a get is its one header, with the name it wants.
   `FreshInv`: from its connection until its worker looks, server 0 has two chunks
   of the file, and the newest node, and every one that can still be added, is of a version in
   `fresh` (`Ready`); puts that are over add none, and a server that dies closes the
   connection.
9. `FlowInv`: where the client is with server 0. `BeforeHeader`: nothing has been sent yet, or a
   header with a chunk to follow is next (`Answers`); the client then either reads this header,
   or has been late. `BeforeChunk`: what comes next is `Coming`, a block with a settled chunk
   of the wanted file that is no longer than the length read; less than a block is never
   there, and the length is less than a block, so one receive takes it all and never
   goes to `rest`. `AfterChunk`: the chunk is in the file, and of the block something is left,
   NULs or memory (`Junk`), so the next receive finds no line with a command in it
   (`JunkFirst`) and the client goes to the other server. `AfterAll`: the other one sends
   nothing, whatever it is asked. `FlowInv` holds as long as the connection to server 0 is
   not disturbed, that is, no header came without its chunk and the server did not die.

At the end of a get, `AfterAll` is both properties: the chunk that was read is on the disk, of the
wanted file and, if `fresh` is not empty, of a version in it; or nothing was read, and then
some receive was late or the server could not answer.

What `Parsed` does is proved by writing its fold as a function of the cells read so far
(`ParsedByCells`) and looking for the least number of cells at which fields are missing.

The parts of all these invariants were checked by TLC before they were proved. `GotIsStored` and
`GetsFresh` were stated too strongly at first, which larger constants showed: a get that reads a
length with the digits of a longer one before it takes what `send_chunk` sends from behind
its buffer as well, so what it writes is a whole chunk and perhaps memory after it (`ReadsAs`). The
prover has no induction over lists or numbers with a formula as a parameter;
`IndexLemmas` takes its place where an index is sought: a set of numbers that has an element has a
least one, so one can speak of the first or last node with a property; and a set that
has every number whose predecessors it has, has them all (`NaturalsAll`).

Only model-checked: all liveness (`RequestsFinish`, `CleanExit`, `ServedUnlessHindered`,
`CommandsEnd`, `ServerReturns`, `RequestsEnd`, `EverythingEnds`), which with fairness and
`ENABLED` is out of the prover's reach; and what `RequestKey` computes for every URL, which
would need induction over sequences.

## Not modelled

Time (timeouts may expire whenever the other side is silent, files may grow old
at any moment); the contents of messages beyond what the properties tell apart;
the proxy's rejections of requests (`parse_req` rejects or accepts: `BadRequest`,
`Request`); the printed header of a UDP row, 16 bytes that are too few from 100000
rows on; memory that runs out; of PA4, `list`, which the server does not answer,
gets of several files, of which a server answers the first, `dfc.conf`, chunks
longer than `KILO`, for which `fread` overruns the buffer of `send_chunk`, and `%` in
chunks, which `fprintf` takes for a format; several UDP clients at once, which the server does
not tell apart; data races on `filesize` are modelled as the atomic reads and writes of an
aligned word that the build makes of them.

## Plan

Done, in this order: `ProxyCache` with its proofs and `PageStore`; `RequestKey`;
`RelayBuffer`; `ServerPool` with its proofs; `UdpTransfer` and `FileCopy`; `FileCabinet`; `WebRequest`
under `ServerPool`; the bytes of files under `UdpTransfer`; `Dfs`; the proofs about replies, the
file transfer, the file server, the answers of the web server and the relay buffer; the types
and nodes of `Dfs`, what its puts store and what its gets read.

Next:

1. The rejections of the proxy's `parse_req` as functions, beside `RequestKey`.
2. `Dfs` as a refinement of a store of files, once a get fetches more than a chunk.
