----------------------------- MODULE ProxyCache -----------------------------
(***************************************************************************)
(* The caching proxy of src/3_PA/proxy_serv: the handler threads of the    *)
(* pool run handle_get concurrently over one hash table of cached pages.   *)
(*                                                                         *)
(* The table is an array of chains of nodes; the head of each chain holds  *)
(* a writer-preferring pthread rwlock.  A node carries the key of a page   *)
(* (the MD5 of hostname and filepath) and the Content-Length the origin    *)
(* announced; the page itself is the file ./cache/<key>.  Every send and   *)
(* recv of every thread is bracketed by the one semaphore socket_sem.      *)
(*                                                                         *)
(* A page of the origin is a number of packets, of which the first also    *)
(* carries the response header; lengths are counted in packets.  What the  *)
(* receive buffer does to the bytes of one packet is modelled in           *)
(* RelayBuffer, and how a key is computed from a request in RequestKey.    *)
(***************************************************************************)
EXTENDS Integers, Sequences

CONSTANTS
  Threads,      \* the connection_handler threads
  Urls,         \* the pages clients ask for
  Keys,         \* MD5 strings of hostname and filepath
  Buckets,      \* the indices of cache->arr
  KeyOf,        \* Urls -> Keys: parse_req followed by get_md5_str
  BucketOf,     \* Keys -> Buckets: cache_hash
  Dynamic,      \* the Urls with a query, which are never cached
  Blocked,      \* the Urls whose host is on the .blocklist
  Parts,        \* Parts[v]: the number of packets of version v of a page
  Answers,      \* what an origin may do when the proxy calls recv
  OpenMayFail,  \* whether open and fopen may fail (no descriptor is left)
  MaxReq,       \* bound: requests a thread handles
  None          \* no thread, no node, no url

MaxVer == Len(Parts)            \* bound: versions of a page

Nodes == Threads \X (1..MaxReq) \* the cache_node allocated by a request

Packet == Urls \X (1..MaxVer) \X Nat   \* <<page, version, packet number>>

ASSUME ConstantsAssumption ==
  /\ KeyOf \in [Urls -> Keys]
  /\ BucketOf \in [Keys -> Buckets]
  /\ Dynamic \subseteq Urls
  /\ Blocked \subseteq Urls
  /\ Parts \in Seq(Nat \ {0}) /\ Parts # <<>>
  /\ Answers \subseteq {"ok", "error", "bad", "close", "stall"}
  /\ OpenMayFail \in BOOLEAN
  /\ MaxReq \in Nat
  /\ None \notin Threads /\ None \notin Nodes /\ None \notin Urls
     /\ None \notin Keys /\ None \notin Seq(Packet)

VARIABLES
  \* the hash table and its locks
  chain,      \* chain[b]: the nodes linked from cache->arr[b]
  nkey,       \* nkey[n]: file->md5_hash, None while not allocated
  filesize,   \* filesize[n]: file->filesize
  freed,      \* nodes given to free_cache_node
  writer,     \* writer[b]: the thread holding the rwlock for writing
  readers,    \* readers[b][t]: read locks of the rwlock held by t
  sock,       \* the thread inside sem_wait(socket_sem)..sem_post
  \* the file system and the origin servers
  page,       \* page[k]: packets in ./cache/<k>, None if there is no file
  fresh,      \* fresh[k]: the file's age is below ttl_seconds
  origin,     \* origin[u]: the version the origin server serves now
  \* the local variables of handle_get and the functions it calls
  pc,         \* where the thread is
  served,     \* requests the thread has accepted
  url,        \* params->url
  node,       \* file: the cache_node the request works on
  caching,    \* cache_flag
  ver,        \* the version the origin answers this request with
  part,       \* packets received from the origin, 0 on the first pass
  rem,        \* bytes_rem
  reply       \* what the client has been sent

cacheVars == <<chain, nkey, filesize, freed>>
lockVars == <<writer, readers>>
envVars == <<page, fresh, origin>>
fetchVars == <<caching, ver, part, rem>>
threadVars == <<pc, served, url, node, reply>>
vars == <<cacheVars, lockVars, sock, envVars, fetchVars, threadVars>>

Key(t) == KeyOf[url[t]]
Bucket(t) == BucketOf[Key(t)]

NoReply == [kind |-> "none", len |-> 0, body |-> <<>>]

Init ==
  /\ chain = [b \in Buckets |-> <<>>]
  /\ nkey = [n \in Nodes |-> None]
  /\ filesize = [n \in Nodes |-> 0]
  /\ freed = {}
  /\ writer = [b \in Buckets |-> None]
  /\ readers = [b \in Buckets |-> [t \in Threads |-> 0]]
  /\ sock = None
  /\ page = [k \in Keys |-> None]
  /\ fresh = [k \in Keys |-> FALSE]
  /\ origin = [u \in Urls |-> 1]
  /\ pc = [t \in Threads |-> "idle"]
  /\ served = [t \in Threads |-> 0]
  /\ url = [t \in Threads |-> None]
  /\ node = [t \in Threads |-> None]
  /\ caching = [t \in Threads |-> FALSE]
  /\ ver = [t \in Threads |-> 1]
  /\ part = [t \in Threads |-> 0]
  /\ rem = [t \in Threads |-> 0]
  /\ reply = [t \in Threads |-> NoReply]

-----------------------------------------------------------------------------
(* The rwlock at the head of a chain.  It is created with the kind         *)
(* PREFER_WRITER_NONRECURSIVE: a waiting writer keeps new readers out.     *)

WriterWaits(b) == \E s \in Threads : pc[s] = "wwait" /\ Bucket(s) = b

CanRead(b) == writer[b] = None /\ ~WriterWaits(b)

CanWriteShared(b) == writer[b] = None   \* fault: get_ll_wlock calls rdlock

CanWrite(b) == writer[b] = None /\ \A s \in Threads : readers[b][s] = 0

NoRdLock(t) == UNCHANGED readers        \* fault: the lock is not taken

RdLock(t) == readers' = [readers EXCEPT ![Bucket(t)][t] = @ + 1]

NoRdUnlock(t) == UNCHANGED readers      \* fault: the lock is not released

RdUnlock(t) == readers' = [readers EXCEPT ![Bucket(t)][t] = @ - 1]

WrLockTaken(t) == writer' = [writer EXCEPT ![Bucket(t)] = t]

NoWrUnlock(t) == UNCHANGED writer       \* fault: the lock is not released

WrUnlock(t) == writer' = [writer EXCEPT ![Bucket(t)] = None]

Goto(t, l) == pc' = [pc EXCEPT ![t] = l]

(* The nodes of bucket b whose md5_hash is k.                              *)
Matching(b, k) == {i \in DOMAIN chain[b] : nkey[chain[b][i]] = k}

-----------------------------------------------------------------------------
(* connection_handler                                                      *)

(* A connection is accepted and the thread enters recv, which has no       *)
(* timeout, holding socket_sem.                                            *)
Accept(t) ==
  /\ pc[t] \in {"idle", "done"}
  /\ served[t] < MaxReq
  /\ sock = None
  /\ sock' = t
  /\ served' = [served EXCEPT ![t] = @ + 1]
  /\ url' = [url EXCEPT ![t] = None]
  /\ node' = [node EXCEPT ![t] = None]
  /\ part' = [part EXCEPT ![t] = 0]
  /\ caching' = [caching EXCEPT ![t] = FALSE]
  /\ reply' = [reply EXCEPT ![t] = NoReply]
  /\ ver' = [ver EXCEPT ![t] = 1]
  /\ rem' = [rem EXCEPT ![t] = 0]
  /\ Goto(t, "recvreq")
  /\ UNCHANGED <<cacheVars, lockVars, envVars>>

(* recv returns a request parse_req accepts.                               *)
Request(t, u) ==
  /\ pc[t] = "recvreq"
  /\ sock' = None
  /\ url' = [url EXCEPT ![t] = u]
  /\ Goto(t, "lookup")
  /\ UNCHANGED <<cacheVars, lockVars, envVars, fetchVars, served, node, reply>>

(* recv returns one it rejects, or nothing: handle_get runs all the same,  *)
(* on the zeroed buffer, and answers with an error.                        *)
BadRequest(t) ==
  /\ pc[t] = "recvreq"
  /\ sock' = None
  /\ Goto(t, "error")
  /\ UNCHANGED <<cacheVars, lockVars, envVars, fetchVars, served, url, node, reply>>

-----------------------------------------------------------------------------
(* handle_get: the lookup, the age check and the reply from the cache.     *)
(* get_cache_entry and check_ttl take the read lock and release it before  *)
(* they return; nothing they read can change in between.                   *)

GetCacheEntry(t) ==
  /\ pc[t] = "lookup"
  /\ CanRead(Bucket(t))
  /\ LET found == Matching(Bucket(t), Key(t)) IN
     \/ /\ found = {}
        /\ Goto(t, "connect")
        /\ UNCHANGED node
     \/ \E i \in found :
        /\ \A j \in found : i =< j
        /\ node' = [node EXCEPT ![t] = chain[Bucket(t)][i]]
        /\ Goto(t, "ttl")
  /\ UNCHANGED <<cacheVars, lockVars, sock, envVars, fetchVars, served, url, reply>>

CheckTtl(t) ==
  /\ pc[t] = "ttl"
  /\ CanRead(Bucket(t))
  /\ \/ /\ page[Key(t)] # None
        /\ Goto(t, IF fresh[Key(t)] THEN "serve" ELSE "connect")
     \/ /\ page[Key(t)] = None \/ OpenMayFail  \* fstat fails: no reply at all
        /\ Goto(t, "done")
  /\ UNCHANGED <<cacheVars, lockVars, sock, envVars, fetchVars, served, url, node, reply>>

(* send_file_from_cache up to fopen; the path on which fopen fails returns *)
(* without releasing the read lock.                                        *)
OpenCached(t) ==
  /\ pc[t] = "serve"
  /\ CanRead(Bucket(t))
  /\ RdLock(t)
  /\ \/ /\ page[Key(t)] # None
        /\ reply' = [reply EXCEPT ![t] =
                       [kind |-> "cached", len |-> filesize[node[t]], body |-> <<>>]]
        /\ Goto(t, "sending")
     \/ /\ page[Key(t)] = None \/ OpenMayFail
        /\ Goto(t, "done")
        /\ UNCHANGED reply
  /\ UNCHANGED <<cacheVars, writer, sock, envVars, fetchVars, served, url, node>>

(* send_file and the release of the read lock.                             *)
SendCached(t) ==
  /\ pc[t] = "sending"
  /\ sock = None
  /\ reply' = [reply EXCEPT ![t].body = page[Key(t)]]
  /\ RdUnlock(t)
  /\ Goto(t, "done")
  /\ UNCHANGED <<cacheVars, writer, sock, envVars, fetchVars, served, url, node>>

SendError(t) ==
  /\ pc[t] = "error"
  /\ sock = None
  /\ reply' = [reply EXCEPT ![t].kind = "error"]
  /\ Goto(t, "done")
  /\ UNCHANGED <<cacheVars, lockVars, sock, envVars, fetchVars, served, url, node>>

-----------------------------------------------------------------------------
(* fetch_remote                                                            *)

(* connect_remote, and the allocation of a node when there is none.        *)
ConnectRemote(t) ==
  /\ pc[t] = "connect"
  /\ \/ /\ Goto(t, "error")            \* NOTFOUND, or FBDN for a blocked host
        /\ UNCHANGED <<nkey, node>>
     \/ /\ url[t] \notin Blocked
        /\ Goto(t, "sendreq")
        /\ IF node[t] # None
           THEN UNCHANGED <<nkey, node>>
           ELSE /\ node' = [node EXCEPT ![t] = <<t, served[t]>>]
                /\ nkey' = [nkey EXCEPT ![<<t, served[t]>>] = Key(t)]
  /\ UNCHANGED <<chain, filesize, freed, lockVars, sock, envVars, fetchVars, served,
                 url, reply>>

(* The request is relayed; the origin answers with what it serves now.     *)
SendRequest(t) ==
  /\ pc[t] = "sendreq"
  /\ sock = None
  /\ ver' = [ver EXCEPT ![t] = origin[url[t]]]
  /\ caching' = [caching EXCEPT ![t] = url[t] \notin Dynamic]
  /\ reply' = [reply EXCEPT ![t].kind = "remote"]
  /\ Goto(t, "recv")
  /\ UNCHANGED <<cacheVars, lockVars, sock, envVars, part, rem, served, url, node>>

(* recv is entered with socket_sem held, for at most 10 seconds.           *)
RecvEnter(t) ==
  /\ pc[t] = "recv"
  /\ sock = None
  /\ sock' = t
  /\ Goto(t, "recving")
  /\ UNCHANGED <<cacheVars, lockVars, envVars, fetchVars, served, url, node, reply>>

(* The first packet, with the header.  parse_header stores the length in   *)
(* the node, which may be in the chain, without the lock.                  *)
RecvHeader(t) ==
  /\ pc[t] = "recving"
  /\ part[t] = 0
  /\ sock' = None
  /\ \/ /\ "ok" \in Answers
        /\ filesize' = [filesize EXCEPT ![node[t]] = Parts[ver[t]]]
        /\ part' = [part EXCEPT ![t] = 1]
        /\ Goto(t, "rem")
        /\ UNCHANGED <<caching, reply>>
     \/ /\ "error" \in Answers         \* neither 200 nor 304: -2, not cached
        /\ caching' = [caching EXCEPT ![t] = FALSE]
        /\ part' = [part EXCEPT ![t] = 1]
        /\ reply' = [reply EXCEPT ![t].kind = "status"]
        /\ Goto(t, "rem")
        /\ UNCHANGED filesize
     \/ /\ "bad" \in Answers           \* no usable Content-Length: -1
        /\ Goto(t, "error")
        /\ UNCHANGED <<filesize, caching, part, reply>>
  /\ UNCHANGED <<chain, nkey, freed, lockVars, envVars, ver, rem, served, url, node>>

(* A later packet.  When the thread caches, it holds the write lock.       *)
RecvPacket(t) ==
  /\ pc[t] = "recving"
  /\ part[t] > 0 /\ part[t] < Parts[ver[t]]
  /\ sock' = None
  /\ part' = [part EXCEPT ![t] = @ + 1]
  /\ rem' = [rem EXCEPT ![t] = @ - 1]
  /\ page' = IF caching[t]
             THEN [page EXCEPT ![Key(t)] = Append(@, <<url[t], ver[t], part[t] + 1>>)]
             ELSE page
  /\ fresh' = IF caching[t] THEN [fresh EXCEPT ![Key(t)] = TRUE] ELSE fresh
  /\ Goto(t, "fwd")
  /\ UNCHANGED <<cacheVars, lockVars, origin, caching, ver, served, url, node, reply>>

(* recv returns 0 (the origin closed) or -1 (it stalled for 10 seconds).   *)
(* On the first pass the zeroed buffer is not a 200, so nothing is cached; *)
(* later the buffer, still holding the packet before, is written again.    *)
(* A length of -1 given to send forwards memory beyond the buffer.         *)
RecvEnd(t) ==
  /\ pc[t] = "recving"
  /\ sock' = None
  /\ \E how \in {"close", "stall"} :
     /\ how \in Answers \/ part[t] = Parts[ver[t]]
     /\ reply' = IF how = "stall"
                 THEN [reply EXCEPT ![t].kind = "overrun"] ELSE reply
  /\ \/ /\ part[t] = 0
        /\ caching' = [caching EXCEPT ![t] = FALSE]
        /\ UNCHANGED <<page, fresh>>
     \/ /\ part[t] > 0 /\ caching[t]
        /\ page' = [page EXCEPT ![Key(t)] = Append(@, <<url[t], ver[t], part[t]>>)]
        /\ fresh' = [fresh EXCEPT ![Key(t)] = TRUE]
        /\ UNCHANGED caching
     \/ /\ part[t] > 0 /\ ~caching[t]
        /\ UNCHANGED <<caching, page, fresh>>
  /\ Goto(t, "finish")
  /\ UNCHANGED <<cacheVars, lockVars, origin, ver, part, rem, served, url, node>>

(* bytes_rem is read back from the node, again without the lock.           *)
BytesRemAll(n) == filesize[n]       \* fault: the packet just read is not counted

BytesRem(n) == filesize[n] - 1

ReadRem(t) ==
  /\ pc[t] = "rem"
  /\ rem' = [rem EXCEPT ![t] = BytesRem(node[t])]
  /\ Goto(t, IF caching[t] THEN "wlock" ELSE "fwd")
  /\ UNCHANGED <<cacheVars, lockVars, sock, envVars, caching, ver, part, served, url,
                 node, reply>>

(* get_ll_wlock: the call, from which on new readers wait, and its return. *)
WrLockEnter(t) ==
  /\ pc[t] = "wlock"
  /\ Goto(t, "wwait")
  /\ UNCHANGED <<cacheVars, lockVars, sock, envVars, fetchVars, served, url, node, reply>>

WrLock(t) ==
  /\ pc[t] = "wwait"
  /\ CanWrite(Bucket(t))
  /\ WrLockTaken(t)
  /\ Goto(t, "open")
  /\ UNCHANGED <<cacheVars, readers, sock, envVars, fetchVars, served, url, node, reply>>

AddCacheEntryBlindly(t) ==          \* fault: the chain is not searched
  chain' = [chain EXCEPT ![Bucket(t)] = Append(@, node[t])]

AddCacheEntryFirst(t) ==            \* fault: the node is added at the head
  chain' = IF Matching(Bucket(t), Key(t)) = {}
           THEN [chain EXCEPT ![Bucket(t)] = <<node[t]>> \o @]
           ELSE chain

(* add_cache_entry_non_block                                               *)
AddCacheEntry(t) ==
  chain' = IF Matching(Bucket(t), Key(t)) = {}
           THEN [chain EXCEPT ![Bucket(t)] = Append(@, node[t])]
           ELSE chain

OpenForWriteContinues(t) ==         \* fault: "continue" after this fopen, too
  /\ pc[t] = "open"
  /\ page' = [page EXCEPT ![Key(t)] = << <<url[t], ver[t], 1>> >>]
  /\ fresh' = [fresh EXCEPT ![Key(t)] = TRUE]
  /\ AddCacheEntry(t)
  /\ Goto(t, "recv")
  /\ UNCHANGED <<nkey, filesize, freed, lockVars, sock, origin, fetchVars, served, url,
                 node, reply>>

(* fopen "wb+" truncates the file, the node is added unless the chain has  *)
(* one with its key, and the body part of the first packet is written.     *)
OpenForWrite(t) ==
  /\ pc[t] = "open"
  /\ page' = [page EXCEPT ![Key(t)] = << <<url[t], ver[t], 1>> >>]
  /\ fresh' = [fresh EXCEPT ![Key(t)] = TRUE]
  /\ AddCacheEntry(t)
  /\ Goto(t, "fwd")
  /\ UNCHANGED <<nkey, filesize, freed, lockVars, sock, origin, fetchVars, served, url,
                 node, reply>>

OpenFailsAfterAdd(t) ==             \* fault: the node is added before fopen
  /\ pc[t] = "open"
  /\ OpenMayFail
  /\ AddCacheEntry(t)
  /\ WrUnlock(t)
  /\ caching' = [caching EXCEPT ![t] = FALSE]
  /\ Goto(t, "recheck")
  /\ UNCHANGED <<nkey, filesize, freed, readers, sock, envVars, ver, part, rem, served,
                 url, node, reply>>

(* fopen fails: the lock is released and the page is not cached.           *)
OpenFails(t) ==
  /\ pc[t] = "open"
  /\ OpenMayFail
  /\ WrUnlock(t)
  /\ caching' = [caching EXCEPT ![t] = FALSE]
  /\ Goto(t, "recheck")
  /\ UNCHANGED <<cacheVars, readers, sock, envVars, ver, part, rem, served, url, node,
                 reply>>

NodeUnused(t) == TRUE               \* fault: the table is not consulted

NodeUncached(t) == Matching(Bucket(t), Key(t)) = {}

(* A node whose key is not in the table is freed, and "continue" goes on   *)
(* to the next packet: the first one is never forwarded.                   *)
FreeUncached(t) ==
  /\ pc[t] = "recheck"
  /\ CanRead(Bucket(t))
  /\ freed' = IF NodeUncached(t) THEN freed \cup {node[t]} ELSE freed
  /\ Goto(t, "recv")
  /\ UNCHANGED <<chain, nkey, filesize, lockVars, sock, envVars, fetchVars, served, url,
                 node, reply>>

LastPacketEarly(t) == rem[t] =< 1   \* fault: stops with one packet to come

LastPacket(t) == rem[t] =< 0

(* The packet is sent to the client; the loop ends when bytes_rem =< 0.    *)
Forward(t) ==
  /\ pc[t] = "fwd"
  /\ sock = None
  /\ reply' = [reply EXCEPT ![t].body = Append(@, <<url[t], ver[t], part[t]>>)]
  /\ Goto(t, IF LastPacket(t) THEN "finish" ELSE "recv")
  /\ UNCHANGED <<cacheVars, lockVars, sock, envVars, fetchVars, served, url, node>>

(* fclose and, if cache_flag is still set, release_ll_rwlock.              *)
Finish(t) ==
  /\ pc[t] = "finish"
  /\ IF caching[t] THEN WrUnlock(t) ELSE UNCHANGED writer
  /\ Goto(t, "done")
  /\ UNCHANGED <<cacheVars, readers, sock, envVars, fetchVars, served, url, node, reply>>

-----------------------------------------------------------------------------
(* The environment: an origin changes a page, a cached file grows old.     *)

ChangePage(u) ==
  /\ origin[u] < MaxVer
  /\ origin' = [origin EXCEPT ![u] = @ + 1]
  /\ UNCHANGED <<cacheVars, lockVars, sock, page, fresh, fetchVars, threadVars>>

Expire(k) ==
  /\ fresh[k]
  /\ fresh' = [fresh EXCEPT ![k] = FALSE]
  /\ UNCHANGED <<cacheVars, lockVars, sock, page, origin, fetchVars, threadVars>>

(* Every thread has handled the requests it handles: the bound is reached. *)
Terminating ==
  /\ \A t \in Threads : pc[t] = "done" /\ served[t] = MaxReq
  /\ UNCHANGED vars

HandleGet(t) ==
  \/ BadRequest(t) \/ GetCacheEntry(t) \/ CheckTtl(t)
  \/ OpenCached(t) \/ SendCached(t) \/ SendError(t)
  \/ (\E u \in Urls : Request(t, u))

FetchRemote(t) ==
  \/ ConnectRemote(t) \/ SendRequest(t) \/ RecvEnter(t) \/ RecvHeader(t)
  \/ RecvPacket(t) \/ RecvEnd(t) \/ ReadRem(t) \/ WrLockEnter(t) \/ WrLock(t)
  \/ OpenForWrite(t) \/ OpenFails(t) \/ FreeUncached(t) \/ Forward(t) \/ Finish(t)

Next ==
  \/ \E t \in Threads : Accept(t) \/ HandleGet(t) \/ FetchRemote(t)
  \/ \E u \in Urls : ChangePage(u)
  \/ \E k \in Keys : Expire(k)
  \/ Terminating

Spec == Init /\ [][Next]_vars

(* The scheduler runs every thread; a client that connected sends its      *)
(* request, and recv on the origin ends by data, close or timeout.         *)
FairSpec ==
  /\ Spec
  /\ \A t \in Threads : WF_vars(HandleGet(t)) /\ WF_vars(FetchRemote(t))
-----------------------------------------------------------------------------
(* What the proxy is to do.                                                *)

Locations ==
  {"idle", "recvreq", "lookup", "ttl", "serve", "sending", "error", "done",
   "connect", "sendreq", "recv", "recving", "rem", "wlock", "wwait", "open",
   "recheck", "fwd", "finish"}

Reply == [kind : {"none", "cached", "remote", "status", "overrun", "error"},
          len : Nat, body : Seq(Packet)]

(* Every variable has its type.                                            *)
TypeOK ==
  /\ chain \in [Buckets -> Seq(Nodes)]
  /\ nkey \in [Nodes -> Keys \cup {None}]
  /\ filesize \in [Nodes -> Nat]
  /\ freed \subseteq Nodes
  /\ writer \in [Buckets -> Threads \cup {None}]
  /\ readers \in [Buckets -> [Threads -> Nat]]
  /\ sock \in Threads \cup {None}
  /\ page \in [Keys -> Seq(Packet) \cup {None}]
  /\ fresh \in [Keys -> BOOLEAN]
  /\ origin \in [Urls -> 1..MaxVer]
  /\ pc \in [Threads -> Locations]
  /\ served \in [Threads -> 0..MaxReq]
  /\ url \in [Threads -> Urls \cup {None}]
  /\ node \in [Threads -> Nodes \cup {None}]
  /\ caching \in [Threads -> BOOLEAN]
  /\ ver \in [Threads -> 1..MaxVer]
  /\ part \in [Threads -> Nat]
  /\ rem \in [Threads -> Int]
  /\ reply \in [Threads -> Reply]

(* The thread has the file of its page open for writing.                   *)
Writing(t) ==
  caching[t] /\ part[t] > 0 /\ pc[t] \in {"fwd", "recv", "recving", "finish"}

(* No thread sends a cached file, or opens it for writing, while another   *)
(* one is in the middle of writing it: the writer keeps the bucket's lock  *)
(* across all the packets of fetch_remote, and send_file_from_cache keeps  *)
(* the read lock until the file is sent.                                   *)
NoTornFile ==
  \A s, t \in Threads :
    s # t /\ Writing(t) /\ (pc[s] = "sending" \/ Writing(s)) => Key(s) # Key(t)

(* A chain never holds two nodes with one key, although a miss and the     *)
(* insertion that follows it are separated by a whole fetch during which   *)
(* other threads miss and fetch the same page.                             *)
UniqueKeys ==
  \A b \in Buckets : \A i, j \in DOMAIN chain[b] :
    nkey[chain[b][i]] = nkey[chain[b][j]] => i = j

(* The thread is going to read or write the node it holds a pointer to.    *)
UsesNode(t) ==
  /\ node[t] # None
  /\ \/ pc[t] \in {"ttl", "serve", "connect", "sendreq", "rem", "wlock", "wwait",
                    "open", "recheck"}
     \/ pc[t] \in {"recv", "recving"} /\ part[t] = 0
     \/ Writing(t)

(* get_cache_entry returns a node and drops the lock: no node in the table,*)
(* and none a thread is still to use, has been given to free_cache_node.   *)
NoUseAfterFree ==
  /\ \A b \in Buckets : \A i \in DOMAIN chain[b] : chain[b][i] \notin freed
  /\ \A t \in Threads : UsesNode(t) => node[t] \notin freed

(* A node in the table stands for a file that is there: check_ttl and      *)
(* send_file_from_cache have no way to recover when it is not.             *)
CachedOnDisk ==
  \A b \in Buckets : \A i \in DOMAIN chain[b] : page[nkey[chain[b][i]]] # None

(* No thread is between two requests with the semaphore or a bucket locked *)
(* for writing.  A request leaves a read lock behind only if its client got*)
(* no page, as when a cached file could not be opened, and no more than    *)
(* one.                                                                    *)
NothingLeaked ==
  \A t \in Threads : pc[t] = "done" =>
    /\ sock # t
    /\ \A b \in Buckets :
         /\ writer[b] # t
         /\ readers[b][t] <= served[t] - (IF reply[t].kind = "none" THEN 0 ELSE 1)

(* Threads walk a chain, and keep pointers into it, with no lock held: no  *)
(* step unlinks or moves a node that is in a chain.                        *)
ChainsOnlyGrow ==
  [][\A b \in Buckets : /\ Len(chain[b]) =< Len(chain'[b])
                        /\ chain[b] = SubSeq(chain'[b], 1, Len(chain[b]))]_vars

(* The packets of version v of page u.                                     *)
Whole(u, v) == [i \in 1..Parts[v] |-> <<u, v, i>>]

(* The client of a request that was served from the cache has received one *)
(* whole version of the page, and the Content-Length of that version; that *)
(* of one for which fetch_remote returned 0, the whole response.           *)
RepliesWhole ==
  \A t \in Threads : pc[t] = "done" =>
    /\ reply[t].kind = "cached" =>
         /\ reply[t].len = Len(reply[t].body)
         /\ \E u \in Urls, v \in 1..MaxVer : reply[t].body = Whole(u, v)
    /\ reply[t].kind = "remote" => reply[t].body = Whole(url[t], ver[t])

(* The Content-Length sent from the cache is the length of the body.       *)
ContentLengthCorrect ==
  \A t \in Threads : pc[t] = "done" /\ reply[t].kind = "cached" =>
    reply[t].len = Len(reply[t].body)

(* A page served from the cache is the page that was asked for.            *)
CachedReplyIsRequestedPage ==
  \A t \in Threads : pc[t] = "done" /\ reply[t].kind = "cached" =>
    \A i \in DOMAIN reply[t].body : reply[t].body[i][1] = url[t]

(* What fetch_remote relays, whatever goes wrong, is in order and skips    *)
(* none but the first packet, and that only of a page it cannot cache.     *)
RelayedInOrder ==
  \A t \in Threads : reply[t].kind \in {"remote", "status", "overrun"} =>
    LET b == reply[t].body IN
      \/ b = [i \in DOMAIN b |-> <<url[t], ver[t], i>>]
      \/ ~caching[t] /\ b = [i \in DOMAIN b |-> <<url[t], ver[t], i + 1>>]

(* Every accepted connection is answered: no cycle of threads waiting for  *)
(* the bucket locks and socket_sem forms.                                  *)
RequestsFinish == \A t \in Threads : pc[t] = "recvreq" ~> pc[t] = "done"

(* The content of a page, hidden while a thread writes its file, is what   *)
(* the store of PageStore holds, and a thread serving from the cache is a  *)
(* client of that store.                                                   *)
WholePages == {Whole(u, v) : u \in Urls, v \in 1..MaxVer}

Store == INSTANCE PageStore WITH
  Clients <- Threads,
  Contents <- WholePages,
  Absent <- None,
  Nothing <- <<>>,
  store <- [k \in Keys |->
              IF \E t \in Threads : Writing(t) /\ Key(t) = k THEN None ELSE page[k]],
  got <- [t \in Threads |->
            IF reply[t].kind = "cached" THEN reply[t].body ELSE <<>>]

StoreSpec == Store!Spec
=============================================================================
