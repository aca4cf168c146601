-------------------------- MODULE ProxyCacheProofs --------------------------
(***************************************************************************)
(* Proofs about ProxyCache, for any number of threads, pages and buckets.  *)
(*                                                                         *)
(* The inductive invariant is built in layers.  Each is proved to be kept  *)
(* by every step in a state that satisfies it and the layers before it.    *)
(*                                                                         *)
(* The first five are about the table, its nodes, files and locks; those   *)
(* from the sixth on about what a request leaves behind, what its client   *)
(* is sent, and that the cache is a PageStore.  Of the latter, the first   *)
(* two theorems hold whatever goes wrong; the others need an origin that   *)
(* neither closes early nor stalls, whose pages keep their lengths, and a  *)
(* proxy that can open its files: ProxyCacheLength and the README have     *)
(* what happens without.                                                   *)
(***************************************************************************)
EXTENDS ProxyCache, TLAPS

(* The places where a thread works on a request, and on a node.            *)
NodeAt == {"ttl", "serve", "sending", "sendreq", "recv", "recving", "rem", "wlock",
           "wwait", "open", "recheck", "fwd", "finish"}
UrlAt == NodeAt \cup {"lookup", "connect"}

(* Layer 1: what a thread has at each place of its code.                   *)
TypeOf1 ==
  /\ chain \in [Buckets -> Seq(Nodes)]
  /\ nkey \in [Nodes -> Keys \cup {None}]
  /\ filesize \in [Nodes -> Nat]
  /\ freed \subseteq Nodes
  /\ writer \in [Buckets -> Threads \cup {None}]
  /\ sock \in Threads \cup {None}
  /\ fresh \in [Keys -> BOOLEAN]
  /\ origin \in [Urls -> 1..MaxVer]
  /\ pc \in [Threads -> Locations]
  /\ served \in [Threads -> 0..MaxReq]
  /\ url \in [Threads -> Urls \cup {None}]
  /\ node \in [Threads -> Nodes \cup {None}]
  /\ caching \in [Threads -> BOOLEAN]
  /\ ver \in [Threads -> 1..MaxVer]
  /\ part \in [Threads -> Nat]
  /\ rem \in [Threads -> Int]

ThreadInv ==
  \A t \in Threads :
    /\ pc[t] # "idle" => served[t] \in 1..MaxReq
    /\ pc[t] \in UrlAt => url[t] \in Urls
    /\ pc[t] \in NodeAt => node[t] # None
    /\ pc[t] \in {"recvreq", "lookup"} => node[t] = None
    /\ pc[t] \in {"recvreq", "lookup", "ttl", "connect", "sendreq"} => part[t] = 0
    /\ pc[t] \in {"rem", "wlock", "wwait", "open", "recheck", "fwd"} => part[t] > 0
    /\ pc[t] = "recheck" => ~caching[t]
    /\ pc[t] = "finish" /\ caching[t] => part[t] > 0

(* Layer 2: a node in use or in a chain has been allocated, for its key.   *)
InChain(n) == \E b \in Buckets : \E i \in DOMAIN chain[b] : chain[b][i] = n

NodeInv ==
  \A t \in Threads : node[t] # None =>
    /\ url[t] \in Urls
    /\ nkey[node[t]] = Key(t)
    /\ node[t] = <<t, served[t]>> \/ InChain(node[t])

AllocInv ==
  \A t \in Threads : \A i \in 1..MaxReq : nkey[<<t, i>>] # None =>
    /\ i =< served[t]
    /\ i = served[t] => /\ pc[t] \notin {"recvreq", "lookup"}
                        /\ ~(pc[t] = "connect" /\ node[t] = None)

ChainInv ==
  \A b \in Buckets : \A i \in DOMAIN chain[b] :
    nkey[chain[b][i]] \in Keys /\ BucketOf[nkey[chain[b][i]]] = b

(* Layer 3: who holds the lock of a bucket.                                *)
Holds(t) == pc[t] = "open" \/ Writing(t)

LockInv ==
  /\ readers \in [Buckets -> [Threads -> Nat]]
  /\ \A t \in Threads : Holds(t) => writer[Bucket(t)] = t
  /\ \A t \in Threads : pc[t] = "sending" => readers[Bucket(t)][t] > 0
  /\ \A b \in Buckets : writer[b] # None => \A t \in Threads : readers[b][t] = 0

(* Layer 4: there is a file where one is read or written.                  *)
PageInv ==
  /\ page \in [Keys -> Seq(Packet) \cup {None}]
  /\ reply \in [Threads -> Reply]
  /\ \A t \in Threads : Writing(t) \/ pc[t] = "sending" => page[Key(t)] # None
  /\ CachedOnDisk

(* Layer 5: a node that was freed had been allocated.                      *)
FreedInv ==
  /\ \A n \in freed : nkey[n] # None
  /\ NoUseAfterFree
-----------------------------------------------------------------------------
(* What the assumption about the constants gives.                          *)
LEMMA ConstantsFacts ==
  /\ MaxVer \in Nat /\ 1 \in 1..MaxVer
  /\ \A v \in 1..MaxVer : Parts[v] \in Nat /\ Parts[v] > 0
  /\ \A u \in Urls : KeyOf[u] \in Keys
  /\ \A k \in Keys : BucketOf[k] \in Buckets
  /\ MaxReq \in Nat
  /\ None \notin Threads /\ None \notin Nodes /\ None \notin Urls /\ None \notin Keys
BY ConstantsAssumption DEF MaxVer

LEMMA NoneIsNoPage == None \notin Seq(Packet)
BY ConstantsAssumption

(* The key and the bucket of a thread at work.                             *)
LEMMA KeyType ==
  ASSUME TypeOf1, NEW t \in Threads, url[t] \in Urls
  PROVE  Key(t) \in Keys /\ Bucket(t) \in Buckets /\ chain[Bucket(t)] \in Seq(Nodes)
BY ConstantsFacts DEF TypeOf1, Key, Bucket

(* The bookkeeping of a thread: its types, and what it has where.          *)
Layer1 == TypeOf1 /\ ThreadInv

LEMMA Layer1Init == Init => Layer1
BY ConstantsAssumption, ConstantsFacts
DEF Init, Layer1, TypeOf1, ThreadInv, Locations, UrlAt, NodeAt

LEMMA Layer1Step == Layer1 /\ [Next]_vars => Layer1'
<1> SUFFICES ASSUME TypeOf1, ThreadInv, [Next]_vars PROVE Layer1'
  BY DEF Layer1
<1> USE ConstantsFacts
    DEF Layer1, cacheVars, lockVars, envVars, fetchVars, threadVars, Goto
<1>1. ASSUME NEW t \in Threads, Accept(t) PROVE Layer1'
  BY <1>1 DEF Accept, TypeOf1, ThreadInv, Locations, UrlAt, NodeAt
<1>2. ASSUME NEW t \in Threads, BadRequest(t) PROVE Layer1'
  BY <1>2 DEF BadRequest, TypeOf1, ThreadInv, Locations, UrlAt, NodeAt
<1>3. ASSUME NEW t \in Threads, GetCacheEntry(t) PROVE Layer1'
  <2>1. url[t] \in Urls
    BY <1>3 DEF GetCacheEntry, ThreadInv, UrlAt
  <2>2. \A i \in Matching(Bucket(t), Key(t)) : chain[Bucket(t)][i] \in Nodes
    BY <2>1, KeyType DEF Matching
  <2>3. node' \in [Threads -> Nodes \cup {None}]
    BY <1>3, <2>2 DEF GetCacheEntry, TypeOf1
  <2>4. pc' \in [Threads -> Locations]
    BY <1>3 DEF GetCacheEntry, TypeOf1, Locations
  <2>5. TypeOf1'
    BY <1>3, <2>3, <2>4 DEF GetCacheEntry, TypeOf1
  <2>6. ThreadInv'
    BY <1>3, <2>2 DEF GetCacheEntry, TypeOf1, ThreadInv, Locations, UrlAt, NodeAt
  <2>7. QED BY <2>5, <2>6
<1>4. ASSUME NEW t \in Threads, CheckTtl(t) PROVE Layer1'
  <2>1. PICK l \in {"serve", "connect", "done"} : pc' = [pc EXCEPT ![t] = l]
    BY <1>4 DEF CheckTtl
  <2>2. pc[t] = "ttl" /\ UNCHANGED <<cacheVars, writer, sock, envVars, fetchVars, served, url, node>>
    BY <1>4 DEF CheckTtl
  <2>3. QED BY <2>1, <2>2 DEF TypeOf1, ThreadInv, Locations, UrlAt, NodeAt
<1>5. ASSUME NEW t \in Threads, OpenCached(t) PROVE Layer1'
  <2>1. PICK l \in {"sending", "done"} : pc' = [pc EXCEPT ![t] = l]
    BY <1>5 DEF OpenCached
  <2>2. pc[t] = "serve" /\ UNCHANGED <<cacheVars, writer, sock, envVars, fetchVars, served, url, node>>
    BY <1>5 DEF OpenCached
  <2>3. QED BY <2>1, <2>2 DEF TypeOf1, ThreadInv, Locations, UrlAt, NodeAt
<1>6. ASSUME NEW t \in Threads, SendCached(t) PROVE Layer1'
  BY <1>6 DEF SendCached, TypeOf1, ThreadInv, Locations, UrlAt, NodeAt
<1>7. ASSUME NEW t \in Threads, SendError(t) PROVE Layer1'
  BY <1>7 DEF SendError, TypeOf1, ThreadInv, Locations, UrlAt, NodeAt
<1>8. ASSUME NEW t \in Threads, ConnectRemote(t) PROVE Layer1'
  <2>1. CASE pc' = [pc EXCEPT ![t] = "error"] /\ UNCHANGED <<nkey, node>>
    BY <1>8, <2>1 DEF ConnectRemote, TypeOf1, ThreadInv, Locations, UrlAt, NodeAt
  <2>2. CASE pc' = [pc EXCEPT ![t] = "sendreq"] /\ node[t] # None /\ UNCHANGED <<nkey, node>>
    BY <1>8, <2>2 DEF ConnectRemote, TypeOf1, ThreadInv, Locations, UrlAt, NodeAt
  <2>3. CASE /\ pc' = [pc EXCEPT ![t] = "sendreq"]
             /\ node' = [node EXCEPT ![t] = <<t, served[t]>>]
             /\ nkey' = [nkey EXCEPT ![<<t, served[t]>>] = Key(t)]
    <3>1. <<t, served[t]>> \in Nodes
      BY <1>8 DEF ConnectRemote, ThreadInv, Nodes
    <3>2. Key(t) \in Keys
      BY <1>8, KeyType DEF ConnectRemote, ThreadInv, UrlAt
    <3>3. nkey' \in [Nodes -> Keys \cup {None}] /\ node' \in [Threads -> Nodes \cup {None}]
      BY <2>3, <3>1, <3>2 DEF TypeOf1
    <3>4. TypeOf1'
      BY <1>8, <2>3, <3>3 DEF ConnectRemote, TypeOf1, Locations
    <3>5. ThreadInv'
      BY <1>8, <2>3, <3>1 DEF ConnectRemote, TypeOf1, ThreadInv, Locations, UrlAt, NodeAt
    <3>6. QED BY <3>4, <3>5
  <2>4. QED BY <1>8, <2>1, <2>2, <2>3 DEF ConnectRemote
<1>9. ASSUME NEW t \in Threads, SendRequest(t) PROVE Layer1'
  BY <1>9 DEF SendRequest, TypeOf1, ThreadInv, Locations, UrlAt, NodeAt
<1>10. ASSUME NEW t \in Threads, RecvEnter(t) PROVE Layer1'
  BY <1>10 DEF RecvEnter, TypeOf1, ThreadInv, Locations, UrlAt, NodeAt
<1>11. ASSUME NEW t \in Threads, RecvHeader(t) PROVE Layer1'
  <2>1. CASE /\ filesize' = [filesize EXCEPT ![node[t]] = Parts[ver[t]]]
             /\ part' = [part EXCEPT ![t] = 1]
             /\ pc' = [pc EXCEPT ![t] = "rem"]
             /\ UNCHANGED caching
    <3>1. filesize' \in [Nodes -> Nat]
      BY <2>1 DEF TypeOf1
    <3>2. QED BY <1>11, <2>1, <3>1 DEF RecvHeader, TypeOf1, ThreadInv, Locations, UrlAt, NodeAt
  <2>2. CASE /\ caching' = [caching EXCEPT ![t] = FALSE]
             /\ part' = [part EXCEPT ![t] = 1]
             /\ pc' = [pc EXCEPT ![t] = "rem"]
             /\ UNCHANGED filesize
    BY <1>11, <2>2 DEF RecvHeader, TypeOf1, ThreadInv, Locations, UrlAt, NodeAt
  <2>3. CASE pc' = [pc EXCEPT ![t] = "error"] /\ UNCHANGED <<filesize, caching, part>>
    BY <1>11, <2>3 DEF RecvHeader, TypeOf1, ThreadInv, Locations, UrlAt, NodeAt
  <2>4. QED BY <1>11, <2>1, <2>2, <2>3 DEF RecvHeader
<1>12. ASSUME NEW t \in Threads, RecvPacket(t) PROVE Layer1'
  <2>1. fresh' \in [Keys -> BOOLEAN]
    BY <1>12 DEF RecvPacket, TypeOf1
  <2>2. TypeOf1'
    BY <1>12, <2>1 DEF RecvPacket, TypeOf1, Locations
  <2>3. ThreadInv'
    <3>1. /\ pc[t] = "recving" /\ pc' = [pc EXCEPT ![t] = "fwd"]
          /\ part' = [part EXCEPT ![t] = part[t] + 1]
          /\ UNCHANGED <<served, url, node, caching>>
      BY <1>12 DEF RecvPacket
    <3>2. QED BY <3>1 DEF TypeOf1, ThreadInv, Locations, UrlAt, NodeAt
  <2>4. QED BY <2>2, <2>3
<1>13. ASSUME NEW t \in Threads, RecvEnd(t) PROVE Layer1'
  BY <1>13 DEF RecvEnd, TypeOf1, ThreadInv, Locations, UrlAt, NodeAt
<1>14. ASSUME NEW t \in Threads, ReadRem(t) PROVE Layer1'
  <2>1. node[t] \in Nodes
    BY <1>14 DEF ReadRem, TypeOf1, ThreadInv, NodeAt
  <2>2. rem' \in [Threads -> Int]
    BY <1>14, <2>1 DEF ReadRem, BytesRem, TypeOf1
  <2>3. PICK l \in {"wlock", "fwd"} : pc' = [pc EXCEPT ![t] = l]
    BY <1>14 DEF ReadRem
  <2>4. pc[t] = "rem" /\ UNCHANGED <<cacheVars, writer, sock, envVars, caching, ver, part, served, url, node>>
    BY <1>14 DEF ReadRem
  <2>5. QED BY <2>2, <2>3, <2>4 DEF TypeOf1, ThreadInv, Locations, UrlAt, NodeAt
<1>15. ASSUME NEW t \in Threads, WrLockEnter(t) PROVE Layer1'
  BY <1>15 DEF WrLockEnter, TypeOf1, ThreadInv, Locations, UrlAt, NodeAt
<1>16. ASSUME NEW t \in Threads, WrLock(t) PROVE Layer1'
  BY <1>16 DEF WrLock, WrLockTaken, TypeOf1, ThreadInv, Locations, UrlAt, NodeAt
<1>17. ASSUME NEW t \in Threads, OpenForWrite(t) PROVE Layer1'
  <2>1. url[t] \in Urls /\ node[t] \in Nodes
    BY <1>17 DEF OpenForWrite, TypeOf1, ThreadInv, UrlAt, NodeAt
  <2>2. chain' \in [Buckets -> Seq(Nodes)]
    <3>1. Bucket(t) \in Buckets /\ chain[Bucket(t)] \in Seq(Nodes)
      BY <2>1, KeyType
    <3>2. Append(chain[Bucket(t)], node[t]) \in Seq(Nodes)
      BY <2>1, <3>1
    <3>3. \/ chain' = chain
          \/ chain' = [chain EXCEPT ![Bucket(t)] = Append(chain[Bucket(t)], node[t])]
      BY <1>17 DEF OpenForWrite, AddCacheEntry
    <3>4. QED BY <3>1, <3>2, <3>3 DEF TypeOf1
  <2>3. fresh' \in [Keys -> BOOLEAN]
    BY <1>17 DEF OpenForWrite, TypeOf1
  <2>4. TypeOf1'
    BY <1>17, <2>2, <2>3 DEF OpenForWrite, TypeOf1, Locations
  <2>5. ThreadInv'
    BY <1>17 DEF OpenForWrite, TypeOf1, ThreadInv, Locations, UrlAt, NodeAt
  <2>6. QED BY <2>4, <2>5
<1>18. ASSUME NEW t \in Threads, OpenFails(t) PROVE Layer1'
  BY <1>18 DEF OpenFails, WrUnlock, TypeOf1, ThreadInv, Locations, UrlAt, NodeAt
<1>19. ASSUME NEW t \in Threads, FreeUncached(t) PROVE Layer1'
  BY <1>19 DEF FreeUncached, TypeOf1, ThreadInv, Locations, UrlAt, NodeAt
<1>20. ASSUME NEW t \in Threads, Forward(t) PROVE Layer1'
  BY <1>20 DEF Forward, TypeOf1, ThreadInv, Locations, UrlAt, NodeAt
<1>21. ASSUME NEW t \in Threads, Finish(t) PROVE Layer1'
  BY <1>21 DEF Finish, WrUnlock, TypeOf1, ThreadInv, Locations, UrlAt, NodeAt
<1>22. ASSUME NEW t \in Threads, NEW u \in Urls, Request(t, u) PROVE Layer1'
  BY <1>22 DEF Request, TypeOf1, ThreadInv, Locations, UrlAt, NodeAt
<1>23. ASSUME NEW u \in Urls, ChangePage(u) PROVE Layer1'
  BY <1>23 DEF ChangePage, TypeOf1, ThreadInv, Locations, UrlAt, NodeAt
<1>24. ASSUME NEW k \in Keys, Expire(k) PROVE Layer1'
  BY <1>24 DEF Expire, TypeOf1, ThreadInv, Locations, UrlAt, NodeAt
<1>25. CASE UNCHANGED vars
  BY <1>25 DEF vars, TypeOf1, ThreadInv, Locations, UrlAt, NodeAt
<1>26. QED
  BY <1>1, <1>2, <1>3, <1>4, <1>5, <1>6, <1>7, <1>8, <1>9, <1>10, <1>11, <1>12, <1>13, <1>14, <1>15, <1>16, <1>17, <1>18, <1>19, <1>20, <1>21, <1>22, <1>23, <1>24, <1>25
  DEF Next, HandleGet, FetchRemote, Terminating
-----------------------------------------------------------------------------
(* The chains change only when a node is appended to one of them.          *)
LEMMA ChainStep ==
  ASSUME TypeOf1, ThreadInv, [Next]_vars
  PROVE  \/ chain' = chain
         \/ \E t \in Threads :
              /\ OpenForWrite(t) /\ Matching(Bucket(t), Key(t)) = {}
              /\ chain' = [chain EXCEPT ![Bucket(t)] = Append(chain[Bucket(t)], node[t])]
<1> USE DEF cacheVars
<1>1. ASSUME NEW t \in Threads, HandleGet(t) PROVE chain' = chain
  BY <1>1 DEF HandleGet, BadRequest, GetCacheEntry, CheckTtl, OpenCached, SendCached,
              SendError, Request
<1>2. ASSUME NEW t \in Threads, FetchRemote(t), ~OpenForWrite(t) PROVE chain' = chain
  BY <1>2 DEF FetchRemote, ConnectRemote, SendRequest, RecvEnter, RecvHeader, RecvPacket,
              RecvEnd, ReadRem, WrLockEnter, WrLock, OpenFails, FreeUncached, Forward,
              Finish
<1>3. ASSUME NEW t \in Threads, Accept(t) PROVE chain' = chain
  BY <1>3 DEF Accept
<1>4. ASSUME NEW u \in Urls, ChangePage(u) PROVE chain' = chain
  BY <1>4 DEF ChangePage
<1>5. ASSUME NEW k \in Keys, Expire(k) PROVE chain' = chain
  BY <1>5 DEF Expire
<1>6. CASE UNCHANGED vars
  BY <1>6 DEF vars
<1>7. ASSUME NEW t \in Threads, OpenForWrite(t)
      PROVE  \/ chain' = chain
             \/ /\ Matching(Bucket(t), Key(t)) = {}
                /\ chain' = [chain EXCEPT ![Bucket(t)] = Append(chain[Bucket(t)], node[t])]
  BY <1>7 DEF OpenForWrite, AddCacheEntry
<1>8. QED
  BY <1>1, <1>2, <1>3, <1>4, <1>5, <1>6, <1>7 DEF Next, FetchRemote, Terminating

(* A thread that opens the file of its page holds a node.                  *)
LEMMA OpenHasNode ==
  ASSUME TypeOf1, ThreadInv, NEW t \in Threads, OpenForWrite(t)
  PROVE  /\ url[t] \in Urls /\ node[t] \in Nodes
         /\ Key(t) \in Keys /\ Bucket(t) \in Buckets
         /\ chain[Bucket(t)] \in Seq(Nodes)
BY KeyType DEF OpenForWrite, TypeOf1, ThreadInv, UrlAt, NodeAt

(* No step takes a node out of a chain or moves it: what check_ttl,        *)
(* send_file_from_cache and add_cache_entry find by walking a chain, and   *)
(* the nodes get_cache_entry has handed out, stay where they are.          *)
THEOREM NodesStayInChains == Spec => ChainsOnlyGrow
<1> DEFINE Grows == \A b \in Buckets :
             /\ Len(chain[b]) =< Len(chain'[b])
             /\ chain[b] = SubSeq(chain'[b], 1, Len(chain[b]))
<1>1. Layer1 /\ [Next]_vars => Grows
  <2> SUFFICES ASSUME TypeOf1, ThreadInv, [Next]_vars PROVE Grows
    BY DEF Layer1
  <2>1. CASE chain' = chain
    BY <2>1 DEF TypeOf1
  <2>2. ASSUME NEW t \in Threads, OpenForWrite(t),
               chain' = [chain EXCEPT ![Bucket(t)] = Append(chain[Bucket(t)], node[t])]
        PROVE  Grows
    <3> SUFFICES ASSUME NEW b \in Buckets
                 PROVE  /\ Len(chain[b]) =< Len(chain'[b])
                        /\ chain[b] = SubSeq(chain'[b], 1, Len(chain[b]))
      OBVIOUS
    <3>1. node[t] \in Nodes /\ chain[b] \in Seq(Nodes)
      BY <2>2, OpenHasNode DEF TypeOf1
    <3>2. chain'[b] = chain[b] \/ chain'[b] = Append(chain[b], node[t])
      BY <2>2 DEF TypeOf1
    <3>3. QED BY <3>1, <3>2
  <2>3. QED BY <2>1, <2>2, ChainStep
<1>2. QED
  BY <1>1, Layer1Init, Layer1Step, PTL DEF Spec, ChainsOnlyGrow
-----------------------------------------------------------------------------
(* Nodes and chains.                                                       *)
Layer2 == NodeInv /\ AllocInv /\ ChainInv /\ UniqueKeys

LEMMA Layer2Init == Init => Layer2
BY ConstantsFacts
DEF Init, Layer2, NodeInv, AllocInv, ChainInv, UniqueKeys, Nodes

(* Most steps leave nodes, chains and requests alone.                      *)
LEMMA Layer2Frame ==
  ASSUME Layer2, UNCHANGED <<chain, nkey, node, url, served>>,
         \A t \in Threads :
           /\ pc'[t] \in {"recvreq", "lookup"} => pc[t] \in {"recvreq", "lookup"}
           /\ pc'[t] = "connect" => pc[t] = "connect" \/ node[t] # None
  PROVE  Layer2'
<1>1. NodeInv'
  BY DEF Layer2, NodeInv, InChain, Key
<1>2. AllocInv'
  BY DEF Layer2, AllocInv
<1>3. ChainInv' /\ UniqueKeys'
  BY DEF Layer2, ChainInv, UniqueKeys
<1>4. QED BY <1>1, <1>2, <1>3 DEF Layer2

LEMMA Layer2Step == Layer1 /\ Layer2 /\ [Next]_vars => Layer2'
<1> SUFFICES ASSUME TypeOf1, ThreadInv, Layer2, [Next]_vars PROVE Layer2'
  BY DEF Layer1
<1> USE DEF cacheVars, envVars, fetchVars, threadVars, Goto
<1>1. ASSUME NEW t \in Threads,
             BadRequest(t) \/ CheckTtl(t) \/ OpenCached(t) \/ SendCached(t) \/ SendError(t)
      PROVE  Layer2'
  <2>1. UNCHANGED <<chain, nkey, node, url, served>>
    BY <1>1 DEF BadRequest, CheckTtl, OpenCached, SendCached, SendError
  <2>2. PICK l \in {"error", "serve", "connect", "done", "sending"} :
          /\ pc' = [pc EXCEPT ![t] = l]
          /\ l = "connect" => pc[t] = "ttl"
    BY <1>1 DEF BadRequest, CheckTtl, OpenCached, SendCached, SendError
  <2>3. QED BY <2>1, <2>2, Layer2Frame DEF TypeOf1, ThreadInv, NodeAt
<1>2. ASSUME NEW t \in Threads,
             \/ SendRequest(t) \/ RecvEnter(t) \/ RecvHeader(t) \/ RecvPacket(t)
             \/ RecvEnd(t) \/ ReadRem(t) \/ WrLockEnter(t) \/ WrLock(t) \/ OpenFails(t)
             \/ FreeUncached(t) \/ Forward(t) \/ Finish(t)
      PROVE  Layer2'
  <2>1. UNCHANGED <<chain, nkey, node, url, served>>
    BY <1>2 DEF SendRequest, RecvEnter, RecvHeader, RecvPacket, RecvEnd, ReadRem,
                WrLockEnter, WrLock, OpenFails, FreeUncached, Forward, Finish
  <2>2. PICK l \in Locations \ {"recvreq", "lookup", "connect"} :
          pc' = [pc EXCEPT ![t] = l]
    BY <1>2 DEF SendRequest, RecvEnter, RecvHeader, RecvPacket, RecvEnd, ReadRem,
                WrLockEnter, WrLock, OpenFails, FreeUncached, Forward, Finish, Locations
  <2>3. QED BY <2>1, <2>2, Layer2Frame DEF TypeOf1
<1>3. CASE UNCHANGED <<chain, nkey, node, url, served, pc>>
  BY <1>3, Layer2Frame
<1>4. ASSUME NEW t \in Threads, Accept(t) PROVE Layer2'
  <2>1. /\ served' = [served EXCEPT ![t] = served[t] + 1]
        /\ url' = [url EXCEPT ![t] = None]
        /\ node' = [node EXCEPT ![t] = None]
        /\ pc' = [pc EXCEPT ![t] = "recvreq"]
        /\ UNCHANGED <<chain, nkey>>
    BY <1>4 DEF Accept
  <2>2. NodeInv'
    BY <2>1 DEF Layer2, NodeInv, InChain, Key, TypeOf1
  <2>3. AllocInv'
    BY <2>1, ConstantsFacts DEF Layer2, AllocInv, TypeOf1
  <2>4. ChainInv' /\ UniqueKeys'
    BY <2>1 DEF Layer2, ChainInv, UniqueKeys
  <2>5. QED BY <2>2, <2>3, <2>4 DEF Layer2
<1>5. ASSUME NEW t \in Threads, NEW u \in Urls, Request(t, u) PROVE Layer2'
  <2>1. /\ url' = [url EXCEPT ![t] = u]
        /\ pc[t] = "recvreq" /\ pc' = [pc EXCEPT ![t] = "lookup"]
        /\ UNCHANGED <<chain, nkey, node, served>>
    BY <1>5 DEF Request
  <2>2. NodeInv'
    BY <2>1 DEF Layer2, NodeInv, InChain, Key, TypeOf1, ThreadInv
  <2>3. AllocInv'
    BY <2>1 DEF Layer2, AllocInv, TypeOf1
  <2>4. ChainInv' /\ UniqueKeys'
    BY <2>1 DEF Layer2, ChainInv, UniqueKeys
  <2>5. QED BY <2>2, <2>3, <2>4 DEF Layer2
<1>6. ASSUME NEW t \in Threads, GetCacheEntry(t) PROVE Layer2'
  <2>1. pc[t] = "lookup" /\ node[t] = None /\ url[t] \in Urls /\ Bucket(t) \in Buckets
    BY <1>6, KeyType DEF GetCacheEntry, ThreadInv, UrlAt
  <2>2. UNCHANGED <<chain, nkey, url, served>>
    BY <1>6 DEF GetCacheEntry
  <2>3. CASE pc' = [pc EXCEPT ![t] = "connect"] /\ UNCHANGED node
    <3>1. NodeInv'
      BY <2>2, <2>3 DEF Layer2, NodeInv, InChain, Key
    <3>2. AllocInv'
      BY <2>1, <2>2, <2>3 DEF Layer2, AllocInv, TypeOf1
    <3>3. ChainInv' /\ UniqueKeys'
      BY <2>2 DEF Layer2, ChainInv, UniqueKeys
    <3>4. QED BY <3>1, <3>2, <3>3 DEF Layer2
  <2>4. ASSUME NEW i \in Matching(Bucket(t), Key(t)),
               node' = [node EXCEPT ![t] = chain[Bucket(t)][i]],
               pc' = [pc EXCEPT ![t] = "ttl"]
        PROVE  Layer2'
    <3>1. /\ i \in DOMAIN chain[Bucket(t)]
          /\ nkey[chain[Bucket(t)][i]] = Key(t)
          /\ InChain(chain[Bucket(t)][i])
      BY <2>1, <2>4 DEF Matching, InChain
    <3>2. NodeInv'
      BY <2>1, <2>2, <2>4, <3>1 DEF Layer2, NodeInv, InChain, Key, TypeOf1
    <3>3. AllocInv'
      BY <2>1, <2>2, <2>4 DEF Layer2, AllocInv, TypeOf1
    <3>4. ChainInv' /\ UniqueKeys'
      BY <2>2 DEF Layer2, ChainInv, UniqueKeys
    <3>5. QED BY <3>2, <3>3, <3>4 DEF Layer2
  <2>5. QED BY <1>6, <2>3, <2>4 DEF GetCacheEntry
<1>7. ASSUME NEW t \in Threads, ConnectRemote(t) PROVE Layer2'
  <2>1. pc[t] = "connect" /\ url[t] \in Urls /\ Key(t) \in Keys
    BY <1>7, KeyType DEF ConnectRemote, ThreadInv, UrlAt
  <2>2. UNCHANGED <<chain, url, served>>
    BY <1>7 DEF ConnectRemote
  <2>3. CASE pc' = [pc EXCEPT ![t] = "error"] /\ UNCHANGED <<nkey, node>>
    BY <2>2, <2>3, Layer2Frame DEF TypeOf1
  <2>4. CASE pc' = [pc EXCEPT ![t] = "sendreq"] /\ UNCHANGED <<nkey, node>>
    BY <2>2, <2>4, Layer2Frame DEF TypeOf1
  <2>5. CASE /\ node[t] = None
             /\ pc' = [pc EXCEPT ![t] = "sendreq"]
             /\ node' = [node EXCEPT ![t] = <<t, served[t]>>]
             /\ nkey' = [nkey EXCEPT ![<<t, served[t]>>] = Key(t)]
    <3> DEFINE n == <<t, served[t]>>
    <3>1. served[t] \in 1..MaxReq /\ n \in Nodes
      BY <2>1 DEF ThreadInv, Nodes
    <3>2. nkey[n] = None
      BY <2>1, <2>5, <3>1 DEF Layer2, AllocInv
    <3>3. \A s \in Threads : s # t /\ node[s] # None => node[s] # n
      BY <3>2, KeyType, ConstantsFacts DEF Layer2, NodeInv
    <3>4. \A b \in Buckets : \A i \in DOMAIN chain[b] : chain[b][i] # n
      BY <3>2, ConstantsFacts DEF Layer2, ChainInv
    <3>5. \A m \in Nodes : m # n => nkey'[m] = nkey[m]
      BY <2>5 DEF TypeOf1
    <3>6. nkey'[n] = Key(t)
      BY <2>5, <3>1 DEF TypeOf1
    <3>7. NodeInv'
      <4> SUFFICES ASSUME NEW s \in Threads, node'[s] # None
                   PROVE  /\ url[s] \in Urls
                          /\ nkey'[node'[s]] = Key(s)
                          /\ node'[s] = <<s, served[s]>> \/ InChain(node'[s])
        BY <2>2 DEF NodeInv, InChain, Key
      <4>1. CASE s = t
        BY <2>1, <2>5, <3>6, <4>1 DEF TypeOf1
      <4>2. CASE s # t
        <5>1. node'[s] = node[s] /\ node[s] \in Nodes
          BY <2>5, <4>2 DEF TypeOf1
        <5>2. QED BY <3>3, <3>5, <4>2, <5>1 DEF Layer2, NodeInv
      <4>3. QED BY <4>1, <4>2
    <3>8. AllocInv'
      <4> SUFFICES ASSUME NEW s \in Threads, NEW i \in 1..MaxReq,
                          nkey'[<<s, i>>] # None
                   PROVE  /\ i =< served[s]
                          /\ i = served[s] => /\ pc'[s] \notin {"recvreq", "lookup"}
                                              /\ ~(pc'[s] = "connect" /\ node'[s] = None)
        BY <2>2 DEF AllocInv
      <4>1. CASE s = t
        BY <2>5, <3>1, <3>5, <4>1 DEF Layer2, AllocInv, TypeOf1, Nodes
      <4>2. CASE s # t
        BY <2>5, <3>5, <4>2 DEF Layer2, AllocInv, TypeOf1, Nodes
      <4>3. QED BY <4>1, <4>2
    <3>9. ChainInv' /\ UniqueKeys'
      <4>1. \A b \in Buckets : \A i \in DOMAIN chain[b] :
              nkey'[chain[b][i]] = nkey[chain[b][i]]
        <5> SUFFICES ASSUME NEW b \in Buckets, NEW i \in DOMAIN chain[b]
                     PROVE  nkey'[chain[b][i]] = nkey[chain[b][i]]
          OBVIOUS
        <5>1. chain[b] \in Seq(Nodes)
          BY DEF TypeOf1
        <5>2. chain[b][i] \in Nodes
          BY <5>1
        <5>3. QED BY <3>4, <3>5, <5>2
      <4>2. QED BY <2>2, <4>1 DEF Layer2, ChainInv, UniqueKeys
    <3>10. QED BY <3>7, <3>8, <3>9 DEF Layer2
  <2>6. QED BY <1>7, <2>3, <2>4, <2>5 DEF ConnectRemote
<1>8. ASSUME NEW t \in Threads, OpenForWrite(t) PROVE Layer2'
  <2>1. UNCHANGED <<nkey, node, url, served>> /\ pc' = [pc EXCEPT ![t] = "fwd"]
    BY <1>8 DEF OpenForWrite
  <2>2. CASE chain' = chain
    BY <2>1, <2>2, Layer2Frame DEF TypeOf1
  <2>3. CASE /\ Matching(Bucket(t), Key(t)) = {}
             /\ chain' = [chain EXCEPT ![Bucket(t)] = Append(chain[Bucket(t)], node[t])]
    <3>1. node[t] \in Nodes /\ Key(t) \in Keys /\ Bucket(t) \in Buckets
      BY <1>8, OpenHasNode
    <3>2. nkey[node[t]] = Key(t)
      BY <3>1, ConstantsFacts DEF Layer2, NodeInv
    <3>3. \A b \in Buckets :
            /\ chain[b] \in Seq(Nodes)
            /\ b # Bucket(t) => chain'[b] = chain[b]
            /\ b = Bucket(t) => chain'[b] = Append(chain[b], node[t])
      BY <2>3, <3>1 DEF TypeOf1
    <3>4. \A b \in Buckets :
            /\ DOMAIN chain[b] \subseteq DOMAIN chain'[b]
            /\ \A i \in DOMAIN chain[b] : chain'[b][i] = chain[b][i]
            /\ \A i \in DOMAIN chain'[b] \ DOMAIN chain[b] :
                 b = Bucket(t) /\ chain'[b][i] = node[t] /\ i = Len(chain[b]) + 1
      <4> SUFFICES ASSUME NEW b \in Buckets
                   PROVE  /\ DOMAIN chain[b] \subseteq DOMAIN chain'[b]
                          /\ \A i \in DOMAIN chain[b] : chain'[b][i] = chain[b][i]
                          /\ \A i \in DOMAIN chain'[b] \ DOMAIN chain[b] :
                               /\ b = Bucket(t)
                               /\ chain'[b][i] = node[t] /\ i = Len(chain[b]) + 1
        OBVIOUS
      <4>1. CASE b # Bucket(t)
        BY <3>3, <4>1
      <4>2. CASE b = Bucket(t)
        <5>1. chain[b] \in Seq(Nodes) /\ chain'[b] = Append(chain[b], node[t])
          BY <3>3, <4>2
        <5>2. QED BY <3>1, <4>2, <5>1
      <4>3. QED BY <4>1, <4>2
    <3>5. NodeInv'
      <4>1. \A n : InChain(n) => InChain(n)'
        BY <3>4 DEF InChain
      <4>2. QED BY <2>1, <4>1 DEF Layer2, NodeInv, Key
    <3>6. AllocInv'
      BY <2>1 DEF Layer2, AllocInv, TypeOf1
    <3>7. ChainInv'
      BY <2>1, <3>1, <3>2, <3>4 DEF Layer2, ChainInv, Bucket
    <3>8. UniqueKeys'
      <4> SUFFICES ASSUME NEW b \in Buckets, NEW i \in DOMAIN chain'[b],
                          NEW j \in DOMAIN chain'[b],
                          nkey[chain'[b][i]] = nkey[chain'[b][j]]
                   PROVE  i = j
        BY <2>1 DEF UniqueKeys
      <4>1. \A k \in DOMAIN chain[Bucket(t)] : nkey[chain[Bucket(t)][k]] # Key(t)
        BY <2>3 DEF Matching
      <4>2. QED BY <3>2, <3>4, <4>1 DEF Layer2, UniqueKeys
    <3>9. QED BY <3>5, <3>6, <3>7, <3>8 DEF Layer2
  <2>4. QED BY <1>8, <2>2, <2>3 DEF OpenForWrite, AddCacheEntry
<1>9. ASSUME NEW u \in Urls, ChangePage(u) PROVE Layer2'
  BY <1>3, <1>9 DEF ChangePage
<1>10. ASSUME NEW k \in Keys, Expire(k) PROVE Layer2'
  BY <1>3, <1>10 DEF Expire
<1>11. CASE UNCHANGED vars
  BY <1>3, <1>11 DEF vars
<1>12. QED
  BY <1>1, <1>2, <1>4, <1>5, <1>6, <1>7, <1>8, <1>9, <1>10, <1>11
  DEF Next, HandleGet, FetchRemote, Terminating

(* A miss and the insertion that follows it are far apart, and many        *)
(* threads may miss the same page; still no chain holds a key twice,       *)
(* because add_cache_entry_non_block searches it under the write lock.     *)
THEOREM KeysAreUnique == Spec => []UniqueKeys
<1>1. Layer1 /\ Layer2 /\ [Next]_vars => (Layer1 /\ Layer2)'
  BY Layer1Step, Layer2Step
<1>2. Layer2 => UniqueKeys
  BY DEF Layer2
<1>3. QED
  BY <1>1, <1>2, Layer1Init, Layer2Init, PTL DEF Spec
-----------------------------------------------------------------------------
(* The lock of a bucket.                                                   *)
LEMMA Layer3Init == Init => LockInv
BY ConstantsFacts DEF Init, LockInv, Holds, Writing

(* A step of t that neither takes nor gives a lock, and after which t does *)
(* not need one it does not have.                                          *)
LEMMA LockFrame ==
  ASSUME LockInv, NEW t \in Threads, UNCHANGED <<readers, writer>>,
         \A s \in Threads \ {t} :
           pc'[s] = pc[s] /\ url'[s] = url[s] /\ caching'[s] = caching[s] /\ part'[s] = part[s],
         Holds(t)' => Holds(t) /\ url'[t] = url[t],
         pc'[t] # "sending"
  PROVE  LockInv'
<1>1. \A s \in Threads : Holds(s)' => Holds(s) /\ url'[s] = url[s]
  BY DEF Holds, Writing
<1>2. \A s \in Threads : pc'[s] = "sending" => pc[s] = "sending" /\ url'[s] = url[s]
  OBVIOUS
<1>3. QED BY <1>1, <1>2 DEF LockInv, Bucket, Key

LEMMA Layer3Step == Layer1 /\ LockInv /\ [Next]_vars => LockInv'
<1> SUFFICES ASSUME TypeOf1, ThreadInv, LockInv, [Next]_vars PROVE LockInv'
  BY DEF Layer1
<1> USE DEF lockVars, fetchVars, threadVars, Goto
<1>1. ASSUME NEW t \in Threads,
             \/ Accept(t) \/ BadRequest(t) \/ GetCacheEntry(t) \/ CheckTtl(t)
             \/ SendError(t) \/ ConnectRemote(t) \/ SendRequest(t) \/ RecvEnter(t)
             \/ \E u \in Urls : Request(t, u)
      PROVE  LockInv'
  <2>1. UNCHANGED <<readers, writer>>
    BY <1>1 DEF Accept, BadRequest, GetCacheEntry, CheckTtl, SendError, ConnectRemote,
                SendRequest, RecvEnter, Request
  <2>2. \A s \in Threads \ {t} :
          pc'[s] = pc[s] /\ url'[s] = url[s] /\ caching'[s] = caching[s] /\ part'[s] = part[s]
    BY <1>1 DEF Accept, BadRequest, GetCacheEntry, CheckTtl, SendError, ConnectRemote,
                SendRequest, RecvEnter, Request, TypeOf1
  <2>3. Holds(t)' => Holds(t) /\ url'[t] = url[t]
    <3>1. CASE RecvEnter(t)
      BY <3>1 DEF RecvEnter, Holds, Writing, TypeOf1
    <3>2. CASE SendRequest(t)
      BY <3>2 DEF SendRequest, Holds, Writing, TypeOf1, ThreadInv
    <3>3. CASE ~RecvEnter(t) /\ ~SendRequest(t)
      <4>1. pc'[t] \in {"recvreq", "error", "connect", "ttl", "serve", "done", "sendreq",
                        "lookup"}
        BY <1>1, <3>3 DEF Accept, BadRequest, GetCacheEntry, CheckTtl, SendError,
                          ConnectRemote, Request, TypeOf1
      <4>2. QED BY <4>1 DEF Holds, Writing
    <3>4. QED BY <3>1, <3>2, <3>3
  <2>4. pc'[t] # "sending"
    BY <1>1 DEF Accept, BadRequest, GetCacheEntry, CheckTtl, SendError, ConnectRemote,
                SendRequest, RecvEnter, Request, TypeOf1
  <2>5. QED BY <2>1, <2>2, <2>3, <2>4, LockFrame
<1>2. ASSUME NEW t \in Threads,
             \/ RecvHeader(t) \/ RecvPacket(t) \/ RecvEnd(t) \/ ReadRem(t)
             \/ WrLockEnter(t) \/ OpenForWrite(t) \/ FreeUncached(t) \/ Forward(t)
      PROVE  LockInv'
  <2>1. UNCHANGED <<readers, writer, url>>
    BY <1>2 DEF RecvHeader, RecvPacket, RecvEnd, ReadRem, WrLockEnter, OpenForWrite,
                FreeUncached, Forward
  <2>2. \A s \in Threads \ {t} :
          pc'[s] = pc[s] /\ caching'[s] = caching[s] /\ part'[s] = part[s]
    BY <1>2 DEF RecvHeader, RecvPacket, RecvEnd, ReadRem, WrLockEnter, OpenForWrite,
                FreeUncached, Forward, TypeOf1
  <2>3. Holds(t)' => Holds(t)
    <3>1. CASE RecvHeader(t) \/ WrLockEnter(t)
      BY <3>1 DEF RecvHeader, WrLockEnter, Holds, Writing, TypeOf1
    <3>2. CASE RecvPacket(t)
      BY <3>2 DEF RecvPacket, Holds, Writing, TypeOf1
    <3>3. CASE RecvEnd(t)
      BY <3>3 DEF RecvEnd, Holds, Writing, TypeOf1
    <3>4. CASE ReadRem(t)
      BY <3>4 DEF ReadRem, Holds, Writing, TypeOf1
    <3>5. CASE OpenForWrite(t)
      BY <3>5 DEF OpenForWrite, Holds
    <3>6. CASE FreeUncached(t)
      BY <3>6 DEF FreeUncached, Holds, Writing, TypeOf1, ThreadInv
    <3>7. CASE Forward(t)
      BY <3>7 DEF Forward, Holds, Writing, TypeOf1
    <3>8. QED BY <1>2, <3>1, <3>2, <3>3, <3>4, <3>5, <3>6, <3>7
  <2>4. pc'[t] # "sending"
    BY <1>2 DEF RecvHeader, RecvPacket, RecvEnd, ReadRem, WrLockEnter, OpenForWrite,
                FreeUncached, Forward, TypeOf1
  <2>5. QED BY <2>1, <2>2, <2>3, <2>4, LockFrame
<1>3. CASE UNCHANGED <<readers, writer, url, pc, caching, part>>
  BY <1>3 DEF LockInv, Holds, Writing, Bucket, Key
<1>4. ASSUME NEW t \in Threads, OpenCached(t) PROVE LockInv'
  <2>1. /\ pc[t] = "serve" /\ url[t] \in Urls /\ Bucket(t) \in Buckets
        /\ writer[Bucket(t)] = None
    BY <1>4, KeyType DEF OpenCached, CanRead, ThreadInv, UrlAt, NodeAt
  <2>2. /\ readers' = [readers EXCEPT ![Bucket(t)][t] = @ + 1]
        /\ UNCHANGED <<writer, url, caching, part>>
    BY <1>4 DEF OpenCached, RdLock
  <2>3. PICK l \in {"sending", "done"} : pc' = [pc EXCEPT ![t] = l]
    BY <1>4 DEF OpenCached
  <2>4. readers' \in [Buckets -> [Threads -> Nat]]
    BY <2>1, <2>2 DEF LockInv
  <2>5. \A s \in Threads : Holds(s)' => writer'[Bucket(s)'] = s
    BY <2>1, <2>2, <2>3 DEF LockInv, Holds, Writing, Bucket, Key, TypeOf1
  <2>6. \A s \in Threads : pc'[s] = "sending" => readers'[Bucket(s)'][s] > 0
    <3> SUFFICES ASSUME NEW s \in Threads, pc'[s] = "sending"
                 PROVE  readers'[Bucket(s)][s] > 0
      BY <2>2 DEF Bucket, Key
    <3>1. CASE s = t
      BY <2>1, <2>2, <3>1 DEF LockInv
    <3>2. CASE s # t
      <4>1. readers[Bucket(s)][s] > 0 /\ Bucket(s) \in Buckets
        BY <2>3, <3>2, KeyType DEF LockInv, TypeOf1, ThreadInv, UrlAt, NodeAt
      <4>2. QED BY <2>1, <2>2, <3>2, <4>1 DEF LockInv
    <3>3. QED BY <3>1, <3>2
  <2>7. \A b \in Buckets : writer'[b] # None => \A s \in Threads : readers'[b][s] = 0
    BY <2>1, <2>2 DEF LockInv
  <2>8. QED BY <2>4, <2>5, <2>6, <2>7 DEF LockInv
<1>5. ASSUME NEW t \in Threads, SendCached(t) PROVE LockInv'
  <2>1. /\ pc[t] = "sending" /\ url[t] \in Urls /\ Bucket(t) \in Buckets
        /\ readers[Bucket(t)][t] > 0
    BY <1>5, KeyType DEF SendCached, LockInv, ThreadInv, UrlAt, NodeAt
  <2>2. /\ readers' = [readers EXCEPT ![Bucket(t)][t] = @ - 1]
        /\ pc' = [pc EXCEPT ![t] = "done"]
        /\ UNCHANGED <<writer, url, caching, part>>
    BY <1>5 DEF SendCached, RdUnlock
  <2>3. readers' \in [Buckets -> [Threads -> Nat]]
    BY <2>1, <2>2 DEF LockInv
  <2>4. \A s \in Threads : Holds(s)' => writer'[Bucket(s)'] = s
    BY <2>1, <2>2 DEF LockInv, Holds, Writing, Bucket, Key, TypeOf1
  <2>5. \A s \in Threads : pc'[s] = "sending" => readers'[Bucket(s)'][s] > 0
    BY <2>1, <2>2 DEF LockInv, Bucket, Key, TypeOf1
  <2>6. \A b \in Buckets : writer'[b] # None => \A s \in Threads : readers'[b][s] = 0
    BY <2>1, <2>2 DEF LockInv
  <2>7. QED BY <2>3, <2>4, <2>5, <2>6 DEF LockInv
<1>6. ASSUME NEW t \in Threads, WrLock(t) PROVE LockInv'
  <2>1. /\ pc[t] = "wwait" /\ Bucket(t) \in Buckets
        /\ writer[Bucket(t)] = None
        /\ \A s \in Threads : readers[Bucket(t)][s] = 0
    BY <1>6, KeyType DEF WrLock, CanWrite, ThreadInv, UrlAt, NodeAt
  <2>2. /\ writer' = [writer EXCEPT ![Bucket(t)] = t]
        /\ pc' = [pc EXCEPT ![t] = "open"]
        /\ UNCHANGED <<readers, url, caching, part>>
    BY <1>6 DEF WrLock, WrLockTaken
  <2>3. \A s \in Threads : Holds(s)' => writer'[Bucket(s)'] = s
    BY <2>1, <2>2, ConstantsFacts DEF LockInv, Holds, Writing, Bucket, Key, TypeOf1
  <2>4. \A s \in Threads : pc'[s] = "sending" => readers'[Bucket(s)'][s] > 0
    BY <2>1, <2>2 DEF LockInv, Bucket, Key, TypeOf1
  <2>5. \A b \in Buckets : writer'[b] # None => \A s \in Threads : readers'[b][s] = 0
    BY <2>1, <2>2 DEF LockInv, TypeOf1
  <2>6. QED BY <2>2, <2>3, <2>4, <2>5 DEF LockInv
<1>7. ASSUME NEW t \in Threads, OpenFails(t) \/ Finish(t) PROVE LockInv'
  <2>1. url[t] \in Urls /\ Bucket(t) \in Buckets
    BY <1>7, KeyType DEF OpenFails, Finish, ThreadInv, UrlAt, NodeAt
  <2>2. /\ UNCHANGED <<readers, url, part>>
        /\ ~Holds(t)' /\ pc'[t] # "sending"
        /\ \A s \in Threads \ {t} : pc'[s] = pc[s] /\ caching'[s] = caching[s]
    BY <1>7 DEF OpenFails, Finish, Holds, Writing, TypeOf1
  <2>3. CASE UNCHANGED writer
    BY <2>2, <2>3, LockFrame
  <2>4. CASE Holds(t) /\ writer' = [writer EXCEPT ![Bucket(t)] = None]
    <3>1. writer[Bucket(t)] = t
      BY <2>4 DEF LockInv
    <3>2. \A s \in Threads : Holds(s)' => writer'[Bucket(s)'] = s
      <4> SUFFICES ASSUME NEW s \in Threads, Holds(s)' PROVE writer'[Bucket(s)] = s
        BY <2>2 DEF Bucket, Key
      <4>1. s # t /\ Holds(s)
        BY <2>2 DEF Holds, Writing
      <4>2. writer[Bucket(s)] = s /\ Bucket(s) # Bucket(t)
        BY <3>1, <4>1 DEF LockInv
      <4>3. QED BY <2>1, <2>4, <4>2 DEF TypeOf1
    <3>3. \A s \in Threads : pc'[s] = "sending" => readers'[Bucket(s)'][s] > 0
      BY <2>2 DEF LockInv, Bucket, Key
    <3>4. \A b \in Buckets : writer'[b] # None => \A s \in Threads : readers'[b][s] = 0
      BY <2>1, <2>2, <2>4 DEF LockInv, TypeOf1
    <3>5. QED BY <2>2, <3>2, <3>3, <3>4 DEF LockInv
  <2>5. QED
    BY <1>7, <2>3, <2>4 DEF OpenFails, Finish, WrUnlock, Holds, Writing, ThreadInv
<1>8. ASSUME NEW u \in Urls, ChangePage(u) PROVE LockInv'
  BY <1>3, <1>8 DEF ChangePage
<1>9. ASSUME NEW k \in Keys, Expire(k) PROVE LockInv'
  BY <1>3, <1>9 DEF Expire
<1>10. CASE UNCHANGED vars
  BY <1>3, <1>10 DEF vars
<1>11. QED
  BY <1>1, <1>2, <1>4, <1>5, <1>6, <1>7, <1>8, <1>9, <1>10
  DEF Next, HandleGet, FetchRemote, Terminating

(* The writer of a file has its bucket to itself for as long as it writes, *)
(* across all the packets of the origin, so nobody reads a file that is    *)
(* written to, and no two threads write one file.                          *)
THEOREM NoFileIsTorn == Spec => []NoTornFile
<1>1. Layer1 /\ LockInv => NoTornFile
  <2> SUFFICES ASSUME TypeOf1, ThreadInv, LockInv, NEW s \in Threads, NEW t \in Threads,
                      s # t, Writing(t), pc[s] = "sending" \/ Writing(s),
                      Key(s) = Key(t)
               PROVE  FALSE
    BY DEF Layer1, NoTornFile
  <2>1. Bucket(s) = Bucket(t) /\ Bucket(t) \in Buckets
    BY KeyType DEF Writing, ThreadInv, UrlAt, NodeAt, Bucket
  <2>2. writer[Bucket(t)] = t
    BY DEF LockInv, Holds
  <2>3. CASE Writing(s)
    BY <2>1, <2>2, <2>3 DEF LockInv, Holds
  <2>4. CASE pc[s] = "sending"
    BY <2>1, <2>2, <2>4, ConstantsFacts DEF LockInv
  <2>5. QED BY <2>3, <2>4
<1>2. Layer1 /\ LockInv /\ [Next]_vars => (Layer1 /\ LockInv)'
  BY Layer1Step, Layer3Step
<1>3. QED
  BY <1>1, <1>2, Layer1Init, Layer3Init, PTL DEF Spec
-----------------------------------------------------------------------------
(* The files and the replies.                                              *)
LEMMA PacketType ==
  ASSUME TypeOf1, NEW t \in Threads, url[t] \in Urls, NEW n \in Nat
  PROVE  <<url[t], ver[t], n>> \in Packet
BY DEF TypeOf1, Packet

LEMMA Layer4Init == Init => PageInv
BY ConstantsFacts
DEF Init, PageInv, Writing, CachedOnDisk, Reply, NoReply

(* Files are written by three actions, and none is removed.                *)
LEMMA PagesStay ==
  ASSUME TypeOf1, ThreadInv, PageInv, [Next]_vars
  PROVE  /\ page' \in [Keys -> Seq(Packet) \cup {None}]
         /\ \A k \in Keys : page[k] # None => page'[k] # None
<1> USE DEF envVars
<1>1. CASE page' = page
  BY <1>1 DEF PageInv
<1>2. ASSUME NEW t \in Threads, RecvPacket(t) \/ RecvEnd(t) \/ OpenForWrite(t)
      PROVE  /\ page' \in [Keys -> Seq(Packet) \cup {None}]
             /\ \A k \in Keys : page[k] # None => page'[k] # None
  <2>1. url[t] \in Urls /\ Key(t) \in Keys
    BY <1>2, KeyType DEF RecvPacket, RecvEnd, OpenForWrite, ThreadInv, UrlAt, NodeAt
  <2>2. /\ <<url[t], ver[t], part[t] + 1>> \in Packet
        /\ <<url[t], ver[t], part[t]>> \in Packet
        /\ <<url[t], ver[t], 1>> \in Packet
    BY <2>1, PacketType DEF TypeOf1
  <2>3. CASE page' = page
    BY <2>3 DEF PageInv
  <2>4. ASSUME NEW e \in Packet, page[Key(t)] # None,
               page' = [page EXCEPT ![Key(t)] = Append(page[Key(t)], e)]
        PROVE  /\ page' \in [Keys -> Seq(Packet) \cup {None}]
               /\ \A k \in Keys : page[k] # None => page'[k] # None
    <3>1. Append(page[Key(t)], e) \in Seq(Packet)
      BY <2>1, <2>4 DEF PageInv
    <3>2. QED BY <2>1, <2>4, <3>1, NoneIsNoPage DEF PageInv
  <2>5. CASE page' = [page EXCEPT ![Key(t)] = << <<url[t], ver[t], 1>> >>]
    <3>1. << <<url[t], ver[t], 1>> >> \in Seq(Packet)
      BY <2>2
    <3>2. QED BY <2>1, <2>5, <3>1, NoneIsNoPage DEF PageInv
  <2>6. Writing(t) => page[Key(t)] # None
    BY DEF PageInv
  <2>7. CASE RecvPacket(t)
    BY <2>2, <2>3, <2>4, <2>6, <2>7 DEF RecvPacket, Writing
  <2>8. CASE RecvEnd(t)
    BY <2>2, <2>3, <2>4, <2>6, <2>8 DEF RecvEnd, Writing
  <2>9. CASE OpenForWrite(t)
    BY <2>5, <2>9 DEF OpenForWrite
  <2>10. QED BY <1>2, <2>7, <2>8, <2>9
<1>3. ASSUME NEW t \in Threads, HandleGet(t) \/ Accept(t) PROVE page' = page
  BY <1>3 DEF HandleGet, Accept, BadRequest, GetCacheEntry, CheckTtl, OpenCached,
              SendCached, SendError, Request
<1>4. ASSUME NEW t \in Threads, FetchRemote(t),
             ~RecvPacket(t), ~RecvEnd(t), ~OpenForWrite(t)
      PROVE  page' = page
  BY <1>4 DEF FetchRemote, ConnectRemote, SendRequest, RecvEnter, RecvHeader, ReadRem,
              WrLockEnter, WrLock, OpenFails, FreeUncached, Forward, Finish
<1>5. ASSUME NEW u \in Urls, ChangePage(u) PROVE page' = page
  BY <1>5 DEF ChangePage
<1>6. ASSUME NEW k \in Keys, Expire(k) PROVE page' = page
  BY <1>6 DEF Expire
<1>7. CASE UNCHANGED vars
  BY <1>1, <1>7 DEF vars
<1>8. QED
  BY <1>1, <1>2, <1>3, <1>4, <1>5, <1>6, <1>7 DEF Next, Terminating

(* A thread begins to write a file, or to send it, with the file there.    *)
LEMMA FileIsThere ==
  ASSUME TypeOf1, ThreadInv, PageInv, [Next]_vars
  PROVE  \A t \in Threads : (Writing(t) \/ pc[t] = "sending")' => page'[Key(t)'] # None
<1> USE DEF fetchVars, threadVars, Goto
<1> DEFINE Needs(t) == Writing(t) \/ pc[t] = "sending"
<1> SUFFICES ASSUME NEW t \in Threads, Needs(t)' PROVE page'[Key(t)'] # None
  OBVIOUS
<1>1. CASE Needs(t) /\ url'[t] = url[t]
  <2>1. Key(t)' = Key(t) /\ Key(t) \in Keys
    BY <1>1, KeyType DEF Key, Writing, ThreadInv, UrlAt, NodeAt
  <2>2. QED BY <1>1, <2>1, PagesStay DEF PageInv
<1>2. CASE OpenCached(t)
  <2>1. page[Key(t)] # None /\ UNCHANGED <<page, url>>
    BY <1>2 DEF OpenCached, envVars, Writing, TypeOf1
  <2>2. QED BY <2>1 DEF Key
<1>3. CASE OpenForWrite(t)
  <2>1. Key(t) \in Keys /\ Key(t)' = Key(t)
    BY <1>3, OpenHasNode DEF OpenForWrite, Key
  <2>2. page'[Key(t)] = << <<url[t], ver[t], 1>> >>
    BY <1>3, <2>1 DEF OpenForWrite, PageInv
  <2>3. << <<url[t], ver[t], 1>> >> \in Seq(Packet)
    BY <1>3, OpenHasNode, PacketType
  <2>4. QED BY <2>1, <2>2, <2>3, NoneIsNoPage
<1>4. CASE UNCHANGED <<pc, url, caching, part>>
  BY <1>1, <1>4 DEF Writing
<1>5. ASSUME NEW s \in Threads, s # t, HandleGet(s) \/ FetchRemote(s) \/ Accept(s)
      PROVE  page'[Key(t)'] # None
  <2>1. pc'[t] = pc[t] /\ url'[t] = url[t] /\ caching'[t] = caching[t] /\ part'[t] = part[t]
    BY <1>5 DEF HandleGet, FetchRemote, Accept, BadRequest, GetCacheEntry, CheckTtl,
                OpenCached, SendCached, SendError, Request, ConnectRemote, SendRequest,
                RecvEnter, RecvHeader, RecvPacket, RecvEnd, ReadRem, WrLockEnter, WrLock,
                OpenForWrite, OpenFails, FreeUncached, Forward, Finish, TypeOf1
  <2>2. QED BY <1>1, <2>1 DEF Writing
<1>6. ASSUME HandleGet(t) \/ Accept(t), ~OpenCached(t) PROVE FALSE
  <2>1. pc'[t] \in {"recvreq", "error", "connect", "ttl", "serve", "done", "lookup"}
    BY <1>6 DEF HandleGet, Accept, BadRequest, GetCacheEntry, CheckTtl, SendCached,
                SendError, Request, TypeOf1
  <2>2. QED BY <2>1 DEF Writing
<1>7. ASSUME FetchRemote(t), ~OpenForWrite(t) PROVE page'[Key(t)'] # None
  <2>1. url'[t] = url[t] /\ pc'[t] # "sending"
    BY <1>7 DEF FetchRemote, ConnectRemote, SendRequest, RecvEnter, RecvHeader, RecvPacket,
                RecvEnd, ReadRem, WrLockEnter, WrLock, OpenFails, FreeUncached, Forward,
                Finish, TypeOf1
  <2>2. Writing(t)
    <3>1. CASE ConnectRemote(t) \/ RecvEnter(t) \/ RecvHeader(t) \/ WrLockEnter(t) \/ WrLock(t)
      BY <2>1, <3>1 DEF ConnectRemote, RecvEnter, RecvHeader, WrLockEnter, WrLock, Writing, TypeOf1
    <3>2. CASE SendRequest(t)
      BY <2>1, <3>2 DEF SendRequest, Writing, TypeOf1, ThreadInv
    <3>3. CASE RecvPacket(t)
      BY <2>1, <3>3 DEF RecvPacket, Writing, TypeOf1
    <3>4. CASE RecvEnd(t)
      BY <2>1, <3>4 DEF RecvEnd, Writing, TypeOf1
    <3>5. CASE ReadRem(t)
      BY <2>1, <3>5 DEF ReadRem, Writing, TypeOf1
    <3>6. CASE OpenFails(t) \/ Finish(t)
      BY <2>1, <3>6 DEF OpenFails, Finish, Writing, TypeOf1
    <3>7. CASE FreeUncached(t)
      BY <2>1, <3>7 DEF FreeUncached, Writing, TypeOf1, ThreadInv
    <3>8. CASE Forward(t)
      BY <2>1, <3>8 DEF Forward, Writing, TypeOf1
    <3>9. QED
      BY <1>7, <3>1, <3>2, <3>3, <3>4, <3>5, <3>6, <3>7, <3>8 DEF FetchRemote
  <2>3. QED BY <1>1, <2>1, <2>2
<1>8. ASSUME NEW u \in Urls, ChangePage(u) PROVE page'[Key(t)'] # None
  BY <1>4, <1>8 DEF ChangePage
<1>9. ASSUME NEW k \in Keys, Expire(k) PROVE page'[Key(t)'] # None
  BY <1>4, <1>9 DEF Expire
<1>10. CASE UNCHANGED vars
  BY <1>4, <1>10 DEF vars
<1>11. QED
  BY <1>2, <1>3, <1>5, <1>6, <1>7, <1>8, <1>9, <1>10 DEF Next, Terminating

(* The key of a node never changes once the node is allocated.             *)
LEMMA KeysStay ==
  ASSUME TypeOf1, ThreadInv, Layer2, [Next]_vars
  PROVE  \A n \in Nodes : nkey[n] # None => nkey'[n] = nkey[n]
<1> USE DEF cacheVars
<1>1. ASSUME NEW t \in Threads, ConnectRemote(t)
      PROVE  \A n \in Nodes : nkey[n] # None => nkey'[n] = nkey[n]
  <2>1. CASE nkey' = nkey
    BY <2>1
  <2>2. CASE node[t] = None /\ nkey' = [nkey EXCEPT ![<<t, served[t]>>] = Key(t)]
    <3>1. nkey[<<t, served[t]>>] = None
      BY <1>1, <2>2 DEF ConnectRemote, ThreadInv, Layer2, AllocInv
    <3>2. QED BY <2>2, <3>1 DEF TypeOf1
  <2>3. QED BY <1>1, <2>1, <2>2 DEF ConnectRemote
<1>2. ASSUME NEW t \in Threads, HandleGet(t) \/ Accept(t) PROVE nkey' = nkey
  BY <1>2 DEF HandleGet, Accept, BadRequest, GetCacheEntry, CheckTtl, OpenCached,
              SendCached, SendError, Request
<1>3. ASSUME NEW t \in Threads, FetchRemote(t), ~ConnectRemote(t) PROVE nkey' = nkey
  BY <1>3 DEF FetchRemote, SendRequest, RecvEnter, RecvHeader, RecvPacket, RecvEnd,
              ReadRem, WrLockEnter, WrLock, OpenForWrite, OpenFails, FreeUncached,
              Forward, Finish
<1>4. ASSUME NEW u \in Urls, ChangePage(u) PROVE nkey' = nkey
  BY <1>4 DEF ChangePage
<1>5. ASSUME NEW k \in Keys, Expire(k) PROVE nkey' = nkey
  BY <1>5 DEF Expire
<1>6. CASE UNCHANGED vars
  BY <1>6 DEF vars
<1>7. QED
  BY <1>1, <1>2, <1>3, <1>4, <1>5, <1>6 DEF Next, FetchRemote, Terminating

LEMMA CachedOnDiskStep ==
  ASSUME TypeOf1, ThreadInv, Layer2, PageInv, [Next]_vars
  PROVE  CachedOnDisk'
<1>1. \A b \in Buckets : \A i \in DOMAIN chain[b] :
        page'[nkey'[chain[b][i]]] # None
  <2> SUFFICES ASSUME NEW b \in Buckets, NEW i \in DOMAIN chain[b]
               PROVE  page'[nkey'[chain[b][i]]] # None
    OBVIOUS
  <2>1. chain[b][i] \in Nodes
    <3>1. chain[b] \in Seq(Nodes)
      BY DEF TypeOf1
    <3>2. QED BY <3>1
  <2>2. nkey[chain[b][i]] \in Keys /\ page[nkey[chain[b][i]]] # None
    BY DEF Layer2, ChainInv, PageInv, CachedOnDisk
  <2>3. nkey'[chain[b][i]] = nkey[chain[b][i]]
    BY <2>1, <2>2, KeysStay, ConstantsFacts
  <2>4. QED BY <2>2, <2>3, PagesStay
<1>2. CASE chain' = chain
  BY <1>1, <1>2 DEF CachedOnDisk
<1>3. ASSUME NEW t \in Threads, OpenForWrite(t),
             chain' = [chain EXCEPT ![Bucket(t)] = Append(chain[Bucket(t)], node[t])]
      PROVE  CachedOnDisk'
  <2>1. node[t] \in Nodes /\ Key(t) \in Keys /\ Bucket(t) \in Buckets
    BY <1>3, OpenHasNode
  <2>2. nkey'[node[t]] = Key(t)
    BY <1>3, <2>1, ConstantsFacts DEF Layer2, NodeInv, OpenForWrite
  <2>3. page'[Key(t)] # None
    <3>1. page'[Key(t)] = << <<url[t], ver[t], 1>> >>
      BY <1>3, <2>1 DEF OpenForWrite, PageInv
    <3>2. << <<url[t], ver[t], 1>> >> \in Seq(Packet)
      BY <1>3, OpenHasNode, PacketType
    <3>3. QED BY <3>1, <3>2, NoneIsNoPage
  <2>4. ASSUME NEW b \in Buckets, NEW i \in DOMAIN chain'[b]
        PROVE  (i \in DOMAIN chain[b] /\ chain'[b][i] = chain[b][i]) \/ chain'[b][i] = node[t]
    <3>1. chain[b] \in Seq(Nodes)
      BY DEF TypeOf1
    <3>2. chain'[b] = chain[b] \/ chain'[b] = Append(chain[b], node[t])
      BY <1>3, <2>1 DEF TypeOf1
    <3>3. QED BY <2>1, <2>4, <3>1, <3>2
  <2>5. QED BY <1>1, <2>2, <2>3, <2>4 DEF CachedOnDisk
<1>4. QED BY <1>2, <1>3, ChainStep

LEMMA ReplyType ==
  ASSUME TypeOf1, ThreadInv, PageInv, [Next]_vars
  PROVE  reply' \in [Threads -> Reply]
<1> USE DEF threadVars
<1>1. CASE reply' = reply
  BY <1>1 DEF PageInv
<1>2. ASSUME NEW t \in Threads, NEW r \in Reply, reply' = [reply EXCEPT ![t] = r]
      PROVE  reply' \in [Threads -> Reply]
  BY <1>2 DEF PageInv
<1>3. ASSUME NEW t \in Threads,
             NEW k \in {"none", "cached", "remote", "status", "overrun", "error"}
      PROVE  [reply[t] EXCEPT !.kind = k] \in Reply
  BY DEF PageInv, Reply
<1>4. ASSUME NEW t \in Threads, NEW b \in Seq(Packet)
      PROVE  [reply[t] EXCEPT !.body = b] \in Reply
  BY DEF PageInv, Reply
<1>5. ASSUME NEW t \in Threads, Accept(t) PROVE reply' \in [Threads -> Reply]
  <2>1. NoReply \in Reply
    BY DEF NoReply, Reply
  <2>2. reply' = [reply EXCEPT ![t] = NoReply]
    BY <1>5 DEF Accept
  <2>3. QED BY <1>2, <2>1, <2>2
<1>6. ASSUME NEW t \in Threads, OpenCached(t) PROVE reply' \in [Threads -> Reply]
  <2>1. filesize[node[t]] \in Nat
    BY <1>6 DEF OpenCached, TypeOf1, ThreadInv, NodeAt
  <2>2. [kind |-> "cached", len |-> filesize[node[t]], body |-> <<>>] \in Reply
    BY <2>1 DEF Reply
  <2>3. QED BY <1>1, <1>2, <1>6, <2>2 DEF OpenCached
<1>7. ASSUME NEW t \in Threads, SendCached(t) PROVE reply' \in [Threads -> Reply]
  <2>1. page[Key(t)] \in Seq(Packet)
    BY <1>7, KeyType DEF SendCached, PageInv, ThreadInv, UrlAt, NodeAt
  <2>2. reply' = [reply EXCEPT ![t] = [reply[t] EXCEPT !.body = page[Key(t)]]]
    BY <1>7 DEF SendCached
  <2>3. QED BY <1>2, <1>4, <2>1, <2>2
<1>8. ASSUME NEW t \in Threads,
             SendError(t) \/ SendRequest(t) \/ RecvHeader(t) \/ RecvEnd(t)
      PROVE  reply' \in [Threads -> Reply]
  <2>1. \/ reply' = reply
        \/ \E k \in {"remote", "status", "overrun", "error"} :
             reply' = [reply EXCEPT ![t] = [reply[t] EXCEPT !.kind = k]]
    BY <1>8 DEF SendError, SendRequest, RecvHeader, RecvEnd
  <2>2. QED BY <1>1, <1>2, <1>3, <2>1
<1>9. ASSUME NEW t \in Threads, Forward(t) PROVE reply' \in [Threads -> Reply]
  <2>1. <<url[t], ver[t], part[t]>> \in Packet
    BY <1>9, PacketType DEF Forward, TypeOf1, ThreadInv, UrlAt, NodeAt
  <2>2. Append(reply[t].body, <<url[t], ver[t], part[t]>>) \in Seq(Packet)
    BY <2>1 DEF PageInv, Reply
  <2>3. reply' = [reply EXCEPT ![t] = [reply[t] EXCEPT
                    !.body = Append(reply[t].body, <<url[t], ver[t], part[t]>>)]]
    BY <1>9 DEF Forward
  <2>4. QED BY <1>2, <1>4, <2>2, <2>3
<1>10. ASSUME NEW t \in Threads,
              \/ BadRequest(t) \/ GetCacheEntry(t) \/ CheckTtl(t) \/ ConnectRemote(t)
              \/ RecvEnter(t) \/ RecvPacket(t) \/ ReadRem(t) \/ WrLockEnter(t) \/ WrLock(t)
              \/ OpenForWrite(t) \/ OpenFails(t) \/ FreeUncached(t) \/ Finish(t)
              \/ \E u \in Urls : Request(t, u)
       PROVE  reply' = reply
  BY <1>10 DEF BadRequest, GetCacheEntry, CheckTtl, ConnectRemote, RecvEnter, RecvPacket,
               ReadRem, WrLockEnter, WrLock, OpenForWrite, OpenFails, FreeUncached, Finish,
               Request
<1>11. ASSUME NEW u \in Urls, ChangePage(u) PROVE reply' = reply
  BY <1>11 DEF ChangePage
<1>12. ASSUME NEW k \in Keys, Expire(k) PROVE reply' = reply
  BY <1>12 DEF Expire
<1>13. CASE UNCHANGED vars
  BY <1>1, <1>13 DEF vars
<1>14. QED
  BY <1>1, <1>5, <1>6, <1>7, <1>8, <1>9, <1>10, <1>11, <1>12, <1>13
  DEF Next, HandleGet, FetchRemote, Terminating

LEMMA Layer4Step == Layer1 /\ Layer2 /\ PageInv /\ [Next]_vars => PageInv'
BY PagesStay, FileIsThere, CachedOnDiskStep, ReplyType DEF Layer1, PageInv

(* Every node of the table has its file: fopen truncates or creates the    *)
(* file before the node is added, and a failed fopen adds no node.         *)
THEOREM NodesHaveFiles == Spec => []CachedOnDisk
<1>1. Layer1 /\ Layer2 /\ PageInv /\ [Next]_vars => (Layer1 /\ Layer2 /\ PageInv)'
  BY Layer1Step, Layer2Step, Layer4Step
<1>2. PageInv => CachedOnDisk
  BY DEF PageInv
<1>3. QED
  BY <1>1, <1>2, Layer1Init, Layer2Init, Layer4Init, PTL DEF Spec

(* Every variable keeps its type.  For the locks and the files this needs  *)
(* the layers above: a thread releases a read lock it holds, and appends   *)
(* to a file that exists.                                                  *)
THEOREM TypeCorrect == Spec => []TypeOK
<1> DEFINE IInv == Layer1 /\ Layer2 /\ LockInv /\ PageInv
<1>1. Init => IInv
  BY Layer1Init, Layer2Init, Layer3Init, Layer4Init
<1>2. IInv /\ [Next]_vars => IInv'
  BY Layer1Step, Layer2Step, Layer3Step, Layer4Step
<1>3. IInv => TypeOK
  BY DEF Layer1, TypeOf1, LockInv, PageInv, TypeOK
<1>4. QED
  BY <1>1, <1>2, <1>3, PTL DEF Spec
-----------------------------------------------------------------------------
(* The nodes that are freed.                                               *)
LEMMA Layer5Init == Init => FreedInv
BY DEF Init, FreedInv, NoUseAfterFree, UsesNode

(* A step of t after which t uses no node it did not use before.           *)
LEMMA FreedFrame ==
  ASSUME FreedInv, NEW t \in Threads, UNCHANGED <<chain, nkey, freed>>,
         \A s \in Threads \ {t} :
           /\ pc'[s] = pc[s] /\ node'[s] = node[s]
           /\ caching'[s] = caching[s] /\ part'[s] = part[s],
         UsesNode(t)' => node'[t] \notin freed
  PROVE  FreedInv'
<1>1. \A s \in Threads \ {t} : UsesNode(s)' => UsesNode(s) /\ node'[s] = node[s]
  BY DEF UsesNode, Writing
<1>2. QED BY <1>1 DEF FreedInv, NoUseAfterFree

LEMMA Layer5Step == Layer1 /\ Layer2 /\ FreedInv /\ [Next]_vars => FreedInv'
<1> SUFFICES ASSUME TypeOf1, ThreadInv, Layer2, FreedInv, [Next]_vars PROVE FreedInv'
  BY DEF Layer1
<1> USE DEF cacheVars, envVars, fetchVars, threadVars, Goto
<1>1. ASSUME NEW t \in Threads,
             \/ Accept(t) \/ BadRequest(t) \/ SendCached(t) \/ SendError(t) \/ Finish(t)
             \/ OpenCached(t) \/ \E u \in Urls : Request(t, u)
      PROVE  FreedInv'
  <2>1. UNCHANGED <<chain, nkey, freed>>
    BY <1>1 DEF Accept, BadRequest, SendCached, SendError, Finish, OpenCached, Request
  <2>2. \A s \in Threads \ {t} :
          /\ pc'[s] = pc[s] /\ node'[s] = node[s]
          /\ caching'[s] = caching[s] /\ part'[s] = part[s]
    BY <1>1 DEF Accept, BadRequest, SendCached, SendError, Finish, OpenCached, Request,
                TypeOf1
  <2>3. pc'[t] \in {"recvreq", "error", "done", "sending", "lookup"}
    BY <1>1 DEF Accept, BadRequest, SendCached, SendError, Finish, OpenCached, Request,
                TypeOf1
  <2>4. ~UsesNode(t)'
    BY <2>3 DEF UsesNode, Writing
  <2>5. QED BY <2>1, <2>2, <2>4, FreedFrame
<1>2. ASSUME NEW t \in Threads,
             \/ CheckTtl(t) \/ SendRequest(t) \/ RecvEnter(t) \/ RecvHeader(t)
             \/ RecvPacket(t) \/ RecvEnd(t) \/ ReadRem(t) \/ WrLockEnter(t)
             \/ WrLock(t) \/ OpenFails(t) \/ Forward(t)
      PROVE  FreedInv'
  <2>1. UNCHANGED <<chain, nkey, freed, node>>
    BY <1>2 DEF CheckTtl, SendRequest, RecvEnter, RecvHeader, RecvPacket, RecvEnd,
                ReadRem, WrLockEnter, WrLock, OpenFails, Forward
  <2>2. \A s \in Threads \ {t} :
          pc'[s] = pc[s] /\ caching'[s] = caching[s] /\ part'[s] = part[s]
    BY <1>2 DEF CheckTtl, SendRequest, RecvEnter, RecvHeader, RecvPacket, RecvEnd,
                ReadRem, WrLockEnter, WrLock, OpenFails, Forward, TypeOf1
  <2>3. UsesNode(t)' => UsesNode(t)
    <3>1. CASE CheckTtl(t) \/ SendRequest(t) \/ RecvEnter(t)
      BY <2>1, <3>1 DEF CheckTtl, SendRequest, RecvEnter, UsesNode, Writing, TypeOf1
    <3>2. CASE RecvHeader(t)
      BY <2>1, <3>2 DEF RecvHeader, UsesNode, Writing, TypeOf1
    <3>3. CASE RecvPacket(t)
      <4>1. /\ pc[t] = "recving" /\ part[t] > 0 /\ pc'[t] = "fwd"
            /\ caching'[t] = caching[t]
        BY <3>3 DEF RecvPacket, TypeOf1
      <4>2. QED BY <2>1, <4>1 DEF UsesNode, Writing
    <3>4. CASE RecvEnd(t)
      <4>1. /\ pc[t] = "recving" /\ pc'[t] = "finish" /\ part'[t] = part[t]
            /\ caching'[t] => caching[t]
        BY <3>4 DEF RecvEnd, TypeOf1
      <4>2. QED BY <2>1, <4>1 DEF UsesNode, Writing
    <3>5. CASE ReadRem(t) \/ WrLockEnter(t) \/ WrLock(t) \/ OpenFails(t)
      BY <2>1, <3>5 DEF ReadRem, WrLockEnter, WrLock, OpenFails, UsesNode, Writing, TypeOf1
    <3>6. CASE Forward(t)
      <4>1. /\ pc[t] = "fwd" /\ pc'[t] \in {"finish", "recv"}
            /\ caching'[t] = caching[t] /\ part'[t] = part[t]
        BY <3>6 DEF Forward, TypeOf1
      <4>2. part[t] > 0
        BY <4>1 DEF ThreadInv
      <4>3. QED BY <2>1, <4>1, <4>2 DEF UsesNode, Writing, TypeOf1
    <3>7. QED BY <1>2, <3>1, <3>2, <3>3, <3>4, <3>5, <3>6
  <2>4. UsesNode(t)' => node'[t] \notin freed
    BY <2>1, <2>3 DEF FreedInv, NoUseAfterFree
  <2>5. QED BY <2>1, <2>2, <2>4, FreedFrame
<1>3. ASSUME NEW t \in Threads, GetCacheEntry(t) PROVE FreedInv'
  <2>1. UNCHANGED <<chain, nkey, freed, caching, part>>
    BY <1>3 DEF GetCacheEntry
  <2>2. \A s \in Threads \ {t} : pc'[s] = pc[s] /\ node'[s] = node[s]
    BY <1>3 DEF GetCacheEntry, TypeOf1
  <2>3. node[t] = None /\ Bucket(t) \in Buckets
    BY <1>3, KeyType DEF GetCacheEntry, ThreadInv, UrlAt
  <2>4. \/ node'[t] = None
        \/ \E i \in DOMAIN chain[Bucket(t)] : node'[t] = chain[Bucket(t)][i]
    BY <1>3, <2>3 DEF GetCacheEntry, Matching, TypeOf1
  <2>5. UsesNode(t)' => node'[t] \notin freed
    BY <2>3, <2>4 DEF UsesNode, FreedInv, NoUseAfterFree
  <2>6. QED BY <2>1, <2>2, <2>5, FreedFrame
<1>4. ASSUME NEW t \in Threads, ConnectRemote(t) PROVE FreedInv'
  <2> DEFINE n == <<t, served[t]>>
  <2>1. pc[t] = "connect" /\ served[t] \in 1..MaxReq /\ n \in Nodes /\ Key(t) \in Keys
    BY <1>4, KeyType DEF ConnectRemote, ThreadInv, UrlAt, Nodes
  <2>2. UNCHANGED <<chain, freed, caching, part>>
    BY <1>4 DEF ConnectRemote
  <2>3. \A s \in Threads \ {t} : pc'[s] = pc[s] /\ node'[s] = node[s]
    BY <1>4 DEF ConnectRemote, TypeOf1
  <2>4. CASE nkey' = nkey /\ node' = node /\ pc'[t] = "error"
    <3>1. ~UsesNode(t)'
      BY <2>4 DEF UsesNode, Writing
    <3>2. QED BY <2>2, <2>3, <2>4, <3>1, FreedFrame
  <2>5. CASE nkey' = nkey /\ node' = node /\ node[t] # None
    <3>1. UsesNode(t)
      BY <2>1, <2>5 DEF UsesNode
    <3>2. node'[t] \notin freed
      BY <2>5, <3>1 DEF FreedInv, NoUseAfterFree
    <3>3. QED BY <2>2, <2>3, <2>5, <3>2, FreedFrame
  <2>6. CASE /\ node[t] = None
             /\ node' = [node EXCEPT ![t] = n]
             /\ nkey' = [nkey EXCEPT ![n] = Key(t)]
    <3>1. nkey[n] = None
      BY <2>1, <2>6 DEF Layer2, AllocInv
    <3>2. n \notin freed
      BY <3>1 DEF FreedInv
    <3>3. \A m \in freed : nkey'[m] # None
      BY <2>6, <3>2 DEF FreedInv, TypeOf1
    <3>4. \A s \in Threads : UsesNode(s)' => node'[s] \notin freed
      <4> SUFFICES ASSUME NEW s \in Threads, UsesNode(s)' PROVE node'[s] \notin freed
        OBVIOUS
      <4>1. CASE s = t
        BY <2>6, <3>2, <4>1 DEF TypeOf1
      <4>2. CASE s # t
        <5>1. UsesNode(s) /\ node'[s] = node[s]
          BY <2>2, <2>3, <4>2 DEF UsesNode, Writing
        <5>2. QED BY <5>1 DEF FreedInv, NoUseAfterFree
      <4>3. QED BY <4>1, <4>2
    <3>5. QED BY <2>2, <3>3, <3>4 DEF FreedInv, NoUseAfterFree
  <2>7. QED BY <1>4, <2>4, <2>5, <2>6 DEF ConnectRemote, TypeOf1
<1>5. ASSUME NEW t \in Threads, OpenForWrite(t) PROVE FreedInv'
  <2>1. UNCHANGED <<nkey, freed, node, caching, part>> /\ pc[t] = "open"
    BY <1>5 DEF OpenForWrite
  <2>2. \A s \in Threads \ {t} : pc'[s] = pc[s]
    BY <1>5 DEF OpenForWrite, TypeOf1
  <2>3. node[t] \in Nodes /\ node[t] \notin freed
    <3>1. node[t] # None /\ UsesNode(t)
      BY <2>1 DEF UsesNode, ThreadInv, NodeAt
    <3>2. QED BY <1>5, <3>1, OpenHasNode DEF FreedInv, NoUseAfterFree
  <2>4. \A b \in Buckets : \A i \in DOMAIN chain'[b] : chain'[b][i] \notin freed
    <3> SUFFICES ASSUME NEW b \in Buckets, NEW i \in DOMAIN chain'[b]
                 PROVE  chain'[b][i] \notin freed
      OBVIOUS
    <3>1. chain[b] \in Seq(Nodes)
      BY DEF TypeOf1
    <3>2. chain'[b] = chain[b] \/ chain'[b] = Append(chain[b], node[t])
      BY <1>5 DEF OpenForWrite, AddCacheEntry, TypeOf1
    <3>3. \A j \in DOMAIN chain[b] : chain[b][j] \notin freed
      BY DEF FreedInv, NoUseAfterFree
    <3>4. QED BY <2>3, <3>1, <3>2, <3>3
  <2>5. \A s \in Threads : UsesNode(s)' => node'[s] \notin freed
    <3>1. \A s \in Threads \ {t} : UsesNode(s)' => UsesNode(s)
      BY <2>1, <2>2 DEF UsesNode, Writing
    <3>2. QED BY <2>1, <2>3, <3>1 DEF FreedInv, NoUseAfterFree
  <2>6. QED BY <2>1, <2>4, <2>5 DEF FreedInv, NoUseAfterFree
<1>6. ASSUME NEW t \in Threads, FreeUncached(t) PROVE FreedInv'
  <2>1. /\ UNCHANGED <<chain, nkey, node, caching, part>>
        /\ pc[t] = "recheck" /\ pc' = [pc EXCEPT ![t] = "recv"]
    BY <1>6 DEF FreeUncached
  <2>2. node[t] # None /\ ~caching[t] /\ part[t] > 0
    BY <2>1 DEF ThreadInv, NodeAt
  <2>3. \A s \in Threads : UsesNode(s)' => s # t /\ UsesNode(s)
    BY <2>1, <2>2 DEF UsesNode, Writing, TypeOf1
  <2>4. CASE freed' = freed
    BY <2>1, <2>3, <2>4 DEF FreedInv, NoUseAfterFree
  <2>5. CASE NodeUncached(t) /\ freed' = freed \cup {node[t]}
    <3>1. nkey[node[t]] = Key(t) /\ Key(t) \in Keys
      BY <2>2, ConstantsFacts DEF Layer2, NodeInv, Key
    <3>2. ~InChain(node[t])
      BY <2>5, <3>1 DEF Layer2, ChainInv, InChain, NodeUncached, Matching, Bucket
    <3>3. \A s \in Threads \ {t} : node[s] # node[t]
      BY <2>2, <3>2 DEF Layer2, NodeInv
    <3>4. \A m \in freed' : nkey'[m] # None
      BY <2>1, <2>5, <3>1, ConstantsFacts DEF FreedInv
    <3>5. \A b \in Buckets : \A i \in DOMAIN chain'[b] : chain'[b][i] \notin freed'
      BY <2>1, <2>5, <3>2 DEF FreedInv, NoUseAfterFree, InChain
    <3>6. \A s \in Threads : UsesNode(s)' => node'[s] \notin freed'
      BY <2>1, <2>3, <2>5, <3>3 DEF FreedInv, NoUseAfterFree
    <3>7. QED BY <3>4, <3>5, <3>6 DEF FreedInv, NoUseAfterFree
  <2>6. QED BY <1>6, <2>4, <2>5 DEF FreeUncached
<1>7. CASE UNCHANGED <<chain, nkey, freed, node, pc, caching, part>>
  BY <1>7 DEF FreedInv, NoUseAfterFree, UsesNode, Writing
<1>8. ASSUME NEW u \in Urls, ChangePage(u) PROVE FreedInv'
  BY <1>7, <1>8 DEF ChangePage
<1>9. ASSUME NEW k \in Keys, Expire(k) PROVE FreedInv'
  BY <1>7, <1>9 DEF Expire
<1>10. CASE UNCHANGED vars
  BY <1>7, <1>10 DEF vars
<1>11. QED
  BY <1>1, <1>2, <1>3, <1>4, <1>5, <1>6, <1>8, <1>9, <1>10
  DEF Next, HandleGet, FetchRemote, Terminating

(* get_cache_entry hands out a node and drops the lock, and fetch_remote   *)
(* frees a node whose page it could not open; never one that the table or  *)
(* another thread still refers to, because a thread works either on a node *)
(* it found in the table or on one of its own.                             *)
THEOREM FreedNodesAreUnused == Spec => []NoUseAfterFree
<1>1. Layer1 /\ Layer2 /\ FreedInv /\ [Next]_vars => (Layer1 /\ Layer2 /\ FreedInv)'
  BY Layer1Step, Layer2Step, Layer5Step
<1>2. FreedInv => NoUseAfterFree
  BY DEF FreedInv
<1>3. QED
  BY <1>1, <1>2, Layer1Init, Layer2Init, Layer5Init, PTL DEF Spec
-----------------------------------------------------------------------------
(* Layer 6: where the kind of a reply is known.  A thread that waits for   *)
(* the write lock caches.                                                  *)
Relaying == {"recv", "recving", "rem", "wlock", "wwait", "open", "recheck", "fwd",
             "finish"}
Relayed(t) == reply[t].kind \in {"remote", "status", "overrun"}

KindOf(t) ==
  /\ pc[t] \in {"idle", "recvreq", "lookup", "ttl", "serve", "connect", "sendreq"} =>
       reply[t] = NoReply
  /\ pc[t] = "sending" => reply[t].kind = "cached"
  /\ pc[t] = "error" => reply[t].kind # "cached"
  /\ pc[t] \in Relaying => Relayed(t)
  /\ pc[t] \in {"wlock", "wwait", "open"} => caching[t]

KindInv == \A t \in Threads : KindOf(t)

(* Layer 7: who has socket_sem, who has the lock of a bucket, and how many *)
(* read locks a thread has that its requests left.                         *)
SockInv == \A t \in Threads : sock = t => pc[t] \in {"recvreq", "recving"}

WriterInv ==
  \A b \in Buckets : \A t \in Threads : writer[b] = t => Holds(t) /\ b = Bucket(t)

(* 0 if the request of t may have a lock of b, or have left it.            *)
Owed(t, b) ==
  IF \/ pc[t] = "idle"
     \/ pc[t] = "sending" /\ b = Bucket(t)
     \/ pc[t] = "done" /\ reply[t].kind = "none"
  THEN 0 ELSE 1

LeftInv ==
  \A b \in Buckets : \A t \in Threads : readers[b][t] =< served[t] - Owed(t, b)

(* Layer 8: the client has been sent n packets, or has missed the first.   *)
InOrder(t, n) ==
  \E s \in {0, 1} :
    /\ s = 1 => ~caching[t]
    /\ n - s \in Nat
    /\ reply[t].body = [i \in 1..(n - s) |-> <<url[t], ver[t], i + s>>]

OrderOf(t) ==
  /\ pc[t] \in {"rem", "wlock", "wwait", "open", "recheck"} =>
       part[t] = 1 /\ reply[t].body = <<>>
  /\ pc[t] = "error" => reply[t].body = <<>>
  /\ pc[t] \in {"recv", "recving"} => InOrder(t, part[t])
  /\ pc[t] = "fwd" => InOrder(t, part[t] - 1)
  /\ pc[t] \in {"finish", "done"} /\ Relayed(t) => \E n \in Nat : InOrder(t, n)

OrderInv == \A t \in Threads : OrderOf(t)

(* Layer 9, if all goes well: lengths are those of the pages, a file that  *)
(* is not being written is a whole page, and one that is is as far as its  *)
(* writer.                                                                 *)
Steady ==
  /\ Answers \subseteq {"ok", "error", "bad"}
  /\ ~OpenMayFail
  /\ \A v, w \in 1..MaxVer : Parts[v] = Parts[w]

First(t, n) == [i \in 1..n |-> <<url[t], ver[t], i>>]

LengthInv ==
  /\ \A n \in Nodes : filesize[n] \in {0, Parts[1]}
  /\ \A n \in Nodes : InChain(n) => filesize[n] = Parts[1]
  /\ \A t \in Threads : pc[t] \in {"ttl", "serve", "sending"} => InChain(node[t])

RemoteOf(t) ==
  /\ pc[t] \in Relaying /\ caching[t] => reply[t].kind = "remote"
  /\ reply[t].kind = "remote" =>
       /\ pc[t] \in {"rem", "wlock", "wwait", "open"} => filesize[node[t]] = Parts[1]
       /\ pc[t] \in {"wlock", "wwait", "open"} => rem[t] = Parts[1] - 1
       /\ pc[t] \in {"rem", "wlock", "wwait", "open"} => part[t] = 1
       /\ pc[t] \in {"rem", "wlock", "wwait", "open"} => reply[t].body = <<>>
       /\ pc[t] = "recheck" => FALSE
       /\ pc[t] = "fwd" => /\ rem[t] = Parts[1] - part[t] /\ rem[t] >= 0
                           /\ reply[t].body = First(t, part[t] - 1)
       /\ pc[t] \in {"recv", "recving"} => reply[t].body = First(t, part[t])
       /\ pc[t] \in {"recv", "recving"} /\ part[t] > 0 =>
            rem[t] = Parts[1] - part[t] /\ rem[t] > 0
       /\ pc[t] = "finish" => part[t] = Parts[1]
       /\ pc[t] \in {"finish", "done"} => reply[t].body = Whole(url[t], ver[t])

FileInv ==
  /\ \A t \in Threads : Writing(t) => page[Key(t)] = First(t, part[t])
  /\ \A k \in Keys : page[k] # None /\ (\A t \in Threads : Writing(t) => Key(t) # k) =>
       page[k] \in WholePages

CachedOf(t) ==
  /\ pc[t] \in {"sending", "done"} /\ reply[t].kind = "cached" => reply[t].len = Parts[1]
  /\ pc[t] = "done" /\ reply[t].kind = "cached" => reply[t].body \in WholePages

SteadyInv ==
  LengthInv /\ FileInv /\ \A t \in Threads : RemoteOf(t) /\ CachedOf(t)
-----------------------------------------------------------------------------
(* What the layers of ProxyCacheProofs say together.                       *)
Base == Layer1 /\ Layer2 /\ LockInv /\ PageInv

LEMMA BaseInit == Init => Base
BY Layer1Init, Layer2Init, Layer3Init, Layer4Init DEF Base

LEMMA BaseStep == Base /\ [Next]_vars => Base'
BY Layer1Step, Layer2Step, Layer3Step, Layer4Step DEF Base

(* A step is one of one thread, which leaves the local variables of the    *)
(* others alone, or one of the environment.                                *)
Still(s) ==
  /\ pc'[s] = pc[s] /\ served'[s] = served[s] /\ url'[s] = url[s] /\ node'[s] = node[s]
  /\ caching'[s] = caching[s] /\ ver'[s] = ver[s] /\ part'[s] = part[s]
  /\ rem'[s] = rem[s] /\ reply'[s] = reply[s]

Moves(t) == Accept(t) \/ HandleGet(t) \/ FetchRemote(t)

LEMMA OthersStill ==
  ASSUME Base, NEW t \in Threads, NEW s \in Threads, s # t, Moves(t)
  PROVE  Still(s)
<1> USE DEF fetchVars, threadVars, Goto, Still, TypeOf1
<1>1. TypeOf1 /\ reply \in [Threads -> Reply]
  BY DEF Base, Layer1, PageInv
<1>2. CASE Accept(t)
  BY <1>1, <1>2 DEF Accept
<1>3. CASE HandleGet(t)
  BY <1>1, <1>3 DEF HandleGet, BadRequest, GetCacheEntry, CheckTtl, OpenCached,
                    SendCached, SendError, Request
<1>4. CASE ConnectRemote(t) \/ SendRequest(t) \/ RecvEnter(t) \/ RecvHeader(t)
           \/ RecvPacket(t) \/ RecvEnd(t) \/ ReadRem(t) \/ WrLockEnter(t)
  BY <1>1, <1>4
     DEF ConnectRemote, SendRequest, RecvEnter, RecvHeader, RecvPacket, RecvEnd,
                    ReadRem, WrLockEnter
<1>5. CASE WrLock(t) \/ OpenForWrite(t) \/ OpenFails(t) \/ FreeUncached(t) \/ Forward(t)
           \/ Finish(t)
  BY <1>1, <1>5 DEF WrLock, OpenForWrite, OpenFails, FreeUncached, Forward, Finish
<1>. QED  BY <1>2, <1>3, <1>4, <1>5 DEF Moves, FetchRemote

LEMMA WhoMoves ==
  ASSUME [Next]_vars
  PROVE  \/ \E t \in Threads : Moves(t)
         \/ UNCHANGED <<cacheVars, lockVars, sock, page, fetchVars, threadVars>>
<1>1. CASE UNCHANGED vars \/ Terminating
  BY <1>1 DEF vars, Terminating, envVars
<1>2. CASE \E u \in Urls : ChangePage(u)
  BY <1>2 DEF ChangePage
<1>3. CASE \E k \in Keys : Expire(k)
  BY <1>3 DEF Expire
<1>4. CASE \E t \in Threads : Accept(t) \/ HandleGet(t) \/ FetchRemote(t)
  BY <1>4 DEF Moves
<1>. QED  BY <1>1, <1>2, <1>3, <1>4 DEF Next

(* The local variables of a thread have their types.                       *)
LEMMA LocalTypes ==
  ASSUME Base, NEW t \in Threads
  PROVE  /\ reply[t] \in Reply /\ ver[t] \in 1..MaxVer /\ part[t] \in Nat
         /\ rem[t] \in Int /\ caching[t] \in BOOLEAN /\ served[t] \in Nat
         /\ reply \in [Threads -> Reply] /\ pc[t] \in Locations
         /\ TypeOf1 /\ ThreadInv
BY ConstantsFacts DEF Base, Layer1, TypeOf1, PageInv

LEMMA NoReplyIs == /\ NoReply.kind = "none" /\ NoReply.body = <<>>
                   /\ NoReply \in Reply
BY DEF NoReply, Reply
-----------------------------------------------------------------------------
(* Layer 6.                                                                *)
LEMMA KindInit == Init => KindInv
BY DEF Init, KindInv, KindOf, Relaying

LEMMA KindMoves ==
  ASSUME Base, KindInv, NEW t \in Threads, Moves(t)
  PROVE  KindOf(t)'
<1> USE LocalTypes, NoReplyIs DEF KindOf, Goto, Relaying, Relayed
<1>0. KindOf(t) /\ TypeOf1 /\ ThreadInv /\ reply \in [Threads -> Reply]
  BY DEF KindInv
<1>1. CASE Accept(t)
  BY <1>0, <1>1 DEF Accept, TypeOf1
<1>2. CASE BadRequest(t) \/ \E u \in Urls : Request(t, u)
  BY <1>0, <1>2 DEF BadRequest, Request, TypeOf1, fetchVars
<1>3. CASE GetCacheEntry(t) \/ CheckTtl(t)
  BY <1>0, <1>3 DEF GetCacheEntry, CheckTtl, TypeOf1, fetchVars
<1>4. CASE OpenCached(t)
  BY <1>0, <1>4 DEF OpenCached, TypeOf1, fetchVars
<1>5. CASE SendCached(t) \/ SendError(t)
  BY <1>0, <1>5 DEF SendCached, SendError, TypeOf1
<1>6. CASE ConnectRemote(t)
  <2>1. pc'[t] \in {"error", "sendreq"} /\ pc[t] = "connect" /\ reply' = reply
    BY <1>0, <1>6 DEF ConnectRemote, TypeOf1
  <2>. QED  BY <1>0, <2>1
<1>7. CASE SendRequest(t)
  <2>1. /\ pc'[t] = "recv"
        /\ reply' = [reply EXCEPT ![t] = [reply[t] EXCEPT !.kind = "remote"]]
    BY <1>0, <1>7 DEF SendRequest, TypeOf1
  <2>. QED  BY <1>0, <2>1 DEF Reply
<1>8. CASE RecvEnter(t)
  BY <1>0, <1>8 DEF RecvEnter, TypeOf1, fetchVars
<1>9. CASE RecvHeader(t)
  <2>1. reply' = reply \/ reply' = [reply EXCEPT ![t] = [reply[t] EXCEPT !.kind = "status"]]
    BY <1>9 DEF RecvHeader
  <2>2. pc[t] = "recving" /\ pc'[t] \in {"rem", "error"}
    BY <1>0, <1>9 DEF RecvHeader, TypeOf1
  <2>3. Relayed(t) /\ Relayed(t)'
    BY <1>0, <2>1, <2>2 DEF Reply
  <2>. QED  BY <1>0, <2>2, <2>3
<1>10. CASE RecvPacket(t)
  BY <1>0, <1>10 DEF RecvPacket, TypeOf1
<1>11. CASE RecvEnd(t)
  <2>1. reply' = reply \/ reply' = [reply EXCEPT ![t] = [reply[t] EXCEPT !.kind = "overrun"]]
    BY <1>11 DEF RecvEnd
  <2>2. pc[t] = "recving" /\ pc'[t] = "finish"
    BY <1>0, <1>11 DEF RecvEnd, TypeOf1
  <2>3. Relayed(t) /\ Relayed(t)'
    BY <1>0, <2>1, <2>2 DEF Reply
  <2>. QED  BY <1>0, <2>2, <2>3
<1>12. CASE ReadRem(t)
  <2>1. pc[t] = "rem" /\ pc'[t] = (IF caching[t] THEN "wlock" ELSE "fwd")
        /\ UNCHANGED <<caching, reply>>
    BY <1>0, <1>12 DEF ReadRem, TypeOf1
  <2>. QED  BY <1>0, <2>1
<1>13. CASE WrLockEnter(t) \/ WrLock(t) \/ OpenForWrite(t)
  BY <1>0, <1>13 DEF WrLockEnter, WrLock, OpenForWrite, TypeOf1, fetchVars
<1>14. CASE OpenFails(t) \/ FreeUncached(t) \/ Finish(t)
  BY <1>0, <1>14 DEF OpenFails, FreeUncached, Finish, TypeOf1, fetchVars
<1>15. CASE Forward(t)
  <2>1. /\ pc[t] = "fwd" /\ pc'[t] \in {"finish", "recv"}
        /\ reply' = [reply EXCEPT ![t] = [reply[t] EXCEPT
                       !.body = Append(reply[t].body, <<url[t], ver[t], part[t]>>)]]
    BY <1>0, <1>15 DEF Forward, TypeOf1
  <2>2. Relayed(t) /\ Relayed(t)'
    BY <1>0, <2>1 DEF Reply
  <2>. QED  BY <1>0, <2>1, <2>2
<1>. QED
  BY <1>1, <1>2, <1>3, <1>4, <1>5, <1>6, <1>7, <1>8, <1>9, <1>10, <1>11, <1>12, <1>13,
     <1>14, <1>15 DEF Moves, HandleGet, FetchRemote

LEMMA KindStep ==
  ASSUME Base, KindInv, [Next]_vars
  PROVE  KindInv'
<1>1. CASE UNCHANGED <<cacheVars, lockVars, sock, page, fetchVars, threadVars>>
  BY <1>1 DEF KindInv, KindOf, Relayed, threadVars, fetchVars
<1>2. ASSUME NEW t \in Threads, Moves(t) PROVE KindInv'
  <2> SUFFICES ASSUME NEW s \in Threads PROVE KindOf(s)'
    BY DEF KindInv
  <2>1. CASE s = t
    BY <1>2, <2>1, KindMoves
  <2>2. CASE s # t
    BY <1>2, <2>2, OthersStill DEF Still, KindInv, KindOf, Relayed
  <2>. QED  BY <2>1, <2>2
<1>. QED  BY <1>1, <1>2, WhoMoves
-----------------------------------------------------------------------------
(* Layer 7.                                                                *)
LEMMA LeakInit == Init => SockInv /\ WriterInv /\ LeftInv
<1> SUFFICES ASSUME Init PROVE SockInv /\ WriterInv /\ LeftInv
  OBVIOUS
<1>1. SockInv /\ WriterInv
  BY ConstantsFacts DEF Init, SockInv, WriterInv
<1>2. LeftInv
  <2>1. \A b \in Buckets : \A t \in Threads : readers[b][t] = 0 /\ served[t] = 0
    BY DEF Init
  <2>2. \A b \in Buckets : \A t \in Threads : Owed(t, b) = 0
    BY DEF Init, Owed
  <2>. QED  BY <2>1, <2>2 DEF LeftInv
<1>. QED  BY <1>1, <1>2

(* socket_sem changes hands only by way of None.                           *)
LEMMA SockMoves ==
  ASSUME Base, SockInv, NEW t \in Threads, Moves(t)
  PROVE  SockInv'
<1> USE LocalTypes DEF Goto
<1>0. TypeOf1 /\ ThreadInv
  BY DEF Base, Layer1
<1>1. \/ sock' = None
      \/ sock' = t /\ pc'[t] \in {"recvreq", "recving"}
      \/ sock' = sock /\ pc[t] \notin {"recvreq", "recving"}
  <2> USE <1>0 DEF TypeOf1
  <2>1. CASE Accept(t) \/ HandleGet(t)
    BY <2>1 DEF Accept, HandleGet, BadRequest, GetCacheEntry, CheckTtl, OpenCached,
                SendCached, SendError, Request
  <2>2. CASE ConnectRemote(t) \/ SendRequest(t) \/ RecvEnter(t) \/ RecvHeader(t)
             \/ RecvPacket(t) \/ RecvEnd(t) \/ ReadRem(t) \/ WrLockEnter(t)
    BY <2>2 DEF ConnectRemote, SendRequest, RecvEnter, RecvHeader, RecvPacket, RecvEnd,
                ReadRem, WrLockEnter
  <2>3. CASE WrLock(t) \/ OpenForWrite(t) \/ OpenFails(t) \/ FreeUncached(t) \/ Forward(t)
             \/ Finish(t)
    BY <2>3 DEF WrLock, OpenForWrite, OpenFails, FreeUncached, Forward, Finish
  <2>. QED  BY <2>1, <2>2, <2>3 DEF Moves, FetchRemote
<1>2. \A s \in Threads : s # t => pc'[s] = pc[s]
  BY OthersStill DEF Still
<1>3. None \notin Threads
  BY ConstantsFacts
<1>. QED  BY <1>1, <1>2, <1>3 DEF SockInv

(* The write lock of a bucket is taken by the thread that then opens the   *)
(* file and is given back by the one that has it.                          *)
LEMMA WriterMoves ==
  ASSUME Base, WriterInv, KindInv, NEW t \in Threads, Moves(t)
  PROVE  WriterInv'
<1> USE DEF Goto
<1>0. TypeOf1 /\ ThreadInv /\ LockInv
  BY DEF Base, Layer1
<1>1. \A s \in Threads : s # t => (Holds(s)' <=> Holds(s)) /\ Bucket(s)' = Bucket(s)
  BY OthersStill DEF Still, Holds, Writing, Bucket, Key
<1>2. CASE UNCHANGED writer /\ (Holds(t) => Holds(t)' /\ url'[t] = url[t])
  BY <1>1, <1>2 DEF WriterInv, Bucket, Key
<1>3. CASE Accept(t) \/ HandleGet(t)
  <2>1. UNCHANGED writer
    BY <1>3 DEF Accept, HandleGet, BadRequest, GetCacheEntry, CheckTtl, OpenCached,
                SendCached, SendError, Request, lockVars
  <2>2. pc[t] \notin {"open", "fwd", "recv", "recving", "finish"}
    BY <1>3 DEF Accept, HandleGet, BadRequest, GetCacheEntry, CheckTtl, OpenCached,
                SendCached, SendError, Request
  <2>. QED  BY <1>2, <2>1, <2>2 DEF Holds, Writing
<1>4. CASE \/ ConnectRemote(t) \/ SendRequest(t) \/ ReadRem(t) \/ WrLockEnter(t)
           \/ FreeUncached(t)
  <2>1. UNCHANGED writer /\ pc[t] \notin {"open", "fwd", "recv", "recving", "finish"}
    BY <1>4 DEF ConnectRemote, SendRequest, ReadRem, WrLockEnter, FreeUncached, lockVars
  <2>. QED  BY <1>2, <2>1 DEF Holds, Writing
<1>5. CASE RecvEnter(t) \/ RecvPacket(t) \/ Forward(t)
  <2>1. /\ UNCHANGED <<writer, url, caching>>
        /\ pc[t] \in {"recv", "recving", "fwd"} /\ pc'[t] \in {"recving", "fwd", "recv", "finish"}
        /\ part[t] > 0 => part'[t] > 0
    BY <1>0, <1>5 DEF RecvEnter, RecvPacket, Forward, lockVars, fetchVars, TypeOf1
  <2>. QED  BY <1>2, <2>1 DEF Holds, Writing
<1>6. CASE RecvHeader(t)
  <2>1. UNCHANGED writer /\ part[t] = 0 /\ pc[t] = "recving"
    BY <1>6 DEF RecvHeader, lockVars
  <2>. QED  BY <1>2, <2>1 DEF Holds, Writing
<1>7. CASE RecvEnd(t)
  <2>1. UNCHANGED <<writer, url, part>> /\ pc[t] = "recving" /\ pc'[t] = "finish"
    BY <1>0, <1>7 DEF RecvEnd, lockVars, TypeOf1
  <2>2. part[t] > 0 => caching'[t] = caching[t]
    BY <1>7 DEF RecvEnd
  <2>. QED  BY <1>2, <2>1, <2>2 DEF Holds, Writing
<1>8. CASE OpenForWrite(t)
  <2>1. /\ UNCHANGED <<writer, url, part, caching>>
        /\ pc[t] = "open" /\ pc'[t] = "fwd"
    BY <1>0, <1>8 DEF OpenForWrite, lockVars, fetchVars, TypeOf1
  <2>2. caching[t] /\ part[t] > 0
    BY <1>0, <2>1 DEF KindInv, KindOf, ThreadInv
  <2>. QED  BY <1>2, <2>1, <2>2 DEF Holds, Writing
<1>9. CASE WrLock(t)
  <2>1. /\ pc[t] = "wwait" /\ pc'[t] = "open" /\ UNCHANGED url
        /\ writer' = [writer EXCEPT ![Bucket(t)] = t]
    BY <1>0, <1>9 DEF WrLock, WrLockTaken, TypeOf1
  <2>2. \A b \in Buckets : b # Bucket(t) => writer'[b] = writer[b]
    BY <1>0, <2>1 DEF TypeOf1
  <2>3. \A b \in Buckets : writer[b] # t
    BY <2>1 DEF WriterInv, Holds, Writing
  <2>4. \A b \in Buckets : \A s \in Threads : writer'[b] = s =>
          \/ s = t /\ b = Bucket(t)
          \/ s # t /\ writer[b] = s
    BY <1>0, <2>1, <2>2, <2>3 DEF TypeOf1
  <2>. QED  BY <1>1, <2>1, <2>4 DEF WriterInv, Holds, Bucket, Key
<1>10. CASE OpenFails(t) \/ Finish(t)
  <2>1. pc[t] \in {"open", "finish"} /\ UNCHANGED url
    BY <1>10 DEF OpenFails, Finish
  <2>2. Bucket(t) \in Buckets
    BY <1>0, <2>1, KeyType DEF ThreadInv, UrlAt, NodeAt
  <2>3. CASE writer' = [writer EXCEPT ![Bucket(t)] = None]
    <3>1. \A b \in Buckets : \A s \in Threads : writer'[b] = s => writer[b] = s /\ s # t
      BY <1>0, <2>2, <2>3, ConstantsFacts DEF TypeOf1, WriterInv
    <3>. QED  BY <1>1, <3>1 DEF WriterInv
  <2>4. CASE Finish(t) /\ ~caching[t]
    BY <1>2, <2>4 DEF Finish, Holds, Writing
  <2>. QED  BY <1>10, <2>3, <2>4 DEF OpenFails, Finish, WrUnlock
<1>. QED
  BY <1>3, <1>4, <1>5, <1>6, <1>7, <1>8, <1>9, <1>10 DEF Moves, FetchRemote

(* A request gives back the read lock it took, or its client has no page.  *)
LEMMA LeftMoves ==
  ASSUME Base, KindInv, LeftInv, NEW t \in Threads, Moves(t)
  PROVE  LeftInv'
<1> USE DEF Goto
<1>0. TypeOf1 /\ ThreadInv /\ LockInv /\ reply \in [Threads -> Reply]
      /\ readers \in [Buckets -> [Threads -> Nat]] /\ \A s \in Threads : served[s] \in Nat
  BY LocalTypes DEF Base, Layer1, LockInv
<1>1. CASE /\ \A s \in Threads : s # t => \A b \in Buckets : readers'[b][s] = readers[b][s]
           /\ \A b \in Buckets : readers'[b][t] =< served'[t] - Owed(t, b)'
  <2>1. \A s \in Threads : s # t => \A b \in Buckets : Owed(s, b)' = Owed(s, b)
    BY OthersStill DEF Still, Owed, Bucket, Key
  <2>2. \A s \in Threads : s # t => served'[s] = served[s]
    BY OthersStill DEF Still
  <2>. QED  BY <1>1, <2>1, <2>2 DEF LeftInv
<1>2. CASE Accept(t)
  <2>1. /\ UNCHANGED readers /\ served'[t] = served[t] + 1
        /\ pc'[t] = "recvreq"
    BY <1>0, <1>2 DEF Accept, TypeOf1, lockVars
  <2>2. \A b \in Buckets : Owed(t, b)' = 1 /\ Owed(t, b) \in {0, 1}
    BY <2>1 DEF Owed
  <2>3. \A b \in Buckets : readers[b][t] =< served[t]
    BY <1>0, <2>2 DEF LeftInv
  <2>. QED  BY <1>0, <1>1, <2>1, <2>2, <2>3
<1>3. CASE OpenCached(t)
  <2>1. /\ pc[t] = "serve" /\ UNCHANGED <<url, served>>
        /\ readers' = [readers EXCEPT ![Bucket(t)][t] = @ + 1]
        /\ \/ pc'[t] = "sending"
           \/ pc'[t] = "done" /\ reply' = reply
    BY <1>0, <1>3 DEF OpenCached, RdLock, TypeOf1, fetchVars
  <2>2. Bucket(t) \in Buckets
    BY <1>0, <2>1, KeyType DEF ThreadInv, UrlAt, NodeAt
  <2>3. reply[t].kind = "none"
    BY <2>1, NoReplyIs DEF KindInv, KindOf
  <2>4. \A b \in Buckets : readers[b][t] =< served[t] - 1
    BY <2>1 DEF LeftInv, Owed
  <2>5. \A b \in Buckets : \A s \in Threads :
          readers'[b][s] = IF s = t /\ b = Bucket(t) THEN readers[b][t] + 1 ELSE readers[b][s]
    BY <1>0, <2>1, <2>2
  <2>6. \A b \in Buckets : Owed(t, b)' = IF pc'[t] = "sending" /\ b # Bucket(t) THEN 1 ELSE 0
    BY <2>1, <2>3 DEF Owed, Bucket, Key
  <2>7. \A b \in Buckets : readers'[b][t] =< served'[t] - Owed(t, b)'
    BY <1>0, <2>1, <2>4, <2>5, <2>6
  <2>. QED  BY <1>1, <2>5, <2>7
<1>4. CASE SendCached(t)
  <2>1. /\ pc[t] = "sending" /\ pc'[t] = "done" /\ UNCHANGED <<url, served>>
        /\ readers' = [readers EXCEPT ![Bucket(t)][t] = @ - 1]
    BY <1>0, <1>4 DEF SendCached, RdUnlock, TypeOf1, fetchVars
  <2>2. Bucket(t) \in Buckets
    BY <1>0, <2>1, KeyType DEF ThreadInv, UrlAt, NodeAt
  <2>3. \A b \in Buckets : /\ Owed(t, b) = IF b = Bucket(t) THEN 0 ELSE 1
                           /\ Owed(t, b)' \in {0, 1}
    BY <2>1 DEF Owed
  <2>4. \A b \in Buckets : \A s \in Threads :
          readers'[b][s] = IF s = t /\ b = Bucket(t) THEN readers[b][t] - 1 ELSE readers[b][s]
    BY <1>0, <2>1, <2>2
  <2>5. \A b \in Buckets : readers'[b][t] =< served'[t] - 1
    BY <1>0, <2>1, <2>3, <2>4 DEF LeftInv
  <2>6. \A b \in Buckets : readers'[b][t] =< served'[t] - Owed(t, b)'
    BY <1>0, <2>1, <2>2, <2>3, <2>4, <2>5
  <2>. QED  BY <1>1, <2>4, <2>6
<1>5. ASSUME UNCHANGED <<readers, served>>, pc[t] \notin {"idle", "sending", "done"}
      PROVE  LeftInv'
  <2>1. \A b \in Buckets : Owed(t, b) = 1 /\ Owed(t, b)' \in {0, 1}
    BY <1>5 DEF Owed
  <2>2. \A b \in Buckets : readers[b][t] =< served[t] - 1
    BY <2>1 DEF LeftInv
  <2>. QED  BY <1>0, <1>1, <1>5, <2>1, <2>2
<1>6. CASE HandleGet(t) /\ ~OpenCached(t) /\ ~SendCached(t)
  BY <1>5, <1>6 DEF HandleGet, BadRequest, GetCacheEntry, CheckTtl, SendError, Request,
                    lockVars, fetchVars
<1>7. CASE FetchRemote(t)
  BY <1>5, <1>7 DEF FetchRemote, ConnectRemote, SendRequest, RecvEnter, RecvHeader,
                    RecvPacket, RecvEnd, ReadRem, WrLockEnter, WrLock, OpenForWrite,
                    OpenFails, FreeUncached, Forward, Finish, lockVars, fetchVars
<1>. QED  BY <1>2, <1>3, <1>4, <1>6, <1>7 DEF Moves

LEMMA LeakStep ==
  ASSUME Base, KindInv, SockInv, WriterInv, LeftInv, [Next]_vars
  PROVE  SockInv' /\ WriterInv' /\ LeftInv'
<1>1. CASE UNCHANGED <<cacheVars, lockVars, sock, page, fetchVars, threadVars>>
  <2>1. UNCHANGED <<writer, readers, sock, caching, part, pc, served, url, reply>>
    BY <1>1 DEF lockVars, fetchVars, threadVars
  <2>. QED  BY <2>1 DEF SockInv, WriterInv, LeftInv, Holds, Writing, Owed, Bucket, Key
<1>2. CASE \E t \in Threads : Moves(t)
  BY <1>2, SockMoves, WriterMoves, LeftMoves
<1>. QED  BY <1>1, <1>2, WhoMoves

LEMMA NothingIsLeft ==
  ASSUME Base, SockInv, WriterInv, LeftInv
  PROVE  NothingLeaked
<1> SUFFICES ASSUME NEW t \in Threads, pc[t] = "done"
             PROVE  /\ sock # t
                    /\ \A b \in Buckets :
                         /\ writer[b] # t
                         /\ readers[b][t] =<
                              served[t] - (IF reply[t].kind = "none" THEN 0 ELSE 1)
  BY DEF NothingLeaked
<1>1. sock # t
  BY DEF SockInv
<1>2. \A b \in Buckets : writer[b] # t
  BY DEF WriterInv, Holds, Writing
<1>3. \A b \in Buckets : Owed(t, b) = IF reply[t].kind = "none" THEN 0 ELSE 1
  BY DEF Owed
<1>4. \A b \in Buckets : readers[b][t] =<
        served[t] - (IF reply[t].kind = "none" THEN 0 ELSE 1)
  BY <1>3 DEF LeftInv
<1>. QED  BY <1>1, <1>2, <1>4

(* A thread that is done with a request has neither socket_sem nor the     *)
(* write lock of a bucket; of read locks it has at most one for each       *)
(* request whose client got no page.                                       *)
THEOREM RequestsLeaveNothing == Spec => []NothingLeaked
<1> DEFINE I == Base /\ KindInv /\ SockInv /\ WriterInv /\ LeftInv
<1>1. Init => I
  BY BaseInit, KindInit, LeakInit
<1>2. I /\ [Next]_vars => I'
  BY BaseStep, KindStep, LeakStep
<1>3. I => NothingLeaked
  BY NothingIsLeft
<1>. QED  BY <1>1, <1>2, <1>3, PTL DEF Spec
-----------------------------------------------------------------------------
(* Layer 8.                                                                *)
LEMMA OrderInit == Init => OrderInv
<1> SUFFICES ASSUME Init, NEW t \in Threads PROVE OrderOf(t)
  BY DEF OrderInv
<1>1. pc[t] = "idle"
  BY DEF Init
<1>. QED  BY <1>1 DEF OrderOf

(* No packet has been sent.                                                *)
LEMMA NoneInOrder ==
  ASSUME NEW t \in Threads, reply[t].body = <<>>
  PROVE  InOrder(t, 0) /\ (~caching[t] => InOrder(t, 1))
<1>1. [i \in 1..0 |-> <<url[t], ver[t], i + 0>>] = <<>>
  OBVIOUS
<1>2. [i \in 1..0 |-> <<url[t], ver[t], i + 1>>] = <<>>
  OBVIOUS
<1>3. 0 - 0 = 0 /\ 1 - 1 = 0
  OBVIOUS
<1>. QED  BY <1>1, <1>2, <1>3 DEF InOrder

LEMMA NoneYet ==
  ASSUME NEW t \in Threads, InOrder(t, 0)
  PROVE  reply[t].body = <<>>
<1>1. PICK s \in {0, 1} : /\ 0 - s \in Nat
                          /\ reply[t].body = [i \in 1..(0 - s) |-> <<url[t], ver[t], i + s>>]
  BY DEF InOrder
<1>2. 0 - s = 0
  BY <1>1
<1>. QED  BY <1>1, <1>2

(* The packets sent stay in order, and so does one more.                   *)
LEMMA StillInOrder ==
  ASSUME NEW t \in Threads, NEW n, InOrder(t, n),
         reply'[t].body = reply[t].body, url'[t] = url[t], ver'[t] = ver[t],
         caching'[t] => caching[t]
  PROVE  InOrder(t, n)'
BY DEF InOrder

(* Append, element by element.                                             *)
LEMMA AppendIs ==
  ASSUME NEW S, NEW f \in Seq(S), NEW e \in S, NEW m \in Nat, Len(f) = m
  PROVE  Append(f, e) = [i \in 1..(m + 1) |-> IF i = m + 1 THEN e ELSE f[i]]
<1> DEFINE h == Append(f, e)
<1>1. h \in Seq(S) /\ Len(h) = m + 1
  OBVIOUS
<1>2. \A i \in 1..(m + 1) : h[i] = IF i = m + 1 THEN e ELSE f[i]
  OBVIOUS
<1>3. h = [i \in 1..(m + 1) |-> h[i]]
  <2> HIDE DEF h
  <2>. QED  BY <1>1
<1> HIDE DEF h
<1>4. h = [i \in 1..(m + 1) |-> IF i = m + 1 THEN e ELSE f[i]]
  BY <1>2, <1>3
<1>. QED  BY <1>4 DEF h

LEMMA OneMore ==
  ASSUME NEW t \in Threads, NEW n \in Int, InOrder(t, n - 1),
         reply'[t].body = Append(reply[t].body, <<url[t], ver[t], n>>),
         url'[t] = url[t], ver'[t] = ver[t], caching'[t] = caching[t]
  PROVE  InOrder(t, n)'
<1>1. PICK s \in {0, 1} :
        /\ s = 1 => ~caching[t]
        /\ n - 1 - s \in Nat
        /\ reply[t].body = [i \in 1..(n - 1 - s) |-> <<url[t], ver[t], i + s>>]
  BY DEF InOrder
<1> DEFINE m == n - 1 - s
           f == [i \in 1..m |-> <<url[t], ver[t], i + s>>]
           g == [i \in 1..(n - s) |-> <<url[t], ver[t], i + s>>]
<1>2. m \in Nat /\ n - s = m + 1 /\ n = m + 1 + s
  BY <1>1
<1> DEFINE S == {<<url[t], ver[t], i>> : i \in Int}
<1>3. f \in Seq(S) /\ Len(f) = m /\ <<url[t], ver[t], n>> \in S
  BY <1>2
<1>4. Append(f, <<url[t], ver[t], n>>) = g
  <2> DEFINE h == Append(f, <<url[t], ver[t], n>>)
  <2>1. h = [i \in 1..(m + 1) |-> IF i = m + 1 THEN <<url[t], ver[t], n>> ELSE f[i]]
    <3> HIDE DEF f, S
    <3>. QED  BY <1>2, <1>3, AppendIs
  <2>2. \A i \in 1..(m + 1) : h[i] = <<url[t], ver[t], i + s>>
    BY <1>2, <2>1
  <2>. QED  BY <1>2, <2>1, <2>2
<1>5. reply'[t].body = [i \in 1..(n - s) |-> <<url'[t], ver'[t], i + s>>]
  BY <1>1, <1>4
<1>6. n - s \in Nat
  BY <1>2
<1>. QED  BY <1>1, <1>5, <1>6 DEF InOrder

LEMMA OrderMoves ==
  ASSUME Base, KindInv, OrderInv, NEW t \in Threads, Moves(t)
  PROVE  OrderOf(t)'
<1> USE DEF Goto
<1>0. /\ TypeOf1 /\ ThreadInv /\ reply \in [Threads -> Reply]
      /\ reply[t] \in Reply /\ part[t] \in Nat /\ OrderOf(t) /\ KindOf(t)
  BY LocalTypes DEF OrderInv, KindInv
<1>1. CASE pc'[t] \in {"recvreq", "lookup", "connect", "ttl", "serve", "sendreq", "sending"}
  BY <1>1 DEF OrderOf
<1>2. CASE pc'[t] = "done" /\ ~Relayed(t)'
  BY <1>2 DEF OrderOf, Relayed
<1>3. CASE Accept(t)
  BY <1>0, <1>1, <1>3 DEF Accept, TypeOf1
<1>4. CASE BadRequest(t) \/ ConnectRemote(t)
  <2>1. /\ pc[t] \in {"recvreq", "connect"} /\ reply' = reply
        /\ pc'[t] \in {"error", "sendreq"}
    BY <1>0, <1>4 DEF BadRequest, ConnectRemote, TypeOf1
  <2>2. reply'[t].body = <<>>
    BY <1>0, <2>1, NoReplyIs DEF KindOf
  <2>. QED  BY <2>1, <2>2 DEF OrderOf
<1>5. CASE GetCacheEntry(t) \/ CheckTtl(t) \/ \E u \in Urls : Request(t, u)
  <2>1. /\ pc[t] \in {"recvreq", "lookup", "ttl"} /\ reply' = reply
        /\ pc'[t] \in {"lookup", "connect", "ttl", "serve", "done"}
    BY <1>0, <1>5 DEF GetCacheEntry, CheckTtl, Request, TypeOf1
  <2>2. ~Relayed(t)'
    BY <1>0, <2>1, NoReplyIs DEF KindOf, Relayed
  <2>. QED  BY <1>1, <1>2, <2>1, <2>2
<1>6. CASE OpenCached(t) \/ SendCached(t) \/ SendError(t)
  <2>1. pc'[t] \in {"sending", "done"}
    BY <1>0, <1>6 DEF OpenCached, SendCached, SendError, TypeOf1
  <2>2. CASE OpenCached(t)
    <3>1. reply[t].kind = "none"
      BY <1>0, <2>2, NoReplyIs DEF KindOf, OpenCached
    <3>2. reply'[t].kind \in {"none", "cached"}
      BY <1>0, <2>2, <3>1 DEF OpenCached
    <3>. QED  BY <1>1, <1>2, <2>1, <3>2 DEF Relayed
  <2>3. CASE SendCached(t) \/ SendError(t)
    <3>1. reply'[t].kind \in {"error", "cached"}
      BY <1>0, <2>3 DEF KindOf, SendCached, SendError, Reply
    <3>. QED  BY <1>1, <1>2, <2>1, <3>1 DEF Relayed
  <2>. QED  BY <1>6, <2>2, <2>3
<1>7. CASE SendRequest(t)
  <2>1. /\ pc[t] = "sendreq" /\ pc'[t] = "recv" /\ part' = part
        /\ reply'[t].body = reply[t].body
    BY <1>0, <1>7 DEF SendRequest, TypeOf1, Reply
  <2>2. part'[t] = 0 /\ reply'[t].body = <<>>
    BY <1>0, <2>1, NoReplyIs DEF ThreadInv, KindOf
  <2>3. InOrder(t, 0)'
    BY <2>2, NoneInOrder DEF InOrder
  <2>. QED  BY <2>1, <2>2, <2>3 DEF OrderOf, InOrder
<1>8. CASE RecvEnter(t)
  <2>1. /\ pc[t] = "recv" /\ pc'[t] = "recving"
        /\ UNCHANGED <<part, reply, url, ver, caching>>
    BY <1>0, <1>8 DEF RecvEnter, TypeOf1, fetchVars
  <2>. QED  BY <1>0, <2>1 DEF OrderOf, InOrder
<1>9. CASE RecvHeader(t)
  <2>1. /\ pc[t] = "recving" /\ part[t] = 0
        /\ \/ pc'[t] = "rem" /\ part'[t] = 1
           \/ pc'[t] = "error"
        /\ reply'[t].body = reply[t].body
    BY <1>0, <1>9 DEF RecvHeader, TypeOf1, Reply
  <2>2. reply'[t].body = <<>>
    BY <1>0, <2>1, NoneYet DEF OrderOf
  <2>. QED  BY <2>1, <2>2 DEF OrderOf
<1>10. CASE RecvPacket(t)
  <2>1. /\ pc[t] = "recving" /\ pc'[t] = "fwd" /\ part'[t] = part[t] + 1
        /\ UNCHANGED <<reply, url, ver, caching>>
    BY <1>0, <1>10 DEF RecvPacket, TypeOf1
  <2>2. InOrder(t, part[t]) /\ part'[t] - 1 = part[t]
    BY <1>0, <2>1 DEF OrderOf
  <2>. QED  BY <2>1, <2>2 DEF OrderOf, InOrder
<1>11. CASE RecvEnd(t)
  <2>1. /\ pc[t] = "recving" /\ pc'[t] = "finish"
        /\ UNCHANGED <<url, ver, part>> /\ reply'[t].body = reply[t].body
        /\ caching'[t] => caching[t]
    BY <1>0, <1>11 DEF RecvEnd, TypeOf1, Reply
  <2>2. InOrder(t, part[t])
    BY <1>0, <2>1 DEF OrderOf
  <2>3. \A n : InOrder(t, n) => InOrder(t, n)'
    BY <2>1 DEF InOrder
  <2>4. \E n \in Nat : InOrder(t, n)'
    BY <1>0, <2>2, <2>3
  <2>. QED  BY <2>1, <2>4 DEF OrderOf
<1>12. CASE ReadRem(t)
  <2>1. /\ pc[t] = "rem" /\ pc'[t] \in {"wlock", "fwd"}
        /\ UNCHANGED <<reply, url, ver, caching, part>>
    BY <1>0, <1>12 DEF ReadRem, TypeOf1
  <2>2. part[t] = 1 /\ reply[t].body = <<>>
    BY <1>0, <2>1 DEF OrderOf
  <2>3. InOrder(t, part[t] - 1)
    BY <2>2, NoneInOrder
  <2>. QED  BY <2>1, <2>2, <2>3 DEF OrderOf, InOrder
<1>13. CASE WrLockEnter(t) \/ WrLock(t) \/ OpenFails(t)
  <2>1. /\ pc[t] \in {"wlock", "wwait", "open"} /\ pc'[t] \in {"wwait", "open", "recheck"}
        /\ UNCHANGED <<reply, part>>
    BY <1>0, <1>13 DEF WrLockEnter, WrLock, OpenFails, TypeOf1, fetchVars
  <2>. QED  BY <1>0, <2>1 DEF OrderOf
<1>14. CASE OpenForWrite(t)
  <2>1. /\ pc[t] = "open" /\ pc'[t] = "fwd" /\ UNCHANGED <<reply, url, ver, caching, part>>
    BY <1>0, <1>14 DEF OpenForWrite, TypeOf1, fetchVars
  <2>2. part[t] = 1 /\ reply[t].body = <<>>
    BY <1>0, <2>1 DEF OrderOf
  <2>3. InOrder(t, part[t] - 1)
    BY <2>2, NoneInOrder
  <2>. QED  BY <2>1, <2>2, <2>3 DEF OrderOf, InOrder
<1>15. CASE FreeUncached(t)
  <2>1. /\ pc[t] = "recheck" /\ pc'[t] = "recv" /\ UNCHANGED <<reply, url, ver, caching, part>>
    BY <1>0, <1>15 DEF FreeUncached, TypeOf1, fetchVars
  <2>2. part[t] = 1 /\ reply[t].body = <<>> /\ ~caching[t]
    BY <1>0, <2>1 DEF OrderOf, ThreadInv
  <2>3. InOrder(t, part[t])
    BY <2>2, NoneInOrder
  <2>. QED  BY <2>1, <2>3 DEF OrderOf, InOrder
<1>16. CASE Forward(t)
  <2>1. /\ pc[t] = "fwd" /\ pc'[t] \in {"finish", "recv"}
        /\ UNCHANGED <<url, ver, caching, part>>
        /\ reply'[t].body = Append(reply[t].body, <<url[t], ver[t], part[t]>>)
    BY <1>0, <1>16 DEF Forward, TypeOf1, Reply, fetchVars
  <2>2. InOrder(t, part[t] - 1)
    BY <1>0, <2>1 DEF OrderOf
  <2>3. \A n \in Int : n = part[t] => InOrder(t, n)'
    <3> SUFFICES ASSUME NEW n \in Int, n = part[t] PROVE InOrder(t, n)'
      OBVIOUS
    <3>. QED  BY <1>0, <2>1, <2>2, OneMore
  <2>4. \E n \in Nat : n = part'[t] /\ InOrder(t, n)'
    BY <1>0, <2>1, <2>3
  <2>. QED  BY <2>1, <2>4 DEF OrderOf, InOrder
<1>17. CASE Finish(t)
  <2>1. /\ pc[t] = "finish" /\ pc'[t] = "done" /\ UNCHANGED <<reply, url, ver, caching, part>>
    BY <1>0, <1>17 DEF Finish, TypeOf1, fetchVars
  <2>2. \A n : InOrder(t, n) => InOrder(t, n)'
    BY <2>1 DEF InOrder
  <2>3. Relayed(t)' => \E n \in Nat : InOrder(t, n)'
    BY <1>0, <2>1, <2>2 DEF OrderOf, Relayed
  <2>. QED  BY <2>1, <2>3 DEF OrderOf
<1>. QED
  BY <1>3, <1>4, <1>5, <1>6, <1>7, <1>8, <1>9, <1>10, <1>11, <1>12, <1>13, <1>14, <1>15,
     <1>16, <1>17 DEF Moves, HandleGet, FetchRemote

LEMMA OrderStep ==
  ASSUME Base, KindInv, OrderInv, [Next]_vars
  PROVE  OrderInv'
<1>1. CASE UNCHANGED <<cacheVars, lockVars, sock, page, fetchVars, threadVars>>
  <2>1. UNCHANGED <<caching, ver, part, pc, url, reply>>
    BY <1>1 DEF threadVars, fetchVars
  <2>2. \A t, n : InOrder(t, n) <=> InOrder(t, n)'
    BY <2>1 DEF InOrder
  <2>. QED  BY <2>1, <2>2 DEF OrderInv, OrderOf, Relayed
<1>2. ASSUME NEW t \in Threads, Moves(t) PROVE OrderInv'
  <2> SUFFICES ASSUME NEW s \in Threads PROVE OrderOf(s)'
    BY DEF OrderInv
  <2>1. CASE s = t
    BY <1>2, <2>1, OrderMoves
  <2>2. CASE s # t
    <3>1. Still(s) /\ OrderOf(s)
      BY <1>2, <2>2, OthersStill DEF OrderInv
    <3>2. \A n : InOrder(s, n) <=> InOrder(s, n)'
      BY <3>1 DEF Still, InOrder
    <3>. QED  BY <3>1, <3>2 DEF Still, OrderOf, Relayed
  <2>. QED  BY <2>1, <2>2
<1>. QED  BY <1>1, <1>2, WhoMoves

LEMMA OrderIsKept ==
  ASSUME Base, KindInv, OrderInv
  PROVE  RelayedInOrder
<1> DEFINE Good(t) ==
      \/ reply[t].body = [i \in DOMAIN reply[t].body |-> <<url[t], ver[t], i>>]
      \/ /\ ~caching[t]
         /\ reply[t].body = [i \in DOMAIN reply[t].body |-> <<url[t], ver[t], i + 1>>]
<1> SUFFICES ASSUME NEW t \in Threads, Relayed(t)
             PROVE  Good(t)
  BY DEF RelayedInOrder, Relayed
<1>1. ASSUME NEW n, InOrder(t, n) PROVE Good(t)
  <2>1. PICK s \in {0, 1} :
          /\ s = 1 => ~caching[t]
          /\ n - s \in Nat
          /\ reply[t].body = [i \in 1..(n - s) |-> <<url[t], ver[t], i + s>>]
    BY <1>1 DEF InOrder
  <2>2. DOMAIN reply[t].body = 1..(n - s) /\ \A i \in 1..(n - s) : i \in Int
    BY <2>1
  <2>3. CASE s = 0
    <3>1. \A i \in 1..(n - s) : i + s = i
      BY <2>2, <2>3
    <3>. QED  BY <2>1, <2>2, <3>1
  <2>4. CASE s = 1
    BY <2>1, <2>2, <2>4
  <2>. QED  BY <2>3, <2>4
<1>2. CASE reply[t].body = <<>>
  BY <1>2
<1>3. OrderOf(t) /\ KindOf(t) /\ pc[t] \in Locations
  BY LocalTypes DEF OrderInv, KindInv
<1>4. pc[t] \in Relaying \cup {"done", "error"}
  BY <1>3, NoReplyIs DEF KindOf, Relayed, Locations, Relaying
<1>5. CASE pc[t] \in {"rem", "wlock", "wwait", "open", "recheck", "error"}
  BY <1>2, <1>3, <1>5 DEF OrderOf
<1>6. CASE pc[t] \in {"recv", "recving", "fwd", "finish", "done"}
  BY <1>1, <1>3, <1>6 DEF OrderOf
<1>. QED  BY <1>4, <1>5, <1>6 DEF Relaying

(* What a client is sent from the origin is in order and skips none but    *)
(* the first packet, whatever the origin does and whichever file cannot be *)
(* opened.                                                                 *)
THEOREM RelayedAsReceived == Spec => []RelayedInOrder
<1> DEFINE I == Base /\ KindInv /\ OrderInv
<1>1. Init => I
  BY BaseInit, KindInit, OrderInit
<1>2. I /\ [Next]_vars => I'
  BY BaseStep, KindStep, OrderStep
<1>3. I => RelayedInOrder
  BY OrderIsKept
<1>. QED  BY <1>1, <1>2, <1>3, PTL DEF Spec
-----------------------------------------------------------------------------
(* Layer 9.                                                                *)
LEMMA SteadyFacts ==
  ASSUME Steady
  PROVE  /\ Parts[1] \in Nat /\ Parts[1] > 0
         /\ \A v \in 1..MaxVer : Parts[v] = Parts[1]
         /\ "close" \notin Answers /\ "stall" \notin Answers /\ ~OpenMayFail
BY ConstantsFacts DEF Steady

(* A length changes to what a header says, which is the length of a page.  *)
LEMMA LengthsStep ==
  ASSUME Steady, Base, [Next]_vars
  PROVE  \A n \in Nodes : filesize'[n] \in {filesize[n], Parts[1]}
<1>0. TypeOf1 /\ ThreadInv
  BY DEF Base, Layer1
<1>1. CASE filesize' = filesize
  BY <1>1
<1>2. CASE \E t \in Threads : RecvHeader(t)
  <2> PICK t \in Threads : RecvHeader(t)
    BY <1>2
  <2>1. filesize' = filesize \/ filesize' = [filesize EXCEPT ![node[t]] = Parts[ver[t]]]
    BY DEF RecvHeader
  <2>2. Parts[ver[t]] = Parts[1]
    BY LocalTypes, SteadyFacts
  <2>. QED  BY <1>0, <2>1, <2>2 DEF TypeOf1
<1>3. ASSUME NEW t \in Threads, HandleGet(t) \/ Accept(t) PROVE filesize' = filesize
  BY <1>3 DEF HandleGet, Accept, BadRequest, GetCacheEntry, CheckTtl, OpenCached,
              SendCached, SendError, Request, cacheVars
<1>4. ASSUME NEW t \in Threads, FetchRemote(t), ~RecvHeader(t) PROVE filesize' = filesize
  BY <1>4 DEF FetchRemote, ConnectRemote, SendRequest, RecvEnter, RecvPacket, RecvEnd,
              ReadRem, WrLockEnter, WrLock, OpenForWrite, OpenFails, FreeUncached,
              Forward, Finish, cacheVars
<1>5. CASE UNCHANGED <<cacheVars, lockVars, sock, page, fetchVars, threadVars>>
  BY <1>5 DEF cacheVars
<1>. QED  BY <1>1, <1>2, <1>3, <1>4, <1>5, WhoMoves DEF Moves

(* The nodes of the chains are there after a step, and one more may be.    *)
LEMMA InChainStep ==
  ASSUME Base, [Next]_vars
  PROVE  /\ \A n \in Nodes : InChain(n) => InChain(n)'
         /\ \A n \in Nodes : InChain(n)' =>
              InChain(n) \/ \E t \in Threads : OpenForWrite(t) /\ node[t] = n
<1>0. TypeOf1 /\ ThreadInv
  BY DEF Base, Layer1
<1>1. CASE chain' = chain
  BY <1>1 DEF InChain
<1>2. ASSUME NEW t \in Threads, OpenForWrite(t),
             chain' = [chain EXCEPT ![Bucket(t)] = Append(chain[Bucket(t)], node[t])]
      PROVE  /\ \A n \in Nodes : InChain(n) => InChain(n)'
             /\ \A n \in Nodes : InChain(n)' => InChain(n) \/ node[t] = n
  <2>1. node[t] \in Nodes /\ Bucket(t) \in Buckets
    BY <1>0, <1>2, OpenHasNode
  <2>2. \A b \in Buckets : chain[b] \in Seq(Nodes)
    BY <1>0 DEF TypeOf1
  <2>3. \A b \in Buckets : chain'[b] = chain[b] \/ chain'[b] = Append(chain[b], node[t])
    BY <1>0, <1>2, <2>1 DEF TypeOf1
  <2>4. \A b \in Buckets : \A i \in DOMAIN chain[b] :
          i \in DOMAIN chain'[b] /\ chain'[b][i] = chain[b][i]
    <3> SUFFICES ASSUME NEW b \in Buckets, NEW i \in DOMAIN chain[b]
                 PROVE  i \in DOMAIN chain'[b] /\ chain'[b][i] = chain[b][i]
      OBVIOUS
    <3>1. CASE chain'[b] = chain[b]
      BY <3>1
    <3>2. CASE chain'[b] = Append(chain[b], node[t])
      BY <2>1, <2>2, <3>2
    <3>. QED  BY <2>3, <3>1, <3>2
  <2>5. \A b \in Buckets : \A i \in DOMAIN chain'[b] :
          (i \in DOMAIN chain[b] /\ chain'[b][i] = chain[b][i]) \/ chain'[b][i] = node[t]
    <3> SUFFICES ASSUME NEW b \in Buckets, NEW i \in DOMAIN chain'[b]
                 PROVE  \/ i \in DOMAIN chain[b] /\ chain'[b][i] = chain[b][i]
                        \/ chain'[b][i] = node[t]
      OBVIOUS
    <3>1. CASE chain'[b] = chain[b]
      BY <3>1
    <3>2. CASE chain'[b] = Append(chain[b], node[t])
      BY <2>1, <2>2, <3>2
    <3>. QED  BY <2>3, <3>1, <3>2
  <2>. QED  BY <2>4, <2>5 DEF InChain
<1>. QED  BY <1>0, <1>1, <1>2, ChainStep

LEMMA LengthInit == Init => LengthInv
<1> SUFFICES ASSUME Init PROVE LengthInv
  OBVIOUS
<1>1. \A n \in Nodes : filesize[n] = 0 /\ ~InChain(n)
  BY DEF Init, InChain
<1>2. \A t \in Threads : pc[t] = "idle"
  BY DEF Init
<1>. QED  BY <1>1, <1>2 DEF LengthInv

(* get_cache_entry hands out a node of the chain.                          *)
LEMMA NodeIsInChain ==
  ASSUME Base, KindInv, LengthInv, [Next]_vars, NEW t \in Threads,
         pc'[t] \in {"ttl", "serve", "sending"}
  PROVE  InChain(node[t])'
<1> USE DEF Goto
<1>0. TypeOf1 /\ ThreadInv
  BY DEF Base, Layer1
<1>1. CASE pc[t] \in {"ttl", "serve", "sending"} /\ node'[t] = node[t]
  <2>1. node[t] \in Nodes /\ InChain(node[t])
    BY <1>0, <1>1 DEF TypeOf1, ThreadInv, NodeAt, LengthInv
  <2>2. \A n \in Nodes : InChain(n) => \E b \in Buckets : \E i \in DOMAIN chain'[b] : chain'[b][i] = n
    BY InChainStep DEF InChain
  <2>. QED  BY <1>1, <2>1, <2>2 DEF InChain
<1>2. CASE GetCacheEntry(t)
  <2>1. /\ pc[t] = "lookup" /\ UNCHANGED chain
        /\ pc'[t] # "connect" =>
             \E i \in Matching(Bucket(t), Key(t)) : node' = [node EXCEPT ![t] = chain[Bucket(t)][i]]
    BY <1>0, <1>2 DEF GetCacheEntry, TypeOf1, cacheVars
  <2>2. Bucket(t) \in Buckets
    BY <1>0, <2>1, KeyType DEF ThreadInv, UrlAt
  <2>3. \E i \in DOMAIN chain[Bucket(t)] : node'[t] = chain[Bucket(t)][i]
    BY <1>0, <2>1 DEF Matching, TypeOf1
  <2>. QED  BY <2>1, <2>2, <2>3 DEF InChain
<1>3. CASE CheckTtl(t) \/ OpenCached(t)
  <2>1. pc[t] \in {"ttl", "serve"} /\ node' = node
    BY <1>3 DEF CheckTtl, OpenCached
  <2>. QED  BY <1>1, <2>1
<1>4. CASE Moves(t) /\ ~GetCacheEntry(t) /\ ~CheckTtl(t) /\ ~OpenCached(t)
  <2>1. CASE Accept(t) \/ HandleGet(t)
    BY <1>0, <1>4, <2>1
       DEF Accept, HandleGet, BadRequest, SendCached, SendError, Request, TypeOf1
  <2>2. CASE FetchRemote(t)
    BY <1>0, <1>4, <2>2
       DEF FetchRemote, ConnectRemote, SendRequest, RecvEnter, RecvHeader,
         RecvPacket, RecvEnd, ReadRem, WrLockEnter, WrLock, OpenForWrite, OpenFails,
         FreeUncached, Forward, Finish, TypeOf1
  <2>. QED  BY <1>4, <2>1, <2>2 DEF Moves
<1>5. ASSUME NEW s \in Threads, s # t, Moves(s) PROVE InChain(node[t])'
  BY <1>1, <1>5, OthersStill DEF Still
<1>6. CASE UNCHANGED <<cacheVars, lockVars, sock, page, fetchVars, threadVars>>
  BY <1>1, <1>6 DEF threadVars
<1>. QED  BY <1>2, <1>3, <1>4, <1>5, <1>6, WhoMoves

LEMMA LengthStep ==
  ASSUME Steady, Base, KindInv, SteadyInv, [Next]_vars
  PROVE  LengthInv'
<1>0. LengthInv /\ \A t \in Threads : RemoteOf(t)
  BY DEF SteadyInv
<1>1. \A n \in Nodes : filesize'[n] \in {0, Parts[1]}
  BY <1>0, LengthsStep DEF LengthInv
<1>2. \A n \in Nodes : InChain(n)' => filesize'[n] = Parts[1]
  <2> SUFFICES ASSUME NEW n \in Nodes, InChain(n)' PROVE filesize'[n] = Parts[1]
    OBVIOUS
  <2>1. CASE InChain(n)
    BY <1>0, <2>1, LengthsStep DEF LengthInv
  <2>2. ASSUME NEW t \in Threads, OpenForWrite(t), node[t] = n
        PROVE  filesize'[n] = Parts[1]
    <3>1. pc[t] = "open" /\ filesize' = filesize
      BY <2>2 DEF OpenForWrite
    <3>2. caching[t]
      BY <3>1 DEF KindInv, KindOf
    <3>3. filesize[n] = Parts[1]
      BY <1>0, <2>2, <3>1, <3>2 DEF RemoteOf, Relaying
    <3>. QED  BY <3>1, <3>3
  <2>. QED  BY <2>1, <2>2, InChainStep
<1>3. \A t \in Threads : pc'[t] \in {"ttl", "serve", "sending"} => InChain(node[t])'
  BY <1>0, NodeIsInChain
<1>. QED  BY <1>1, <1>2, <1>3 DEF LengthInv

(* The first n packets, and one more.                                      *)
LEMMA FirstOfNone == \A t : First(t, 0) = <<>>
BY DEF First

LEMMA FirstAndNext ==
  ASSUME NEW t \in Threads, NEW n \in Nat
  PROVE  Append(First(t, n), <<url[t], ver[t], n + 1>>) = First(t, n + 1)
<1> DEFINE f == First(t, n)
           h == Append(f, <<url[t], ver[t], n + 1>>)
           S == {<<url[t], ver[t], i>> : i \in Int}
<1>1. /\ f \in Seq(S) /\ Len(f) = n /\ <<url[t], ver[t], n + 1>> \in S
      /\ f = [i \in 1..n |-> <<url[t], ver[t], i>>]
  BY DEF First
<1>2. h = [i \in 1..(n + 1) |-> IF i = n + 1 THEN <<url[t], ver[t], n + 1>> ELSE f[i]]
  <2> HIDE DEF f, S
  <2>. QED  BY <1>1, AppendIs
<1>3. \A i \in 1..(n + 1) : h[i] = <<url[t], ver[t], i>>
  BY <1>1, <1>2
<1>. QED  BY <1>2, <1>3 DEF First

LEMMA AllIsWhole ==
  ASSUME Steady, Base, NEW t \in Threads
  PROVE  First(t, Parts[1]) = Whole(url[t], ver[t])
BY SteadyFacts, LocalTypes DEF First, Whole

(* What a thread that relays a page has sent is what it has received, and  *)
(* bytes_rem is what is to come.                                           *)
LEMMA RemoteMoves ==
  ASSUME Steady, Base, KindInv, OrderInv, SteadyInv, NEW t \in Threads, Moves(t)
  PROVE  RemoteOf(t)'
<1> USE DEF Goto
<1>0. /\ TypeOf1 /\ ThreadInv /\ reply \in [Threads -> Reply] /\ reply[t] \in Reply
      /\ part[t] \in Nat /\ rem[t] \in Int /\ caching[t] \in BOOLEAN
      /\ KindOf(t) /\ RemoteOf(t) /\ OrderOf(t)
      /\ Parts[1] \in Nat /\ Parts[1] > 0
  BY LocalTypes, SteadyFacts DEF KindInv, SteadyInv, OrderInv
<1>1. CASE pc'[t] \notin Relaying \cup {"done"}
  BY <1>1 DEF RemoteOf, Relaying
<1>2. CASE pc'[t] = "done" /\ reply'[t].kind # "remote"
  BY <1>2 DEF RemoteOf, Relaying
<1>3. CASE Accept(t) \/ HandleGet(t) \/ ConnectRemote(t)
  <2>1. CASE Accept(t) \/ BadRequest(t) \/ ConnectRemote(t) \/ \E u \in Urls : Request(t, u)
    BY <1>0, <1>1, <2>1 DEF Accept, BadRequest, ConnectRemote, Request, TypeOf1, Relaying
  <2>2. CASE GetCacheEntry(t) \/ CheckTtl(t)
    <3>1. /\ pc[t] \in {"lookup", "ttl"} /\ reply' = reply
          /\ pc'[t] \in {"connect", "ttl", "serve", "done"}
      BY <1>0, <2>2 DEF GetCacheEntry, CheckTtl, TypeOf1
    <3>2. reply'[t].kind = "none"
      BY <1>0, <3>1, NoReplyIs DEF KindOf
    <3>. QED  BY <1>1, <1>2, <3>1, <3>2 DEF Relaying
  <2>3. CASE OpenCached(t)
    <3>1. reply[t].kind = "none" /\ pc'[t] \in {"sending", "done"}
      BY <1>0, <2>3, NoReplyIs DEF KindOf, OpenCached, TypeOf1
    <3>2. reply'[t].kind \in {"none", "cached"}
      BY <1>0, <2>3, <3>1 DEF OpenCached
    <3>. QED  BY <1>1, <1>2, <3>1, <3>2 DEF Relaying
  <2>4. CASE SendCached(t) \/ SendError(t)
    <3>1. reply'[t].kind \in {"error", "cached"} /\ pc'[t] = "done"
      BY <1>0, <2>4 DEF KindOf, SendCached, SendError, Reply, TypeOf1
    <3>. QED  BY <1>2, <3>1
  <2>. QED  BY <1>3, <2>1, <2>2, <2>3, <2>4 DEF HandleGet
<1>4. CASE SendRequest(t)
  <2>1. /\ pc[t] = "sendreq" /\ pc'[t] = "recv" /\ part' = part
        /\ reply'[t].body = reply[t].body /\ reply'[t].kind = "remote"
    BY <1>0, <1>4 DEF SendRequest, TypeOf1, Reply
  <2>2. part'[t] = 0 /\ reply'[t].body = <<>>
    BY <1>0, <2>1, NoReplyIs DEF ThreadInv, KindOf
  <2>3. reply'[t].body = First(t, part[t])'
    BY <2>2 DEF First
  <2>. QED  BY <2>1, <2>2, <2>3 DEF RemoteOf, Relaying
<1>5. CASE RecvEnter(t)
  <2>1. /\ pc[t] = "recv" /\ pc'[t] = "recving"
        /\ UNCHANGED <<part, reply, url, ver, caching, rem>>
    BY <1>0, <1>5 DEF RecvEnter, TypeOf1, fetchVars
  <2>. QED  BY <1>0, <2>1 DEF RemoteOf, Relaying, First
<1>6. CASE RecvHeader(t)
  <2>1. /\ pc[t] = "recving" /\ part[t] = 0 /\ node' = node
        /\ node[t] \in Nodes
        /\ reply[t].body = <<>>
    BY <1>0, <1>6, NoneYet DEF RecvHeader, ThreadInv, NodeAt, TypeOf1, OrderOf
  <2>2. CASE /\ filesize' = [filesize EXCEPT ![node[t]] = Parts[ver[t]]]
             /\ part' = [part EXCEPT ![t] = 1] /\ pc' = [pc EXCEPT ![t] = "rem"]
             /\ UNCHANGED <<caching, reply>>
    <3>1. /\ filesize'[node'[t]] = Parts[1] /\ part'[t] = 1 /\ pc'[t] = "rem"
      BY <1>0, <2>1, <2>2, LocalTypes, SteadyFacts DEF TypeOf1
    <3>. QED  BY <1>0, <2>1, <2>2, <3>1 DEF RemoteOf, Relaying
  <2>3. CASE /\ caching' = [caching EXCEPT ![t] = FALSE]
             /\ pc' = [pc EXCEPT ![t] = "rem"]
             /\ reply' = [reply EXCEPT ![t].kind = "status"]
    <3>1. reply'[t].kind = "status" /\ ~caching'[t]
      BY <1>0, <2>3 DEF Reply, TypeOf1
    <3>. QED  BY <3>1 DEF RemoteOf
  <2>4. CASE pc' = [pc EXCEPT ![t] = "error"]
    BY <1>0, <1>1, <2>4 DEF TypeOf1, Relaying
  <2>. QED  BY <1>6, <2>2, <2>3, <2>4 DEF RecvHeader
<1>7. CASE RecvPacket(t)
  <2>1. /\ pc[t] = "recving" /\ pc'[t] = "fwd"
        /\ part[t] > 0 /\ part'[t] = part[t] + 1 /\ rem'[t] = rem[t] - 1
        /\ UNCHANGED <<reply, url, ver, caching>>
    BY <1>0, <1>7 DEF RecvPacket, TypeOf1
  <2>2. First(t, part[t] - 1)' = First(t, part[t])
    <3>1. part'[t] - 1 = part[t]
      BY <1>0, <2>1
    <3>. QED  BY <2>1, <3>1 DEF First
  <2>3. caching[t] => reply[t].kind = "remote"
    BY <1>0, <2>1 DEF RemoteOf, Relaying
  <2>4. reply[t].kind = "remote" =>
          /\ rem[t] = Parts[1] - part[t] /\ rem[t] > 0
          /\ reply[t].body = First(t, part[t])
    BY <1>0, <2>1 DEF RemoteOf
  <2>5. reply[t].kind = "remote" =>
          /\ rem'[t] = Parts[1] - part'[t] /\ rem'[t] >= 0
          /\ reply'[t].body = First(t, part[t] - 1)'
    BY <1>0, <2>1, <2>2, <2>4
  <2>. QED  BY <2>1, <2>3, <2>5 DEF RemoteOf
<1>8. CASE RecvEnd(t)
  <2>1. /\ pc[t] = "recving" /\ pc'[t] = "finish" /\ part[t] = Parts[ver[t]]
        /\ reply'[t].kind = "remote" => reply[t].kind = "remote"
        /\ caching'[t] => caching[t]
    BY <1>0, <1>8, SteadyFacts DEF RecvEnd, TypeOf1, Reply
  <2>2. part[t] = Parts[1]
    BY <2>1, LocalTypes, SteadyFacts
  <2>3. reply[t].kind # "remote"
    BY <1>0, <2>1, <2>2 DEF RemoteOf
  <2>4. ~caching[t]
    BY <1>0, <2>1, <2>3 DEF RemoteOf, Relaying
  <2>. QED  BY <2>1, <2>3, <2>4 DEF RemoteOf
<1>9. CASE ReadRem(t)
  <2>1. /\ pc[t] = "rem" /\ pc'[t] = (IF caching[t] THEN "wlock" ELSE "fwd")
        /\ UNCHANGED <<reply, url, ver, caching, part, filesize, node>>
        /\ rem'[t] = filesize[node[t]] - 1
    BY <1>0, <1>9 DEF ReadRem, BytesRem, TypeOf1, cacheVars
  <2>2. part[t] = 1 /\ part[t] - 1 = 0
    BY <1>0, <2>1 DEF OrderOf
  <2>3. First(t, part[t] - 1)' = <<>>
    BY <2>1, <2>2 DEF First
  <2>. QED  BY <1>0, <2>1, <2>2, <2>3 DEF RemoteOf, Relaying
<1>10. CASE WrLockEnter(t) \/ WrLock(t)
  <2>1. /\ pc[t] \in {"wlock", "wwait"} /\ pc'[t] \in {"wwait", "open"}
        /\ UNCHANGED <<reply, part, rem, caching, filesize, node>>
    BY <1>0, <1>10 DEF WrLockEnter, WrLock, TypeOf1, fetchVars, cacheVars
  <2>. QED  BY <1>0, <2>1 DEF RemoteOf, Relaying
<1>11. CASE OpenForWrite(t)
  <2>1. /\ pc[t] = "open" /\ pc'[t] = "fwd" /\ UNCHANGED <<reply, url, ver, caching, part, rem>>
    BY <1>0, <1>11 DEF OpenForWrite, TypeOf1, fetchVars
  <2>2. part[t] = 1 /\ part[t] - 1 = 0
    BY <1>0, <2>1 DEF OrderOf
  <2>3. First(t, part[t] - 1)' = <<>>
    BY <2>1, <2>2 DEF First
  <2>. QED  BY <1>0, <2>1, <2>2, <2>3 DEF RemoteOf, Relaying
<1>12. CASE OpenFails(t)
  BY <1>12, SteadyFacts DEF OpenFails
<1>13. CASE FreeUncached(t)
  <2>1. pc[t] = "recheck" /\ pc'[t] = "recv" /\ UNCHANGED <<reply, caching>>
    BY <1>0, <1>13 DEF FreeUncached, TypeOf1, fetchVars
  <2>. QED  BY <1>0, <2>1 DEF RemoteOf, Relaying
<1>14. CASE Forward(t)
  <2>1. /\ pc[t] = "fwd" /\ pc'[t] = (IF rem[t] =< 0 THEN "finish" ELSE "recv")
        /\ UNCHANGED <<url, ver, caching, part, rem>>
        /\ reply'[t].body = Append(reply[t].body, <<url[t], ver[t], part[t]>>)
        /\ reply'[t].kind = reply[t].kind
    BY <1>0, <1>14 DEF Forward, LastPacket, TypeOf1, Reply, fetchVars
  <2>2. SUFFICES ASSUME reply[t].kind = "remote" PROVE RemoteOf(t)'
    BY <1>0, <2>1 DEF RemoteOf, Relaying
  <2>3. /\ rem[t] = Parts[1] - part[t] /\ rem[t] >= 0
        /\ reply[t].body = First(t, part[t] - 1)
        /\ part[t] > 0
    BY <1>0, <2>1, <2>2 DEF RemoteOf, ThreadInv
  <2>4. part[t] - 1 \in Nat /\ (part[t] - 1) + 1 = part[t]
    BY <1>0, <2>3
  <2>5. reply'[t].body = First(t, part[t])
    BY <2>1, <2>3, <2>4, FirstAndNext
  <2>6. First(t, part[t])' = First(t, part[t]) /\ Whole(url[t], ver[t])' = Whole(url[t], ver[t])
    BY <2>1 DEF First, Whole
  <2>7. CASE rem[t] =< 0
    <3>1. part[t] = Parts[1]
      BY <1>0, <2>3, <2>7
    <3>2. reply'[t].body = Whole(url[t], ver[t])
      BY <2>5, <3>1, AllIsWhole
    <3>. QED  BY <2>1, <2>2, <2>6, <2>7, <3>1, <3>2 DEF RemoteOf, Relaying
  <2>8. CASE rem[t] > 0
    <3>1. pc'[t] = "recv"
      BY <1>0, <2>1, <2>8
    <3>. QED  BY <2>1, <2>2, <2>3, <2>5, <2>6, <2>8, <3>1 DEF RemoteOf, Relaying
  <2>. QED  BY <1>0, <2>7, <2>8
<1>15. CASE Finish(t)
  <2>1. pc[t] = "finish" /\ pc'[t] = "done" /\ UNCHANGED <<reply, url, ver, caching, part>>
    BY <1>0, <1>15 DEF Finish, TypeOf1, fetchVars
  <2>. QED  BY <1>0, <2>1 DEF RemoteOf, Relaying, Whole
<1>. QED
  BY <1>3, <1>4, <1>5, <1>6, <1>7, <1>8, <1>9, <1>10, <1>11, <1>12, <1>13, <1>14, <1>15
  DEF Moves, FetchRemote

LEMMA RemoteStep ==
  ASSUME Steady, Base, KindInv, OrderInv, SteadyInv, [Next]_vars, NEW t \in Threads
  PROVE  RemoteOf(t)'
<1>1. CASE Moves(t)
  BY <1>1, RemoteMoves
<1>2. CASE Still(t)
  <2>0. RemoteOf(t) /\ TypeOf1 /\ ThreadInv
    BY DEF SteadyInv, Base, Layer1
  <2>1. pc[t] \in {"rem", "wlock", "wwait", "open"} => node[t] \in Nodes
    BY <2>0 DEF ThreadInv, NodeAt, TypeOf1
  <2>2. filesize[node[t]] = Parts[1] /\ node[t] \in Nodes => filesize'[node[t]] = Parts[1]
    BY LengthsStep
  <2>. QED  BY <1>2, <2>0, <2>1, <2>2 DEF Still, RemoteOf, First, Whole
<1>3. CASE \E s \in Threads : s # t /\ Moves(s)
  BY <1>2, <1>3, OthersStill
<1>4. CASE UNCHANGED <<cacheVars, lockVars, sock, page, fetchVars, threadVars>>
  BY <1>2, <1>4 DEF Still, fetchVars, threadVars
<1>. QED  BY <1>1, <1>3, <1>4, WhoMoves
-----------------------------------------------------------------------------
(* A bucket that is locked for writing has nobody else at work in it.      *)
LEMMA Exclusive ==
  ASSUME Base, NEW s \in Threads, NEW t \in Threads, s # t,
         Holds(t), pc[s] = "sending" \/ Holds(s)
  PROVE  Key(s) # Key(t)
<1> SUFFICES ASSUME Key(s) = Key(t) PROVE FALSE
  OBVIOUS
<1>0. TypeOf1 /\ ThreadInv /\ LockInv
  BY DEF Base, Layer1
<1>1. Bucket(s) = Bucket(t) /\ Bucket(t) \in Buckets
  BY <1>0, KeyType DEF Holds, Writing, ThreadInv, UrlAt, NodeAt, Bucket
<1>2. writer[Bucket(t)] = t
  BY <1>0 DEF LockInv
<1>3. CASE Holds(s)
  BY <1>0, <1>1, <1>2, <1>3 DEF LockInv
<1>4. CASE pc[s] = "sending"
  BY <1>0, <1>1, <1>2, <1>4, ConstantsFacts DEF LockInv
<1>. QED  BY <1>3, <1>4

(* What a step leaves of a writer, and the three that change a file.       *)
Keeps(s) ==
  /\ Writing(s)' <=> Writing(s)
  /\ Writing(s) => Key(s)' = Key(s) /\ First(s, part[s])' = First(s, part[s])

Writes(t) ==
  OpenForWrite(t) \/ (RecvPacket(t) /\ Writing(t)) \/ (Finish(t) /\ Writing(t))

LEMMA OthersKeep ==
  ASSUME NEW s \in Threads, Still(s)
  PROVE  Keeps(s)
BY DEF Still, Keeps, Writing, Key, First

LEMMA WhoWrites ==
  ASSUME Steady, Base, KindInv, OrderInv, SteadyInv, NEW t \in Threads, Moves(t)
  PROVE  Writes(t) \/ (page' = page /\ Keeps(t))
<1> USE DEF Goto, Keeps
<1>0. /\ TypeOf1 /\ ThreadInv /\ part[t] \in Nat /\ caching[t] \in BOOLEAN
      /\ KindOf(t) /\ RemoteOf(t) /\ OrderOf(t)
      /\ Parts[1] \in Nat /\ Parts[1] > 0
  BY LocalTypes, SteadyFacts DEF KindInv, SteadyInv, OrderInv
<1>1. CASE Accept(t) \/ HandleGet(t) \/ ConnectRemote(t)
  BY <1>0, <1>1 DEF Accept, HandleGet, BadRequest, GetCacheEntry, CheckTtl, OpenCached,
       SendCached, SendError, Request, ConnectRemote, TypeOf1, Writing, envVars
<1>2. CASE SendRequest(t) \/ RecvHeader(t) \/ ReadRem(t) \/ WrLockEnter(t) \/ WrLock(t)
           \/ FreeUncached(t)
  BY <1>0, <1>2 DEF SendRequest, RecvHeader, ReadRem, WrLockEnter, WrLock, FreeUncached,
       TypeOf1, ThreadInv, Writing, envVars, fetchVars
<1>3. CASE RecvEnter(t)
  <2>1. /\ pc[t] = "recv" /\ pc'[t] = "recving" /\ page' = page
        /\ UNCHANGED <<part, url, ver, caching>>
    BY <1>0, <1>3 DEF RecvEnter, TypeOf1, fetchVars, envVars
  <2>. QED  BY <2>1 DEF Writing, Key, First
<1>4. CASE Forward(t)
  <2>1. /\ pc[t] = "fwd" /\ pc'[t] \in {"recv", "finish"} /\ page' = page
        /\ UNCHANGED <<part, url, ver, caching>>
    BY <1>0, <1>4 DEF Forward, TypeOf1, fetchVars, envVars
  <2>. QED  BY <2>1 DEF Writing, Key, First
<1>5. CASE RecvPacket(t) \/ Finish(t)
  <2>1. CASE Writing(t)
    BY <1>5, <2>1 DEF Writes
  <2>2. CASE ~Writing(t)
    BY <1>0, <1>5, <2>2
       DEF RecvPacket, Finish, TypeOf1, ThreadInv, Writing, envVars, fetchVars
  <2>. QED  BY <2>1, <2>2
<1>6. CASE RecvEnd(t)
  <2>1. pc[t] = "recving" /\ pc'[t] = "finish" /\ part[t] = Parts[ver[t]] /\ part' = part
    BY <1>0, <1>6, SteadyFacts DEF RecvEnd, TypeOf1
  <2>2. part[t] = Parts[1]
    BY <2>1, LocalTypes, SteadyFacts
  <2>3. ~caching[t]
    BY <1>0, <2>1, <2>2 DEF RemoteOf, Relaying
  <2>4. page' = page /\ caching' = caching
    BY <1>0, <1>6, <2>2, <2>3 DEF RecvEnd
  <2>. QED  BY <2>3, <2>4 DEF Writing
<1>7. CASE OpenForWrite(t) \/ OpenFails(t)
  BY <1>7, SteadyFacts DEF OpenFails, Writes
<1>. QED
  BY <1>1, <1>2, <1>3, <1>4, <1>5, <1>6, <1>7 DEF Moves, FetchRemote

(* A page is written packet by packet, and is whole when its writer is     *)
(* done with it.                                                           *)
LEMMA WritesFacts ==
  ASSUME Steady, Base, KindInv, OrderInv, SteadyInv, NEW t \in Threads, Writes(t)
  PROVE  /\ Key(t) \in Keys /\ Key(t)' = Key(t) /\ url[t] \in Urls
         /\ Holds(t) /\ page[Key(t)]' = First(t, part[t])'
         /\ page' = [page EXCEPT ![Key(t)] = First(t, part[t])']
         /\ CASE Finish(t) -> /\ ~Writing(t)' /\ Writing(t)
                              /\ page[Key(t)] = Whole(url[t], ver[t])
                              /\ page' = page
              [] RecvPacket(t) -> Writing(t) /\ Writing(t)'
              [] OpenForWrite(t) -> ~Writing(t) /\ Writing(t)'
<1> USE DEF Goto
<1>0. /\ TypeOf1 /\ ThreadInv /\ part[t] \in Nat /\ caching[t] \in BOOLEAN
      /\ KindOf(t) /\ RemoteOf(t) /\ OrderOf(t) /\ FileInv
      /\ Parts[1] \in Nat /\ Parts[1] > 0
      /\ page \in [Keys -> Seq(Packet) \cup {None}]
  BY LocalTypes, SteadyFacts DEF KindInv, SteadyInv, OrderInv, Base, PageInv
<1>1. pc[t] \in {"open", "recving", "finish"} /\ UNCHANGED <<url, ver, caching>>
  BY DEF Writes, OpenForWrite, RecvPacket, Finish, fetchVars
<1>2. url[t] \in Urls /\ Key(t) \in Keys /\ Key(t)' = Key(t)
  BY <1>0, <1>1, KeyType DEF Writes, Writing, ThreadInv, UrlAt, NodeAt, Key
<1>3. Holds(t)
  BY DEF Writes, Holds, OpenForWrite
<1>4. \A n : First(t, n)' = First(t, n)
  BY <1>1 DEF First
<1>5. CASE OpenForWrite(t)
  <2>1. /\ pc[t] = "open" /\ pc'[t] = "fwd" /\ part' = part
        /\ page' = [page EXCEPT ![Key(t)] = << <<url[t], ver[t], 1>> >>]
    BY <1>0, <1>5 DEF OpenForWrite, TypeOf1, fetchVars
  <2>2. part[t] = 1 /\ caching[t]
    BY <1>0, <2>1 DEF OrderOf, KindOf
  <2>3. First(t, part[t])' = << <<url[t], ver[t], 1>> >>
    BY <1>1, <2>1, <2>2 DEF First
  <2>4. ~Writing(t) /\ Writing(t)'
    BY <1>1, <2>1, <2>2 DEF Writing
  <2>5. ~Finish(t) /\ ~RecvPacket(t)
    BY <2>1 DEF Finish, RecvPacket
  <2>. QED  BY <1>0, <1>2, <1>3, <1>5, <2>1, <2>3, <2>4, <2>5
<1>6. CASE RecvPacket(t) /\ Writing(t)
  <2>1. /\ pc[t] = "recving" /\ pc'[t] = "fwd" /\ part'[t] = part[t] + 1 /\ caching[t]
        /\ page' = [page EXCEPT ![Key(t)] =
                      Append(page[Key(t)], <<url[t], ver[t], part[t] + 1>>)]
    BY <1>0, <1>6 DEF RecvPacket, TypeOf1, Writing
  <2>2. page[Key(t)] = First(t, part[t])
    BY <1>0, <1>6 DEF FileInv
  <2>3. First(t, part[t])' = First(t, part[t] + 1)
    BY <1>1, <2>1 DEF First
  <2>4. page' = [page EXCEPT ![Key(t)] = First(t, part[t])']
    BY <1>0, <2>1, <2>2, <2>3, FirstAndNext
  <2>5. Writing(t)'
    BY <1>0, <1>1, <2>1 DEF Writing
  <2>6. ~Finish(t) /\ ~OpenForWrite(t)
    BY <2>1 DEF Finish, OpenForWrite
  <2>. QED  BY <1>0, <1>2, <1>3, <1>6, <2>4, <2>5, <2>6
<1>7. CASE Finish(t) /\ Writing(t)
  <2>1. pc[t] = "finish" /\ pc'[t] = "done" /\ caching[t] /\ page' = page /\ part' = part
    BY <1>0, <1>7 DEF Finish, TypeOf1, envVars, fetchVars, Writing
  <2>2. part[t] = Parts[1]
    BY <1>0, <2>1 DEF RemoteOf, Relaying
  <2>3. page[Key(t)] = First(t, part[t])
    BY <1>0, <1>7 DEF FileInv
  <2>4. First(t, part[t])' = First(t, part[t])
    BY <1>1, <2>1 DEF First
  <2>5. page[Key(t)] = Whole(url[t], ver[t])
    BY <2>2, <2>3, AllIsWhole
  <2>6. ~Writing(t)'
    BY <2>1 DEF Writing
  <2>7. ~RecvPacket(t) /\ ~OpenForWrite(t)
    BY <2>1 DEF RecvPacket, OpenForWrite
  <2>. QED  BY <1>0, <1>2, <1>3, <1>7, <2>1, <2>3, <2>4, <2>5, <2>6, <2>7
<1>. QED  BY <1>5, <1>6, <1>7 DEF Writes

LEMMA FileStep ==
  ASSUME Steady, Base, KindInv, OrderInv, SteadyInv, [Next]_vars
  PROVE  FileInv'
<1>0. FileInv /\ page \in [Keys -> Seq(Packet) \cup {None}]
  BY DEF SteadyInv, Base, PageInv
<1>1. CASE page' = page /\ \A s \in Threads : Keeps(s)
  BY <1>0, <1>1 DEF FileInv, Keeps
<1>2. ASSUME NEW t \in Threads, Writes(t), \A s \in Threads : s # t => Keeps(s)
      PROVE  FileInv'
  <2>1. /\ Key(t) \in Keys /\ Key(t)' = Key(t) /\ url[t] \in Urls
        /\ Holds(t) /\ page[Key(t)]' = First(t, part[t])'
        /\ page' = [page EXCEPT ![Key(t)] = First(t, part[t])']
    BY <1>2, WritesFacts
  <2>2. \A s \in Threads : s # t /\ Writing(s) => Key(s) # Key(t)
    BY <2>1, Exclusive DEF Holds
  <2>3. \A k \in Keys : k # Key(t) => page'[k] = page[k]
    BY <1>0, <2>1
  <2>4. ASSUME NEW s \in Threads, Writing(s)' PROVE page[Key(s)]' = First(s, part[s])'
    <3>1. CASE s = t
      BY <2>1, <3>1
    <3>2. CASE s # t
      <4>1. Writing(s) /\ Key(s)' = Key(s) /\ First(s, part[s])' = First(s, part[s])
        BY <1>2, <2>4, <3>2 DEF Keeps
      <4>2. Key(s) # Key(t) /\ Key(s) \in Keys
        BY <2>2, <3>2, <4>1, KeyType DEF Base, Layer1, ThreadInv, Writing, UrlAt, NodeAt
      <4>. QED  BY <1>0, <2>3, <4>1, <4>2 DEF FileInv
    <3>. QED  BY <3>1, <3>2
  <2>5. ASSUME NEW k \in Keys, page'[k] # None, \A s \in Threads : Writing(s)' => Key(s)' # k
        PROVE  page'[k] \in WholePages
    <3>1. \A s \in Threads : s # t /\ Writing(s) => Key(s) # k
      BY <1>2, <2>5 DEF Keeps
    <3>2. CASE k # Key(t)
      BY <1>0, <2>3, <2>5, <3>1, <3>2 DEF FileInv
    <3>3. CASE k = Key(t)
      <4>1. ~Writing(t)'
        BY <2>1, <2>5, <3>3
      <4>2. page'[k] = Whole(url[t], ver[t])
        BY <1>2, <3>3, <4>1, WritesFacts DEF Writes
      <4>. QED  BY <2>1, <4>2, LocalTypes DEF WholePages
    <3>. QED  BY <3>2, <3>3
  <2>6. WholePages' = WholePages
    BY DEF WholePages, Whole
  <2>. QED  BY <2>4, <2>5, <2>6 DEF FileInv
<1>3. CASE \E t \in Threads : Moves(t)
  BY <1>1, <1>2, <1>3, WhoWrites, OthersStill, OthersKeep
<1>4. CASE UNCHANGED <<cacheVars, lockVars, sock, page, fetchVars, threadVars>>
  BY <1>1, <1>4, OthersKeep DEF Still, fetchVars, threadVars
<1>. QED  BY <1>3, <1>4, WhoMoves

(* What is sent from the cache is a whole page, with its length.           *)
LEMMA CachedMoves ==
  ASSUME Steady, Base, KindInv, OrderInv, SteadyInv, NEW t \in Threads, Moves(t)
  PROVE  CachedOf(t)'
<1> USE DEF Goto
<1>0. /\ TypeOf1 /\ ThreadInv /\ reply \in [Threads -> Reply] /\ reply[t] \in Reply
      /\ KindOf(t) /\ CachedOf(t) /\ LengthInv /\ FileInv
  BY LocalTypes DEF KindInv, SteadyInv
<1>1. CASE reply'[t].kind # "cached" \/ pc'[t] \notin {"sending", "done"}
  BY <1>1 DEF CachedOf
<1>2. CASE OpenCached(t)
  <2>1. pc[t] = "serve" /\ pc'[t] \in {"sending", "done"} /\ InChain(node[t])
    BY <1>0, <1>2 DEF OpenCached, LengthInv, TypeOf1
  <2>2. filesize[node[t]] = Parts[1]
    BY <1>0, <2>1 DEF LengthInv, ThreadInv, NodeAt, TypeOf1
  <2>3. CASE reply' = [reply EXCEPT ![t] =
               [kind |-> "cached", len |-> filesize[node[t]], body |-> <<>>]]
             /\ pc' = [pc EXCEPT ![t] = "sending"]
    <3>1. reply'[t].len = Parts[1] /\ pc'[t] = "sending"
      BY <1>0, <2>2, <2>3 DEF TypeOf1
    <3>. QED  BY <3>1 DEF CachedOf
  <2>4. CASE reply' = reply
    BY <1>0, <1>1, <2>1, <2>4, NoReplyIs DEF KindOf
  <2>. QED  BY <1>2, <2>3, <2>4 DEF OpenCached
<1>3. CASE SendCached(t)
  <2>1. /\ pc[t] = "sending" /\ Key(t) \in Keys
        /\ reply' = [reply EXCEPT ![t] = [reply[t] EXCEPT !.body = page[Key(t)]]]
    BY <1>0, <1>3, KeyType DEF SendCached, ThreadInv, UrlAt, NodeAt
  <2>2. reply'[t].len = reply[t].len /\ reply'[t].body = page[Key(t)]
    BY <1>0, <2>1 DEF Reply
  <2>3. reply[t].len = Parts[1]
    BY <1>0, <2>1 DEF CachedOf, KindOf
  <2>4. page[Key(t)] # None
    BY <2>1 DEF Base, PageInv
  <2>5. \A s \in Threads : Writing(s) => Key(s) # Key(t)
    <3> SUFFICES ASSUME NEW s \in Threads, Writing(s), Key(s) = Key(t) PROVE FALSE
      OBVIOUS
    <3>1. s # t
      BY <2>1 DEF Writing
    <3>. QED  BY <2>1, <3>1, Exclusive DEF Holds
  <2>6. page[Key(t)] \in WholePages
    BY <1>0, <2>1, <2>4, <2>5 DEF FileInv
  <2>7. WholePages' = WholePages
    BY DEF WholePages, Whole
  <2>. QED  BY <2>2, <2>3, <2>6, <2>7 DEF CachedOf
<1>4. CASE CheckTtl(t) \/ SendError(t)
  <2>1. reply'[t].kind # "cached"
    BY <1>0, <1>4, NoReplyIs DEF KindOf, CheckTtl, SendError, Reply
  <2>. QED  BY <1>1, <2>1
<1>5. CASE Finish(t)
  <2>1. reply'[t].kind # "cached"
    BY <1>0, <1>5, NoReplyIs DEF KindOf, Finish, Relaying, Relayed
  <2>. QED  BY <1>1, <2>1
<1>6. CASE Accept(t) \/ BadRequest(t) \/ GetCacheEntry(t) \/ \E u \in Urls : Request(t, u)
  BY <1>0, <1>1, <1>6 DEF Accept, BadRequest, GetCacheEntry, Request, TypeOf1
<1>7. CASE FetchRemote(t) /\ ~Finish(t)
  <2>1. pc'[t] \notin {"sending", "done"}
    BY <1>0, <1>7 DEF FetchRemote, ConnectRemote, SendRequest, RecvEnter, RecvHeader,
         RecvPacket, RecvEnd, ReadRem, WrLockEnter, WrLock, OpenForWrite, OpenFails,
         FreeUncached, Forward, TypeOf1
  <2>. QED  BY <1>1, <2>1
<1>. QED
  BY <1>2, <1>3, <1>4, <1>5, <1>6, <1>7 DEF Moves, HandleGet

LEMMA CachedStep ==
  ASSUME Steady, Base, KindInv, OrderInv, SteadyInv, [Next]_vars, NEW t \in Threads
  PROVE  CachedOf(t)'
<1>1. CASE Moves(t)
  BY <1>1, CachedMoves
<1>2. CASE Still(t)
  <2>1. CachedOf(t) /\ WholePages' = WholePages
    BY DEF SteadyInv, WholePages, Whole
  <2>. QED  BY <1>2, <2>1 DEF Still, CachedOf
<1>3. CASE \E s \in Threads : s # t /\ Moves(s)
  BY <1>2, <1>3, OthersStill
<1>4. CASE UNCHANGED <<cacheVars, lockVars, sock, page, fetchVars, threadVars>>
  BY <1>2, <1>4 DEF Still, fetchVars, threadVars
<1>. QED  BY <1>1, <1>3, <1>4, WhoMoves

LEMMA SteadyInit ==
  ASSUME Init
  PROVE  SteadyInv
<1>1. \A t \in Threads : pc[t] = "idle" /\ reply[t].kind = "none"
  BY DEF Init, NoReply
<1>2. \A k \in Keys : page[k] = None
  BY DEF Init
<1>3. FileInv
  BY <1>1, <1>2 DEF FileInv, Writing
<1>4. \A t \in Threads : RemoteOf(t) /\ CachedOf(t)
  BY <1>1 DEF RemoteOf, CachedOf, Relaying
<1>. QED  BY <1>3, <1>4, LengthInit DEF SteadyInv

ReplyInv == Base /\ KindInv /\ OrderInv /\ SteadyInv

LEMMA ReplyInvInit == Init => ReplyInv
BY BaseInit, KindInit, OrderInit, SteadyInit DEF ReplyInv

LEMMA ReplyInvStep == Steady /\ ReplyInv /\ [Next]_vars => ReplyInv'
<1> SUFFICES ASSUME Steady, Base, KindInv, OrderInv, SteadyInv, [Next]_vars
             PROVE  ReplyInv'
  BY DEF ReplyInv
<1>1. Base' /\ KindInv' /\ OrderInv'
  BY BaseStep, KindStep, OrderStep
<1>2. SteadyInv'
  BY LengthStep, FileStep, RemoteStep, CachedStep DEF SteadyInv
<1>. QED  BY <1>1, <1>2 DEF ReplyInv

(* If the origin's pages keep their length and it neither closes early nor *)
(* stalls, and files can be opened, a client that was served from the cache*)
(* has one whole version of a page and its Content-Length, and one for     *)
(* which fetch_remote returned 0 has the whole response.                   *)
THEOREM WholeReplies ==
  ASSUME Steady
  PROVE  Spec => []RepliesWhole
<1>1. ReplyInv => RepliesWhole
  <2> SUFFICES ASSUME ReplyInv, NEW t \in Threads, pc[t] = "done"
               PROVE  /\ reply[t].kind = "cached" =>
                           /\ reply[t].len = Len(reply[t].body)
                           /\ \E u \in Urls, v \in 1..MaxVer : reply[t].body = Whole(u, v)
                      /\ reply[t].kind = "remote" => reply[t].body = Whole(url[t], ver[t])
    BY DEF RepliesWhole
  <2>1. RemoteOf(t) /\ CachedOf(t)
    BY DEF ReplyInv, SteadyInv
  <2>2. \A u \in Urls, v \in 1..MaxVer : Len(Whole(u, v)) = Parts[1]
    BY SteadyFacts DEF Whole
  <2>. QED  BY <2>1, <2>2 DEF RemoteOf, CachedOf, WholePages
<1>2. Init => ReplyInv
  BY ReplyInvInit
<1>3. ReplyInv /\ [Next]_vars => ReplyInv'
  BY ReplyInvStep
<1>. QED  BY <1>1, <1>2, <1>3, PTL DEF Spec
-----------------------------------------------------------------------------
(* The cache is a PageStore.                                               *)
StoreOf == [k \in Keys |->
              IF \E t \in Threads : Writing(t) /\ Key(t) = k THEN None ELSE page[k]]
GotOf == [t \in Threads |-> IF reply[t].kind = "cached" THEN reply[t].body ELSE <<>>]

(* A client gets something when a cached page is sent, and leaves when the *)
(* thread accepts the next connection.                                     *)
LEMMA GotMoves ==
  ASSUME Base, KindInv, NEW t \in Threads, Moves(t)
  PROVE  \/ Accept(t) /\ GotOf' = [GotOf EXCEPT ![t] = <<>>]
         \/ SendCached(t) /\ GotOf' = [GotOf EXCEPT ![t] = page[Key(t)]]
         \/ GotOf' = GotOf
<1> DEFINE G(r) == IF r.kind = "cached" THEN r.body ELSE <<>>
<1> USE DEF Goto
<1>0. /\ TypeOf1 /\ ThreadInv /\ reply \in [Threads -> Reply] /\ reply[t] \in Reply
      /\ KindOf(t)
  BY LocalTypes DEF KindInv
<1>1. \A s \in Threads : s # t => reply'[s] = reply[s]
  BY OthersStill DEF Still
<1>2. GotOf = [s \in Threads |-> G(reply[s])] /\ GotOf' = [s \in Threads |-> G(reply'[s])]
  BY DEF GotOf
<1>3. GotOf' = [GotOf EXCEPT ![t] = G(reply'[t])]
  BY <1>1, <1>2
<1>4. G(reply'[t]) = G(reply[t]) => GotOf' = GotOf
  BY <1>1, <1>2
<1>5. CASE Accept(t)
  <2>1. G(reply'[t]) = <<>>
    BY <1>0, <1>5, NoReplyIs DEF Accept
  <2>. QED  BY <1>3, <1>5, <2>1
<1>6. CASE SendCached(t)
  <2>1. reply'[t].kind = "cached" /\ reply'[t].body = page[Key(t)]
    BY <1>0, <1>6 DEF SendCached, KindOf, Reply
  <2>. QED  BY <1>3, <1>6, <2>1
<1>7. CASE OpenCached(t)
  <2>1. G(reply[t]) = <<>>
    BY <1>0, <1>7, NoReplyIs DEF OpenCached, KindOf
  <2>2. G(reply'[t]) = <<>>
    BY <1>0, <1>7, <2>1 DEF OpenCached
  <2>. QED  BY <1>4, <2>1, <2>2
<1>8. CASE UNCHANGED reply
  BY <1>4, <1>8
<1>9. CASE reply[t].kind # "cached" /\ reply'[t].kind # "cached"
  BY <1>4, <1>9
<1>10. CASE SendError(t) \/ SendRequest(t) \/ RecvHeader(t) \/ RecvEnd(t) \/ Forward(t)
  <2>1. reply[t].kind # "cached"
    BY <1>0, <1>10, NoReplyIs
    DEF SendError, SendRequest, RecvHeader, RecvEnd, Forward, KindOf, Relaying, Relayed
  <2>2. \/ reply' = reply
        \/ \E k \in {"error", "remote", "status", "overrun"} :
             reply' = [reply EXCEPT ![t] = [reply[t] EXCEPT !.kind = k]]
        \/ \E b : reply' = [reply EXCEPT ![t] = [reply[t] EXCEPT !.body = b]]
    BY <1>10 DEF SendError, SendRequest, RecvHeader, RecvEnd, Forward
  <2>3. reply'[t].kind # "cached"
    BY <1>0, <2>1, <2>2 DEF Reply
  <2>. QED  BY <1>9, <2>1, <2>3
<1>. QED
  BY <1>5, <1>6, <1>7, <1>8, <1>10
  DEF Moves, HandleGet, FetchRemote, BadRequest, GetCacheEntry, CheckTtl, Request,
      ConnectRemote, RecvEnter, RecvPacket, ReadRem, WrLockEnter, WrLock, OpenForWrite,
      OpenFails, FreeUncached, Finish

(* While no thread writes a page, the store has what the file has.         *)
LEMMA StoreMoves ==
  ASSUME Steady, Base, KindInv, OrderInv, SteadyInv, NEW t \in Threads, Moves(t)
  PROVE  \/ StoreOf' = StoreOf
         \/ OpenForWrite(t) /\ \E k \in Keys :
              StoreOf[k] # None /\ StoreOf' = [StoreOf EXCEPT ![k] = None]
         \/ Finish(t) /\ \E k \in Keys, x \in WholePages :
              StoreOf[k] = None /\ StoreOf' = [StoreOf EXCEPT ![k] = x]
<1> DEFINE Busy(k) == \E s \in Threads : Writing(s) /\ Key(s) = k
<1>0. page \in [Keys -> Seq(Packet) \cup {None}] /\ ver[t] \in 1..MaxVer
  BY LocalTypes DEF Base, PageInv
<1>1. \A s \in Threads : s # t => Keeps(s)
  BY OthersStill, OthersKeep
<1>2. StoreOf = [k \in Keys |-> IF Busy(k) THEN None ELSE page[k]]
  BY DEF StoreOf
<1>3. StoreOf' = [k \in Keys |-> IF Busy(k)' THEN None ELSE page'[k]]
  BY DEF StoreOf
<1>4. CASE page' = page /\ Keeps(t)
  <2>1. \A k \in Keys : Busy(k)' = Busy(k)
    BY <1>1, <1>4 DEF Keeps
  <2>. QED  BY <1>2, <1>3, <1>4, <2>1
<1>5. CASE Writes(t)
  <2>1. /\ Key(t) \in Keys /\ Key(t)' = Key(t) /\ url[t] \in Urls /\ Holds(t)
        /\ page' = [page EXCEPT ![Key(t)] = First(t, part[t])']
    BY <1>5, WritesFacts
  <2>2. \A s \in Threads : s # t /\ Writing(s) => Key(s) # Key(t)
    BY <2>1, Exclusive DEF Holds
  <2>3. \A k \in Keys : k # Key(t) => page'[k] = page[k] /\ (Busy(k)' <=> Busy(k))
    BY <1>0, <1>1, <2>1 DEF Keeps
  <2>4. Busy(Key(t)) <=> Writing(t)
    BY <2>2
  <2>5. Busy(Key(t))' <=> Writing(t)'
    BY <1>1, <2>1, <2>2 DEF Keeps
  <2>6. StoreOf' = [StoreOf EXCEPT ![Key(t)] = IF Writing(t)' THEN None ELSE page'[Key(t)]]
    BY <1>2, <1>3, <2>1, <2>3, <2>5
  <2>7. StoreOf[Key(t)] = IF Writing(t) THEN None ELSE page[Key(t)]
    BY <1>2, <2>1, <2>4
  <2>8. CASE OpenForWrite(t)
    <3>1. ~Writing(t) /\ Writing(t)'
      BY <1>5, <2>8, WritesFacts DEF OpenForWrite, Finish, RecvPacket
    <3>2. StoreOf' = [StoreOf EXCEPT ![Key(t)] = None]
      BY <2>6, <3>1
    <3>3. CASE StoreOf[Key(t)] = None
      BY <1>2, <2>1, <3>2, <3>3
    <3>. QED  BY <2>1, <2>8, <3>2, <3>3
  <2>9. CASE RecvPacket(t) /\ Writing(t)
    <3>1. Writing(t)'
      BY <1>5, <2>9, WritesFacts DEF OpenForWrite, Finish, RecvPacket
    <3>2. StoreOf' = [StoreOf EXCEPT ![Key(t)] = None] /\ StoreOf[Key(t)] = None
      BY <2>6, <2>7, <2>9, <3>1
    <3>. QED  BY <1>2, <2>1, <3>2
  <2>10. CASE Finish(t) /\ Writing(t)
    <3>1. ~Writing(t)' /\ page[Key(t)] = Whole(url[t], ver[t]) /\ page' = page
      BY <1>5, <2>10, WritesFacts DEF OpenForWrite, Finish, RecvPacket
    <3>2. /\ StoreOf' = [StoreOf EXCEPT ![Key(t)] = Whole(url[t], ver[t])]
          /\ StoreOf[Key(t)] = None
      BY <2>6, <2>7, <2>10, <3>1
    <3>3. Whole(url[t], ver[t]) \in WholePages
      BY <1>0, <2>1 DEF WholePages
    <3>. QED  BY <2>1, <2>10, <3>2, <3>3
  <2>. QED  BY <1>5, <2>8, <2>9, <2>10 DEF Writes
<1>. QED  BY <1>4, <1>5, WhoWrites

(* With the same assumptions, the cache is a PageStore: a page is withdrawn*)
(* while it is written, is put back whole, and a client is served what the *)
(* store has at the moment it is served.                                   *)
THEOREM CacheIsAStore ==
  ASSUME Steady
  PROVE  Spec => StoreSpec
<1>1. Init => Store!Init
  <2> SUFFICES ASSUME Init PROVE Store!Init
    OBVIOUS
  <2>1. \A t \in Threads : ~Writing(t) /\ reply[t].kind = "none"
    BY DEF Init, Writing, NoReply
  <2>2. page = [k \in Keys |-> None]
    BY DEF Init
  <2>3. StoreOf = [k \in Keys |-> None]
    BY <2>1, <2>2 DEF StoreOf
  <2>4. GotOf = [t \in Threads |-> <<>>]
    BY <2>1 DEF GotOf
  <2>. QED  BY <2>3, <2>4 DEF Store!Init, StoreOf, GotOf
<1>2. ReplyInv /\ [Next]_vars => [Store!Next]_(Store!vars)
  <2> SUFFICES ASSUME Base, KindInv, OrderInv, SteadyInv, [Next]_vars
               PROVE  \/ \E k \in Keys : Store!Withdraw(k) \/ Store!Publish(k)
                      \/ \E c \in Threads, k \in Keys : Store!Serve(c, k)
                      \/ \E c \in Threads : Store!Leave(c)
                      \/ StoreOf' = StoreOf /\ GotOf' = GotOf
    BY DEF ReplyInv, Store!Next, Store!vars, StoreOf, GotOf
  <2>1. CASE UNCHANGED <<cacheVars, lockVars, sock, page, fetchVars, threadVars>>
    <3>1. \A t \in Threads : Keeps(t)
      BY <2>1, OthersKeep DEF Still, fetchVars, threadVars
    <3>2. StoreOf' = StoreOf
      BY <2>1, <3>1 DEF StoreOf, Keeps
    <3>3. GotOf' = GotOf
      BY <2>1 DEF GotOf, threadVars
    <3>. QED  BY <3>2, <3>3
  <2>2. ASSUME NEW t \in Threads, Moves(t)
        PROVE  \/ \E k \in Keys : Store!Withdraw(k) \/ Store!Publish(k)
               \/ \E c \in Threads, k \in Keys : Store!Serve(c, k)
               \/ \E c \in Threads : Store!Leave(c)
               \/ StoreOf' = StoreOf /\ GotOf' = GotOf
    <3>1. CASE OpenForWrite(t) \/ Finish(t)
      <4>1. GotOf' = GotOf
        BY <2>2, <3>1, GotMoves DEF OpenForWrite, Finish, Accept, SendCached
      <4>2. CASE \E k \in Keys : StoreOf[k] # None /\ StoreOf' = [StoreOf EXCEPT ![k] = None]
        BY <4>1, <4>2 DEF Store!Withdraw, StoreOf, GotOf
      <4>3. CASE \E k \in Keys, x \in WholePages :
                   StoreOf[k] = None /\ StoreOf' = [StoreOf EXCEPT ![k] = x]
        BY <4>1, <4>3 DEF Store!Publish, StoreOf, GotOf
      <4>. QED  BY <2>2, <4>1, <4>2, <4>3, StoreMoves
    <3>2. CASE ~OpenForWrite(t) /\ ~Finish(t)
      <4>1. StoreOf' = StoreOf
        BY <2>2, <3>2, StoreMoves
      <4>2. CASE Accept(t) /\ GotOf' = [GotOf EXCEPT ![t] = <<>>]
        BY <4>1, <4>2 DEF Store!Leave, StoreOf, GotOf
      <4>3. CASE SendCached(t) /\ GotOf' = [GotOf EXCEPT ![t] = page[Key(t)]]
        <5>1. pc[t] = "sending" /\ Key(t) \in Keys
          BY <4>3, KeyType DEF SendCached, Base, Layer1, ThreadInv, UrlAt, NodeAt
        <5>2. page[Key(t)] # None
          BY <5>1 DEF Base, PageInv
        <5>3. \A s \in Threads : Writing(s) => Key(s) # Key(t)
          <6> SUFFICES ASSUME NEW s \in Threads, Writing(s), Key(s) = Key(t) PROVE FALSE
            OBVIOUS
          <6>1. s # t
            BY <5>1 DEF Writing
          <6>. QED  BY <5>1, <6>1, Exclusive DEF Holds
        <5>4. StoreOf[Key(t)] = page[Key(t)]
          BY <5>1, <5>3 DEF StoreOf
        <5>5. PICK k \in Keys : StoreOf[k] # None /\ GotOf' = [GotOf EXCEPT ![t] = StoreOf[k]]
          BY <4>3, <5>1, <5>2, <5>4
        <5>6. Store!Serve(t, k)
          BY <4>1, <5>5 DEF Store!Serve, StoreOf, GotOf
        <5>. QED  BY <5>6
      <4>. QED  BY <2>2, <4>1, <4>2, <4>3, GotMoves
    <3>. QED  BY <3>1, <3>2
  <2>. QED  BY <2>1, <2>2, WhoMoves
<1>3. Init => ReplyInv
  BY ReplyInvInit
<1>4. ReplyInv /\ [Next]_vars => ReplyInv'
  BY ReplyInvStep
<1>. QED  BY <1>1, <1>2, <1>3, <1>4, PTL DEF Spec, StoreSpec, Store!Spec
=============================================================================
