---------------------------- MODULE ProxyCacheMC ----------------------------
(* Small instances of ProxyCache for TLC.  A page is named by a string     *)
(* that stands for a URL.                                                  *)
EXTENDS ProxyCache, RequestKey, TLC

Host == <<"w">>
UrlOf(path) == <<"h", "t", "t", "p", ":", "/", "/">> \o Host \o path
Text ==
  [a   |-> UrlOf(<<"/", "a">>),
   b   |-> UrlOf(<<"/", "b">>),
   cd  |-> UrlOf(<<"/", "c", "d">>),
   aqx |-> UrlOf(<<"/", "a", "?", "x">>)]

(* One page; two with keys of their own; two of which one has a query; and *)
(* two whose names are as long as one another.                             *)
OneUrl == {"a"}
OneKey == {"k1"}
OnlyKey == [a |-> "k1"]

TwoUrls == {"a", "cd"}
TwoKeys == {"k1", "k2"}
OwnKey == [a |-> "k1", cd |-> "k2"]

QueryUrls == {"a", "aqx"}
QueryKey == [a |-> "k1", aqx |-> "k2"]
WithQuery == {"aqx"}

TwinUrls == {"a", "b"}
TwinKey == [a |-> "k1", b |-> "k1"]

(* Pages have one key in these tables when parse_req and get_md5_str give  *)
(* them one, and a query when check_dynamic finds one.                     *)
ASSUME KeysAsComputed ==
  /\ \A f \in {OwnKey, QueryKey, TwinKey} : \A u, v \in DOMAIN f :
       f[u] = f[v] <=> CacheKey(Host, Text[u]) = CacheKey(Host, Text[v])
  /\ WithQuery = {u \in DOMAIN Text : IsDynamic(Text[u])}

(* All keys in one bucket.                                                 *)
OneBucket == {0}
OnlyBucket == [k1 |-> 0]
SameBucket == [k1 |-> 0, k2 |-> 0]

(* Pages of two packets; pages that grow by one.                           *)
Stable == <<2>>
Growing == <<1, 2>>

Symmetry == Permutations(Threads)
=============================================================================
