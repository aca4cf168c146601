------------------------------- MODULE DfsMC -------------------------------
(* Small instances of Dfs for TLC.                                         *)
EXTENDS Dfs

(* f, g, h and i are of the four buckets.  f has chunks of 1, 1, 1 and 2   *)
(* bytes; in base 2 the last length has two digits, and f's distribution   *)
(* begins with that chunk.  tiny has chunks of 0, 0, 0 and 3.              *)
FileNames == {"f", "g", "h", "i", "tiny"}
Sizes == [f |-> 5, g |-> 4, h |-> 5, i |-> 6, tiny |-> 3]
Buckets == [f |-> 1, g |-> 0, h |-> 2, i |-> 3, tiny |-> 0]

Put(files, servers) == [op |-> "put", files |-> files, servers |-> servers]
Get(n) == [op |-> "get", files |-> <<n>>, servers |-> <<0, 2>>]
Nothing == [op |-> "none"]

TwoClients == {1, 2}

(* A put and a get of a file that was put before; a put of two files; a    *)
(* put of a file that is too short, and a get; two puts of one file; puts  *)
(* of a file of each bucket.                                               *)
SomeJobs ==
  {<<Put(<<"f">>, <<0>>), Get("f")>>,
   <<Put(<<"f", "g">>, <<0>>), Nothing>>,
   <<Put(<<"tiny">>, <<0>>), Get("f")>>,
   <<Put(<<"f">>, <<0>>), Put(<<"f">>, <<0>>)>>}
  \cup {<<Put(<<n>>, pair), Nothing>> :
          n \in {"f", "g", "h", "i"}, pair \in {<<0, 2>>, <<1, 3>>}}

OneGet == {<<Nothing, Get("f")>>}

FPutBefore == <<"f">>
=============================================================================
