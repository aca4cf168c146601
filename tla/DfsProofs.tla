---------------------------- MODULE DfsProofs ----------------------------
(***************************************************************************)
(* Proofs about Dfs, for any number of clients, files and stops.           *)
(*                                                                         *)
(* The inductive invariant says, beside the types, what the streams are    *)
(* made of and where in them headers begin, as far as that decides what a  *)
(* df_serv_cmd holds; who writes a chunk; and when a server may be gone.   *)
(* OriginInv adds where headers come from, and TrackInv what is on its way *)
(* on each connection of a put, message for message.                       *)
(***************************************************************************)
EXTENDS Dfs, IndexLemmas, SequenceTheorems, FiniteSetTheorems

Ops == {"", "get", "put"}
Sizes == Seq(0..Base - 1)

(* df_serv_cmds: any, those with all their fields, and those that a worker *)
(* may be sent first.                                                      *)
Cmds == [op : Ops, name : Names \cup {None}, ver : Versions \cup {None},
         chunk : Chunks \cup {None}, size : Sizes]
Full == [op : Ops, name : Names, ver : Versions, chunk : Chunks, size : Sizes]
Good == {c \in Cmds : c.op = "put" => c \in Full}

(* The cells of streams and files.                                         *)
Plain == ({"byte"} \X (Names \X Versions) \X Nat) \cup {<<"nul">>, <<"memory">>}
Cells == ({"head"} \X Full \X Nat) \cup Plain
AnyCells == ({"head"} \X Cmds \X Nat) \cup Plain

(* A stream that begins with a whole header.                               *)
Begins(stream, C) ==
  \E h \in C : Len(stream) >= HdrLen /\ \A i \in 1..HdrLen : stream[i] = <<"head", h, i>>

Pcs == {"start", "put", "ask", "header", "body", "rest", "next", "done", "refused",
        "killed"}
Places == {"none", "first", "add", "create", "body", "rest", "next", "find", "send",
           "sendbody", "closed"}
PutPlaces == {"add", "create", "body", "rest", "next"}
RecvPlaces == {"first", "body", "rest", "next"}

(* Types.                                                                  *)
ClientTypes ==
  /\ cmd \in Jobs
  /\ pc \in [Clients -> Pcs]
  /\ sent \in [Clients -> Nat]
  /\ asked \in [Clients -> {0, 2}]
  /\ reply \in [Clients -> Good]
  /\ left \in [Clients -> Nat]
  /\ got \in [Clients -> Seq(Cells \ {<<"nul">>})]
  /\ late \in [Clients -> BOOLEAN]
  /\ fresh \in [Clients -> SUBSET Versions]

Contents == UNION {[I -> Seq(Cells)] : I \in SUBSET Ids}

ServerTypes ==
  /\ up \in [Servers -> BOOLEAN]
  /\ cabinet \in [Servers -> Seq(Full)]
  /\ file \in [Servers -> Contents]
  /\ socket \in [Servers -> Clients \cup {None}]
  /\ wpc \in [Clients -> [Servers -> Places]]
  /\ wcmd \in [Clients -> [Servers -> Good]]
  /\ nodes \in [Clients -> [Servers -> Seq(Full)]]
  /\ toServer \in [Clients -> [Servers -> Seq(AnyCells)]]
  /\ toClient \in [Clients -> [Servers -> Seq(Cells)]]

Types == ClientTypes /\ ServerTypes

(* What a client may do where it is, and what it knows.                    *)
AtClient(k) ==
  /\ pc[k] = "start" => sent[k] = 0
  /\ pc[k] = "put" => cmd[k].op = "put" /\ sent[k] < PerFile(k) * Len(cmd[k].files)
  /\ pc[k] \in {"ask", "header", "body", "rest", "next"} => cmd[k].op = "get"
  /\ reply[k] \notin Full => reply[k].size = <<>> /\ pc[k] # "rest"

(* What the client of a put sends to a server begins with a header, as     *)
(* long as the server has received nothing.                                *)
PutAt(k, s) ==
  cmd[k].op = "put" =>
    /\ toServer[k][s] \in Seq(Cells)
    /\ wpc[k][s] = "first" =>
         /\ toServer[k][s] = <<>> \/ Begins(toServer[k][s], Full)
         /\ pc[k] = "put" /\ sent[k] % 2 = 1 /\ s = ServerOf(k) => toServer[k][s] # <<>>

(* The client of a get sends one header to a server, at most.              *)
Unasked(k, s) == pc[k] = "start" \/ (s = 2 /\ asked[k] = 0) \/ (s = asked[k] /\ pc[k] = "ask")

GetAt(k, s) ==
  cmd[k].op # "put" =>
    /\ \/ toServer[k][s] = <<>>
       \/ \E h \in Good : toServer[k][s] = HeaderCells(h)
    /\ wpc[k][s] \notin {"none", "first", "closed"} => toServer[k][s] = <<>>
    /\ Unasked(k, s) => toServer[k][s] = <<>> /\ wpc[k][s] \in {"none", "first", "closed"}

(* Where the df_serv_cmd of a client still lacks fields, no header has     *)
(* come, and the next thing that comes is one.                             *)
ReplyAt(k, s) ==
  reply[k] \notin Full =>
    \/ toClient[k][s] = <<>> /\ wpc[k][s] # "sendbody"
    \/ Begins(toClient[k][s], Full)

(* What a worker has at each place of its code.                            *)
WorkerAt(k, s) ==
  /\ wpc[k][s] \in {"none", "first"} => wcmd[k][s] = Blank
  /\ wpc[k][s] \in PutPlaces => wcmd[k][s] \in Full
  /\ wpc[k][s] \in {"send", "sendbody"} => nodes[k][s] # <<>>
  /\ Len(nodes[k][s]) =< 2
  /\ pc[k] \in {"start", "refused"} =>
       wpc[k][s] = "none" /\ toServer[k][s] = <<>> /\ toClient[k][s] = <<>>

AtServer(k, s) == PutAt(k, s) /\ GetAt(k, s) /\ ReplyAt(k, s) /\ WorkerAt(k, s)

ConnectionInv == \A k \in Clients : AtClient(k) /\ \A s \in Servers : AtServer(k, s)

(* The files that workers write and read.                                  *)
FileAt(k, s) ==
  LET id == Id(wcmd[k][s]) IN
  /\ wpc[k][s] = "body" => id \in DOMAIN file[s] /\ file[s][id] = <<>>
  /\ wpc[k][s] = "rest" => id \in DOMAIN file[s] /\ Len(file[s][id]) =< Value(wcmd[k][s].size)
  /\ wpc[k][s] = "sendbody" => Id(nodes[k][s][1]) \in DOMAIN file[s]

FileInv == \A k \in Clients, s \in Servers : FileAt(k, s)

(* No two workers receive chunks of one file.                              *)
LockInv ==
  \A s \in Servers, j, k \in Clients :
    /\ wpc[j][s] \in {"body", "rest"} /\ wpc[k][s] \in {"body", "rest"}
    /\ wcmd[j][s].name = wcmd[k][s].name
    => j = k

SocketInv ==
  \A k \in Clients, s \in Servers : socket[s] = k => wpc[k][s] \in RecvPlaces

PowerInv == \A s \in Servers : ~up[s] => cabinet[s] = <<>> /\ Joined(s)

IInv ==
  Types /\ ConnectionInv /\ FileInv /\ LockInv /\ SocketInv /\ PowerInv /\ NodesHaveChunks
-----------------------------------------------------------------------------
(* Buffers, df_serv_cmds and lengths.                                      *)
LEMMA MaxUpTo ==
  ASSUME NEW m \in Nat, NEW s, s \subseteq 1..m, m \in s
  PROVE  Max(s) = m
<1>1. Max(s) \in s /\ \A y \in s : y =< Max(s)
  BY MaxOfIndices
<1>2. Max(s) \in 1..m /\ m =< Max(s)
  BY <1>1
<1>. QED  BY <1>2

(* Parsed reads the cells of a text one by one.                            *)
LEMMA ParsedByCells ==
  ASSUME NEW old, NEW buf, Len(Text(buf)) \in Nat, DOMAIN Text(buf) = 1..Len(Text(buf))
  PROVE  \E t : /\ t[0] = old
                /\ \A i \in 1..Len(Text(buf)) : t[i] = Line(Text(buf), t[i - 1], i)
                /\ Parsed(old, buf) = t[Len(Text(buf))]
<1> DEFINE text == Text(buf)
           n == Len(text)
           I == [i \in DOMAIN text |-> i]
           Reads(g, S) ==
             g = [s \in SUBSET S |->
                    IF s = {} THEN old ELSE Line(text, g[s \ {Max(s)}], I[Max(s)])]
           iter == CHOOSE g : Reads(g, DOMAIN I)
<1>1. Parsed(old, buf) = iter[DOMAIN I]
  BY DEF Parsed, FoldLeftDomain, FoldLeft, MapThenFoldSet
<1>2. DOMAIN I = 1..n /\ \A i \in 1..n : I[i] = i
  OBVIOUS
<1> HIDE DEF iter, I
<1> DEFINE P == {m \in Nat : m =< n => \E g : Reads(g, 1..m)}
<1>3. ASSUME NEW m \in Nat, \A l \in Nat : l < m => l \in P
      PROVE  m \in P
  <2> SUFFICES ASSUME m =< n PROVE \E g : Reads(g, 1..m)
    OBVIOUS
  <2>1. CASE m = 0
    <3> DEFINE h == [s \in SUBSET (1..0) |-> old]
    <3>1. Reads(h, 1..0)
      <4>1. \A s \in SUBSET (1..0) : s = {}
        OBVIOUS
      <4>. QED  BY <4>1
    <3>. QED  BY <2>1, <3>1
  <2>2. CASE m # 0
    <3>1. m - 1 \in Nat /\ m - 1 < m /\ m - 1 =< n
      BY <2>2
    <3>2. PICK g : Reads(g, 1..m - 1)
      <4>1. m - 1 \in P
        BY <1>3, <3>1
      <4>. QED  BY <3>1, <4>1
    <3> DEFINE h == [s \in SUBSET (1..m) |->
                       IF m \in s THEN Line(text, g[s \ {m}], I[m]) ELSE g[s]]
    <3>3. ASSUME NEW s \in SUBSET (1..m)
          PROVE  h[s] = IF s = {} THEN old ELSE Line(text, h[s \ {Max(s)}], I[Max(s)])
      <4>1. CASE m \in s
        <5>1. Max(s) = m
          BY <4>1, MaxUpTo
        <5>2. s \ {m} \in SUBSET (1..m) /\ m \notin s \ {m}
          OBVIOUS
        <5>3. h[s] = Line(text, g[s \ {m}], I[m]) /\ h[s \ {m}] = g[s \ {m}]
          BY <4>1, <5>2
        <5> HIDE DEF h
        <5>. QED  BY <4>1, <5>1, <5>3
      <4>2. CASE m \notin s
        <5>1. s \in SUBSET (1..m - 1)
          <6>1. \A x \in s : x \in 1..m /\ x # m
            BY <4>2
          <6>. QED  BY <6>1
        <5>2. h[s] = g[s] /\ h[s \ {Max(s)}] = g[s \ {Max(s)}]
          <6>1. s \ {Max(s)} \in SUBSET (1..m) /\ m \notin s \ {Max(s)}
            BY <4>2
          <6>. QED  BY <4>2, <6>1
        <5>3. g[s] = IF s = {} THEN old ELSE Line(text, g[s \ {Max(s)}], I[Max(s)])
          BY <3>2, <5>1
        <5> HIDE DEF h
        <5>. QED  BY <5>2, <5>3
      <4>. QED  BY <4>1, <4>2
    <3>4. Reads(h, 1..m)
      BY <3>3
    <3>. QED  BY <3>4
  <2>. QED  BY <2>1, <2>2
<1>4. Reads(iter, 1..n)
  <2>1. n \in Nat /\ n =< n
    OBVIOUS
  <2>2. n \in P
    <3> HIDE DEF P
    <3>. QED  BY <1>3, <2>1, NaturalsAll
  <2> HIDE DEF Reads
  <2>3. \E g : Reads(g, 1..n)
    BY <2>1, <2>2
  <2>. QED  BY <1>2, <2>3 DEF iter
<1> DEFINE t == [i \in 0..n |-> iter[1..i]]
<1>5. t[0] = old
  <2>1. 1..0 = {} /\ {} \in SUBSET (1..n)
    OBVIOUS
  <2>. QED  BY <1>4, <2>1
<1>6. ASSUME NEW i \in 1..n PROVE t[i] = Line(text, t[i - 1], i)
  <2>1. /\ 1..i \in SUBSET (1..n) /\ 1..i # {} /\ (1..i) \ {i} = 1..i - 1
        /\ Max(1..i) = i
    <3>1. i \in Nat /\ i \in 1..i /\ 1..i \in SUBSET (1..n)
      OBVIOUS
    <3>2. Max(1..i) = i
      BY <3>1, MaxUpTo
    <3>3. (1..i) \ {i} = 1..i - 1
      OBVIOUS
    <3>. QED  BY <3>1, <3>2, <3>3
  <2>2. iter[1..i] = Line(text, iter[1..i - 1], I[i])
    BY <1>4, <2>1
  <2>3. t[i] = iter[1..i] /\ t[i - 1] = iter[1..i - 1]
    OBVIOUS
  <2>. QED  BY <1>2, <2>2, <2>3
<1>7. Parsed(old, buf) = t[n]
  BY <1>1, <1>2
<1> HIDE DEF t
<1>. QED  BY <1>5, <1>6, <1>7
(* A number is read digit by digit.                                        *)
LEMMA ValueByDigits ==
  ASSUME NEW digits, Len(digits) \in Nat, DOMAIN digits = 1..Len(digits)
  PROVE  \E t : /\ t[0] = 0
                /\ \A i \in 1..Len(digits) : t[i] = t[i - 1] * Base + digits[i]
                /\ Value(digits) = t[Len(digits)]
<1> DEFINE n == Len(digits)
           Reads(g, S) ==
             g = [s \in SUBSET S |->
                    IF s = {} THEN 0 ELSE g[s \ {Max(s)}] * Base + digits[Max(s)]]
           iter == CHOOSE g : Reads(g, DOMAIN digits)
<1>1. Value(digits) = iter[DOMAIN digits]
  BY DEF Value, FoldLeft, MapThenFoldSet
<1>2. DOMAIN digits = 1..n
  OBVIOUS
<1> HIDE DEF iter
<1> DEFINE P == {m \in Nat : m =< n => \E g : Reads(g, 1..m)}
<1>3. ASSUME NEW m \in Nat, \A l \in Nat : l < m => l \in P
      PROVE  m \in P
  <2> SUFFICES ASSUME m =< n PROVE \E g : Reads(g, 1..m)
    OBVIOUS
  <2>1. CASE m = 0
    <3> DEFINE h == [s \in SUBSET (1..0) |-> 0]
    <3>1. Reads(h, 1..0)
      <4>1. \A s \in SUBSET (1..0) : s = {}
        OBVIOUS
      <4>. QED  BY <4>1
    <3>. QED  BY <2>1, <3>1
  <2>2. CASE m # 0
    <3>1. m - 1 \in Nat /\ m - 1 < m /\ m - 1 =< n
      BY <2>2
    <3>2. PICK g : Reads(g, 1..m - 1)
      <4>1. m - 1 \in P
        BY <1>3, <3>1
      <4>. QED  BY <3>1, <4>1
    <3> DEFINE h == [s \in SUBSET (1..m) |->
                       IF m \in s THEN g[s \ {m}] * Base + digits[m] ELSE g[s]]
    <3>3. ASSUME NEW s \in SUBSET (1..m)
          PROVE  h[s] = IF s = {} THEN 0 ELSE h[s \ {Max(s)}] * Base + digits[Max(s)]
      <4>1. CASE m \in s
        <5>1. Max(s) = m
          BY <4>1, MaxUpTo
        <5>2. s \ {m} \in SUBSET (1..m) /\ m \notin s \ {m}
          OBVIOUS
        <5>3. h[s] = g[s \ {m}] * Base + digits[m] /\ h[s \ {m}] = g[s \ {m}]
          BY <4>1, <5>2
        <5> HIDE DEF h
        <5>. QED  BY <4>1, <5>1, <5>3
      <4>2. CASE m \notin s
        <5>1. s \in SUBSET (1..m - 1)
          <6>1. \A x \in s : x \in 1..m /\ x # m
            BY <4>2
          <6>. QED  BY <6>1
        <5>2. h[s] = g[s] /\ h[s \ {Max(s)}] = g[s \ {Max(s)}]
          <6>1. s \ {Max(s)} \in SUBSET (1..m) /\ m \notin s \ {Max(s)}
            BY <4>2
          <6>. QED  BY <4>2, <6>1
        <5>3. g[s] = IF s = {} THEN 0 ELSE g[s \ {Max(s)}] * Base + digits[Max(s)]
          BY <3>2, <5>1
        <5> HIDE DEF h
        <5>. QED  BY <5>2, <5>3
      <4>. QED  BY <4>1, <4>2
    <3>4. Reads(h, 1..m)
      BY <3>3
    <3>. QED  BY <3>4
  <2>. QED  BY <2>1, <2>2
<1>4. Reads(iter, 1..n)
  <2>1. n \in Nat /\ n =< n
    OBVIOUS
  <2>2. n \in P
    <3> HIDE DEF P
    <3>. QED  BY <1>3, <2>1, NaturalsAll
  <2> HIDE DEF Reads
  <2>3. \E g : Reads(g, 1..n)
    BY <2>1, <2>2
  <2>. QED  BY <1>2, <2>3 DEF iter
<1> DEFINE t == [i \in 0..n |-> iter[1..i]]
<1>5. t[0] = 0
  <2>1. 1..0 = {} /\ {} \in SUBSET (1..n)
    OBVIOUS
  <2>. QED  BY <1>4, <2>1
<1>6. ASSUME NEW i \in 1..n PROVE t[i] = t[i - 1] * Base + digits[i]
  <2>1. /\ 1..i \in SUBSET (1..n) /\ 1..i # {} /\ (1..i) \ {i} = 1..i - 1
        /\ Max(1..i) = i
    <3>1. i \in Nat /\ i \in 1..i /\ 1..i \in SUBSET (1..n)
      OBVIOUS
    <3>2. Max(1..i) = i
      BY <3>1, MaxUpTo
    <3>3. (1..i) \ {i} = 1..i - 1
      OBVIOUS
    <3>. QED  BY <3>1, <3>2, <3>3
  <2>2. iter[1..i] = iter[1..i - 1] * Base + digits[i]
    BY <1>4, <2>1
  <2>3. t[i] = iter[1..i] /\ t[i - 1] = iter[1..i - 1]
    OBVIOUS
  <2>. QED  BY <1>2, <2>2, <2>3
<1>7. Value(digits) = t[n]
  BY <1>1, <1>2
<1> HIDE DEF t
<1>. QED  BY <1>5, <1>6, <1>7

(* The text of a buffer is its beginning, up to a NUL that it lacks.       *)
LEMMA TextIs ==
  ASSUME NEW S, NEW buf \in Seq(S)
  PROVE  /\ Text(buf) \in Seq(S) /\ Len(Text(buf)) =< Len(buf)
         /\ \A i \in 1..Len(Text(buf)) : Text(buf)[i] = buf[i] /\ buf[i] # <<"nul">>
         /\ \A m \in 1..Len(buf) : (\A i \in 1..m : buf[i] # <<"nul">>) => m =< Len(Text(buf))
<1> DEFINE N == {i \in 1..Len(buf) : buf[i] = <<"nul">>}
           nul == IF N # {} THEN Min(N) ELSE 0
<1>1. SelectInSeq(buf, LAMBDA c : c = <<"nul">>) = nul
  BY DEF SelectInSeq
<1>2. CASE N = {}
  <2>1. Text(buf) = buf
    BY <1>1, <1>2 DEF Text
  <2>2. \A i \in 1..Len(buf) : buf[i] # <<"nul">>
    BY <1>2
  <2>. QED  BY <2>1, <2>2
<1>3. CASE N # {}
  <2>1. PICK x \in N : \A y \in N : x =< y
    <3>1. N \subseteq Nat
      OBVIOUS
    <3>. QED  BY <1>3, <3>1, LeastNatural
  <2>2. Min(N) \in N /\ \A y \in N : Min(N) =< y
    <3> HIDE DEF N
    <3>. QED  BY <2>1 DEF Min
  <2> DEFINE z == Min(N)
  <2>3. z \in 1..Len(buf) /\ buf[z] = <<"nul">>
    BY <2>2
  <2>4. Text(buf) = SubSeq(buf, 1, z - 1)
    <3>1. nul = z /\ z # 0
      BY <1>3, <2>3
    <3>2. Text(buf) = IF nul = 0 THEN buf ELSE SubSeq(buf, 1, nul - 1)
      BY <1>1 DEF Text
    <3> HIDE DEF nul, z, N
    <3>. QED  BY <3>1, <3>2
  <2>5. \A i \in 1..z - 1 : buf[i] # <<"nul">>
    <3> SUFFICES ASSUME NEW i \in 1..z - 1, buf[i] = <<"nul">> PROVE FALSE
      OBVIOUS
    <3>1. i \in 1..Len(buf) /\ i < z
      BY <2>3
    <3>2. i \in N
      BY <3>1
    <3>3. z \in Nat
      BY <2>3
    <3>4. z =< i
      <4> HIDE DEF N
      <4>. QED  BY <2>2, <3>2
    <3> HIDE DEF z, N
    <3>. QED  BY <3>1, <3>3, <3>4
  <2> HIDE DEF z, N
  <2>6. /\ Text(buf) \in Seq(S) /\ Len(Text(buf)) = z - 1
        /\ \A i \in 1..z - 1 : Text(buf)[i] = buf[i]
    BY <2>3, <2>4
  <2>7. ASSUME NEW m \in 1..Len(buf), \A i \in 1..m : buf[i] # <<"nul">>
        PROVE  m =< z - 1
    BY <2>3, <2>7
  <2>. QED  BY <2>3, <2>5, <2>6, <2>7
<1>. QED  BY <1>2, <1>3

LEMMA OverwriteType ==
  ASSUME NEW S, NEW old \in Seq(S), NEW new \in Seq(S)
  PROVE  Overwrite(old, new) \in Seq(S)
<1>1. SubSeq(old, Len(new) + 1, Len(old)) \in Seq(S)
  OBVIOUS
<1>. QED  BY <1>1 DEF Overwrite

(* The fields of a header that has them all replace the old ones.          *)
LEMMA FieldsFull ==
  ASSUME NEW old \in Cmds, NEW h \in Full
  PROVE  Fields(old, h) \in Full
<1>1. Overwrite(old.size, h.size) \in Sizes /\ old.op \in Ops
  BY OverwriteType DEF Cmds, Full, Sizes
<1>. QED  BY <1>1 DEF Fields, Full

LEMMA FieldsGood ==
  ASSUME NEW old \in Cmds, NEW h \in Good, old.op = "put" => h.op = "put"
  PROVE  Fields(old, h) \in Good
<1>1. Overwrite(old.size, h.size) \in Sizes /\ old.op \in Ops
  BY OverwriteType DEF Cmds, Good, Sizes
<1>2. Fields(old, h) \in Cmds /\ Fields(old, h).op = old.op
  BY <1>1 DEF Fields, Good, Cmds
<1>3. old.op = "put" => Fields(old, h) \in Full
  BY FieldsFull DEF Good
<1>. QED  BY <1>2, <1>3 DEF Good

LEMMA FullIsGood == Full \subseteq Good
BY DEF Full, Good, Cmds

(* What a line does to a df_serv_cmd.                                      *)
LEMMA LineKeeps ==
  ASSUME NEW text \in Seq(Cells), NEW i \in 1..Len(text), NEW c
  PROVE  /\ c \in Full => Line(text, c, i) \in Full
         /\ c \in Cmds => Line(text, c, i) \in Cmds
<1>1. text[i] \in Cells
  OBVIOUS
<1>2. text[i][1] = "head" => text[i][2] \in Full
  BY <1>1 DEF Cells, Plain
<1>3. text[i][1] = "head" => text[i][2] \in Cmds /\ text[i][2].op \in Ops
  BY <1>2 DEF Full, Cmds
<1>4. Full \subseteq Cmds
  BY DEF Full, Cmds
<1>5. \A d, op : op \in Ops =>
        /\ d \in Full => [d EXCEPT !.op = op] \in Full
        /\ d \in Cmds => [d EXCEPT !.op = op] \in Cmds
  BY DEF Full, Cmds
<1> DEFINE h == text[i][2]
<1>6. \/ Line(text, c, i) = [c EXCEPT !.op = h.op] /\ h.op \in Ops
      \/ Line(text, c, i) = Fields(c, h) /\ h \in Full
      \/ Line(text, c, i) = c
  <2>1. /\ IsLine(text, i, 1) => h \in Full /\ h.op \in Ops
        /\ IsLine(text, i, 2) => h \in Full
    BY <1>2, <1>3 DEF IsLine
  <2>2. ~(IsLine(text, i, 1) /\ IsLine(text, i, 2))
    BY DEF IsLine
  <2> HIDE DEF h
  <2>3. CASE IsLine(text, i, 2)
    BY <2>1, <2>2, <2>3 DEF Line, h
  <2>4. CASE ~IsLine(text, i, 2)
    BY <2>1, <2>4 DEF Line, h
  <2>. QED  BY <2>3, <2>4
<1> HIDE DEF h
<1>7. CASE Line(text, c, i) = [c EXCEPT !.op = h.op] /\ h.op \in Ops
  BY <1>5, <1>7
<1>8. CASE Line(text, c, i) = Fields(c, h) /\ h \in Full
  BY <1>4, <1>8, FieldsFull
<1>. QED  BY <1>6, <1>7, <1>8

(* A df_serv_cmd with all its fields keeps them.                           *)
LEMMA ParsedFull ==
  ASSUME NEW old \in Full, NEW buf \in Seq(Cells)
  PROVE  Parsed(old, buf) \in Full
<1> DEFINE text == Text(buf)
           n == Len(text)
<1>1. text \in Seq(Cells)
  BY TextIs
<1>2. PICK t : /\ t[0] = old
               /\ \A i \in 1..n : t[i] = Line(text, t[i - 1], i)
               /\ Parsed(old, buf) = t[n]
  BY <1>1, ParsedByCells
<1> HIDE DEF text
<1> DEFINE P == {m \in Nat : m =< n => t[m] \in Full}
<1>3. ASSUME NEW m \in Nat, \A l \in Nat : l < m => l \in P
      PROVE  m \in P
  <2> SUFFICES ASSUME m =< n PROVE t[m] \in Full
    OBVIOUS
  <2>1. CASE m = 0
    BY <1>2, <2>1
  <2>2. CASE m # 0
    <3>1. m \in 1..n /\ m - 1 \in Nat /\ m - 1 < m /\ m - 1 =< n
      BY <1>1, <2>2
    <3>2. t[m - 1] \in Full
      BY <1>3, <3>1
    <3>. QED  BY <1>1, <1>2, <3>1, <3>2, LineKeeps
  <2>. QED  BY <2>1, <2>2
<1>4. n \in Nat /\ n =< n
  BY <1>1
<1>5. n \in P
  <2> HIDE DEF P, n
  <2>. QED  BY <1>3, <1>4, NaturalsAll
<1>. QED  BY <1>2, <1>4, <1>5

(* A buffer that begins with a header gives a df_serv_cmd its fields.      *)
LEMMA ParsedWhole ==
  ASSUME NEW old \in Cmds, NEW buf \in Seq(Cells), Begins(buf, Full)
  PROVE  Parsed(old, buf) \in Full
<1> DEFINE text == Text(buf)
           n == Len(text)
<1>1. PICK h \in Full : Len(buf) >= HdrLen /\ \A i \in 1..HdrLen : buf[i] = <<"head", h, i>>
  BY DEF Begins
<1>2. HdrLen \in Nat /\ HdrLen > 2 /\ Len(buf) \in Nat
  BY DfsAssumption
<1>3. 2 \in 1..Len(buf) /\ 1 \in 1..HdrLen /\ 2 \in 1..HdrLen
  BY <1>1, <1>2
<1>4. buf[1] = <<"head", h, 1>> /\ buf[2] = <<"head", h, 2>>
  BY <1>1, <1>3
<1>5. \A i \in 1..2 : buf[i] # <<"nul">>
  BY <1>4
<1>6. text \in Seq(Cells) /\ n >= 2 /\ \A i \in 1..n : text[i] = buf[i]
  BY <1>3, <1>5, TextIs
<1>7. PICK t : /\ t[0] = old
               /\ \A i \in 1..n : t[i] = Line(text, t[i - 1], i)
               /\ Parsed(old, buf) = t[n]
  BY <1>6, ParsedByCells
<1> HIDE DEF text
<1>8. t[2] \in Full
  <2>1. n \in Nat /\ 1 \in 1..n /\ 2 \in 1..n /\ 1 - 1 = 0 /\ 2 - 1 = 1
    BY <1>6
  <2>2. t[1] = Line(text, t[0], 1) /\ t[2] = Line(text, t[1], 2)
    BY <1>7, <2>1
  <2>3. t[1] \in Cmds
    BY <1>6, <1>7, <2>1, <2>2, LineKeeps
  <2>4. text[2] = <<"head", h, 2>>
    BY <1>4, <1>6, <2>1
  <2>5. Line(text, t[1], 2) = Fields(t[1], h)
    BY <2>4 DEF Line, IsLine
  <2>. QED  BY <2>2, <2>3, <2>5, FieldsFull
<1> DEFINE P == {m \in Nat : 2 =< m /\ m =< n => t[m] \in Full}
<1>9. ASSUME NEW m \in Nat, \A l \in Nat : l < m => l \in P
      PROVE  m \in P
  <2> SUFFICES ASSUME 2 =< m, m =< n PROVE t[m] \in Full
    OBVIOUS
  <2>1. CASE m = 2
    BY <1>8, <2>1
  <2>2. CASE m # 2
    <3>1. m \in 1..n /\ m - 1 \in Nat /\ m - 1 < m /\ 2 =< m - 1 /\ m - 1 =< n
      BY <1>6, <2>2
    <3>2. t[m - 1] \in Full
      BY <1>9, <3>1
    <3>. QED  BY <1>6, <1>7, <3>1, <3>2, LineKeeps
  <2>. QED  BY <2>1, <2>2
<1>10. n \in Nat /\ n =< n /\ 2 =< n
  BY <1>6
<1>11. n \in P
  <2> HIDE DEF P, n
  <2>. QED  BY <1>9, <1>10, NaturalsAll
<1>. QED  BY <1>7, <1>10, <1>11

(* A buffer with nothing in it says nothing.                               *)
LEMMA ParsedNothing ==
  ASSUME NEW old
  PROVE  Parsed(old, <<>>) = old
<1> DEFINE buf == <<>>
<1>1. buf \in Seq({}) /\ Len(buf) = 0
  OBVIOUS
<1> HIDE DEF buf
<1>2. Text(buf) \in Seq({}) /\ Len(Text(buf)) =< Len(buf)
  BY <1>1, TextIs
<1> DEFINE n == Len(Text(buf))
<1>3. n = 0 /\ n \in Nat /\ DOMAIN Text(buf) = 1..n
  BY <1>1, <1>2
<1>4. PICK t : t[0] = old /\ Parsed(old, buf) = t[Len(Text(buf))]
  BY <1>3, ParsedByCells
<1>. QED  BY <1>3, <1>4 DEF buf

(* A single header, parsed into nothing.                                   *)
LEMMA ParsedHeader ==
  ASSUME NEW h \in Good
  PROVE  Parsed(Blank, HeaderCells(h)) \in Good
<1> DEFINE buf == HeaderCells(h)
           text == Text(buf)
           n == Len(text)
           S == {"head"} \X Good \X Nat
<1>0. HdrLen \in Nat /\ HdrLen > 2
  BY DfsAssumption
<1>1. /\ buf \in Seq(S) /\ Len(buf) = HdrLen
      /\ \A i \in 1..HdrLen : buf[i] = <<"head", h, i>>
  BY <1>0 DEF HeaderCells
<1> HIDE DEF buf
<1>2. \A i \in 1..HdrLen : buf[i] # <<"nul">>
  BY <1>1
<1>3. HdrLen \in 1..Len(buf)
  BY <1>0, <1>1
<1>4. text \in Seq(S) /\ n = HdrLen /\ \A i \in 1..n : text[i] = buf[i]
  <2> HIDE DEF S
  <2>1. /\ text \in Seq(S) /\ n =< Len(buf) /\ \A i \in 1..n : text[i] = buf[i]
        /\ \A m \in 1..Len(buf) : (\A i \in 1..m : buf[i] # <<"nul">>) => m =< n
    BY <1>1, TextIs
  <2>2. HdrLen =< n
    BY <1>2, <1>3, <2>1
  <2>3. n \in Nat
    BY <2>1
  <2> HIDE DEF text, n
  <2>. QED  BY <1>0, <1>1, <2>1, <2>2, <2>3
<1>5. PICK t : /\ t[0] = Blank
               /\ \A i \in 1..n : t[i] = Line(text, t[i - 1], i)
               /\ Parsed(Blank, buf) = t[n]
  <2>1. n \in Nat /\ DOMAIN text = 1..n
    BY <1>4
  <2>. QED  BY <2>1, ParsedByCells
<1> HIDE DEF text, n
<1>6. \A i \in 1..n : text[i] = <<"head", h, i>>
  BY <1>1, <1>4
<1>7. t[2] \in Good
  <2>1. n \in Nat /\ 1 \in 1..n /\ 2 \in 1..n /\ 1 - 1 = 0 /\ 2 - 1 = 1
    BY <1>0, <1>4
  <2>2. t[1] = Line(text, t[0], 1) /\ t[2] = Line(text, t[1], 2)
    BY <1>5, <2>1
  <2>3. h \in Cmds /\ h.op \in Ops
    BY DEF Good, Cmds
  <2>4. Blank \in Cmds /\ Blank.op = ""
    <3>1. <<>> \in Sizes
      BY DEF Sizes
    <3>. QED  BY <3>1 DEF Blank, Cmds, Ops
  <2>5. t[1] = Blank \/ t[1] = [Blank EXCEPT !.op = h.op]
    <3>1. text[1] = <<"head", h, 1>>
      BY <1>6, <2>1
    <3>2. ~IsLine(text, 1, 2)
      BY <3>1 DEF IsLine
    <3>3. text[1][2] = h
      BY <3>1
    <3>. QED  BY <1>5, <2>2, <3>2, <3>3 DEF Line
  <2>6. t[1] \in Cmds /\ (t[1].op = "put" => h.op = "put")
    BY <2>3, <2>4, <2>5 DEF Cmds
  <2>7. t[2] = Fields(t[1], h)
    <3>1. text[2] = <<"head", h, 2>>
      BY <1>6, <2>1
    <3>2. ~IsLine(text, 2, 1) /\ IsLine(text, 2, 2) /\ text[2][2] = h
      BY <3>1 DEF IsLine
    <3>. QED  BY <2>2, <3>2 DEF Line
  <2>. QED  BY <2>6, <2>7, FieldsGood
<1> DEFINE P == {m \in Nat : 2 =< m /\ m =< n => t[m] \in Good}
<1>8. ASSUME NEW m \in Nat, \A l \in Nat : l < m => l \in P
      PROVE  m \in P
  <2> SUFFICES ASSUME 2 =< m, m =< n PROVE t[m] \in Good
    OBVIOUS
  <2>1. CASE m = 2
    BY <1>7, <2>1
  <2>2. CASE m # 2
    <3>1. m \in 1..n /\ m - 1 \in Nat /\ m - 1 < m /\ 2 =< m - 1 /\ m - 1 =< n /\ m # 1
      BY <1>0, <1>4, <2>2
    <3>2. t[m - 1] \in Good
      BY <1>8, <3>1
    <3>3. text[m] = <<"head", h, m>> /\ t[m] = Line(text, t[m - 1], m)
      BY <1>5, <1>6, <3>1
    <3>4. ~IsLine(text, m, 1) /\ ~IsLine(text, m, 2)
      BY <2>2, <3>1, <3>3 DEF IsLine
    <3>. QED  BY <3>2, <3>3, <3>4 DEF Line
  <2>. QED  BY <2>1, <2>2
<1>9. n \in Nat /\ n =< n /\ 2 =< n
  BY <1>0, <1>4
<1>10. n \in P
  <2> HIDE DEF P
  <2>. QED  BY <1>8, <1>9, NaturalsAll
<1>. QED  BY <1>5, <1>9, <1>10 DEF buf

(* What FlattenSeq puts together has the elements of the parts.            *)
LEMMA FlattenType ==
  ASSUME NEW S, NEW parts \in Seq(Seq(S))
  PROVE  FlattenSeq(parts) \in Seq(S)
<1> DEFINE n == Len(parts)
           Adds(g, m) == \A i \in 1..m : g[i] = IF i = 1 THEN parts[i] ELSE g[i - 1] \o parts[i]
           P == {m \in Nat : m =< n => \E g \in [1..m -> Seq(S)] : Adds(g, m)}
<1>1. n \in Nat /\ n =< n /\ \A i \in 1..n : parts[i] \in Seq(S)
  OBVIOUS
<1> HIDE DEF n
<1>2. ASSUME NEW m \in Nat, \A l \in Nat : l < m => l \in P
      PROVE  m \in P
  <2> SUFFICES ASSUME m =< n PROVE \E g \in [1..m -> Seq(S)] : Adds(g, m)
    OBVIOUS
  <2>1. CASE m = 0
    <3> DEFINE g == [i \in 1..m |-> <<>>]
    <3>1. g \in [1..m -> Seq(S)] /\ Adds(g, m)
      BY <2>1
    <3>. QED  BY <3>1
  <2>2. CASE m # 0
    <3>1. m - 1 \in Nat /\ m - 1 < m /\ m - 1 =< n /\ m \in 1..n
      BY <1>1, <2>2
    <3>2. PICK g \in [1..m - 1 -> Seq(S)] : Adds(g, m - 1)
      <4>1. m - 1 \in P
        BY <1>2, <3>1
      <4>. QED  BY <3>1, <4>1
    <3> DEFINE x == IF m = 1 THEN parts[m] ELSE g[m - 1] \o parts[m]
               f == [i \in 1..m |-> IF i = m THEN x ELSE g[i]]
    <3>3. x \in Seq(S)
      <4>1. m # 1 => m - 1 \in 1..m - 1
        BY <3>1
      <4>2. m # 1 => g[m - 1] \in Seq(S)
        BY <4>1
      <4>3. parts[m] \in Seq(S)
        BY <1>1, <3>1
      <4>. QED  BY <4>2, <4>3
    <3>4. f \in [1..m -> Seq(S)]
      <4> HIDE DEF x
      <4>1. \A i \in 1..m : i # m => i \in 1..m - 1
        BY <3>1
      <4>. QED  BY <3>3, <4>1
    <3>5. Adds(f, m)
      <4> SUFFICES ASSUME NEW i \in 1..m
                   PROVE  f[i] = IF i = 1 THEN parts[i] ELSE f[i - 1] \o parts[i]
        OBVIOUS
      <4>1. i # 1 => i - 1 \in 1..m /\ i - 1 # m
        BY <3>1
      <4>2. i # 1 => f[i - 1] = g[i - 1]
        BY <4>1
      <4>3. CASE i = m
        BY <4>2, <4>3
      <4>4. CASE i # m
        <5>1. i \in 1..m - 1
          BY <3>1, <4>4
        <5>2. g[i] = IF i = 1 THEN parts[i] ELSE g[i - 1] \o parts[i]
          BY <3>2, <5>1
        <5>. QED  BY <4>2, <4>4, <5>2
      <4>. QED  BY <4>3, <4>4
    <3> HIDE DEF f, Adds
    <3>. QED  BY <3>4, <3>5
  <2>. QED  BY <2>1, <2>2
<1>3. PICK total \in [1..n -> Seq(S)] : Adds(total, n)
  <2>1. n \in P
    <3> HIDE DEF P
    <3>. QED  BY <1>1, <1>2, NaturalsAll
  <2> HIDE DEF Adds
  <2>. QED  BY <1>1, <2>1
<1>4. Accumulates(parts, total)
  BY <1>3 DEF Accumulates, n
<1>5. CASE n = 0
  <2>1. parts = <<>>
    BY <1>5 DEF n
  <2>. QED  BY <1>5, <2>1 DEF FlattenSeq, n
<1>6. CASE n # 0
  <2>1. n \in Nat \ {0} /\ n \in 1..n
    BY <1>1, <1>6
  <2>2. FlattenSeq(parts) = total[n]
    BY <1>4, <2>1, FlattenIs DEF n
  <2>. QED  BY <2>1, <2>2
<1>. QED  BY <1>5, <1>6

LEMMA ValueType ==
  ASSUME NEW digits \in Sizes
  PROVE  Value(digits) \in Nat /\ (digits = <<>> => Value(digits) = 0)
<1> DEFINE n == Len(digits)
<1>1. n \in Nat /\ n =< n /\ DOMAIN digits = 1..n /\ \A i \in 1..n : digits[i] \in Nat
  BY DfsAssumption DEF Sizes
<1>2. PICK t : /\ t[0] = 0
               /\ \A i \in 1..n : t[i] = t[i - 1] * Base + digits[i]
               /\ Value(digits) = t[n]
  BY <1>1, ValueByDigits
<1>3. digits = <<>> => n = 0
  OBVIOUS
<1> HIDE DEF n
<1> DEFINE P == {m \in Nat : m =< n => t[m] \in Nat}
<1>4. ASSUME NEW m \in Nat, \A l \in Nat : l < m => l \in P
      PROVE  m \in P
  <2> SUFFICES ASSUME m =< n PROVE t[m] \in Nat
    OBVIOUS
  <2>1. CASE m = 0
    BY <1>2, <2>1
  <2>2. CASE m # 0
    <3>1. m \in 1..n /\ m - 1 \in Nat /\ m - 1 < m /\ m - 1 =< n
      BY <1>1, <2>2
    <3>2. t[m - 1] \in Nat
      BY <1>4, <3>1
    <3>3. Base \in Nat /\ digits[m] \in Nat
      BY <1>1, <3>1, DfsAssumption
    <3>4. t[m - 1] * Base \in Nat
      BY <3>2, <3>3
    <3>. QED  BY <1>2, <3>1, <3>3, <3>4
  <2>. QED  BY <2>1, <2>2
<1>5. n \in P
  <2> HIDE DEF P
  <2>. QED  BY <1>1, <1>4, NaturalsAll
<1>. QED  BY <1>1, <1>2, <1>3, <1>5

(* What is received, and what is left.                                     *)
LEMMA Receive ==
  ASSUME NEW S, NEW stream \in Seq(S), NEW n \in Nat
  PROVE  /\ Taken(stream, n) \in Seq(S) /\ Remaining(stream, n) \in Seq(S)
         /\ Len(Taken(stream, n)) =< n /\ Len(Taken(stream, n)) =< Len(stream)
         /\ n =< Len(stream) => Len(Taken(stream, n)) = n
         /\ \A i \in 1..Len(Taken(stream, n)) : Taken(stream, n)[i] = stream[i]
         /\ Len(stream) =< n => Taken(stream, n) = stream /\ Remaining(stream, n) = <<>>
         /\ n = 0 => Taken(stream, n) = <<>> /\ Remaining(stream, n) = stream
<1> DEFINE m == Min({n, Len(stream)})
<1>1. m \in {n, Len(stream)} /\ m =< n /\ m =< Len(stream)
  <2>1. \E x \in {n, Len(stream)} : \A y \in {n, Len(stream)} : x =< y
    <3>1. n =< Len(stream) \/ Len(stream) =< n
      OBVIOUS
    <3>. QED  BY <3>1
  <2>. QED  BY <2>1 DEF Min
<1> HIDE DEF m
<1>2. m \in Nat
  BY <1>1
<1>3. /\ Taken(stream, n) = SubSeq(stream, 1, m)
      /\ Remaining(stream, n) = SubSeq(stream, m + 1, Len(stream))
  BY DEF Taken, Remaining, m
<1>. QED  BY <1>1, <1>2, <1>3

LEMMA ChunkSizes ==
  ASSUME NEW n \in Names, NEW c \in Chunks
  PROVE  /\ ChunkSize(n, c) \in Nat /\ ChunkSize(n, c) < Base * Base
         /\ ChunkSize(n, c) =< HdrLen
         /\ Digits(ChunkSize(n, c)) \in Sizes
<1>1. /\ Size[n] \in Nat /\ Base \in Nat /\ Base > 1 /\ Base * Base \in Nat
      /\ (Size[n] \div 4) + (Size[n] % 4) < Base * Base
      /\ (Size[n] \div 4) + (Size[n] % 4) =< HdrLen
  BY DfsAssumption
<1>2. Size[n] \div 4 \in Nat /\ Size[n] % 4 \in Nat
  BY <1>1
<1> DEFINE x == ChunkSize(n, c)
<1>3. /\ x \in Nat /\ x =< (Size[n] \div 4) + (Size[n] % 4)
  BY <1>2 DEF ChunkSize
<1>4. HdrLen \in Nat
  BY DfsAssumption
<1> HIDE DEF x
<1>5. x < Base * Base /\ x =< HdrLen
  <2> DEFINE y == (Size[n] \div 4) + (Size[n] % 4)
             B == Base * Base
  <2>1. y \in Nat /\ B \in Nat /\ y < B /\ y =< HdrLen /\ x =< y
    BY <1>1, <1>2, <1>3
  <2> HIDE DEF y, B
  <2>2. x < B /\ x =< HdrLen
    BY <1>3, <1>4, <2>1
  <2>. QED  BY <2>2 DEF B
<1>6. Digits(x) \in Sizes
  <2>1. CASE x < Base
    BY <1>1, <1>3, <2>1 DEF Digits, Sizes
  <2>2. CASE ~(x < Base)
    <3> DEFINE q == x \div Base
               r == x % Base
    <3>1. q \in Nat /\ r \in 0..Base - 1 /\ x = Base * q + r
      BY <1>1, <1>3
    <3> HIDE DEF q, r
    <3>2. q < Base
      <4>1. SUFFICES ASSUME q >= Base PROVE FALSE
        BY <1>1, <3>1
      <4>2. Base * q >= Base * Base
        BY <1>1, <3>1, <4>1
      <4>. QED  BY <1>1, <1>3, <1>5, <3>1, <4>2
    <3>3. Digits(x) = <<q, r>>
      BY <2>2 DEF Digits, q, r
    <3>4. q \in 0..Base - 1 /\ r \in 0..Base - 1
      BY <1>1, <3>1, <3>2
    <3>5. <<q, r>> \in Seq(0..Base - 1)
      BY <3>4
    <3>. QED  BY <3>3, <3>5 DEF Sizes
  <2>. QED  BY <2>1, <2>2
<1>. QED  BY <1>3, <1>5, <1>6 DEF x

LEMMA PartType ==
  ASSUME NEW n \in Names, NEW s \in Servers, NEW j \in 0..1
  PROVE  Part(n, s, j) \in Chunks
<1>1. BucketOf[n] + 1 \in 1..4 /\ 2 * s + j + 1 \in 1..8
  <2>1. BucketOf[n] \in 0..3
    BY DfsAssumption
  <2>2. s \in 0..3
    BY DEF Servers
  <2>. QED  BY <2>1, <2>2
<1>2. \A b \in 1..4 : \A i \in 1..8 : Distro[b][i] \in 1..4
  <2>1. \A b \in 1..4 : Distro[b] \in [1..8 -> 1..4]
    BY DEF Distro
  <2>. QED  BY <2>1
<1>. QED  BY <1>1, <1>2 DEF Part, Chunks

LEMMA PutHeaderFull ==
  ASSUME NEW n \in Names, NEW v \in Versions, NEW c \in Chunks
  PROVE  PutHeader(n, v, c) \in Full /\ Len(PutHeader(n, v, c).size) =< 2
<1>1. PutHeader(n, v, c) \in Full
  BY ChunkSizes DEF PutHeader, Full, Ops
<1>2. Len(Digits(ChunkSize(n, c))) =< 2
  BY DEF Digits
<1>. QED  BY <1>1, <1>2 DEF PutHeader

LEMMA BodyType ==
  ASSUME NEW n \in Names, NEW v \in Versions, NEW c \in Chunks
  PROVE  Body(n, v, c) \in Seq(Cells) /\ Len(Body(n, v, c)) = ChunkSize(n, c)
<1>1. ChunkSize(n, c) \in Nat
  BY ChunkSizes
<1>2. Offset(n, c) \in Nat
  <2>1. Size[n] \in Nat /\ Size[n] \div 4 \in Nat /\ c - 1 \in 0..3
    BY DfsAssumption DEF Chunks
  <2>. QED  BY <2>1 DEF Offset
<1>3. \A i \in 1..ChunkSize(n, c) : Byte(n, v, Offset(n, c) + i) \in Cells
  <2> SUFFICES ASSUME NEW i \in 1..ChunkSize(n, c)
               PROVE  Byte(n, v, Offset(n, c) + i) \in Cells
    OBVIOUS
  <2>1. Offset(n, c) + i \in Nat
    BY <1>1, <1>2
  <2>2. <<"byte", <<n, v>>, Offset(n, c) + i>> \in {"byte"} \X (Names \X Versions) \X Nat
    BY <2>1
  <2>. QED  BY <2>2 DEF Byte, Cells, Plain
<1>. QED  BY <1>1, <1>3 DEF Body

LEMMA HeaderType ==
  ASSUME NEW h \in Full
  PROVE  HeaderCells(h) \in Seq(Cells) /\ Len(HeaderCells(h)) = HdrLen
         /\ Begins(HeaderCells(h), Full)
<1>1. HdrLen \in Nat
  BY DfsAssumption
<1>2. \A i \in 1..HdrLen : <<"head", h, i>> \in Cells
  BY <1>1 DEF Cells
<1>3. HeaderCells(h) \in Seq(Cells) /\ Len(HeaderCells(h)) = HdrLen
  BY <1>1, <1>2 DEF HeaderCells
<1>4. \A i \in 1..HdrLen : HeaderCells(h)[i] = <<"head", h, i>>
  BY DEF HeaderCells
<1>. QED  BY <1>1, <1>3, <1>4 DEF Begins

LEMMA BlockType ==
  ASSUME NEW content \in Seq(Cells)
  PROVE  Block(content) \in Seq(Cells)
<1>1. HdrLen \in Nat /\ 2 * HdrLen \in Nat
  BY DfsAssumption
<1>2. <<"nul">> \in Cells /\ <<"memory">> \in Cells
  BY DEF Cells, Plain
<1> DEFINE c(i) == IF i <= Len(content) THEN content[i]
                   ELSE IF i <= HdrLen THEN <<"nul">> ELSE <<"memory">>
<1>3. \A i \in 1..2 * HdrLen : c(i) \in Cells
  BY <1>1, <1>2
<1>4. [i \in 1..2 * HdrLen |-> c(i)] \in Seq(Cells)
  <2> HIDE DEF c
  <2>. QED  BY <1>1, <1>3
<1>. QED  BY <1>4 DEF Block

LEMMA NodesBeforeType ==
  ASSUME NEW s \in Servers
  PROVE  NodesBefore(s) \in Seq(Full)
<1> DEFINE first(i) == [PutHeader(Before[i], 0, Part(Before[i], s, 0)) EXCEPT !.op = "get"]
           second(i) == Fields(first(i), PutHeader(Before[i], 0, Part(Before[i], s, 1)))
           parts == [i \in DOMAIN Before |-> <<first(i), second(i)>>]
<1>1. NodesBefore(s) = FlattenSeq(parts)
  BY DEF NodesBefore
<1>2. ASSUME NEW i \in DOMAIN Before PROVE first(i) \in Full /\ second(i) \in Full
  <2>1. Before[i] \in Names /\ 0 \in Versions
    BY DfsAssumption DEF Versions
  <2>2. Part(Before[i], s, 0) \in Chunks /\ Part(Before[i], s, 1) \in Chunks
    BY <2>1, PartType
  <2>3. /\ PutHeader(Before[i], 0, Part(Before[i], s, 0)) \in Full
        /\ PutHeader(Before[i], 0, Part(Before[i], s, 1)) \in Full
    BY <2>1, <2>2, PutHeaderFull
  <2>4. first(i) \in Full
    BY <2>3 DEF Full, Ops
  <2>5. first(i) \in Cmds
    BY <2>4, FullIsGood DEF Good
  <2> HIDE DEF first
  <2>. QED  BY <2>3, <2>4, <2>5, FieldsFull
<1> HIDE DEF first, second
<1>3. parts \in Seq(Seq(Full))
  <2>1. \A i \in DOMAIN Before : <<first(i), second(i)>> \in Seq(Full)
    BY <1>2
  <2>2. Before \in Seq(Names)
    BY DfsAssumption
  <2>3. DOMAIN Before = 1..Len(Before) /\ Len(Before) \in Nat
    BY <2>2
  <2>. QED  BY <2>1, <2>3
<1>. QED  BY <1>1, <1>3, FlattenType
-----------------------------------------------------------------------------
(* Steps of workers.                                                       *)
(* One entry of a table of connections is replaced.                        *)
LEMMA Update ==
  ASSUME NEW T, NEW f \in [Clients -> [Servers -> T]], NEW k \in Clients, NEW s \in Servers,
         NEW v \in T, NEW g, g = [f EXCEPT ![k][s] = v]
  PROVE  /\ g \in [Clients -> [Servers -> T]]
         /\ g[k][s] = v
         /\ \A j \in Clients, r \in Servers : j # k \/ r # s => g[j][r] = f[j][r]
<1>1. g = [f EXCEPT ![k] = [f[k] EXCEPT ![s] = v]]
  OBVIOUS
<1>2. [f[k] EXCEPT ![s] = v] \in [Servers -> T]
  OBVIOUS
<1>3. g \in [Clients -> [Servers -> T]]
  BY <1>1, <1>2
<1>4. g[k] = [f[k] EXCEPT ![s] = v] /\ \A j \in Clients : j # k => g[j] = f[j]
  BY <1>1
<1>5. g[k][s] = v /\ \A r \in Servers : r # s => g[k][r] = f[k][r]
  BY <1>4
<1>. QED  BY <1>3, <1>4, <1>5

LEMMA BeginsMore ==
  ASSUME NEW S, NEW C, NEW stream \in Seq(S), NEW more \in Seq(S), Begins(stream, C)
  PROVE  Begins(stream \o more, C)
<1>1. PICK h \in C : Len(stream) >= HdrLen /\ \A i \in 1..HdrLen : stream[i] = <<"head", h, i>>
  BY DEF Begins
<1>2. HdrLen \in Nat
  BY DfsAssumption
<1>3. Len(stream \o more) >= HdrLen
  BY <1>1, <1>2
<1>4. \A i \in 1..HdrLen : (stream \o more)[i] = stream[i]
  BY <1>1, <1>2
<1>. QED  BY <1>1, <1>3, <1>4 DEF Begins

LEMMA ReceiveType ==
  ASSUME NEW S, NEW stream \in Seq(S), NEW n \in Nat
  PROVE  Taken(stream, n) \in Seq(S) /\ Remaining(stream, n) \in Seq(S)
BY Receive

LEMMA ReceiveAll ==
  ASSUME NEW S, NEW stream \in Seq(S), NEW n \in Nat, Len(stream) =< n
  PROVE  Taken(stream, n) = stream /\ Remaining(stream, n) = <<>>
BY Receive

(* What is received of a stream that begins with a header does, too.       *)
LEMMA BeginsTaken ==
  ASSUME NEW S, NEW C, NEW stream \in Seq(S), NEW n \in Nat, n >= HdrLen, Begins(stream, C)
  PROVE  Begins(Taken(stream, n), C)
<1>1. PICK h \in C : Len(stream) >= HdrLen /\ \A i \in 1..HdrLen : stream[i] = <<"head", h, i>>
  BY DEF Begins
<1>2. HdrLen \in Nat
  BY DfsAssumption
<1> DEFINE buf == Taken(stream, n)
<1>3. /\ buf \in Seq(S)
      /\ \A i \in 1..Len(buf) : buf[i] = stream[i]
      /\ n =< Len(stream) => Len(buf) = n
      /\ Len(stream) =< n => buf = stream
  <2>1. buf \in Seq(S) /\ (Len(stream) =< n => buf = stream)
    BY Receive
  <2>2. \A i \in 1..Len(buf) : buf[i] = stream[i]
    BY Receive
  <2>3. n =< Len(stream) => Len(buf) = n
    BY Receive
  <2>. QED  BY <2>1, <2>2, <2>3
<1> HIDE DEF buf
<1>4. Len(buf) >= HdrLen
  <2>1. Len(stream) \in Nat
    OBVIOUS
  <2>. QED  BY <1>1, <1>2, <1>3, <2>1
<1>5. \A i \in 1..HdrLen : i \in 1..Len(buf)
  BY <1>2, <1>3, <1>4
<1>6. Begins(buf, C)
  BY <1>1, <1>3, <1>4, <1>5 DEF Begins
<1>. QED  BY <1>6 DEF buf

(* The cells that a worker may receive as a chunk.                         *)
LEMMA StreamOfCells ==
  ASSUME Types, NEW k \in Clients, NEW s \in Servers, AtServer(k, s),
         wpc[k][s] \notin {"none", "first", "closed"}
  PROVE  toServer[k][s] \in Seq(Cells)
<1>1. CASE cmd[k].op = "put"
  BY <1>1 DEF AtServer, PutAt
<1>2. CASE cmd[k].op # "put"
  <2>1. GetAt(k, s)
    BY DEF AtServer
  <2>2. toServer[k][s] = <<>>
    BY <1>2, <2>1 DEF GetAt
  <2>. QED  BY <2>2
<1>. QED  BY <1>1, <1>2

(* A step of the worker of server s for client k: what it leaves alone.    *)
OneWorker(k, s) ==
  /\ UNCHANGED <<ofClient, power>>
  /\ \A j \in Clients, r \in Servers : j # k \/ r # s =>
       /\ wpc'[j][r] = wpc[j][r] /\ wcmd'[j][r] = wcmd[j][r] /\ nodes'[j][r] = nodes[j][r]
       /\ toServer'[j][r] = toServer[j][r] /\ toClient'[j][r] = toClient[j][r]
  /\ \A r \in Servers : r # s =>
       cabinet'[r] = cabinet[r] /\ file'[r] = file[r] /\ socket'[r] = socket[r]

LEMMA MovedWorker ==
  ASSUME Types, NEW k \in Clients, NEW s \in Servers, NEW l, NEW m \in Places, Step(k, s, l, m)
  PROVE  /\ wpc[k][s] = l /\ wpc'[k][s] = m
         /\ wpc' \in [Clients -> [Servers -> Places]]
         /\ \A j \in Clients, r \in Servers : j # k \/ r # s => wpc'[j][r] = wpc[j][r]
<1>1. wpc \in [Clients -> [Servers -> Places]] /\ wpc' = [wpc EXCEPT ![k][s] = m]
  BY DEF Types, ServerTypes, Step
<1>2. wpc[k][s] = l
  BY DEF Step
<1>. QED  BY <1>1, <1>2, Update

LEMMA ServerReceived ==
  ASSUME Types, NEW k \in Clients, NEW s \in Servers, NEW n \in Nat, ServerReceives(k, s, n)
  PROVE  /\ toServer' \in [Clients -> [Servers -> Seq(AnyCells)]]
         /\ toServer'[k][s] = Remaining(toServer[k][s], n)
         /\ \A j \in Clients, r \in Servers : j # k \/ r # s => toServer'[j][r] = toServer[j][r]
         /\ socket' \in [Servers -> Clients \cup {None}]
         /\ socket'[s] = None /\ \A r \in Servers : r # s => socket'[r] = socket[r]
         /\ toClient' = toClient
<1>1. /\ toServer \in [Clients -> [Servers -> Seq(AnyCells)]]
      /\ toServer' = [toServer EXCEPT ![k][s] = Remaining(toServer[k][s], n)]
  BY DEF Types, ServerTypes, ServerReceives
<1>2. Remaining(toServer[k][s], n) \in Seq(AnyCells)
  BY <1>1, Receive
<1>3. socket \in [Servers -> Clients \cup {None}] /\ socket' = [socket EXCEPT ![s] = None]
      /\ toClient' = toClient
  BY DEF Types, ServerTypes, ServerReceives
<1>4. /\ toServer' \in [Clients -> [Servers -> Seq(AnyCells)]]
      /\ toServer'[k][s] = Remaining(toServer[k][s], n)
      /\ \A j \in Clients, r \in Servers : j # k \/ r # s => toServer'[j][r] = toServer[j][r]
  BY <1>1, <1>2, Update
<1>5. /\ socket' \in [Servers -> Clients \cup {None}]
      /\ socket'[s] = None /\ \A r \in Servers : r # s => socket'[r] = socket[r]
  BY <1>3
<1>. QED  BY <1>3, <1>4, <1>5

LEMMA ServerSent ==
  ASSUME Types, NEW k \in Clients, NEW s \in Servers, NEW cells \in Seq(Cells),
         ServerSends(k, s, cells)
  PROVE  /\ toClient' \in [Clients -> [Servers -> Seq(Cells)]]
         /\ toClient'[k][s] = toClient[k][s] \o cells
         /\ \A j \in Clients, r \in Servers : j # k \/ r # s => toClient'[j][r] = toClient[j][r]
         /\ socket[s] = None /\ socket' = socket /\ toServer' = toServer
<1>1. /\ toClient \in [Clients -> [Servers -> Seq(Cells)]]
      /\ toClient' = [toClient EXCEPT ![k][s] = toClient[k][s] \o cells]
  BY DEF Types, ServerTypes, ServerSends
<1>2. toClient[k][s] \o cells \in Seq(Cells)
  BY <1>1
<1>. QED  BY <1>1, <1>2, Update DEF ServerSends

(* What is left to prove of a worker's step.                               *)
LEMMA WorkerKeeps ==
  ASSUME IInv, NEW k \in Clients, NEW s \in Servers,
         wpc[k][s] \notin {"none", "closed"}, OneWorker(k, s),
         ServerTypes', AtServer(k, s)',
         \A j \in Clients : FileAt(j, s)',
         \A j \in Clients : wpc'[k][s] \in {"body", "rest"} /\ wpc[j][s] \in {"body", "rest"}
                            /\ wcmd'[k][s].name = wcmd[j][s].name => j = k,
         \A j \in Clients : socket'[s] = j => wpc'[j][s] \in RecvPlaces,
         \A i \in DOMAIN cabinet'[s] :
           \/ Id(cabinet'[s][i]) \in DOMAIN file'[s]
           \/ \E j \in Clients : wpc'[j][s] = "create" /\ Id(wcmd'[j][s]) = Id(cabinet'[s][i])
  PROVE  IInv'
<1>1. UNCHANGED <<ofClient, power>>
  BY DEF OneWorker
<1>2. Types'
  BY <1>1 DEF IInv, Types, ClientTypes, ofClient
<1>3. ConnectionInv'
  <2>1. ASSUME NEW j \in Clients PROVE AtClient(j)'
    BY <1>1 DEF IInv, ConnectionInv, AtClient, ofClient, PerFile
  <2>2. ASSUME NEW j \in Clients, NEW r \in Servers PROVE AtServer(j, r)'
    <3>1. CASE j = k /\ r = s
      BY <3>1
    <3>2. CASE j # k \/ r # s
      <4>1. AtServer(j, r)
        BY DEF IInv, ConnectionInv
      <4>2. /\ wpc'[j][r] = wpc[j][r] /\ wcmd'[j][r] = wcmd[j][r]
            /\ nodes'[j][r] = nodes[j][r]
            /\ toServer'[j][r] = toServer[j][r] /\ toClient'[j][r] = toClient[j][r]
        BY <3>2 DEF OneWorker
      <4>3. PutAt(j, r)'
        BY <1>1, <4>1, <4>2 DEF AtServer, PutAt, ofClient, ServerOf, PerFile
      <4>4. GetAt(j, r)'
        BY <1>1, <4>1, <4>2 DEF AtServer, GetAt, ofClient, Unasked
      <4>5. ReplyAt(j, r)' /\ WorkerAt(j, r)'
        BY <1>1, <4>1, <4>2 DEF AtServer, ReplyAt, WorkerAt, ofClient
      <4>. QED  BY <4>3, <4>4, <4>5 DEF AtServer
    <3>. QED  BY <3>1, <3>2
  <2>. QED  BY <2>1, <2>2 DEF ConnectionInv
<1>4. FileInv'
  <2> SUFFICES ASSUME NEW j \in Clients, NEW r \in Servers, r # s PROVE FileAt(j, r)'
    BY DEF FileInv
  <2>1. FileAt(j, r)
    BY DEF IInv, FileInv
  <2>. QED  BY <2>1 DEF FileAt, OneWorker
<1>5. LockInv'
  <2> SUFFICES ASSUME NEW r \in Servers, NEW i \in Clients, NEW j \in Clients,
                      wpc'[i][r] \in {"body", "rest"}, wpc'[j][r] \in {"body", "rest"},
                      wcmd'[i][r].name = wcmd'[j][r].name
               PROVE  i = j
    BY DEF LockInv
  <2>1. \A l \in Clients : l # k \/ r # s => wpc'[l][r] = wpc[l][r] /\ wcmd'[l][r] = wcmd[l][r]
    BY DEF OneWorker
  <2>2. CASE r # s \/ (i # k /\ j # k)
    BY <2>1, <2>2 DEF IInv, LockInv
  <2>3. CASE r = s /\ i = k /\ j # k
    BY <2>1, <2>3
  <2>4. CASE r = s /\ i # k /\ j = k
    BY <2>1, <2>4
  <2>. QED  BY <2>2, <2>3, <2>4
<1>6. SocketInv'
  BY DEF IInv, SocketInv, OneWorker
<1>7. PowerInv'
  <2> SUFFICES ASSUME NEW r \in Servers, ~up[r]
               PROVE  cabinet'[r] = <<>> /\ Joined(r)'
    BY <1>1 DEF PowerInv, power
  <2>1. cabinet[r] = <<>> /\ Joined(r)
    BY DEF IInv, PowerInv
  <2>2. r # s
    BY <2>1 DEF Joined
  <2>. QED  BY <2>1, <2>2 DEF Joined, OneWorker
<1>8. NodesHaveChunks'
  <2> SUFFICES ASSUME NEW r \in Servers, r # s, NEW i \in DOMAIN cabinet'[r]
               PROVE  \/ Id(cabinet'[r][i]) \in DOMAIN file'[r]
                      \/ \E j \in Clients : wpc'[j][r] = "create"
                                            /\ Id(wcmd'[j][r]) = Id(cabinet'[r][i])
    BY DEF NodesHaveChunks
  <2>1. cabinet'[r] = cabinet[r] /\ file'[r] = file[r]
    BY DEF OneWorker
  <2>2. \A j \in Clients : wpc'[j][r] = wpc[j][r] /\ wcmd'[j][r] = wcmd[j][r]
    BY DEF OneWorker
  <2>3. \/ Id(cabinet[r][i]) \in DOMAIN file[r]
        \/ \E j \in Clients : wpc[j][r] = "create" /\ Id(wcmd[j][r]) = Id(cabinet[r][i])
    BY <2>1 DEF IInv, NodesHaveChunks
  <2>. QED  BY <2>1, <2>2, <2>3
<1>. QED  BY <1>2, <1>3, <1>4, <1>5, <1>6, <1>7, <1>8 DEF IInv

NoneIsNobody == None \notin Clients

LEMMA NobodyHasNone == NoneIsNobody /\ Clients \subseteq Nat
<1>1. Clients = 1..Cardinality(Clients) /\ None \notin Nat
  BY DfsAssumption
<1>2. 1..Cardinality(Clients) \subseteq Int
  OBVIOUS
<1>3. Cardinality(Clients) \in Nat
  BY DfsAssumption, FS_CardinalityType
<1>. QED  BY <1>1, <1>3 DEF NoneIsNobody

(* Who holds the semaphore of a server after a worker's step.              *)
SocketAfter(k, s) ==
  \/ socket'[s] = None
  \/ socket'[s] = k /\ wpc'[k][s] \in RecvPlaces
  \/ socket'[s] = socket[s] /\ wpc[k][s] \notin RecvPlaces

LEMMA SocketKept ==
  ASSUME IInv, NEW k \in Clients, NEW s \in Servers, OneWorker(k, s), SocketAfter(k, s),
         NEW j \in Clients, socket'[s] = j
  PROVE  wpc'[j][s] \in RecvPlaces
<1>1. socket'[s] # None
  BY NobodyHasNone DEF NoneIsNobody
<1>2. CASE socket'[s] = k /\ wpc'[k][s] \in RecvPlaces
  BY <1>2
<1>3. CASE socket'[s] = socket[s] /\ wpc[k][s] \notin RecvPlaces
  <2>1. wpc[j][s] \in RecvPlaces
    BY <1>3 DEF IInv, SocketInv
  <2>2. j # k
    BY <1>3, <2>1
  <2>. QED  BY <2>1, <2>2 DEF OneWorker
<1>. QED  BY <1>1, <1>2, <1>3 DEF SocketAfter

(* A worker's step that neither adds a node nor writes a file.             *)
LEMMA QuietWorker ==
  ASSUME IInv, NEW k \in Clients, NEW s \in Servers,
         wpc[k][s] \notin {"none", "closed", "create"}, OneWorker(k, s),
         UNCHANGED <<cabinet, file>>,
         ServerTypes', AtServer(k, s)', FileAt(k, s)', SocketAfter(k, s),
         \/ wpc'[k][s] \notin {"body", "rest"}
         \/ wpc'[k][s] = wpc[k][s] /\ wcmd'[k][s] = wcmd[k][s]
  PROVE  IInv'
<1>1. \A j \in Clients : FileAt(j, s)'
  <2> SUFFICES ASSUME NEW j \in Clients, j # k PROVE FileAt(j, s)'
    OBVIOUS
  <2>1. FileAt(j, s)
    BY DEF IInv, FileInv
  <2>. QED  BY <2>1 DEF FileAt, OneWorker
<1>2. \A j \in Clients : wpc'[k][s] \in {"body", "rest"} /\ wpc[j][s] \in {"body", "rest"}
                         /\ wcmd'[k][s].name = wcmd[j][s].name => j = k
  BY DEF IInv, LockInv
<1>3. \A j \in Clients : socket'[s] = j => wpc'[j][s] \in RecvPlaces
  BY SocketKept
<1>4. ASSUME NEW i \in DOMAIN cabinet'[s]
      PROVE  \/ Id(cabinet'[s][i]) \in DOMAIN file'[s]
             \/ \E j \in Clients : wpc'[j][s] = "create" /\ Id(wcmd'[j][s]) = Id(cabinet'[s][i])
  <2>1. \/ Id(cabinet[s][i]) \in DOMAIN file[s]
        \/ \E j \in Clients : wpc[j][s] = "create" /\ Id(wcmd[j][s]) = Id(cabinet[s][i])
    BY DEF IInv, NodesHaveChunks
  <2>2. \A j \in Clients : j # k => wpc'[j][s] = wpc[j][s] /\ wcmd'[j][s] = wcmd[j][s]
    BY DEF OneWorker
  <2>. QED  BY <2>1, <2>2
<1> HIDE DEF Types
<1>. QED  BY <1>1, <1>2, <1>3, <1>4, WorkerKeeps

LEMMA WaitKeeps ==
  ASSUME IInv, NEW k \in Clients, NEW s \in Servers, Wait(k, s), UNCHANGED <<ofClient, power>>
  PROVE  IInv'
<1>1. /\ wpc[k][s] \in RecvPlaces
      /\ socket' = [socket EXCEPT ![s] = k]
      /\ UNCHANGED <<cabinet, file, wpc, wcmd, nodes, toServer, toClient>>
  BY DEF Wait, net, RecvPlaces
<1>2. ServerTypes
  BY DEF IInv, Types
<1>3. /\ socket' \in [Servers -> Clients \cup {None}]
      /\ socket'[s] = k /\ \A r \in Servers : r # s => socket'[r] = socket[r]
  BY <1>1, <1>2 DEF ServerTypes
<1>4. ServerTypes'
  BY <1>1, <1>2, <1>3 DEF ServerTypes, power
<1>5. OneWorker(k, s)
  BY <1>1, <1>3 DEF OneWorker
<1>6. AtServer(k, s)'
  <2>1. AtServer(k, s)
    BY DEF IInv, ConnectionInv
  <2>2. PutAt(k, s)'
    BY <1>1, <2>1 DEF AtServer, PutAt, ServerOf, PerFile, ofClient
  <2>3. GetAt(k, s)'
    BY <1>1, <2>1 DEF AtServer, GetAt, Unasked, ofClient
  <2>4. ReplyAt(k, s)' /\ WorkerAt(k, s)'
    BY <1>1, <2>1 DEF AtServer, ReplyAt, WorkerAt, ofClient
  <2>. QED  BY <2>2, <2>3, <2>4 DEF AtServer
<1>7. FileAt(k, s)'
  BY <1>1 DEF IInv, FileInv, FileAt
<1>8. SocketAfter(k, s)
  BY <1>1, <1>3 DEF SocketAfter
<1>. QED  BY <1>1, <1>4, <1>5, <1>6, <1>7, <1>8, QuietWorker DEF RecvPlaces

(* What a worker makes of the first thing it receives.                     *)
LEMMA FirstParsed ==
  ASSUME IInv, NEW k \in Clients, NEW s \in Servers, wpc[k][s] = "first"
  PROVE  LET c == Parsed(Blank, Taken(toServer[k][s], 2 * HdrLen)) IN
         /\ c \in Good
         /\ c.op = "put" => c \in Full
         /\ toServer[k][s] = <<>> => c = Blank
         /\ cmd[k].op # "put" => Remaining(toServer[k][s], 2 * HdrLen) = <<>>
<1> DEFINE stream == toServer[k][s]
           buf == Taken(stream, 2 * HdrLen)
           c == Parsed(Blank, buf)
<1>1. HdrLen \in Nat /\ 2 * HdrLen \in Nat /\ 2 * HdrLen >= HdrLen
  BY DfsAssumption
<1>2. Blank \in Cmds /\ Blank \in Good
  <2>1. <<>> \in Sizes
    BY DEF Sizes
  <2>. QED  BY <2>1 DEF Blank, Cmds, Ops, Good
<1>3. stream \in Seq(AnyCells)
  BY DEF IInv, Types, ServerTypes
<1>4. AtServer(k, s)
  BY DEF IInv, ConnectionInv
<1> HIDE DEF stream
<1>5. stream = <<>> => buf = <<>>
  <2>1. stream = <<>> => Len(stream) = 0
    OBVIOUS
  <2>2. CASE stream = <<>>
    <3>1. Len(stream) =< 2 * HdrLen
      BY <1>1, <2>1, <2>2
    <3>. QED  BY <1>1, <1>3, <2>2, <3>1, ReceiveAll
  <2>. QED  BY <2>2
<1> HIDE DEF buf
<1>6. stream = <<>> => c = Blank
  BY <1>5, ParsedNothing
<1>7. CASE cmd[k].op = "put" /\ stream # <<>>
  <2>1. stream \in Seq(Cells) /\ Begins(stream, Full)
    BY <1>4, <1>7 DEF AtServer, PutAt, stream
  <2>2. buf \in Seq(Cells) /\ Begins(buf, Full)
    BY <1>1, <2>1, Receive, BeginsTaken DEF buf
  <2>3. c \in Full
    BY <1>2, <2>2, ParsedWhole
  <2>. QED  BY <1>7, <2>3, FullIsGood DEF buf, stream
<1>8. CASE cmd[k].op # "put" /\ stream # <<>>
  <2>1. PICK h \in Good : stream = HeaderCells(h)
    BY <1>4, <1>8 DEF AtServer, GetAt, stream
  <2>2. Len(stream) = HdrLen
    BY <1>1, <2>1 DEF HeaderCells
  <2>3. buf = stream /\ Remaining(stream, 2 * HdrLen) = <<>>
    <3>1. Len(stream) =< 2 * HdrLen
      BY <1>1, <2>2
    <3>. QED  BY <1>1, <1>3, <3>1, ReceiveAll DEF buf
  <2>4. c \in Good
    BY <2>1, <2>3, ParsedHeader
  <2>. QED  BY <1>8, <2>3, <2>4 DEF buf, stream, Good
<1>9. CASE stream = <<>>
  <2>1. Remaining(stream, 2 * HdrLen) = <<>>
    <3>1. Len(stream) =< 2 * HdrLen
      BY <1>1, <1>9
    <3>. QED  BY <1>1, <1>3, <3>1, ReceiveAll
  <2>2. c = Blank /\ c.op # "put"
    <3>1. Blank.op = ""
      BY DEF Blank
    <3>2. c = Blank
      BY <1>6, <1>9
    <3> HIDE DEF c
    <3>. QED  BY <3>1, <3>2
  <2>. QED  BY <1>2, <1>9, <2>1, <2>2 DEF buf, stream
<1>. QED  BY <1>7, <1>8, <1>9

LEMMA ReceiveFirstKeeps ==
  ASSUME IInv, NEW k \in Clients, NEW s \in Servers, ReceiveFirst(k, s),
         UNCHANGED <<ofClient, power>>
  PROVE  IInv'
<1> DEFINE n == 2 * HdrLen
           c == Parsed(wcmd[k][s], Taken(toServer[k][s], n))
           m == wpc'[k][s]
<1>1. n \in Nat
  BY DfsAssumption
<1>2. /\ ServerReceives(k, s, n) /\ wpc[k][s] = "first"
      /\ wcmd' = [wcmd EXCEPT ![k][s] = c]
      /\ UNCHANGED <<cabinet, file, nodes>>
  BY DEF ReceiveFirst
<1>3. Types /\ ServerTypes
  BY DEF IInv, Types
<1>4. AtServer(k, s)
  BY DEF IInv, ConnectionInv
<1>5. wcmd[k][s] = Blank
  BY <1>2, <1>4 DEF AtServer, WorkerAt
<1>6. /\ c \in Good /\ (c.op = "put" => c \in Full)
      /\ toServer[k][s] = <<>> => c = Blank
      /\ cmd[k].op # "put" => Remaining(toServer[k][s], n) = <<>>
  BY <1>2, <1>5, FirstParsed
<1> HIDE DEF n, c
<1>7. /\ wcmd' \in [Clients -> [Servers -> Good]] /\ wcmd'[k][s] = c
      /\ \A j \in Clients, r \in Servers : j # k \/ r # s => wcmd'[j][r] = wcmd[j][r]
  <2>1. wcmd \in [Clients -> [Servers -> Good]]
    BY <1>3 DEF ServerTypes
  <2>. QED  BY <1>2, <1>6, <2>1, Update
<1>8. \/ c.op = "put" /\ Step(k, s, "first", "add")
      \/ c.op = "get" /\ Step(k, s, "first", "find")
      \/ c.op = "" /\ Step(k, s, "first", "closed")
  BY <1>7 DEF ReceiveFirst
<1>9. /\ wpc' \in [Clients -> [Servers -> Places]]
      /\ \A j \in Clients, r \in Servers : j # k \/ r # s => wpc'[j][r] = wpc[j][r]
      /\ \/ m = "add" /\ c.op = "put"
         \/ m = "find" /\ c.op = "get"
         \/ m = "closed" /\ c.op = ""
  <2>1. {"add", "find", "closed"} \subseteq Places
    BY DEF Places
  <2>2. CASE c.op = "put" /\ Step(k, s, "first", "add")
    BY <1>3, <2>1, <2>2, MovedWorker
  <2>3. CASE c.op = "get" /\ Step(k, s, "first", "find")
    BY <1>3, <2>1, <2>3, MovedWorker
  <2>4. CASE c.op = "" /\ Step(k, s, "first", "closed")
    <3>1. "closed" \in Places
      BY <2>1
    <3>2. /\ wpc' \in [Clients -> [Servers -> Places]] /\ wpc'[k][s] = "closed"
          /\ \A j \in Clients, r \in Servers : j # k \/ r # s => wpc'[j][r] = wpc[j][r]
      <4>1. Types /\ Step(k, s, "first", "closed")
        BY <1>3, <2>4
      <4>. QED  BY <3>1, <4>1, MovedWorker
    <3>. QED  BY <2>4, <3>2
  <2>. QED  BY <1>8, <2>2, <2>3, <2>4
<1>10. /\ toServer' \in [Clients -> [Servers -> Seq(AnyCells)]]
       /\ toServer'[k][s] = Remaining(toServer[k][s], n)
       /\ \A j \in Clients, r \in Servers : j # k \/ r # s => toServer'[j][r] = toServer[j][r]
       /\ socket' \in [Servers -> Clients \cup {None}]
       /\ socket'[s] = None /\ \A r \in Servers : r # s => socket'[r] = socket[r]
       /\ toClient' = toClient
  BY <1>1, <1>2, <1>3, ServerReceived
<1> HIDE DEF m
<1>11. ServerTypes'
  BY <1>2, <1>3, <1>7, <1>9, <1>10 DEF ServerTypes, power
<1>12. OneWorker(k, s)
  <2>1. \A j \in Clients, r \in Servers : j # k \/ r # s =>
          /\ wpc'[j][r] = wpc[j][r] /\ wcmd'[j][r] = wcmd[j][r]
          /\ nodes'[j][r] = nodes[j][r]
          /\ toServer'[j][r] = toServer[j][r] /\ toClient'[j][r] = toClient[j][r]
    <3>1. nodes' = nodes /\ toClient' = toClient
      BY <1>2, <1>10
    <3>. QED  BY <1>7, <1>9, <1>10, <3>1
  <2>2. \A r \in Servers : r # s =>
          cabinet'[r] = cabinet[r] /\ file'[r] = file[r] /\ socket'[r] = socket[r]
    BY <1>2, <1>10
  <2>. QED  BY <2>1, <2>2 DEF OneWorker
<1> USE DEF m
<1>13. AtServer(k, s)'
  <2>1. PutAt(k, s)'
    <3> SUFFICES ASSUME cmd[k].op = "put" PROVE toServer'[k][s] \in Seq(Cells)
      BY <1>9 DEF PutAt, ofClient
    <3>1. toServer[k][s] \in Seq(Cells)
      BY <1>4 DEF AtServer, PutAt
    <3>. QED  BY <1>1, <1>10, <3>1, ReceiveType
  <2>2. GetAt(k, s)'
    <3> SUFFICES ASSUME cmd[k].op # "put"
                 PROVE  /\ toServer'[k][s] = <<>>
                        /\ Unasked(k, s) => m \in {"none", "first", "closed"}
      BY DEF GetAt, ofClient, Unasked
    <3>1. toServer'[k][s] = <<>>
      BY <1>6, <1>10
    <3>2. ASSUME Unasked(k, s) PROVE m = "closed"
      <4>1. toServer[k][s] = <<>>
        BY <1>4, <3>2 DEF AtServer, GetAt
      <4>2. c.op = ""
        <5>1. Blank.op = ""
          BY DEF Blank
        <5>. QED  BY <1>6, <4>1, <5>1
      <4>. QED  BY <1>9, <4>2
    <3>. QED  BY <3>1, <3>2
  <2>3. ReplyAt(k, s)'
    BY <1>2, <1>4, <1>9, <1>10 DEF AtServer, ReplyAt, ofClient
  <2>4. WorkerAt(k, s)'
    BY <1>2, <1>4, <1>6, <1>7, <1>9, <1>10 DEF AtServer, WorkerAt, ofClient, PutPlaces
  <2>. QED  BY <2>1, <2>2, <2>3, <2>4 DEF AtServer
<1>14. FileAt(k, s)'
  BY <1>9 DEF FileAt
<1>15. SocketAfter(k, s)
  BY <1>10 DEF SocketAfter
<1>. QED  BY <1>2, <1>9, <1>11, <1>12, <1>13, <1>14, <1>15, QuietWorker

LEMMA ReceiveNextKeeps ==
  ASSUME IInv, NEW k \in Clients, NEW s \in Servers, ReceiveNext(k, s),
         UNCHANGED <<ofClient, power>>
  PROVE  IInv'
<1> DEFINE n == HdrLen
           c == Parsed([wcmd[k][s] EXCEPT !.op = ""], Taken(toServer[k][s], n))
           m == wpc'[k][s]
<1>1. n \in Nat
  BY DfsAssumption
<1>2. /\ ServerReceives(k, s, n) /\ wpc[k][s] = "next"
      /\ wcmd' = [wcmd EXCEPT ![k][s] = c]
      /\ UNCHANGED <<cabinet, file, nodes>>
  BY DEF ReceiveNext
<1>3. Types /\ ServerTypes
  BY DEF IInv, Types
<1>4. AtServer(k, s)
  BY DEF IInv, ConnectionInv
<1>5. toServer[k][s] \in Seq(Cells)
  BY <1>2, <1>3, <1>4, StreamOfCells
<1>6. c \in Full
  <2>1. wcmd[k][s] \in Full
    BY <1>2, <1>4 DEF AtServer, WorkerAt, PutPlaces
  <2>2. [wcmd[k][s] EXCEPT !.op = ""] \in Full
    BY <2>1 DEF Full, Ops
  <2>3. Taken(toServer[k][s], n) \in Seq(Cells)
    BY <1>1, <1>5, Receive
  <2>. QED  BY <2>2, <2>3, ParsedFull
<1> HIDE DEF n, c
<1>7. /\ wcmd' \in [Clients -> [Servers -> Good]] /\ wcmd'[k][s] = c
      /\ \A j \in Clients, r \in Servers : j # k \/ r # s => wcmd'[j][r] = wcmd[j][r]
  <2>1. wcmd \in [Clients -> [Servers -> Good]] /\ c \in Good
    BY <1>3, <1>6, FullIsGood DEF ServerTypes
  <2>. QED  BY <1>2, <2>1, Update
<1>8. Step(k, s, "next", "add") \/ Step(k, s, "next", "closed")
  BY <1>7 DEF ReceiveNext
<1>9. /\ wpc' \in [Clients -> [Servers -> Places]]
      /\ \A j \in Clients, r \in Servers : j # k \/ r # s => wpc'[j][r] = wpc[j][r]
      /\ m = "add" \/ m = "closed"
  <2>1. {"add", "closed"} \subseteq Places
    BY DEF Places
  <2>. QED  BY <1>3, <1>8, <2>1, MovedWorker
<1>10. /\ toServer' \in [Clients -> [Servers -> Seq(AnyCells)]]
       /\ toServer'[k][s] = Remaining(toServer[k][s], n)
       /\ \A j \in Clients, r \in Servers : j # k \/ r # s => toServer'[j][r] = toServer[j][r]
       /\ socket' \in [Servers -> Clients \cup {None}]
       /\ socket'[s] = None /\ \A r \in Servers : r # s => socket'[r] = socket[r]
       /\ toClient' = toClient
  BY <1>1, <1>2, <1>3, ServerReceived
<1>11. ServerTypes'
  BY <1>2, <1>3, <1>7, <1>9, <1>10 DEF ServerTypes, power
<1>12. OneWorker(k, s)
  BY <1>2, <1>7, <1>9, <1>10 DEF OneWorker
<1>13. AtServer(k, s)'
  <2>1. PutAt(k, s)'
    <3> SUFFICES toServer'[k][s] \in Seq(Cells)
      BY <1>9 DEF PutAt
    <3>. QED  BY <1>1, <1>5, <1>10, ReceiveType
  <2>2. GetAt(k, s)'
    <3> SUFFICES ASSUME cmd[k].op # "put"
                 PROVE  toServer'[k][s] = <<>> /\ ~Unasked(k, s)
      BY DEF GetAt, ofClient, Unasked
    <3>1. GetAt(k, s)
      BY <1>4 DEF AtServer
    <3>2. toServer[k][s] = <<>> /\ ~Unasked(k, s)
      BY <1>2, <3>1 DEF GetAt
    <3>3. Len(toServer[k][s]) =< n
      BY <1>1, <3>2
    <3>4. Remaining(toServer[k][s], n) = <<>>
      BY <1>1, <1>5, <3>3, ReceiveAll
    <3>. QED  BY <1>10, <3>2, <3>4
  <2>3. ReplyAt(k, s)'
    BY <1>2, <1>4, <1>9, <1>10 DEF AtServer, ReplyAt, ofClient
  <2>4. WorkerAt(k, s)'
    BY <1>2, <1>4, <1>6, <1>7, <1>9, <1>10 DEF AtServer, WorkerAt, ofClient, PutPlaces
  <2>. QED  BY <2>1, <2>2, <2>3, <2>4 DEF AtServer
<1>14. FileAt(k, s)'
  BY <1>9 DEF FileAt
<1>15. SocketAfter(k, s)
  BY <1>10 DEF SocketAfter
<1>. QED  BY <1>2, <1>9, <1>11, <1>12, <1>13, <1>14, <1>15, QuietWorker

(* Steps that leave the streams alone.                                     *)
LEMMA AtServerMoved ==
  ASSUME NEW k \in Clients, NEW s \in Servers, AtServer(k, s),
         UNCHANGED <<ofClient, toServer, toClient>>,
         wpc[k][s] \notin {"none", "first", "closed"}, wpc'[k][s] \notin {"none", "first"},
         wpc'[k][s] = "sendbody" => toClient[k][s] # <<>>,
         WorkerAt(k, s)'
  PROVE  AtServer(k, s)'
<1>1. PutAt(k, s)'
  BY DEF AtServer, PutAt, ofClient
<1>2. GetAt(k, s)'
  <2>1. GetAt(k, s)
    BY DEF AtServer
  <2>2. cmd[k].op # "put" => toServer[k][s] = <<>> /\ ~Unasked(k, s)
    BY <2>1 DEF GetAt
  <2>3. Unasked(k, s)' = Unasked(k, s) /\ cmd' = cmd /\ toServer' = toServer
    BY DEF ofClient, Unasked
  <2>. QED  BY <2>2, <2>3 DEF GetAt
<1>3. ReplyAt(k, s)'
  BY DEF AtServer, ReplyAt, ofClient
<1>. QED  BY <1>1, <1>2, <1>3 DEF AtServer

LEMMA AddNodeKeeps ==
  ASSUME IInv, NEW k \in Clients, NEW s \in Servers, AddNode(k, s),
         UNCHANGED <<ofClient, power>>
  PROVE  IInv'
<1> DEFINE node == [wcmd[k][s] EXCEPT !.op = "get"]
<1>1. /\ Step(k, s, "add", "create")
      /\ cabinet' = [cabinet EXCEPT ![s] = Append(cabinet[s], node)]
      /\ UNCHANGED <<file, socket, wcmd, nodes, toServer, toClient>>
  BY DEF AddNode, net
<1>2. Types /\ ServerTypes
  BY DEF IInv, Types
<1>3. AtServer(k, s)
  BY DEF IInv, ConnectionInv
<1>4. /\ wpc[k][s] = "add" /\ wpc'[k][s] = "create"
      /\ wpc' \in [Clients -> [Servers -> Places]]
      /\ \A j \in Clients, r \in Servers : j # k \/ r # s => wpc'[j][r] = wpc[j][r]
  <2>1. "create" \in Places
    BY DEF Places
  <2>. QED  BY <1>1, <1>2, <2>1, MovedWorker
<1>5. wcmd[k][s] \in Full
  BY <1>3, <1>4 DEF AtServer, WorkerAt, PutPlaces
<1>6. node \in Full /\ Id(node) = Id(wcmd[k][s])
  BY <1>5 DEF Full, Ops, Id
<1> HIDE DEF node
<1>7. /\ cabinet \in [Servers -> Seq(Full)] /\ cabinet[s] \in Seq(Full)
      /\ Append(cabinet[s], node) \in Seq(Full)
  BY <1>2, <1>6 DEF ServerTypes
<1>8. /\ cabinet' \in [Servers -> Seq(Full)]
      /\ cabinet'[s] = Append(cabinet[s], node)
      /\ \A r \in Servers : r # s => cabinet'[r] = cabinet[r]
  BY <1>1, <1>7
<1>9. ServerTypes'
  BY <1>1, <1>2, <1>4, <1>8 DEF ServerTypes, power
<1>10. OneWorker(k, s)
  BY <1>1, <1>4, <1>8 DEF OneWorker
<1>11. AtServer(k, s)'
  <2>1. WorkerAt(k, s)
    BY <1>3 DEF AtServer
  <2>2. WorkerAt(k, s)'
    BY <1>1, <1>4, <1>5, <2>1 DEF WorkerAt, ofClient
  <2>3. /\ wpc[k][s] \notin {"none", "first", "closed"}
        /\ wpc'[k][s] \notin {"none", "first", "sendbody"}
    BY <1>4
  <2>4. UNCHANGED <<ofClient, toServer, toClient>>
    BY <1>1
  <2>. QED  BY <1>3, <2>2, <2>3, <2>4, AtServerMoved
<1>12. \A j \in Clients : FileAt(j, s)'
  <2> SUFFICES ASSUME NEW j \in Clients PROVE FileAt(j, s)'
    OBVIOUS
  <2>1. FileAt(j, s)
    BY DEF IInv, FileInv
  <2>2. j # k => wpc'[j][s] = wpc[j][s]
    BY <1>4
  <2>. QED  BY <1>1, <1>4, <2>1, <2>2 DEF FileAt
<1>13. SocketAfter(k, s)
  BY <1>1, <1>4 DEF SocketAfter, RecvPlaces
<1>14. \A j \in Clients : socket'[s] = j => wpc'[j][s] \in RecvPlaces
  BY <1>10, <1>13, SocketKept
<1>15. ASSUME NEW i \in DOMAIN cabinet'[s]
       PROVE  \/ Id(cabinet'[s][i]) \in DOMAIN file'[s]
              \/ \E j \in Clients : wpc'[j][s] = "create" /\ Id(wcmd'[j][s]) = Id(cabinet'[s][i])
  <2>1. \/ i \in DOMAIN cabinet[s] /\ cabinet'[s][i] = cabinet[s][i]
        \/ cabinet'[s][i] = node
    <3> DEFINE list == cabinet[s]
    <3>1. list \in Seq(Full) /\ cabinet'[s] = Append(list, node)
      BY <1>7, <1>8
    <3> HIDE DEF list
    <3>2. i \in 1..Len(list) + 1
      BY <3>1
    <3>3. CASE i = Len(list) + 1
      BY <3>1, <3>3
    <3>4. CASE i # Len(list) + 1
      BY <3>1, <3>2, <3>4 DEF list
    <3>. QED  BY <3>3, <3>4
  <2>2. CASE i \in DOMAIN cabinet[s] /\ cabinet'[s][i] = cabinet[s][i]
    <3>1. \/ Id(cabinet[s][i]) \in DOMAIN file[s]
          \/ \E j \in Clients : wpc[j][s] = "create" /\ Id(wcmd[j][s]) = Id(cabinet[s][i])
      BY <2>2 DEF IInv, NodesHaveChunks
    <3>2. \A j \in Clients : wpc[j][s] = "create" => wpc'[j][s] = "create"
      BY <1>4
    <3>. QED  BY <1>1, <2>2, <3>1, <3>2
  <2>3. CASE cabinet'[s][i] = node
    BY <1>1, <1>4, <1>6, <2>3
  <2>. QED  BY <2>1, <2>2, <2>3
<1>16. wpc'[k][s] \notin {"body", "rest"} /\ wpc[k][s] \notin {"none", "closed"}
  BY <1>4
<1>. QED  BY <1>9, <1>10, <1>11, <1>12, <1>14, <1>15, <1>16, WorkerKeeps

LEMMA CreateChunkKeeps ==
  ASSUME IInv, NEW k \in Clients, NEW s \in Servers, CreateChunk(k, s),
         UNCHANGED <<ofClient, power>>
  PROVE  IInv'
<1> DEFINE id == Id(wcmd[k][s])
           files == [x \in DOMAIN file[s] \cup {id} |-> IF x = id THEN <<>> ELSE file[s][x]]
<1>1. /\ Step(k, s, "create", "body")
      /\ file' = [file EXCEPT ![s] = files]
      /\ UNCHANGED <<cabinet, socket, wcmd, nodes, toServer, toClient>>
  BY DEF CreateChunk, net
<1>2. Types /\ ServerTypes
  BY DEF IInv, Types
<1>3. AtServer(k, s)
  BY DEF IInv, ConnectionInv
<1>4. /\ wpc[k][s] = "create" /\ wpc'[k][s] = "body"
      /\ wpc' \in [Clients -> [Servers -> Places]]
      /\ \A j \in Clients, r \in Servers : j # k \/ r # s => wpc'[j][r] = wpc[j][r]
  <2>1. "body" \in Places
    BY DEF Places
  <2>. QED  BY <1>1, <1>2, <2>1, MovedWorker
<1>5. wcmd[k][s] \in Full /\ id \in Ids
  <2>1. wcmd[k][s] \in Full
    BY <1>3, <1>4 DEF AtServer, WorkerAt, PutPlaces
  <2>. QED  BY <2>1 DEF Full, Id, Ids
<1>6. PICK I \in SUBSET Ids : file[s] \in [I -> Seq(Cells)]
  BY <1>2 DEF ServerTypes, Contents
<1>7. /\ files \in [I \cup {id} -> Seq(Cells)]
      /\ files[id] = <<>>
      /\ \A x \in I : x # id => files[x] = file[s][x]
  <2>1. <<>> \in Seq(Cells)
    OBVIOUS
  <2> HIDE DEF id
  <2>. QED  BY <1>6, <2>1
<1> HIDE DEF files
<1>8. files \in Contents
  <2>1. I \cup {id} \in SUBSET Ids
    BY <1>5, <1>6
  <2>. QED  BY <1>7, <2>1 DEF Contents
<1>9. /\ file' \in [Servers -> Contents] /\ file'[s] = files
      /\ \A r \in Servers : r # s => file'[r] = file[r]
  BY <1>1, <1>2, <1>8 DEF ServerTypes
<1>10. ServerTypes'
  BY <1>1, <1>2, <1>4, <1>9 DEF ServerTypes, power
<1>11. OneWorker(k, s)
  BY <1>1, <1>4, <1>9 DEF OneWorker
<1>12. AtServer(k, s)'
  <2>1. WorkerAt(k, s)
    BY <1>3 DEF AtServer
  <2>2. WorkerAt(k, s)'
    BY <1>1, <1>4, <1>5, <2>1 DEF WorkerAt, ofClient
  <2>3. /\ wpc[k][s] \notin {"none", "first", "closed"}
        /\ wpc'[k][s] \notin {"none", "first", "sendbody"}
    BY <1>4
  <2>4. UNCHANGED <<ofClient, toServer, toClient>>
    BY <1>1
  <2>. QED  BY <1>3, <2>2, <2>3, <2>4, AtServerMoved
<1>13. \A j \in Clients : j # k => ~Writing(j, s, wcmd[k][s].name)
  BY DEF CreateChunk, CanWrite
<1>14. \A j \in Clients : FileAt(j, s)'
  <2> SUFFICES ASSUME NEW j \in Clients PROVE FileAt(j, s)'
    OBVIOUS
  <2>1. FileAt(j, s)
    BY DEF IInv, FileInv
  <2>2. DOMAIN file[s] = I
    BY <1>6
  <2>3. CASE j = k
    BY <1>1, <1>4, <1>7, <1>9, <2>3 DEF FileAt
  <2>4. CASE j # k
    <3>1. wpc'[j][s] = wpc[j][s] /\ wcmd' = wcmd /\ nodes' = nodes
      BY <1>1, <1>4, <2>4
    <3>2. wpc[j][s] \in {"body", "rest"} => Id(wcmd[j][s]) # id
      BY <1>13, <2>4 DEF Writing, Id
    <3>. QED  BY <1>7, <1>9, <2>1, <2>2, <3>1, <3>2 DEF FileAt
  <2>. QED  BY <2>3, <2>4
<1>15. SocketAfter(k, s)
  BY <1>1, <1>4 DEF SocketAfter, RecvPlaces
<1>16. \A j \in Clients : socket'[s] = j => wpc'[j][s] \in RecvPlaces
  BY <1>11, <1>15, SocketKept
<1>17. ASSUME NEW i \in DOMAIN cabinet'[s]
       PROVE  \/ Id(cabinet'[s][i]) \in DOMAIN file'[s]
              \/ \E j \in Clients : wpc'[j][s] = "create" /\ Id(wcmd'[j][s]) = Id(cabinet'[s][i])
  <2>1. \/ Id(cabinet[s][i]) \in I
        \/ \E j \in Clients : wpc[j][s] = "create" /\ Id(wcmd[j][s]) = Id(cabinet[s][i])
    BY <1>1, <1>6 DEF IInv, NodesHaveChunks
  <2>2. \A j \in Clients : wpc[j][s] = "create" => j = k \/ wpc'[j][s] = "create"
    BY <1>4
  <2>. QED  BY <1>1, <1>7, <1>9, <2>1, <2>2
<1>18. \A j \in Clients : wpc[j][s] \in {"body", "rest"}
                          /\ wcmd'[k][s].name = wcmd[j][s].name => j = k
  BY <1>1, <1>13 DEF Writing
<1>19. wpc[k][s] \notin {"none", "closed"}
  BY <1>4
<1>. QED  BY <1>10, <1>11, <1>12, <1>14, <1>16, <1>17, <1>18, <1>19, WorkerKeeps

LEMMA ReceiveBodyKeeps ==
  ASSUME IInv, NEW k \in Clients, NEW s \in Servers, ReceiveBody(k, s),
         UNCHANGED <<ofClient, power>>
  PROVE  IInv'
<1> DEFINE id == Id(wcmd[k][s])
           size == Value(wcmd[k][s].size)
           n == size - Len(file[s][id])
           data == Taken(toServer[k][s], n)
           files == [file[s] EXCEPT ![id] = file[s][id] \o data]
           m == wpc'[k][s]
<1>1. /\ wpc[k][s] \in {"body", "rest"}
      /\ ServerReceives(k, s, n)
      /\ file' = [file EXCEPT ![s] = files]
      /\ UNCHANGED <<cabinet, wcmd, nodes>>
      /\ \/ data # <<>> /\ Step(k, s, "body", "rest")
         \/ data = <<>> /\ Step(k, s, "body", "next")
         \/ Step(k, s, "rest", "next")
  BY DEF ReceiveBody
<1>2. Types /\ ServerTypes
  BY DEF IInv, Types
<1>3. AtServer(k, s)
  BY DEF IInv, ConnectionInv
<1>4. wcmd[k][s] \in Full /\ size \in Nat
  <2>1. wcmd[k][s] \in Full
    BY <1>1, <1>3 DEF AtServer, WorkerAt, PutPlaces
  <2>2. wcmd[k][s].size \in Sizes
    BY <2>1 DEF Full
  <2>. QED  BY <2>1, <2>2, ValueType
<1>5. PICK I \in SUBSET Ids : file[s] \in [I -> Seq(Cells)]
  BY <1>2 DEF ServerTypes, Contents
<1>6. /\ id \in I /\ Len(file[s][id]) =< size
      /\ wpc[k][s] = "body" => file[s][id] = <<>>
  <2>1. FileAt(k, s)
    BY DEF IInv, FileInv
  <2>2. DOMAIN file[s] = I
    BY <1>5
  <2>3. wpc[k][s] = "body" => id \in I /\ file[s][id] = <<>>
    BY <2>1, <2>2 DEF FileAt
  <2>4. wpc[k][s] = "rest" => id \in I /\ Len(file[s][id]) =< size
    BY <2>1, <2>2 DEF FileAt
  <2>5. Len(<<>>) =< size
    BY <1>4
  <2> HIDE DEF id, size
  <2>. QED  BY <1>1, <2>3, <2>4, <2>5
<1>7. file[s][id] \in Seq(Cells) /\ Len(file[s][id]) \in Nat
  <2> HIDE DEF id
  <2>. QED  BY <1>5, <1>6
<1> HIDE DEF size
<1>8. n \in Nat
  BY <1>4, <1>6, <1>7
<1>9. toServer[k][s] \in Seq(Cells)
  <2>1. wpc[k][s] \notin {"none", "first", "closed"}
    BY <1>1
  <2>. QED  BY <1>2, <1>3, <2>1, StreamOfCells
<1>10. data \in Seq(Cells) /\ Len(data) =< n /\ Len(data) \in Nat
  <2> HIDE DEF n
  <2>1. data \in Seq(Cells) /\ Len(data) =< n
    BY <1>8, <1>9, Receive
  <2> HIDE DEF data
  <2>. QED  BY <2>1
<1>11. /\ wpc' \in [Clients -> [Servers -> Places]]
       /\ \A j \in Clients, r \in Servers : j # k \/ r # s => wpc'[j][r] = wpc[j][r]
       /\ \/ m = "rest" /\ wpc[k][s] = "body"
          \/ m = "next"
  <2>1. "rest" \in Places /\ "next" \in Places
    BY DEF Places
  <2>2. CASE Step(k, s, "body", "rest")
    BY <1>2, <2>1, <2>2, MovedWorker
  <2>3. CASE Step(k, s, "body", "next")
    BY <1>2, <2>1, <2>3, MovedWorker
  <2>4. CASE Step(k, s, "rest", "next")
    BY <1>2, <2>1, <2>4, MovedWorker
  <2>. QED  BY <1>1, <2>2, <2>3, <2>4
<1>12. /\ toServer' \in [Clients -> [Servers -> Seq(AnyCells)]]
       /\ toServer'[k][s] = Remaining(toServer[k][s], n)
       /\ \A j \in Clients, r \in Servers : j # k \/ r # s => toServer'[j][r] = toServer[j][r]
       /\ socket' \in [Servers -> Clients \cup {None}]
       /\ socket'[s] = None /\ \A r \in Servers : r # s => socket'[r] = socket[r]
       /\ toClient' = toClient
  <2> HIDE DEF n
  <2>. QED  BY <1>1, <1>2, <1>8, ServerReceived
<1>13. /\ files \in [I -> Seq(Cells)]
       /\ files[id] = file[s][id] \o data
       /\ \A x \in I : x # id => files[x] = file[s][x]
  <2> HIDE DEF id, data
  <2>1. file[s][id] \o data \in Seq(Cells)
    BY <1>7, <1>10
  <2>. QED  BY <1>5, <1>6, <2>1
<1> HIDE DEF files
<1>14. /\ file' \in [Servers -> Contents] /\ file'[s] = files
       /\ \A r \in Servers : r # s => file'[r] = file[r]
  <2>1. files \in Contents
    BY <1>5, <1>13 DEF Contents
  <2>. QED  BY <1>1, <1>2, <2>1 DEF ServerTypes
<1> HIDE DEF n, data, id, m
<1>15. ServerTypes'
  BY <1>1, <1>2, <1>11, <1>12, <1>14 DEF ServerTypes, power
<1>16. OneWorker(k, s)
  <2>1. wcmd' = wcmd /\ nodes' = nodes /\ cabinet' = cabinet
    BY <1>1
  <2>. QED  BY <2>1, <1>11, <1>12, <1>14 DEF OneWorker
<1>17. AtServer(k, s)'
  <2>1. m \notin {"none", "first", "sendbody", "send", "closed"} /\ m = wpc'[k][s]
    BY <1>11 DEF m
  <2>2. PutAt(k, s)'
    <3>1. toServer'[k][s] \in Seq(Cells)
      BY <1>8, <1>9, <1>12, ReceiveType
    <3>. QED  BY <2>1, <3>1 DEF PutAt
  <2>3. GetAt(k, s)'
    <3> SUFFICES ASSUME cmd[k].op # "put"
                 PROVE  toServer'[k][s] = <<>> /\ ~Unasked(k, s)
      BY DEF GetAt, ofClient, Unasked
    <3>1. GetAt(k, s)
      BY <1>3 DEF AtServer
    <3>2. toServer[k][s] = <<>> /\ ~Unasked(k, s)
      BY <1>1, <3>1 DEF GetAt
    <3>3. Len(toServer[k][s]) =< n
      BY <1>8, <3>2
    <3>4. Remaining(toServer[k][s], n) = <<>>
      BY <1>8, <1>9, <3>3, ReceiveAll
    <3>. QED  BY <1>12, <3>2, <3>4
  <2>4. ReplyAt(k, s)'
    BY <1>3, <1>12, <2>1 DEF AtServer, ReplyAt, ofClient
  <2>5. WorkerAt(k, s)'
    <3>1. WorkerAt(k, s)
      BY <1>3 DEF AtServer
    <3>2. pc[k] \notin {"start", "refused"}
      BY <1>1, <3>1 DEF WorkerAt
    <3>3. wcmd' = wcmd /\ nodes' = nodes /\ pc' = pc
      BY <1>1 DEF ofClient
    <3>. QED  BY <1>4, <2>1, <3>1, <3>2, <3>3 DEF WorkerAt
  <2>. QED  BY <2>2, <2>3, <2>4, <2>5 DEF AtServer
<1>18. \A j \in Clients : wpc[j][s] \in {"body", "rest"}
                          /\ wcmd[k][s].name = wcmd[j][s].name => j = k
  BY <1>1 DEF IInv, LockInv
<1>19. \A j \in Clients : FileAt(j, s)'
  <2> SUFFICES ASSUME NEW j \in Clients PROVE FileAt(j, s)'
    OBVIOUS
  <2>1. FileAt(j, s)
    BY DEF IInv, FileInv
  <2>2. DOMAIN file[s] = I /\ DOMAIN files = I /\ file'[s] = files
    BY <1>5, <1>13, <1>14
  <2>3. wcmd' = wcmd /\ nodes' = nodes
    BY <1>1
  <2>4. CASE j = k
    <3>1. m = "next" => FileAt(k, s)'
      BY DEF FileAt, m
    <3>2. ASSUME m = "rest", wpc[k][s] = "body"
          PROVE  Len(files[id]) =< size
      <4>1. files[id] = data
        BY <1>6, <1>10, <1>13, <3>2
      <4>2. n = size
        BY <1>4, <1>6, <3>2 DEF n
      <4>. QED  BY <1>10, <4>1, <4>2
    <3>3. m = "rest" => FileAt(k, s)'
      BY <1>6, <1>11, <2>2, <2>3, <3>2 DEF FileAt, m, id, size
    <3>. QED  BY <1>11, <2>4, <3>1, <3>3
  <2>5. CASE j # k
    <3>1. wpc'[j][s] = wpc[j][s]
      BY <1>11, <2>5
    <3>2. wpc[j][s] \in {"body", "rest"} => Id(wcmd[j][s]) # id
      BY <1>18, <2>5 DEF Id, id
    <3>. QED  BY <1>13, <2>1, <2>2, <2>3, <3>1, <3>2 DEF FileAt
  <2>. QED  BY <2>4, <2>5
<1>20. SocketAfter(k, s)
  BY <1>12 DEF SocketAfter
<1>21. \A j \in Clients : socket'[s] = j => wpc'[j][s] \in RecvPlaces
  BY <1>16, <1>20, SocketKept
<1>22. ASSUME NEW i \in DOMAIN cabinet'[s]
       PROVE  \/ Id(cabinet'[s][i]) \in DOMAIN file'[s]
              \/ \E j \in Clients : wpc'[j][s] = "create" /\ Id(wcmd'[j][s]) = Id(cabinet'[s][i])
  <2>1. \/ Id(cabinet[s][i]) \in I
        \/ \E j \in Clients : wpc[j][s] = "create" /\ Id(wcmd[j][s]) = Id(cabinet[s][i])
    BY <1>1, <1>5 DEF IInv, NodesHaveChunks
  <2>2. \A j \in Clients : wpc[j][s] = "create" => wpc'[j][s] = "create"
    BY <1>1, <1>11
  <2>3. DOMAIN file'[s] = I /\ cabinet' = cabinet /\ wcmd' = wcmd
    BY <1>1, <1>13, <1>14
  <2>. QED  BY <2>1, <2>2, <2>3
<1>23. wpc[k][s] \notin {"none", "closed"} /\ wcmd' = wcmd
  BY <1>1
<1>. QED  BY <1>15, <1>16, <1>17, <1>18, <1>19, <1>21, <1>22, <1>23, WorkerKeeps

(* The newest of some nodes is one of them.                                *)
LEMMA NewestIsNode ==
  ASSUME NEW S, NEW list \in Seq(S), NEW I, I \subseteq DOMAIN list, I # {}
  PROVE  Max(I) \in I /\ NewestOf(list, I) \in S
<1>1. Len(list) \in Nat /\ I \subseteq 1..Len(list)
  OBVIOUS
<1>2. Max(I) \in I
  BY <1>1, MaxOfIndices
<1>3. Max(I) \in DOMAIN list
  BY <1>2
<1>. QED  BY <1>2, <1>3 DEF NewestOf

LEMMA FindKeeps ==
  ASSUME IInv, NEW k \in Clients, NEW s \in Servers, Find(k, s), UNCHANGED <<ofClient, power>>
  PROVE  IInv'
<1> DEFINE n == wcmd[k][s].name
           found == {i \in DOMAIN cabinet[s] : cabinet[s][i].name = n}
           first == NewestOf(cabinet[s], found)
           others == {i \in found : cabinet[s][i].chunk # first.chunk}
           two == <<first, NewestOf(cabinet[s], others)>>
           m == wpc'[k][s]
<1>1. /\ \/ /\ found # {} /\ others # {}
            /\ nodes' = [nodes EXCEPT ![k][s] = two]
            /\ Step(k, s, "find", "send")
         \/ /\ Step(k, s, "find", "closed")
            /\ UNCHANGED nodes
      /\ UNCHANGED <<cabinet, file, socket, wcmd, toServer, toClient>>
  BY DEF Find, net
<1>2. Types /\ ServerTypes
  BY DEF IInv, Types
<1>3. AtServer(k, s) /\ WorkerAt(k, s)
  BY DEF IInv, ConnectionInv, AtServer
<1>4. found # {} /\ others # {} => two \in Seq(Full) /\ Len(two) = 2 /\ two # <<>>
  <2> SUFFICES ASSUME found # {}, others # {}
               PROVE  two \in Seq(Full) /\ Len(two) = 2 /\ two # <<>>
    OBVIOUS
  <2>1. cabinet[s] \in Seq(Full)
    BY <1>2 DEF ServerTypes
  <2>2. found \subseteq DOMAIN cabinet[s] /\ others \subseteq DOMAIN cabinet[s]
    OBVIOUS
  <2> HIDE DEF found, others
  <2>3. first \in Full /\ NewestOf(cabinet[s], others) \in Full
    BY <2>1, <2>2, NewestIsNode
  <2> HIDE DEF first
  <2>. QED  BY <2>3
<1> HIDE DEF found, others, two
<1>5. /\ wpc' \in [Clients -> [Servers -> Places]]
      /\ \A j \in Clients, r \in Servers : j # k \/ r # s => wpc'[j][r] = wpc[j][r]
      /\ wpc[k][s] = "find"
      /\ \/ m = "send" /\ found # {} /\ others # {}
            /\ nodes' = [nodes EXCEPT ![k][s] = two]
         \/ m = "closed" /\ nodes' = nodes
  <2>1. "send" \in Places /\ "closed" \in Places
    BY DEF Places
  <2>2. CASE /\ found # {} /\ others # {}
             /\ nodes' = [nodes EXCEPT ![k][s] = two]
             /\ Step(k, s, "find", "send")
    BY <1>2, <2>1, <2>2, MovedWorker
  <2>3. CASE Step(k, s, "find", "closed") /\ UNCHANGED nodes
    BY <1>2, <2>1, <2>3, MovedWorker
  <2>. QED  BY <1>1, <2>2, <2>3
<1>6. /\ nodes' \in [Clients -> [Servers -> Seq(Full)]]
      /\ Len(nodes'[k][s]) =< 2
      /\ m = "send" => nodes'[k][s] # <<>>
      /\ \A j \in Clients, r \in Servers : j # k \/ r # s => nodes'[j][r] = nodes[j][r]
  <2>1. nodes \in [Clients -> [Servers -> Seq(Full)]] /\ Len(nodes[k][s]) =< 2
    BY <1>2, <1>3 DEF ServerTypes, WorkerAt
  <2>2. CASE m = "send"
    <3>1. two \in Seq(Full) /\ nodes' = [nodes EXCEPT ![k][s] = two]
      BY <1>4, <1>5, <2>2
    <3>2. /\ nodes' \in [Clients -> [Servers -> Seq(Full)]] /\ nodes'[k][s] = two
          /\ \A j \in Clients, r \in Servers : j # k \/ r # s => nodes'[j][r] = nodes[j][r]
      BY <2>1, <3>1, Update
    <3>3. Len(two) =< 2 /\ two # <<>>
      <4>1. found # {} /\ others # {}
        BY <1>5, <2>2
      <4>2. Len(two) = 2 /\ two # <<>>
        BY <1>4, <4>1
      <4>. QED  BY <4>2
    <3>. QED  BY <3>2, <3>3
  <2>3. CASE m = "closed"
    BY <1>5, <2>1, <2>3
  <2>. QED  BY <1>5, <2>2, <2>3
<1>7. ServerTypes'
  BY <1>1, <1>2, <1>5, <1>6 DEF ServerTypes, power
<1>8. OneWorker(k, s)
  BY <1>1, <1>5, <1>6 DEF OneWorker
<1>9. AtServer(k, s)'
  <2>1. pc[k] \notin {"start", "refused"} /\ pc' = pc
    BY <1>3, <1>5 DEF WorkerAt, ofClient
  <2>2. WorkerAt(k, s)'
    BY <1>5, <1>6, <2>1 DEF WorkerAt, PutPlaces
  <2>3. UNCHANGED <<ofClient, toServer, toClient>>
    BY <1>1
  <2>4. m \notin {"none", "first", "sendbody"}
    BY <1>5
  <2>5. wpc[k][s] \notin {"none", "first", "closed"}
    BY <1>5
  <2>. QED  BY <1>3, <2>2, <2>3, <2>4, <2>5, AtServerMoved
<1>10. FileAt(k, s)'
  BY <1>5 DEF FileAt
<1>11. SocketAfter(k, s)
  BY <1>1, <1>5 DEF SocketAfter, RecvPlaces
<1>. QED  BY <1>1, <1>5, <1>7, <1>8, <1>9, <1>10, <1>11, QuietWorker

(* A node has been sent: what comes next, if anything.                     *)
LEMMA NodeWasSent ==
  ASSUME Types, NEW k \in Clients, NEW s \in Servers, NEW l, NodeSent(k, s, l),
         nodes[k][s] # <<>>, Len(nodes[k][s]) =< 2
  PROVE  /\ wpc[k][s] = l
         /\ wpc' \in [Clients -> [Servers -> Places]]
         /\ wpc'[k][s] \in {"send", "closed"}
         /\ wpc'[k][s] = "send" => nodes'[k][s] # <<>>
         /\ \A j \in Clients, r \in Servers : j # k \/ r # s => wpc'[j][r] = wpc[j][r]
         /\ nodes' \in [Clients -> [Servers -> Seq(Full)]]
         /\ Len(nodes'[k][s]) =< 2
         /\ \A j \in Clients, r \in Servers : j # k \/ r # s => nodes'[j][r] = nodes[j][r]
<1>1. /\ nodes \in [Clients -> [Servers -> Seq(Full)]]
      /\ nodes' = [nodes EXCEPT ![k][s] = Tail(nodes[k][s])]
  BY DEF Types, ServerTypes, NodeSent
<1>2. Tail(nodes[k][s]) \in Seq(Full) /\ Len(Tail(nodes[k][s])) =< 2
  <2> DEFINE list == nodes[k][s]
  <2>1. list \in Seq(Full) /\ list # <<>> /\ Len(list) =< 2
    BY <1>1
  <2> HIDE DEF list
  <2>2. Tail(list) \in Seq(Full) /\ Len(Tail(list)) = Len(list) - 1
    BY <2>1, HeadTailProperties
  <2>. QED  BY <2>1, <2>2 DEF list
<1>3. /\ nodes' \in [Clients -> [Servers -> Seq(Full)]]
      /\ nodes'[k][s] = Tail(nodes[k][s])
      /\ \A j \in Clients, r \in Servers : j # k \/ r # s => nodes'[j][r] = nodes[j][r]
  BY <1>1, <1>2, Update
<1> DEFINE m == IF nodes'[k][s] = <<>> THEN "closed" ELSE "send"
<1>4. Step(k, s, l, m) /\ m \in Places
  BY DEF NodeSent, Places
<1>5. m \in {"send", "closed"} /\ (m = "send" => nodes'[k][s] # <<>>)
  OBVIOUS
<1> HIDE DEF m
<1>6. /\ wpc[k][s] = l /\ wpc'[k][s] = m
      /\ wpc' \in [Clients -> [Servers -> Places]]
      /\ \A j \in Clients, r \in Servers : j # k \/ r # s => wpc'[j][r] = wpc[j][r]
  BY <1>4, MovedWorker
<1>. QED  BY <1>2, <1>3, <1>5, <1>6

(* Steps that send cells to a client.                                      *)
LEMMA AtServerSent ==
  ASSUME IInv, NEW k \in Clients, NEW s \in Servers, UNCHANGED <<ofClient, toServer>>,
         wpc[k][s] \in {"send", "sendbody"}, wpc'[k][s] \in {"send", "sendbody", "closed"},
         reply[k] \notin Full => Begins(toClient'[k][s], Full),
         Len(nodes'[k][s]) =< 2,
         wpc'[k][s] \in {"send", "sendbody"} => nodes'[k][s] # <<>>
  PROVE  AtServer(k, s)'
<1>1. AtServer(k, s)
  BY DEF IInv, ConnectionInv
<1>2. PutAt(k, s)'
  BY <1>1 DEF AtServer, PutAt, ofClient
<1>3. GetAt(k, s)'
  <2>1. GetAt(k, s)
    BY <1>1 DEF AtServer
  <2>2. cmd[k].op # "put" => toServer[k][s] = <<>> /\ ~Unasked(k, s)
    BY <2>1 DEF GetAt
  <2>3. Unasked(k, s)' = Unasked(k, s) /\ cmd' = cmd /\ toServer' = toServer
    BY DEF ofClient, Unasked
  <2>. QED  BY <2>2, <2>3 DEF GetAt
<1>4. ReplyAt(k, s)'
  BY DEF ReplyAt, ofClient
<1>5. WorkerAt(k, s)'
  <2>1. pc[k] \notin {"start", "refused"} /\ pc' = pc
    BY <1>1 DEF AtServer, WorkerAt, ofClient
  <2>. QED  BY <2>1 DEF WorkerAt, PutPlaces
<1>. QED  BY <1>2, <1>3, <1>4, <1>5 DEF AtServer

LEMMA SendHeaderKeeps ==
  ASSUME IInv, NEW k \in Clients, NEW s \in Servers, SendHeader(k, s),
         UNCHANGED <<ofClient, power>>
  PROVE  IInv'
<1> DEFINE n == nodes[k][s][1]
           c == Fields(wcmd[k][s], n)
           m == wpc'[k][s]
<1>1. /\ wpc[k][s] = "send"
      /\ wcmd' = [wcmd EXCEPT ![k][s] = c]
      /\ ServerSends(k, s, HeaderCells(wcmd'[k][s]))
      /\ \/ Id(n) \in DOMAIN file[s] /\ Step(k, s, "send", "sendbody") /\ UNCHANGED nodes
         \/ NodeSent(k, s, "send")
      /\ UNCHANGED <<cabinet, file>>
  BY DEF SendHeader
<1>2. Types /\ ServerTypes
  BY DEF IInv, Types
<1>3. AtServer(k, s) /\ WorkerAt(k, s)
  BY DEF IInv, ConnectionInv, AtServer
<1>4. /\ nodes[k][s] \in Seq(Full) /\ nodes[k][s] # <<>> /\ Len(nodes[k][s]) =< 2
      /\ nodes \in [Clients -> [Servers -> Seq(Full)]]
  BY <1>1, <1>2, <1>3 DEF ServerTypes, WorkerAt
<1>5. n \in Full
  <2> DEFINE list == nodes[k][s]
  <2>1. list \in Seq(Full) /\ list # <<>>
    BY <1>4
  <2> HIDE DEF list
  <2>2. 1 \in DOMAIN list
    BY <2>1
  <2>3. list[1] \in Full
    BY <2>1, <2>2
  <2>. QED  BY <2>3 DEF list
<1>6. c \in Full
  <2>1. wcmd[k][s] \in Cmds
    BY <1>2 DEF ServerTypes, Good
  <2> HIDE DEF n
  <2>. QED  BY <1>5, <2>1, FieldsFull
<1> HIDE DEF c
<1>7. /\ wcmd' \in [Clients -> [Servers -> Good]] /\ wcmd'[k][s] = c
      /\ \A j \in Clients, r \in Servers : j # k \/ r # s => wcmd'[j][r] = wcmd[j][r]
  <2>1. wcmd \in [Clients -> [Servers -> Good]] /\ c \in Good
    BY <1>2, <1>6, FullIsGood DEF ServerTypes
  <2>. QED  BY <1>1, <2>1, Update
<1>8. /\ HeaderCells(c) \in Seq(Cells) /\ Begins(HeaderCells(c), Full)
      /\ ServerSends(k, s, HeaderCells(c))
  BY <1>1, <1>6, <1>7, HeaderType
<1>9. /\ toClient' \in [Clients -> [Servers -> Seq(Cells)]]
      /\ toClient'[k][s] = toClient[k][s] \o HeaderCells(c)
      /\ \A j \in Clients, r \in Servers : j # k \/ r # s => toClient'[j][r] = toClient[j][r]
      /\ socket[s] = None /\ socket' = socket /\ toServer' = toServer
  BY <1>2, <1>8, ServerSent
<1>10. /\ wpc' \in [Clients -> [Servers -> Places]]
       /\ \A j \in Clients, r \in Servers : j # k \/ r # s => wpc'[j][r] = wpc[j][r]
       /\ nodes' \in [Clients -> [Servers -> Seq(Full)]]
       /\ \A j \in Clients, r \in Servers : j # k \/ r # s => nodes'[j][r] = nodes[j][r]
       /\ Len(nodes'[k][s]) =< 2
       /\ \/ m = "sendbody" /\ nodes'[k][s] = nodes[k][s] /\ Id(n) \in DOMAIN file[s]
          \/ m \in {"send", "closed"} /\ (m = "send" => nodes'[k][s] # <<>>)
  <2>1. CASE Id(n) \in DOMAIN file[s] /\ Step(k, s, "send", "sendbody") /\ UNCHANGED nodes
    <3>1. "sendbody" \in Places /\ Types /\ Step(k, s, "send", "sendbody")
      BY <1>2, <2>1 DEF Places
    <3>2. /\ wpc' \in [Clients -> [Servers -> Places]] /\ m = "sendbody"
          /\ \A j \in Clients, r \in Servers : j # k \/ r # s => wpc'[j][r] = wpc[j][r]
      BY <3>1, MovedWorker
    <3>. QED  BY <1>4, <2>1, <3>2
  <2>2. CASE NodeSent(k, s, "send")
    BY <1>2, <1>4, <2>2, NodeWasSent
  <2>. QED  BY <1>1, <2>1, <2>2
<1>11. ServerTypes'
  BY <1>1, <1>2, <1>7, <1>9, <1>10 DEF ServerTypes, power
<1>12. OneWorker(k, s)
  <2>1. cabinet' = cabinet /\ file' = file /\ socket' = socket /\ toServer' = toServer
    BY <1>1, <1>9
  <2>. QED  BY <1>7, <1>9, <1>10, <2>1 DEF OneWorker
<1>13. reply[k] \notin Full => Begins(toClient'[k][s], Full)
  <2> DEFINE stream == toClient[k][s]
  <2>1. stream \in Seq(Cells)
    BY <1>2 DEF ServerTypes
  <2>2. reply[k] \notin Full => stream = <<>> \/ Begins(stream, Full)
    BY <1>3 DEF AtServer, ReplyAt
  <2> HIDE DEF stream
  <2>3. ASSUME stream = <<>> PROVE stream \o HeaderCells(c) = HeaderCells(c)
    BY <1>8, <2>3
  <2>4. ASSUME Begins(stream, Full) PROVE Begins(stream \o HeaderCells(c), Full)
    BY <1>8, <2>1, <2>4, BeginsMore
  <2>5. toClient'[k][s] = stream \o HeaderCells(c)
    BY <1>9 DEF stream
  <2>. QED  BY <1>8, <2>2, <2>3, <2>4, <2>5
<1>14. AtServer(k, s)'
  <2>1. UNCHANGED <<ofClient, toServer>>
    BY <1>9
  <2>2. wpc[k][s] \in {"send", "sendbody"} /\ m \in {"send", "sendbody", "closed"}
    BY <1>1, <1>10
  <2>3. m \in {"send", "sendbody"} => nodes'[k][s] # <<>>
    BY <1>4, <1>10
  <2>. QED  BY <1>10, <1>13, <2>1, <2>2, <2>3, AtServerSent
<1>15. FileAt(k, s)'
  BY <1>1, <1>10 DEF FileAt
<1>16. SocketAfter(k, s)
  BY <1>1, <1>9 DEF SocketAfter, RecvPlaces
<1>17. wpc[k][s] \notin {"none", "closed", "create"} /\ m \notin {"body", "rest"}
  BY <1>1, <1>10
<1>. QED  BY <1>1, <1>11, <1>12, <1>14, <1>15, <1>16, <1>17, QuietWorker

LEMMA SendBodyKeeps ==
  ASSUME IInv, NEW k \in Clients, NEW s \in Servers, SendBody(k, s),
         UNCHANGED <<ofClient, power>>
  PROVE  IInv'
<1> DEFINE id == Id(nodes[k][s][1])
           content == file[s][id]
           m == wpc'[k][s]
<1>1. /\ wpc[k][s] = "sendbody"
      /\ NodeSent(k, s, "sendbody")
      /\ ServerSends(k, s, Block(content))
      /\ UNCHANGED <<cabinet, file, wcmd>>
  BY DEF SendBody
<1>2. Types /\ ServerTypes
  BY DEF IInv, Types
<1>3. AtServer(k, s) /\ WorkerAt(k, s)
  BY DEF IInv, ConnectionInv, AtServer
<1>4. nodes[k][s] # <<>> /\ Len(nodes[k][s]) =< 2
  BY <1>1, <1>3 DEF WorkerAt
<1>5. content \in Seq(Cells)
  <2>1. id \in DOMAIN file[s]
    BY <1>1 DEF IInv, FileInv, FileAt
  <2>2. PICK I \in SUBSET Ids : file[s] \in [I -> Seq(Cells)]
    BY <1>2 DEF ServerTypes, Contents
  <2> HIDE DEF id
  <2>. QED  BY <2>1, <2>2
<1> HIDE DEF content
<1>6. Block(content) \in Seq(Cells)
  BY <1>5, BlockType
<1>7. /\ toClient' \in [Clients -> [Servers -> Seq(Cells)]]
      /\ toClient'[k][s] = toClient[k][s] \o Block(content)
      /\ \A j \in Clients, r \in Servers : j # k \/ r # s => toClient'[j][r] = toClient[j][r]
      /\ socket[s] = None /\ socket' = socket /\ toServer' = toServer
  BY <1>1, <1>2, <1>6, ServerSent
<1>8. /\ wpc' \in [Clients -> [Servers -> Places]]
      /\ \A j \in Clients, r \in Servers : j # k \/ r # s => wpc'[j][r] = wpc[j][r]
      /\ nodes' \in [Clients -> [Servers -> Seq(Full)]]
      /\ \A j \in Clients, r \in Servers : j # k \/ r # s => nodes'[j][r] = nodes[j][r]
      /\ Len(nodes'[k][s]) =< 2
      /\ m \in {"send", "closed"} /\ (m = "send" => nodes'[k][s] # <<>>)
  BY <1>1, <1>2, <1>4, NodeWasSent
<1>9. ServerTypes'
  BY <1>1, <1>2, <1>7, <1>8 DEF ServerTypes, power
<1>10. OneWorker(k, s)
  <2>1. /\ cabinet' = cabinet /\ file' = file /\ socket' = socket /\ toServer' = toServer
        /\ wcmd' = wcmd
    BY <1>1, <1>7
  <2>. QED  BY <1>7, <1>8, <2>1 DEF OneWorker
<1>11. reply[k] \notin Full => Begins(toClient'[k][s], Full)
  <2> DEFINE stream == toClient[k][s]
  <2>1. stream \in Seq(Cells)
    BY <1>2 DEF ServerTypes
  <2>2. reply[k] \notin Full => Begins(stream, Full)
    BY <1>1, <1>3 DEF AtServer, ReplyAt
  <2> HIDE DEF stream
  <2>3. ASSUME Begins(stream, Full) PROVE Begins(stream \o Block(content), Full)
    BY <1>6, <2>1, <2>3, BeginsMore
  <2>4. toClient'[k][s] = stream \o Block(content)
    BY <1>7 DEF stream
  <2>. QED  BY <2>2, <2>3, <2>4
<1>12. AtServer(k, s)'
  <2>1. UNCHANGED <<ofClient, toServer>>
    BY <1>7
  <2>2. wpc[k][s] \in {"send", "sendbody"} /\ m \in {"send", "sendbody", "closed"}
    BY <1>1, <1>8
  <2>3. m \in {"send", "sendbody"} => nodes'[k][s] # <<>>
    BY <1>8
  <2>. QED  BY <1>8, <1>11, <2>1, <2>2, <2>3, AtServerSent
<1>13. FileAt(k, s)'
  BY <1>8 DEF FileAt
<1>14. SocketAfter(k, s)
  BY <1>1, <1>7 DEF SocketAfter, RecvPlaces
<1>15. wpc[k][s] \notin {"none", "closed", "create"} /\ m \notin {"body", "rest"}
  BY <1>1, <1>8
<1>. QED  BY <1>1, <1>9, <1>10, <1>12, <1>13, <1>14, <1>15, QuietWorker

LEMMA WorkerKeepsIInv ==
  ASSUME IInv, NEW k \in Clients, NEW s \in Servers, Worker(k, s)
  PROVE  IInv'
<1>1. UNCHANGED <<ofClient, power>>
  BY DEF Worker
<1>. QED
  BY <1>1, WaitKeeps, ReceiveFirstKeeps, ReceiveNextKeeps, AddNodeKeeps, CreateChunkKeeps,
     ReceiveBodyKeeps, FindKeeps, SendHeaderKeeps, SendBodyKeeps DEF Worker
-----------------------------------------------------------------------------
(* The initial state, and servers that stop.                               *)
LEMMA BlankIsGood == Blank \in Cmds /\ Blank \in Good /\ Blank.op = "" /\ Blank.size = <<>>
<1>1. <<>> \in Sizes
  BY DEF Sizes
<1>. QED  BY <1>1 DEF Blank, Cmds, Ops, Good

LEMMA InitTypes ==
  ASSUME Init
  PROVE  Types
<1>1. ClientTypes
  <2>1. \A k \in Clients : (IF cmd[k].op = "none" THEN "done" ELSE "start") \in Pcs
    BY DEF Pcs
  <2>2. <<>> \in Seq(Cells \ {<<"nul">>})
    OBVIOUS
  <2>3. pc \in [Clients -> Pcs]
    BY <2>1 DEF Init
  <2>4. reply \in [Clients -> Good] /\ got \in [Clients -> Seq(Cells \ {<<"nul">>})]
    BY <2>2, BlankIsGood DEF Init
  <2>5. /\ cmd \in Jobs /\ sent \in [Clients -> Nat] /\ asked \in [Clients -> {0, 2}]
        /\ left \in [Clients -> Nat] /\ late \in [Clients -> BOOLEAN]
        /\ fresh \in [Clients -> SUBSET Versions]
    BY DEF Init
  <2>. QED  BY <2>3, <2>4, <2>5 DEF ClientTypes
<1>2. ASSUME NEW s \in Servers
      PROVE  [id \in {Id(NodesBefore(s)[i]) : i \in DOMAIN NodesBefore(s)} |->
                Body(id[1], id[2], id[3])] \in Contents
  <2> DEFINE list == NodesBefore(s)
             I == {Id(list[i]) : i \in DOMAIN list}
  <2>1. list \in Seq(Full)
    BY NodesBeforeType
  <2> HIDE DEF list
  <2>2. ASSUME NEW i \in DOMAIN list PROVE Id(list[i]) \in Ids
    <3>1. list[i] \in Full
      BY <2>1
    <3>. QED  BY <3>1 DEF Full, Id, Ids
  <2>3. I \in SUBSET Ids
    BY <2>2
  <2> HIDE DEF I
  <2>4. \A id \in I : Body(id[1], id[2], id[3]) \in Seq(Cells)
    <3> SUFFICES ASSUME NEW id \in I PROVE Body(id[1], id[2], id[3]) \in Seq(Cells)
      OBVIOUS
    <3>1. id[1] \in Names /\ id[2] \in Versions /\ id[3] \in Chunks
      BY <2>3 DEF Ids
    <3>. QED  BY <3>1, BodyType
  <2>5. [id \in I |-> Body(id[1], id[2], id[3])] \in Contents
    BY <2>3, <2>4 DEF Contents
  <2>. QED  BY <2>5 DEF I, list
<1>3. ServerTypes
  <2>1. "none" \in Places
    BY DEF Places
  <2>2. file \in [Servers -> Contents]
    BY <1>2 DEF Init
  <2>3. cabinet \in [Servers -> Seq(Full)]
    BY NodesBeforeType DEF Init
  <2>4. /\ wpc \in [Clients -> [Servers -> Places]]
        /\ wcmd \in [Clients -> [Servers -> Good]]
        /\ nodes \in [Clients -> [Servers -> Seq(Full)]]
        /\ toServer \in [Clients -> [Servers -> Seq(AnyCells)]]
        /\ toClient \in [Clients -> [Servers -> Seq(Cells)]]
    <3>1. <<>> \in Seq(Full) /\ <<>> \in Seq(AnyCells) /\ <<>> \in Seq(Cells)
      OBVIOUS
    <3>2. /\ wpc = [k \in Clients |-> [s \in Servers |-> "none"]]
          /\ wcmd = [k \in Clients |-> [s \in Servers |-> Blank]]
          /\ nodes = [k \in Clients |-> [s \in Servers |-> <<>>]]
          /\ toServer = [k \in Clients |-> [s \in Servers |-> <<>>]]
          /\ toClient = [k \in Clients |-> [s \in Servers |-> <<>>]]
      BY DEF Init
    <3>3. Blank \in Good
      BY BlankIsGood
    <3>. QED  BY <2>1, <3>1, <3>2, <3>3
  <2>5. up \in [Servers -> BOOLEAN] /\ socket \in [Servers -> Clients \cup {None}]
    BY DEF Init
  <2>. QED  BY <2>2, <2>3, <2>4, <2>5 DEF ServerTypes
<1>. QED  BY <1>1, <1>3 DEF Types

LEMMA InitKeeps ==
  ASSUME Init
  PROVE  IInv
<1>1. \A k \in Clients : /\ pc[k] \in {"start", "done"} /\ sent[k] = 0 /\ reply[k] = Blank
                         /\ \A s \in Servers :
                              /\ wpc[k][s] = "none" /\ wcmd[k][s] = Blank
                              /\ nodes[k][s] = <<>>
                              /\ toServer[k][s] = <<>> /\ toClient[k][s] = <<>>
  BY DEF Init
<1>2. ConnectionInv
  <2>1. \A k \in Clients : AtClient(k)
    BY <1>1, BlankIsGood DEF AtClient
  <2>2. ASSUME NEW k \in Clients, NEW s \in Servers PROVE AtServer(k, s)
    <3>1. PutAt(k, s)
      <4>1. <<>> \in Seq(Cells)
        OBVIOUS
      <4>. QED  BY <1>1, <4>1 DEF PutAt
    <3>2. GetAt(k, s) /\ ReplyAt(k, s)
      BY <1>1 DEF GetAt, ReplyAt
    <3>3. WorkerAt(k, s)
      <4>1. Len(<<>>) =< 2
        OBVIOUS
      <4>. QED  BY <1>1, <4>1 DEF WorkerAt, PutPlaces
    <3>. QED  BY <3>1, <3>2, <3>3 DEF AtServer
  <2>. QED  BY <2>1, <2>2 DEF ConnectionInv
<1>3. FileInv /\ LockInv
  BY <1>1 DEF FileInv, FileAt, LockInv
<1>4. SocketInv
  BY NobodyHasNone DEF SocketInv, NoneIsNobody, Init
<1>5. PowerInv
  BY DEF PowerInv, Init
<1>6. NodesHaveChunks
  BY DEF NodesHaveChunks, Init
<1>. QED  BY <1>2, <1>3, <1>4, <1>5, <1>6, InitTypes DEF IInv

(* Stopping servers, and starting them again.                              *)
LEMMA DieKeeps ==
  ASSUME IInv, NEW k \in Clients, NEW s \in Servers, Die(k, s)
  PROVE  IInv'
<1>1. /\ UNCHANGED <<ofClient, file, socket, wcmd, nodes, toServer, toClient>>
      /\ socket[s] = None
      /\ up' = [up EXCEPT ![s] = FALSE] /\ cabinet' = [cabinet EXCEPT ![s] = <<>>]
      /\ wpc' = [j \in Clients |->
                   [wpc[j] EXCEPT ![s] = IF wpc[j][s] = "none" THEN "none" ELSE "closed"]]
  BY DEF Die, Gone
<1>2. ClientTypes /\ ServerTypes
  BY DEF IInv, Types
<1>3. /\ wpc' \in [Clients -> [Servers -> Places]]
      /\ \A j \in Clients, r \in Servers : r # s => wpc'[j][r] = wpc[j][r]
      /\ \A j \in Clients : \/ wpc[j][s] = "none" /\ wpc'[j][s] = "none"
                            \/ wpc[j][s] # "none" /\ wpc'[j][s] = "closed"
  BY <1>1, <1>2 DEF ServerTypes, Places
<1>4. /\ up' \in [Servers -> BOOLEAN] /\ cabinet' \in [Servers -> Seq(Full)]
      /\ cabinet'[s] = <<>>
      /\ \A r \in Servers : r # s => up'[r] = up[r] /\ cabinet'[r] = cabinet[r]
  BY <1>1, <1>2 DEF ServerTypes
<1>5. Types'
  <2>1. ClientTypes'
    BY <1>1, <1>2 DEF ClientTypes, ofClient
  <2>2. ServerTypes'
    BY <1>1, <1>2, <1>3, <1>4 DEF ServerTypes
  <2>. QED  BY <2>1, <2>2 DEF Types
<1>6. ConnectionInv'
  <2>1. ASSUME NEW j \in Clients PROVE AtClient(j)'
    BY <1>1 DEF IInv, ConnectionInv, AtClient, ofClient, PerFile
  <2>2. ASSUME NEW j \in Clients, NEW r \in Servers PROVE AtServer(j, r)'
    <3>1. AtServer(j, r)
      BY DEF IInv, ConnectionInv
    <3>2. wpc'[j][r] = wpc[j][r] \/ (wpc[j][r] # "none" /\ wpc'[j][r] = "closed")
      BY <1>3
    <3>3. PutAt(j, r)'
      BY <1>1, <3>1, <3>2 DEF AtServer, PutAt, ofClient, ServerOf, PerFile
    <3>4. GetAt(j, r)'
      BY <1>1, <3>1, <3>2 DEF AtServer, GetAt, ofClient, Unasked
    <3>5. ReplyAt(j, r)'
      BY <1>1, <3>1, <3>2 DEF AtServer, ReplyAt, ofClient
    <3>6. WorkerAt(j, r)'
      BY <1>1, <3>1, <3>2 DEF AtServer, WorkerAt, ofClient, PutPlaces
    <3>. QED  BY <3>3, <3>4, <3>5, <3>6 DEF AtServer
  <2>. QED  BY <2>1, <2>2 DEF ConnectionInv
<1>7. FileInv'
  <2> SUFFICES ASSUME NEW j \in Clients, NEW r \in Servers PROVE FileAt(j, r)'
    BY DEF FileInv
  <2>1. FileAt(j, r) /\ (wpc'[j][r] = wpc[j][r] \/ wpc'[j][r] = "closed")
    BY <1>3 DEF IInv, FileInv
  <2>. QED  BY <1>1, <2>1 DEF FileAt
<1>8. LockInv'
  BY <1>1, <1>3 DEF IInv, LockInv
<1>9. SocketInv'
  BY <1>1, <1>3, NobodyHasNone DEF IInv, SocketInv, NoneIsNobody
<1>10. PowerInv'
  <2> SUFFICES ASSUME NEW r \in Servers, ~up'[r] PROVE cabinet'[r] = <<>> /\ Joined(r)'
    BY DEF PowerInv
  <2>1. CASE r = s
    BY <1>3, <1>4, <2>1 DEF Joined
  <2>2. CASE r # s
    BY <1>3, <1>4, <2>2 DEF IInv, PowerInv, Joined
  <2>. QED  BY <2>1, <2>2
<1>11. NodesHaveChunks'
  <2> SUFFICES ASSUME NEW r \in Servers, NEW i \in DOMAIN cabinet'[r]
               PROVE  \/ Id(cabinet'[r][i]) \in DOMAIN file'[r]
                      \/ \E j \in Clients : wpc'[j][r] = "create"
                                            /\ Id(wcmd'[j][r]) = Id(cabinet'[r][i])
    BY DEF NodesHaveChunks
  <2>1. CASE r = s
    BY <1>4, <2>1
  <2>2. CASE r # s
    <3>1. /\ cabinet'[r] = cabinet[r] /\ file' = file /\ wcmd' = wcmd
          /\ \A j \in Clients : wpc'[j][r] = wpc[j][r]
      BY <1>1, <1>3, <1>4, <2>2
    <3>2. \/ Id(cabinet[r][i]) \in DOMAIN file[r]
          \/ \E j \in Clients : wpc[j][r] = "create" /\ Id(wcmd[j][r]) = Id(cabinet[r][i])
      BY <3>1 DEF IInv, NodesHaveChunks
    <3>. QED  BY <3>1, <3>2
  <2>. QED  BY <2>1, <2>2
<1>. QED  BY <1>5, <1>6, <1>7, <1>8, <1>9, <1>10, <1>11 DEF IInv

(* Steps that only change which servers run, and what drawers they have.   *)
LEMMA PowerKeeps ==
  ASSUME IInv, UNCHANGED <<ofClient, file, socket, wpc, wcmd, nodes, net>>,
         up' \in [Servers -> BOOLEAN],
         \A s \in Servers : cabinet'[s] = cabinet[s] \/ cabinet'[s] = <<>>,
         cabinet' \in [Servers -> Seq(Full)], PowerInv'
  PROVE  IInv'
<1>1. Types'
  BY DEF IInv, Types, ClientTypes, ServerTypes, ofClient, net
<1>2. ConnectionInv'
  <2>1. ASSUME NEW j \in Clients PROVE AtClient(j)'
    BY DEF IInv, ConnectionInv, AtClient, ofClient, PerFile
  <2>2. ASSUME NEW j \in Clients, NEW r \in Servers PROVE AtServer(j, r)'
    <3>1. AtServer(j, r)
      BY DEF IInv, ConnectionInv
    <3>2. PutAt(j, r)'
      BY <3>1 DEF AtServer, PutAt, ofClient, ServerOf, PerFile, net
    <3>3. GetAt(j, r)'
      BY <3>1 DEF AtServer, GetAt, ofClient, Unasked, net
    <3>4. ReplyAt(j, r)' /\ WorkerAt(j, r)'
      BY <3>1 DEF AtServer, ReplyAt, WorkerAt, ofClient, net
    <3>. QED  BY <3>2, <3>3, <3>4 DEF AtServer
  <2>. QED  BY <2>1, <2>2 DEF ConnectionInv
<1>3. FileInv' /\ LockInv' /\ SocketInv'
  BY DEF IInv, FileInv, FileAt, LockInv, SocketInv
<1>4. NodesHaveChunks'
  <2> SUFFICES ASSUME NEW s \in Servers, NEW i \in DOMAIN cabinet'[s]
               PROVE  \/ Id(cabinet'[s][i]) \in DOMAIN file'[s]
                      \/ \E k \in Clients : wpc'[k][s] = "create"
                                            /\ Id(wcmd'[k][s]) = Id(cabinet'[s][i])
    BY DEF NodesHaveChunks
  <2>1. cabinet'[s] = cabinet[s] \/ cabinet'[s] = <<>>
    OBVIOUS
  <2>2. CASE cabinet'[s] = <<>>
    BY <2>2
  <2>3. CASE cabinet'[s] = cabinet[s]
    <3>1. \/ Id(cabinet[s][i]) \in DOMAIN file[s]
          \/ \E k \in Clients : wpc[k][s] = "create" /\ Id(wcmd[k][s]) = Id(cabinet[s][i])
      BY <2>3 DEF IInv, NodesHaveChunks
    <3>. QED  BY <2>3, <3>1
  <2>. QED  BY <2>1, <2>2, <2>3
<1>. QED  BY <1>1, <1>2, <1>3, <1>4 DEF IInv

LEMMA StopKeeps ==
  ASSUME IInv, NEW s \in Servers, Stop(s)
  PROVE  IInv'
<1>1. /\ UNCHANGED <<ofClient, file, socket, wpc, wcmd, nodes, net>>
      /\ up' = [up EXCEPT ![s] = FALSE] /\ cabinet' = [cabinet EXCEPT ![s] = <<>>]
      /\ Joined(s)
  BY DEF Stop, Gone, MainReturns
<1>2. up \in [Servers -> BOOLEAN] /\ cabinet \in [Servers -> Seq(Full)]
  BY DEF IInv, Types, ServerTypes
<1>3. /\ up' \in [Servers -> BOOLEAN] /\ cabinet' \in [Servers -> Seq(Full)]
      /\ cabinet'[s] = <<>>
      /\ \A r \in Servers : r # s => up'[r] = up[r] /\ cabinet'[r] = cabinet[r]
  BY <1>1, <1>2
<1>4. PowerInv'
  BY <1>1, <1>3 DEF IInv, PowerInv, Joined
<1>. QED  BY <1>1, <1>3, <1>4, PowerKeeps

LEMMA StartAgainKeeps ==
  ASSUME IInv, NEW s \in Servers, StartAgain(s)
  PROVE  IInv'
<1>1. /\ UNCHANGED <<ofClient, file, socket, wpc, wcmd, nodes, net, cabinet>>
      /\ up' = [up EXCEPT ![s] = TRUE]
  BY DEF StartAgain, ofServer
<1>2. up \in [Servers -> BOOLEAN] /\ cabinet \in [Servers -> Seq(Full)]
  BY DEF IInv, Types, ServerTypes
<1>3. up' \in [Servers -> BOOLEAN] /\ \A r \in Servers : ~up'[r] => ~up[r]
  BY <1>1, <1>2
<1>4. PowerInv'
  BY <1>1, <1>3 DEF IInv, PowerInv, Joined
<1>. QED  BY <1>1, <1>2, <1>3, <1>4, PowerKeeps
-----------------------------------------------------------------------------
(* Steps of clients.                                                       *)
(* A step of client k: what it leaves alone.                               *)
OneClient(k) ==
  /\ UNCHANGED <<cmd, cabinet, file, socket, wcmd, nodes, power>>
  /\ \A j \in Clients : j # k =>
       /\ pc'[j] = pc[j] /\ sent'[j] = sent[j] /\ asked'[j] = asked[j] /\ reply'[j] = reply[j]
       /\ \A s \in Servers :
            /\ wpc'[j][s] = wpc[j][s]
            /\ toServer'[j][s] = toServer[j][s] /\ toClient'[j][s] = toClient[j][s]
  /\ \A s \in Servers :
       \/ wpc'[k][s] = wpc[k][s]
       \/ wpc[k][s] = "none" /\ wpc'[k][s] = "first" /\ up[s]

(* What is left to prove of a client's step.                               *)
LEMMA ClientKeeps ==
  ASSUME IInv, NEW k \in Clients, OneClient(k), Types', AtClient(k)',
         \A s \in Servers : AtServer(k, s)'
  PROVE  IInv'
<1>1. ConnectionInv'
  <2>1. ASSUME NEW j \in Clients, j # k PROVE AtClient(j)'
    <3>1. AtClient(j)
      BY DEF IInv, ConnectionInv
    <3>2. cmd' = cmd /\ pc'[j] = pc[j] /\ sent'[j] = sent[j] /\ reply'[j] = reply[j]
      BY <2>1 DEF OneClient
    <3>. QED  BY <3>1, <3>2 DEF AtClient, PerFile
  <2>2. ASSUME NEW j \in Clients, NEW s \in Servers, j # k PROVE AtServer(j, s)'
    <3>1. AtServer(j, s)
      BY DEF IInv, ConnectionInv
    <3>2. /\ cmd' = cmd /\ pc'[j] = pc[j] /\ sent'[j] = sent[j] /\ asked'[j] = asked[j]
          /\ reply'[j] = reply[j] /\ wpc'[j][s] = wpc[j][s] /\ wcmd' = wcmd /\ nodes' = nodes
          /\ toServer'[j][s] = toServer[j][s] /\ toClient'[j][s] = toClient[j][s]
      BY <2>2 DEF OneClient
    <3>3. PutAt(j, s)'
      BY <3>1, <3>2 DEF AtServer, PutAt, ServerOf, PerFile
    <3>4. GetAt(j, s)'
      BY <3>1, <3>2 DEF AtServer, GetAt, Unasked
    <3>5. ReplyAt(j, s)' /\ WorkerAt(j, s)'
      BY <3>1, <3>2 DEF AtServer, ReplyAt, WorkerAt
    <3>. QED  BY <3>3, <3>4, <3>5 DEF AtServer
  <2>. QED  BY <2>1, <2>2 DEF ConnectionInv
<1>2. /\ UNCHANGED <<cabinet, file, socket, wcmd, nodes, up>>
      /\ \A j \in Clients, s \in Servers :
           \/ wpc'[j][s] = wpc[j][s]
           \/ wpc[j][s] = "none" /\ wpc'[j][s] = "first" /\ up[s]
  BY DEF OneClient, power
<1>3. FileInv'
  <2> SUFFICES ASSUME NEW j \in Clients, NEW s \in Servers PROVE FileAt(j, s)'
    BY DEF FileInv
  <2>1. FileAt(j, s)
    BY DEF IInv, FileInv
  <2>. QED  BY <1>2, <2>1 DEF FileAt
<1>4. LockInv' /\ SocketInv'
  BY <1>2 DEF IInv, LockInv, SocketInv, RecvPlaces
<1>5. PowerInv'
  <2> SUFFICES ASSUME NEW s \in Servers, ~up[s] PROVE cabinet[s] = <<>> /\ Joined(s)'
    BY <1>2 DEF PowerInv
  <2>1. \A j \in Clients : wpc'[j][s] = wpc[j][s]
    BY <1>2
  <2>2. cabinet[s] = <<>> /\ Joined(s)
    BY DEF IInv, PowerInv
  <2>. QED  BY <2>1, <2>2 DEF Joined
<1>6. NodesHaveChunks'
  <2> SUFFICES ASSUME NEW s \in Servers, NEW i \in DOMAIN cabinet[s]
               PROVE  \/ Id(cabinet[s][i]) \in DOMAIN file[s]
                      \/ \E j \in Clients : wpc'[j][s] = "create"
                                            /\ Id(wcmd[j][s]) = Id(cabinet[s][i])
    BY <1>2 DEF NodesHaveChunks
  <2>1. \/ Id(cabinet[s][i]) \in DOMAIN file[s]
        \/ \E j \in Clients : wpc[j][s] = "create" /\ Id(wcmd[j][s]) = Id(cabinet[s][i])
    BY DEF IInv, NodesHaveChunks
  <2>. QED  BY <1>2, <2>1
<1>. QED  BY <1>1, <1>3, <1>4, <1>5, <1>6 DEF IInv

(* What a job is.                                                          *)
LEMMA JobIs ==
  ASSUME Types, NEW k \in Clients, cmd[k].op # "none"
  PROVE  /\ cmd[k].op \in {"put", "get"}
         /\ cmd[k].files \in Seq(Names) /\ Len(cmd[k].files) \in Nat \ {0}
         /\ cmd[k].files[1] \in Names
         /\ cmd[k].servers \in Seq(Servers)
         /\ Len(cmd[k].servers) \in {1, 2, 4}
<1>1. /\ cmd[k].op \in {"put", "get"}
      /\ cmd[k].files \in Seq(Names) \ {<<>>}
      /\ cmd[k].servers \in {<<0>>, <<0, 2>>, <<1, 3>>, <<0, 1, 2, 3>>}
  BY DfsAssumption DEF Types, ClientTypes
<1>2. Len(cmd[k].files) \in Nat \ {0} /\ cmd[k].files[1] \in Names
  <2> DEFINE files == cmd[k].files
  <2>1. files \in Seq(Names) /\ files # <<>>
    BY <1>1
  <2> HIDE DEF files
  <2>2. Len(files) \in Nat \ {0}
    BY <2>1
  <2>3. files[1] \in Names
    BY <2>1, <2>2
  <2>. QED  BY <2>2, <2>3 DEF files
<1> DEFINE q == cmd[k].servers
<1>3. q \in Seq(Servers) /\ Len(q) \in {1, 2, 4}
  <2>1. 0 \in Servers /\ 1 \in Servers /\ 2 \in Servers /\ 3 \in Servers
    BY DEF Servers
  <2>2. CASE q = <<0>>
    BY <2>1, <2>2
  <2>3. CASE q = <<0, 2>>
    BY <2>1, <2>3
  <2>4. CASE q = <<1, 3>>
    BY <2>1, <2>4
  <2>5. CASE q = <<0, 1, 2, 3>>
    BY <2>1, <2>5
  <2>. QED  BY <1>1, <2>2, <2>3, <2>4, <2>5
<1>. QED  BY <1>1, <1>2, <1>3

LEMMA RefuseKeeps ==
  ASSUME IInv, NEW k \in Clients, Refuse(k), UNCHANGED power
  PROVE  IInv'
<1>1. /\ pc[k] = "start" /\ pc' = [pc EXCEPT ![k] = "refused"]
      /\ UNCHANGED <<cmd, sent, asked, reply, left, got, late, fresh, cabinet, file, socket,
                     wpc, wcmd, nodes, toServer, toClient>>
  BY DEF Refuse, Goto, ofServer, net
<1>2. ClientTypes /\ ServerTypes
  BY DEF IInv, Types
<1>3. /\ pc' \in [Clients -> Pcs] /\ pc'[k] = "refused"
      /\ \A j \in Clients : j # k => pc'[j] = pc[j]
  <2>1. "refused" \in Pcs
    BY DEF Pcs
  <2>. QED  BY <1>1, <1>2, <2>1 DEF ClientTypes
<1>4. Types'
  <2>1. ClientTypes'
    BY <1>1, <1>2, <1>3 DEF ClientTypes
  <2>2. ServerTypes'
    BY <1>1, <1>2 DEF ServerTypes, power
  <2>. QED  BY <2>1, <2>2 DEF Types
<1>5. OneClient(k)
  BY <1>1, <1>3 DEF OneClient
<1>6. AtClient(k)'
  BY <1>1, <1>3 DEF IInv, ConnectionInv, AtClient
<1>7. ASSUME NEW s \in Servers PROVE AtServer(k, s)'
  <2>1. AtServer(k, s)
    BY DEF IInv, ConnectionInv
  <2>2. PutAt(k, s)'
    BY <1>1, <1>3, <2>1 DEF AtServer, PutAt
  <2>3. GetAt(k, s)'
    BY <1>1, <1>3, <2>1 DEF AtServer, GetAt, Unasked
  <2>4. ReplyAt(k, s)' /\ WorkerAt(k, s)'
    BY <1>1, <1>3, <2>1 DEF AtServer, ReplyAt, WorkerAt
  <2>. QED  BY <2>2, <2>3, <2>4 DEF AtServer
<1>. QED  BY <1>4, <1>5, <1>6, <1>7, ClientKeeps

LEMMA FindableType ==
  ASSUME Types, NEW n
  PROVE  Findable(n) \subseteq Versions
<1> DEFINE list == cabinet[0]
           found == {i \in DOMAIN list : list[i].name = n}
           chunks == {list[i].chunk : i \in found}
           puts == {j \in Clients : cmd[j].op = "put" /\ Contains(cmd[j].files, n)
                                    /\ ~ServerEnded(j, 0)}
<1>1. list \in Seq(Full)
  BY DEF Types, ServerTypes, Servers
<1>2. Findable(n) = IF \E c, d \in chunks : c # d THEN {list[Max(found)].ver} \cup puts ELSE {}
  BY DEF Findable
<1>3. puts \subseteq Versions
  BY DEF Versions
<1> HIDE DEF list, puts
<1>4. CASE \E c, d \in chunks : c # d
  <2>1. found # {} /\ found \subseteq DOMAIN list
    BY <1>4
  <2> HIDE DEF found
  <2>2. Max(found) \in DOMAIN list
    BY <1>1, <2>1, NewestIsNode
  <2>3. list[Max(found)] \in Full
    BY <1>1, <2>2
  <2>4. list[Max(found)].ver \in Versions
    BY <2>3 DEF Full
  <2> HIDE DEF chunks
  <2>. QED  BY <1>2, <1>3, <1>4, <2>4
<1>5. CASE ~\E c, d \in chunks : c # d
  <2> HIDE DEF chunks, found
  <2>. QED  BY <1>2, <1>5
<1>. QED  BY <1>4, <1>5

(* A put has something to send.                                            *)
LEMMA PutNotEmpty ==
  ASSUME Types, NEW k \in Clients, cmd[k].op = "put"
  PROVE  /\ PerFile(k) \in {4, 8, 16} /\ Len(cmd[k].files) \in Nat \ {0}
         /\ PerFile(k) * Len(cmd[k].files) \in Nat
         /\ 0 < PerFile(k) * Len(cmd[k].files)
<1> DEFINE f == Len(cmd[k].files)
           p == PerFile(k)
<1>1. f \in Nat \ {0} /\ Len(cmd[k].servers) \in {1, 2, 4}
  BY JobIs
<1>2. p \in {4, 8, 16}
  <2> DEFINE l == Len(cmd[k].servers)
  <2>1. p = 4 * l
    BY DEF PerFile
  <2>2. l \in {1, 2, 4}
    BY <1>1
  <2> HIDE DEF p, l
  <2>. QED  BY <2>1, <2>2
<1> HIDE DEF f, p
<1>3. p * f \in Nat /\ 0 < p * f
  <2>1. CASE p = 4
    BY <1>1, <2>1
  <2>2. CASE p = 8
    BY <1>1, <2>2
  <2>3. CASE p = 16
    BY <1>1, <2>3
  <2>. QED  BY <1>2, <2>1, <2>2, <2>3
<1>. QED  BY <1>1, <1>2, <1>3 DEF f, p

LEMMA ConnectKeeps ==
  ASSUME IInv, NEW k \in Clients, Connect(k), UNCHANGED power
  PROVE  IInv'
<1> DEFINE n == cmd[k].files[1]
           asking == [Blank EXCEPT !.op = "get", !.name = n]
           after == IF cmd[k].op = "put" THEN "put" ELSE "ask"
           first == [s \in Servers |-> IF Contains(cmd[k].servers, s) THEN "first" ELSE "none"]
<1>1. /\ \A s \in Servers : up[s]
      /\ pc[k] = "start" /\ pc' = [pc EXCEPT ![k] = after]
      /\ wpc' = [wpc EXCEPT ![k] = first]
      /\ cmd[k].op \in {"put", "get"}
      /\ \/ UNCHANGED <<reply, fresh>>
         \/ /\ reply' = [reply EXCEPT ![k] = asking]
            /\ fresh' = [fresh EXCEPT ![k] = Findable(n)]
      /\ UNCHANGED <<cmd, sent, asked, left, got, late, cabinet, file, socket, wcmd,
                     nodes, toServer, toClient>>
  BY DEF Connect, Goto, net
<1>2. Types /\ ClientTypes /\ ServerTypes
  BY DEF IInv, Types
<1>3. AtClient(k) /\ \A s \in Servers : AtServer(k, s)
  BY DEF IInv, ConnectionInv
<1>4. n \in Names
  <2>1. cmd[k].op # "none"
    BY <1>1
  <2>. QED  BY <1>2, <2>1, JobIs
<1>5. asking \in Good /\ asking.size = <<>>
  <2>1. asking \in Cmds /\ asking.op = "get" /\ asking.size = Blank.size
    BY <1>4, BlankIsGood DEF Cmds, Ops
  <2> HIDE DEF asking
  <2>. QED  BY <2>1, BlankIsGood DEF Good
<1>6. Findable(n) \subseteq Versions
  BY <1>2, FindableType
<1>7. after \in {"put", "ask"} /\ (after = "put" <=> cmd[k].op = "put")
  BY <1>1
<1>8. first \in [Servers -> Places] /\ \A s \in Servers : first[s] \in {"none", "first"}
  BY DEF Places
<1> HIDE DEF n, asking, after, first
<1>9. /\ pc' \in [Clients -> Pcs] /\ pc'[k] = after
      /\ \A j \in Clients : j # k => pc'[j] = pc[j]
  <2>1. "put" \in Pcs /\ "ask" \in Pcs
    BY DEF Pcs
  <2>. QED  BY <1>1, <1>2, <1>7, <2>1 DEF ClientTypes
<1>10. /\ wpc' \in [Clients -> [Servers -> Places]]
       /\ \A s \in Servers : wpc'[k][s] \in {"none", "first"}
       /\ \A j \in Clients : j # k => wpc'[j] = wpc[j]
  BY <1>1, <1>2, <1>8 DEF ServerTypes
<1>11. /\ reply' \in [Clients -> Good]
       /\ reply'[k] = reply[k] \/ reply'[k].size = <<>>
       /\ \A j \in Clients : j # k => reply'[j] = reply[j]
       /\ fresh' \in [Clients -> SUBSET Versions]
  BY <1>1, <1>2, <1>5, <1>6 DEF ClientTypes
<1>12. Types'
  <2>1. ClientTypes'
    BY <1>1, <1>2, <1>9, <1>11 DEF ClientTypes
  <2>2. ServerTypes'
    BY <1>1, <1>2, <1>10 DEF ServerTypes, power
  <2>. QED  BY <2>1, <2>2 DEF Types
<1>13. \A s \in Servers : /\ wpc[k][s] = "none" /\ wcmd[k][s] = Blank /\ Len(nodes[k][s]) =< 2
                          /\ toServer[k][s] = <<>> /\ toClient[k][s] = <<>>
  BY <1>1, <1>3 DEF AtServer, WorkerAt
<1>14. OneClient(k)
  BY <1>1, <1>9, <1>10, <1>11, <1>13 DEF OneClient
<1>15. sent[k] = 0 /\ (reply[k] \notin Full => reply[k].size = <<>>)
  BY <1>1, <1>3 DEF AtClient
<1>16. AtClient(k)'
  <2>1. cmd[k].op = "put" => 0 < PerFile(k) * Len(cmd[k].files)
    BY <1>2, PutNotEmpty
  <2>2. cmd' = cmd /\ sent' = sent /\ PerFile(k)' = PerFile(k)
    BY <1>1 DEF PerFile
  <2>3. pc'[k] = "put" => cmd'[k].op = "put" /\ sent'[k] < PerFile(k)' * Len(cmd'[k].files)
    BY <1>7, <1>9, <1>15, <2>1, <2>2
  <2>4. pc'[k] \in {"ask", "header", "body", "rest", "next"} => cmd'[k].op = "get"
    BY <1>1, <1>7, <1>9
  <2>5. reply'[k] \notin Full => reply'[k].size = <<>> /\ pc'[k] # "rest"
    BY <1>7, <1>9, <1>11, <1>15
  <2>6. pc'[k] # "start"
    BY <1>7, <1>9
  <2>. QED  BY <2>3, <2>4, <2>5, <2>6 DEF AtClient
<1>17. ASSUME NEW s \in Servers PROVE AtServer(k, s)'
  <2>1. /\ toServer'[k][s] = <<>> /\ toClient'[k][s] = <<>> /\ wcmd'[k][s] = Blank
        /\ Len(nodes'[k][s]) =< 2 /\ sent'[k] = 0 /\ wpc'[k][s] \in {"none", "first"}
    BY <1>1, <1>10, <1>13, <1>15
  <2>2. PutAt(k, s)'
    <3>1. <<>> \in Seq(Cells) /\ 0 % 2 # 1
      OBVIOUS
    <3>. QED  BY <2>1, <3>1 DEF PutAt
  <2>3. GetAt(k, s)' /\ ReplyAt(k, s)'
    BY <2>1 DEF GetAt, ReplyAt
  <2>4. pc'[k] \notin {"start", "refused"}
    BY <1>7, <1>9
  <2>5. WorkerAt(k, s)'
    BY <2>1, <2>4 DEF WorkerAt, PutPlaces
  <2>. QED  BY <2>2, <2>3, <2>5 DEF AtServer
<1>. QED  BY <1>12, <1>14, <1>16, <1>17, ClientKeeps

LEMMA PutIndices ==
  ASSUME NEW p \in {4, 8, 16}, NEW t \in Nat, NEW f \in Nat, t < p * f
  PROVE  /\ (t \div p) + 1 \in 1..f
         /\ ((t % p) \div 4) + 1 \in 1..(p \div 4)
         /\ (t % 4) \div 2 \in 0..1
         /\ t % 2 = 0 => ((t + 1) % p) \div 4 = (t % p) \div 4
         /\ t % 2 \in {0, 1} /\ (t % 2 = 1 => (t + 1) % 2 # 1)
<1>1. CASE p = 4
  BY <1>1
<1>2. CASE p = 8
  BY <1>2
<1>3. CASE p = 16
  BY <1>3
<1>. QED  BY <1>1, <1>2, <1>3

(* What the client of a put sends next, and to whom.                       *)
LEMMA NextToSend ==
  ASSUME IInv, NEW k \in Clients, pc[k] = "put"
  PROVE  /\ cmd[k].op = "put" /\ sent[k] \in Nat
         /\ FileOf(k) \in Names /\ ServerOf(k) \in Servers /\ ChunkOf(k) \in Chunks
         /\ sent[k] < PerFile(k) * Len(cmd[k].files)
         /\ sent[k] % 2 \in {0, 1} /\ (sent[k] % 2 = 1 => (sent[k] + 1) % 2 # 1)
         /\ sent[k] % 2 = 0 =>
              cmd[k].servers[(((sent[k] + 1) % PerFile(k)) \div 4) + 1] = ServerOf(k)
<1> DEFINE t == sent[k]
           p == PerFile(k)
           f == Len(cmd[k].files)
<1>1. Types
  BY DEF IInv
<1>2. AtClient(k)
  BY DEF IInv, ConnectionInv
<1>3. cmd[k].op = "put" /\ t < p * f
  BY <1>2 DEF AtClient
<1>4. p \in {4, 8, 16} /\ f \in Nat
  BY <1>1, <1>3, PutNotEmpty
<1>5. t \in Nat
  BY <1>1 DEF Types, ClientTypes
<1>6. /\ (t \div p) + 1 \in 1..f
      /\ ((t % p) \div 4) + 1 \in 1..(p \div 4)
      /\ (t % 4) \div 2 \in 0..1
      /\ t % 2 = 0 => ((t + 1) % p) \div 4 = (t % p) \div 4
      /\ t % 2 \in {0, 1} /\ (t % 2 = 1 => (t + 1) % 2 # 1)
  <2> HIDE DEF t, p, f
  <2>. QED  BY <1>3, <1>4, <1>5, PutIndices
<1>7. /\ cmd[k].files \in Seq(Names) /\ cmd[k].servers \in Seq(Servers)
      /\ Len(cmd[k].servers) \in {1, 2, 4}
  BY <1>1, <1>3, JobIs
<1>8. FileOf(k) \in Names
  <2> DEFINE i == (t \div p) + 1
             list == cmd[k].files
  <2>1. i \in 1..Len(list) /\ list \in Seq(Names)
    BY <1>6, <1>7
  <2> HIDE DEF i, list
  <2>2. list[i] \in Names
    BY <2>1
  <2>. QED  BY <2>2 DEF FileOf, i, list
<1>9. ServerOf(k) \in Servers
  <2> DEFINE i == ((t % p) \div 4) + 1
             list == cmd[k].servers
  <2>1. p \div 4 = Len(list)
    <3> DEFINE l == Len(list)
    <3>1. p = 4 * l /\ l \in {1, 2, 4}
      BY <1>7 DEF PerFile
    <3> HIDE DEF p, l
    <3>2. p \div 4 = l
      BY <3>1
    <3>. QED  BY <3>2 DEF l
  <2>2. i \in 1..Len(list) /\ list \in Seq(Servers)
    BY <1>6, <1>7, <2>1
  <2> HIDE DEF i, list
  <2>3. list[i] \in Servers
    BY <2>2
  <2>. QED  BY <2>3 DEF ServerOf, i, list
<1>10. ChunkOf(k) \in Chunks
  <2> DEFINE j == (t % 4) \div 2
  <2>1. j \in 0..1
    BY <1>6
  <2> HIDE DEF j
  <2>2. Part(FileOf(k), ServerOf(k), j) \in Chunks
    BY <1>8, <1>9, <2>1, PartType
  <2>. QED  BY <2>2 DEF ChunkOf, j
<1>. QED  BY <1>3, <1>5, <1>6, <1>8, <1>9, <1>10 DEF ServerOf

LEMMA BeginsNotEmpty ==
  ASSUME NEW S, NEW C, NEW stream \in Seq(S), Begins(stream, C)
  PROVE  stream # <<>>
<1>1. HdrLen \in Nat /\ HdrLen > 2
  BY DfsAssumption
<1>2. Len(stream) >= HdrLen
  BY DEF Begins
<1>3. Len(stream) # 0
  BY <1>1, <1>2
<1>. QED  BY <1>3

LEMMA PutSendKeeps ==
  ASSUME IInv, NEW k \in Clients, PutSend(k), UNCHANGED power
  PROVE  IInv'
<1> DEFINE n == FileOf(k)
           s == ServerOf(k)
           c == ChunkOf(k)
           t == sent[k]
           h == PutHeader(n, k, c)
           cells == IF t % 2 = 0 THEN HeaderCells(h) ELSE Body(n, k, c)
           total == PerFile(k) * Len(cmd[k].files)
<1>1. /\ pc[k] = "put"
      /\ toServer' = [toServer EXCEPT ![k][s] = toServer[k][s] \o cells]
      /\ sent' = [sent EXCEPT ![k] = t + 1]
      /\ \/ pc' = [pc EXCEPT ![k] = "put"] /\ t + 1 # total
         \/ pc' = [pc EXCEPT ![k] = "done"]
         \/ pc' = [pc EXCEPT ![k] = "killed"]
      /\ UNCHANGED <<cmd, asked, reply, left, got, late, fresh, cabinet, file, socket, wpc,
                     wcmd, nodes, toClient>>
  BY DEF PutSend, ClientSends, Goto, ofServer
<1>2. Types /\ ClientTypes /\ ServerTypes
  BY DEF IInv, Types
<1>3. AtClient(k) /\ \A r \in Servers : AtServer(k, r)
  BY DEF IInv, ConnectionInv
<1>4. /\ cmd[k].op = "put" /\ t \in Nat
      /\ n \in Names /\ s \in Servers /\ c \in Chunks
      /\ t < total
      /\ t % 2 \in {0, 1} /\ (t % 2 = 1 => (t + 1) % 2 # 1)
      /\ t % 2 = 0 => cmd[k].servers[(((t + 1) % PerFile(k)) \div 4) + 1] = s
  BY <1>1, NextToSend
<1>5. total \in Nat
  BY <1>2, <1>4, PutNotEmpty
<1> HIDE DEF n, s, c, t, total
<1>6. h \in Full
  <2>1. k \in Versions
    BY DEF Versions
  <2>. QED  BY <1>4, <2>1, PutHeaderFull
<1> HIDE DEF h
<1>7. cells \in Seq(Cells) /\ (t % 2 = 0 => Begins(cells, Full))
  <2>1. k \in Versions
    BY DEF Versions
  <2>. QED  BY <1>4, <1>6, <2>1, HeaderType, BodyType
<1> HIDE DEF cells
<1>8. toServer[k][s] \in Seq(Cells)
  BY <1>3, <1>4 DEF AtServer, PutAt
<1>9. toServer[k][s] \o cells \in Seq(Cells)
  BY <1>7, <1>8
<1>10. /\ toServer' \in [Clients -> [Servers -> Seq(AnyCells)]]
       /\ toServer'[k][s] = toServer[k][s] \o cells
       /\ \A j \in Clients, r \in Servers : j # k \/ r # s => toServer'[j][r] = toServer[j][r]
  <2>1. toServer \in [Clients -> [Servers -> Seq(AnyCells)]]
    BY <1>2 DEF ServerTypes
  <2>2. toServer[k][s] \o cells \in Seq(AnyCells)
    <3>1. Cells \subseteq AnyCells
      BY DEF Cells, AnyCells, Full, Cmds
    <3>. QED  BY <1>9, <3>1
  <2>. QED  BY <1>1, <1>4, <2>1, <2>2, Update
<1>11. /\ pc' \in [Clients -> Pcs] /\ pc'[k] \in {"put", "done", "killed"}
       /\ pc'[k] = "put" => t + 1 < total
       /\ \A j \in Clients : j # k => pc'[j] = pc[j]
  <2>1. {"put", "done", "killed"} \subseteq Pcs
    BY DEF Pcs
  <2>2. pc \in [Clients -> Pcs]
    BY <1>2 DEF ClientTypes
  <2>3. t + 1 # total => t + 1 < total
    BY <1>4, <1>5
  <2>. QED  BY <1>1, <2>1, <2>2, <2>3
<1>12. /\ sent' \in [Clients -> Nat] /\ sent'[k] = t + 1
       /\ \A j \in Clients : j # k => sent'[j] = sent[j]
  BY <1>1, <1>2, <1>4 DEF ClientTypes
<1>13. Types'
  <2>1. ClientTypes'
    BY <1>1, <1>2, <1>11, <1>12 DEF ClientTypes
  <2>2. ServerTypes'
    BY <1>1, <1>2, <1>10 DEF ServerTypes, power
  <2>. QED  BY <2>1, <2>2 DEF Types
<1>14. OneClient(k)
  BY <1>1, <1>10, <1>11, <1>12 DEF OneClient
<1>15. PerFile(k)' = PerFile(k) /\ total = PerFile(k) * Len(cmd[k].files)
  BY <1>1 DEF PerFile, total
<1>16. AtClient(k)'
  <2>1. pc'[k] = "put" => cmd'[k].op = "put" /\ sent'[k] < PerFile(k)' * Len(cmd'[k].files)
    BY <1>1, <1>4, <1>11, <1>12, <1>15
  <2>2. reply'[k] \notin Full => reply'[k].size = <<>>
    BY <1>1, <1>3 DEF AtClient
  <2>. QED  BY <1>11, <2>1, <2>2 DEF AtClient
<1>17. wpc[k][s] = "first" => Begins(toServer'[k][s], Full) /\ toServer'[k][s] # <<>>
  <2> SUFFICES ASSUME wpc[k][s] = "first"
               PROVE  Begins(toServer'[k][s], Full) /\ toServer'[k][s] # <<>>
    OBVIOUS
  <2> DEFINE stream == toServer[k][s]
  <2>1. /\ stream = <<>> \/ Begins(stream, Full)
        /\ t % 2 = 1 => stream # <<>>
    <3>1. PutAt(k, s)
      BY <1>3, <1>4 DEF AtServer
    <3>. QED  BY <1>1, <1>4, <3>1 DEF PutAt, s, t
  <2>2. stream \in Seq(Cells) /\ toServer'[k][s] = stream \o cells
    BY <1>8, <1>10
  <2> HIDE DEF stream
  <2>3. CASE stream = <<>>
    <3>1. t % 2 = 0
      BY <1>4, <2>1, <2>3
    <3>2. toServer'[k][s] = cells
      BY <1>7, <2>2, <2>3
    <3>. QED  BY <1>7, <3>1, <3>2, BeginsNotEmpty
  <2>4. CASE Begins(stream, Full)
    <3>1. Begins(stream \o cells, Full)
      BY <1>7, <2>2, <2>4, BeginsMore
    <3>2. stream \o cells \in Seq(Cells)
      BY <1>7, <2>2
    <3>. QED  BY <2>2, <3>1, <3>2, BeginsNotEmpty
  <2>. QED  BY <2>1, <2>3, <2>4
<1>18. ASSUME NEW r \in Servers PROVE AtServer(k, r)'
  <2>1. AtServer(k, r)
    BY <1>3
  <2>2. toServer'[k][r] \in Seq(Cells)
    BY <1>3, <1>4, <1>9, <1>10 DEF AtServer, PutAt
  <2>3. sent'[k] % 2 = 1 /\ r = ServerOf(k)' => r = s
    <3> SUFFICES ASSUME sent'[k] % 2 = 1, r = ServerOf(k)' PROVE r = s
      OBVIOUS
    <3>1. t % 2 = 0
      BY <1>4, <1>12
    <3>2. ServerOf(k)' = cmd[k].servers[(((t + 1) % PerFile(k)) \div 4) + 1]
      BY <1>1, <1>12, <1>15 DEF ServerOf
    <3>. QED  BY <1>4, <3>1, <3>2
  <2>4. PutAt(k, r)'
    <3>1. CASE r = s
      BY <1>1, <1>17, <2>2, <3>1 DEF PutAt
    <3>2. CASE r # s
      <4>1. toServer'[k][r] = toServer[k][r] /\ wpc' = wpc /\ cmd' = cmd
        BY <1>1, <1>10, <3>2
      <4>2. PutAt(k, r)
        BY <2>1 DEF AtServer
      <4>. QED  BY <2>2, <2>3, <3>2, <4>1, <4>2 DEF PutAt
    <3>. QED  BY <3>1, <3>2
  <2>5. GetAt(k, r)'
    BY <1>1, <1>4 DEF GetAt
  <2>6. ReplyAt(k, r)'
    BY <1>1, <2>1 DEF AtServer, ReplyAt
  <2>7. WorkerAt(k, r)'
    BY <1>1, <1>11, <2>1 DEF AtServer, WorkerAt
  <2>. QED  BY <2>4, <2>5, <2>6, <2>7 DEF AtServer
<1>. QED  BY <1>13, <1>14, <1>16, <1>18, ClientKeeps

AskedIsServer == \A k \in Clients : asked[k] \in {0, 2} /\ asked[k] \in Servers

LEMMA AskedType ==
  ASSUME Types
  PROVE  AskedIsServer
BY DEF Types, ClientTypes, Servers, AskedIsServer

LEMMA AskKeeps ==
  ASSUME IInv, NEW k \in Clients, Ask(k), UNCHANGED power
  PROVE  IInv'
<1> DEFINE s == asked[k]
           cells == HeaderCells(reply[k])
<1>1. /\ pc[k] = "ask" /\ pc' = [pc EXCEPT ![k] = "header"]
      /\ toServer' = [toServer EXCEPT ![k][s] = toServer[k][s] \o cells]
      /\ UNCHANGED <<cmd, sent, asked, reply, left, got, late, fresh, cabinet, file, socket,
                     wpc, wcmd, nodes, toClient>>
  BY DEF Ask, ClientSends, Goto, ofServer
<1>2. Types /\ ClientTypes /\ ServerTypes
  BY DEF IInv, Types
<1>3. AtClient(k) /\ \A r \in Servers : AtServer(k, r)
  BY DEF IInv, ConnectionInv
<1>4. cmd[k].op = "get" /\ s \in Servers /\ s \in {0, 2}
  BY <1>1, <1>2, <1>3, AskedType DEF AtClient, AskedIsServer
<1>5. toServer[k][s] = <<>> /\ wpc[k][s] \in {"none", "first", "closed"}
  <2>1. GetAt(k, s)
    BY <1>3, <1>4 DEF AtServer
  <2>. QED  BY <1>1, <1>4, <2>1 DEF GetAt, Unasked
<1>6. reply[k] \in Good
  BY <1>2 DEF ClientTypes
<1>7. cells \in Seq(AnyCells)
  <2>1. HdrLen \in Nat /\ reply[k] \in Cmds
    BY <1>6, DfsAssumption DEF Good
  <2>2. \A i \in 1..HdrLen : <<"head", reply[k], i>> \in AnyCells
    BY <2>1 DEF AnyCells
  <2>. QED  BY <2>1, <2>2 DEF HeaderCells
<1> HIDE DEF s, cells
<1>8. toServer[k][s] \o cells = cells
  BY <1>5, <1>7
<1>9. /\ toServer' \in [Clients -> [Servers -> Seq(AnyCells)]]
      /\ toServer'[k][s] = cells
      /\ \A j \in Clients, r \in Servers : j # k \/ r # s => toServer'[j][r] = toServer[j][r]
  <2>1. toServer \in [Clients -> [Servers -> Seq(AnyCells)]]
        /\ toServer' = [toServer EXCEPT ![k][s] = cells]
    BY <1>1, <1>2, <1>8 DEF ServerTypes
  <2>. QED  BY <1>4, <1>7, <2>1, Update
<1>10. /\ pc' \in [Clients -> Pcs] /\ pc'[k] = "header"
       /\ \A j \in Clients : j # k => pc'[j] = pc[j]
  <2>1. "header" \in Pcs
    BY DEF Pcs
  <2>. QED  BY <1>1, <1>2, <2>1 DEF ClientTypes
<1>11. Types'
  <2>1. ClientTypes'
    BY <1>1, <1>2, <1>10 DEF ClientTypes
  <2>2. ServerTypes'
    BY <1>1, <1>2, <1>9 DEF ServerTypes, power
  <2>. QED  BY <2>1, <2>2 DEF Types
<1>12. OneClient(k)
  BY <1>1, <1>9, <1>10 DEF OneClient
<1>13. AtClient(k)'
  BY <1>1, <1>3, <1>4, <1>10 DEF AtClient
<1>14. ASSUME NEW r \in Servers PROVE AtServer(k, r)'
  <2>1. AtServer(k, r)
    BY <1>3
  <2>2. PutAt(k, r)'
    BY <1>1, <1>4 DEF PutAt
  <2>3. GetAt(k, r)'
    <3>1. CASE r = s
      <4>1. ~Unasked(k, r)'
        BY <1>1, <1>4, <1>10, <3>1 DEF Unasked, s
      <4>2. \E h \in Good : toServer'[k][r] = HeaderCells(h)
        BY <1>6, <1>9, <3>1 DEF cells
      <4>3. wpc'[k][r] \in {"none", "first", "closed"}
        BY <1>1, <1>5, <3>1
      <4>. QED  BY <3>1, <4>1, <4>2, <4>3 DEF GetAt
    <3>2. CASE r # s
      <4>1. Unasked(k, r)' => Unasked(k, r)
        BY <1>1, <1>10 DEF Unasked
      <4>2. toServer'[k][r] = toServer[k][r] /\ wpc' = wpc /\ cmd' = cmd
        BY <1>1, <1>9, <3>2
      <4>3. GetAt(k, r)
        BY <2>1 DEF AtServer
      <4>. QED  BY <4>1, <4>2, <4>3 DEF GetAt
    <3>. QED  BY <3>1, <3>2
  <2>4. ReplyAt(k, r)' /\ WorkerAt(k, r)'
    BY <1>1, <1>10, <2>1 DEF AtServer, ReplyAt, WorkerAt
  <2>. QED  BY <2>2, <2>3, <2>4 DEF AtServer
<1>. QED  BY <1>11, <1>12, <1>13, <1>14, ClientKeeps

(* What a recv of a client changes.                                        *)
LEMMA ClientReceived ==
  ASSUME Types, NEW k \in Clients, NEW n \in Nat, ClientReceives(k, n)
  PROVE  /\ toClient' \in [Clients -> [Servers -> Seq(Cells)]]
         /\ toClient'[k][asked[k]] = Remaining(toClient[k][asked[k]], n)
         /\ \A j \in Clients, r \in Servers :
              j # k \/ r # asked[k] => toClient'[j][r] = toClient[j][r]
         /\ late' \in [Clients -> BOOLEAN]
         /\ toServer' = toServer
<1> DEFINE s == asked[k]
           rest == Remaining(toClient[k][s], n)
           isLate == late[k] \/ (n > 0 /\ Taken(toClient[k][s], n) = <<>> /\ ~ServerEnded(k, s))
<1>1. /\ toClient' = [toClient EXCEPT ![k][s] = rest]
      /\ late' = [late EXCEPT ![k] = isLate]
      /\ toServer' = toServer
  BY DEF ClientReceives
<1>2. isLate \in BOOLEAN /\ late \in [Clients -> BOOLEAN]
  BY DEF Types, ClientTypes
<1>3. toClient \in [Clients -> [Servers -> Seq(Cells)]] /\ s \in Servers
  BY AskedType DEF Types, ServerTypes, AskedIsServer
<1>4. rest \in Seq(Cells)
  BY <1>3, ReceiveType
<1> HIDE DEF rest, isLate, s
<1>5. late' \in [Clients -> BOOLEAN]
  BY <1>1, <1>2
<1>6. /\ toClient' \in [Clients -> [Servers -> Seq(Cells)]]
      /\ toClient'[k][s] = rest
      /\ \A j \in Clients, r \in Servers : j # k \/ r # s => toClient'[j][r] = toClient[j][r]
  BY <1>1, <1>3, <1>4, Update
<1>. QED  BY <1>1, <1>5, <1>6 DEF rest, s

(* Steps of a get that has asked.                                          *)
LEMMA GetKeeps ==
  ASSUME IInv, NEW k \in Clients, OneClient(k), Types',
         pc[k] \in {"header", "body", "rest", "next"},
         UNCHANGED <<sent, wpc, toServer>>,
         \/ asked'[k] = asked[k] /\ pc'[k] \in {"body", "rest", "next", "done"}
         \/ asked[k] = 0 /\ asked'[k] = 2 /\ pc'[k] = "ask",
         reply'[k] \notin Full =>
           /\ reply[k] \notin Full /\ reply'[k].size = <<>> /\ pc'[k] # "rest"
           /\ \A s \in Servers : toClient'[k][s] = toClient[k][s]
  PROVE  IInv'
<1>1. UNCHANGED <<cmd, wcmd, nodes>>
  BY DEF OneClient
<1>2. AtClient(k)
  BY DEF IInv, ConnectionInv
<1>3. cmd[k].op = "get" /\ pc'[k] \in {"body", "rest", "next", "done", "ask"}
  BY <1>2 DEF AtClient
<1>4. AtClient(k)'
  BY <1>1, <1>3 DEF AtClient
<1>5. ASSUME NEW s \in Servers PROVE AtServer(k, s)'
  <2>1. AtServer(k, s)
    BY DEF IInv, ConnectionInv
  <2>2. PutAt(k, s)'
    BY <1>1, <1>3 DEF PutAt
  <2>3. GetAt(k, s)'
    <3>1. Unasked(k, s)' => Unasked(k, s)
      BY DEF Unasked
    <3>. QED  BY <1>1, <2>1, <3>1 DEF AtServer, GetAt
  <2>4. ReplyAt(k, s)'
    BY <2>1 DEF AtServer, ReplyAt
  <2>5. WorkerAt(k, s)'
    BY <1>1, <1>3, <2>1 DEF AtServer, WorkerAt
  <2>. QED  BY <2>2, <2>3, <2>4, <2>5 DEF AtServer
<1>. QED  BY <1>4, <1>5, ClientKeeps

(* What a client makes of a header that it receives, or of none.           *)
LEMMA ReplyParsed ==
  ASSUME IInv, NEW k \in Clients, NEW old \in Good, reply[k] \in Full => old \in Full
  PROVE  LET stream == toClient[k][asked[k]]
             c == Parsed(old, Taken(stream, HdrLen))
         IN /\ c \in Good
            /\ c \notin Full => reply[k] \notin Full /\ c = old
                                /\ Remaining(stream, HdrLen) = stream
<1> DEFINE s == asked[k]
           stream == toClient[k][s]
           buf == Taken(stream, HdrLen)
           c == Parsed(old, buf)
<1>1. HdrLen \in Nat /\ HdrLen >= HdrLen
  BY DfsAssumption
<1>2. s \in Servers /\ stream \in Seq(Cells)
  BY AskedType DEF IInv, Types, ServerTypes, AskedIsServer
<1>3. ReplyAt(k, s)
  BY <1>2 DEF IInv, ConnectionInv, AtServer
<1>4. reply[k] \in Full \/ stream = <<>> \/ Begins(stream, Full)
  BY <1>3 DEF ReplyAt
<1>5. old \in Cmds
  BY DEF Good
<1> HIDE DEF stream
<1>6. buf \in Seq(Cells)
  BY <1>1, <1>2, ReceiveType
<1>7. CASE reply[k] \in Full
  BY <1>6, <1>7, ParsedFull, FullIsGood DEF stream
<1>8. CASE Begins(stream, Full)
  <2>1. Begins(buf, Full)
    BY <1>1, <1>2, <1>8, BeginsTaken
  <2>. QED  BY <1>5, <1>6, <2>1, ParsedWhole, FullIsGood DEF stream
<1>9. CASE reply[k] \notin Full /\ stream = <<>>
  <2>1. Len(stream) =< HdrLen
    BY <1>1, <1>9
  <2>2. buf = stream /\ Remaining(stream, HdrLen) = <<>>
    BY <1>1, <1>2, <2>1, ReceiveAll
  <2>3. c = old
    BY <1>9, <2>2, ParsedNothing
  <2>. QED  BY <1>9, <2>2, <2>3 DEF stream
<1>. QED  BY <1>4, <1>7, <1>8, <1>9

LEMMA ReceiveHeaderKeeps ==
  ASSUME IInv, NEW k \in Clients, ReceiveHeader(k), UNCHANGED power
  PROVE  IInv'
<1> DEFINE s == asked[k]
           c == Parsed(reply[k], Taken(toClient[k][s], HdrLen))
<1>1. /\ pc[k] = "header" /\ pc' = [pc EXCEPT ![k] = "body"]
      /\ ClientReceives(k, HdrLen)
      /\ reply' = [reply EXCEPT ![k] = c]
      /\ UNCHANGED <<cmd, sent, asked, left, got, fresh, cabinet, file, socket, wpc, wcmd,
                     nodes>>
  BY DEF ReceiveHeader, Goto, ofServer
<1>2. Types /\ ClientTypes /\ ServerTypes
  BY DEF IInv, Types
<1>3. reply[k] \in Good /\ HdrLen \in Nat
  BY <1>2, DfsAssumption DEF ClientTypes
<1>4. /\ c \in Good
      /\ c \notin Full => /\ reply[k] \notin Full /\ c = reply[k]
                          /\ Remaining(toClient[k][s], HdrLen) = toClient[k][s]
  BY <1>3, ReplyParsed
<1>5. /\ toClient' \in [Clients -> [Servers -> Seq(Cells)]]
      /\ toClient'[k][s] = Remaining(toClient[k][s], HdrLen)
      /\ \A j \in Clients, r \in Servers : j # k \/ r # s => toClient'[j][r] = toClient[j][r]
      /\ late' \in [Clients -> BOOLEAN]
      /\ toServer' = toServer
  BY <1>1, <1>2, <1>3, ClientReceived
<1> HIDE DEF s, c
<1>6. /\ pc' \in [Clients -> Pcs] /\ pc'[k] = "body"
      /\ \A j \in Clients : j # k => pc'[j] = pc[j]
  <2>1. "body" \in Pcs
    BY DEF Pcs
  <2>. QED  BY <1>1, <1>2, <2>1 DEF ClientTypes
<1>7. /\ reply' \in [Clients -> Good] /\ reply'[k] = c
      /\ \A j \in Clients : j # k => reply'[j] = reply[j]
  BY <1>1, <1>2, <1>4 DEF ClientTypes
<1>8. Types'
  <2>1. ClientTypes'
    BY <1>1, <1>2, <1>5, <1>6, <1>7 DEF ClientTypes
  <2>2. ServerTypes'
    BY <1>1, <1>2, <1>5 DEF ServerTypes, power
  <2>. QED  BY <2>1, <2>2 DEF Types
<1>9. OneClient(k)
  BY <1>1, <1>5, <1>6, <1>7 DEF OneClient
<1>10. reply'[k] \notin Full =>
         /\ reply[k] \notin Full /\ reply'[k].size = <<>> /\ pc'[k] # "rest"
         /\ \A r \in Servers : toClient'[k][r] = toClient[k][r]
  <2>1. AtClient(k)
    BY DEF IInv, ConnectionInv
  <2>2. reply[k] \notin Full => reply[k].size = <<>>
    BY <2>1 DEF AtClient
  <2>. QED  BY <1>4, <1>5, <1>6, <1>7, <2>2
<1>11. UNCHANGED <<sent, wpc, toServer>> /\ asked'[k] = asked[k]
  BY <1>1, <1>5
<1>. QED  BY <1>1, <1>6, <1>8, <1>9, <1>10, <1>11, GetKeeps

LEMMA ReceiveNextHeaderKeeps ==
  ASSUME IInv, NEW k \in Clients, ReceiveNextHeader(k), UNCHANGED power
  PROVE  IInv'
<1> DEFINE s == asked[k]
           old == [reply[k] EXCEPT !.op = ""]
           c == Parsed(old, Taken(toClient[k][s], HdrLen))
<1>1. /\ pc[k] = "next"
      /\ ClientReceives(k, HdrLen)
      /\ reply' = [reply EXCEPT ![k] = c]
      /\ \/ pc' = [pc EXCEPT ![k] = "body"] /\ asked' = asked
         \/ asked[k] = 0 /\ pc' = [pc EXCEPT ![k] = "ask"] /\ asked' = [asked EXCEPT ![k] = 2]
         \/ pc' = [pc EXCEPT ![k] = "done"] /\ asked' = asked
      /\ UNCHANGED <<cmd, sent, left, got, fresh, cabinet, file, socket, wpc, wcmd, nodes>>
  BY DEF ReceiveNextHeader, Goto, ofServer
<1>2. Types /\ ClientTypes /\ ServerTypes
  BY DEF IInv, Types
<1>3. /\ old \in Good /\ HdrLen \in Nat /\ (reply[k] \in Full => old \in Full)
      /\ old.size = reply[k].size
  <2>1. reply[k] \in Good
    BY <1>2 DEF ClientTypes
  <2>2. reply[k] \in Cmds
    BY <2>1 DEF Good
  <2>3. old \in Cmds /\ old.op = "" /\ old.size = reply[k].size
    BY <2>2 DEF Cmds, Ops
  <2>4. reply[k] \in Full => old \in Full
    BY DEF Full, Ops
  <2>5. old \in Good
    BY <2>3 DEF Good
  <2>. QED  BY <2>3, <2>4, <2>5, DfsAssumption
<1> HIDE DEF old
<1>4. /\ c \in Good
      /\ c \notin Full => /\ reply[k] \notin Full /\ c = old
                          /\ Remaining(toClient[k][s], HdrLen) = toClient[k][s]
  BY <1>3, ReplyParsed
<1>5. /\ toClient' \in [Clients -> [Servers -> Seq(Cells)]]
      /\ toClient'[k][s] = Remaining(toClient[k][s], HdrLen)
      /\ \A j \in Clients, r \in Servers : j # k \/ r # s => toClient'[j][r] = toClient[j][r]
      /\ late' \in [Clients -> BOOLEAN]
      /\ toServer' = toServer
  BY <1>1, <1>2, <1>3, ClientReceived
<1> HIDE DEF s, c
<1>6. /\ pc' \in [Clients -> Pcs] /\ asked' \in [Clients -> {0, 2}]
      /\ \/ asked'[k] = asked[k] /\ pc'[k] \in {"body", "done"}
         \/ asked[k] = 0 /\ asked'[k] = 2 /\ pc'[k] = "ask"
      /\ \A j \in Clients : j # k => pc'[j] = pc[j] /\ asked'[j] = asked[j]
  <2>1. {"body", "ask", "done"} \subseteq Pcs
    BY DEF Pcs
  <2>2. pc \in [Clients -> Pcs] /\ asked \in [Clients -> {0, 2}]
    BY <1>2 DEF ClientTypes
  <2>. QED  BY <1>1, <2>1, <2>2
<1>7. /\ reply' \in [Clients -> Good] /\ reply'[k] = c
      /\ \A j \in Clients : j # k => reply'[j] = reply[j]
  BY <1>1, <1>2, <1>4 DEF ClientTypes
<1>8. Types'
  <2>1. ClientTypes'
    BY <1>1, <1>2, <1>5, <1>6, <1>7 DEF ClientTypes
  <2>2. ServerTypes'
    BY <1>1, <1>2, <1>5 DEF ServerTypes, power
  <2>. QED  BY <2>1, <2>2 DEF Types
<1>9. OneClient(k)
  BY <1>1, <1>5, <1>6, <1>7 DEF OneClient
<1>10. reply'[k] \notin Full =>
         /\ reply[k] \notin Full /\ reply'[k].size = <<>> /\ pc'[k] # "rest"
         /\ \A r \in Servers : toClient'[k][r] = toClient[k][r]
  <2>1. AtClient(k)
    BY DEF IInv, ConnectionInv
  <2>2. reply[k] \notin Full => reply[k].size = <<>>
    BY <2>1 DEF AtClient
  <2>. QED  BY <1>3, <1>4, <1>5, <1>6, <1>7, <2>2
<1>11. UNCHANGED <<sent, wpc, toServer>>
  BY <1>1, <1>5
<1>. QED  BY <1>1, <1>6, <1>8, <1>9, <1>10, <1>11, GetKeeps

LEMMA ReceiveChunkKeeps ==
  ASSUME IInv, NEW k \in Clients, ReceiveChunk(k), UNCHANGED power
  PROVE  IInv'
<1> DEFINE s == asked[k]
           limit == IF pc[k] = "rest" THEN left[k] ELSE Value(reply[k].size)
           buf == Taken(toClient[k][s], limit)
<1>1. /\ pc[k] \in {"body", "rest"}
      /\ ClientReceives(k, limit)
      /\ got' = [got EXCEPT ![k] = got[k] \o Text(buf)]
      /\ \/ /\ Len(buf) \in 1..limit - 1
            /\ pc' = [pc EXCEPT ![k] = "rest"]
            /\ left' = [left EXCEPT ![k] = limit - Len(buf)]
         \/ /\ pc' = [pc EXCEPT ![k] = "next"]
            /\ left' = [left EXCEPT ![k] = 0]
      /\ UNCHANGED <<cmd, sent, asked, reply, fresh, cabinet, file, socket, wpc, wcmd, nodes>>
  BY DEF ReceiveChunk, Goto, ofServer
<1>2. Types /\ ClientTypes /\ ServerTypes
  BY DEF IInv, Types
<1>3. AtClient(k)
  BY DEF IInv, ConnectionInv
<1>4. /\ limit \in Nat
      /\ reply[k] \notin Full => limit = 0 /\ pc[k] # "rest"
  <2>1. left[k] \in Nat
    BY <1>2 DEF ClientTypes
  <2>2. reply[k].size \in Sizes
    BY <1>2 DEF ClientTypes, Good, Cmds
  <2>3. reply[k] \notin Full => reply[k].size = <<>> /\ pc[k] # "rest"
    BY <1>3 DEF AtClient
  <2>4. Value(reply[k].size) \in Nat
    BY <2>2, ValueType
  <2>5. reply[k].size = <<>> => Value(reply[k].size) = 0
    BY <2>2, ValueType
  <2>. QED  BY <2>1, <2>3, <2>4, <2>5
<1>5. s \in Servers /\ toClient[k][s] \in Seq(Cells)
  BY <1>2, AskedType DEF ServerTypes, AskedIsServer
<1>6. /\ toClient' \in [Clients -> [Servers -> Seq(Cells)]]
      /\ toClient'[k][s] = Remaining(toClient[k][s], limit)
      /\ \A j \in Clients, r \in Servers : j # k \/ r # s => toClient'[j][r] = toClient[j][r]
      /\ late' \in [Clients -> BOOLEAN]
      /\ toServer' = toServer
  BY <1>1, <1>2, <1>4, ClientReceived
<1> HIDE DEF limit, s
<1>7. /\ buf \in Seq(Cells) /\ Len(buf) =< limit
      /\ limit = 0 => Remaining(toClient[k][s], limit) = toClient[k][s]
  <2> DEFINE stream == toClient[k][s]
  <2>1. stream \in Seq(Cells)
    BY <1>5
  <2> HIDE DEF stream
  <2>2. Taken(stream, limit) \in Seq(Cells) /\ Len(Taken(stream, limit)) =< limit
    BY <1>4, <2>1, Receive
  <2>3. limit = 0 => Remaining(stream, limit) = stream
    BY <1>4, <2>1, Receive
  <2>. QED  BY <2>2, <2>3 DEF stream
<1> HIDE DEF buf
<1>8. Text(buf) \in Seq(Cells \ {<<"nul">>})
  <2> DEFINE text == Text(buf)
             n == Len(text)
  <2>1. text \in Seq(Cells) /\ \A i \in 1..n : text[i] = buf[i] /\ buf[i] # <<"nul">>
    BY <1>7, TextIs
  <2> HIDE DEF text
  <2>2. \A i \in 1..n : text[i] \in Cells \ {<<"nul">>}
    BY <2>1
  <2>3. n \in Nat /\ text = [i \in 1..n |-> text[i]]
    BY <2>1
  <2> HIDE DEF n
  <2>4. [i \in 1..n |-> text[i]] \in Seq(Cells \ {<<"nul">>})
    BY <2>2, <2>3
  <2>. QED  BY <2>3, <2>4 DEF text
<1>9. got' \in [Clients -> Seq(Cells \ {<<"nul">>})]
  <2> DEFINE S == Cells \ {<<"nul">>}
  <2>1. got \in [Clients -> Seq(S)] /\ Text(buf) \in Seq(S)
    BY <1>2, <1>8 DEF ClientTypes
  <2> HIDE DEF S
  <2>2. got[k] \o Text(buf) \in Seq(S)
    BY <2>1
  <2>3. got' \in [Clients -> Seq(S)]
    BY <1>1, <2>1, <2>2
  <2>. QED  BY <2>3 DEF S
<1>10. left' \in [Clients -> Nat]
  <2>1. Len(buf) \in Nat
    BY <1>7
  <2>2. limit - Len(buf) \in Nat
    BY <1>4, <1>7, <2>1
  <2>3. left \in [Clients -> Nat]
    BY <1>2 DEF ClientTypes
  <2>. QED  BY <1>1, <2>2, <2>3
<1>11. /\ pc' \in [Clients -> Pcs]
       /\ pc'[k] \in {"rest", "next"}
       /\ limit = 0 => pc'[k] = "next"
       /\ \A j \in Clients : j # k => pc'[j] = pc[j]
  <2>1. {"rest", "next"} \subseteq Pcs
    BY DEF Pcs
  <2>2. pc \in [Clients -> Pcs]
    BY <1>2 DEF ClientTypes
  <2>3. limit = 0 => Len(buf) \notin 1..limit - 1
    BY <1>7
  <2>. QED  BY <1>1, <2>1, <2>2, <2>3
<1>12. Types'
  <2>1. ClientTypes'
    BY <1>1, <1>2, <1>6, <1>9, <1>10, <1>11 DEF ClientTypes
  <2>2. ServerTypes'
    BY <1>1, <1>2, <1>6 DEF ServerTypes, power
  <2>. QED  BY <2>1, <2>2 DEF Types
<1>13. OneClient(k)
  BY <1>1, <1>6, <1>11 DEF OneClient
<1>14. reply'[k] \notin Full =>
         /\ reply[k] \notin Full /\ reply'[k].size = <<>> /\ pc'[k] # "rest"
         /\ \A r \in Servers : toClient'[k][r] = toClient[k][r]
  <2>1. reply[k] \notin Full => reply[k].size = <<>>
    BY <1>3 DEF AtClient
  <2>. QED  BY <1>1, <1>4, <1>6, <1>7, <1>11, <2>1
<1>15. UNCHANGED <<sent, wpc, toServer>> /\ asked'[k] = asked[k]
  BY <1>1, <1>6
<1>. QED  BY <1>1, <1>11, <1>12, <1>13, <1>14, <1>15, GetKeeps

LEMMA ClientKeepsIInv ==
  ASSUME IInv, NEW k \in Clients, Client(k)
  PROVE  IInv'
<1>1. UNCHANGED power
  BY DEF Client
<1>. QED
  BY <1>1, ConnectKeeps, RefuseKeeps, PutSendKeeps, AskKeeps, ReceiveHeaderKeeps,
     ReceiveChunkKeeps, ReceiveNextHeaderKeeps DEF Client

LEMMA StutterKeeps ==
  ASSUME IInv, UNCHANGED vars
  PROVE  IInv'
<1>1. UNCHANGED <<ofClient, file, socket, wpc, wcmd, nodes, net, up, cabinet>>
  BY DEF vars, ofServer, power
<1>2. up \in [Servers -> BOOLEAN] /\ cabinet \in [Servers -> Seq(Full)]
  BY DEF IInv, Types, ServerTypes
<1>3. PowerInv'
  BY <1>1 DEF IInv, PowerInv, Joined
<1>. QED  BY <1>1, <1>2, <1>3, PowerKeeps

LEMMA NextKeeps ==
  ASSUME IInv, [Next]_vars
  PROVE  IInv'
<1>1. CASE \E k \in Clients : Client(k)
  BY <1>1, ClientKeepsIInv
<1>2. CASE \E k \in Clients : SendNothing(k)
  BY <1>2, StutterKeeps DEF SendNothing
<1>3. CASE \E k \in Clients, s \in Servers : Worker(k, s)
  BY <1>3, WorkerKeepsIInv
<1>4. CASE \E k \in Clients, s \in Servers : Die(k, s)
  BY <1>4, DieKeeps
<1>5. CASE \E s \in Servers : Stop(s)
  BY <1>5, StopKeeps
<1>6. CASE \E s \in Servers : StartAgain(s)
  BY <1>6, StartAgainKeeps
<1>7. CASE Terminating \/ UNCHANGED vars
  BY <1>7, StutterKeeps DEF Terminating
<1>. QED  BY <1>1, <1>2, <1>3, <1>4, <1>5, <1>6, <1>7 DEF Next

(* The cells of streams are of the kinds that a stream has.                *)
LEMMA CellsAreOfStreams ==
  ASSUME NEW stream \in Seq(AnyCells)
  PROVE  IsStream(stream)
<1>1. \A i \in DOMAIN stream : stream[i] \in AnyCells
  OBVIOUS
<1>2. \A c \in AnyCells : c[1] \in {"head", "byte", "nul", "memory"}
  BY DEF AnyCells, Plain
<1>. QED  BY <1>1, <1>2 DEF IsStream

LEMMA IInvHasTypes ==
  ASSUME IInv
  PROVE  TypeOK
<1>1. ClientTypes /\ ServerTypes
  BY DEF IInv, Types
<1>2. ASSUME NEW k \in Clients
      PROVE  /\ pc[k] \in {"start", "put", "ask", "header", "body", "rest", "next",
                           "done", "refused", "killed"}
             /\ sent[k] \in Nat /\ asked[k] \in {0, 2}
             /\ fresh[k] \subseteq Versions /\ late[k] \in BOOLEAN
             /\ \A i \in DOMAIN got[k] : got[k][i] # <<"nul">>
  <2>1. /\ pc[k] \in Pcs /\ sent[k] \in Nat /\ asked[k] \in {0, 2}
        /\ fresh[k] \subseteq Versions /\ late[k] \in BOOLEAN
        /\ got[k] \in Seq(Cells \ {<<"nul">>})
    BY <1>1 DEF ClientTypes
  <2>2. \A i \in DOMAIN got[k] : got[k][i] \in Cells \ {<<"nul">>}
    <3> DEFINE S == Cells \ {<<"nul">>}
               list == got[k]
    <3>1. list \in Seq(S)
      BY <2>1
    <3> HIDE DEF S, list
    <3>2. \A i \in DOMAIN list : list[i] \in S
      BY <3>1
    <3>. QED  BY <3>2 DEF S, list
  <2>. QED  BY <2>1, <2>2 DEF Pcs
<1>3. ASSUME NEW s \in Servers
      PROVE  /\ up[s] \in BOOLEAN /\ socket[s] \in Clients \cup {None}
             /\ ~up[s] => cabinet[s] = <<>> /\ Joined(s)
             /\ DOMAIN file[s] \subseteq Ids
  <2>1. DOMAIN file[s] \subseteq Ids
    BY <1>1 DEF ServerTypes, Contents
  <2>. QED  BY <1>1, <2>1 DEF ServerTypes, IInv, PowerInv
<1>4. ASSUME NEW s \in Servers, NEW k \in Clients
      PROVE  /\ IsPlace(wpc[k][s]) /\ Len(nodes[k][s]) <= 2
             /\ socket[s] = k => wpc[k][s] \in {"first", "body", "rest", "next"}
             /\ IsStream(toServer[k][s]) /\ IsStream(toClient[k][s])
  <2>1. WorkerAt(k, s)
    BY DEF IInv, ConnectionInv, AtServer
  <2>2. IsPlace(wpc[k][s])
    BY <1>1 DEF ServerTypes, Places, IsPlace
  <2>3. socket[s] = k => wpc[k][s] \in {"first", "body", "rest", "next"}
    BY DEF IInv, SocketInv, RecvPlaces
  <2>4. toServer[k][s] \in Seq(AnyCells) /\ toClient[k][s] \in Seq(AnyCells)
    <3>1. Cells \subseteq AnyCells
      BY DEF Cells, AnyCells, Full, Cmds
    <3>2. toServer[k][s] \in Seq(AnyCells) /\ toClient[k][s] \in Seq(Cells)
      BY <1>1 DEF ServerTypes
    <3>. QED  BY <3>1, <3>2
  <2>. QED  BY <2>1, <2>2, <2>3, <2>4, CellsAreOfStreams DEF WorkerAt
<1>. QED  BY <1>2, <1>3, <1>4 DEF TypeOK

LEMMA Inductive == Spec => []IInv
<1>1. Init => IInv
  BY InitKeeps
<1>2. IInv /\ [Next]_vars => IInv'
  BY NextKeeps
<1>. QED  BY <1>1, <1>2, PTL DEF Spec

(* Every variable has its type, for any number of clients, files and stops:*)
(* what a client writes has no NUL in it, a get asks servers 0 and 2 only, *)
(* a semaphore is only held where a worker receives, a server that does    *)
(* not run has no drawers and no workers, a chunk's file is named by what  *)
(* some header said, whole, and a worker never has more than two nodes to  *)
(* send.                                                                   *)
THEOREM TypeCorrect == Spec => []TypeOK
<1>1. IInv => TypeOK
  BY IInvHasTypes
<1>. QED  BY <1>1, Inductive, PTL

(* Every node of a cabinet has its chunk on the disk, or its worker is     *)
(* about to create it: handle_put_dfs adds the node and only then opens    *)
(* the file, and a server that is started again has no nodes.              *)
THEOREM ChunksOfNodes == Spec => []NodesHaveChunks
<1>1. IInv => NodesHaveChunks
  BY DEF IInv
<1>. QED  BY <1>1, Inductive, PTL

-----------------------------------------------------------------------------
(* Where headers come from: what a server holds of a chunk says which      *)
(* connection it came on.                                                  *)
Parts(n, s) == {Part(n, s, 0), Part(n, s, 1)}

(* The connections on which a get asks for the file.                       *)
Answered(k, s) == cmd[k].op # "put" /\ s = 0

(* The df_serv_cmds that the worker of k at s may have.  A get asks        *)
(* server 2 with what it has of server 0, even when that is a put.         *)
Owned(k, s) ==
  {c \in Cmds :
     /\ c.op # (IF Answered(k, s) THEN "put" ELSE "get")
     /\ Len(c.size) =< 2
     /\ c \in Full =>
          IF cmd[k].op = "put"
          THEN c.ver = k /\ c.name \in Range(cmd[k].files) /\ c.chunk \in Parts(c.name, s)
          ELSE s \in {0, 2} /\ c.chunk \in Parts(c.name, 0)}

(* Those about a chunk that belongs on server 0.  No length has more than  *)
(* two digits, even when it is printed over another.                       *)
Home == {c \in Cmds : Len(c.size) =< 2 /\ (c \in Full => c.chunk \in Parts(c.name, 0))}

(* What clients send, and what they are sent.                              *)
Sent(C) == ({"head"} \X C \X Nat) \cup ({"byte"} \X (Names \X Versions) \X Nat)
Replied(C) == Sent(C) \cup {<<"nul">>, <<"memory">>}

Origin(k, s) ==
  /\ wcmd[k][s] \in Owned(k, s)
  /\ toServer[k][s] \in Seq(Sent(Owned(k, s)))
  /\ Answered(k, s) => nodes[k][s] \in Seq(Home) /\ toClient[k][s] \in Seq(Replied(Home))
  /\ ~Answered(k, s) =>
       wpc[k][s] \notin {"find", "send", "sendbody"} /\ toClient[k][s] = <<>>

ReplyOrigin(k) ==
  /\ reply[k] \in Home
  /\ pc[k] \in {"start", "ask"} /\ asked[k] = 0 => cmd[k].op = "put" \/ reply[k].op # "put"
  /\ asked[k] = 2 => reply[k].op # "get"
  /\ pc[k] = "start" => asked[k] = 0

StoreOrigin ==
  /\ cabinet[0] \in Seq(Home)
  /\ \A id \in DOMAIN file[0] : file[0][id] \in Seq(Sent(Home))

OriginInv ==
  /\ disturbed \in [Clients -> [Servers -> BOOLEAN]]
  /\ StoreOrigin
  /\ \A k \in Clients : ReplyOrigin(k) /\ \A s \in Servers : Origin(k, s)
-----------------------------------------------------------------------------
(* One entry of a table is replaced, by anything.                          *)
LEMMA Replaced ==
  ASSUME NEW T, NEW f \in [Clients -> [Servers -> T]], NEW k \in Clients, NEW s \in Servers,
         NEW v, NEW g, g = [f EXCEPT ![k][s] = v]
  PROVE  /\ g[k][s] = v
         /\ \A j \in Clients, r \in Servers : j # k \/ r # s => g[j][r] = f[j][r]
<1>1. g = [f EXCEPT ![k] = [f[k] EXCEPT ![s] = v]]
  OBVIOUS
<1>2. g[k] = [f[k] EXCEPT ![s] = v] /\ \A j \in Clients : j # k => g[j] = f[j]
  BY <1>1
<1>3. f[k] \in [Servers -> T]
  OBVIOUS
<1>4. g[k][s] = v /\ \A r \in Servers : r # s => g[k][r] = f[k][r]
  BY <1>2, <1>3
<1>. QED  BY <1>2, <1>4

(* What the steps of a worker do to the tables of connections.             *)
Elsewhere(k, s, f, g) == \A j \in Clients, r \in Servers : j # k \/ r # s => g[j][r] = f[j][r]

ReplacedBy(k, s, f, g, v) == g[k][s] = v /\ Elsewhere(k, s, f, g)

LEMMA Entry ==
  ASSUME NEW T, NEW f \in [Clients -> [Servers -> T]], NEW k \in Clients, NEW s \in Servers,
         NEW v, NEW g, g = [f EXCEPT ![k][s] = v]
  PROVE  ReplacedBy(k, s, f, g, v)
BY Replaced DEF ReplacedBy, Elsewhere

LEMMA Tables ==
  ASSUME Types, OriginInv
  PROVE  /\ wpc \in [Clients -> [Servers -> Places]]
         /\ wcmd \in [Clients -> [Servers -> Good]]
         /\ nodes \in [Clients -> [Servers -> Seq(Full)]]
         /\ toServer \in [Clients -> [Servers -> Seq(AnyCells)]]
         /\ toClient \in [Clients -> [Servers -> Seq(Cells)]]
         /\ disturbed \in [Clients -> [Servers -> BOOLEAN]]
         /\ cabinet \in [Servers -> Seq(Full)] /\ file \in [Servers -> Contents]
BY DEF Types, ServerTypes, OriginInv

LEMMA StepTo ==
  ASSUME Types, OriginInv, NEW k \in Clients, NEW s \in Servers, NEW l, NEW m, Step(k, s, l, m)
  PROVE  wpc[k][s] = l /\ ReplacedBy(k, s, wpc, wpc', m)
BY Tables, Entry DEF Step

LEMMA ReceivesAt ==
  ASSUME Types, OriginInv, NEW k \in Clients, NEW s \in Servers, NEW n, ServerReceives(k, s, n)
  PROVE  /\ toServer[k][s] # <<>> \/ ClientEnded(k)
         /\ ReplacedBy(k, s, toServer, toServer', Remaining(toServer[k][s], n))
         /\ ReplacedBy(k, s, disturbed, disturbed',
                       disturbed[k][s] \/ Crosses(Taken(toServer[k][s], n)))
         /\ toClient' = toClient
<1>1. /\ toServer[k][s] # <<>> \/ ClientEnded(k)
      /\ toServer' = [toServer EXCEPT ![k][s] = Remaining(toServer[k][s], n)]
      /\ disturbed' = [disturbed EXCEPT ![k][s] =
                         disturbed[k][s] \/ Crosses(Taken(toServer[k][s], n))]
      /\ toClient' = toClient
  BY DEF ServerReceives
<1>. QED  BY <1>1, Tables, Entry

(* Every other connection is left alone by a step of one worker.           *)
Quiet(k, s) ==
  /\ UNCHANGED <<ofClient, power>>
  /\ Elsewhere(k, s, wpc, wpc') /\ Elsewhere(k, s, wcmd, wcmd')
  /\ Elsewhere(k, s, nodes, nodes') /\ Elsewhere(k, s, toServer, toServer')
  /\ Elsewhere(k, s, toClient, toClient') /\ Elsewhere(k, s, disturbed, disturbed')

LEMMA SameElsewhere ==
  ASSUME NEW k, NEW s, NEW f, NEW g, g = f
  PROVE  Elsewhere(k, s, f, g)
BY DEF Elsewhere

LEMMA EntryElsewhere ==
  ASSUME NEW T, NEW f \in [Clients -> [Servers -> T]], NEW k \in Clients, NEW s \in Servers,
         NEW v, NEW g, g = [f EXCEPT ![k][s] = v]
  PROVE  Elsewhere(k, s, f, g)
BY Replaced DEF Elsewhere

LEMMA WorkerIsQuiet ==
  ASSUME Types, OriginInv, NEW k \in Clients, NEW s \in Servers, Worker(k, s)
  PROVE  Quiet(k, s)
<1>1. UNCHANGED <<ofClient, power>>
  BY DEF Worker
<1>2. Elsewhere(k, s, wpc, wpc')
  <2>1. wpc' = wpc \/ \E m : wpc' = [wpc EXCEPT ![k][s] = m]
    BY DEF Worker, Wait, ReceiveFirst, ReceiveNext, AddNode, CreateChunk, ReceiveBody, Find,
           SendHeader, SendBody, NodeSent, Step
  <2>. QED  BY <2>1, Tables, EntryElsewhere, SameElsewhere
<1>3. Elsewhere(k, s, wcmd, wcmd')
  <2>1. wcmd' = wcmd \/ \E m : wcmd' = [wcmd EXCEPT ![k][s] = m]
    BY DEF Worker, Wait, ReceiveFirst, ReceiveNext, AddNode, CreateChunk, ReceiveBody, Find,
           SendHeader, SendBody
  <2>. QED  BY <2>1, Tables, EntryElsewhere, SameElsewhere
<1>4. Elsewhere(k, s, nodes, nodes')
  <2>1. nodes' = nodes \/ \E m : nodes' = [nodes EXCEPT ![k][s] = m]
    BY DEF Worker, Wait, ReceiveFirst, ReceiveNext, AddNode, CreateChunk, ReceiveBody, Find,
           SendHeader, SendBody, NodeSent
  <2>. QED  BY <2>1, Tables, EntryElsewhere, SameElsewhere
<1>5. Elsewhere(k, s, toServer, toServer')
  <2>1. toServer' = toServer \/ \E m : toServer' = [toServer EXCEPT ![k][s] = m]
    BY DEF Worker, Wait, ReceiveFirst, ReceiveNext, AddNode, CreateChunk, ReceiveBody, Find,
           SendHeader, SendBody, ServerReceives, ServerSends, net
  <2>. QED  BY <2>1, Tables, EntryElsewhere, SameElsewhere
<1>6. Elsewhere(k, s, toClient, toClient')
  <2>1. toClient' = toClient \/ \E m : toClient' = [toClient EXCEPT ![k][s] = m]
    BY DEF Worker, Wait, ReceiveFirst, ReceiveNext, AddNode, CreateChunk, ReceiveBody, Find,
           SendHeader, SendBody, ServerReceives, ServerSends, net
  <2>. QED  BY <2>1, Tables, EntryElsewhere, SameElsewhere
<1>7. Elsewhere(k, s, disturbed, disturbed')
  <2>1. disturbed' = disturbed \/ \E m : disturbed' = [disturbed EXCEPT ![k][s] = m]
    BY DEF Worker, Wait, ReceiveFirst, ReceiveNext, AddNode, CreateChunk, ReceiveBody, Find,
           SendHeader, SendBody, ServerReceives, net
  <2>. QED  BY <2>1, Tables, EntryElsewhere, SameElsewhere
<1>. QED  BY <1>1, <1>2, <1>3, <1>4, <1>5, <1>6, <1>7 DEF Quiet

(* A set of df_serv_cmds that parsing headers of that set does not leave.  *)
Closed(C) ==
  \A c, h \in C : [c EXCEPT !.op = h.op] \in C /\ Fields(c, h) \in C

LEMMA FieldsOf ==
  ASSUME NEW c \in Cmds, NEW h \in Cmds
  PROVE  /\ Fields(c, h) \in Cmds
         /\ Fields(c, h).op = c.op /\ Fields(c, h).name = h.name
         /\ Fields(c, h).ver = h.ver /\ Fields(c, h).chunk = h.chunk
         /\ Fields(c, h) \in Full => h \in Full
         /\ Len(c.size) =< 2 /\ Len(h.size) =< 2 => Len(Fields(c, h).size) =< 2
<1> DEFINE size == Overwrite(c.size, h.size)
<1>1. size \in Sizes /\ c.op \in Ops /\ h.op \in Ops /\ c.size \in Sizes /\ h.size \in Sizes
  BY OverwriteType DEF Cmds, Sizes
<1>2. Len(c.size) =< 2 /\ Len(h.size) =< 2 => Len(size) =< 2
  <2> DEFINE a == c.size
             b == h.size
  <2>1. a \in Seq(0..Base - 1) /\ b \in Seq(0..Base - 1)
    BY <1>1 DEF Sizes
  <2> HIDE DEF a, b
  <2>2. Len(a) =< 2 /\ Len(b) =< 2 => Len(b \o SubSeq(a, Len(b) + 1, Len(a))) =< 2
    BY <2>1
  <2>. QED  BY <2>2 DEF Overwrite, a, b
<1> HIDE DEF size
<1>3. Fields(c, h) = [h EXCEPT !.op = c.op, !.size = size]
  BY DEF Fields, size
<1>. QED  BY <1>1, <1>2, <1>3 DEF Cmds, Full

LEMMA OpOf ==
  ASSUME NEW c \in Cmds, NEW op \in Ops
  PROVE  /\ [c EXCEPT !.op = op] \in Cmds
         /\ [c EXCEPT !.op = op].op = op /\ [c EXCEPT !.op = op].name = c.name
         /\ [c EXCEPT !.op = op].ver = c.ver /\ [c EXCEPT !.op = op].chunk = c.chunk
         /\ [c EXCEPT !.op = op].size = c.size
         /\ [c EXCEPT !.op = op] \in Full <=> c \in Full
BY DEF Cmds, Full

LEMMA OwnedClosed ==
  ASSUME NEW k, NEW s
  PROVE  /\ Closed(Owned(k, s)) /\ Owned(k, s) \subseteq Cmds
         /\ \A c \in Owned(k, s) : [c EXCEPT !.op = ""] \in Owned(k, s)
<1>1. Owned(k, s) \subseteq Cmds
  BY DEF Owned
<1>2. ASSUME NEW c \in Owned(k, s), NEW op \in Ops,
             op # (IF Answered(k, s) THEN "put" ELSE "get")
      PROVE  [c EXCEPT !.op = op] \in Owned(k, s)
  <2> DEFINE d == [c EXCEPT !.op = op]
  <2>1. /\ d \in Cmds /\ d.op = op /\ d.name = c.name /\ d.ver = c.ver /\ d.chunk = c.chunk
        /\ d.size = c.size /\ (d \in Full <=> c \in Full)
    BY <1>1, OpOf
  <2> HIDE DEF d
  <2>2. d \in Owned(k, s)
    BY <1>2, <2>1 DEF Owned
  <2>. QED  BY <2>2 DEF d
<1>3. ASSUME NEW c \in Owned(k, s), NEW h \in Owned(k, s)
      PROVE  Fields(c, h) \in Owned(k, s)
  <2> DEFINE d == Fields(c, h)
  <2>1. /\ d \in Cmds /\ d.op = c.op /\ d.name = h.name /\ d.ver = h.ver /\ d.chunk = h.chunk
        /\ d \in Full => h \in Full
        /\ Len(c.size) =< 2 /\ Len(h.size) =< 2 => Len(d.size) =< 2
    BY <1>1, FieldsOf
  <2> HIDE DEF d
  <2>2. d \in Owned(k, s)
    BY <2>1 DEF Owned
  <2>. QED  BY <2>2 DEF d
<1>4. \A h \in Owned(k, s) : h.op \in Ops /\ h.op # (IF Answered(k, s) THEN "put" ELSE "get")
  BY DEF Owned, Cmds
<1>5. Closed(Owned(k, s))
  BY <1>2, <1>3, <1>4 DEF Closed
<1>6. "" \in Ops /\ "" # (IF Answered(k, s) THEN "put" ELSE "get")
  BY DEF Ops
<1>. QED  BY <1>1, <1>2, <1>5, <1>6

LEMMA HomeClosed ==
  /\ Closed(Home) /\ Home \subseteq Cmds
  /\ \A c \in Home, op \in Ops : [c EXCEPT !.op = op] \in Home
<1>1. Home \subseteq Cmds
  BY DEF Home
<1>2. ASSUME NEW c \in Home, NEW op \in Ops
      PROVE  [c EXCEPT !.op = op] \in Home
  <2> DEFINE d == [c EXCEPT !.op = op]
  <2>1. /\ d \in Cmds /\ d.name = c.name /\ d.chunk = c.chunk
        /\ d.size = c.size /\ (d \in Full <=> c \in Full)
    BY <1>1, OpOf
  <2> HIDE DEF d
  <2>2. d \in Home
    BY <2>1 DEF Home
  <2>. QED  BY <2>2 DEF d
<1>3. ASSUME NEW c \in Home, NEW h \in Home
      PROVE  Fields(c, h) \in Home
  <2> DEFINE d == Fields(c, h)
  <2>1. /\ d \in Cmds /\ d.name = h.name /\ d.chunk = h.chunk
        /\ d \in Full => h \in Full
        /\ Len(c.size) =< 2 /\ Len(h.size) =< 2 => Len(d.size) =< 2
    BY <1>1, FieldsOf
  <2> HIDE DEF d
  <2>2. d \in Home
    BY <2>1 DEF Home
  <2>. QED  BY <2>2 DEF d
<1>4. \A h \in Home : h.op \in Ops
  BY <1>1 DEF Cmds
<1>. QED  BY <1>1, <1>2, <1>3, <1>4 DEF Closed

(* What is read from headers of a closed set stays in it.                  *)
LEMMA ParsedClosed ==
  ASSUME NEW C, Closed(C), NEW old \in C, NEW buf \in Seq(Replied(C))
  PROVE  Parsed(old, buf) \in C
<1> DEFINE text == Text(buf)
           n == Len(text)
<1>1. text \in Seq(Replied(C))
  BY TextIs
<1>2. PICK t : /\ t[0] = old
               /\ \A i \in 1..n : t[i] = Line(text, t[i - 1], i)
               /\ Parsed(old, buf) = t[n]
  BY <1>1, ParsedByCells
<1> HIDE DEF text
<1>3. ASSUME NEW i \in 1..n, NEW c \in C
      PROVE  Line(text, c, i) \in C
  <2>1. text[i] \in Replied(C)
    BY <1>1
  <2>2. text[i][1] = "head" => text[i][2] \in C
    BY <2>1 DEF Replied, Sent
  <2> DEFINE h == text[i][2]
  <2>3. \/ Line(text, c, i) = [c EXCEPT !.op = h.op] /\ h \in C
        \/ Line(text, c, i) = Fields(c, h) /\ h \in C
        \/ Line(text, c, i) = c
    <3>1. /\ IsLine(text, i, 1) => h \in C
          /\ IsLine(text, i, 2) => h \in C
      BY <2>2 DEF IsLine
    <3>2. ~(IsLine(text, i, 1) /\ IsLine(text, i, 2))
      BY DEF IsLine
    <3> HIDE DEF h
    <3>3. CASE IsLine(text, i, 2)
      BY <3>1, <3>2, <3>3 DEF Line, h
    <3>4. CASE ~IsLine(text, i, 2)
      BY <3>1, <3>4 DEF Line, h
    <3>. QED  BY <3>3, <3>4
  <2> HIDE DEF h
  <2>. QED  BY <2>3 DEF Closed
<1> DEFINE P == {m \in Nat : m =< n => t[m] \in C}
<1>4. ASSUME NEW m \in Nat, \A l \in Nat : l < m => l \in P
      PROVE  m \in P
  <2> SUFFICES ASSUME m =< n PROVE t[m] \in C
    OBVIOUS
  <2>1. CASE m = 0
    BY <1>2, <2>1
  <2>2. CASE m # 0
    <3>1. m \in 1..n /\ m - 1 \in Nat /\ m - 1 < m /\ m - 1 =< n
      BY <1>1, <2>2
    <3>2. t[m - 1] \in C
      BY <1>4, <3>1
    <3>. QED  BY <1>2, <1>3, <3>1, <3>2
  <2>. QED  BY <2>1, <2>2
<1>5. n \in Nat /\ n =< n
  BY <1>1
<1>6. n \in P
  <2> HIDE DEF P, n
  <2>. QED  BY <1>4, <1>5, NaturalsAll
<1>. QED  BY <1>2, <1>5, <1>6

LEMMA SentIsReplied ==
  ASSUME NEW C, NEW cells \in Seq(Sent(C))
  PROVE  cells \in Seq(Replied(C))
<1>1. Sent(C) \subseteq Replied(C)
  BY DEF Replied
<1>. QED  BY <1>1

(* What comes on a connection to server 0 is about its chunks.             *)
LEMMA OwnedIsHome ==
  ASSUME NEW k
  PROVE  Owned(k, 0) \subseteq Home /\ Sent(Owned(k, 0)) \subseteq Sent(Home)
<1>1. Owned(k, 0) \subseteq Home
  BY DEF Owned, Home
<1>. QED  BY <1>1 DEF Sent

LEMMA OwnedKept ==
  ASSUME NEW k, NEW s, cmd' = cmd
  PROVE  Owned(k, s)' = Owned(k, s) /\ Answered(k, s)' = Answered(k, s)
BY DEF Owned, Answered, Parts

(* What is left to prove of a worker's step.                               *)
LEMMA WorkerOrigin ==
  ASSUME IInv, OriginInv, NEW k \in Clients, NEW s \in Servers, Worker(k, s),
         Origin(k, s)', s = 0 => StoreOrigin'
  PROVE  OriginInv'
<1>1. Types /\ Quiet(k, s)
  BY WorkerIsQuiet DEF IInv
<1>2. cmd' = cmd /\ reply' = reply /\ pc' = pc /\ asked' = asked
  BY <1>1 DEF Quiet, ofClient
<1>3. disturbed' \in [Clients -> [Servers -> BOOLEAN]]
  <2>1. disturbed' = disturbed \/ \E b \in BOOLEAN : disturbed' = [disturbed EXCEPT ![k][s] = b]
    <3>1. \A n : ServerReceives(k, s, n) =>
                   \E b \in BOOLEAN : disturbed' = [disturbed EXCEPT ![k][s] = b]
      BY DEF ServerReceives
    <3>2. CASE SendBody(k, s)
      <4> DEFINE b == disturbed[k][s] \/ file[s][Id(nodes[k][s][1])] = <<>>
      <4>1. disturbed' = [disturbed EXCEPT ![k][s] = b] /\ b \in BOOLEAN
        BY <3>2 DEF SendBody
      <4>. QED  BY <4>1
    <3>3. CASE SendHeader(k, s)
      BY <3>3 DEF SendHeader
    <3>4. CASE ReceiveFirst(k, s) \/ ReceiveNext(k, s) \/ ReceiveBody(k, s)
      BY <3>1, <3>4 DEF ReceiveFirst, ReceiveNext, ReceiveBody
    <3>5. CASE Wait(k, s) \/ AddNode(k, s) \/ CreateChunk(k, s) \/ Find(k, s)
      BY <3>5 DEF Wait, AddNode, CreateChunk, Find, net
    <3>. QED  BY <3>2, <3>3, <3>4, <3>5 DEF Worker
  <2>2. disturbed \in [Clients -> [Servers -> BOOLEAN]]
    BY DEF OriginInv
  <2>. QED  BY <2>1, <2>2, Update
<1>4. ASSUME NEW j \in Clients PROVE ReplyOrigin(j)'
  <2>1. ReplyOrigin(j)
    BY DEF OriginInv
  <2>2. Home' = Home
    BY DEF Home, Parts
  <2>. QED  BY <1>2, <2>1, <2>2 DEF ReplyOrigin
<1>5. ASSUME NEW j \in Clients, NEW r \in Servers PROVE Origin(j, r)'
  <2>1. CASE j = k /\ r = s
    BY <2>1
  <2>2. CASE j # k \/ r # s
    <3>1. /\ wpc'[j][r] = wpc[j][r] /\ wcmd'[j][r] = wcmd[j][r] /\ nodes'[j][r] = nodes[j][r]
          /\ toServer'[j][r] = toServer[j][r] /\ toClient'[j][r] = toClient[j][r]
      BY <1>1, <2>2 DEF Quiet, Elsewhere
    <3>2. Owned(j, r)' = Owned(j, r) /\ Answered(j, r)' = Answered(j, r)
      BY <1>2, OwnedKept
    <3>3. Origin(j, r)
      BY DEF OriginInv
    <3>. QED  BY <3>1, <3>2, <3>3 DEF Origin, Sent, Replied, Home, Parts
  <2>. QED  BY <2>1, <2>2
<1>6. StoreOrigin'
  <2>1. CASE s = 0
    BY <2>1
  <2>2. CASE s # 0
    <3>1. 0 \in Servers
      BY DEF Servers
    <3>2. cabinet'[0] = cabinet[0]
      <4>1. cabinet' = cabinet \/ \E v : cabinet' = [cabinet EXCEPT ![s] = v]
        BY DEF Worker, Wait, ReceiveFirst, ReceiveNext, AddNode, CreateChunk, ReceiveBody,
               Find, SendHeader, SendBody
      <4>2. cabinet \in [Servers -> Seq(Full)]
        BY <1>1, Tables
      <4>. QED  BY <2>2, <3>1, <4>1, <4>2
    <3>3. file'[0] = file[0]
      <4>1. file' = file \/ (\E v : file' = [file EXCEPT ![s] = v])
            \/ \E x, v : file' = [file EXCEPT ![s][x] = v]
        BY DEF Worker, Wait, ReceiveFirst, ReceiveNext, AddNode, CreateChunk, ReceiveBody,
               Find, SendHeader, SendBody
      <4>2. file \in [Servers -> Contents]
        BY <1>1, Tables
      <4>. QED  BY <2>2, <3>1, <4>1, <4>2
    <3>4. StoreOrigin
      BY DEF OriginInv
    <3>. QED  BY <3>2, <3>3, <3>4 DEF StoreOrigin, Sent, Home, Parts
  <2>. QED  BY <2>1, <2>2
<1>. QED  BY <1>3, <1>4, <1>5, <1>6 DEF OriginInv

(* What every worker's proof begins with.                                  *)
LEMMA OriginOf ==
  ASSUME OriginInv, NEW k \in Clients, NEW s \in Servers
  PROVE  /\ Origin(k, s) /\ StoreOrigin
         /\ wcmd[k][s] \in Owned(k, s) /\ toServer[k][s] \in Seq(Sent(Owned(k, s)))
BY DEF OriginInv, Origin

(* A worker that only receives.                                            *)
LEMMA ReceiverOrigin ==
  ASSUME IInv, OriginInv, NEW k \in Clients, NEW s \in Servers, NEW n \in Nat,
         ServerReceives(k, s, n), cmd' = cmd, nodes' = nodes,
         wcmd'[k][s] \in Owned(k, s), wpc'[k][s] \in {"find", "send", "sendbody"} => Answered(k, s)
  PROVE  Origin(k, s)'
<1>1. /\ toServer'[k][s] = Remaining(toServer[k][s], n) /\ toClient' = toClient
  <2>1. Types
    BY DEF IInv
  <2>. QED  BY <2>1, ReceivesAt DEF ReplacedBy
<1>2. toServer'[k][s] \in Seq(Sent(Owned(k, s)))
  BY <1>1, OriginOf, ReceiveType
<1>3. Owned(k, s)' = Owned(k, s) /\ Answered(k, s)' = Answered(k, s) /\ Home' = Home
  BY OwnedKept DEF Home, Parts
<1>4. Origin(k, s)
  BY OriginOf
<1>. QED  BY <1>1, <1>2, <1>3, <1>4 DEF Origin, Sent, Replied

LEMMA ReceiveFirstOrigin ==
  ASSUME IInv, OriginInv, NEW k \in Clients, NEW s \in Servers, ReceiveFirst(k, s), Worker(k, s)
  PROVE  OriginInv'
<1> DEFINE n == 2 * HdrLen
           buf == Taken(toServer[k][s], n)
           c == Parsed(wcmd[k][s], buf)
<1>1. n \in Nat
  BY DfsAssumption
<1>2. /\ ServerReceives(k, s, n)
      /\ wcmd' = [wcmd EXCEPT ![k][s] = c]
      /\ \/ wcmd'[k][s].op = "put" /\ Step(k, s, "first", "add")
         \/ wcmd'[k][s].op = "get" /\ Step(k, s, "first", "find")
         \/ wcmd'[k][s].op = "" /\ Step(k, s, "first", "closed")
      /\ UNCHANGED <<cabinet, file, nodes>>
  BY DEF ReceiveFirst
<1>3. Types /\ cmd' = cmd
  BY DEF IInv, Worker, ofClient
<1>4. wcmd'[k][s] = c
  BY <1>2, <1>3, Tables, Replaced
<1>5. c \in Owned(k, s)
  <2>1. wcmd[k][s] \in Owned(k, s) /\ toServer[k][s] \in Seq(Sent(Owned(k, s)))
    BY OriginOf
  <2>2. buf \in Seq(Sent(Owned(k, s)))
    BY <1>1, <2>1, ReceiveType
  <2>3. buf \in Seq(Replied(Owned(k, s)))
    BY <2>2, SentIsReplied
  <2> HIDE DEF buf
  <2>. QED  BY <2>1, <2>3, OwnedClosed, ParsedClosed
<1> HIDE DEF c
<1>6. wpc'[k][s] \in {"find", "send", "sendbody"} => Answered(k, s)
  <2>1. \/ wpc'[k][s] = "add"
        \/ wpc'[k][s] = "find" /\ c.op = "get"
        \/ wpc'[k][s] = "closed"
    BY <1>2, <1>3, <1>4, StepTo DEF ReplacedBy
  <2>2. c.op = "get" => Answered(k, s)
    BY <1>5 DEF Owned
  <2>. QED  BY <2>1, <2>2
<1>7. Origin(k, s)'
  BY <1>1, <1>2, <1>3, <1>4, <1>5, <1>6, ReceiverOrigin
<1>8. StoreOrigin'
  BY <1>2, OriginOf DEF StoreOrigin, Sent, Home, Parts
<1>. QED  BY <1>7, <1>8, WorkerOrigin

LEMMA ReceiveNextOrigin ==
  ASSUME IInv, OriginInv, NEW k \in Clients, NEW s \in Servers, ReceiveNext(k, s), Worker(k, s)
  PROVE  OriginInv'
<1> DEFINE n == HdrLen
           buf == Taken(toServer[k][s], n)
           c == Parsed([wcmd[k][s] EXCEPT !.op = ""], buf)
<1>1. n \in Nat
  BY DfsAssumption
<1>2. /\ ServerReceives(k, s, n)
      /\ wcmd' = [wcmd EXCEPT ![k][s] = c]
      /\ Step(k, s, "next", "add") \/ Step(k, s, "next", "closed")
      /\ UNCHANGED <<cabinet, file, nodes>>
  BY DEF ReceiveNext
<1>3. Types /\ cmd' = cmd
  BY DEF IInv, Worker, ofClient
<1>4. wcmd'[k][s] = c
  BY <1>2, <1>3, Tables, Replaced
<1>5. c \in Owned(k, s)
  <2>1. wcmd[k][s] \in Owned(k, s) /\ toServer[k][s] \in Seq(Sent(Owned(k, s)))
    BY OriginOf
  <2>2. buf \in Seq(Sent(Owned(k, s)))
    BY <1>1, <2>1, ReceiveType
  <2>3. buf \in Seq(Replied(Owned(k, s)))
    BY <2>2, SentIsReplied
  <2> HIDE DEF buf
  <2>. QED  BY <2>1, <2>3, OwnedClosed, ParsedClosed
<1> HIDE DEF c
<1>6. wpc'[k][s] \in {"add", "closed"}
  BY <1>2, <1>3, StepTo DEF ReplacedBy
<1>7. Origin(k, s)'
  BY <1>1, <1>2, <1>3, <1>4, <1>5, <1>6, ReceiverOrigin
<1>8. StoreOrigin'
  BY <1>2, OriginOf DEF StoreOrigin, Sent, Home, Parts
<1>. QED  BY <1>7, <1>8, WorkerOrigin

LEMMA SameHome == Home' = Home /\ Sent(Home)' = Sent(Home) /\ Replied(Home)' = Replied(Home)
BY DEF Home, Parts, Sent, Replied

(* A worker that neither receives nor sends.                               *)
LEMMA QuietOrigin ==
  ASSUME IInv, OriginInv, NEW k \in Clients, NEW s \in Servers,
         UNCHANGED <<cmd, wcmd, toServer, toClient>>,
         Answered(k, s) => nodes'[k][s] \in Seq(Home),
         wpc'[k][s] \in {"find", "send", "sendbody"} => Answered(k, s)
  PROVE  Origin(k, s)'
<1>1. Owned(k, s)' = Owned(k, s) /\ Answered(k, s)' = Answered(k, s)
  BY OwnedKept
<1>2. Origin(k, s)
  BY OriginOf
<1>. QED  BY <1>1, <1>2, SameHome DEF Origin, Sent

LEMMA AnsweredOnly ==
  ASSUME OriginInv, NEW k \in Clients, NEW s \in Servers,
         wpc[k][s] \in {"find", "send", "sendbody"}
  PROVE  Answered(k, s) /\ s = 0 /\ nodes[k][s] \in Seq(Home)
BY OriginOf DEF Origin, Answered

LEMMA NodesOfOrigin ==
  ASSUME OriginInv, NEW k \in Clients, NEW s \in Servers
  PROVE  Answered(k, s) => nodes[k][s] \in Seq(Home)
BY OriginOf DEF Origin

LEMMA StoreKept ==
  ASSUME OriginInv, UNCHANGED <<cabinet, file>>
  PROVE  StoreOrigin'
BY SameHome DEF OriginInv, StoreOrigin

LEMMA WaitOrigin ==
  ASSUME IInv, OriginInv, NEW k \in Clients, NEW s \in Servers, Wait(k, s), Worker(k, s)
  PROVE  OriginInv'
<1>1. /\ UNCHANGED <<cmd, cabinet, file, wpc, wcmd, nodes, toServer, toClient>>
      /\ wpc[k][s] \in {"first", "body", "rest", "next"}
  BY DEF Wait, Worker, ofClient, net
<1>2. wpc'[k][s] \notin {"find", "send", "sendbody"}
  BY <1>1
<1>3. Answered(k, s) => nodes'[k][s] \in Seq(Home)
  BY <1>1, NodesOfOrigin
<1>4. Origin(k, s)'
  BY <1>1, <1>2, <1>3, QuietOrigin
<1>. QED  BY <1>1, <1>4, StoreKept, WorkerOrigin

LEMMA AddNodeOrigin ==
  ASSUME IInv, OriginInv, NEW k \in Clients, NEW s \in Servers, AddNode(k, s), Worker(k, s)
  PROVE  OriginInv'
<1> DEFINE node == [wcmd[k][s] EXCEPT !.op = "get"]
<1>1. /\ UNCHANGED <<cmd, file, wcmd, nodes, toServer, toClient>>
      /\ Step(k, s, "add", "create")
      /\ cabinet' = [cabinet EXCEPT ![s] = Append(cabinet[s], node)]
  BY DEF AddNode, Worker, ofClient, net
<1>2. Types
  BY DEF IInv
<1>3. wpc'[k][s] = "create"
  BY <1>1, <1>2, StepTo DEF ReplacedBy
<1>4. Answered(k, s) => nodes'[k][s] \in Seq(Home)
  BY <1>1, NodesOfOrigin
<1>5. Origin(k, s)'
  BY <1>1, <1>3, <1>4, QuietOrigin
<1>6. ASSUME s = 0 PROVE StoreOrigin'
  <2>1. wcmd[k][s] \in Home
    BY <1>6, OriginOf, OwnedIsHome
  <2>2. node \in Home
    BY <2>1, HomeClosed DEF Ops
  <2>3. cabinet[0] \in Seq(Home) /\ StoreOrigin
    BY OriginOf DEF StoreOrigin
  <2> HIDE DEF node
  <2>4. cabinet'[0] = Append(cabinet[0], node)
    BY <1>1, <1>2, <1>6, Tables
  <2>5. cabinet'[0] \in Seq(Home)
    BY <2>2, <2>3, <2>4
  <2>. QED  BY <1>1, <2>3, <2>5, SameHome DEF StoreOrigin
<1>. QED  BY <1>5, <1>6, WorkerOrigin

LEMMA CreateChunkOrigin ==
  ASSUME IInv, OriginInv, NEW k \in Clients, NEW s \in Servers, CreateChunk(k, s), Worker(k, s)
  PROVE  OriginInv'
<1> DEFINE id == Id(wcmd[k][s])
           new == [x \in DOMAIN file[s] \cup {id} |-> IF x = id THEN <<>> ELSE file[s][x]]
<1>1. /\ UNCHANGED <<cmd, cabinet, wcmd, nodes, toServer, toClient>>
      /\ Step(k, s, "create", "body")
      /\ file' = [file EXCEPT ![s] = new]
  BY DEF CreateChunk, Worker, ofClient, net
<1>2. Types
  BY DEF IInv
<1>3. wpc'[k][s] = "body"
  BY <1>1, <1>2, StepTo DEF ReplacedBy
<1>4. Answered(k, s) => nodes'[k][s] \in Seq(Home)
  BY <1>1, NodesOfOrigin
<1>5. Origin(k, s)'
  BY <1>1, <1>3, <1>4, QuietOrigin
<1>6. ASSUME s = 0 PROVE StoreOrigin'
  <2>1. StoreOrigin
    BY OriginOf
  <2>2. file'[0] = new
    BY <1>1, <1>2, <1>6, Tables
  <2>3. \A x \in DOMAIN new : new[x] \in Seq(Sent(Home))
    <3>1. <<>> \in Seq(Sent(Home))
      OBVIOUS
    <3>. QED  BY <1>6, <2>1, <3>1 DEF StoreOrigin
  <2> HIDE DEF new
  <2>. QED  BY <1>1, <2>1, <2>2, <2>3, SameHome DEF StoreOrigin
<1>. QED  BY <1>5, <1>6, WorkerOrigin

LEMMA ReceiveBodyOrigin ==
  ASSUME IInv, OriginInv, NEW k \in Clients, NEW s \in Servers, ReceiveBody(k, s), Worker(k, s)
  PROVE  OriginInv'
<1> DEFINE id == Id(wcmd[k][s])
           n == Value(wcmd[k][s].size) - Len(file[s][id])
           data == Taken(toServer[k][s], n)
<1>1. /\ UNCHANGED <<cmd, cabinet, wcmd, nodes>>
      /\ ServerReceives(k, s, n)
      /\ file' = [file EXCEPT ![s][id] = file[s][id] \o data]
      /\ \E l : Step(k, s, l, "rest") \/ Step(k, s, l, "next")
      /\ wpc[k][s] \in {"body", "rest"}
  BY DEF ReceiveBody, Worker, ofClient
<1>2. Types
  BY DEF IInv
<1>3. /\ wcmd[k][s] \in Full /\ FileAt(k, s)
      /\ file[s] \in Contents
  <2>1. WorkerAt(k, s) /\ FileAt(k, s)
    BY DEF IInv, ConnectionInv, AtServer, FileInv
  <2>. QED  BY <1>1, <1>2, <2>1, Tables DEF WorkerAt, PutPlaces
<1>4. n \in Nat /\ id \in DOMAIN file[s]
  <2>1. Value(wcmd[k][s].size) \in Nat
    BY <1>3, ValueType DEF Full
  <2>2. CASE wpc[k][s] = "body"
    <3>1. id \in DOMAIN file[s] /\ file[s][id] = <<>>
      BY <1>3, <2>2 DEF FileAt
    <3>. QED  BY <2>1, <3>1
  <2>3. CASE wpc[k][s] = "rest"
    <3>1. id \in DOMAIN file[s] /\ Len(file[s][id]) =< Value(wcmd[k][s].size)
      BY <1>3, <2>3 DEF FileAt
    <3>2. file[s][id] \in Seq(Cells)
      BY <1>3, <3>1 DEF Contents
    <3>3. Len(file[s][id]) \in Nat
      BY <3>2
    <3>. QED  BY <2>1, <3>1, <3>3
  <2>. QED  BY <1>1, <2>2, <2>3
<1>5. wpc'[k][s] \in {"rest", "next"}
  BY <1>1, <1>2, StepTo DEF ReplacedBy
<1> HIDE DEF n
<1>6. Origin(k, s)'
  <2>1. wcmd'[k][s] \in Owned(k, s)
    BY <1>1, OriginOf
  <2>. QED  BY <1>1, <1>4, <1>5, <2>1, ReceiverOrigin
<1>7. ASSUME s = 0 PROVE StoreOrigin'
  <2>1. StoreOrigin
    BY OriginOf
  <2>2. data \in Seq(Sent(Home))
    <3>1. toServer[k][s] \in Seq(Sent(Owned(k, s)))
      BY OriginOf
    <3>2. data \in Seq(Sent(Owned(k, 0)))
      BY <1>4, <1>7, <3>1, ReceiveType
    <3> HIDE DEF data
    <3>. QED  BY <3>2, OwnedIsHome
  <2> HIDE DEF data
  <2>3. file[0][id] \o data \in Seq(Sent(Home))
    BY <1>4, <1>7, <2>1, <2>2 DEF StoreOrigin
  <2>4. file'[0] = [file[0] EXCEPT ![id] = file[0][id] \o data]
    BY <1>1, <1>2, <1>7, Tables
  <2>5. \A x \in DOMAIN file'[0] : file'[0][x] \in Seq(Sent(Home))
    BY <2>1, <2>3, <2>4 DEF StoreOrigin
  <2>. QED  BY <1>1, <2>1, <2>5, SameHome DEF StoreOrigin
<1>. QED  BY <1>6, <1>7, WorkerOrigin

LEMMA FindOrigin ==
  ASSUME IInv, OriginInv, NEW k \in Clients, NEW s \in Servers, Find(k, s), Worker(k, s)
  PROVE  OriginInv'
<1> DEFINE n == wcmd[k][s].name
           list == cabinet[s]
           found == {i \in DOMAIN list : list[i].name = n}
           first == NewestOf(list, found)
           others == {i \in found : list[i].chunk # first.chunk}
<1>1. /\ UNCHANGED <<cmd, cabinet, file, wcmd, toServer, toClient>>
      /\ wpc[k][s] = "find"
      /\ \/ /\ found # {} /\ others # {}
            /\ nodes' = [nodes EXCEPT ![k][s] = <<first, NewestOf(list, others)>>]
         \/ UNCHANGED nodes
  BY DEF Find, Worker, ofClient, net
<1>2. Types
  BY DEF IInv
<1>3. Answered(k, s) /\ s = 0 /\ nodes[k][s] \in Seq(Home)
  BY <1>1, AnsweredOnly
<1>4. list \in Seq(Home)
  BY <1>3, OriginOf DEF StoreOrigin
<1>5. nodes'[k][s] \in Seq(Home)
  <2>1. CASE UNCHANGED nodes
    BY <1>3, <2>1
  <2>2. CASE /\ found # {} /\ others # {}
             /\ nodes' = [nodes EXCEPT ![k][s] = <<first, NewestOf(list, others)>>]
    <3>1. nodes'[k][s] = <<first, NewestOf(list, others)>>
      BY <1>2, <2>2, Tables, Replaced
    <3>2. found \subseteq DOMAIN list /\ others \subseteq DOMAIN list
      OBVIOUS
    <3> HIDE DEF list, found, others
    <3>3. NewestOf(list, found) \in Home /\ NewestOf(list, others) \in Home
      BY <1>4, <2>2, <3>2, NewestIsNode
    <3>. QED  BY <3>1, <3>3
  <2>. QED  BY <1>1, <2>1, <2>2
<1>6. Origin(k, s)'
  BY <1>1, <1>3, <1>5, QuietOrigin
<1>. QED  BY <1>1, <1>6, StoreKept, WorkerOrigin

LEMMA BlockOf ==
  ASSUME NEW C, NEW content \in Seq(Sent(C))
  PROVE  Block(content) \in Seq(Replied(C))
<1>1. HdrLen \in Nat /\ 2 * HdrLen \in Nat
  BY DfsAssumption
<1>2. <<"nul">> \in Replied(C) /\ <<"memory">> \in Replied(C)
  BY DEF Replied
<1> DEFINE c(i) == IF i <= Len(content) THEN content[i]
                   ELSE IF i <= HdrLen THEN <<"nul">> ELSE <<"memory">>
<1>3. \A i \in 1..2 * HdrLen : c(i) \in Replied(C)
  BY <1>1, <1>2 DEF Replied
<1>4. [i \in 1..2 * HdrLen |-> c(i)] \in Seq(Replied(C))
  <2> HIDE DEF c
  <2>. QED  BY <1>1, <1>3
<1>. QED  BY <1>4 DEF Block

LEMMA HeaderOf ==
  ASSUME NEW C, NEW h \in C
  PROVE  HeaderCells(h) \in Seq(Sent(C)) /\ HeaderCells(h) \in Seq(Replied(C))
<1>1. HdrLen \in Nat
  BY DfsAssumption
<1>2. \A i \in 1..HdrLen : <<"head", h, i>> \in Sent(C)
  BY <1>1 DEF Sent
<1>3. HeaderCells(h) \in Seq(Sent(C))
  BY <1>1, <1>2 DEF HeaderCells
<1>. QED  BY <1>3, SentIsReplied

LEMMA SenderOrigin ==
  ASSUME IInv, OriginInv, NEW k \in Clients, NEW s \in Servers,
         wpc[k][s] \in {"send", "sendbody"}, NEW cells \in Seq(Replied(Home)),
         ServerSends(k, s, cells), cmd' = cmd, UNCHANGED <<cabinet, file>>,
         nodes' = nodes \/ nodes' = [nodes EXCEPT ![k][s] = Tail(nodes[k][s])],
         wcmd'[k][s] \in Owned(k, s), Worker(k, s)
  PROVE  OriginInv'
<1>1. Types /\ Answered(k, s) /\ s = 0 /\ nodes[k][s] \in Seq(Home)
  BY AnsweredOnly DEF IInv
<1>2. toServer' = toServer /\ toClient' = [toClient EXCEPT ![k][s] = toClient[k][s] \o cells]
  BY DEF ServerSends
<1>3. toClient'[k][s] = toClient[k][s] \o cells
  BY <1>1, <1>2, Tables, Replaced
<1>4. Origin(k, s)
  BY OriginOf
<1>5. toClient'[k][s] \in Seq(Replied(Home))
  BY <1>1, <1>3, <1>4 DEF Origin
<1>6. nodes'[k][s] \in Seq(Home)
  <2>1. CASE nodes' = nodes
    BY <1>1, <2>1
  <2>2. CASE nodes' = [nodes EXCEPT ![k][s] = Tail(nodes[k][s])]
    <3>1. nodes'[k][s] = Tail(nodes[k][s])
      BY <1>1, <2>2, Tables, Replaced
    <3>2. nodes[k][s] # <<>>
      BY DEF IInv, ConnectionInv, AtServer, WorkerAt
    <3>. QED  BY <1>1, <3>1, <3>2
  <2>. QED  BY <2>1, <2>2
<1>7. Owned(k, s)' = Owned(k, s) /\ Answered(k, s)' = Answered(k, s)
  BY OwnedKept
<1>8. Origin(k, s)'
  BY <1>1, <1>2, <1>4, <1>5, <1>6, <1>7, SameHome DEF Origin, Sent
<1>. QED  BY <1>8, StoreKept, WorkerOrigin

LEMMA SendHeaderOrigin ==
  ASSUME IInv, OriginInv, NEW k \in Clients, NEW s \in Servers, SendHeader(k, s), Worker(k, s)
  PROVE  OriginInv'
<1> DEFINE n == nodes[k][s][1]
           c == Fields(wcmd[k][s], n)
<1>1. /\ wpc[k][s] = "send" /\ wcmd' = [wcmd EXCEPT ![k][s] = c]
      /\ ServerSends(k, s, HeaderCells(wcmd'[k][s]))
      /\ nodes' = nodes \/ nodes' = [nodes EXCEPT ![k][s] = Tail(nodes[k][s])]
      /\ UNCHANGED <<cabinet, file>> /\ cmd' = cmd
  BY DEF SendHeader, NodeSent, Worker, ofClient
<1>2. Types /\ Answered(k, s) /\ s = 0 /\ nodes[k][s] \in Seq(Home)
  BY <1>1, AnsweredOnly DEF IInv
<1>3. n \in Home
  <2>1. nodes[k][s] # <<>>
    BY <1>1 DEF IInv, ConnectionInv, AtServer, WorkerAt
  <2>. QED  BY <1>2, <2>1
<1>4. wcmd'[k][s] = c
  BY <1>1, <1>2, Tables, Replaced
<1>5. c \in Home /\ c \in Owned(k, s)
  <2>1. wcmd[k][s] \in Owned(k, s) /\ wcmd[k][s] \in Home
    BY <1>2, OriginOf, OwnedIsHome
  <2>2. c \in Home
    BY <1>3, <2>1, HomeClosed DEF Closed
  <2>3. c.op = wcmd[k][s].op /\ c \in Cmds
    BY <1>3, <2>1, HomeClosed, FieldsOf
  <2> HIDE DEF c
  <2>. QED  BY <1>2, <2>1, <2>2, <2>3 DEF Owned, Home, Answered
<1> HIDE DEF c
<1>6. HeaderCells(wcmd'[k][s]) \in Seq(Replied(Home))
  BY <1>4, <1>5, HeaderOf
<1>. QED  BY <1>1, <1>4, <1>5, <1>6, SenderOrigin

LEMMA SendBodyOrigin ==
  ASSUME IInv, OriginInv, NEW k \in Clients, NEW s \in Servers, SendBody(k, s), Worker(k, s)
  PROVE  OriginInv'
<1> DEFINE content == file[s][Id(nodes[k][s][1])]
<1>1. /\ wpc[k][s] = "sendbody" /\ wcmd' = wcmd
      /\ ServerSends(k, s, Block(content))
      /\ nodes' = [nodes EXCEPT ![k][s] = Tail(nodes[k][s])]
      /\ UNCHANGED <<cabinet, file>> /\ cmd' = cmd
  BY DEF SendBody, NodeSent, Worker, ofClient
<1>2. s = 0
  BY <1>1, AnsweredOnly
<1>3. content \in Seq(Sent(Home))
  <2>1. Id(nodes[k][s][1]) \in DOMAIN file[s]
    BY <1>1 DEF IInv, FileInv, FileAt
  <2>. QED  BY <1>2, <2>1, OriginOf DEF StoreOrigin
<1> HIDE DEF content
<1>4. Block(content) \in Seq(Replied(Home))
  BY <1>3, BlockOf
<1>5. wcmd'[k][s] \in Owned(k, s)
  BY <1>1, OriginOf
<1>. QED  BY <1>1, <1>4, <1>5, SenderOrigin

LEMMA WorkerKeepsOrigin ==
  ASSUME IInv, OriginInv, NEW k \in Clients, NEW s \in Servers, Worker(k, s)
  PROVE  OriginInv'
BY WaitOrigin, ReceiveFirstOrigin, ReceiveNextOrigin, AddNodeOrigin, CreateChunkOrigin,
   ReceiveBodyOrigin, FindOrigin, SendHeaderOrigin, SendBodyOrigin DEF Worker

(* A step that only ends workers, or empties cabinets.                     *)
LEMMA EndingOrigin ==
  ASSUME IInv, OriginInv, UNCHANGED <<ofClient, file, wcmd, nodes, toServer, toClient>>,
         disturbed' \in [Clients -> [Servers -> BOOLEAN]],
         \A k \in Clients, s \in Servers : wpc'[k][s] = wpc[k][s] \/ wpc'[k][s] = "closed",
         cabinet'[0] \in {cabinet[0], <<>>}
  PROVE  OriginInv'
<1>1. UNCHANGED <<cmd, pc, asked, reply>>
  BY DEF ofClient
<1>2. ASSUME NEW k \in Clients, NEW s \in Servers PROVE Origin(k, s)'
  <2>1. Origin(k, s)
    BY OriginOf
  <2>2. Answered(k, s) => nodes'[k][s] \in Seq(Home)
    BY NodesOfOrigin
  <2>3. wpc'[k][s] \in {"find", "send", "sendbody"} => Answered(k, s)
    BY <2>1 DEF Origin
  <2>. QED  BY <1>1, <2>2, <2>3, QuietOrigin
<1>3. ASSUME NEW k \in Clients PROVE ReplyOrigin(k)'
  <2>1. ReplyOrigin(k)
    BY DEF OriginInv
  <2>. QED  BY <1>1, <2>1, SameHome DEF ReplyOrigin
<1>4. StoreOrigin'
  <2>1. <<>> \in Seq(Home) /\ StoreOrigin
    BY DEF OriginInv
  <2>2. cabinet'[0] \in Seq(Home)
    BY <2>1 DEF StoreOrigin
  <2>. QED  BY <2>1, <2>2, SameHome DEF StoreOrigin
<1>. QED  BY <1>2, <1>3, <1>4 DEF OriginInv

LEMMA DieKeepsOrigin ==
  ASSUME IInv, OriginInv, NEW k \in Clients, NEW s \in Servers, Die(k, s)
  PROVE  OriginInv'
<1>1. /\ UNCHANGED <<ofClient, file, wcmd, nodes, toServer, toClient>>
      /\ wpc' = [j \in Clients |->
                   [wpc[j] EXCEPT ![s] = IF wpc[j][s] = "none" THEN wpc[j][s] ELSE "closed"]]
      /\ disturbed' = [j \in Clients |->
           [disturbed[j] EXCEPT ![s] = disturbed[j][s] \/ wpc[j][s] \notin {"none", "closed"}]]
      /\ cabinet' = [cabinet EXCEPT ![s] = <<>>]
  BY DEF Die, Gone
<1>2. Types
  BY DEF IInv
<1>3. /\ wpc \in [Clients -> [Servers -> Places]]
      /\ disturbed \in [Clients -> [Servers -> BOOLEAN]]
      /\ cabinet \in [Servers -> Seq(Full)]
  BY <1>2, Tables
<1>4. disturbed' \in [Clients -> [Servers -> BOOLEAN]]
  <2>1. ASSUME NEW j \in Clients
        PROVE  [disturbed[j] EXCEPT ![s] = disturbed[j][s] \/ wpc[j][s] \notin {"none", "closed"}]
                 \in [Servers -> BOOLEAN]
    <3> DEFINE b == disturbed[j][s] \/ wpc[j][s] \notin {"none", "closed"}
    <3>1. b \in BOOLEAN /\ disturbed[j] \in [Servers -> BOOLEAN]
      BY <1>3
    <3> HIDE DEF b
    <3>2. [disturbed[j] EXCEPT ![s] = b] \in [Servers -> BOOLEAN]
      BY <3>1
    <3>. QED  BY <3>2 DEF b
  <2>. QED  BY <1>1, <2>1
<1>5. \A j \in Clients, r \in Servers : wpc'[j][r] = wpc[j][r] \/ wpc'[j][r] = "closed"
  BY <1>1, <1>3
<1>6. cabinet'[0] \in {cabinet[0], <<>>}
  <2>1. 0 \in Servers
    BY DEF Servers
  <2>. QED  BY <1>1, <1>3, <2>1
<1>. QED  BY <1>1, <1>4, <1>5, <1>6, EndingOrigin

LEMMA PowerKeepsOrigin ==
  ASSUME IInv, OriginInv,
         (\E s \in Servers : Stop(s) \/ StartAgain(s)) \/ UNCHANGED vars
  PROVE  OriginInv'
<1>1. /\ UNCHANGED <<ofClient, file, wcmd, nodes, toServer, toClient, wpc, disturbed>>
      /\ cabinet' = cabinet \/ \E s \in Servers : cabinet' = [cabinet EXCEPT ![s] = <<>>]
  BY DEF Stop, StartAgain, Gone, vars, ofServer, net
<1>2. disturbed \in [Clients -> [Servers -> BOOLEAN]]
  BY DEF OriginInv
<1>3. cabinet'[0] \in {cabinet[0], <<>>}
  <2>1. 0 \in Servers /\ cabinet \in [Servers -> Seq(Full)]
    BY DEF Servers, IInv, Types, ServerTypes
  <2>. QED  BY <1>1, <2>1
<1>. QED  BY <1>1, <1>2, <1>3, EndingOrigin

(* Every other client is left alone by a step of one client.               *)
Alone(k, f, g) == \A j \in Clients : j # k => g[j] = f[j]

LEMMA RowAlone ==
  ASSUME NEW T, NEW f \in [Clients -> T], NEW k \in Clients, NEW v, NEW g,
         g = [f EXCEPT ![k] = v]
  PROVE  g[k] = v /\ Alone(k, f, g)
BY DEF Alone

LEMMA EntryAlone ==
  ASSUME NEW T, NEW f \in [Clients -> T], NEW k \in Clients, NEW s, NEW v, NEW g,
         g = [f EXCEPT ![k][s] = v]
  PROVE  Alone(k, f, g)
BY DEF Alone

LEMMA SameAlone ==
  ASSUME NEW f, NEW k \in Clients, NEW g, g = f
  PROVE  Alone(k, f, g)
BY DEF Alone

QuietClient(k) ==
  /\ UNCHANGED <<cmd, cabinet, file, socket, wcmd, nodes, disturbed>>
  /\ Alone(k, pc, pc') /\ Alone(k, sent, sent') /\ Alone(k, asked, asked')
  /\ Alone(k, reply, reply') /\ Alone(k, left, left') /\ Alone(k, got, got')
  /\ Alone(k, late, late') /\ Alone(k, fresh, fresh')
  /\ Alone(k, wpc, wpc') /\ Alone(k, toServer, toServer') /\ Alone(k, toClient, toClient')

LEMMA ClientIsQuiet ==
  ASSUME Types, NEW k \in Clients, Client(k)
  PROVE  QuietClient(k)
<1>1. UNCHANGED <<cmd, cabinet, file, socket, wcmd, nodes, disturbed>>
  BY DEF Client, Connect, Refuse, PutSend, Ask, ReceiveHeader, ReceiveChunk,
         ReceiveNextHeader, ClientSends, ofServer, net
<1>2. /\ pc \in [Clients -> Pcs] /\ sent \in [Clients -> Nat] /\ asked \in [Clients -> {0, 2}]
      /\ reply \in [Clients -> Good] /\ left \in [Clients -> Nat]
      /\ got \in [Clients -> Seq(Cells \ {<<"nul">>})] /\ late \in [Clients -> BOOLEAN]
      /\ fresh \in [Clients -> SUBSET Versions]
      /\ wpc \in [Clients -> [Servers -> Places]]
      /\ toServer \in [Clients -> [Servers -> Seq(AnyCells)]]
      /\ toClient \in [Clients -> [Servers -> Seq(Cells)]]
  BY DEF Types, ClientTypes, ServerTypes
<1>3. Alone(k, pc, pc')
  <2>1. \E v : pc' = [pc EXCEPT ![k] = v]
    BY DEF Client, Connect, Refuse, PutSend, Ask, ReceiveHeader, ReceiveChunk,
           ReceiveNextHeader, Goto
  <2>. QED  BY <1>2, <2>1, RowAlone
<1>4. Alone(k, sent, sent') /\ Alone(k, asked, asked')
  <2>1. sent' = sent \/ \E v : sent' = [sent EXCEPT ![k] = v]
    BY DEF Client, Connect, Refuse, PutSend, Ask, ReceiveHeader, ReceiveChunk,
           ReceiveNextHeader
  <2>2. asked' = asked \/ \E v : asked' = [asked EXCEPT ![k] = v]
    BY DEF Client, Connect, Refuse, PutSend, Ask, ReceiveHeader, ReceiveChunk,
           ReceiveNextHeader
  <2>. QED  BY <1>2, <2>1, <2>2, RowAlone, SameAlone
<1>5. Alone(k, reply, reply') /\ Alone(k, left, left')
  <2>1. reply' = reply \/ \E v : reply' = [reply EXCEPT ![k] = v]
    BY DEF Client, Connect, Refuse, PutSend, Ask, ReceiveHeader, ReceiveChunk,
           ReceiveNextHeader
  <2>2. left' = left \/ \E v : left' = [left EXCEPT ![k] = v]
    BY DEF Client, Connect, Refuse, PutSend, Ask, ReceiveHeader, ReceiveChunk,
           ReceiveNextHeader
  <2>. QED  BY <1>2, <2>1, <2>2, RowAlone, SameAlone
<1>6. Alone(k, got, got') /\ Alone(k, fresh, fresh')
  <2>1. got' = got \/ \E v : got' = [got EXCEPT ![k] = v]
    BY DEF Client, Connect, Refuse, PutSend, Ask, ReceiveHeader, ReceiveChunk,
           ReceiveNextHeader
  <2>2. fresh' = fresh \/ \E v : fresh' = [fresh EXCEPT ![k] = v]
    BY DEF Client, Connect, Refuse, PutSend, Ask, ReceiveHeader, ReceiveChunk,
           ReceiveNextHeader
  <2>. QED  BY <1>2, <2>1, <2>2, RowAlone, SameAlone
<1>7. Alone(k, late, late')
  <2>1. late' = late \/ \E v : late' = [late EXCEPT ![k] = v]
    BY DEF Client, Connect, Refuse, PutSend, Ask, ReceiveHeader, ReceiveChunk,
           ReceiveNextHeader, ClientReceives
  <2>. QED  BY <1>2, <2>1, RowAlone, SameAlone
<1>8. Alone(k, wpc, wpc')
  <2>1. wpc' = wpc \/ \E v : wpc' = [wpc EXCEPT ![k] = v]
    BY DEF Client, Connect, Refuse, PutSend, Ask, ReceiveHeader, ReceiveChunk,
           ReceiveNextHeader, ofServer
  <2>. QED  BY <1>2, <2>1, RowAlone, SameAlone
<1>9. Alone(k, toServer, toServer')
  <2>1. toServer' = toServer \/ \E s, v : toServer' = [toServer EXCEPT ![k][s] = v]
    BY DEF Client, Connect, Refuse, PutSend, Ask, ReceiveHeader, ReceiveChunk,
           ReceiveNextHeader, ClientSends, ClientReceives, net
  <2>. QED  BY <1>2, <2>1, EntryAlone, SameAlone
<1>10. Alone(k, toClient, toClient')
  <2>1. toClient' = toClient \/ \E s, v : toClient' = [toClient EXCEPT ![k][s] = v]
    BY DEF Client, Connect, Refuse, PutSend, Ask, ReceiveHeader, ReceiveChunk,
           ReceiveNextHeader, ClientSends, ClientReceives, net
  <2>. QED  BY <1>2, <2>1, EntryAlone, SameAlone
<1>. QED  BY <1>1, <1>3, <1>4, <1>5, <1>6, <1>7, <1>8, <1>9, <1>10 DEF QuietClient

(* What is left to prove of a client's step.                               *)
LEMMA ClientOrigin ==
  ASSUME IInv, OriginInv, NEW k \in Clients, QuietClient(k), ReplyOrigin(k)',
         \A s \in Servers : Origin(k, s)'
  PROVE  OriginInv'
<1>1. UNCHANGED <<cmd, cabinet, file, wcmd, nodes, disturbed>>
  BY DEF QuietClient
<1>2. disturbed' \in [Clients -> [Servers -> BOOLEAN]]
  BY <1>1 DEF OriginInv
<1>3. ASSUME NEW j \in Clients PROVE ReplyOrigin(j)'
  <2>1. CASE j = k
    BY <2>1
  <2>2. CASE j # k
    <3>1. pc'[j] = pc[j] /\ asked'[j] = asked[j] /\ reply'[j] = reply[j]
      BY <2>2 DEF QuietClient, Alone
    <3>2. ReplyOrigin(j)
      BY DEF OriginInv
    <3>. QED  BY <1>1, <3>1, <3>2, SameHome DEF ReplyOrigin
  <2>. QED  BY <2>1, <2>2
<1>4. ASSUME NEW j \in Clients, NEW s \in Servers PROVE Origin(j, s)'
  <2>1. CASE j = k
    BY <2>1
  <2>2. CASE j # k
    <3>1. wpc'[j] = wpc[j] /\ toServer'[j] = toServer[j] /\ toClient'[j] = toClient[j]
      BY <2>2 DEF QuietClient, Alone
    <3>2. Owned(j, s)' = Owned(j, s) /\ Answered(j, s)' = Answered(j, s)
      BY <1>1, OwnedKept
    <3>3. Origin(j, s)
      BY OriginOf
    <3>. QED  BY <1>1, <3>1, <3>2, <3>3, SameHome DEF Origin, Sent
  <2>. QED  BY <2>1, <2>2
<1>. QED  BY <1>1, <1>2, <1>3, <1>4, StoreKept DEF OriginInv

LEMMA ConnectionOrigin ==
  ASSUME OriginInv, NEW k \in Clients, QuietClient(k), NEW s \in Servers,
         wpc'[k][s] \notin {"find", "send", "sendbody"} \/ wpc'[k][s] = wpc[k][s],
         toServer'[k][s] \in Seq(Sent(Owned(k, s))),
         Answered(k, s) => toClient'[k][s] \in Seq(Replied(Home)),
         ~Answered(k, s) => toClient'[k][s] = <<>>
  PROVE  Origin(k, s)'
<1>1. UNCHANGED <<cmd, wcmd, nodes>>
  BY DEF QuietClient
<1>2. Owned(k, s)' = Owned(k, s) /\ Answered(k, s)' = Answered(k, s)
  BY <1>1, OwnedKept
<1>3. Origin(k, s)
  BY OriginOf
<1>. QED  BY <1>1, <1>2, <1>3, SameHome DEF Origin, Sent

LEMMA ConnectOrigin ==
  ASSUME IInv, OriginInv, NEW k \in Clients, Connect(k), QuietClient(k)
  PROVE  OriginInv'
<1> DEFINE n == cmd[k].files[1]
           first == [Blank EXCEPT !.op = "get", !.name = n]
<1>1. /\ pc[k] = "start" /\ UNCHANGED <<cmd, asked, toServer, toClient>>
      /\ wpc' = [wpc EXCEPT ![k] =
                   [s \in Servers |-> IF Contains(cmd[k].servers, s) THEN "first" ELSE "none"]]
      /\ \/ cmd[k].op = "put" /\ reply' = reply
         \/ cmd[k].op = "get" /\ reply' = [reply EXCEPT ![k] = first]
  BY DEF Connect, Goto, net
<1>2. /\ wpc \in [Clients -> [Servers -> Places]] /\ reply \in [Clients -> Good]
  BY DEF IInv, Types, ClientTypes, ServerTypes
<1>3. ReplyOrigin(k)'
  <2>1. ReplyOrigin(k)
    BY DEF OriginInv
  <2>2. CASE cmd[k].op = "put" /\ reply' = reply
    BY <1>1, <2>1, <2>2, SameHome DEF ReplyOrigin
  <2>3. CASE cmd[k].op = "get" /\ reply' = [reply EXCEPT ![k] = first]
    <3>1. reply'[k] = first
      BY <1>2, <2>3
    <3>2. first.op = "get" /\ first \in Home
      <4>1. n \in Names
        BY <2>3, JobIs DEF IInv
      <4>2. "get" \in Ops /\ <<>> \in Sizes
        BY DEF Ops, Sizes
      <4>3. first.op = "get" /\ first.name = n /\ first.ver = None /\ first.chunk = None
            /\ first.size = <<>>
        BY DEF Blank
      <4>4. first \in Cmds
        BY <4>1, <4>2 DEF Blank, Cmds
      <4>5. None \notin Versions
        BY NobodyHasNone, DfsAssumption DEF Versions, NoneIsNobody
      <4>6. first \notin Full
        BY <4>3, <4>5 DEF Full
      <4>7. Len(<<>>) = 0
        OBVIOUS
      <4> HIDE DEF first
      <4>8. first \in Home
        BY <4>3, <4>4, <4>6, <4>7 DEF Home
      <4>. QED  BY <4>3, <4>8
    <3> HIDE DEF first
    <3>3. asked'[k] = 0
      BY <1>1, <2>1 DEF ReplyOrigin
    <3>. QED  BY <3>1, <3>2, <3>3, SameHome DEF ReplyOrigin
  <2>. QED  BY <1>1, <2>2, <2>3
<1>4. ASSUME NEW s \in Servers PROVE Origin(k, s)'
  <2>1. wpc'[k][s] \in {"first", "none"}
    BY <1>1, <1>2
  <2>2. Origin(k, s)
    BY OriginOf
  <2>. QED  BY <1>1, <2>1, <2>2, ConnectionOrigin DEF Origin
<1>. QED  BY <1>3, <1>4, ClientOrigin

LEMMA RefuseOrigin ==
  ASSUME IInv, OriginInv, NEW k \in Clients, Refuse(k), QuietClient(k)
  PROVE  OriginInv'
<1>1. /\ UNCHANGED <<cmd, asked, reply, wpc, toServer, toClient>>
      /\ pc' = [pc EXCEPT ![k] = "refused"]
  BY DEF Refuse, Goto, net, ofServer
<1>2. pc'[k] = "refused"
  BY <1>1 DEF IInv, Types, ClientTypes
<1>3. ReplyOrigin(k)
  BY DEF OriginInv
<1>4. ReplyOrigin(k)'
  BY <1>1, <1>2, <1>3, SameHome DEF ReplyOrigin
<1>5. ASSUME NEW s \in Servers PROVE Origin(k, s)'
  <2>1. Origin(k, s)
    BY OriginOf
  <2>. QED  BY <1>1, <2>1, ConnectionOrigin DEF Origin
<1>. QED  BY <1>4, <1>5, ClientOrigin

LEMMA BodySent ==
  ASSUME NEW C, NEW n \in Names, NEW v \in Versions, NEW c \in Chunks
  PROVE  Body(n, v, c) \in Seq(Sent(C))
<1>1. ChunkSize(n, c) \in Nat
  BY ChunkSizes
<1>2. Offset(n, c) \in Nat
  <2>1. Size[n] \in Nat /\ Size[n] \div 4 \in Nat /\ c - 1 \in 0..3
    BY DfsAssumption DEF Chunks
  <2>. QED  BY <2>1 DEF Offset
<1>3. ASSUME NEW i \in 1..ChunkSize(n, c)
      PROVE  Byte(n, v, Offset(n, c) + i) \in Sent(C)
  <2>1. Offset(n, c) + i \in Nat
    BY <1>1, <1>2
  <2>2. <<"byte", <<n, v>>, Offset(n, c) + i>> \in {"byte"} \X (Names \X Versions) \X Nat
    BY <2>1
  <2>. QED  BY <2>2 DEF Byte, Sent
<1>. QED  BY <1>1, <1>3 DEF Body

(* What the client of a put sends belongs to its connection.               *)
LEMMA PutIsOwned ==
  ASSUME IInv, NEW k \in Clients, pc[k] = "put"
  PROVE  PutHeader(FileOf(k), k, ChunkOf(k)) \in Owned(k, ServerOf(k))
<1>1. /\ cmd[k].op = "put" /\ sent[k] \in Nat /\ FileOf(k) \in Names
      /\ ChunkOf(k) \in Chunks /\ sent[k] < PerFile(k) * Len(cmd[k].files)
  BY NextToSend
<1>2. /\ PerFile(k) \in {4, 8, 16} /\ Len(cmd[k].files) \in Nat
  BY <1>1, PutNotEmpty DEF IInv
<1>3. /\ (sent[k] \div PerFile(k)) + 1 \in 1..Len(cmd[k].files)
      /\ (sent[k] % 4) \div 2 \in 0..1
  BY <1>1, <1>2, PutIndices
<1>4. FileOf(k) \in Range(cmd[k].files)
  <2>1. cmd[k].files \in Seq(Names)
    BY <1>1, JobIs DEF IInv
  <2>2. DOMAIN cmd[k].files = 1..Len(cmd[k].files)
    BY <2>1
  <2>. QED  BY <1>3, <2>2 DEF FileOf, Range
<1>5. ChunkOf(k) \in Parts(FileOf(k), ServerOf(k))
  <2>1. (sent[k] % 4) \div 2 = 0 \/ (sent[k] % 4) \div 2 = 1
    BY <1>3
  <2>. QED  BY <2>1 DEF ChunkOf, Parts
<1> DEFINE h == PutHeader(FileOf(k), k, ChunkOf(k))
<1>6. h \in Full /\ Len(h.size) =< 2
  BY <1>1, PutHeaderFull DEF Versions
<1>7. h.op = "put" /\ h.name = FileOf(k) /\ h.ver = k /\ h.chunk = ChunkOf(k)
  BY DEF PutHeader
<1> HIDE DEF h
<1>8. h \in Owned(k, ServerOf(k))
  BY <1>1, <1>4, <1>5, <1>6, <1>7, FullIsGood DEF Owned, Answered, Good
<1>. QED  BY <1>8 DEF h

LEMMA PutSendOrigin ==
  ASSUME IInv, OriginInv, NEW k \in Clients, PutSend(k), QuietClient(k)
  PROVE  OriginInv'
<1> DEFINE s == ServerOf(k)
           cells == IF sent[k] % 2 = 0 THEN HeaderCells(PutHeader(FileOf(k), k, ChunkOf(k)))
                    ELSE Body(FileOf(k), k, ChunkOf(k))
<1>1. /\ pc[k] = "put" /\ UNCHANGED <<cmd, asked, reply, wpc, toClient>>
      /\ toServer' = [toServer EXCEPT ![k][s] = toServer[k][s] \o cells]
      /\ \E l \in {"put", "done", "killed"} : pc' = [pc EXCEPT ![k] = l]
  BY DEF PutSend, ClientSends, Goto, ofServer
<1>2. Types
  BY DEF IInv
<1>3. /\ s \in Servers /\ FileOf(k) \in Names /\ ChunkOf(k) \in Chunks /\ k \in Versions
  BY <1>1, NextToSend DEF Versions
<1>4. cells \in Seq(Sent(Owned(k, s)))
  BY <1>1, <1>3, PutIsOwned, HeaderOf, BodySent
<1> HIDE DEF cells, s
<1>5. /\ toServer'[k][s] = toServer[k][s] \o cells
      /\ \A r \in Servers : r # s => toServer'[k][r] = toServer[k][r]
  <2>1. toServer \in [Clients -> [Servers -> Seq(AnyCells)]]
    BY <1>2 DEF Types, ServerTypes
  <2>. QED  BY <1>1, <1>3, <2>1, Replaced
<1>6. ASSUME NEW r \in Servers PROVE Origin(k, r)'
  <2>1. Origin(k, r) /\ toServer[k][r] \in Seq(Sent(Owned(k, r)))
    BY OriginOf
  <2>2. toServer'[k][r] \in Seq(Sent(Owned(k, r)))
    <3>1. CASE r = s
      <4>1. toServer'[k][r] = toServer[k][r] \o cells /\ cells \in Seq(Sent(Owned(k, r)))
        BY <1>4, <1>5, <3>1
      <4>. QED  BY <2>1, <4>1
    <3>2. CASE r # s
      BY <1>5, <2>1, <3>2
    <3>. QED  BY <3>1, <3>2
  <2>. QED  BY <1>1, <2>1, <2>2, ConnectionOrigin DEF Origin
<1>7. ReplyOrigin(k)
  BY DEF OriginInv
<1>8. pc'[k] \in {"put", "done", "killed"}
  BY <1>1, <1>2 DEF Types, ClientTypes
<1>9. ReplyOrigin(k)'
  BY <1>1, <1>7, <1>8, SameHome DEF ReplyOrigin
<1>. QED  BY <1>6, <1>9, ClientOrigin

LEMMA AskOrigin ==
  ASSUME IInv, OriginInv, NEW k \in Clients, Ask(k), QuietClient(k)
  PROVE  OriginInv'
<1> DEFINE s == asked[k]
           cells == HeaderCells(reply[k])
<1>1. /\ pc[k] = "ask" /\ UNCHANGED <<cmd, asked, reply, wpc, toClient>>
      /\ toServer' = [toServer EXCEPT ![k][s] = toServer[k][s] \o cells]
      /\ pc' = [pc EXCEPT ![k] = "header"]
  BY DEF Ask, ClientSends, Goto, ofServer
<1>2. Types
  BY DEF IInv
<1>3. s \in {0, 2} /\ s \in Servers /\ cmd[k].op = "get"
  BY <1>1, <1>2, AskedType DEF AskedIsServer, IInv, ConnectionInv, AtClient
<1>4. ReplyOrigin(k)
  BY DEF OriginInv
<1>5. reply[k] \in Owned(k, s)
  <2>1. reply[k] \in Cmds /\ reply[k] \in Home
    BY <1>4, HomeClosed DEF ReplyOrigin
  <2>. QED  BY <1>1, <1>3, <1>4, <2>1 DEF ReplyOrigin, Owned, Answered, Home
<1>6. cells \in Seq(Sent(Owned(k, s)))
  BY <1>5, HeaderOf
<1> HIDE DEF cells, s
<1>7. /\ toServer'[k][s] = toServer[k][s] \o cells
      /\ \A r \in Servers : r # s => toServer'[k][r] = toServer[k][r]
  <2>1. toServer \in [Clients -> [Servers -> Seq(AnyCells)]]
    BY <1>2 DEF Types, ServerTypes
  <2>. QED  BY <1>1, <1>3, <2>1, Replaced
<1>8. ASSUME NEW r \in Servers PROVE Origin(k, r)'
  <2>1. Origin(k, r) /\ toServer[k][r] \in Seq(Sent(Owned(k, r)))
    BY OriginOf
  <2>2. toServer'[k][r] \in Seq(Sent(Owned(k, r)))
    <3>1. CASE r = s
      <4>1. toServer'[k][r] = toServer[k][r] \o cells /\ cells \in Seq(Sent(Owned(k, r)))
        BY <1>6, <1>7, <3>1
      <4>. QED  BY <2>1, <4>1
    <3>2. CASE r # s
      BY <1>7, <2>1, <3>2
    <3>. QED  BY <3>1, <3>2
  <2>. QED  BY <1>1, <2>1, <2>2, ConnectionOrigin DEF Origin
<1>9. pc'[k] = "header"
  BY <1>1, <1>2 DEF Types, ClientTypes
<1>10. ReplyOrigin(k)'
  BY <1>1, <1>4, <1>9, SameHome DEF ReplyOrigin
<1>. QED  BY <1>8, <1>10, ClientOrigin

(* What a client that receives leaves in its streams.                      *)
LEMMA ReceivingOrigin ==
  ASSUME IInv, OriginInv, NEW k \in Clients, QuietClient(k), NEW n \in Nat, ClientReceives(k, n),
         cmd[k].op = "get", wpc' = wpc
  PROVE  /\ \A s \in Servers : Origin(k, s)'
         /\ asked[k] = 0 => Taken(toClient[k][0], n) \in Seq(Replied(Home))
         /\ asked[k] = 2 => Taken(toClient[k][2], n) = <<>>
<1>1. Types /\ asked[k] \in {0, 2} /\ asked[k] \in Servers /\ 0 \in Servers /\ 2 \in Servers
  BY AskedType DEF IInv, AskedIsServer, Servers
<1>2. /\ toServer' = toServer
      /\ toClient'[k][asked[k]] = Remaining(toClient[k][asked[k]], n)
      /\ \A r \in Servers : r # asked[k] => toClient'[k][r] = toClient[k][r]
  BY <1>1, ClientReceived
<1>3. toClient[k][0] \in Seq(Replied(Home)) /\ toClient[k][2] = <<>>
  BY <1>1, OriginOf DEF Origin, Answered
<1>4. /\ Taken(toClient[k][0], n) \in Seq(Replied(Home))
      /\ Remaining(toClient[k][0], n) \in Seq(Replied(Home))
  BY <1>3, ReceiveType
<1>5. Taken(toClient[k][2], n) = <<>> /\ Remaining(toClient[k][2], n) = <<>>
  <2>1. <<>> \in Seq(Cells) /\ Len(<<>>) =< n
    OBVIOUS
  <2>. QED  BY <1>3, <2>1, ReceiveAll
<1>6. ASSUME NEW s \in Servers PROVE Origin(k, s)'
  <2>1. Origin(k, s) /\ toServer'[k][s] \in Seq(Sent(Owned(k, s)))
    BY <1>2, OriginOf
  <2>2. Answered(k, s) => toClient'[k][s] \in Seq(Replied(Home))
    BY <1>1, <1>2, <1>3, <1>4 DEF Answered
  <2>3. ~Answered(k, s) => toClient'[k][s] = <<>>
    <3> SUFFICES ASSUME ~Answered(k, s) PROVE toClient'[k][s] = <<>>
      OBVIOUS
    <3>1. s # 0 /\ toClient[k][s] = <<>>
      BY <2>1, cmd[k].op = "get" DEF Answered, Origin
    <3>2. CASE s = asked[k]
      BY <1>1, <1>2, <1>5, <3>1, <3>2
    <3>3. CASE s # asked[k]
      BY <1>2, <3>1, <3>3
    <3>. QED  BY <3>2, <3>3
  <2>. QED  BY <2>1, <2>2, <2>3, ConnectionOrigin
<1>. QED  BY <1>4, <1>5, <1>6

LEMMA ParsedHome ==
  ASSUME NEW k \in Clients, NEW old \in Home, NEW n \in Nat, asked[k] \in {0, 2},
         asked[k] = 0 => Taken(toClient[k][0], n) \in Seq(Replied(Home)),
         asked[k] = 2 => Taken(toClient[k][2], n) = <<>>
  PROVE  LET c == Parsed(old, Taken(toClient[k][asked[k]], n)) IN
         c \in Home /\ (asked[k] = 2 => c = old)
<1>1. CASE asked[k] = 0
  <2>1. Taken(toClient[k][asked[k]], n) \in Seq(Replied(Home))
    BY <1>1
  <2>. QED  BY <1>1, <2>1, HomeClosed, ParsedClosed
<1>2. CASE asked[k] = 2
  <2>1. Taken(toClient[k][asked[k]], n) = <<>>
    BY <1>2
  <2>. QED  BY <2>1, ParsedNothing
<1>. QED  BY <1>1, <1>2

LEMMA ReceiveHeaderOrigin ==
  ASSUME IInv, OriginInv, NEW k \in Clients, ReceiveHeader(k), QuietClient(k)
  PROVE  OriginInv'
<1> DEFINE c == Parsed(reply[k], Taken(toClient[k][asked[k]], HdrLen))
<1>1. /\ pc[k] = "header" /\ pc' = [pc EXCEPT ![k] = "body"]
      /\ ClientReceives(k, HdrLen) /\ reply' = [reply EXCEPT ![k] = c]
      /\ UNCHANGED <<cmd, asked, wpc>>
  BY DEF ReceiveHeader, Goto, ofServer
<1>2. Types /\ HdrLen \in Nat /\ cmd[k].op = "get" /\ asked[k] \in {0, 2}
  BY <1>1, DfsAssumption DEF IInv, ConnectionInv, AtClient, Types, ClientTypes
<1>3. ReplyOrigin(k) /\ reply[k] \in Home
  BY DEF OriginInv, ReplyOrigin
<1>4. /\ \A s \in Servers : Origin(k, s)'
      /\ asked[k] = 0 => Taken(toClient[k][0], HdrLen) \in Seq(Replied(Home))
      /\ asked[k] = 2 => Taken(toClient[k][2], HdrLen) = <<>>
  BY <1>1, <1>2, ReceivingOrigin
<1>5. c \in Home /\ (asked[k] = 2 => c = reply[k])
  BY <1>2, <1>3, <1>4, ParsedHome
<1> HIDE DEF c
<1>6. pc'[k] = "body" /\ reply'[k] = c
  BY <1>1, <1>2 DEF Types, ClientTypes
<1>7. ReplyOrigin(k)'
  BY <1>1, <1>3, <1>5, <1>6, SameHome DEF ReplyOrigin
<1>. QED  BY <1>4, <1>7, ClientOrigin

LEMMA ReceiveNextHeaderOrigin ==
  ASSUME IInv, OriginInv, NEW k \in Clients, ReceiveNextHeader(k), QuietClient(k)
  PROVE  OriginInv'
<1> DEFINE old == [reply[k] EXCEPT !.op = ""]
           c == Parsed(old, Taken(toClient[k][asked[k]], HdrLen))
<1>1. /\ pc[k] = "next" /\ ClientReceives(k, HdrLen) /\ reply' = [reply EXCEPT ![k] = c]
      /\ \/ reply'[k].op = "get" /\ pc' = [pc EXCEPT ![k] = "body"] /\ asked' = asked
         \/ /\ reply'[k].op # "get" /\ pc' = [pc EXCEPT ![k] = "ask"]
            /\ asked' = [asked EXCEPT ![k] = 2]
         \/ /\ reply'[k].op # "get" /\ pc' = [pc EXCEPT ![k] = "done"]
            /\ asked' = asked
      /\ UNCHANGED <<cmd, wpc>>
  BY DEF ReceiveNextHeader, Goto, ofServer
<1>2. Types /\ HdrLen \in Nat /\ cmd[k].op = "get" /\ asked[k] \in {0, 2}
  BY <1>1, DfsAssumption DEF IInv, ConnectionInv, AtClient, Types, ClientTypes
<1>3. ReplyOrigin(k) /\ reply[k] \in Home /\ old \in Home /\ old.op = ""
  <2>1. ReplyOrigin(k) /\ reply[k] \in Home
    BY DEF OriginInv, ReplyOrigin
  <2>2. "" \in Ops /\ reply[k] \in Cmds
    BY <2>1, HomeClosed DEF Ops
  <2>. QED  BY <2>1, <2>2, HomeClosed, OpOf
<1> HIDE DEF old
<1>4. /\ \A s \in Servers : Origin(k, s)'
      /\ asked[k] = 0 => Taken(toClient[k][0], HdrLen) \in Seq(Replied(Home))
      /\ asked[k] = 2 => Taken(toClient[k][2], HdrLen) = <<>>
  BY <1>1, <1>2, ReceivingOrigin
<1>5. c \in Home /\ (asked[k] = 2 => c = old)
  BY <1>2, <1>3, <1>4, ParsedHome
<1> HIDE DEF c
<1>6. reply'[k] = c
  BY <1>1, <1>2 DEF Types, ClientTypes
<1>7. \/ c.op = "get" /\ pc'[k] = "body" /\ asked'[k] = asked[k]
      \/ c.op # "get" /\ pc'[k] = "ask" /\ asked'[k] = 2
      \/ c.op # "get" /\ pc'[k] = "done" /\ asked'[k] = asked[k]
  <2>1. /\ pc \in [Clients -> Pcs] /\ asked \in [Clients -> {0, 2}]
    BY <1>2 DEF Types, ClientTypes
  <2>. QED  BY <1>1, <1>6, <2>1
<1>8. ReplyOrigin(k)'
  <2>1. asked'[k] = 2 => c.op # "get"
    BY <1>3, <1>5, <1>7
  <2>2. pc'[k] \in {"start", "ask"} /\ asked'[k] = 0 => FALSE
    BY <1>7
  <2>3. pc'[k] # "start"
    BY <1>7
  <2>. QED  BY <1>5, <1>6, <2>1, <2>2, <2>3, SameHome DEF ReplyOrigin
<1>. QED  BY <1>4, <1>8, ClientOrigin

LEMMA ReceiveChunkOrigin ==
  ASSUME IInv, OriginInv, NEW k \in Clients, ReceiveChunk(k), QuietClient(k)
  PROVE  OriginInv'
<1> DEFINE n == IF pc[k] = "rest" THEN left[k] ELSE Value(reply[k].size)
<1>1. /\ pc[k] \in {"body", "rest"} /\ ClientReceives(k, n)
      /\ \E l \in {"rest", "next"} : pc' = [pc EXCEPT ![k] = l]
      /\ UNCHANGED <<cmd, asked, wpc, reply>>
  BY DEF ReceiveChunk, Goto, ofServer
<1>2. Types /\ cmd[k].op = "get"
  BY <1>1 DEF IInv, ConnectionInv, AtClient
<1>3. n \in Nat
  <2>1. reply[k] \in Good /\ left[k] \in Nat
    BY <1>2 DEF Types, ClientTypes
  <2>2. Value(reply[k].size) \in Nat
    BY <2>1, ValueType DEF Good, Cmds
  <2>. QED  BY <2>1, <2>2
<1> HIDE DEF n
<1>4. \A s \in Servers : Origin(k, s)'
  BY <1>1, <1>2, <1>3, ReceivingOrigin
<1>5. pc'[k] \in {"rest", "next"}
  BY <1>1, <1>2 DEF Types, ClientTypes
<1>6. ReplyOrigin(k)
  BY DEF OriginInv
<1>7. ReplyOrigin(k)'
  BY <1>1, <1>5, <1>6, SameHome DEF ReplyOrigin
<1>. QED  BY <1>4, <1>7, ClientOrigin

LEMMA ClientKeepsOrigin ==
  ASSUME IInv, OriginInv, NEW k \in Clients, Client(k)
  PROVE  OriginInv'
<1>1. QuietClient(k)
  BY ClientIsQuiet DEF IInv
<1>. QED
  BY <1>1, ConnectOrigin, RefuseOrigin, PutSendOrigin, AskOrigin, ReceiveHeaderOrigin,
     ReceiveChunkOrigin, ReceiveNextHeaderOrigin DEF Client

LEMMA NextKeepsOrigin ==
  ASSUME IInv, OriginInv, [Next]_vars
  PROVE  OriginInv'
<1>1. CASE \E k \in Clients : Client(k)
  BY <1>1, ClientKeepsOrigin
<1>2. CASE \E k \in Clients, s \in Servers : Worker(k, s)
  BY <1>2, WorkerKeepsOrigin
<1>3. CASE \E k \in Clients, s \in Servers : Die(k, s)
  BY <1>3, DieKeepsOrigin
<1>4. CASE \E s \in Servers : Stop(s) \/ StartAgain(s)
  BY <1>4, PowerKeepsOrigin
<1>5. CASE (\E k \in Clients : SendNothing(k)) \/ Terminating \/ UNCHANGED vars
  BY <1>5, PowerKeepsOrigin DEF SendNothing, Terminating
<1>. QED  BY <1>1, <1>2, <1>3, <1>4, <1>5 DEF Next

-----------------------------------------------------------------------------
(* The nodes and chunks put before are those of server 0's parts.          *)
LEMMA InitOrigin ==
  ASSUME Init
  PROVE  OriginInv
<1>1. Blank \in Cmds /\ Blank \notin Full /\ Blank.op = ""
  <2>1. <<>> \in Sizes /\ None \notin Names
    BY DfsAssumption DEF Sizes
  <2>2. Blank.op = "" /\ Blank.name = None
    BY DEF Blank
  <2>3. Blank \in Cmds
    BY <2>1 DEF Blank, Cmds, Ops
  <2>4. \A c \in Full : c.name \in Names
    BY DEF Full
  <2>. QED  BY <2>1, <2>2, <2>3, <2>4
<1>2. Blank \in Home /\ \A k, s : Blank \in Owned(k, s)
  <2>1. Len(Blank.size) =< 2
    BY DEF Blank
  <2>2. Blank.op # "get" /\ Blank.op # "put"
    BY <1>1
  <2> DEFINE b == Blank
  <2> HIDE DEF b
  <2>3. b \in Cmds /\ b \notin Full /\ b.op # "get" /\ b.op # "put" /\ Len(b.size) =< 2
    BY <1>1, <2>1, <2>2 DEF b
  <2>4. b \in Home /\ \A k, s : b \in Owned(k, s)
    BY <2>3 DEF Home, Owned
  <2>. QED  BY <2>4 DEF b
<1>3. ASSUME NEW k \in Clients PROVE ReplyOrigin(k)
  <2>1. reply[k] = Blank /\ asked[k] = 0
    BY DEF Init
  <2>. QED  BY <1>1, <1>2, <2>1 DEF ReplyOrigin
<1>4. ASSUME NEW k \in Clients, NEW s \in Servers PROVE Origin(k, s)
  <2>1. /\ wcmd[k][s] = Blank /\ wpc[k][s] = "none" /\ nodes[k][s] = <<>>
        /\ toServer[k][s] = <<>> /\ toClient[k][s] = <<>>
    BY DEF Init
  <2>2. \A S : <<>> \in Seq(S)
    OBVIOUS
  <2>. QED  BY <1>2, <2>1, <2>2 DEF Origin
<1>5. NodesBefore(0) \in Seq(Home)
  <2> DEFINE first(i) == [PutHeader(Before[i], 0, Part(Before[i], 0, 0)) EXCEPT !.op = "get"]
             second(i) == Fields(first(i), PutHeader(Before[i], 0, Part(Before[i], 0, 1)))
             parts == [i \in DOMAIN Before |-> <<first(i), second(i)>>]
  <2>1. NodesBefore(0) = FlattenSeq(parts)
    BY DEF NodesBefore
  <2>2. ASSUME NEW i \in DOMAIN Before PROVE first(i) \in Home /\ second(i) \in Home
    <3>1. Before[i] \in Names /\ 0 \in Versions
      BY DfsAssumption DEF Versions
    <3>2. 0 \in Servers /\ 0 \in 0..1 /\ 1 \in 0..1
      BY DEF Servers
    <3>3. Part(Before[i], 0, 0) \in Chunks /\ Part(Before[i], 0, 1) \in Chunks
      BY <3>1, <3>2, PartType
    <3> DEFINE a == PutHeader(Before[i], 0, Part(Before[i], 0, 0))
               b == PutHeader(Before[i], 0, Part(Before[i], 0, 1))
    <3>4. a \in Full /\ b \in Full /\ Len(a.size) =< 2 /\ Len(b.size) =< 2
      BY <3>1, <3>3, PutHeaderFull
    <3>5. a \in Cmds /\ b \in Cmds
      BY <3>4, FullIsGood DEF Good
    <3>6. a \in Home /\ b \in Home
      <4>1. /\ a.name = Before[i] /\ a.chunk = Part(Before[i], 0, 0)
            /\ b.name = Before[i] /\ b.chunk = Part(Before[i], 0, 1)
        BY DEF PutHeader
      <4> HIDE DEF a, b
      <4>. QED  BY <3>4, <3>5, <4>1 DEF Home, Parts
    <3> HIDE DEF a, b
    <3>7. [a EXCEPT !.op = "get"] \in Home
      BY <3>6, HomeClosed DEF Ops
    <3>8. first(i) = [a EXCEPT !.op = "get"]
      BY DEF a
    <3>9. second(i) = Fields(first(i), b)
      BY DEF b
    <3> HIDE DEF first, second
    <3>. QED  BY <3>6, <3>7, <3>8, <3>9, HomeClosed DEF Closed
  <2> HIDE DEF first, second
  <2>3. parts \in Seq(Seq(Home))
    <3>1. \A i \in DOMAIN Before : <<first(i), second(i)>> \in Seq(Home)
      BY <2>2
    <3>2. Before \in Seq(Names)
      BY DfsAssumption
    <3>3. DOMAIN Before = 1..Len(Before) /\ Len(Before) \in Nat
      BY <3>2
    <3>. QED  BY <3>1, <3>3
  <2>. QED  BY <2>1, <2>3, FlattenType
<1>6. StoreOrigin
  <2>0. 0 \in Servers
    BY DEF Servers
  <2>1. cabinet[0] = NodesBefore(0)
    BY <2>0 DEF Init
  <2>2. ASSUME NEW id \in DOMAIN file[0]
        PROVE  file[0][id] \in Seq(Sent(Home))
    <3>1. Types
      BY InitTypes
    <3>2. file[0] \in Contents
      BY <2>0, <3>1 DEF Types, ServerTypes
    <3>3. id \in Ids
      BY <3>2 DEF Contents
    <3>4. file[0][id] = Body(id[1], id[2], id[3])
      BY <2>0 DEF Init
    <3>5. id[1] \in Names /\ id[2] \in Versions /\ id[3] \in Chunks
      BY <3>3 DEF Ids
    <3>. QED  BY <3>4, <3>5, BodySent
  <2>. QED  BY <1>5, <2>1, <2>2 DEF StoreOrigin
<1>7. disturbed \in [Clients -> [Servers -> BOOLEAN]]
  BY DEF Init
<1>. QED  BY <1>3, <1>4, <1>6, <1>7 DEF OriginInv

-----------------------------------------------------------------------------
(* What the client of a put sends on one connection: c.job is its command, *)
(* c.k the client and c.s the server.  Chunk i is the i-th that this       *)
(* server gets; message 2 * i - 1 is its header, and message 2 * i its     *)
(* bytes.                                                                  *)
Connection(k, s) == [job |-> cmd[k], k |-> k, s |-> s]

IsPut(c) ==
  /\ c.k \in Clients /\ c.s \in Servers
  /\ c.job.files \in Seq(Names) \ {<<>>} /\ IsInjective(c.job.files)

Count(c) == 2 * Len(c.job.files)
NameAt(c, i) == c.job.files[(i + 1) \div 2]
PartAt(c, i) == Part(NameAt(c, i), c.s, (i + 1) % 2)
LengthAt(c, i) == ChunkSize(NameAt(c, i), PartAt(c, i))
IdAt(c, i) == <<NameAt(c, i), c.k, PartAt(c, i)>>
BodyAt(c, i) == Body(NameAt(c, i), c.k, PartAt(c, i))
HeaderAt(c, i) == PutHeader(NameAt(c, i), c.k, PartAt(c, i))

Message(c, j) ==
  IF j % 2 = 1 THEN HeaderCells(HeaderAt(c, (j + 1) \div 2)) ELSE BodyAt(c, j \div 2)

(* A stream in which messages r + 1 to m follow one another.               *)
Carries(c, stream, r, m) ==
  /\ r =< m
  /\ \E t \in [r..m -> Seq(Cells)] :
       /\ t[r] = stream /\ t[m] = <<>>
       /\ \A j \in r..m - 1 : t[j] = Message(c, j + 1) \o t[j + 1]

LEMMA ChunkAt ==
  ASSUME NEW c, IsPut(c), NEW i \in 1..Count(c)
  PROVE  /\ NameAt(c, i) \in Names /\ PartAt(c, i) \in Chunks /\ c.k \in Versions
         /\ LengthAt(c, i) \in Nat /\ LengthAt(c, i) =< HdrLen
         /\ LengthAt(c, i) < Base * Base
         /\ HeaderAt(c, i) \in Full
         /\ BodyAt(c, i) \in Seq(Cells) /\ Len(BodyAt(c, i)) = LengthAt(c, i)
         /\ IdAt(c, i) \in Ids
<1>1. c.job.files \in Seq(Names) /\ Len(c.job.files) \in Nat /\ c.s \in Servers
  BY DEF IsPut
<1>2. (i + 1) \div 2 \in 1..Len(c.job.files) /\ (i + 1) % 2 \in 0..1
  BY <1>1 DEF Count
<1>3. NameAt(c, i) \in Names
  BY <1>1, <1>2 DEF NameAt
<1>4. PartAt(c, i) \in Chunks
  BY <1>1, <1>2, <1>3, PartType DEF PartAt
<1>5. c.k \in Versions
  BY DEF IsPut, Versions
<1>6. HeaderAt(c, i) \in Full
  BY <1>3, <1>4, <1>5, PutHeaderFull DEF HeaderAt
<1>7. BodyAt(c, i) \in Seq(Cells) /\ Len(BodyAt(c, i)) = LengthAt(c, i)
  BY <1>3, <1>4, <1>5, BodyType DEF BodyAt, LengthAt
<1>8. LengthAt(c, i) \in Nat /\ LengthAt(c, i) =< HdrLen /\ LengthAt(c, i) < Base * Base
  BY <1>3, <1>4, ChunkSizes DEF LengthAt
<1>9. IdAt(c, i) \in Ids
  BY <1>3, <1>4, <1>5 DEF IdAt, Ids
<1>. QED  BY <1>3, <1>4, <1>5, <1>6, <1>7, <1>8, <1>9

LEMMA MessageAt ==
  ASSUME NEW c, NEW i \in Nat \ {0}
  PROVE  /\ Message(c, 2 * i - 1) = HeaderCells(HeaderAt(c, i))
         /\ Message(c, 2 * i) = BodyAt(c, i)
<1>1. (2 * i - 1) % 2 = 1 /\ ((2 * i - 1) + 1) \div 2 = i
  OBVIOUS
<1>2. (2 * i) % 2 = 0 /\ (2 * i) \div 2 = i
  OBVIOUS
<1>. QED  BY <1>1, <1>2 DEF Message

LEMMA MessageType ==
  ASSUME NEW c, IsPut(c), NEW j \in 1..2 * Count(c)
  PROVE  Message(c, j) \in Seq(Cells)
<1>1. Count(c) \in Nat
  BY DEF IsPut, Count
<1>2. CASE j % 2 = 1
  <2>1. (j + 1) \div 2 \in 1..Count(c)
    BY <1>1, <1>2
  <2>2. HeaderAt(c, (j + 1) \div 2) \in Full
    BY <2>1, ChunkAt
  <2>. QED  BY <1>2, <2>2, HeaderType DEF Message
<1>3. CASE j % 2 # 1
  <2>1. j \div 2 \in 1..Count(c)
    BY <1>1, <1>3
  <2>2. BodyAt(c, j \div 2) \in Seq(Cells)
    BY <2>1, ChunkAt
  <2>. QED  BY <1>3, <2>2 DEF Message
<1>. QED  BY <1>2, <1>3

(* The two chunks of a server differ, and together two servers of a pair   *)
(* have all four.                                                          *)
LEMMA PartsDiffer ==
  ASSUME NEW n \in Names, NEW s \in Servers
  PROVE  Part(n, s, 0) # Part(n, s, 1)
<1>1. BucketOf[n] \in 0..3 /\ s \in 0..3
  BY DfsAssumption DEF Servers
<1>2. \A b \in 0..3, r \in 0..3 : Distro[b + 1][2 * r + 0 + 1] # Distro[b + 1][2 * r + 1 + 1]
  <2> SUFFICES ASSUME NEW b \in 0..3, NEW r \in 0..3
               PROVE  Distro[b + 1][2 * r + 0 + 1] # Distro[b + 1][2 * r + 1 + 1]
    OBVIOUS
  <2>1. CASE b = 0
    BY <2>1 DEF Distro
  <2>2. CASE b = 1
    BY <2>2 DEF Distro
  <2>3. CASE b = 2
    BY <2>3 DEF Distro
  <2>4. CASE b = 3
    BY <2>4 DEF Distro
  <2>. QED  BY <2>1, <2>2, <2>3, <2>4
<1>. QED  BY <1>1, <1>2 DEF Part

LEMMA IdsDiffer ==
  ASSUME NEW c, IsPut(c), NEW i \in 1..Count(c), NEW j \in 1..Count(c), i # j
  PROVE  IdAt(c, i) # IdAt(c, j)
<1> DEFINE a == (i + 1) \div 2
           b == (j + 1) \div 2
<1>1. c.job.files \in Seq(Names) /\ Len(c.job.files) \in Nat /\ IsInjective(c.job.files)
  BY DEF IsPut
<1>2. a \in 1..Len(c.job.files) /\ b \in 1..Len(c.job.files)
  BY <1>1 DEF Count
<1>3. CASE a # b
  <2>1. c.job.files[a] # c.job.files[b]
    BY <1>1, <1>2, <1>3 DEF IsInjective
  <2>. QED  BY <2>1 DEF IdAt, NameAt
<1>4. CASE a = b
  <2>1. \/ (i + 1) % 2 = 0 /\ (j + 1) % 2 = 1
        \/ (i + 1) % 2 = 1 /\ (j + 1) % 2 = 0
    BY <1>1, <1>4 DEF Count
  <2>2. NameAt(c, i) = NameAt(c, j)
    BY <1>4 DEF NameAt
  <2>3. NameAt(c, i) \in Names /\ c.s \in Servers
    BY ChunkAt DEF IsPut
  <2>4. Part(NameAt(c, i), c.s, 0) # Part(NameAt(c, i), c.s, 1)
    BY <2>3, PartsDiffer
  <2>5. PartAt(c, i) # PartAt(c, j)
    BY <2>1, <2>2, <2>4 DEF PartAt
  <2>. QED  BY <2>5 DEF IdAt
<1>. QED  BY <1>3, <1>4
-----------------------------------------------------------------------------
(* Streams.                                                                *)
LEMMA CarriesNothing ==
  ASSUME NEW c, NEW m \in Nat
  PROVE  Carries(c, <<>>, m, m)
<1> DEFINE t == [j \in m..m |-> <<>>]
<1>1. t \in [m..m -> Seq(Cells)] /\ t[m] = <<>>
  OBVIOUS
<1> HIDE DEF t
<1>2. m =< m /\ \A j \in m..m - 1 : FALSE
  OBVIOUS
<1>. QED  BY <1>1, <1>2 DEF Carries

LEMMA CarriesIs ==
  ASSUME NEW c, NEW stream, NEW r \in Nat, NEW m \in Nat, Carries(c, stream, r, m)
  PROVE  /\ stream \in Seq(Cells) /\ r =< m
         /\ r = m => stream = <<>>
         /\ r < m => \E rest \in Seq(Cells) :
              stream = Message(c, r + 1) \o rest /\ Carries(c, rest, r + 1, m)
<1>1. PICK t \in [r..m -> Seq(Cells)] :
        /\ t[r] = stream /\ t[m] = <<>>
        /\ \A j \in r..m - 1 : t[j] = Message(c, j + 1) \o t[j + 1]
  BY DEF Carries
<1>2. r =< m
  BY DEF Carries
<1>3. r \in r..m /\ stream \in Seq(Cells)
  BY <1>1, <1>2
<1>4. ASSUME r < m
      PROVE  \E rest \in Seq(Cells) :
               stream = Message(c, r + 1) \o rest /\ Carries(c, rest, r + 1, m)
  <2> DEFINE u == [j \in r + 1..m |-> t[j]]
  <2>1. r + 1 \in r..m /\ r \in r..m - 1 /\ r + 1 \in r + 1..m /\ m \in r + 1..m /\ r + 1 =< m
    BY <1>4
  <2>2. t[r + 1] \in Seq(Cells) /\ stream = Message(c, r + 1) \o t[r + 1]
    BY <1>1, <2>1
  <2>3. u \in [r + 1..m -> Seq(Cells)] /\ u[r + 1] = t[r + 1] /\ u[m] = <<>>
    <3>1. \A j \in r + 1..m : j \in r..m
      OBVIOUS
    <3>. QED  BY <1>1, <2>1, <3>1
  <2>4. \A j \in r + 1..m - 1 : u[j] = Message(c, j + 1) \o u[j + 1]
    <3> SUFFICES ASSUME NEW j \in r + 1..m - 1
                 PROVE  u[j] = Message(c, j + 1) \o u[j + 1]
      OBVIOUS
    <3>1. j \in r..m - 1 /\ j \in r + 1..m /\ j + 1 \in r + 1..m
      OBVIOUS
    <3>. QED  BY <1>1, <3>1
  <2> HIDE DEF u
  <2>5. Carries(c, t[r + 1], r + 1, m)
    BY <2>1, <2>3, <2>4 DEF Carries
  <2>. QED  BY <2>2, <2>5
<1>. QED  BY <1>1, <1>2, <1>3, <1>4

LEMMA Associates ==
  ASSUME NEW S, NEW x \in Seq(S), NEW y \in Seq(S), NEW z \in Seq(S)
  PROVE  (x \o y) \o z = x \o (y \o z)
OBVIOUS

LEMMA CarriesMore ==
  ASSUME NEW c, NEW stream, NEW r \in Nat, NEW m \in Nat, Carries(c, stream, r, m),
         \A j \in 1..m + 1 : Message(c, j) \in Seq(Cells)
  PROVE  Carries(c, stream \o Message(c, m + 1), r, m + 1)
<1>1. PICK t \in [r..m -> Seq(Cells)] :
        /\ t[r] = stream /\ t[m] = <<>>
        /\ \A j \in r..m - 1 : t[j] = Message(c, j + 1) \o t[j + 1]
  BY DEF Carries
<1>2. r =< m
  BY DEF Carries
<1> DEFINE msg == Message(c, m + 1)
           u == [j \in r..m + 1 |-> IF j = m + 1 THEN <<>> ELSE t[j] \o msg]
<1>3. m + 1 \in 1..m + 1 /\ msg \in Seq(Cells) /\ <<>> \in Seq(Cells)
  OBVIOUS
<1> HIDE DEF msg
<1>4. \A j \in r..m + 1 : j # m + 1 => j \in r..m
  OBVIOUS
<1>5. u \in [r..m + 1 -> Seq(Cells)]
  <2>1. \A j \in r..m : t[j] \o msg \in Seq(Cells)
    BY <1>1, <1>3
  <2>. QED  BY <1>3, <1>4, <2>1
<1>6. u[r] = stream \o msg /\ u[m + 1] = <<>>
  <2>1. r \in r..m + 1 /\ r # m + 1 /\ m + 1 \in r..m + 1
    BY <1>2
  <2>. QED  BY <1>1, <2>1
<1>7. ASSUME NEW j \in r..m PROVE u[j] = Message(c, j + 1) \o u[j + 1]
  <2>1. j \in r..m + 1 /\ j # m + 1 /\ j + 1 \in r..m + 1
    OBVIOUS
  <2>2. u[j] = t[j] \o msg
    BY <2>1
  <2>3. CASE j = m
    <3>1. u[j + 1] = <<>> /\ t[j] = <<>>
      BY <1>1, <1>6, <2>3
    <3>2. <<>> \o msg = msg /\ msg \o <<>> = msg
      BY <1>3
    <3>. QED  BY <2>2, <2>3, <3>1, <3>2 DEF msg
  <2>4. CASE j # m
    <3>1. j \in r..m - 1 /\ j + 1 \in r..m /\ j + 1 # m + 1 /\ j + 1 \in 1..m + 1
      BY <2>4
    <3>2. u[j + 1] = t[j + 1] \o msg /\ t[j] = Message(c, j + 1) \o t[j + 1]
      BY <1>1, <2>1, <3>1
    <3>3. Message(c, j + 1) \in Seq(Cells) /\ t[j + 1] \in Seq(Cells)
      BY <1>1, <3>1
    <3>4. \A x, y, z \in Seq(Cells) : (x \o y) \o z = x \o (y \o z)
      BY Associates
    <3>5. (Message(c, j + 1) \o t[j + 1]) \o msg = Message(c, j + 1) \o (t[j + 1] \o msg)
      BY <1>3, <3>3, <3>4
    <3> HIDE DEF u
    <3>. QED  BY <2>2, <3>2, <3>5
  <2>. QED  BY <2>3, <2>4
<1>8. r =< m + 1 /\ r..(m + 1) - 1 = r..m
  BY <1>2
<1> HIDE DEF u
<1>9. Carries(c, stream \o msg, r, m + 1)
  BY <1>5, <1>6, <1>7, <1>8 DEF Carries
<1>. QED  BY <1>9 DEF msg

-----------------------------------------------------------------------------
(* What is received of two messages that follow one another.               *)
LEMMA TakenWithin ==
  ASSUME NEW S, NEW a \in Seq(S), NEW b \in Seq(S), NEW n \in 0..Len(a)
  PROVE  /\ Taken(a \o b, n) = SubSeq(a, 1, n)
         /\ Remaining(a \o b, n) = SubSeq(a, n + 1, Len(a)) \o b
<1> DEFINE m == Min({n, Len(a \o b)})
<1>1. Len(a \o b) = Len(a) + Len(b) /\ n \in Nat /\ Len(a) \in Nat /\ Len(b) \in Nat
  OBVIOUS
<1>2. m = n
  <2>1. n =< Len(a \o b)
    BY <1>1
  <2> DEFINE l == Len(a \o b)
  <2>2. \E x \in {n, l} : \A y \in {n, l} : x =< y
    BY <1>1, <2>1
  <2>3. m \in {n, l} /\ \A y \in {n, l} : m =< y
    BY <2>2 DEF Min
  <2> HIDE DEF m, l
  <2>4. m =< n /\ (m = n \/ m = l)
    BY <2>3
  <2>. QED  BY <1>1, <2>1, <2>4 DEF l
<1> HIDE DEF m
<1>3. /\ Taken(a \o b, n) = SubSeq(a \o b, 1, n)
      /\ Remaining(a \o b, n) = SubSeq(a \o b, n + 1, Len(a \o b))
  BY <1>2 DEF Taken, Remaining, m
<1>4. SubSeq(a \o b, 1, n) = SubSeq(a, 1, n)
  BY <1>1
<1>5. SubSeq(a \o b, n + 1, Len(a \o b)) = SubSeq(a, n + 1, Len(a)) \o b
  <2> DEFINE x == SubSeq(a \o b, n + 1, Len(a \o b))
             z == SubSeq(a, n + 1, Len(a))
             y == z \o b
  <2>1. /\ x \in Seq(S) /\ Len(x) = Len(a) + Len(b) - n
        /\ \A i \in 1..Len(a) + Len(b) - n : x[i] = (a \o b)[n + i]
    BY <1>1
  <2>2. /\ z \in Seq(S) /\ Len(z) = Len(a) - n
        /\ \A i \in 1..Len(a) - n : z[i] = a[n + i]
    BY <1>1
  <2> HIDE DEF z
  <2>3. /\ y \in Seq(S) /\ Len(y) = Len(a) - n + Len(b)
        /\ \A i \in 1..Len(a) + Len(b) - n :
             y[i] = IF i =< Len(a) - n THEN z[i] ELSE b[i - (Len(a) - n)]
    <3>1. Len(z) \in Nat /\ Len(z) + Len(b) = Len(a) + Len(b) - n
      BY <1>1, <2>2
    <3>2. /\ z \o b \in Seq(S) /\ Len(z \o b) = Len(z) + Len(b)
          /\ \A i \in 1..Len(z) + Len(b) :
               (z \o b)[i] = IF i =< Len(z) THEN z[i] ELSE b[i - Len(z)]
      BY <2>2, ConcatProperties
    <3>. QED  BY <2>2, <3>1, <3>2
  <2>4. \A i \in 1..Len(a) + Len(b) :
          (a \o b)[i] = IF i =< Len(a) THEN a[i] ELSE b[i - Len(a)]
    BY <1>1
  <2> HIDE DEF x, y
  <2>5. Len(x) = Len(y)
    BY <1>1, <2>1, <2>3
  <2>6. ASSUME NEW i \in 1..Len(x) PROVE x[i] = y[i]
    <3>1. i \in 1..Len(a) + Len(b) - n /\ n + i \in 1..Len(a) + Len(b) /\ i \in Nat
      BY <1>1, <2>1
    <3>2. CASE i =< Len(a) - n
      <4>1. i \in 1..Len(a) - n /\ n + i =< Len(a)
        BY <1>1, <3>1, <3>2
      <4>. QED  BY <2>1, <2>2, <2>3, <2>4, <3>1, <3>2, <4>1
    <3>3. CASE ~(i =< Len(a) - n)
      <4>1. ~(n + i =< Len(a)) /\ (n + i) - Len(a) = i - (Len(a) - n)
        BY <1>1, <3>1, <3>3
      <4>. QED  BY <2>1, <2>3, <2>4, <3>1, <3>3, <4>1
    <3>. QED  BY <3>2, <3>3
  <2>7. x = y
    BY <2>1, <2>3, <2>5, <2>6, SeqEqual
  <2>. QED  BY <2>7 DEF x, y, z
<1>. QED  BY <1>3, <1>4, <1>5

LEMMA TakenExact ==
  ASSUME NEW S, NEW a \in Seq(S), NEW b \in Seq(S)
  PROVE  Taken(a \o b, Len(a)) = a /\ Remaining(a \o b, Len(a)) = b
<1>1. Len(a) \in 0..Len(a)
  OBVIOUS
<1>2. SubSeq(a, 1, Len(a)) = a /\ SubSeq(a, Len(a) + 1, Len(a)) \o b = b
  OBVIOUS
<1>. QED  BY <1>1, <1>2, TakenWithin

LEMMA TakenBeyond ==
  ASSUME NEW S, NEW a \in Seq(S), NEW b \in Seq(S), b # <<>>, NEW n \in Nat, Len(a) < n
  PROVE  /\ 1..Len(a) + 1 \subseteq DOMAIN Taken(a \o b, n)
         /\ \A i \in 1..Len(a) : Taken(a \o b, n)[i] = a[i]
         /\ Taken(a \o b, n)[Len(a) + 1] = b[1]
<1> DEFINE c == a \o b
           l == Len(a)
           buf == Taken(c, n)
<1>1. /\ c \in Seq(S) /\ Len(c) = l + Len(b) /\ Len(b) \in Nat \ {0} /\ l \in Nat
      /\ \A i \in 1..l : c[i] = a[i]
      /\ c[l + 1] = b[1]
  OBVIOUS
<1> HIDE DEF c
<1>2. /\ buf \in Seq(S) /\ (n =< Len(c) => Len(buf) = n)
      /\ (Len(c) =< n => buf = c)
  <2>1. n \in Nat
    OBVIOUS
  <2>2. buf \in Seq(S)
    BY <1>1, <2>1, Receive
  <2>3. n =< Len(c) => Len(buf) = n
    BY <1>1, <2>1, Receive
  <2>4. Len(c) =< n => buf = c
    BY <1>1, <2>1, Receive
  <2>. QED  BY <2>2, <2>3, <2>4
<1>3. \A i \in 1..Len(buf) : buf[i] = c[i]
  <2>1. n \in Nat /\ c \in Seq(S)
    BY <1>1
  <2>. QED  BY <2>1, Receive
<1>4. Len(buf) \in Nat /\ DOMAIN buf = 1..Len(buf)
  BY <1>2
<1> HIDE DEF buf
<1>5. l < n
  OBVIOUS
<1> HIDE DEF l
<1>6. l + 1 =< Len(buf)
  BY <1>1, <1>2, <1>5
<1>7. \A i \in 1..l + 1 : i \in 1..Len(buf) /\ buf[i] = c[i]
  BY <1>1, <1>3, <1>4, <1>6
<1>8. 1..l + 1 \subseteq DOMAIN buf
  BY <1>4, <1>7
<1>9. \A i \in 1..l : i \in 1..l + 1
  BY <1>1
<1>10. l + 1 \in 1..l + 1
  BY <1>1
<1>11. (\A i \in 1..l : buf[i] = a[i]) /\ buf[l + 1] = b[1]
  BY <1>1, <1>7, <1>9, <1>10
<1>. QED  BY <1>8, <1>11 DEF buf, c, l

(* A buffer in which a header does not stand alone.                        *)
LEMMA CrossesWhen ==
  ASSUME NEW buf, NEW i \in DOMAIN buf, NEW j \in DOMAIN buf,
         buf[i][1] = "head", buf[j][1] # "head"
  PROVE  Crosses(buf)
BY DEF Crosses

(* One header, and nothing else, is read.                                  *)
LEMMA HeaderRead ==
  ASSUME NEW old \in Cmds, NEW h \in Full, h.op = "put"
  PROVE  Parsed(old, HeaderCells(h)) = [h EXCEPT !.size = Overwrite(old.size, h.size)]
<1> DEFINE buf == HeaderCells(h)
           text == Text(buf)
           n == Len(text)
           new == [h EXCEPT !.size = Overwrite(old.size, h.size)]
<1> HIDE DEF new
<1>0. HdrLen \in Nat /\ HdrLen > 2
  BY DfsAssumption
<1>1. /\ buf \in Seq(Cells) /\ Len(buf) = HdrLen
      /\ \A i \in 1..HdrLen : buf[i] = <<"head", h, i>>
  BY HeaderType DEF HeaderCells
<1> HIDE DEF buf
<1>2. \A i \in 1..HdrLen : buf[i] # <<"nul">>
  BY <1>1
<1>3. HdrLen \in 1..Len(buf)
  BY <1>0, <1>1
<1>4. text \in Seq(Cells) /\ n = HdrLen /\ \A i \in 1..n : text[i] = buf[i]
  <2>1. /\ text \in Seq(Cells) /\ n =< Len(buf) /\ \A i \in 1..n : text[i] = buf[i]
        /\ \A m \in 1..Len(buf) : (\A i \in 1..m : buf[i] # <<"nul">>) => m =< n
    BY <1>1, TextIs
  <2>2. HdrLen =< n
    BY <1>2, <1>3, <2>1
  <2>3. n \in Nat
    BY <2>1
  <2> HIDE DEF text, n
  <2>. QED  BY <1>0, <1>1, <2>1, <2>2, <2>3
<1>5. PICK t : /\ t[0] = old
               /\ \A i \in 1..n : t[i] = Line(text, t[i - 1], i)
               /\ Parsed(old, buf) = t[n]
  <2>1. n \in Nat /\ DOMAIN text = 1..n
    BY <1>4
  <2>. QED  BY <2>1, ParsedByCells
<1> HIDE DEF text, n
<1>6. \A i \in 1..n : text[i] = <<"head", h, i>>
  BY <1>1, <1>4
<1>7. t[2] = new
  <2>1. n \in Nat /\ 1 \in 1..n /\ 2 \in 1..n /\ 1 - 1 = 0 /\ 2 - 1 = 1
    BY <1>0, <1>4
  <2>2. t[1] = Line(text, t[0], 1) /\ t[2] = Line(text, t[1], 2)
    BY <1>5, <2>1
  <2>3. t[1] = [old EXCEPT !.op = h.op]
    <3>1. text[1] = <<"head", h, 1>>
      BY <1>6, <2>1
    <3>2. IsLine(text, 1, 1) /\ ~IsLine(text, 1, 2) /\ text[1][2] = h
      BY <3>1 DEF IsLine
    <3>. QED  BY <1>5, <2>2, <3>2 DEF Line
  <2>4. t[1].op = h.op /\ t[1].size = old.size
    <3>1. h.op \in Ops
      BY DEF Full
    <3>. QED  BY <2>3, <3>1, OpOf
  <2>5. t[2] = Fields(t[1], h)
    <3>1. text[2] = <<"head", h, 2>>
      BY <1>6, <2>1
    <3>2. ~IsLine(text, 2, 1) /\ IsLine(text, 2, 2) /\ text[2][2] = h
      BY <3>1 DEF IsLine
    <3>. QED  BY <2>2, <3>2 DEF Line
  <2>6. Fields(t[1], h) = new
    BY <2>4 DEF Fields, Full, new
  <2>. QED  BY <2>5, <2>6
<1> DEFINE P == {m \in Nat : 2 =< m /\ m =< n => t[m] = new}
<1>8. ASSUME NEW m \in Nat, \A l \in Nat : l < m => l \in P
      PROVE  m \in P
  <2> SUFFICES ASSUME 2 =< m, m =< n PROVE t[m] = new
    OBVIOUS
  <2>1. CASE m = 2
    BY <1>7, <2>1
  <2>2. CASE m # 2
    <3>1. m \in 1..n /\ m - 1 \in Nat /\ m - 1 < m /\ 2 =< m - 1 /\ m - 1 =< n /\ m # 1
      BY <1>0, <1>4, <2>2
    <3>2. t[m - 1] = new
      BY <1>8, <3>1
    <3>3. text[m] = <<"head", h, m>> /\ t[m] = Line(text, t[m - 1], m)
      BY <1>5, <1>6, <3>1
    <3>4. ~IsLine(text, m, 1) /\ ~IsLine(text, m, 2)
      BY <2>2, <3>1, <3>3 DEF IsLine
    <3>. QED  BY <3>2, <3>3, <3>4 DEF Line
  <2>. QED  BY <2>1, <2>2
<1>9. n \in Nat /\ n =< n /\ 2 =< n
  BY <1>0, <1>4
<1>10. n \in P
  <2> HIDE DEF P
  <2>. QED  BY <1>8, <1>9, NaturalsAll
<1>. QED  BY <1>5, <1>9, <1>10 DEF buf, new

(* Without the first cell of a header there is no command.                 *)
LEMMA NoCommandRead ==
  ASSUME NEW old \in Cmds, NEW buf \in Seq(Cells),
         \A i \in 1..Len(buf) : buf[i][1] = "head" => buf[i][3] # 1
  PROVE  Parsed(old, buf).op = old.op
<1> DEFINE text == Text(buf)
           n == Len(text)
<1>1. /\ text \in Seq(Cells) /\ n =< Len(buf) /\ \A i \in 1..n : text[i] = buf[i]
      /\ n \in Nat /\ Len(buf) \in Nat
  BY TextIs
<1>2. PICK t : /\ t[0] = old
               /\ \A i \in 1..n : t[i] = Line(text, t[i - 1], i)
               /\ Parsed(old, buf) = t[n]
  BY <1>1, ParsedByCells
<1>3. \A i \in 1..n : ~IsLine(text, i, 1)
  BY <1>1 DEF IsLine
<1> HIDE DEF text
<1> DEFINE P == {m \in Nat : m =< n => t[m] \in Cmds /\ t[m].op = old.op}
<1>4. ASSUME NEW m \in Nat, \A l \in Nat : l < m => l \in P
      PROVE  m \in P
  <2> SUFFICES ASSUME m =< n PROVE t[m] \in Cmds /\ t[m].op = old.op
    OBVIOUS
  <2>1. CASE m = 0
    BY <1>2, <2>1
  <2>2. CASE m # 0
    <3>1. m \in 1..n /\ m - 1 \in Nat /\ m - 1 < m /\ m - 1 =< n
      BY <1>1, <2>2
    <3>2. t[m - 1] \in Cmds /\ t[m - 1].op = old.op
      BY <1>4, <3>1
    <3>3. t[m] = Line(text, t[m - 1], m) /\ ~IsLine(text, m, 1)
      BY <1>2, <1>3, <3>1
    <3>4. CASE IsLine(text, m, 2)
      <4>1. t[m] = Fields(t[m - 1], text[m][2])
        BY <3>3, <3>4 DEF Line
      <4>2. text[m] \in Cells /\ text[m][1] = "head"
        BY <1>1, <3>1, <3>4 DEF IsLine
      <4>3. text[m][2] \in Full
        BY <4>2 DEF Cells, Plain
      <4>4. text[m][2] \in Cmds
        BY <4>3, FullIsGood DEF Good
      <4>. QED  BY <3>2, <4>1, <4>4, FieldsOf
    <3>5. CASE ~IsLine(text, m, 2)
      BY <3>2, <3>3, <3>5 DEF Line
    <3>. QED  BY <3>4, <3>5
  <2>. QED  BY <2>1, <2>2
<1>5. n \in Nat /\ n =< n
  BY <1>1
<1>6. n \in P
  <2> HIDE DEF P, n
  <2>. QED  BY <1>4, <1>5, NaturalsAll
<1>. QED  BY <1>2, <1>5, <1>6

-----------------------------------------------------------------------------
(* Lengths in headers: one digit or two; and once there have been two, the *)
(* second one stays.                                                       *)
Wide(c, i) == LengthAt(c, i) >= Base
Long(c, i) == \E j \in 1..i : Wide(c, j)
Apt(c, i) == Wide(c, i) \/ ~Long(c, i)
Inapt(c, i) == i < Count(c) /\ ~Apt(c, i)

SizeAt(c, i, size) ==
  /\ size \in Sizes
  /\ Len(size) = IF Long(c, i) THEN 2 ELSE 1
  /\ IF Apt(c, i) THEN size = Digits(LengthAt(c, i)) ELSE size[1] = LengthAt(c, i)

LEMMA DigitsAt ==
  ASSUME NEW c, IsPut(c), NEW i \in 1..Count(c)
  PROVE  /\ Digits(LengthAt(c, i)) \in Sizes
         /\ Wide(c, i) => Len(Digits(LengthAt(c, i))) = 2
         /\ ~Wide(c, i) => Digits(LengthAt(c, i)) = <<LengthAt(c, i)>>
         /\ Wide(c, i) => Long(c, i)
<1>1. Digits(LengthAt(c, i)) \in Sizes
  BY ChunkAt, ChunkSizes DEF LengthAt
<1>2. LengthAt(c, i) \in Nat /\ Base \in Nat
  BY ChunkAt, DfsAssumption
<1>3. Wide(c, i) <=> ~(LengthAt(c, i) < Base)
  BY <1>2 DEF Wide
<1>4. i \in 1..i
  BY DEF IsPut, Count
<1>. QED  BY <1>1, <1>3, <1>4 DEF Digits, Long

LEMMA OverwriteIs ==
  ASSUME NEW old \in Sizes, NEW new \in Sizes
  PROVE  /\ Overwrite(old, new) \in Sizes
         /\ Len(old) =< Len(new) => Overwrite(old, new) = new
         /\ Len(old) = 2 /\ Len(new) = 1 =>
              Len(Overwrite(old, new)) = 2 /\ Overwrite(old, new)[1] = new[1]
<1> DEFINE tail == SubSeq(old, Len(new) + 1, Len(old))
<1>1. old \in Seq(0..Base - 1) /\ new \in Seq(0..Base - 1)
  BY DEF Sizes
<1>2. tail \in Seq(0..Base - 1)
  <2> DEFINE S == 0..Base - 1
  <2>1. old \in Seq(S) /\ new \in Seq(S)
    BY <1>1
  <2> HIDE DEF S
  <2>2. tail \in Seq(S)
    BY <2>1
  <2>. QED  BY <2>2 DEF S
<1>3. Len(old) =< Len(new) => tail = <<>>
  BY <1>1, SubSeqEmpty
<1>4. Len(old) = 2 /\ Len(new) = 1 => Len(tail) = 1
  <2> SUFFICES ASSUME Len(old) = 2, Len(new) = 1 PROVE Len(tail) = 1
    OBVIOUS
  <2>1. tail = SubSeq(old, 2, 2)
    OBVIOUS
  <2>2. Len(SubSeq(old, 2, 2)) = 1
    BY <1>1, SubSeqProperties
  <2>. QED  BY <2>1, <2>2
<1>5. Overwrite(old, new) = new \o tail
  BY DEF Overwrite
<1> HIDE DEF tail
<1>6. new \o tail \in Seq(0..Base - 1)
  BY <1>1, <1>2
<1>7. tail = <<>> => new \o tail = new
  BY <1>1
<1>8. Len(tail) = 1 /\ Len(new) = 1 => Len(new \o tail) = 2 /\ (new \o tail)[1] = new[1]
  BY <1>1, <1>2, ConcatProperties
<1>. QED  BY <1>3, <1>4, <1>5, <1>6, <1>7, <1>8 DEF Sizes

LEMMA SizeFirst ==
  ASSUME NEW c, IsPut(c), 1 \in 1..Count(c)
  PROVE  SizeAt(c, 1, Overwrite(<<>>, Digits(LengthAt(c, 1))))
<1> DEFINE d == Digits(LengthAt(c, 1))
<1>1. <<>> \in Sizes /\ Len(<<>>) = 0
  BY DEF Sizes
<1>2. /\ d \in Sizes /\ (Wide(c, 1) => Len(d) = 2)
      /\ ~Wide(c, 1) => d = <<LengthAt(c, 1)>>
  BY DigitsAt
<1>3. Long(c, 1) <=> Wide(c, 1)
  BY DEF Long
<1>4. Len(d) \in Nat
  BY <1>2 DEF Sizes
<1> HIDE DEF d
<1>5. Overwrite(<<>>, d) = d
  <2>1. Len(<<>>) =< Len(d)
    BY <1>1, <1>4
  <2>. QED  BY <1>1, <1>2, <2>1, OverwriteIs
<1>6. SizeAt(c, 1, d)
  <2>1. ~Wide(c, 1) => Len(d) = 1
    BY <1>2
  <2>. QED  BY <1>2, <1>3, <2>1 DEF SizeAt, Apt, d
<1>. QED  BY <1>5, <1>6 DEF d

LEMMA SizeNext ==
  ASSUME NEW c, IsPut(c), NEW i \in Nat \ {0}, i + 1 \in 1..Count(c), NEW size,
         SizeAt(c, i, size)
  PROVE  SizeAt(c, i + 1, Overwrite(size, Digits(LengthAt(c, i + 1))))
<1> DEFINE d == Digits(LengthAt(c, i + 1))
<1>1. /\ d \in Sizes /\ (Wide(c, i + 1) => Len(d) = 2)
      /\ ~Wide(c, i + 1) => d = <<LengthAt(c, i + 1)>>
  BY DigitsAt
<1>2. Long(c, i + 1) <=> Long(c, i) \/ Wide(c, i + 1)
  <2>1. i + 1 \in 1..i + 1 /\ \A j \in 1..i + 1 : j = i + 1 \/ j \in 1..i
    OBVIOUS
  <2>2. \A j \in 1..i : j \in 1..i + 1
    OBVIOUS
  <2>. QED  BY <2>1, <2>2 DEF Long
<1>3. size \in Sizes /\ (Long(c, i) => Len(size) = 2) /\ (~Long(c, i) => Len(size) = 1)
  BY DEF SizeAt
<1>4. ~Wide(c, i + 1) => Len(d) = 1 /\ d[1] = LengthAt(c, i + 1)
  BY <1>1
<1>5. d = Digits(LengthAt(c, i + 1))
  OBVIOUS
<1> HIDE DEF d
<1> DEFINE new == Overwrite(size, d)
<1>6. /\ new \in Sizes
      /\ Len(size) =< Len(d) => new = d
      /\ Len(size) = 2 /\ Len(d) = 1 => Len(new) = 2 /\ new[1] = d[1]
  BY <1>1, <1>3, OverwriteIs
<1> HIDE DEF new
<1>7. SizeAt(c, i + 1, new)
  <2>1. CASE Wide(c, i + 1)
    <3>1. Len(size) =< Len(d)
      <4>1. Len(size) = 1 \/ Len(size) = 2
        BY <1>3
      <4>2. Len(d) = 2
        BY <1>1, <2>1
      <4>3. CASE Len(size) = 1
        BY <4>2, <4>3
      <4>4. CASE Len(size) = 2
        BY <4>2, <4>4
      <4>. QED  BY <4>1, <4>3, <4>4
    <3>2. new = d /\ Len(new) = 2
      BY <1>1, <1>6, <2>1, <3>1
    <3>. QED  BY <1>2, <1>5, <1>6, <2>1, <3>2 DEF SizeAt, Apt
  <2>2. CASE ~Wide(c, i + 1) /\ Long(c, i)
    <3>1. Len(new) = 2 /\ new[1] = LengthAt(c, i + 1)
      BY <1>3, <1>4, <1>6, <2>2
    <3>. QED  BY <1>2, <1>6, <2>2, <3>1 DEF SizeAt, Apt
  <2>3. CASE ~Wide(c, i + 1) /\ ~Long(c, i)
    <3>1. Len(size) =< Len(d)
      BY <1>3, <1>4, <2>3
    <3>2. new = d /\ Len(new) = 1
      BY <1>4, <1>6, <2>3, <3>1
    <3>. QED  BY <1>2, <1>5, <1>6, <2>3, <3>2 DEF SizeAt, Apt
  <2>. QED  BY <2>1, <2>2, <2>3
<1>. QED  BY <1>7 DEF new, d

(* An apt length is read as it is; another, as a greater one.              *)
LEMMA SizeRead ==
  ASSUME NEW c, IsPut(c), NEW i \in 1..Count(c), NEW size, SizeAt(c, i, size),
         LengthAt(c, i) > 0
  PROVE  /\ Value(size) \in Nat
         /\ Apt(c, i) => Value(size) = LengthAt(c, i)
         /\ ~Apt(c, i) => Value(size) > LengthAt(c, i)
<1> DEFINE x == LengthAt(c, i)
           n == Len(size)
<1>1. x \in Nat /\ x > 0 /\ Base \in Nat /\ Base > 1
  BY ChunkAt, DfsAssumption
<1>2. size \in Sizes
  BY DEF SizeAt
<1>3. n \in Nat /\ DOMAIN size = 1..n /\ \A j \in 1..n : size[j] \in 0..Base - 1
  <2>1. size \in Seq(0..Base - 1)
    BY <1>2 DEF Sizes
  <2>2. n \in Nat /\ DOMAIN size = 1..n
    BY <2>1
  <2>3. \A j \in 1..n : size[j] \in 0..Base - 1
    BY <2>1, ElementOfSeq
  <2>. QED  BY <2>2, <2>3
<1>4. PICK t : /\ t[0] = 0
               /\ \A j \in 1..n : t[j] = t[j - 1] * Base + size[j]
               /\ Value(size) = t[n]
  BY <1>3, ValueByDigits
<1>5. Value(size) \in Nat
  BY <1>2, ValueType
<1>6. n = 1 => Value(size) = size[1]
  <2> SUFFICES ASSUME n = 1 PROVE Value(size) = size[1]
    OBVIOUS
  <2>1. t[1] = t[0] * Base + size[1] /\ size[1] \in 0..Base - 1
    <3>1. 1 \in 1..n /\ 1 - 1 = 0
      OBVIOUS
    <3>. QED  BY <1>3, <1>4, <3>1
  <2>2. t[1] = size[1]
    <3>1. 0 * Base = 0
      BY <1>1
    <3>. QED  BY <1>1, <1>4, <2>1, <3>1
  <2>. QED  BY <1>4, <2>2
<1>7. n = 2 => Value(size) = size[1] * Base + size[2]
  <2> SUFFICES ASSUME n = 2 PROVE Value(size) = size[1] * Base + size[2]
    OBVIOUS
  <2>1. 1 \in 1..n /\ 2 \in 1..n /\ 1 - 1 = 0 /\ 2 - 1 = 1
    OBVIOUS
  <2>2. t[1] = t[0] * Base + size[1] /\ t[2] = t[1] * Base + size[2] /\ size[1] \in 0..Base - 1
    BY <1>3, <1>4, <2>1
  <2>3. t[1] = size[1]
    <3>1. 0 * Base = 0
      BY <1>1
    <3>. QED  BY <1>1, <1>4, <2>2, <3>1
  <2>. QED  BY <1>4, <2>2, <2>3
<1>8. CASE Wide(c, i)
  <2>1. Apt(c, i) /\ size = Digits(x)
    BY <1>8 DEF SizeAt, Apt
  <2>2. ~(x < Base)
    BY <1>1, <1>8 DEF Wide
  <2>3. size = <<x \div Base, x % Base>>
    BY <2>1, <2>2 DEF Digits
  <2>4. n = 2 /\ size[1] = x \div Base /\ size[2] = x % Base
    BY <2>3
  <2>5. (x \div Base) * Base + (x % Base) = x
    <3> DEFINE q == x \div Base
               r == x % Base
    <3>1. q \in Nat /\ r \in Nat /\ x = Base * q + r
      BY <1>1
    <3> HIDE DEF q, r
    <3>2. Base * q = q * Base
      BY <1>1, <3>1
    <3>3. q * Base + r = x
      BY <1>1, <3>1, <3>2
    <3>. QED  BY <3>3 DEF q, r
  <2>6. Value(size) = x
    BY <1>7, <2>4, <2>5
  <2>. QED  BY <1>5, <2>1, <2>6
<1>9. CASE ~Wide(c, i) /\ ~Long(c, i)
  <2>1. Apt(c, i) /\ size = Digits(x) /\ Digits(x) = <<x>>
    BY <1>9, DigitsAt DEF SizeAt, Apt
  <2>2. n = 1 /\ size[1] = x
    BY <2>1
  <2>. QED  BY <1>5, <1>6, <2>1, <2>2
<1>10. CASE ~Wide(c, i) /\ Long(c, i)
  <2>1. ~Apt(c, i) /\ n = 2 /\ size[1] = x
    BY <1>10 DEF SizeAt, Apt
  <2>2. size[2] \in Nat
    BY <1>1, <1>3, <2>1
  <2>3. x * Base + size[2] > x
    <3> DEFINE y == size[2]
    <3>1. y \in Nat
      BY <2>2
    <3> HIDE DEF y, x
    <3>2. x * Base >= x * 2 /\ x * 2 > x /\ x * Base \in Nat
      BY <1>1
    <3>. QED  BY <1>1, <3>1, <3>2 DEF y
  <2>. QED  BY <1>5, <1>7, <2>1, <2>3
<1>. QED  BY <1>8, <1>9, <1>10

-----------------------------------------------------------------------------
(* What server and stream hold of a put.                                   *)
Clean(c, i) == \A j \in 1..i : ~Inapt(c, j)

Starts(content, body) ==
  Len(body) =< Len(content) /\ \A x \in 1..Len(body) : content[x] = body[x]

(* The chunks up to i are on the disk, those before an inapt length.       *)
Kept(c, files, i) ==
  \A j \in 1..i : Clean(c, j - 1) =>
    /\ IdAt(c, j) \in DOMAIN files
    /\ Starts(files[IdAt(c, j)], BodyAt(c, j))
    /\ ~Inapt(c, j) => files[IdAt(c, j)] = BodyAt(c, j)

HasId(c, i, d) == d.op = "put" /\ Id(d) = IdAt(c, i) /\ SizeAt(c, i, d.size)

(* The server took a part of the header after chunk i for bytes of it.     *)
Tails == {"head"} \X Full \X (Nat \ 0..1)

Lost(c, p, i, m, stream) ==
  \/ stream = <<>> /\ p \in {"done", "killed"}
  \/ /\ 2 * i + 1 =< m
     /\ \E tail \in Seq(Tails), rest \in Seq(Cells) :
          stream = tail \o rest /\ Carries(c, rest, 2 * i + 1, m)

(* p is where the client is, m how many messages it has sent, w where the  *)
(* worker is, and d its df_serv_cmd.                                       *)
Placed(c, m, stream, w, d, files, i) ==
  /\ Carries(c, stream, IF w = "rest" THEN 2 * i ELSE 2 * i - 1, m)
  /\ HasId(c, i, d) /\ Kept(c, files, i - 1) /\ Clean(c, i - 1)
  /\ w = "rest" => IdAt(c, i) \in DOMAIN files /\ files[IdAt(c, i)] = BodyAt(c, i)

Finished(c, p, m, stream, d, files, i) ==
  /\ Kept(c, files, i)
  /\ \/ Clean(c, i) /\ Carries(c, stream, 2 * i, m) /\ SizeAt(c, i, d.size)
     \/ Clean(c, i - 1) /\ Inapt(c, i) /\ Lost(c, p, i, m, stream)

Closes(c, p, files, i) ==
  /\ Kept(c, files, i)
  /\ \/ p = "killed"
     \/ p = "done" /\ i = Count(c)
     \/ i > 0 /\ Inapt(c, i)

Holds(c, p, m, stream, w, d, files) ==
  \/ w = "first" /\ Carries(c, stream, 0, m)
  \/ w \in {"add", "create", "body", "rest"}
     /\ \E i \in 1..Count(c) : Placed(c, m, stream, w, d, files, i)
  \/ w = "next" /\ \E i \in 1..Count(c) : Finished(c, p, m, stream, d, files, i)
  \/ w = "closed" /\ \E i \in 0..Count(c) : Closes(c, p, files, i)

(* What the client may have sent.                                          *)
Sends(c, p, m, w) ==
  /\ m \in 0..2 * Count(c)
  /\ \A i \in 1..Count(c) : 2 * i =< m => LengthAt(c, i) > 0
  /\ p = "done" => m = 2 * Count(c)
  /\ p = "killed" /\ w # "closed" => m % 2 = 0
-----------------------------------------------------------------------------
(* What a stream that carries messages begins with.                        *)
LEMMA FirstByte ==
  ASSUME NEW c, IsPut(c), NEW i \in 1..Count(c), LengthAt(c, i) > 0
  PROVE  /\ Len(BodyAt(c, i)) > 0 /\ BodyAt(c, i) # <<>>
         /\ \A x \in 1..Len(BodyAt(c, i)) : BodyAt(c, i)[x][1] = "byte"
<1>1. /\ BodyAt(c, i) \in Seq(Cells) /\ Len(BodyAt(c, i)) = LengthAt(c, i)
      /\ LengthAt(c, i) \in Nat
  BY ChunkAt
<1>2. \A x \in 1..LengthAt(c, i) : BodyAt(c, i)[x][1] = "byte"
  BY DEF BodyAt, LengthAt, Body, Byte
<1>3. BodyAt(c, i) # <<>>
  BY <1>1
<1>. QED  BY <1>1, <1>2, <1>3

LEMMA HeaderCellsAt ==
  ASSUME NEW c, IsPut(c), NEW i \in 1..Count(c)
  PROVE  /\ Message(c, 2 * i - 1) = HeaderCells(HeaderAt(c, i))
         /\ HeaderCells(HeaderAt(c, i)) \in Seq(Cells)
         /\ Len(HeaderCells(HeaderAt(c, i))) = HdrLen
         /\ \A x \in 1..HdrLen :
              HeaderCells(HeaderAt(c, i))[x] = <<"head", HeaderAt(c, i), x>>
         /\ HeaderAt(c, i) \in Full
<1>1. HeaderAt(c, i) \in Full
  BY ChunkAt
<1>2. i \in Nat \ {0}
  BY DEF IsPut, Count
<1>3. Message(c, 2 * i - 1) = HeaderCells(HeaderAt(c, i))
  BY <1>2, MessageAt
<1>4. \A x \in 1..HdrLen : HeaderCells(HeaderAt(c, i))[x] = <<"head", HeaderAt(c, i), x>>
  BY DEF HeaderCells
<1>. QED  BY <1>1, <1>3, <1>4, HeaderType

(* Where a body comes next, there is nothing yet, or it is all there.      *)
LEMMA BodyNext ==
  ASSUME NEW c, IsPut(c), NEW i \in 1..Count(c), NEW m \in 0..2 * Count(c), NEW stream,
         Carries(c, stream, 2 * i - 1, m),
         \A j \in 1..Count(c) : 2 * j =< m => LengthAt(c, j) > 0
  PROVE  /\ stream \in Seq(Cells) /\ 2 * i - 1 =< m
         /\ 2 * i - 1 = m => stream = <<>>
         /\ 2 * i - 1 < m =>
              /\ LengthAt(c, i) > 0
              /\ \E rest \in Seq(Cells) :
                   stream = BodyAt(c, i) \o rest /\ Carries(c, rest, 2 * i, m)
<1>1. i \in Nat \ {0} /\ 2 * i - 1 \in Nat /\ m \in Nat /\ (2 * i - 1) + 1 = 2 * i
  BY DEF IsPut, Count
<1>2. Message(c, 2 * i) = BodyAt(c, i)
  BY <1>1, MessageAt
<1> DEFINE r == 2 * i - 1
<1>3. r \in Nat /\ r + 1 = 2 * i /\ Carries(c, stream, r, m)
  BY <1>1
<1> HIDE DEF r
<1>4. /\ stream \in Seq(Cells) /\ r =< m
      /\ r = m => stream = <<>>
      /\ r < m => \E rest \in Seq(Cells) :
           stream = Message(c, r + 1) \o rest /\ Carries(c, rest, r + 1, m)
  BY <1>1, <1>3, CarriesIs
<1>5. r < m => LengthAt(c, i) > 0
  BY <1>1, <1>3
<1>6. r < m => \E rest \in Seq(Cells) :
        stream = BodyAt(c, i) \o rest /\ Carries(c, rest, 2 * i, m)
  BY <1>2, <1>3, <1>4
<1>. QED  BY <1>4, <1>5, <1>6 DEF r

(* Where a header comes next, it is the one of the next chunk.             *)
LEMMA HeaderNext ==
  ASSUME NEW c, IsPut(c), NEW i \in 0..Count(c), NEW m \in 0..2 * Count(c), NEW stream,
         Carries(c, stream, 2 * i, m)
  PROVE  /\ stream \in Seq(Cells) /\ 2 * i =< m
         /\ 2 * i = m => stream = <<>>
         /\ 2 * i < m =>
              /\ i + 1 \in 1..Count(c)
              /\ \E rest \in Seq(Cells) :
                   /\ stream = HeaderCells(HeaderAt(c, i + 1)) \o rest
                   /\ Carries(c, rest, 2 * i + 1, m)
<1>1. i \in Nat /\ 2 * i \in Nat /\ m \in Nat /\ Count(c) \in Nat
  BY DEF IsPut, Count
<1> DEFINE r == 2 * i
<1>2. r \in Nat /\ r + 1 = 2 * (i + 1) - 1 /\ Carries(c, stream, r, m)
  BY <1>1
<1>3. r < m => i + 1 \in 1..Count(c)
  BY <1>1
<1>4. r < m => Message(c, r + 1) = HeaderCells(HeaderAt(c, i + 1))
  BY <1>2, <1>3, HeaderCellsAt
<1> HIDE DEF r
<1>5. /\ stream \in Seq(Cells) /\ r =< m
      /\ r = m => stream = <<>>
      /\ r < m => \E rest \in Seq(Cells) :
           stream = Message(c, r + 1) \o rest /\ Carries(c, rest, r + 1, m)
  BY <1>1, <1>2, CarriesIs
<1>. QED  BY <1>3, <1>4, <1>5 DEF r

-----------------------------------------------------------------------------
(* What a receive takes of such a stream, when it takes no parts of two    *)
(* messages.                                                               *)
LEMMA BeginsWithByte ==
  ASSUME NEW c, IsPut(c), NEW i \in 1..Count(c), NEW m \in 0..2 * Count(c), NEW stream,
         Carries(c, stream, 2 * i - 1, m), stream # <<>>,
         \A j \in 1..Count(c) : 2 * j =< m => LengthAt(c, j) > 0
  PROVE  stream[1][1] = "byte"
<1>1. /\ stream \in Seq(Cells) /\ 2 * i - 1 =< m
      /\ 2 * i - 1 = m => stream = <<>>
      /\ 2 * i - 1 < m =>
           /\ LengthAt(c, i) > 0
           /\ \E rest \in Seq(Cells) :
                stream = BodyAt(c, i) \o rest /\ Carries(c, rest, 2 * i, m)
  BY BodyNext
<1>2. i \in Nat /\ m \in Nat
  BY DEF IsPut, Count
<1>3. 2 * i - 1 < m
  BY <1>1, <1>2
<1>4. PICK rest \in Seq(Cells) : stream = BodyAt(c, i) \o rest
  BY <1>1, <1>3
<1> DEFINE b == BodyAt(c, i)
<1>5. b \in Seq(Cells) /\ Len(b) > 0 /\ \A x \in 1..Len(b) : b[x][1] = "byte"
  BY <1>1, <1>3, ChunkAt, FirstByte
<1>6. 1 \in 1..Len(b)
  BY <1>5
<1>7. stream = b \o rest
  BY <1>4
<1> HIDE DEF b
<1>8. stream[1] = b[1]
  BY <1>5, <1>6, <1>7
<1>. QED  BY <1>5, <1>6, <1>8

LEMMA BeginsWithHead ==
  ASSUME NEW c, IsPut(c), NEW i \in 0..Count(c), NEW m \in 0..2 * Count(c), NEW stream,
         Carries(c, stream, 2 * i, m), stream # <<>>
  PROVE  stream[1][1] = "head"
<1>1. /\ stream \in Seq(Cells) /\ 2 * i =< m
      /\ 2 * i = m => stream = <<>>
      /\ 2 * i < m =>
           /\ i + 1 \in 1..Count(c)
           /\ \E rest \in Seq(Cells) :
                /\ stream = HeaderCells(HeaderAt(c, i + 1)) \o rest
                /\ Carries(c, rest, 2 * i + 1, m)
  BY HeaderNext
<1>2. i \in Nat /\ m \in Nat
  BY DEF IsPut, Count
<1>3. 2 * i < m
  BY <1>1, <1>2
<1> DEFINE h == HeaderCells(HeaderAt(c, i + 1))
<1>4. PICK rest \in Seq(Cells) : stream = h \o rest
  BY <1>1, <1>3
<1>5. /\ h \in Seq(Cells) /\ Len(h) = HdrLen
      /\ \A x \in 1..HdrLen : h[x] = <<"head", HeaderAt(c, i + 1), x>>
  BY <1>1, <1>3, HeaderCellsAt
<1>6. 1 \in 1..HdrLen
  BY DfsAssumption
<1> HIDE DEF h
<1>7. stream[1] = h[1]
  BY <1>4, <1>5, <1>6
<1>. QED  BY <1>5, <1>6, <1>7

(* A header is received: nothing has come, or just one header, or the      *)
(* buffer has more than that.                                              *)
LEMMA HeaderReceived ==
  ASSUME NEW c, IsPut(c), NEW i \in 0..Count(c), NEW m \in 0..2 * Count(c), NEW stream,
         Carries(c, stream, 2 * i, m),
         \A j \in 1..Count(c) : 2 * j =< m => LengthAt(c, j) > 0,
         NEW n \in Nat, HdrLen =< n, ~Crosses(Taken(stream, n))
  PROVE  \/ 2 * i = m /\ stream = <<>> /\ Taken(stream, n) = <<>> /\ Remaining(stream, n) = <<>>
         \/ /\ i + 1 \in 1..Count(c)
            /\ Taken(stream, n) = HeaderCells(HeaderAt(c, i + 1))
            /\ Carries(c, Remaining(stream, n), 2 * i + 1, m)
<1>1. /\ stream \in Seq(Cells) /\ 2 * i =< m
      /\ 2 * i = m => stream = <<>>
      /\ 2 * i < m =>
           /\ i + 1 \in 1..Count(c)
           /\ \E rest \in Seq(Cells) :
                /\ stream = HeaderCells(HeaderAt(c, i + 1)) \o rest
                /\ Carries(c, rest, 2 * i + 1, m)
  BY HeaderNext
<1>2. i \in Nat /\ m \in Nat /\ HdrLen \in Nat /\ HdrLen > 2
  BY DfsAssumption DEF IsPut, Count
<1>3. CASE 2 * i = m
  <2>1. stream = <<>>
    BY <1>1, <1>3
  <2>2. <<>> \in Seq(Cells) /\ Len(<<>>) =< n
    OBVIOUS
  <2>3. Taken(<<>>, n) = <<>> /\ Remaining(<<>>, n) = <<>>
    BY <2>2, ReceiveAll
  <2>. QED  BY <1>3, <2>1, <2>3
<1>4. CASE 2 * i < m
  <2> DEFINE h == HeaderCells(HeaderAt(c, i + 1))
  <2>1. i + 1 \in 1..Count(c)
    BY <1>1, <1>4
  <2>2. PICK rest \in Seq(Cells) : stream = h \o rest /\ Carries(c, rest, 2 * i + 1, m)
    BY <1>1, <1>4
  <2>3. /\ h \in Seq(Cells) /\ Len(h) = HdrLen
        /\ \A x \in 1..HdrLen : h[x] = <<"head", HeaderAt(c, i + 1), x>>
    BY <2>1, HeaderCellsAt
  <2> HIDE DEF h
  <2>4. CASE n = HdrLen
    <3>1. Taken(stream, n) = h /\ Remaining(stream, n) = rest
      BY <2>2, <2>3, <2>4, TakenExact
    <3>. QED  BY <2>1, <2>2, <3>1 DEF h
  <2>5. CASE n # HdrLen /\ rest = <<>>
    <3>1. stream = h
      BY <2>2, <2>3, <2>5
    <3>2. Taken(h, n) = h /\ Remaining(h, n) = <<>>
      <4>1. Len(h) =< n
        BY <2>3
      <4>. QED  BY <2>3, <4>1, ReceiveAll
    <3>. QED  BY <2>1, <2>2, <2>5, <3>1, <3>2 DEF h
  <2>6. CASE n # HdrLen /\ rest # <<>>
    <3>1. Len(h) < n
      BY <1>2, <2>3, <2>6
    <3> DEFINE buf == Taken(stream, n)
    <3>2. /\ 1..HdrLen + 1 \subseteq DOMAIN buf
          /\ \A x \in 1..HdrLen : buf[x] = h[x]
          /\ buf[HdrLen + 1] = rest[1]
      BY <2>2, <2>3, <2>6, <3>1, TakenBeyond
    <3>3. rest[1][1] = "byte"
      <4> DEFINE l == i + 1
      <4>1. 2 * l - 1 = 2 * i + 1
        BY <1>2
      <4>2. l \in 1..Count(c) /\ Carries(c, rest, 2 * l - 1, m)
        BY <2>1, <2>2, <4>1
      <4> HIDE DEF l
      <4>. QED  BY <2>6, <4>2, BeginsWithByte
    <3>4. 1 \in 1..HdrLen /\ 1 \in DOMAIN buf /\ HdrLen + 1 \in DOMAIN buf
      BY <1>2, <3>2
    <3>5. buf[1][1] = "head" /\ buf[HdrLen + 1][1] # "head"
      BY <2>3, <3>2, <3>3, <3>4
    <3> HIDE DEF buf
    <3>6. Crosses(buf)
      BY <3>4, <3>5, CrossesWhen
    <3>. QED  BY <3>6 DEF buf
  <2>. QED  BY <2>4, <2>5, <2>6
<1>. QED  BY <1>1, <1>2, <1>3, <1>4

(* What its df_serv_cmd is then.                                           *)
LEMMA HeaderFills ==
  ASSUME NEW c, IsPut(c), NEW i \in 1..Count(c), NEW old \in Cmds,
         SizeAt(c, i, Overwrite(old.size, Digits(LengthAt(c, i))))
  PROVE  HasId(c, i, Parsed(old, HeaderCells(HeaderAt(c, i))))
<1> DEFINE h == HeaderAt(c, i)
<1>1. h \in Full
  BY ChunkAt
<1>2. /\ h.op = "put" /\ h.name = NameAt(c, i) /\ h.ver = c.k /\ h.chunk = PartAt(c, i)
      /\ h.size = Digits(LengthAt(c, i))
  BY DEF HeaderAt, PutHeader, LengthAt
<1> HIDE DEF h
<1> DEFINE d == [h EXCEPT !.size = Overwrite(old.size, h.size)]
<1>3. Parsed(old, HeaderCells(h)) = d
  BY <1>1, <1>2, HeaderRead
<1>4. /\ d.op = h.op /\ d.name = h.name /\ d.ver = h.ver /\ d.chunk = h.chunk
      /\ d.size = Overwrite(old.size, h.size)
  BY <1>1 DEF Full
<1> HIDE DEF d
<1>5. Id(d) = IdAt(c, i)
  BY <1>2, <1>4 DEF Id, IdAt
<1>6. HasId(c, i, d)
  BY <1>2, <1>4, <1>5 DEF HasId
<1>. QED  BY <1>3, <1>6 DEF h

(* A body is received.                                                     *)
LEMMA BodyReceived ==
  ASSUME NEW c, IsPut(c), NEW i \in 1..Count(c), NEW m \in 0..2 * Count(c), NEW stream,
         Carries(c, stream, 2 * i - 1, m),
         \A j \in 1..Count(c) : 2 * j =< m => LengthAt(c, j) > 0,
         NEW n \in Nat, LengthAt(c, i) > 0 => LengthAt(c, i) =< n,
         ~Crosses(Taken(stream, n))
  PROVE  \/ 2 * i - 1 = m /\ stream = <<>>
         \/ /\ LengthAt(c, i) > 0 /\ Taken(stream, n) = BodyAt(c, i)
            /\ Carries(c, Remaining(stream, n), 2 * i, m)
<1>1. /\ stream \in Seq(Cells) /\ 2 * i - 1 =< m
      /\ 2 * i - 1 = m => stream = <<>>
      /\ 2 * i - 1 < m =>
           /\ LengthAt(c, i) > 0
           /\ \E rest \in Seq(Cells) :
                stream = BodyAt(c, i) \o rest /\ Carries(c, rest, 2 * i, m)
  BY BodyNext
<1>2. i \in Nat /\ m \in Nat
  BY DEF IsPut, Count
<1>3. CASE 2 * i - 1 = m
  BY <1>1, <1>3
<1>4. CASE 2 * i - 1 < m
  <2> DEFINE b == BodyAt(c, i)
             l == LengthAt(c, i)
  <2>1. PICK rest \in Seq(Cells) : stream = b \o rest /\ Carries(c, rest, 2 * i, m)
    BY <1>1, <1>4
  <2>2. b \in Seq(Cells) /\ Len(b) = l /\ l \in Nat
    BY ChunkAt
  <2>3. l > 0 /\ l =< n
    BY <1>1, <1>4
  <2>4. b[1][1] = "byte"
    <3>1. \A x \in 1..Len(b) : b[x][1] = "byte"
      BY <2>3, FirstByte
    <3>2. 1 \in 1..Len(b)
      BY <2>2, <2>3
    <3>. QED  BY <3>1, <3>2
  <2> HIDE DEF b, l
  <2>5. CASE n = l
    <3>1. Taken(stream, n) = b /\ Remaining(stream, n) = rest
      BY <2>1, <2>2, <2>5, TakenExact
    <3>. QED  BY <2>1, <2>3, <3>1 DEF b, l
  <2>6. CASE n # l /\ rest = <<>>
    <3>1. stream = b
      BY <2>1, <2>2, <2>6
    <3>2. Taken(b, n) = b /\ Remaining(b, n) = <<>>
      <4>1. Len(b) =< n
        BY <2>2, <2>3
      <4>. QED  BY <2>2, <4>1, ReceiveAll
    <3>. QED  BY <2>1, <2>3, <2>6, <3>1, <3>2 DEF b, l
  <2>7. CASE n # l /\ rest # <<>>
    <3>1. Len(b) < n
      BY <2>2, <2>3, <2>7
    <3> DEFINE buf == Taken(stream, n)
    <3>2. /\ 1..l + 1 \subseteq DOMAIN buf
          /\ \A x \in 1..l : buf[x] = b[x]
          /\ buf[l + 1] = rest[1]
      <4>1. /\ 1..Len(b) + 1 \subseteq DOMAIN Taken(b \o rest, n)
            /\ \A x \in 1..Len(b) : Taken(b \o rest, n)[x] = b[x]
            /\ Taken(b \o rest, n)[Len(b) + 1] = rest[1]
        BY <2>2, <2>7, <3>1, TakenBeyond
      <4>. QED  BY <2>1, <2>2, <4>1
    <3>3. rest[1][1] = "head"
      <4>1. i \in 0..Count(c)
        BY DEF IsPut, Count
      <4>. QED  BY <2>1, <2>7, <4>1, BeginsWithHead
    <3>4. 1 \in 1..l /\ 1 \in DOMAIN buf /\ l + 1 \in DOMAIN buf
      BY <2>2, <2>3, <3>2
    <3>5. buf[1][1] # "head" /\ buf[l + 1][1] = "head"
      BY <2>4, <3>2, <3>3, <3>4
    <3> HIDE DEF buf
    <3>6. Crosses(buf)
      BY <3>4, <3>5, CrossesWhen
    <3>. QED  BY <3>6 DEF buf
  <2>. QED  BY <2>5, <2>6, <2>7
<1>. QED  BY <1>1, <1>2, <1>3, <1>4

-----------------------------------------------------------------------------
(* More bytes than there are: nothing comes any more, or they are taken    *)
(* from the next header.                                                   *)
LEMMA HeaderBroken ==
  ASSUME NEW c, IsPut(c), NEW p, NEW i \in 1..Count(c), NEW m \in 0..2 * Count(c), NEW stream,
         Carries(c, stream, 2 * i, m),
         \A j \in 1..Count(c) : 2 * j =< m => LengthAt(c, j) > 0,
         NEW n \in Nat, n > 0, ~Crosses(Taken(stream, n))
  PROVE  \/ stream = <<>>
         \/ i < Count(c) /\ Lost(c, p, i, m, Remaining(stream, n))
<1>0. i \in 0..Count(c)
  BY DEF IsPut, Count
<1>1. /\ stream \in Seq(Cells) /\ 2 * i =< m
      /\ 2 * i = m => stream = <<>>
      /\ 2 * i < m =>
           /\ i + 1 \in 1..Count(c)
           /\ \E rest \in Seq(Cells) :
                /\ stream = HeaderCells(HeaderAt(c, i + 1)) \o rest
                /\ Carries(c, rest, 2 * i + 1, m)
  BY <1>0, HeaderNext
<1>2. i \in Nat /\ m \in Nat /\ HdrLen \in Nat /\ HdrLen > 2 /\ Count(c) \in Nat
  BY DfsAssumption DEF IsPut, Count
<1>3. CASE 2 * i = m
  BY <1>1, <1>3
<1>4. CASE 2 * i < m
  <2> DEFINE h == HeaderCells(HeaderAt(c, i + 1))
  <2>1. i + 1 \in 1..Count(c) /\ i < Count(c) /\ 2 * i + 1 =< m
    BY <1>1, <1>2, <1>4
  <2>2. PICK rest \in Seq(Cells) : stream = h \o rest /\ Carries(c, rest, 2 * i + 1, m)
    BY <1>1, <1>4
  <2>3. /\ h \in Seq(Cells) /\ Len(h) = HdrLen
        /\ \A x \in 1..HdrLen : h[x] = <<"head", HeaderAt(c, i + 1), x>>
        /\ HeaderAt(c, i + 1) \in Full
    BY <2>1, HeaderCellsAt
  <2> HIDE DEF h
  <2>4. CASE n =< HdrLen
    <3> DEFINE tail == SubSeq(h, n + 1, HdrLen)
    <3>1. Remaining(stream, n) = tail \o rest
      <4>1. n \in 0..Len(h)
        BY <1>2, <2>3, <2>4
      <4>2. Remaining(h \o rest, n) = SubSeq(h, n + 1, Len(h)) \o rest
        BY <2>3, <4>1, TakenWithin
      <4>. QED  BY <2>2, <2>3, <4>2
    <3>2. tail \in Seq(Tails)
      <4>1. \A x \in n + 1..HdrLen : h[x] \in Tails
        <5> SUFFICES ASSUME NEW x \in n + 1..HdrLen PROVE h[x] \in Tails
          OBVIOUS
        <5>1. x \in 1..HdrLen /\ x \in Nat \ 0..1
          BY <1>2
        <5>2. h[x] = <<"head", HeaderAt(c, i + 1), x>>
          BY <2>3, <5>1
        <5>. QED  BY <2>3, <5>1, <5>2 DEF Tails
      <4>2. n + 1 \in Int /\ HdrLen \in Int
        BY <1>2
      <4>. QED  BY <4>1, <4>2, SubSeqProperties
    <3> HIDE DEF tail
    <3>3. Lost(c, p, i, m, Remaining(stream, n))
      BY <2>1, <2>2, <3>1, <3>2 DEF Lost
    <3>. QED  BY <2>1, <3>3
  <2>5. CASE ~(n =< HdrLen) /\ rest = <<>>
    <3>1. stream = h
      BY <2>2, <2>3, <2>5
    <3>2. Remaining(h, n) = <<>>
      <4>1. Len(h) =< n
        BY <1>2, <2>3, <2>5
      <4>. QED  BY <2>3, <4>1, ReceiveAll
    <3>3. <<>> = <<>> \o rest /\ <<>> \in Seq(Tails)
      BY <2>5
    <3>4. Lost(c, p, i, m, <<>>)
      BY <2>1, <2>2, <3>3 DEF Lost
    <3>. QED  BY <2>1, <3>1, <3>2, <3>4
  <2>6. CASE ~(n =< HdrLen) /\ rest # <<>>
    <3>1. Len(h) < n
      BY <1>2, <2>3, <2>6
    <3> DEFINE buf == Taken(stream, n)
    <3>2. /\ 1..HdrLen + 1 \subseteq DOMAIN buf
          /\ \A x \in 1..HdrLen : buf[x] = h[x]
          /\ buf[HdrLen + 1] = rest[1]
      BY <2>2, <2>3, <2>6, <3>1, TakenBeyond
    <3>3. rest[1][1] = "byte"
      <4> DEFINE l == i + 1
      <4>1. 2 * l - 1 = 2 * i + 1
        BY <1>2
      <4>2. l \in 1..Count(c) /\ Carries(c, rest, 2 * l - 1, m)
        BY <2>1, <2>2, <4>1
      <4> HIDE DEF l
      <4>. QED  BY <2>6, <4>2, BeginsWithByte
    <3>4. 1 \in 1..HdrLen /\ 1 \in DOMAIN buf /\ HdrLen + 1 \in DOMAIN buf
      BY <1>2, <3>2
    <3>5. buf[1][1] = "head" /\ buf[HdrLen + 1][1] # "head"
      BY <2>3, <3>2, <3>3, <3>4
    <3> HIDE DEF buf
    <3>6. Crosses(buf)
      BY <3>4, <3>5, CrossesWhen
    <3>. QED  BY <3>6 DEF buf
  <2>. QED  BY <2>4, <2>5, <2>6
<1>. QED  BY <1>1, <1>2, <1>3, <1>4

(* After that no command is read any more.                                 *)
LEMMA NothingRead ==
  ASSUME NEW c, IsPut(c), NEW p, NEW i \in 1..Count(c), NEW m \in 0..2 * Count(c), NEW stream,
         Lost(c, p, i, m, stream), stream \in Seq(Cells),
         \A j \in 1..Count(c) : 2 * j =< m => LengthAt(c, j) > 0,
         NEW n \in Nat, ~Crosses(Taken(stream, n)), NEW old \in Cmds
  PROVE  Parsed(old, Taken(stream, n)).op = old.op
<1> DEFINE buf == Taken(stream, n)
<1>1. buf \in Seq(Cells) /\ Len(buf) =< Len(stream)
  BY Receive
<1>2. \A x \in 1..Len(buf) : buf[x] = stream[x]
  BY Receive
<1>3. CASE stream = <<>>
  <2>1. Len(buf) = 0
    BY <1>1, <1>3
  <2> HIDE DEF buf
  <2>2. \A x \in 1..Len(buf) : buf[x][1] = "head" => buf[x][3] # 1
    BY <2>1
  <2>3. Parsed(old, buf).op = old.op
    BY <1>1, <2>2, NoCommandRead
  <2>. QED  BY <2>3 DEF buf
<1>4. CASE stream # <<>>
  <2>1. PICK tail \in Seq(Tails), rest \in Seq(Cells) :
          stream = tail \o rest /\ Carries(c, rest, 2 * i + 1, m)
    BY <1>4 DEF Lost
  <2>2. i \in Nat /\ m \in Nat /\ Count(c) \in Nat /\ 2 * i + 1 =< m
    BY <1>4 DEF Lost, IsPut, Count
  <2> DEFINE l == i + 1
             t == Len(tail)
  <2>3. 2 * l - 1 = 2 * i + 1 /\ l \in 1..Count(c)
    BY <2>2
  <2>4. Carries(c, rest, 2 * l - 1, m)
    BY <2>1, <2>3
  <2>5. /\ t \in Nat /\ Len(rest) \in Nat /\ Len(stream) = t + Len(rest)
        /\ \A x \in 1..t : stream[x] = tail[x] /\ tail[x] \in Tails
        /\ \A x \in 1..Len(rest) : stream[t + x] = rest[x]
    BY <2>1
  <2>6. \A x \in 1..t : stream[x][1] = "head" => stream[x][3] # 1
    <3> SUFFICES ASSUME NEW x \in 1..t PROVE stream[x][3] # 1
      OBVIOUS
    <3>1. stream[x] \in Tails
      BY <2>5
    <3>. QED  BY <3>1 DEF Tails
  <2> HIDE DEF l, t
  <2>7. CASE rest = <<>>
    <3>1. Len(rest) = 0
      BY <2>7
    <3>2. \A x \in 1..Len(buf) : x \in 1..t
      BY <1>1, <2>5, <3>1
    <3> HIDE DEF buf
    <3>3. \A x \in 1..Len(buf) : buf[x][1] = "head" => buf[x][3] # 1
      BY <1>2, <2>6, <3>2
    <3>4. Parsed(old, buf).op = old.op
      BY <1>1, <3>3, NoCommandRead
    <3>. QED  BY <3>4 DEF buf
  <2>8. CASE rest # <<>>
    <3>1. rest[1][1] = "byte"
      BY <2>3, <2>4, <2>8, BeginsWithByte
    <3> HIDE DEF buf
    <3>2. ASSUME NEW x \in 1..Len(buf), buf[x][1] = "head" PROVE buf[x][3] # 1
      <4>1. CASE x =< t
        BY <1>2, <2>5, <2>6, <3>2, <4>1
      <4>2. CASE ~(x =< t)
        <5>1. t + 1 \in 1..Len(buf)
          BY <1>1, <2>5, <4>2
        <5>2. 1 \in 1..Len(rest)
          BY <2>5, <2>8
        <5>3. buf[t + 1] = rest[1]
          BY <1>2, <2>5, <5>1, <5>2
        <5>4. x \in DOMAIN buf /\ t + 1 \in DOMAIN buf
          BY <1>1, <5>1
        <5>5. Crosses(buf)
          BY <3>1, <3>2, <5>3, <5>4, CrossesWhen
        <5>. QED  BY <5>5 DEF buf
      <4>. QED  BY <4>1, <4>2
    <3>3. Parsed(old, buf).op = old.op
      BY <1>1, <3>2, NoCommandRead
    <3>. QED  BY <3>3 DEF buf
  <2>. QED  BY <2>7, <2>8
<1>. QED  BY <1>3, <1>4

-----------------------------------------------------------------------------
(* Files that another worker's step leaves as they were.                   *)
SameFiles(c, f, g) ==
  \A j \in 1..Count(c) : IdAt(c, j) \in DOMAIN f =>
    IdAt(c, j) \in DOMAIN g /\ g[IdAt(c, j)] = f[IdAt(c, j)]

LEMMA KeptSame ==
  ASSUME NEW c, IsPut(c), NEW i \in 0..Count(c), NEW f, NEW g, Kept(c, f, i),
         SameFiles(c, f, g)
  PROVE  Kept(c, g, i)
<1>1. \A j \in 1..i : j \in 1..Count(c)
  BY DEF IsPut, Count
<1>. QED  BY <1>1 DEF Kept, SameFiles

LEMMA KeptBefore ==
  ASSUME NEW c, IsPut(c), NEW i \in 1..Count(c), NEW f, NEW g, Kept(c, f, i - 1),
         \A x \in DOMAIN f : x # IdAt(c, i) => x \in DOMAIN g /\ g[x] = f[x]
  PROVE  Kept(c, g, i - 1)
<1>1. ASSUME NEW j \in 1..i - 1 PROVE IdAt(c, j) # IdAt(c, i)
  <2>1. j \in 1..Count(c) /\ j # i
    BY DEF IsPut, Count
  <2>. QED  BY <2>1, IdsDiffer
<1>. QED  BY <1>1 DEF Kept

LEMMA KeptMore ==
  ASSUME NEW c, IsPut(c), NEW i \in 1..Count(c), NEW f, Kept(c, f, i - 1),
         IdAt(c, i) \in DOMAIN f, Starts(f[IdAt(c, i)], BodyAt(c, i)),
         ~Inapt(c, i) => f[IdAt(c, i)] = BodyAt(c, i)
  PROVE  Kept(c, f, i)
<1>1. \A j \in 1..i : j = i \/ j \in 1..i - 1
  BY DEF IsPut, Count
<1>. QED  BY <1>1 DEF Kept

LEMMA HoldsSame ==
  ASSUME NEW c, IsPut(c), NEW p, NEW m, NEW stream, NEW w, NEW d, NEW f, NEW g,
         Holds(c, p, m, stream, w, d, f), SameFiles(c, f, g)
  PROVE  Holds(c, p, m, stream, w, d, g)
<1>1. CASE w = "first" /\ Carries(c, stream, 0, m)
  BY <1>1 DEF Holds
<1>2. CASE w \in {"add", "create", "body", "rest"}
           /\ \E i \in 1..Count(c) : Placed(c, m, stream, w, d, f, i)
  <2>1. PICK i \in 1..Count(c) : Placed(c, m, stream, w, d, f, i)
    BY <1>2
  <2>2. i - 1 \in 0..Count(c)
    BY DEF IsPut, Count
  <2>3. Kept(c, g, i - 1)
    BY <2>1, <2>2, KeptSame DEF Placed
  <2>4. Placed(c, m, stream, w, d, g, i)
    BY <2>1, <2>3 DEF Placed, SameFiles
  <2>. QED  BY <1>2, <2>4 DEF Holds
<1>3. CASE w = "next" /\ \E i \in 1..Count(c) : Finished(c, p, m, stream, d, f, i)
  <2>1. PICK i \in 1..Count(c) : Finished(c, p, m, stream, d, f, i)
    BY <1>3
  <2>2. i \in 0..Count(c)
    BY DEF IsPut, Count
  <2>3. Kept(c, g, i)
    BY <2>1, <2>2, KeptSame DEF Finished
  <2>4. Finished(c, p, m, stream, d, g, i)
    BY <2>1, <2>3 DEF Finished
  <2>. QED  BY <1>3, <2>4 DEF Holds
<1>4. CASE w = "closed" /\ \E i \in 0..Count(c) : Closes(c, p, f, i)
  <2>1. PICK i \in 0..Count(c) : Closes(c, p, f, i)
    BY <1>4
  <2>2. Closes(c, p, g, i)
    BY <2>1, KeptSame DEF Closes
  <2>. QED  BY <1>4, <2>2 DEF Holds
<1>. QED  BY <1>1, <1>2, <1>3, <1>4 DEF Holds
-----------------------------------------------------------------------------
(* The first header.                                                       *)
LEMMA FirstHolds ==
  ASSUME NEW c, IsPut(c), NEW p, NEW m, NEW stream, NEW files,
         Sends(c, p, m, "first"), Carries(c, stream, 0, m),
         stream # <<>> \/ p \in {"done", "killed"},
         ~Crosses(Taken(stream, 2 * HdrLen)), NEW d,
         d = Parsed(Blank, Taken(stream, 2 * HdrLen))
  PROVE  \/ d.op = "put" /\ Holds(c, p, m, Remaining(stream, 2 * HdrLen), "add", d, files)
         \/ d.op = "" /\ Holds(c, p, m, Remaining(stream, 2 * HdrLen), "closed", d, files)
<1> DEFINE n == 2 * HdrLen
           buf == Taken(stream, n)
<1>1. /\ m \in 0..2 * Count(c)
      /\ \A j \in 1..Count(c) : 2 * j =< m => LengthAt(c, j) > 0
      /\ p = "done" => m = 2 * Count(c)
  BY DEF Sends
<1>2. n \in Nat /\ HdrLen =< n
  BY DfsAssumption
<1>3. Count(c) \in Nat /\ Count(c) > 0
  BY DEF IsPut, Count
<1>4. Blank \in Cmds /\ Blank.op = "" /\ Blank.size = <<>>
  BY BlankIsGood DEF Good, Blank
<1> HIDE DEF n
<1>5. \/ m = 0 /\ stream = <<>> /\ Taken(stream, n) = <<>> /\ Remaining(stream, n) = <<>>
      \/ /\ 1 \in 1..Count(c)
         /\ Taken(stream, n) = HeaderCells(HeaderAt(c, 1))
         /\ Carries(c, Remaining(stream, n), 1, m)
  <2> DEFINE i == 0
  <2>1. i \in 0..Count(c) /\ Carries(c, stream, 2 * i, m) /\ ~Crosses(Taken(stream, n))
    BY <1>3 DEF n
  <2>0. 2 * i = 0 /\ i + 1 = 1 /\ 2 * i + 1 = 1
    OBVIOUS
  <2> HIDE DEF i
  <2>2. \/ 2 * i = m /\ stream = <<>> /\ Taken(stream, n) = <<>> /\ Remaining(stream, n) = <<>>
        \/ /\ i + 1 \in 1..Count(c)
           /\ Taken(stream, n) = HeaderCells(HeaderAt(c, i + 1))
           /\ Carries(c, Remaining(stream, n), 2 * i + 1, m)
    BY <1>1, <1>2, <2>1, HeaderReceived
  <2>. QED  BY <2>0, <2>2
<1>6. Kept(c, files, 0) /\ Clean(c, 0)
  BY DEF Kept, Clean
<1>7. CASE m = 0 /\ stream = <<>> /\ Taken(stream, n) = <<>> /\ Remaining(stream, n) = <<>>
  <2>1. d.op = ""
    BY <1>4, <1>7, ParsedNothing DEF n
  <2>2. p = "killed"
    BY <1>1, <1>3, <1>7
  <2>3. Closes(c, p, files, 0) /\ 0 \in 0..Count(c)
    BY <1>3, <1>6, <2>2 DEF Closes
  <2>4. Holds(c, p, m, Remaining(stream, n), "closed", d, files)
    BY <2>3 DEF Holds
  <2>. QED  BY <2>1, <2>4 DEF n
<1>8. CASE /\ 1 \in 1..Count(c)
           /\ Taken(stream, n) = HeaderCells(HeaderAt(c, 1))
           /\ Carries(c, Remaining(stream, n), 1, m)
  <2>1. SizeAt(c, 1, Overwrite(Blank.size, Digits(LengthAt(c, 1))))
    BY <1>4, <1>8, SizeFirst
  <2>2. HasId(c, 1, d)
    BY <1>4, <1>8, <2>1, HeaderFills DEF n
  <2>3. Placed(c, m, Remaining(stream, n), "add", d, files, 1)
    BY <1>6, <1>8, <2>2 DEF Placed
  <2>4. Holds(c, p, m, Remaining(stream, n), "add", d, files)
    BY <1>8, <2>3 DEF Holds
  <2>. QED  BY <2>2, <2>4 DEF HasId, n
<1>. QED  BY <1>5, <1>7, <1>8

-----------------------------------------------------------------------------
(* Every other header.                                                     *)
LEMMA NextHolds ==
  ASSUME NEW c, IsPut(c), NEW p, NEW m, NEW stream \in Seq(Cells), NEW files, NEW old \in Full,
         Sends(c, p, m, "next"), Holds(c, p, m, stream, "next", old, files),
         stream # <<>> \/ p \in {"done", "killed"},
         ~Crosses(Taken(stream, HdrLen)), NEW e \in Cmds, e.size = old.size,
         NEW d, d = Parsed(e, Taken(stream, HdrLen))
  PROVE  \/ d.op = "put" /\ Holds(c, p, m, Remaining(stream, HdrLen), "add", d, files)
         \/ d.op = e.op /\ Holds(c, p, m, Remaining(stream, HdrLen), "closed", d, files)
<1> DEFINE buf == Taken(stream, HdrLen)
           rest == Remaining(stream, HdrLen)
<1>1. /\ m \in 0..2 * Count(c)
      /\ \A j \in 1..Count(c) : 2 * j =< m => LengthAt(c, j) > 0
      /\ p = "done" => m = 2 * Count(c)
  BY DEF Sends
<1>2. HdrLen \in Nat /\ HdrLen =< HdrLen
  BY DfsAssumption
<1>3. Count(c) \in Nat
  BY DEF IsPut, Count
<1>6. PICK i \in 1..Count(c) : Finished(c, p, m, stream, old, files, i)
  BY DEF Holds
<1>7. Kept(c, files, i) /\ i > 0 /\ i \in 0..Count(c) /\ i \in Nat \ {0}
  BY <1>3, <1>6 DEF Finished
<1>8. CASE Clean(c, i) /\ Carries(c, stream, 2 * i, m) /\ SizeAt(c, i, old.size)
  <2>1. \/ 2 * i = m /\ stream = <<>> /\ buf = <<>> /\ rest = <<>>
        \/ /\ i + 1 \in 1..Count(c) /\ buf = HeaderCells(HeaderAt(c, i + 1))
           /\ Carries(c, rest, 2 * i + 1, m)
    BY <1>1, <1>2, <1>7, <1>8, HeaderReceived
  <2>2. CASE 2 * i = m /\ stream = <<>> /\ buf = <<>> /\ rest = <<>>
    <3>1. d.op = e.op
      BY <2>2, ParsedNothing
    <3>2. p = "killed" \/ (p = "done" /\ i = Count(c))
      BY <1>1, <1>3, <1>7, <2>2
    <3>3. Closes(c, p, files, i)
      BY <1>7, <3>2 DEF Closes
    <3>4. Holds(c, p, m, rest, "closed", d, files)
      BY <1>7, <3>3 DEF Holds
    <3>. QED  BY <3>1, <3>4
  <2>3. CASE /\ i + 1 \in 1..Count(c) /\ buf = HeaderCells(HeaderAt(c, i + 1))
             /\ Carries(c, rest, 2 * i + 1, m)
    <3> DEFINE l == i + 1
    <3>1. SizeAt(c, l, Overwrite(e.size, Digits(LengthAt(c, l))))
      BY <1>7, <1>8, <2>3, SizeNext
    <3>2. l \in 1..Count(c) /\ buf = HeaderCells(HeaderAt(c, l)) /\ l - 1 = i
          /\ 2 * l - 1 = 2 * i + 1
      BY <1>7, <2>3
    <3> HIDE DEF l, buf, rest
    <3>3. HasId(c, l, d)
      BY <3>1, <3>2, HeaderFills DEF buf
    <3>4. Carries(c, rest, 2 * l - 1, m)
      BY <2>3, <3>2
    <3>5. Placed(c, m, rest, "add", d, files, l)
      BY <1>7, <1>8, <3>2, <3>3, <3>4 DEF Placed
    <3>6. Holds(c, p, m, rest, "add", d, files)
      BY <3>2, <3>5 DEF Holds
    <3>. QED  BY <3>3, <3>6 DEF HasId, rest
  <2>. QED  BY <2>1, <2>2, <2>3
<1>9. CASE Inapt(c, i) /\ Lost(c, p, i, m, stream)
  <2>1. d.op = e.op
    BY <1>1, <1>2, <1>9, NothingRead
  <2>2. Closes(c, p, files, i)
    BY <1>7, <1>9 DEF Closes
  <2>3. Holds(c, p, m, rest, "closed", d, files)
    BY <1>7, <2>2 DEF Holds
  <2>. QED  BY <2>1, <2>3
<1>. QED  BY <1>6, <1>8, <1>9 DEF Finished

(* A node is added, and a file created.                                    *)
LEMMA AddHolds ==
  ASSUME NEW c, NEW p, NEW m, NEW stream, NEW d, NEW files,
         Holds(c, p, m, stream, "add", d, files)
  PROVE  Holds(c, p, m, stream, "create", d, files)
<1>1. PICK i \in 1..Count(c) : Placed(c, m, stream, "add", d, files, i)
  BY DEF Holds
<1>2. Placed(c, m, stream, "create", d, files, i)
  BY <1>1 DEF Placed
<1>. QED  BY <1>2 DEF Holds

LEMMA CreateHolds ==
  ASSUME NEW c, IsPut(c), NEW p, NEW m, NEW stream, NEW d, NEW files, NEW g,
         Holds(c, p, m, stream, "create", d, files),
         \A x \in DOMAIN files : x # Id(d) => x \in DOMAIN g /\ g[x] = files[x]
  PROVE  Holds(c, p, m, stream, "body", d, g)
<1>1. PICK i \in 1..Count(c) : Placed(c, m, stream, "create", d, files, i)
  BY DEF Holds
<1>2. Id(d) = IdAt(c, i)
  BY <1>1 DEF Placed, HasId
<1>3. Kept(c, g, i - 1)
  BY <1>1, <1>2, KeptBefore DEF Placed
<1>4. Placed(c, m, stream, "body", d, g, i)
  BY <1>1, <1>3 DEF Placed
<1>. QED  BY <1>4 DEF Holds

(* Bytes are received.                                                     *)
LEMMA BodyHolds ==
  ASSUME NEW c, IsPut(c), NEW p, NEW m, NEW stream, NEW d, NEW files \in Contents, NEW g,
         NEW n, n = Value(d.size) - Len(files[Id(d)]),
         Sends(c, p, m, "body"), Holds(c, p, m, stream, "body", d, files),
         stream # <<>> \/ p \in {"done", "killed"}, ~Crosses(Taken(stream, n)),
         files[Id(d)] = <<>>, Id(d) \in DOMAIN files,
         g = [files EXCEPT ![Id(d)] = files[Id(d)] \o Taken(stream, n)]
  PROVE  Taken(stream, n) # <<>> /\ Holds(c, p, m, Remaining(stream, n), "rest", d, g)
<1>1. /\ m \in 0..2 * Count(c)
      /\ \A j \in 1..Count(c) : 2 * j =< m => LengthAt(c, j) > 0
      /\ p = "done" => m = 2 * Count(c)
      /\ p = "killed" => m % 2 = 0
  BY DEF Sends
<1>2. Count(c) \in Nat
  BY DEF IsPut, Count
<1>3. PICK i \in 1..Count(c) : Placed(c, m, stream, "body", d, files, i)
  BY DEF Holds
<1>4. /\ Carries(c, stream, 2 * i - 1, m) /\ HasId(c, i, d) /\ Kept(c, files, i - 1)
      /\ Clean(c, i - 1) /\ Id(d) = IdAt(c, i) /\ SizeAt(c, i, d.size)
  BY <1>3 DEF Placed, HasId
<1>5. n = Value(d.size) /\ n \in Nat
  <2>1. Value(d.size) \in Nat
    BY <1>4, ValueType DEF SizeAt
  <2>2. Len(<<>>) = 0
    OBVIOUS
  <2>. QED  BY <2>1, <2>2
<1>6. LengthAt(c, i) > 0 => LengthAt(c, i) =< n
  <2>1. LengthAt(c, i) \in Nat
    BY ChunkAt
  <2>2. LengthAt(c, i) > 0 =>
          /\ Apt(c, i) => Value(d.size) = LengthAt(c, i)
          /\ ~Apt(c, i) => Value(d.size) > LengthAt(c, i)
    BY <1>4, SizeRead
  <2>. QED  BY <1>5, <2>1, <2>2
<1>7. \/ 2 * i - 1 = m /\ stream = <<>>
      \/ /\ LengthAt(c, i) > 0 /\ Taken(stream, n) = BodyAt(c, i)
         /\ Carries(c, Remaining(stream, n), 2 * i, m)
  BY <1>1, <1>4, <1>5, <1>6, BodyReceived
<1>8. ~(2 * i - 1 = m /\ stream = <<>>)
  <2> SUFFICES ASSUME 2 * i - 1 = m, stream = <<>> PROVE FALSE
    OBVIOUS
  <2>1. m # 2 * Count(c) /\ m % 2 # 0
    BY <1>2
  <2>. QED  BY <1>1, <2>1
<1>9. /\ LengthAt(c, i) > 0 /\ Taken(stream, n) = BodyAt(c, i)
      /\ Carries(c, Remaining(stream, n), 2 * i, m)
  BY <1>7, <1>8
<1>10. BodyAt(c, i) # <<>> /\ BodyAt(c, i) \in Seq(Cells)
  BY <1>9, FirstByte, ChunkAt
<1>11. <<>> \o BodyAt(c, i) = BodyAt(c, i)
  BY <1>10
<1>12. /\ IdAt(c, i) \in DOMAIN g /\ g[IdAt(c, i)] = BodyAt(c, i)
       /\ \A x \in DOMAIN files : x # IdAt(c, i) => x \in DOMAIN g /\ g[x] = files[x]
  BY <1>4, <1>9, <1>11
<1>13. Kept(c, g, i - 1)
  BY <1>4, <1>12, KeptBefore
<1>14. Placed(c, m, Remaining(stream, n), "rest", d, g, i)
  BY <1>4, <1>9, <1>12, <1>13 DEF Placed
<1>15. Holds(c, p, m, Remaining(stream, n), "rest", d, g)
  BY <1>14 DEF Holds
<1>. QED  BY <1>9, <1>10, <1>15

(* Once more bytes are received: of a length that was read right, none.    *)
LEMMA RestHolds ==
  ASSUME NEW c, IsPut(c), NEW p, NEW m, NEW stream, NEW d, NEW files \in Contents, NEW g,
         NEW n, n = Value(d.size) - Len(files[Id(d)]),
         Sends(c, p, m, "rest"), Holds(c, p, m, stream, "rest", d, files),
         stream # <<>> \/ p \in {"done", "killed"}, ~Crosses(Taken(stream, n)),
         Id(d) \in DOMAIN files,
         g = [files EXCEPT ![Id(d)] = files[Id(d)] \o Taken(stream, n)]
  PROVE  Holds(c, p, m, Remaining(stream, n), "next", d, g)
<1>1. /\ m \in 0..2 * Count(c)
      /\ \A j \in 1..Count(c) : 2 * j =< m => LengthAt(c, j) > 0
      /\ p = "done" => m = 2 * Count(c)
  BY DEF Sends
<1>2. PICK i \in 1..Count(c) : Placed(c, m, stream, "rest", d, files, i)
  BY DEF Holds
<1>3. /\ Carries(c, stream, 2 * i, m) /\ HasId(c, i, d) /\ Kept(c, files, i - 1)
      /\ Clean(c, i - 1) /\ Id(d) = IdAt(c, i) /\ SizeAt(c, i, d.size)
      /\ IdAt(c, i) \in DOMAIN files /\ files[IdAt(c, i)] = BodyAt(c, i)
  BY <1>2 DEF Placed, HasId
<1>4. Count(c) \in Nat /\ i \in Nat /\ i \in 0..Count(c)
  BY DEF IsPut, Count
<1>5. /\ stream \in Seq(Cells) /\ 2 * i =< m
      /\ 2 * i = m => stream = <<>>
  BY <1>1, <1>3, <1>4, HeaderNext
<1>6. LengthAt(c, i) > 0 /\ LengthAt(c, i) \in Nat
      /\ BodyAt(c, i) \in Seq(Cells) /\ Len(BodyAt(c, i)) = LengthAt(c, i)
  BY <1>1, <1>5, ChunkAt
<1>7. /\ Value(d.size) \in Nat
      /\ Apt(c, i) => Value(d.size) = LengthAt(c, i)
      /\ ~Apt(c, i) => Value(d.size) > LengthAt(c, i)
  BY <1>3, <1>6, SizeRead
<1>8. n = Value(d.size) - LengthAt(c, i)
  BY <1>3, <1>6
<1>9. n \in Nat /\ (Apt(c, i) => n = 0) /\ (~Apt(c, i) => n > 0)
  BY <1>6, <1>7, <1>8
<1> DEFINE data == Taken(stream, n)
<1>10. /\ IdAt(c, i) \in DOMAIN g /\ g[IdAt(c, i)] = BodyAt(c, i) \o data
       /\ \A x \in DOMAIN files : x # IdAt(c, i) => x \in DOMAIN g /\ g[x] = files[x]
  BY <1>3
<1>11. Kept(c, g, i - 1)
  BY <1>3, <1>10, KeptBefore
<1>12. data \in Seq(Cells) /\ Remaining(stream, n) \in Seq(Cells)
  BY <1>5, <1>9, Receive
<1> HIDE DEF data
<1>13. Starts(g[IdAt(c, i)], BodyAt(c, i))
  <2> DEFINE b == BodyAt(c, i)
             z == b \o data
  <2>1. Len(b) =< Len(z) /\ \A x \in 1..Len(b) : z[x] = b[x]
    BY <1>6, <1>12
  <2>. QED  BY <1>10, <2>1 DEF Starts
<1>14. data = <<>> => Kept(c, g, i)
  <2>1. data = <<>> => BodyAt(c, i) \o data = BodyAt(c, i)
    BY <1>6
  <2>. QED  BY <2>1, <1>10, <1>11, <1>13, KeptMore
<1>15. CASE Apt(c, i)
  <2>1. data = <<>> /\ Remaining(stream, n) = stream
    BY <1>5, <1>9, <1>15, Receive DEF data
  <2>2. Clean(c, i)
    <3>1. \A j \in 1..i : j = i \/ j \in 1..i - 1
      BY <1>4
    <3>. QED  BY <1>3, <1>15, <3>1 DEF Clean, Inapt
  <2>3. Finished(c, p, m, Remaining(stream, n), d, g, i)
    BY <1>3, <1>14, <2>1, <2>2 DEF Finished
  <2>. QED  BY <2>3 DEF Holds
<1>16. CASE ~Apt(c, i) /\ stream = <<>>
  <2>1. data = <<>> /\ Remaining(stream, n) = <<>>
    <3>1. Len(stream) =< n
      BY <1>9, <1>16
    <3>. QED  BY <1>5, <1>9, <1>16, <3>1, ReceiveAll DEF data
  <2>2. p \in {"done", "killed"}
    BY <1>16
  <2>3. CASE i < Count(c)
    <3>1. Inapt(c, i) /\ Lost(c, p, i, m, Remaining(stream, n))
      BY <1>16, <2>1, <2>2, <2>3 DEF Inapt, Lost
    <3>2. Finished(c, p, m, Remaining(stream, n), d, g, i)
      BY <1>3, <1>14, <2>1, <3>1 DEF Finished
    <3>. QED  BY <3>2 DEF Holds
  <2>4. CASE ~(i < Count(c))
    <3>1. ~Inapt(c, i)
      BY <2>4 DEF Inapt
    <3>2. Clean(c, i)
      <4>1. \A j \in 1..i : j = i \/ j \in 1..i - 1
        BY <1>4
      <4>. QED  BY <1>3, <3>1, <4>1 DEF Clean
    <3>3. Finished(c, p, m, Remaining(stream, n), d, g, i)
      BY <1>3, <1>14, <1>16, <2>1, <3>2 DEF Finished
    <3>. QED  BY <3>3 DEF Holds
  <2>. QED  BY <2>3, <2>4
<1>17. CASE ~Apt(c, i) /\ stream # <<>>
  <2>1. i < Count(c) /\ Lost(c, p, i, m, Remaining(stream, n))
    BY <1>1, <1>3, <1>9, <1>17, HeaderBroken
  <2>2. Inapt(c, i)
    BY <1>17, <2>1 DEF Inapt
  <2>3. Kept(c, g, i)
    BY <1>10, <1>11, <1>13, <2>2, KeptMore
  <2>4. Finished(c, p, m, Remaining(stream, n), d, g, i)
    BY <1>3, <2>1, <2>2, <2>3 DEF Finished
  <2>. QED  BY <2>4 DEF Holds
<1>. QED  BY <1>15, <1>16, <1>17

-----------------------------------------------------------------------------
(* The client sends a message to this server, or to another one.           *)
LEMMA SendHolds ==
  ASSUME NEW c, IsPut(c), NEW m \in Nat, m + 1 \in 1..2 * Count(c), NEW stream, NEW w,
         NEW d, NEW files, Holds(c, "put", m, stream, w, d, files), NEW q
  PROVE  Holds(c, q, m + 1, stream \o Message(c, m + 1), w, d, files)
<1> DEFINE more == stream \o Message(c, m + 1)
<1>1. \A j \in 1..m + 1 : Message(c, j) \in Seq(Cells)
  <2>1. \A j \in 1..m + 1 : j \in 1..2 * Count(c)
    BY DEF IsPut, Count
  <2>. QED  BY <2>1, MessageType
<1>2. \A r \in Nat : \A x : Carries(c, x, r, m) => Carries(c, x \o Message(c, m + 1), r, m + 1)
  BY <1>1, CarriesMore
<1>3. \A i \in 1..Count(c) : i \in Nat /\ 2 * i \in Nat /\ 2 * i - 1 \in Nat /\ 2 * i + 1 \in Nat
  OBVIOUS
<1>4. CASE w = "first" /\ Carries(c, stream, 0, m)
  BY <1>2, <1>4 DEF Holds
<1>5. CASE w \in {"add", "create", "body", "rest"}
           /\ \E i \in 1..Count(c) : Placed(c, m, stream, w, d, files, i)
  <2>1. PICK i \in 1..Count(c) : Placed(c, m, stream, w, d, files, i)
    BY <1>5
  <2> DEFINE r == IF w = "rest" THEN 2 * i ELSE 2 * i - 1
  <2>2. r \in Nat /\ Carries(c, stream, r, m)
    BY <1>3, <2>1 DEF Placed
  <2> HIDE DEF r
  <2>3. Carries(c, more, r, m + 1)
    BY <1>2, <2>2
  <2>4. Placed(c, m + 1, more, w, d, files, i)
    BY <2>1, <2>3 DEF Placed, r
  <2>. QED  BY <1>5, <2>4 DEF Holds
<1>6. CASE w = "next" /\ \E i \in 1..Count(c) : Finished(c, "put", m, stream, d, files, i)
  <2>1. PICK i \in 1..Count(c) : Finished(c, "put", m, stream, d, files, i)
    BY <1>6
  <2>2. Carries(c, stream, 2 * i, m) => Carries(c, more, 2 * i, m + 1)
    BY <1>2, <1>3
  <2>3. Lost(c, "put", i, m, stream) => Lost(c, q, i, m + 1, more)
    <3> SUFFICES ASSUME Lost(c, "put", i, m, stream) PROVE Lost(c, q, i, m + 1, more)
      OBVIOUS
    <3>1. 2 * i + 1 =< m
      BY DEF Lost
    <3>2. PICK tail \in Seq(Tails), rest \in Seq(Cells) :
            stream = tail \o rest /\ Carries(c, rest, 2 * i + 1, m)
      BY DEF Lost
    <3> DEFINE S == Tails \cup Cells
               msg == Message(c, m + 1)
    <3>3. m + 1 \in 1..m + 1
      OBVIOUS
    <3>4. msg \in Seq(Cells)
      BY <1>1, <3>3
    <3>5. tail \in Seq(S) /\ rest \in Seq(S) /\ msg \in Seq(S)
      <4> HIDE DEF msg
      <4>. QED  BY <3>4
    <3> HIDE DEF S, msg
    <3>6. (tail \o rest) \o msg = tail \o (rest \o msg) /\ rest \o msg \in Seq(Cells)
      BY <3>4, <3>5, Associates
    <3>7. Carries(c, rest \o msg, 2 * i + 1, m + 1)
      BY <1>2, <1>3, <3>2 DEF msg
    <3>8. 2 * i + 1 =< m + 1
      BY <1>3, <3>1
    <3>9. more = tail \o (rest \o msg)
      BY <3>2, <3>6 DEF msg
    <3>. QED  BY <3>6, <3>7, <3>8, <3>9 DEF Lost
  <2>4. Finished(c, q, m + 1, more, d, files, i)
    BY <2>1, <2>2, <2>3 DEF Finished
  <2>. QED  BY <1>6, <2>4 DEF Holds
<1>7. CASE w = "closed" /\ \E i \in 0..Count(c) : Closes(c, "put", files, i)
  <2>1. PICK i \in 0..Count(c) : Closes(c, "put", files, i)
    BY <1>7
  <2>2. Closes(c, q, files, i)
    BY <2>1 DEF Closes
  <2>. QED  BY <1>7, <2>2 DEF Holds
<1>. QED  BY <1>4, <1>5, <1>6, <1>7 DEF Holds

LEMMA StayHolds ==
  ASSUME NEW c, NEW m, NEW stream, NEW w, NEW d, NEW files,
         Holds(c, "put", m, stream, w, d, files), NEW q
  PROVE  Holds(c, q, m, stream, w, d, files)
<1>1. \A i : Lost(c, "put", i, m, stream) => Lost(c, q, i, m, stream)
  BY DEF Lost
<1>2. \A i : Finished(c, "put", m, stream, d, files, i) => Finished(c, q, m, stream, d, files, i)
  BY <1>1 DEF Finished
<1>3. \A i : Closes(c, "put", files, i) => Closes(c, q, files, i)
  BY DEF Closes
<1>. QED  BY <1>2, <1>3 DEF Holds

(* Sends says nothing of a worker but whether it has closed.               *)
LEMMA SendsOpen ==
  ASSUME NEW c, NEW p, NEW m, NEW w, w # "closed", NEW v, Sends(c, p, m, w)
  PROVE  Sends(c, p, m, v)
BY DEF Sends

LEMMA SendsStart ==
  ASSUME NEW c, IsPut(c), NEW w
  PROVE  Sends(c, "put", 0, w)
<1>1. Count(c) \in Nat
  BY DEF IsPut, Count
<1>2. 0 \in 0..2 * Count(c) /\ \A i \in 1..Count(c) : ~(2 * i =< 0)
  BY <1>1
<1>. QED  BY <1>2 DEF Sends
-----------------------------------------------------------------------------
(* How many of the first n messages of a put go to server s, when the      *)
(* client goes through l servers, four messages for each, and s is the     *)
(* server at position p.                                                   *)
SentAmong(l, p, n) ==
  LET turn == (n % (4 * l)) - 4 * (p - 1) IN
  4 * (n \div (4 * l)) + (IF turn < 0 THEN 0 ELSE IF turn > 4 THEN 4 ELSE turn)

LEMMA SentRound ==
  ASSUME NEW l \in {1, 2, 4}, NEW n \in Nat
  PROVE  \E q \in Nat, r \in 0..4 * l - 1 :
           /\ n \div (4 * l) = q /\ n % (4 * l) = r /\ n = 4 * l * q + r
           /\ n % 4 = r % 4 /\ n % 2 = r % 2
           /\ r < 4 * l - 1 => (n + 1) \div (4 * l) = q /\ (n + 1) % (4 * l) = r + 1
           /\ r = 4 * l - 1 => (n + 1) \div (4 * l) = q + 1 /\ (n + 1) % (4 * l) = 0
<1> DEFINE P == 4 * l
<1>1. CASE l = 1
  <2>1. /\ n \div 4 \in Nat /\ n % 4 \in 0..3 /\ n = (4 * (n \div 4)) + (n % 4)
    OBVIOUS
  <2>. QED  BY <1>1, <2>1
<1>2. CASE l = 2
  <2>1. /\ n \div 8 \in Nat /\ n % 8 \in 0..7 /\ n = (8 * (n \div 8)) + (n % 8)
        /\ n % 4 = (n % 8) % 4 /\ n % 2 = (n % 8) % 2
    OBVIOUS
  <2>. QED  BY <1>2, <2>1
<1>3. CASE l = 4
  <2>1. /\ n \div 16 \in Nat /\ n % 16 \in 0..15 /\ n = (16 * (n \div 16)) + (n % 16)
        /\ n % 4 = (n % 16) % 4 /\ n % 2 = (n % 16) % 2
    OBVIOUS
  <2>. QED  BY <1>3, <2>1
<1>. QED  BY <1>1, <1>2, <1>3

LEMMA SentNext ==
  ASSUME NEW l \in {1, 2, 4}, NEW p \in 1..l, NEW n \in Nat
  PROVE  /\ SentAmong(l, p, n) \in Nat
         /\ p = ((n % (4 * l)) \div 4) + 1 =>
              /\ SentAmong(l, p, n + 1) = SentAmong(l, p, n) + 1
              /\ SentAmong(l, p, n) \div 4 = n \div (4 * l)
              /\ SentAmong(l, p, n) % 4 = n % 4
         /\ p # ((n % (4 * l)) \div 4) + 1 =>
              /\ SentAmong(l, p, n + 1) = SentAmong(l, p, n)
              /\ SentAmong(l, p, n) % 2 = 0
<1>1. PICK q \in Nat, r \in 0..4 * l - 1 :
        /\ n \div (4 * l) = q /\ n % (4 * l) = r /\ n = 4 * l * q + r
        /\ n % 4 = r % 4 /\ n % 2 = r % 2
        /\ r < 4 * l - 1 => (n + 1) \div (4 * l) = q /\ (n + 1) % (4 * l) = r + 1
        /\ r = 4 * l - 1 => (n + 1) \div (4 * l) = q + 1 /\ (n + 1) % (4 * l) = 0
  BY SentRound
<1> DEFINE b == r - 4 * (p - 1)
           x == IF b < 0 THEN 0 ELSE IF b > 4 THEN 4 ELSE b
           y == IF b + 1 < 0 THEN 0 ELSE IF b + 1 > 4 THEN 4 ELSE b + 1
<1>2. SentAmong(l, p, n) = 4 * q + x
  BY <1>1 DEF SentAmong
<1>3. b \in Int /\ x \in 0..4
  OBVIOUS
<1>4. r = 4 * l - 1 => b >= 3 /\ (p = l => b = 3)
  OBVIOUS
<1>5. r = 4 * l - 1 => SentAmong(l, p, n + 1) = 4 * (q + 1)
  <2> SUFFICES ASSUME r = 4 * l - 1 PROVE SentAmong(l, p, n + 1) = 4 * (q + 1)
    OBVIOUS
  <2>1. (n + 1) \div (4 * l) = q + 1 /\ (n + 1) % (4 * l) = 0
    BY <1>1
  <2>2. ~(0 - 4 * (p - 1) > 0) /\ (0 - 4 * (p - 1) < 0 \/ 0 - 4 * (p - 1) = 0)
    OBVIOUS
  <2>. QED  BY <2>1, <2>2 DEF SentAmong
<1>6. r < 4 * l - 1 => SentAmong(l, p, n + 1) = 4 * q + y
  <2> SUFFICES ASSUME r < 4 * l - 1 PROVE SentAmong(l, p, n + 1) = 4 * q + y
    OBVIOUS
  <2>1. (n + 1) \div (4 * l) = q /\ (n + 1) % (4 * l) = r + 1
    BY <1>1
  <2>2. (r + 1) - 4 * (p - 1) = b + 1
    OBVIOUS
  <2> HIDE DEF b
  <2>. QED  BY <2>1, <2>2 DEF SentAmong
<1>7. p = (r \div 4) + 1 <=> b \in 0..3
  OBVIOUS
<1>8. ASSUME p = ((n % (4 * l)) \div 4) + 1
      PROVE  /\ SentAmong(l, p, n + 1) = SentAmong(l, p, n) + 1
             /\ SentAmong(l, p, n) \div 4 = n \div (4 * l)
             /\ SentAmong(l, p, n) % 4 = n % 4
  <2>1. b \in 0..3 /\ x = b /\ y = b + 1
    BY <1>1, <1>7, <1>8
  <2>2. r % 4 = b
    BY <2>1
  <2>3. (4 * q + b) \div 4 = q /\ (4 * q + b) % 4 = b
    BY <2>1
  <2>4. r = 4 * l - 1 => b = 3
    BY <1>4, <2>1
  <2> HIDE DEF b, x, y
  <2>. QED  BY <1>1, <1>2, <1>5, <1>6, <2>1, <2>2, <2>3, <2>4
<1>9. ASSUME p # ((n % (4 * l)) \div 4) + 1
      PROVE  /\ SentAmong(l, p, n + 1) = SentAmong(l, p, n)
             /\ SentAmong(l, p, n) % 2 = 0
  <2>1. b \notin 0..3 /\ (x = 0 \/ x = 4) /\ y = x
    BY <1>1, <1>7, <1>9
  <2>2. r = 4 * l - 1 => x = 4
    BY <1>4, <2>1
  <2>3. (4 * q + x) % 2 = 0
    BY <2>1
  <2> HIDE DEF b, x, y
  <2>. QED  BY <1>1, <1>2, <1>5, <1>6, <2>1, <2>2, <2>3
<1>10. SentAmong(l, p, n) \in Nat
  <2> HIDE DEF x
  <2>. QED  BY <1>2, <1>3
<1>. QED  BY <1>8, <1>9, <1>10

(* At the start nothing is sent, and at the end all there is.              *)
LEMMA SentAll ==
  ASSUME NEW l \in {1, 2, 4}, NEW p \in 1..l, NEW f \in Nat
  PROVE  /\ SentAmong(l, p, 0) = 0
         /\ SentAmong(l, p, 4 * l * f) = 4 * f
         /\ \A n \in Nat : n < 4 * l * f => SentAmong(l, p, n) =< 4 * f
<1>1. SentAmong(l, p, 4 * l * f) = 4 * f
  <2>1. (4 * l * f) \div (4 * l) = f /\ (4 * l * f) % (4 * l) = 0
    <3>1. CASE l = 1
      BY <3>1
    <3>2. CASE l = 2
      BY <3>2
    <3>3. CASE l = 4
      BY <3>3
    <3>. QED  BY <3>1, <3>2, <3>3
  <2>2. ~(0 - 4 * (p - 1) > 0) /\ (0 - 4 * (p - 1) < 0 \/ 0 - 4 * (p - 1) = 0)
    OBVIOUS
  <2>. QED  BY <2>1, <2>2 DEF SentAmong
<1>2. SentAmong(l, p, 0) = 0
  <2>1. 0 \div (4 * l) = 0 /\ 0 % (4 * l) = 0
    OBVIOUS
  <2>2. ~(0 - 4 * (p - 1) > 0) /\ (0 - 4 * (p - 1) < 0 \/ 0 - 4 * (p - 1) = 0)
    OBVIOUS
  <2>. QED  BY <2>1, <2>2 DEF SentAmong
<1>3. ASSUME NEW n \in Nat, n < 4 * l * f
      PROVE  SentAmong(l, p, n) =< 4 * f
  <2>1. PICK q \in Nat, r \in 0..4 * l - 1 :
          /\ n \div (4 * l) = q /\ n % (4 * l) = r /\ n = 4 * l * q + r
          /\ n % 4 = r % 4 /\ n % 2 = r % 2
          /\ r < 4 * l - 1 => (n + 1) \div (4 * l) = q /\ (n + 1) % (4 * l) = r + 1
          /\ r = 4 * l - 1 => (n + 1) \div (4 * l) = q + 1 /\ (n + 1) % (4 * l) = 0
    BY SentRound
  <2>2. q + 1 =< f
    <3>1. CASE l = 1
      BY <1>3, <2>1, <3>1
    <3>2. CASE l = 2
      BY <1>3, <2>1, <3>2
    <3>3. CASE l = 4
      BY <1>3, <2>1, <3>3
    <3>. QED  BY <3>1, <3>2, <3>3
  <2> DEFINE b == r - 4 * (p - 1)
             x == IF b < 0 THEN 0 ELSE IF b > 4 THEN 4 ELSE b
  <2>3. SentAmong(l, p, n) = 4 * q + x /\ x \in 0..4
    BY <2>1 DEF SentAmong
  <2> HIDE DEF x
  <2>. QED  BY <2>2, <2>3
<1>. QED  BY <1>1, <1>2, <1>3

-----------------------------------------------------------------------------
(* Where server s comes in the list of a put, and how many messages it has *)
(* been sent.                                                              *)
Position(servers, s) == CHOOSE p \in DOMAIN servers : servers[p] = s

SentTo(k, s) == SentAmong(Len(cmd[k].servers), Position(cmd[k].servers, s), sent[k])

(* The connection of a put, from the chunk its worker receives to the end  *)
(* of what is on its way; and what makes a worker take a header for one of *)
(* a put.                                                                  *)
Connected(k, s) ==
  /\ cmd[k].op = "put" /\ s \in Range(cmd[k].servers)
  /\ pc[k] \notin {"start", "refused"}

Track(k, s) ==
  /\ cmd[k].op = "put" /\ s \notin Range(cmd[k].servers) => wpc[k][s] = "none"
  /\ Connected(k, s) => Sends(Connection(k, s), pc[k], SentTo(k, s), wpc[k][s])
  /\ Connected(k, s) /\ ~disturbed[k][s] =>
       Holds(Connection(k, s), pc[k], SentTo(k, s), toServer[k][s], wpc[k][s], wcmd[k][s],
             file[s])

OpAt(k, s) == wpc[k][s] \in {"add", "create", "body", "rest"} => wcmd[k][s].op = "put"

TrackInv == \A k \in Clients, s \in Servers : Track(k, s) /\ OpAt(k, s)

LEMMA TrackOf ==
  ASSUME TrackInv, NEW k \in Clients, NEW s \in Servers
  PROVE  Track(k, s) /\ OpAt(k, s)
BY DEF TrackInv

LEMMA ConnectionIsPut ==
  ASSUME Types, NEW k \in Clients, NEW s \in Servers, cmd[k].op = "put"
  PROVE  /\ IsPut(Connection(k, s)) /\ Count(Connection(k, s)) = 2 * Len(cmd[k].files)
         /\ Len(cmd[k].files) \in Nat \ {0}
         /\ Connection(k, s).job = cmd[k] /\ Connection(k, s).k = k /\ Connection(k, s).s = s
<1>1. cmd \in Jobs
  BY DEF Types, ClientTypes
<1>2. cmd[k].files \in Seq(Names) \ {<<>>} /\ IsInjective(cmd[k].files)
  BY <1>1, DfsAssumption
<1>3. Connection(k, s).job = cmd[k] /\ Connection(k, s).k = k /\ Connection(k, s).s = s
  BY DEF Connection
<1>. QED  BY <1>2, <1>3 DEF IsPut, Count

LEMMA Positions ==
  ASSUME Types, NEW k \in Clients, cmd[k].op = "put", NEW s \in Range(cmd[k].servers)
  PROVE  LET p == Position(cmd[k].servers, s)
             l == Len(cmd[k].servers) IN
         /\ l \in {1, 2, 4} /\ p \in 1..l /\ cmd[k].servers[p] = s /\ s \in Servers
         /\ \A q \in 1..l : cmd[k].servers[q] = s => q = p
<1> DEFINE S == cmd[k].servers
           l == Len(S)
           p == Position(S, s)
<1>1. cmd \in Jobs
  BY DEF Types, ClientTypes
<1>2. S \in {<<0>>, <<0, 2>>, <<1, 3>>, <<0, 1, 2, 3>>}
  BY <1>1, DfsAssumption
<1>3. /\ l \in {1, 2, 4} /\ DOMAIN S = 1..l
      /\ \A a \in 1..l, b \in 1..l : S[a] = S[b] => a = b
      /\ \A a \in 1..l : S[a] \in Servers
  <2>1. CASE S = <<0>>
    BY <2>1 DEF Servers
  <2>2. CASE S = <<0, 2>>
    BY <2>2 DEF Servers
  <2>3. CASE S = <<1, 3>>
    BY <2>3 DEF Servers
  <2>4. CASE S = <<0, 1, 2, 3>>
    BY <2>4 DEF Servers
  <2>. QED  BY <1>2, <2>1, <2>2, <2>3, <2>4
<1>4. \E q \in DOMAIN S : S[q] = s
  BY DEF Range
<1> HIDE DEF S
<1>5. p \in DOMAIN S /\ S[p] = s
  BY <1>4 DEF Position
<1>. QED  BY <1>3, <1>5 DEF S

(* What is sent, and to whom.                                              *)
LEMMA SentNow ==
  ASSUME Types, NEW k \in Clients, cmd[k].op = "put", NEW s \in Range(cmd[k].servers)
  PROVE  /\ SentTo(k, s) \in Nat
         /\ sent[k] = 0 => SentTo(k, s) = 0
         /\ sent[k] = PerFile(k) * Len(cmd[k].files) => SentTo(k, s) = 4 * Len(cmd[k].files)
         /\ sent[k] =< PerFile(k) * Len(cmd[k].files) => SentTo(k, s) =< 4 * Len(cmd[k].files)
<1> DEFINE l == Len(cmd[k].servers)
           p == Position(cmd[k].servers, s)
           n == sent[k]
           f == Len(cmd[k].files)
<1>1. l \in {1, 2, 4} /\ p \in 1..l
  BY Positions
<1>2. n \in Nat /\ f \in Nat
  BY PutNotEmpty DEF Types, ClientTypes
<1>3. PerFile(k) = 4 * l /\ SentTo(k, s) = SentAmong(l, p, n)
  BY DEF PerFile, SentTo
<1> HIDE DEF l, p, n, f
<1>4. SentAmong(l, p, n) \in Nat
  BY <1>1, <1>2, SentNext
<1>5. /\ SentAmong(l, p, 0) = 0
      /\ SentAmong(l, p, 4 * l * f) = 4 * f
      /\ \A x \in Nat : x < 4 * l * f => SentAmong(l, p, x) =< 4 * f
  BY <1>1, <1>2, SentAll
<1>6. 4 * f \in Nat /\ 4 * l * f \in Nat
  <2>1. CASE l = 1
    BY <1>2, <2>1
  <2>2. CASE l = 2
    BY <1>2, <2>2
  <2>3. CASE l = 4
    BY <1>2, <2>3
  <2>. QED  BY <1>1, <1>2, <2>1, <2>2, <2>3
<1>7. n = 4 * l * f => SentAmong(l, p, n) = 4 * f
  BY <1>5
<1>8. n =< 4 * l * f => SentAmong(l, p, n) =< 4 * f
  <2> DEFINE x == 4 * l * f
  <2>1. x \in Nat /\ (n = x => SentAmong(l, p, n) = 4 * f)
        /\ (n < x => SentAmong(l, p, n) =< 4 * f)
    BY <1>2, <1>5, <1>6
  <2> HIDE DEF x
  <2>2. n =< x => n = x \/ n < x
    BY <1>2, <2>1
  <2>. QED  BY <1>6, <2>1, <2>2 DEF x
<1>. QED  BY <1>3, <1>4, <1>5, <1>7, <1>8 DEF n, f

-----------------------------------------------------------------------------
(* The client sends one message more.                                      *)
LEMMA SentLater ==
  ASSUME IInv, NEW k \in Clients, pc[k] = "put", NEW s \in Range(cmd[k].servers),
         cmd' = cmd, sent'[k] = sent[k] + 1
  PROVE  /\ ServerOf(k) \in Range(cmd[k].servers) /\ cmd[k].op = "put"
         /\ s = ServerOf(k) => SentTo(k, s)' = SentTo(k, s) + 1
         /\ s # ServerOf(k) => SentTo(k, s)' = SentTo(k, s) /\ SentTo(k, s) % 2 = 0
         /\ s = ServerOf(k) =>
              SentTo(k, s) \div 4 = sent[k] \div PerFile(k) /\ SentTo(k, s) % 4 = sent[k] % 4
<1> DEFINE S == cmd[k].servers
           l == Len(S)
           p == Position(S, s)
           n == sent[k]
           o == ((n % (4 * l)) \div 4) + 1
<1>0. Types /\ cmd[k].op = "put"
  BY NextToSend DEF IInv
<1>1. /\ l \in {1, 2, 4} /\ p \in 1..l /\ S[p] = s
      /\ \A q \in 1..l : S[q] = s => q = p
  BY <1>0, Positions
<1>2. n \in Nat
  BY <1>0 DEF Types, ClientTypes
<1>3. PerFile(k) = 4 * l /\ SentTo(k, s) = SentAmong(l, p, n)
      /\ SentTo(k, s)' = SentAmong(l, p, n + 1)
  BY DEF PerFile, SentTo
<1>4. o \in 1..l
  <2>1. CASE l = 1
    BY <1>2, <2>1
  <2>2. CASE l = 2
    BY <1>2, <2>2
  <2>3. CASE l = 4
    BY <1>2, <2>3
  <2>. QED  BY <1>1, <2>1, <2>2, <2>3
<1>5. ServerOf(k) = S[o] /\ o \in DOMAIN S
  <2>1. S \in Seq(Servers)
    BY <1>0, JobIs
  <2>2. ServerOf(k) = S[o]
    BY <1>3 DEF ServerOf
  <2>. QED  BY <1>4, <2>1, <2>2
<1>6. ServerOf(k) \in Range(S)
  BY <1>5 DEF Range
<1> HIDE DEF S, l, p, n
<1>7. s = ServerOf(k) <=> p = o
  <2>1. s = S[o] => p = o
    BY <1>1, <1>4
  <2>2. p = o => s = S[o]
    BY <1>1
  <2> HIDE DEF o
  <2>. QED  BY <1>5, <2>1, <2>2
<1>8. /\ p = o =>
           /\ SentAmong(l, p, n + 1) = SentAmong(l, p, n) + 1
           /\ SentAmong(l, p, n) \div 4 = n \div (4 * l)
           /\ SentAmong(l, p, n) % 4 = n % 4
      /\ p # o =>
           /\ SentAmong(l, p, n + 1) = SentAmong(l, p, n)
           /\ SentAmong(l, p, n) % 2 = 0
  BY <1>1, <1>2, SentNext
<1> HIDE DEF o
<1>. QED  BY <1>0, <1>3, <1>6, <1>7, <1>8 DEF n, S

(* Which one it is.                                                        *)
LEMMA MessageIndices ==
  ASSUME NEW m \in Nat
  PROVE  /\ m % 2 = 0 =>
              /\ (m + 1) % 2 = 1 /\ ((m + 1) + 1) \div 2 \in Nat \ {0}
              /\ ((((m + 1) + 1) \div 2) + 1) \div 2 = (m \div 4) + 1
              /\ ((((m + 1) + 1) \div 2) + 1) % 2 = (m % 4) \div 2
         /\ m % 2 # 0 =>
              /\ (m + 1) % 2 = 0 /\ (m + 1) \div 2 \in Nat \ {0}
              /\ (((m + 1) \div 2) + 1) \div 2 = (m \div 4) + 1
              /\ (((m + 1) \div 2) + 1) % 2 = (m % 4) \div 2
<1> DEFINE q == m \div 4
           x == m % 4
<1>1. q \in Nat /\ x \in 0..3 /\ m = (4 * q) + x
  OBVIOUS
<1> HIDE DEF q, x
<1>2. CASE x = 0
  BY <1>1, <1>2 DEF q, x
<1>3. CASE x = 1
  BY <1>1, <1>3 DEF q, x
<1>4. CASE x = 2
  BY <1>1, <1>4 DEF q, x
<1>5. CASE x = 3
  BY <1>1, <1>5 DEF q, x
<1>. QED  BY <1>1, <1>2, <1>3, <1>4, <1>5

LEMMA MessageNow ==
  ASSUME IInv, NEW k \in Clients, pc[k] = "put", NEW c, NEW m,
         c = Connection(k, ServerOf(k)), m = SentTo(k, ServerOf(k)), m \in Nat,
         m \div 4 = sent[k] \div PerFile(k), m % 4 = sent[k] % 4
  PROVE  /\ sent[k] % 2 = 0 =>
              /\ Message(c, m + 1) = HeaderCells(PutHeader(FileOf(k), k, ChunkOf(k)))
              /\ m % 2 = 0
         /\ sent[k] % 2 # 0 =>
              /\ Message(c, m + 1) = Body(FileOf(k), k, ChunkOf(k))
              /\ m % 2 # 0
              /\ LengthAt(c, (m + 1) \div 2) = ChunkSize(FileOf(k), ChunkOf(k))
<1> DEFINE n == sent[k]
           i == ((m + 1) + 1) \div 2
           j == (m + 1) \div 2
<1>1. n \in Nat /\ (n % 4) % 2 = n % 2 /\ (m % 4) % 2 = m % 2
  <2>1. n \in Nat
    BY DEF IInv, Types, ClientTypes
  <2>. QED  BY <2>1
<1>2. n % 2 = m % 2
  BY <1>1
<1>3. c.job = cmd[k] /\ c.k = k /\ c.s = ServerOf(k)
  BY DEF Connection
<1>4. \A x : (x + 1) \div 2 = (m \div 4) + 1 => NameAt(c, x) = FileOf(k)
  <2>1. FileOf(k) = cmd[k].files[(m \div 4) + 1]
    BY DEF FileOf
  <2>. QED  BY <1>3, <2>1 DEF NameAt
<1>5. \A x : (x + 1) \div 2 = (m \div 4) + 1 /\ (x + 1) % 2 = (m % 4) \div 2
             => PartAt(c, x) = ChunkOf(k)
  <2>1. ChunkOf(k) = Part(FileOf(k), ServerOf(k), (m % 4) \div 2)
    BY DEF ChunkOf
  <2> SUFFICES ASSUME NEW x, (x + 1) \div 2 = (m \div 4) + 1, (x + 1) % 2 = (m % 4) \div 2
               PROVE  PartAt(c, x) = ChunkOf(k)
    OBVIOUS
  <2>2. NameAt(c, x) = FileOf(k)
    BY <1>4
  <2>. QED  BY <1>3, <2>1, <2>2 DEF PartAt
<1>6. CASE m % 2 = 0
  <2>1. /\ (m + 1) % 2 = 1
        /\ (i + 1) \div 2 = (m \div 4) + 1 /\ (i + 1) % 2 = (m % 4) \div 2
    BY <1>6, MessageIndices
  <2>2. Message(c, m + 1) = HeaderCells(HeaderAt(c, i))
    BY <2>1 DEF Message
  <2> HIDE DEF i
  <2>3. NameAt(c, i) = FileOf(k) /\ PartAt(c, i) = ChunkOf(k)
    BY <1>4, <1>5, <2>1
  <2>4. HeaderAt(c, i) = PutHeader(FileOf(k), k, ChunkOf(k))
    BY <1>3, <2>3 DEF HeaderAt
  <2>. QED  BY <1>2, <1>6, <2>2, <2>4
<1>7. CASE m % 2 # 0
  <2>1. /\ (m + 1) % 2 = 0
        /\ (j + 1) \div 2 = (m \div 4) + 1 /\ (j + 1) % 2 = (m % 4) \div 2
    BY <1>7, MessageIndices
  <2>2. Message(c, m + 1) = BodyAt(c, j)
    BY <2>1 DEF Message
  <2>3. NameAt(c, j) = FileOf(k) /\ PartAt(c, j) = ChunkOf(k)
    <3> HIDE DEF j
    <3>. QED  BY <1>4, <1>5, <2>1
  <2>4. BodyAt(c, j) = Body(FileOf(k), k, ChunkOf(k))
    BY <1>3, <2>3 DEF BodyAt
  <2>5. LengthAt(c, j) = ChunkSize(FileOf(k), ChunkOf(k))
    BY <2>3 DEF LengthAt
  <2>. QED  BY <1>2, <1>7, <2>2, <2>4, <2>5
<1>. QED  BY <1>6, <1>7

-----------------------------------------------------------------------------
(* A step of one client: the others' connections are as they were.         *)
LEMMA ClientTrack ==
  ASSUME TrackInv, NEW k \in Clients, QuietClient(k),
         \A s \in Servers : Track(k, s)' /\ (wpc'[k][s] = wpc[k][s] \/ wpc'[k][s] \in {"none", "first"})
  PROVE  TrackInv'
<1>1. ASSUME NEW j \in Clients, NEW s \in Servers PROVE Track(j, s)'
  <2>1. CASE j = k
    BY <2>1
  <2>2. CASE j # k
    <3>1. /\ cmd' = cmd /\ pc'[j] = pc[j] /\ sent'[j] = sent[j] /\ wpc'[j] = wpc[j]
          /\ toServer'[j] = toServer[j] /\ wcmd' = wcmd /\ file' = file /\ disturbed' = disturbed
      BY <2>2 DEF QuietClient, Alone
    <3>2. Track(j, s)
      BY TrackOf
    <3>3. Connection(j, s)' = Connection(j, s) /\ SentTo(j, s)' = SentTo(j, s)
      BY <3>1 DEF Connection, SentTo
    <3>4. Connected(j, s)' <=> Connected(j, s)
      BY <3>1 DEF Connected
    <3>. QED  BY <3>1, <3>2, <3>3, <3>4 DEF Track
  <2>. QED  BY <2>1, <2>2
<1>2. ASSUME NEW j \in Clients, NEW s \in Servers PROVE OpAt(j, s)'
  <2>1. wcmd' = wcmd /\ OpAt(j, s)
    BY TrackOf DEF QuietClient
  <2>2. wpc'[j][s] = wpc[j][s] \/ wpc'[j][s] \in {"none", "first"}
    BY DEF QuietClient, Alone
  <2>. QED  BY <2>1, <2>2 DEF OpAt
<1>. QED  BY <1>1, <1>2 DEF TrackInv

LEMMA ConnectTrack ==
  ASSUME IInv, OriginInv, TrackInv, NEW k \in Clients, Connect(k), QuietClient(k)
  PROVE  TrackInv'
<1>1. /\ pc[k] = "start" /\ cmd' = cmd /\ sent' = sent /\ toServer' = toServer /\ wcmd' = wcmd
      /\ pc' = [pc EXCEPT ![k] = IF cmd[k].op = "put" THEN "put" ELSE "ask"]
      /\ wpc' = [wpc EXCEPT ![k] =
            [s \in Servers |-> IF Contains(cmd[k].servers, s) THEN "first" ELSE "none"]]
  BY DEF Connect, Goto, net
<1>2. Types /\ pc \in [Clients -> Pcs] /\ wpc \in [Clients -> [Servers -> Places]]
  BY DEF IInv, Types, ClientTypes, ServerTypes
<1>3. ASSUME NEW s \in Servers
      PROVE  wpc'[k][s] = IF s \in Range(cmd[k].servers) THEN "first" ELSE "none"
  BY <1>1, <1>2 DEF Contains, Range
<1>4. ASSUME NEW s \in Servers PROVE Track(k, s)'
  <2>1. CASE cmd[k].op # "put"
    BY <1>1, <2>1 DEF Track, Connected
  <2>2. CASE cmd[k].op = "put" /\ s \notin Range(cmd[k].servers)
    BY <1>1, <1>3, <2>2 DEF Track, Connected
  <2>3. CASE cmd[k].op = "put" /\ s \in Range(cmd[k].servers)
    <3> DEFINE c == Connection(k, s)
    <3>1. IsPut(c)
      BY <1>2, <2>3, ConnectionIsPut
    <3>2. sent[k] = 0 /\ toServer[k][s] = <<>>
      BY <1>1 DEF IInv, ConnectionInv, AtClient, AtServer, WorkerAt
    <3>3. SentTo(k, s)' = 0
      <4>1. SentTo(k, s) = 0
        BY <1>2, <2>3, <3>2, SentNow
      <4>. QED  BY <1>1, <4>1 DEF SentTo
    <3>4. Connection(k, s)' = c
      BY <1>1 DEF Connection
    <3>5. pc'[k] = "put" /\ wpc'[k][s] = "first"
      BY <1>1, <1>2, <1>3, <2>3
    <3> HIDE DEF c
    <3>6. Sends(c, "put", 0, "first")
      BY <3>1, SendsStart
    <3>7. Carries(c, <<>>, 0, 0)
      BY CarriesNothing
    <3>8. \A d, f : Holds(c, "put", 0, <<>>, "first", d, f)
      BY <3>7 DEF Holds
    <3>9. toServer'[k][s] = <<>>
      BY <1>1, <3>2
    <3>. QED  BY <1>1, <2>3, <3>3, <3>4, <3>5, <3>6, <3>8, <3>9 DEF Track
  <2>. QED  BY <2>1, <2>2, <2>3
<1>. QED  BY <1>3, <1>4, ClientTrack

LEMMA RefuseTrack ==
  ASSUME IInv, OriginInv, TrackInv, NEW k \in Clients, Refuse(k), QuietClient(k)
  PROVE  TrackInv'
<1>1. /\ pc[k] = "start" /\ cmd' = cmd /\ wpc' = wpc
      /\ pc' = [pc EXCEPT ![k] = "refused"] /\ pc \in [Clients -> Pcs]
  BY DEF Refuse, Goto, ofServer, IInv, Types, ClientTypes
<1>2. ASSUME NEW s \in Servers PROVE Track(k, s)'
  <2>1. pc'[k] = "refused"
    BY <1>1
  <2>2. Track(k, s)
    BY TrackOf
  <2>. QED  BY <1>1, <2>1, <2>2 DEF Track, Connected
<1>. QED  BY <1>1, <1>2, ClientTrack

(* A client whose command is not a put.                                    *)
LEMMA GetTrack ==
  ASSUME TrackInv, NEW k \in Clients, cmd[k].op # "put", wpc' = wpc, QuietClient(k)
  PROVE  TrackInv'
<1>1. cmd' = cmd
  BY DEF QuietClient
<1>2. \A s \in Servers : Track(k, s)'
  BY <1>1 DEF Track, Connected
<1>. QED  BY <1>2, ClientTrack

LEMMA PutSendTrack ==
  ASSUME IInv, OriginInv, TrackInv, NEW k \in Clients, PutSend(k), QuietClient(k)
  PROVE  TrackInv'
<1> DEFINE o == ServerOf(k)
           n == sent[k]
           cells == IF n % 2 = 0 THEN HeaderCells(PutHeader(FileOf(k), k, ChunkOf(k)))
                    ELSE Body(FileOf(k), k, ChunkOf(k))
           all == PerFile(k) * Len(cmd[k].files)
<1>1. /\ pc[k] = "put" /\ cmd' = cmd /\ wpc' = wpc /\ wcmd' = wcmd /\ file' = file
      /\ disturbed' = disturbed
      /\ n % 2 = 0 \/ ChunkSize(FileOf(k), ChunkOf(k)) > 0
      /\ toServer' = [toServer EXCEPT ![k][o] = toServer[k][o] \o cells]
      /\ sent' = [sent EXCEPT ![k] = n + 1]
      /\ \/ pc' = [pc EXCEPT ![k] = IF n + 1 = all THEN "done" ELSE "put"]
         \/ wpc[k][o] = "closed" /\ pc' = [pc EXCEPT ![k] = "killed"]
  BY DEF PutSend, ClientSends, Goto, ServerEnded, ofServer
<1>2. /\ Types /\ pc \in [Clients -> Pcs] /\ sent \in [Clients -> Nat]
      /\ toServer \in [Clients -> [Servers -> Seq(AnyCells)]]
  BY DEF IInv, Types, ClientTypes, ServerTypes
<1>3. /\ cmd[k].op = "put" /\ o \in Servers /\ n \in Nat /\ n < all /\ all \in Nat
      /\ Len(cmd[k].files) \in Nat
  BY <1>1, <1>2, NextToSend, PutNotEmpty
<1>4. /\ sent'[k] = n + 1
      /\ toServer'[k][o] = toServer[k][o] \o cells
      /\ \A s \in Servers : s # o => toServer'[k][s] = toServer[k][s]
  BY <1>1, <1>2, <1>3, Replaced
<1> HIDE DEF cells, o, all
<1> DEFINE q == pc'[k]
<1>5. \/ q = "done" /\ n + 1 = all
      \/ q = "put"
      \/ q = "killed" /\ wpc[k][o] = "closed"
  BY <1>1, <1>2
<1>6. n + 1 =< all
  BY <1>3
<1>7. ASSUME NEW s \in Servers PROVE Track(k, s)'
  <2>1. CASE s \notin Range(cmd[k].servers)
    <3>1. Track(k, s)
      BY TrackOf
    <3>. QED  BY <1>1, <2>1, <3>1 DEF Track, Connected
  <2>2. CASE s \in Range(cmd[k].servers)
    <3> DEFINE c == Connection(k, s)
               m == SentTo(k, s)
               l == SentTo(k, s)'
               w == wpc[k][s]
               stream == toServer[k][s]
    <3>1. /\ IsPut(c) /\ Count(c) = 2 * Len(cmd[k].files) /\ Count(c) \in Nat
      BY <1>2, <1>3, ConnectionIsPut
    <3>2. Connected(k, s)
      BY <1>1, <1>3, <2>2 DEF Connected
    <3>3. /\ Sends(c, "put", m, w)
          /\ ~disturbed[k][s] => Holds(c, "put", m, stream, w, wcmd[k][s], file[s])
      BY <1>1, <3>2, TrackOf DEF Track
    <3>4. /\ o \in Range(cmd[k].servers)
          /\ s = o => l = m + 1
          /\ s # o => l = m /\ m % 2 = 0
          /\ s = o => m \div 4 = n \div PerFile(k) /\ m % 4 = n % 4
      BY <1>1, <1>4, <2>2, SentLater DEF o
    <3>5. /\ m \in Nat
          /\ n + 1 = all => l = 2 * Count(c)
          /\ l =< 2 * Count(c)
      <4>1. m \in Nat
        BY <1>2, <1>3, <2>2, SentNow
      <4> DEFINE a == Len(cmd[k].servers)
                 p == Position(cmd[k].servers, s)
                 f == Len(cmd[k].files)
      <4>2. l = SentAmong(a, p, n + 1) /\ all = 4 * a * f
        BY <1>1, <1>4 DEF SentTo, all, PerFile
      <4>3. a \in {1, 2, 4} /\ p \in 1..a /\ f \in Nat
        BY <1>2, <1>3, <2>2, Positions
      <4> HIDE DEF a, p, f, m, l
      <4>4. /\ SentAmong(a, p, 4 * a * f) = 4 * f
            /\ \A x \in Nat : x < 4 * a * f => SentAmong(a, p, x) =< 4 * f
        BY <4>3, SentAll
      <4>5. n + 1 = all => l = 4 * f
        BY <4>2, <4>4
      <4>6. n + 1 < all => l =< 4 * f
        BY <1>3, <4>2, <4>4
      <4>7. n + 1 = all \/ n + 1 < all
        BY <1>3
      <4>8. 2 * Count(c) = 4 * f
        BY <3>1, <4>3 DEF f
      <4>. QED  BY <4>1, <4>3, <4>5, <4>6, <4>7, <4>8
    <3>6. Connection(k, s)' = c
      BY <1>1 DEF Connection
    <3> HIDE DEF c, m, l, w, stream, q
    <3>7. m \in 0..2 * Count(c) /\ \A i \in 1..Count(c) : 2 * i =< m => LengthAt(c, i) > 0
      BY <3>3 DEF Sends
    <3>8. CASE s = o
      <4>1. /\ n % 2 = 0 => Message(c, m + 1) = cells /\ m % 2 = 0
            /\ n % 2 # 0 => Message(c, m + 1) = cells /\ m % 2 # 0
                            /\ LengthAt(c, (m + 1) \div 2) > 0
        <5>1. /\ c = Connection(k, ServerOf(k)) /\ m = SentTo(k, ServerOf(k)) /\ m \in Nat
              /\ m \div 4 = sent[k] \div PerFile(k) /\ m % 4 = sent[k] % 4
          BY <3>4, <3>5, <3>8 DEF c, m, o
        <5>2. /\ n % 2 = 0 =>
                   /\ Message(c, m + 1) = HeaderCells(PutHeader(FileOf(k), k, ChunkOf(k)))
                   /\ m % 2 = 0
              /\ n % 2 # 0 =>
                   /\ Message(c, m + 1) = Body(FileOf(k), k, ChunkOf(k))
                   /\ m % 2 # 0
                   /\ LengthAt(c, (m + 1) \div 2) = ChunkSize(FileOf(k), ChunkOf(k))
          BY <1>1, <5>1, MessageNow
        <5>. QED  BY <1>1, <5>2 DEF cells
      <4>2. Message(c, m + 1) = cells
        BY <4>1
      <4>3. l = m + 1 /\ m + 1 \in 1..2 * Count(c)
        BY <3>1, <3>4, <3>5, <3>8
      <4>4. toServer'[k][s] = stream \o Message(c, m + 1)
        BY <1>4, <3>8, <4>2 DEF stream
      <4>5. \A i \in 1..Count(c) : 2 * i =< m + 1 => LengthAt(c, i) > 0
        <5> SUFFICES ASSUME NEW i \in 1..Count(c), 2 * i =< m + 1 PROVE LengthAt(c, i) > 0
          OBVIOUS
        <5>1. CASE 2 * i =< m
          BY <3>7, <5>1
        <5>2. CASE ~(2 * i =< m)
          <6>1. i \in Nat
            BY <3>1
          <6>2. 2 * i = m + 1 /\ m % 2 # 0 /\ i = (m + 1) \div 2
            BY <3>5, <5>2, <6>1
          <6>. QED  BY <4>1, <6>2
        <5>. QED  BY <5>1, <5>2
      <4>6. Sends(c, q, m + 1, w)
        <5>1. m + 1 \in 0..2 * Count(c)
          BY <4>3
        <5>2. q = "done" => m + 1 = 2 * Count(c)
          BY <1>5, <3>5, <4>3
        <5>3. q = "killed" => w = "closed"
          BY <1>5, <3>8 DEF w
        <5>. QED  BY <4>5, <5>1, <5>2, <5>3 DEF Sends
      <4>7. ~disturbed[k][s] =>
              Holds(c, q, m + 1, stream \o Message(c, m + 1), w, wcmd[k][s], file[s])
        BY <3>1, <3>3, <3>5, <4>3, SendHolds
      <4>8. wpc'[k][s] = w /\ l = m + 1
        BY <1>1, <4>3 DEF w
      <4>. QED  BY <1>1, <2>2, <3>6, <4>4, <4>6, <4>7, <4>8 DEF Track, l, q
    <3>9. CASE s # o
      <4>1. l = m /\ m % 2 = 0
        BY <3>4, <3>9
      <4>2. toServer'[k][s] = stream
        BY <1>4, <3>9 DEF stream
      <4>3. Sends(c, q, m, w)
        <5>1. q = "done" => m = 2 * Count(c)
          BY <1>5, <3>5, <4>1
        <5>. QED  BY <3>7, <4>1, <5>1 DEF Sends
      <4>4. ~disturbed[k][s] => Holds(c, q, m, stream, w, wcmd[k][s], file[s])
        BY <3>3, StayHolds
      <4>5. wpc'[k][s] = w /\ l = m
        BY <1>1, <4>1 DEF w
      <4>. QED  BY <1>1, <2>2, <3>6, <4>2, <4>3, <4>4, <4>5 DEF Track, l, q
    <3>. QED  BY <3>8, <3>9
  <2>. QED  BY <2>1, <2>2
<1>8. \A s \in Servers : wpc'[k][s] = wpc[k][s]
  BY <1>1
<1>. QED  BY <1>7, <1>8, ClientTrack

LEMMA ClientKeepsTrack ==
  ASSUME IInv, OriginInv, TrackInv, NEW k \in Clients, Client(k)
  PROVE  TrackInv'
<1>1. QuietClient(k)
  BY ClientIsQuiet DEF IInv
<1>2. CASE Connect(k)
  BY <1>1, <1>2, ConnectTrack
<1>3. CASE Refuse(k)
  BY <1>1, <1>3, RefuseTrack
<1>4. CASE PutSend(k)
  BY <1>1, <1>4, PutSendTrack
<1>5. CASE Ask(k) \/ ReceiveHeader(k) \/ ReceiveChunk(k) \/ ReceiveNextHeader(k)
  <2>1. wpc' = wpc /\ pc[k] \in {"ask", "header", "body", "rest", "next"}
    BY <1>5 DEF Ask, ReceiveHeader, ReceiveChunk, ReceiveNextHeader, Goto, ofServer
  <2>2. cmd[k].op = "get"
    BY <2>1 DEF IInv, ConnectionInv, AtClient
  <2>. QED  BY <1>1, <2>1, <2>2, GetTrack
<1>. QED  BY <1>2, <1>3, <1>4, <1>5 DEF Client

-----------------------------------------------------------------------------
(* The chunks of one server of a pair are not those of the other.          *)
LEMMA PartsApart ==
  ASSUME NEW n \in Names, NEW x \in 0..1, NEW y \in 0..1
  PROVE  Part(n, 0, x) # Part(n, 2, y)
<1>1. BucketOf[n] \in 0..3
  BY DfsAssumption
<1>2. \A b \in 0..3 :
        /\ Distro[b + 1][2 * 0 + 0 + 1] \notin {Distro[b + 1][2 * 2 + 0 + 1], Distro[b + 1][2 * 2 + 1 + 1]}
        /\ Distro[b + 1][2 * 0 + 1 + 1] \notin {Distro[b + 1][2 * 2 + 0 + 1], Distro[b + 1][2 * 2 + 1 + 1]}
  <2> SUFFICES ASSUME NEW b \in 0..3
               PROVE  /\ Distro[b + 1][1] \notin {Distro[b + 1][5], Distro[b + 1][6]}
                      /\ Distro[b + 1][2] \notin {Distro[b + 1][5], Distro[b + 1][6]}
    OBVIOUS
  <2>1. CASE b = 0
    BY <2>1 DEF Distro
  <2>2. CASE b = 1
    BY <2>2 DEF Distro
  <2>3. CASE b = 2
    BY <2>3 DEF Distro
  <2>4. CASE b = 3
    BY <2>4 DEF Distro
  <2>. QED  BY <2>1, <2>2, <2>3, <2>4
<1>3. x \in {0, 1} /\ y \in {0, 1}
  OBVIOUS
<1>. QED  BY <1>1, <1>2, <1>3 DEF Part

(* A worker writes no chunk of another client's put.                       *)
LEMMA OtherFiles ==
  ASSUME IInv, OriginInv, TrackInv, NEW k \in Clients, NEW s \in Servers,
         wpc[k][s] \in {"create", "body", "rest"}, NEW j \in Clients, j # k,
         cmd[j].op = "put", NEW i \in 1..Count(Connection(j, s))
  PROVE  IdAt(Connection(j, s), i) # Id(wcmd[k][s])
<1> DEFINE c == Connection(j, s)
           d == wcmd[k][s]
<1>1. IsPut(c) /\ c.k = j /\ c.s = s
  BY ConnectionIsPut DEF IInv
<1>2. d \in Full /\ d.op = "put" /\ d \in Owned(k, s)
  <2>1. d \in Full
    BY DEF IInv, ConnectionInv, AtServer, WorkerAt, PutPlaces
  <2>2. d.op = "put"
    BY TrackOf DEF OpAt
  <2>. QED  BY <2>1, <2>2, OriginOf
<1>3. IdAt(c, i) = <<NameAt(c, i), j, PartAt(c, i)>> /\ NameAt(c, i) \in Names
  BY <1>1, ChunkAt DEF IdAt
<1>4. PartAt(c, i) = Part(NameAt(c, i), s, (i + 1) % 2) /\ (i + 1) % 2 \in 0..1
  BY <1>1 DEF PartAt, IsPut, Count
<1> HIDE DEF c, d
<1>5. CASE cmd[k].op = "put"
  <2>1. d.ver = k
    BY <1>2, <1>5 DEF Owned, Answered
  <2>. QED  BY <1>3, <2>1 DEF Id, c, d
<1>6. CASE cmd[k].op # "put"
  <2>1. s # 0
    BY <1>2, <1>6 DEF Owned, Answered
  <2>2. s = 2 /\ d.chunk \in Parts(d.name, 0)
    BY <1>2, <1>6, <2>1 DEF Owned, Answered
  <2>3. ASSUME d.name = NameAt(c, i) PROVE d.chunk # PartAt(c, i)
    <3> DEFINE n == NameAt(c, i)
               y == (i + 1) % 2
    <3>1. d.chunk = Part(n, 0, 0) \/ d.chunk = Part(n, 0, 1)
      BY <2>2, <2>3 DEF Parts
    <3>2. PartAt(c, i) = Part(n, 2, y) /\ y \in 0..1 /\ n \in Names
      BY <1>3, <1>4, <2>2
    <3> HIDE DEF n, y
    <3>3. 0 \in 0..1 /\ 1 \in 0..1
      OBVIOUS
    <3>. QED  BY <3>1, <3>2, <3>3, PartsApart
  <2>. QED  BY <1>3, <2>3 DEF Id, c, d
<1>. QED  BY <1>5, <1>6

(* What is left to prove of a worker's step.                               *)
LEMMA WorkerTrack ==
  ASSUME IInv, OriginInv, TrackInv, NEW k \in Clients, NEW s \in Servers, Worker(k, s),
         OpAt(k, s)',
         \A r \in Servers : r # s => file'[r] = file[r],
         \A j \in Clients : j # k /\ cmd[j].op = "put" =>
           SameFiles(Connection(j, s), file[s], file'[s]),
         Connected(k, s) /\ ~disturbed'[k][s] =>
           Holds(Connection(k, s), pc[k], SentTo(k, s), toServer'[k][s], wpc'[k][s],
                 wcmd'[k][s], file'[s])
  PROVE  TrackInv'
<1>1. Types /\ Quiet(k, s)
  BY WorkerIsQuiet DEF IInv
<1>2. cmd' = cmd /\ pc' = pc /\ sent' = sent
  BY <1>1 DEF Quiet, ofClient
<1>3. ASSUME NEW j \in Clients, NEW r \in Servers
      PROVE  /\ Connection(j, r)' = Connection(j, r) /\ SentTo(j, r)' = SentTo(j, r)
             /\ (Connected(j, r))' <=> Connected(j, r)
  BY <1>2 DEF Connection, SentTo, Connected
<1>4. wpc[k][s] \notin {"none", "closed"}
  BY DEF Worker
<1>5. ASSUME NEW j \in Clients, NEW r \in Servers PROVE Track(j, r)' /\ OpAt(j, r)'
  <2>1. CASE j = k /\ r = s
    <3>1. Track(k, s)
      BY TrackOf
    <3>2. Connected(k, s) => Sends(Connection(k, s), pc[k], SentTo(k, s), wpc'[k][s])
      BY <1>4, <3>1, SendsOpen DEF Track
    <3>. QED  BY <1>2, <1>3, <1>4, <2>1, <3>1, <3>2 DEF Track
  <2>2. CASE j # k \/ r # s
    <3>1. /\ wpc'[j][r] = wpc[j][r] /\ wcmd'[j][r] = wcmd[j][r]
          /\ toServer'[j][r] = toServer[j][r] /\ disturbed'[j][r] = disturbed[j][r]
      BY <1>1, <2>2 DEF Quiet, Elsewhere
    <3>2. Track(j, r) /\ OpAt(j, r)
      BY TrackOf
    <3>3. Connected(j, r) /\ ~disturbed[j][r] =>
            Holds(Connection(j, r), pc[j], SentTo(j, r), toServer[j][r], wpc[j][r],
                  wcmd[j][r], file'[r])
      <4>1. CASE r # s
        BY <3>2, <4>1 DEF Track
      <4>2. CASE r = s /\ j # k
        <5> SUFFICES ASSUME Connected(j, s), ~disturbed[j][s]
                     PROVE  Holds(Connection(j, s), pc[j], SentTo(j, s), toServer[j][s],
                                  wpc[j][s], wcmd[j][s], file'[s])
          BY <4>2
        <5>1. cmd[j].op = "put"
          BY DEF Connected
        <5>2. IsPut(Connection(j, s)) /\ SameFiles(Connection(j, s), file[s], file'[s])
          BY <1>1, <4>2, <5>1, ConnectionIsPut
        <5>3. Holds(Connection(j, s), pc[j], SentTo(j, s), toServer[j][s],
                    wpc[j][s], wcmd[j][s], file[s])
          BY <3>2, <4>2 DEF Track
        <5>. QED  BY <5>2, <5>3, HoldsSame
      <4>. QED  BY <2>2, <4>1, <4>2
    <3>. QED  BY <1>2, <1>3, <3>1, <3>2, <3>3 DEF Track, OpAt
  <2>. QED  BY <2>1, <2>2
<1>. QED  BY <1>5 DEF TrackInv

(* A step that writes no file.                                             *)
LEMMA ReaderTrack ==
  ASSUME IInv, OriginInv, TrackInv, NEW k \in Clients, NEW s \in Servers, Worker(k, s),
         OpAt(k, s)', file' = file,
         Connected(k, s) /\ ~disturbed'[k][s] =>
           Holds(Connection(k, s), pc[k], SentTo(k, s), toServer'[k][s], wpc'[k][s],
                 wcmd'[k][s], file[s])
  PROVE  TrackInv'
<1>1. \A j \in Clients : SameFiles(Connection(j, s), file[s], file'[s])
  BY DEF SameFiles
<1>. QED  BY <1>1, WorkerTrack

(* What is known of a connection when its worker acts.                     *)
LEMMA AtWork ==
  ASSUME IInv, OriginInv, TrackInv, NEW k \in Clients, NEW s \in Servers, Connected(k, s)
  PROVE  /\ IsPut(Connection(k, s)) /\ cmd[k].op = "put"
         /\ Sends(Connection(k, s), pc[k], SentTo(k, s), wpc[k][s])
         /\ ~disturbed[k][s] =>
              Holds(Connection(k, s), pc[k], SentTo(k, s), toServer[k][s], wpc[k][s],
                    wcmd[k][s], file[s])
         /\ toServer[k][s] \in Seq(Cells)
<1>1. cmd[k].op = "put"
  BY DEF Connected
<1>2. Types /\ PutAt(k, s)
  BY DEF IInv, ConnectionInv, AtServer
<1>3. Track(k, s)
  BY TrackOf
<1>. QED  BY <1>1, <1>2, <1>3, ConnectionIsPut DEF PutAt, Track

-----------------------------------------------------------------------------
(* The steps of a worker, one by one.                                      *)
LEMMA WaitTrack ==
  ASSUME IInv, OriginInv, TrackInv, NEW k \in Clients, NEW s \in Servers, Wait(k, s), Worker(k, s)
  PROVE  TrackInv'
<1>1. UNCHANGED <<file, wpc, wcmd, toServer, disturbed>>
  BY DEF Wait, net
<1>2. OpAt(k, s)'
  BY <1>1, TrackOf DEF OpAt
<1>3. Connected(k, s) /\ ~disturbed[k][s] =>
        Holds(Connection(k, s), pc[k], SentTo(k, s), toServer[k][s], wpc[k][s],
              wcmd[k][s], file[s])
  BY AtWork
<1>. QED  BY <1>1, <1>2, <1>3, ReaderTrack

LEMMA ReceiveFirstTrack ==
  ASSUME IInv, OriginInv, TrackInv, NEW k \in Clients, NEW s \in Servers, ReceiveFirst(k, s),
         Worker(k, s)
  PROVE  TrackInv'
<1> DEFINE n == 2 * HdrLen
           stream == toServer[k][s]
           d == Parsed(wcmd[k][s], Taken(stream, n))
<1>1. /\ wpc[k][s] = "first" /\ ServerReceives(k, s, n)
      /\ wcmd' = [wcmd EXCEPT ![k][s] = d] /\ file' = file
      /\ \/ wcmd'[k][s].op = "put" /\ Step(k, s, "first", "add")
         \/ wcmd'[k][s].op = "get" /\ Step(k, s, "first", "find")
         \/ wcmd'[k][s].op = "" /\ Step(k, s, "first", "closed")
  BY DEF ReceiveFirst
<1>2. Types
  BY DEF IInv
<1>3. wcmd'[k][s] = d
  BY <1>1, <1>2, Tables, Replaced
<1>4. \/ d.op = "put" /\ wpc'[k][s] = "add"
      \/ d.op = "get" /\ wpc'[k][s] = "find"
      \/ d.op = "" /\ wpc'[k][s] = "closed"
  <2> HIDE DEF d
  <2>1. ASSUME NEW m, Step(k, s, "first", m) PROVE wpc'[k][s] = m
    BY <1>2, <2>1, StepTo DEF ReplacedBy
  <2>. QED  BY <1>1, <1>3, <2>1
<1>5. /\ stream # <<>> \/ pc[k] \in {"done", "killed"}
      /\ toServer'[k][s] = Remaining(stream, n)
      /\ ~disturbed'[k][s] => ~disturbed[k][s] /\ ~Crosses(Taken(stream, n))
  BY <1>1, <1>2, ReceivesAt DEF ReplacedBy, ClientEnded
<1>6. OpAt(k, s)'
  BY <1>3, <1>4 DEF OpAt
<1>7. wcmd[k][s] = Blank
  BY <1>1 DEF IInv, ConnectionInv, AtServer, WorkerAt
<1>8. ASSUME Connected(k, s), ~disturbed'[k][s]
      PROVE  Holds(Connection(k, s), pc[k], SentTo(k, s), toServer'[k][s], wpc'[k][s],
                   wcmd'[k][s], file[s])
  <2> DEFINE c == Connection(k, s)
             p == pc[k]
             m == SentTo(k, s)
             f == file[s]
  <2>1. /\ IsPut(c) /\ Sends(c, p, m, "first")
        /\ Holds(c, p, m, stream, "first", wcmd[k][s], f)
    BY <1>1, <1>5, <1>8, AtWork
  <2> HIDE DEF c, p, m, f
  <2>2. Carries(c, stream, 0, m)
    BY <2>1 DEF Holds
  <2>3. d = Parsed(Blank, Taken(stream, n))
    BY <1>7
  <2>4. (stream # <<>> \/ p \in {"done", "killed"}) /\ ~Crosses(Taken(stream, n))
    BY <1>5, <1>8 DEF p
  <2> HIDE DEF d, stream
  <2>5. \/ d.op = "put" /\ Holds(c, p, m, Remaining(stream, n), "add", d, f)
        \/ d.op = "" /\ Holds(c, p, m, Remaining(stream, n), "closed", d, f)
    BY <2>1, <2>2, <2>3, <2>4, FirstHolds
  <2>6. Holds(c, p, m, Remaining(stream, n), wpc'[k][s], d, f)
    BY <1>4, <2>5
  <2>. QED  BY <1>3, <1>5, <2>6 DEF c, p, m, f, stream
<1>. QED  BY <1>1, <1>6, <1>8, ReaderTrack

LEMMA Cleared ==
  ASSUME NEW d \in Full, NEW e, e = [d EXCEPT !.op = ""]
  PROVE  e \in Cmds /\ e.size = d.size /\ e.op # "put"
<1>1. d \in Cmds
  BY FullIsGood DEF Good
<1>2. "" \in Ops
  BY DEF Ops
<1>3. e \in Cmds /\ e.size = d.size /\ e.op = ""
  BY <1>1, <1>2, OpOf
<1>. QED  BY <1>3

LEMMA ReceiveNextTrack ==
  ASSUME IInv, OriginInv, TrackInv, NEW k \in Clients, NEW s \in Servers, ReceiveNext(k, s),
         Worker(k, s)
  PROVE  TrackInv'
<1> DEFINE n == HdrLen
           stream == toServer[k][s]
           old == wcmd[k][s]
           e == [old EXCEPT !.op = ""]
           d == Parsed(e, Taken(stream, n))
<1>1. /\ wpc[k][s] = "next" /\ ServerReceives(k, s, n)
      /\ wcmd' = [wcmd EXCEPT ![k][s] = d] /\ file' = file
      /\ \/ wcmd'[k][s].op = "put" /\ Step(k, s, "next", "add")
         \/ wcmd'[k][s].op # "put" /\ Step(k, s, "next", "closed")
  BY DEF ReceiveNext
<1>2. Types
  BY DEF IInv
<1>3. wcmd'[k][s] = d
  BY <1>1, <1>2, Tables, Replaced
<1>4. old \in Full
  BY <1>1 DEF IInv, ConnectionInv, AtServer, WorkerAt, PutPlaces
<1>5. e \in Cmds /\ e.size = old.size /\ e.op # "put"
  BY <1>4, Cleared
<1> HIDE DEF e
<1>6. \/ d.op = "put" /\ wpc'[k][s] = "add"
      \/ d.op # "put" /\ wpc'[k][s] = "closed"
  <2> HIDE DEF d
  <2>1. ASSUME NEW m, Step(k, s, "next", m) PROVE wpc'[k][s] = m
    BY <1>2, <2>1, StepTo DEF ReplacedBy
  <2>. QED  BY <1>1, <1>3, <2>1
<1>7. /\ stream # <<>> \/ pc[k] \in {"done", "killed"}
      /\ toServer'[k][s] = Remaining(stream, n)
      /\ ~disturbed'[k][s] => ~disturbed[k][s] /\ ~Crosses(Taken(stream, n))
  BY <1>1, <1>2, ReceivesAt DEF ReplacedBy, ClientEnded
<1>8. OpAt(k, s)'
  BY <1>3, <1>6 DEF OpAt
<1>9. ASSUME Connected(k, s), ~disturbed'[k][s]
      PROVE  Holds(Connection(k, s), pc[k], SentTo(k, s), toServer'[k][s], wpc'[k][s],
                   wcmd'[k][s], file[s])
  <2> DEFINE c == Connection(k, s)
             p == pc[k]
             m == SentTo(k, s)
             f == file[s]
  <2>1. /\ IsPut(c) /\ Sends(c, p, m, "next") /\ stream \in Seq(Cells)
        /\ Holds(c, p, m, stream, "next", old, f)
    BY <1>1, <1>7, <1>9, AtWork
  <2>2. (stream # <<>> \/ p \in {"done", "killed"}) /\ ~Crosses(Taken(stream, n))
    BY <1>7, <1>9
  <2> HIDE DEF c, p, m, f, stream, old
  <2>3. \/ d.op = "put" /\ Holds(c, p, m, Remaining(stream, HdrLen), "add", d, f)
        \/ d.op = e.op /\ Holds(c, p, m, Remaining(stream, HdrLen), "closed", d, f)
    BY <1>4, <1>5, <2>1, <2>2, NextHolds
  <2>4. Holds(c, p, m, Remaining(stream, n), wpc'[k][s], d, f)
    BY <1>5, <1>6, <2>3
  <2>. QED  BY <1>3, <1>7, <2>4 DEF c, p, m, f, stream
<1>. QED  BY <1>1, <1>8, <1>9, ReaderTrack

LEMMA AddNodeTrack ==
  ASSUME IInv, OriginInv, TrackInv, NEW k \in Clients, NEW s \in Servers, AddNode(k, s),
         Worker(k, s)
  PROVE  TrackInv'
<1>1. Step(k, s, "add", "create") /\ UNCHANGED <<file, wcmd, toServer, disturbed>>
  BY DEF AddNode, net
<1>2. wpc[k][s] = "add" /\ wpc'[k][s] = "create"
  BY <1>1, StepTo DEF IInv, ReplacedBy
<1>3. OpAt(k, s)'
  BY <1>1, <1>2, TrackOf DEF OpAt
<1>4. Connected(k, s) /\ ~disturbed[k][s] =>
        Holds(Connection(k, s), pc[k], SentTo(k, s), toServer[k][s], "create",
              wcmd[k][s], file[s])
  BY <1>2, AtWork, AddHolds
<1>. QED  BY <1>1, <1>2, <1>3, <1>4, ReaderTrack

LEMMA CreateChunkTrack ==
  ASSUME IInv, OriginInv, TrackInv, NEW k \in Clients, NEW s \in Servers, CreateChunk(k, s),
         Worker(k, s)
  PROVE  TrackInv'
<1> DEFINE id == Id(wcmd[k][s])
           f == file[s]
           g == [x \in DOMAIN f \cup {id} |-> IF x = id THEN <<>> ELSE f[x]]
<1>1. /\ Step(k, s, "create", "body") /\ UNCHANGED <<wcmd, toServer, disturbed>>
      /\ file' = [file EXCEPT ![s] = g]
  BY DEF CreateChunk, net
<1>2. wpc[k][s] = "create" /\ wpc'[k][s] = "body"
  BY <1>1, StepTo DEF IInv, ReplacedBy
<1>3. OpAt(k, s)'
  BY <1>1, <1>2, TrackOf DEF OpAt
<1>4. file'[s] = g /\ \A r \in Servers : r # s => file'[r] = file[r]
  <2>1. file \in [Servers -> Contents]
    BY DEF IInv, Types, ServerTypes
  <2>. QED  BY <1>1, <2>1
<1>5. \A x \in DOMAIN f : x # id => x \in DOMAIN g /\ g[x] = f[x]
  OBVIOUS
<1> HIDE DEF g
<1>6. \A j \in Clients : j # k /\ cmd[j].op = "put" => SameFiles(Connection(j, s), f, file'[s])
  BY <1>2, <1>4, <1>5, OtherFiles DEF SameFiles
<1>7. ASSUME Connected(k, s), ~disturbed'[k][s]
      PROVE  Holds(Connection(k, s), pc[k], SentTo(k, s), toServer'[k][s], wpc'[k][s],
                   wcmd'[k][s], file'[s])
  <2>1. /\ IsPut(Connection(k, s))
        /\ Holds(Connection(k, s), pc[k], SentTo(k, s), toServer[k][s], "create", wcmd[k][s], f)
    BY <1>1, <1>2, <1>7, AtWork
  <2>2. Holds(Connection(k, s), pc[k], SentTo(k, s), toServer[k][s], "body", wcmd[k][s], g)
    BY <1>5, <2>1, CreateHolds
  <2>. QED  BY <1>1, <1>2, <1>4, <2>2
<1>. QED  BY <1>3, <1>4, <1>6, <1>7, WorkerTrack

LEMMA ReceiveBodyTrack ==
  ASSUME IInv, OriginInv, TrackInv, NEW k \in Clients, NEW s \in Servers, ReceiveBody(k, s),
         Worker(k, s)
  PROVE  TrackInv'
<1> DEFINE stream == toServer[k][s]
           d == wcmd[k][s]
           id == Id(d)
           f == file[s]
           n == Value(d.size) - Len(f[id])
           data == Taken(stream, n)
           g == [f EXCEPT ![id] = f[id] \o data]
<1>1. /\ wpc[k][s] \in {"body", "rest"} /\ ServerReceives(k, s, n)
      /\ file' = [file EXCEPT ![s][id] = f[id] \o data] /\ wcmd' = wcmd
      /\ \/ data # <<>> /\ Step(k, s, "body", "rest")
         \/ data = <<>> /\ Step(k, s, "body", "next")
         \/ Step(k, s, "rest", "next")
  BY DEF ReceiveBody
<1>2. Types
  BY DEF IInv
<1>3. \/ wpc[k][s] = "body" /\ data # <<>> /\ wpc'[k][s] = "rest"
      \/ wpc[k][s] = "body" /\ data = <<>> /\ wpc'[k][s] = "next"
      \/ wpc[k][s] = "rest" /\ wpc'[k][s] = "next"
  BY <1>1, <1>2, StepTo DEF ReplacedBy
<1>4. /\ stream # <<>> \/ pc[k] \in {"done", "killed"}
      /\ toServer'[k][s] = Remaining(stream, n)
      /\ ~disturbed'[k][s] => ~disturbed[k][s] /\ ~Crosses(data)
  BY <1>1, <1>2, ReceivesAt DEF ReplacedBy, ClientEnded
<1>5. OpAt(k, s)'
  BY <1>1, <1>3, TrackOf DEF OpAt
<1>6. file \in [Servers -> Contents] /\ f \in Contents
  BY <1>2 DEF Types, ServerTypes
<1>7. id \in DOMAIN f /\ (wpc[k][s] = "body" => f[id] = <<>>)
  BY <1>1 DEF IInv, FileInv, FileAt
<1>8. file'[s] = g /\ \A r \in Servers : r # s => file'[r] = file[r]
  <2> HIDE DEF data, id
  <2>. QED  BY <1>1, <1>6
<1>9. \A x \in DOMAIN f : x # id => x \in DOMAIN g /\ g[x] = f[x]
  OBVIOUS
<1>10. \A j \in Clients : j # k /\ cmd[j].op = "put" => SameFiles(Connection(j, s), f, file'[s])
  <2> HIDE DEF g
  <2>. QED  BY <1>1, <1>8, <1>9, OtherFiles DEF SameFiles
<1>11. ASSUME Connected(k, s), ~disturbed'[k][s]
       PROVE  Holds(Connection(k, s), pc[k], SentTo(k, s), toServer'[k][s], wpc'[k][s],
                    wcmd'[k][s], file'[s])
  <2> DEFINE c == Connection(k, s)
             p == pc[k]
             m == SentTo(k, s)
             w == wpc[k][s]
  <2>1. /\ IsPut(c) /\ Sends(c, p, m, w) /\ Holds(c, p, m, stream, w, d, f)
    BY <1>4, <1>11, AtWork
  <2>2. (stream # <<>> \/ p \in {"done", "killed"}) /\ ~Crosses(Taken(stream, n))
    BY <1>4, <1>11
  <2> HIDE DEF c, p, m, stream, d, f
  <2>3. /\ n = Value(d.size) - Len(f[Id(d)]) /\ Id(d) \in DOMAIN f
        /\ g = [f EXCEPT ![Id(d)] = f[Id(d)] \o Taken(stream, n)]
        /\ w = "body" => f[Id(d)] = <<>>
    BY <1>7
  <2> HIDE DEF n, g
  <2>4. CASE w = "body"
    <3>1. Taken(stream, n) # <<>> /\ Holds(c, p, m, Remaining(stream, n), "rest", d, g)
      BY <1>6, <2>1, <2>2, <2>3, <2>4, BodyHolds
    <3>2. wpc'[k][s] = "rest"
      BY <1>3, <2>4, <3>1
    <3>. QED  BY <1>1, <1>4, <1>8, <3>1, <3>2 DEF c, p, m, d
  <2>5. CASE w = "rest"
    <3>1. Holds(c, p, m, Remaining(stream, n), "next", d, g)
      BY <1>6, <2>1, <2>2, <2>3, <2>5, RestHolds
    <3>2. wpc'[k][s] = "next"
      BY <1>3, <2>5
    <3>. QED  BY <1>1, <1>4, <1>8, <3>1, <3>2 DEF c, p, m, d
  <2>. QED  BY <1>1, <2>4, <2>5
<1>. QED  BY <1>5, <1>8, <1>10, <1>11, WorkerTrack

-----------------------------------------------------------------------------
(* Where a get is answered nothing is put.                                 *)
LEMMA AnswerTrack ==
  ASSUME IInv, OriginInv, TrackInv, NEW k \in Clients, NEW s \in Servers, Worker(k, s),
         wpc[k][s] \in {"find", "send", "sendbody"}, file' = file,
         wpc'[k][s] \in {"closed", "send", "sendbody"}
  PROVE  TrackInv'
<1>1. cmd[k].op # "put"
  BY AnsweredOnly DEF Answered
<1>2. ~Connected(k, s) /\ OpAt(k, s)'
  BY <1>1 DEF Connected, OpAt
<1>. QED  BY <1>2, ReaderTrack

LEMMA WorkerKeepsTrack ==
  ASSUME IInv, OriginInv, TrackInv, NEW k \in Clients, NEW s \in Servers, Worker(k, s)
  PROVE  TrackInv'
<1>1. CASE Find(k, s)
  <2>1. wpc[k][s] = "find" /\ file' = file
        /\ (Step(k, s, "find", "send") \/ Step(k, s, "find", "closed"))
    BY <1>1 DEF Find
  <2>2. wpc'[k][s] \in {"closed", "send"}
    BY <2>1, StepTo DEF IInv, ReplacedBy
  <2>. QED  BY <2>1, <2>2, AnswerTrack
<1>2. CASE SendHeader(k, s)
  <2>1. wpc[k][s] = "send" /\ file' = file
        /\ (Step(k, s, "send", "sendbody") \/ Step(k, s, "send", "send")
            \/ Step(k, s, "send", "closed"))
    BY <1>2 DEF SendHeader, NodeSent
  <2>2. wpc'[k][s] \in {"closed", "send", "sendbody"}
    BY <2>1, StepTo DEF IInv, ReplacedBy
  <2>. QED  BY <2>1, <2>2, AnswerTrack
<1>3. CASE SendBody(k, s)
  <2>1. wpc[k][s] = "sendbody" /\ file' = file
        /\ (Step(k, s, "sendbody", "send") \/ Step(k, s, "sendbody", "closed"))
    BY <1>3 DEF SendBody, NodeSent
  <2>2. wpc'[k][s] \in {"closed", "send"}
    BY <2>1, StepTo DEF IInv, ReplacedBy
  <2>. QED  BY <2>1, <2>2, AnswerTrack
<1>. QED  BY <1>1, <1>2, <1>3, WaitTrack, ReceiveFirstTrack, ReceiveNextTrack, AddNodeTrack,
             CreateChunkTrack, ReceiveBodyTrack DEF Worker

(* Workers that end with their server.                                     *)
LEMMA EndingTrack ==
  ASSUME IInv, TrackInv, UNCHANGED <<cmd, pc, sent, file, wcmd, toServer>>,
         \A k \in Clients, s \in Servers :
           \/ wpc'[k][s] = wpc[k][s] /\ (disturbed'[k][s] <=> disturbed[k][s])
           \/ wpc[k][s] # "none" /\ wpc'[k][s] = "closed" /\ disturbed'[k][s]
  PROVE  TrackInv'
<1>1. ASSUME NEW k \in Clients, NEW s \in Servers PROVE Track(k, s)' /\ OpAt(k, s)'
  <2>1. /\ Connection(k, s)' = Connection(k, s) /\ SentTo(k, s)' = SentTo(k, s)
        /\ (Connected(k, s))' <=> Connected(k, s)
    BY DEF Connection, SentTo, Connected
  <2>2. Track(k, s) /\ OpAt(k, s)
    BY TrackOf
  <2>3. CASE wpc'[k][s] = wpc[k][s] /\ (disturbed'[k][s] <=> disturbed[k][s])
    BY <2>1, <2>2, <2>3 DEF Track, OpAt
  <2>4. CASE wpc[k][s] # "none" /\ wpc'[k][s] = "closed" /\ disturbed'[k][s]
    <3>1. Connected(k, s) => Sends(Connection(k, s), pc[k], SentTo(k, s), "closed")
      BY <2>2 DEF Track, Sends
    <3>. QED  BY <2>1, <2>2, <2>4, <3>1 DEF Track, OpAt
  <2>. QED  BY <2>3, <2>4
<1>. QED  BY <1>1 DEF TrackInv

LEMMA DieKeepsTrack ==
  ASSUME IInv, OriginInv, TrackInv, NEW k \in Clients, NEW s \in Servers, Die(k, s)
  PROVE  TrackInv'
<1>1. /\ UNCHANGED <<cmd, pc, sent, file, wcmd, toServer>>
      /\ wpc' = [j \in Clients |-> [wpc[j] EXCEPT ![s] = IF @ = "none" THEN @ ELSE "closed"]]
      /\ disturbed' = [j \in Clients |->
           [disturbed[j] EXCEPT ![s] = @ \/ wpc[j][s] \notin {"none", "closed"}]]
  BY DEF Die, ofClient
<1>2. wpc \in [Clients -> [Servers -> Places]] /\ disturbed \in [Clients -> [Servers -> BOOLEAN]]
  BY Tables DEF IInv
<1>3. ASSUME NEW j \in Clients, NEW r \in Servers
      PROVE  \/ wpc'[j][r] = wpc[j][r] /\ (disturbed'[j][r] <=> disturbed[j][r])
             \/ wpc[j][r] # "none" /\ wpc'[j][r] = "closed" /\ disturbed'[j][r]
  <2>1. wpc[j] \in [Servers -> Places] /\ disturbed[j] \in [Servers -> BOOLEAN]
    BY <1>2
  <2>2. /\ wpc'[j] = [wpc[j] EXCEPT ![s] = IF wpc[j][s] = "none" THEN wpc[j][s] ELSE "closed"]
        /\ disturbed'[j] =
             [disturbed[j] EXCEPT ![s] = disturbed[j][s] \/ wpc[j][s] \notin {"none", "closed"}]
    BY <1>1
  <2>3. CASE r # s
    <3>1. wpc'[j][r] = wpc[j][r]
      BY <2>1, <2>2, <2>3
    <3>2. disturbed'[j][r] = disturbed[j][r]
      BY <2>1, <2>2, <2>3
    <3>. QED  BY <3>1, <3>2
  <2>4. CASE r = s
    <3>1. wpc'[j][s] = IF wpc[j][s] = "none" THEN wpc[j][s] ELSE "closed"
      BY <2>1, <2>2
    <3>2. disturbed'[j][s] = (disturbed[j][s] \/ wpc[j][s] \notin {"none", "closed"})
      BY <2>1, <2>2
    <3>3. CASE wpc[j][s] \in {"none", "closed"}
      <4>1. wpc'[j][s] = wpc[j][s]
        BY <3>1, <3>3
      <4>2. disturbed'[j][s] <=> disturbed[j][s]
        BY <3>2, <3>3, Zenon
      <4>. QED  BY <2>4, <4>1, <4>2
    <3>4. CASE wpc[j][s] \notin {"none", "closed"}
      <4>1. wpc[j][s] # "none" /\ wpc'[j][s] = "closed"
        BY <3>1, <3>4
      <4>2. disturbed'[j][s]
        BY <3>2, <3>4, Zenon
      <4>. QED  BY <2>4, <4>1, <4>2
    <3>. QED  BY <3>3, <3>4
  <2>. QED  BY <2>3, <2>4
<1>. QED  BY <1>1, <1>3, EndingTrack

LEMMA NextKeepsTrack ==
  ASSUME IInv, OriginInv, TrackInv, [Next]_vars
  PROVE  TrackInv'
<1>1. CASE \E k \in Clients : Client(k)
  BY <1>1, ClientKeepsTrack
<1>2. CASE \E k \in Clients, s \in Servers : Worker(k, s)
  BY <1>2, WorkerKeepsTrack
<1>3. CASE \E k \in Clients, s \in Servers : Die(k, s)
  BY <1>3, DieKeepsTrack
<1>4. CASE (\E s \in Servers : Stop(s) \/ StartAgain(s)) \/ UNCHANGED vars
  <2>1. /\ UNCHANGED <<cmd, pc, sent, file, wcmd, toServer>>
        /\ wpc' = wpc /\ disturbed' = disturbed
    BY <1>4 DEF Stop, StartAgain, vars, ofClient, ofServer, net
  <2>. QED  BY <2>1, EndingTrack
<1>. QED  BY <1>1, <1>2, <1>3, <1>4 DEF Next, SendNothing, Terminating

LEMMA InitTrack ==
  ASSUME Init
  PROVE  TrackInv
<1>1. ASSUME NEW k \in Clients, NEW s \in Servers PROVE Track(k, s) /\ OpAt(k, s)
  <2>1. wpc[k][s] = "none"
    BY DEF Init
  <2>2. pc[k] = IF cmd[k].op = "none" THEN "done" ELSE "start"
    BY DEF Init
  <2>3. ~Connected(k, s)
    BY <2>2 DEF Connected
  <2>. QED  BY <2>1, <2>3 DEF Track, OpAt
<1>. QED  BY <1>1 DEF TrackInv

-----------------------------------------------------------------------------
(* The chunks of a put as the properties number them.                      *)
LEMMA ChunksForIs ==
  ASSUME Types, NEW k \in Clients, cmd[k].op = "put", NEW s \in Servers
  PROVE  LET c == Connection(k, s) IN
         /\ DOMAIN ChunksFor(k, s) = 1..Count(c) /\ Len(ChunksFor(k, s)) = Count(c)
         /\ \A i \in 1..Count(c) : ChunksFor(k, s)[i] = <<NameAt(c, i), PartAt(c, i)>>
<1> DEFINE c == Connection(k, s)
           f == cmd[k].files
           n == Len(f)
           all == [i \in 1..Count(c) |-> <<NameAt(c, i), PartAt(c, i)>>]
           parts == [i \in DOMAIN f |-> <<<<f[i], Part(f[i], s, 0)>>, <<f[i], Part(f[i], s, 1)>>>>]
           cut == [i \in 0..n |-> 2 * i]
<1>1. /\ IsPut(c) /\ Count(c) = 2 * n /\ n \in Nat \ {0} /\ f \in Seq(Names)
      /\ c.job.files = f /\ c.s = s
  BY ConnectionIsPut, JobIs
<1>2. DOMAIN f = 1..n /\ Len(parts) = n /\ DOMAIN parts = 1..n
  BY <1>1
<1>3. ASSUME NEW i \in 1..n
      PROVE  parts[i] = Piece(all, 2 * (i - 1), 2)
  <2> DEFINE a == (2 * (i - 1)) + 1
             b == (2 * (i - 1)) + 2
  <2>1. /\ a \in 1..Count(c) /\ b \in 1..Count(c)
        /\ (a + 1) \div 2 = i /\ (b + 1) \div 2 = i /\ (a + 1) % 2 = 0 /\ (b + 1) % 2 = 1
    BY <1>1
  <2>2. /\ all[a] = <<NameAt(c, a), PartAt(c, a)>>
        /\ all[b] = <<NameAt(c, b), PartAt(c, b)>>
    BY <2>1
  <2> HIDE DEF all
  <2>3. Piece(all, 2 * (i - 1), 2) = <<all[a], all[b]>>
    <3> DEFINE p == Piece(all, 2 * (i - 1), 2)
               e == <<all[a], all[b]>>
               T == {all[a], all[b]}
    <3>1. p = [j \in 1..2 |-> all[(2 * (i - 1)) + j]]
      BY DEF Piece
    <3>2. 1..2 = {1, 2}
      OBVIOUS
    <3>3. p[1] = all[a] /\ p[2] = all[b]
      BY <3>1, <3>2
    <3>4. e = [j \in 1..2 |-> e[j]] /\ e[1] = all[a] /\ e[2] = all[b]
      OBVIOUS
    <3> HIDE DEF p, e
    <3>5. \A j \in 1..2 : p[j] = e[j]
      BY <3>2, <3>3, <3>4
    <3>6. p = [j \in 1..2 |-> p[j]]
      BY <3>1
    <3>. QED  BY <3>4, <3>5, <3>6 DEF p, e
  <2> HIDE DEF a, b
  <2>4. /\ NameAt(c, a) = f[i] /\ NameAt(c, b) = f[i]
        /\ PartAt(c, a) = Part(f[i], s, 0) /\ PartAt(c, b) = Part(f[i], s, 1)
    <3>1. NameAt(c, a) = f[i] /\ NameAt(c, b) = f[i]
      BY <1>1, <2>1 DEF NameAt
    <3>. QED  BY <1>1, <2>1, <3>1 DEF PartAt
  <2>5. parts[i] = <<<<f[i], Part(f[i], s, 0)>>, <<f[i], Part(f[i], s, 1)>>>>
    BY <1>2
  <2>. QED  BY <2>2, <2>3, <2>4, <2>5
<1>4. ChunksFor(k, s) = FlattenSeq(parts)
  BY DEF ChunksFor
<1> HIDE DEF parts, all, f, n, c
<1>5. CutInto(all, cut, parts)
  <2>1. cut[0] = 0 /\ \A i \in 0..n : cut[i] \in Nat
    BY <1>1
  <2>2. ASSUME NEW i \in 1..n
        PROVE  cut[i - 1] =< cut[i] /\ parts[i] = Piece(all, cut[i - 1], cut[i] - cut[i - 1])
    <3>1. cut[i - 1] = 2 * (i - 1) /\ cut[i] = 2 * i /\ (2 * i) - (2 * (i - 1)) = 2
      BY <1>1
    <3> HIDE DEF cut
    <3>. QED  BY <1>3, <3>1
  <2> HIDE DEF cut
  <2>. QED  BY <1>2, <2>1, <2>2 DEF CutInto
<1>6. FlattenSeq(parts) = Piece(all, 0, 2 * n)
  <2>1. cut[n] = 2 * n
    BY <1>1
  <2> HIDE DEF cut
  <2>. QED  BY <1>1, <1>2, <1>5, <2>1, CutUp
<1>7. /\ DOMAIN Piece(all, 0, 2 * n) = 1..2 * n
      /\ \A i \in 1..2 * n : Piece(all, 0, 2 * n)[i] = all[i]
  BY <1>1 DEF Piece
<1>8. Len(Piece(all, 0, 2 * n)) = 2 * n
  <2>1. 2 * n \in Nat
    BY <1>1
  <2>. QED  BY <2>1 DEF Piece
<1>9. \A i \in 1..Count(c) : all[i] = <<NameAt(c, i), PartAt(c, i)>>
  BY DEF all
<1>. QED  BY <1>1, <1>4, <1>6, <1>7, <1>8, <1>9 DEF c

LEMMA MisreadIs ==
  ASSUME Types, NEW k \in Clients, cmd[k].op = "put", NEW s \in Servers,
         NEW i \in 1..Count(Connection(k, s))
  PROVE  Misread(k, s, i) <=> Inapt(Connection(k, s), i)
<1> DEFINE c == Connection(k, s)
           digits(j) == Len(Digits(ChunkSize(ChunksFor(k, s)[j][1], ChunksFor(k, s)[j][2])))
<1>1. /\ Len(ChunksFor(k, s)) = Count(c)
      /\ \A j \in 1..Count(c) : ChunksFor(k, s)[j] = <<NameAt(c, j), PartAt(c, j)>>
  BY ChunksForIs
<1>2. IsPut(c)
  BY ConnectionIsPut
<1>3. Misread(k, s, i) <=> i < Count(c) /\ \E j \in 1..i - 1 : digits(j) > digits(i)
  BY <1>1 DEF Misread
<1> HIDE DEF c
<1>4. ASSUME NEW j \in 1..Count(c) PROVE digits(j) = IF Wide(c, j) THEN 2 ELSE 1
  <2>1. digits(j) = Len(Digits(LengthAt(c, j)))
    BY <1>1 DEF LengthAt
  <2>2. /\ Wide(c, j) => Len(Digits(LengthAt(c, j))) = 2
        /\ ~Wide(c, j) => Digits(LengthAt(c, j)) = <<LengthAt(c, j)>>
    BY <1>2, DigitsAt
  <2>. QED  BY <2>1, <2>2
<1> HIDE DEF digits
<1>5. i \in 1..Count(c) /\ \A j \in 1..i : j \in 1..Count(c) /\ (j = i \/ j \in 1..i - 1)
  BY <1>2 DEF IsPut, Count, c
<1>6. \A j \in 1..i - 1 : j \in 1..i
  BY <1>5
<1>7. (\E j \in 1..i - 1 : digits(j) > digits(i)) <=> ~Apt(c, i)
  <2>1. CASE Wide(c, i)
    <3>1. digits(i) = 2 /\ \A j \in 1..i - 1 : digits(j) = 1 \/ digits(j) = 2
      BY <1>4, <1>5, <1>6, <2>1
    <3>. QED  BY <2>1, <3>1 DEF Apt
  <2>2. CASE ~Wide(c, i)
    <3>1. digits(i) = 1 /\ \A j \in 1..i - 1 : digits(j) = IF Wide(c, j) THEN 2 ELSE 1
      BY <1>4, <1>5, <1>6, <2>2
    <3>2. (\E j \in 1..i - 1 : digits(j) > digits(i)) <=> \E j \in 1..i - 1 : Wide(c, j)
      BY <3>1
    <3>3. Long(c, i) <=> \E j \in 1..i - 1 : Wide(c, j)
      BY <1>5, <1>6, <2>2 DEF Long
    <3>. QED  BY <2>2, <3>2, <3>3 DEF Apt
  <2>. QED  BY <2>1, <2>2
<1>. QED  BY <1>3, <1>7 DEF Inapt, c

(* What is kept when a put is done.                                        *)
LEMMA DoneKeeps ==
  ASSUME Types, OriginInv, TrackInv, NEW k \in Clients, NEW s \in Servers, PutDone(k, s)
  PROVE  LET c == Connection(k, s) IN
         /\ IsPut(c) /\ cmd[k].op = "put"
         /\ \E i \in 0..Count(c) :
              Kept(c, file[s], i) /\ (i = Count(c) \/ (i > 0 /\ Inapt(c, i)))
<1> DEFINE c == Connection(k, s)
<1>1. cmd[k].op = "put" /\ pc[k] = "done" /\ wpc[k][s] = "closed" /\ ~disturbed[k][s]
  BY DEF PutDone, ServerEnded
<1>2. IsPut(c)
  BY <1>1, ConnectionIsPut
<1>3. Track(k, s)
  BY TrackOf
<1>4. Connected(k, s)
  BY <1>1, <1>3 DEF Connected, Track
<1>5. Holds(c, "done", SentTo(k, s), toServer[k][s], "closed", wcmd[k][s], file[s])
  BY <1>1, <1>3, <1>4 DEF Track
<1> HIDE DEF c
<1>6. \E i \in 0..Count(c) : Closes(c, "done", file[s], i)
  BY <1>5 DEF Holds
<1>. QED  BY <1>1, <1>2, <1>6 DEF Closes, c

LEMMA ExactChunks ==
  ASSUME Types, OriginInv, TrackInv
  PROVE  ChunksExact
<1> SUFFICES ASSUME NEW k \in Clients, NEW s \in Servers, PutDone(k, s),
                    NEW x \in DOMAIN ChunksFor(k, s), \A j \in 1..x : ~Misread(k, s, j)
             PROVE  LET n == ChunksFor(k, s)[x][1]
                        c == ChunksFor(k, s)[x][2]
                    IN <<n, k, c>> \in DOMAIN file[s] /\ file[s][<<n, k, c>>] = Body(n, k, c)
  BY DEF ChunksExact
<1> DEFINE c == Connection(k, s)
           f == file[s]
<1>1. /\ IsPut(c) /\ cmd[k].op = "put"
      /\ \E i \in 0..Count(c) : Kept(c, f, i) /\ (i = Count(c) \/ (i > 0 /\ Inapt(c, i)))
  BY DoneKeeps
<1>2. x \in 1..Count(c) /\ ChunksFor(k, s)[x] = <<NameAt(c, x), PartAt(c, x)>>
  BY <1>1, ChunksForIs
<1>3. Count(c) \in Nat /\ \A j \in 1..x : j \in 1..Count(c)
  BY <1>1, <1>2 DEF IsPut, Count
<1>4. \A j \in 1..x : ~Inapt(c, j)
  BY <1>1, <1>3, MisreadIs
<1>5. c.k = k
  BY DEF Connection
<1> HIDE DEF c, f
<1>6. PICK i \in 0..Count(c) : Kept(c, f, i) /\ (i = Count(c) \/ (i > 0 /\ Inapt(c, i)))
  BY <1>1
<1>7. x =< i
  <2> SUFFICES ASSUME ~(x =< i) PROVE FALSE
    OBVIOUS
  <2>1. i \in 1..x /\ Inapt(c, i)
    BY <1>2, <1>3, <1>6
  <2>. QED  BY <1>4, <2>1
<1>8. x \in 1..i /\ x \in 1..x /\ \A j \in 1..x - 1 : j \in 1..x
  BY <1>2, <1>3, <1>7
<1>9. Clean(c, x - 1)
  BY <1>4, <1>8 DEF Clean
<1>10. IdAt(c, x) \in DOMAIN f /\ f[IdAt(c, x)] = BodyAt(c, x)
  BY <1>4, <1>6, <1>8, <1>9 DEF Kept
<1>. QED  BY <1>2, <1>5, <1>10 DEF IdAt, BodyAt, f

-----------------------------------------------------------------------------
(* Every byte of a file is in one of its chunks, and each chunk is for one *)
(* server of a pair.                                                       *)
LEMMA ByteAt ==
  ASSUME NEW n \in Names, NEW v, NEW b \in 1..Size[n]
  PROVE  \E c \in Chunks : \E x \in 1..ChunkSize(n, c) : Body(n, v, c)[x] = Byte(n, v, b)
<1> DEFINE t == Size[n]
           q == t \div 4
           r == t % 4
<1>1. t \in Nat /\ q \in Nat /\ t = (4 * q) + r /\ r \in 0..3
  <2>1. t \in Nat
    BY DfsAssumption
  <2> HIDE DEF t
  <2>. QED  BY <2>1
<1>2. ChunkSize(n, 1) = q /\ ChunkSize(n, 2) = q /\ ChunkSize(n, 3) = q
      /\ ChunkSize(n, 4) = q + r
  <2>1. /\ ChunkSize(n, 1) = q + 0 /\ ChunkSize(n, 2) = q + 0 /\ ChunkSize(n, 3) = q + 0
        /\ ChunkSize(n, 4) = q + r
    BY DEF ChunkSize
  <2> HIDE DEF q, r
  <2>. QED  BY <1>1, <2>1
<1>3. Offset(n, 1) = 0 /\ Offset(n, 2) = q /\ Offset(n, 3) = 2 * q /\ Offset(n, 4) = 3 * q
  <2>1. /\ Offset(n, 1) = q * (1 - 1) /\ Offset(n, 2) = q * (2 - 1)
        /\ Offset(n, 3) = q * (3 - 1) /\ Offset(n, 4) = q * (4 - 1)
    BY DEF Offset
  <2> HIDE DEF q
  <2>. QED  BY <1>1, <2>1
<1>0. b \in 1..t
  OBVIOUS
<1> HIDE DEF q, r, t
<1>4. \E c \in Chunks : Offset(n, c) \in Nat /\ b - Offset(n, c) \in 1..ChunkSize(n, c)
  <2>1. 1 \in Chunks /\ 2 \in Chunks /\ 3 \in Chunks /\ 4 \in Chunks
    BY DEF Chunks
  <2>2. CASE b =< q
    <3>1. Offset(n, 1) \in Nat /\ b - Offset(n, 1) \in 1..ChunkSize(n, 1)
      BY <1>0, <1>1, <1>2, <1>3, <2>2
    <3>. QED  BY <2>1, <3>1
  <2>3. CASE q < b /\ b =< 2 * q
    <3>1. Offset(n, 2) \in Nat /\ b - Offset(n, 2) \in 1..ChunkSize(n, 2)
      BY <1>0, <1>1, <1>2, <1>3, <2>3
    <3>. QED  BY <2>1, <3>1
  <2>4. CASE 2 * q < b /\ b =< 3 * q
    <3>1. Offset(n, 3) \in Nat /\ b - Offset(n, 3) \in 1..ChunkSize(n, 3)
      BY <1>0, <1>1, <1>2, <1>3, <2>4
    <3>. QED  BY <2>1, <3>1
  <2>5. CASE 3 * q < b
    <3>1. Offset(n, 4) \in Nat /\ b - Offset(n, 4) \in 1..ChunkSize(n, 4)
      BY <1>0, <1>1, <1>2, <1>3, <2>5
    <3>. QED  BY <2>1, <3>1
  <2>. QED  BY <1>0, <1>1, <2>2, <2>3, <2>4, <2>5
<1>5. PICK c \in Chunks : Offset(n, c) \in Nat /\ b - Offset(n, c) \in 1..ChunkSize(n, c)
  BY <1>4
<1> DEFINE x == b - Offset(n, c)
<1>6. Offset(n, c) + x = b /\ x \in 1..ChunkSize(n, c)
  BY <1>5
<1> HIDE DEF x
<1>7. Body(n, v, c)[x] = Byte(n, v, b)
  BY <1>6 DEF Body
<1>. QED  BY <1>6, <1>7

LEMMA PairHasAll ==
  ASSUME NEW n \in Names, NEW pair \in {{0, 2}, {1, 3}}, NEW c \in Chunks
  PROVE  \E s \in pair : c = Part(n, s, 0) \/ c = Part(n, s, 1)
<1>1. BucketOf[n] \in 0..3
  BY DfsAssumption
<1>2. ASSUME NEW b \in 0..3
      PROVE  /\ c \in {Distro[b + 1][1], Distro[b + 1][2], Distro[b + 1][5], Distro[b + 1][6]}
             /\ c \in {Distro[b + 1][3], Distro[b + 1][4], Distro[b + 1][7], Distro[b + 1][8]}
  <2>0. c = 1 \/ c = 2 \/ c = 3 \/ c = 4
    BY DEF Chunks
  <2>1. CASE b = 0
    BY <2>0, <2>1 DEF Distro
  <2>2. CASE b = 1
    BY <2>0, <2>2 DEF Distro
  <2>3. CASE b = 2
    BY <2>0, <2>3 DEF Distro
  <2>4. CASE b = 3
    BY <2>0, <2>4 DEF Distro
  <2>. QED  BY <2>1, <2>2, <2>3, <2>4
<1> DEFINE b == BucketOf[n]
<1>3. /\ Part(n, 0, 0) = Distro[b + 1][1] /\ Part(n, 0, 1) = Distro[b + 1][2]
      /\ Part(n, 1, 0) = Distro[b + 1][3] /\ Part(n, 1, 1) = Distro[b + 1][4]
      /\ Part(n, 2, 0) = Distro[b + 1][5] /\ Part(n, 2, 1) = Distro[b + 1][6]
      /\ Part(n, 3, 0) = Distro[b + 1][7] /\ Part(n, 3, 1) = Distro[b + 1][8]
  BY DEF Part
<1>4. CASE pair = {0, 2}
  BY <1>1, <1>2, <1>3, <1>4
<1>5. CASE pair = {1, 3}
  BY <1>1, <1>2, <1>3, <1>5
<1>. QED  BY <1>4, <1>5

(* The first two chunks of a server begin as they should.                  *)
LEMMA FirstTwoKept ==
  ASSUME Types, OriginInv, TrackInv, NEW k \in Clients, NEW s \in Servers, PutDone(k, s),
         NEW y \in 0..1
  PROVE  LET n == cmd[k].files[1]
             c == Part(n, s, y) IN
         <<n, k, c>> \in DOMAIN file[s] /\ Starts(file[s][<<n, k, c>>], Body(n, k, c))
<1> DEFINE a == Connection(k, s)
           f == file[s]
           n == cmd[k].files[1]
           x == y + 1
<1>1. /\ IsPut(a) /\ cmd[k].op = "put"
      /\ \E i \in 0..Count(a) : Kept(a, f, i) /\ (i = Count(a) \/ (i > 0 /\ Inapt(a, i)))
  BY DoneKeeps
<1>2. Count(a) = 2 * Len(cmd[k].files) /\ Len(cmd[k].files) \in Nat \ {0}
      /\ a.k = k /\ a.s = s /\ a.job = cmd[k]
  BY <1>1, ConnectionIsPut
<1>3. Count(a) \in Nat /\ 2 =< Count(a) /\ x \in 1..2
      /\ (x + 1) \div 2 = 1 /\ (x + 1) % 2 = y
  <2>1. y = 0 \/ y = 1
    OBVIOUS
  <2>. QED  BY <1>2, <2>1
<1>4. NameAt(a, x) = n /\ PartAt(a, x) = Part(n, s, y)
  <2>1. NameAt(a, x) = n
    BY <1>2, <1>3 DEF NameAt
  <2>. QED  BY <1>2, <1>3, <2>1 DEF PartAt
<1> HIDE DEF a, f, n
<1>5. ~Inapt(a, 1)
  <2>1. 1..1 = {1}
    OBVIOUS
  <2>. QED  BY <2>1 DEF Inapt, Apt, Long
<1>6. PICK i \in 0..Count(a) : Kept(a, f, i) /\ (i = Count(a) \/ (i > 0 /\ Inapt(a, i)))
  BY <1>1
<1>7. i \in Nat /\ 2 =< i
  BY <1>3, <1>5, <1>6
<1>8. x \in 1..i /\ Clean(a, x - 1)
  <2>1. x \in 1..i
    BY <1>3, <1>7
  <2>2. \A j \in 1..x - 1 : j = 1
    BY <1>3
  <2>. QED  BY <1>5, <2>1, <2>2 DEF Clean
<1>9. IdAt(a, x) \in DOMAIN f /\ Starts(f[IdAt(a, x)], BodyAt(a, x))
  BY <1>6, <1>8 DEF Kept
<1>. QED  BY <1>2, <1>4, <1>9 DEF IdAt, BodyAt, f, n

LEMMA PairsKeep ==
  ASSUME Types, OriginInv, TrackInv
  PROVE  PairsHold
<1> SUFFICES ASSUME NEW k \in Clients, NEW pair \in {{0, 2}, {1, 3}}, cmd[k].op = "put",
                    \A s \in pair : PutDone(k, s), NEW b \in 1..Size[cmd[k].files[1]]
             PROVE  \E s \in pair, c \in Chunks :
                      LET id == <<cmd[k].files[1], k, c>> IN
                      id \in DOMAIN file[s] /\ Contains(file[s][id], Byte(id[1], k, b))
  BY DEF PairsHold
<1> DEFINE n == cmd[k].files[1]
<1>1. n \in Names
  BY JobIs
<1>2. PICK c \in Chunks : \E x \in 1..ChunkSize(n, c) : Body(n, k, c)[x] = Byte(n, k, b)
  BY <1>1, ByteAt
<1>3. PICK x \in 1..ChunkSize(n, c) : Body(n, k, c)[x] = Byte(n, k, b)
  BY <1>2
<1>4. PICK s \in pair : c = Part(n, s, 0) \/ c = Part(n, s, 1)
  BY <1>1, PairHasAll
<1>5. s \in Servers /\ PutDone(k, s)
  BY DEF Servers
<1> DEFINE id == <<n, k, c>>
           g == file[s][id]
<1>6. id \in DOMAIN file[s] /\ Starts(g, Body(n, k, c))
  <2>1. 0 \in 0..1 /\ 1 \in 0..1
    OBVIOUS
  <2>. QED  BY <1>4, <1>5, <2>1, FirstTwoKept
<1>7. Len(Body(n, k, c)) = ChunkSize(n, c)
  <2>1. k \in Versions
    BY DEF Versions
  <2>. QED  BY <1>1, <2>1, BodyType
<1>8. g \in Seq(Cells)
  <2>1. file[s] \in Contents
    BY <1>5 DEF Types, ServerTypes
  <2>. QED  BY <1>6, <2>1 DEF Contents
<1>9. ChunkSize(n, c) \in Nat
  BY <1>1, ChunkSizes
<1> HIDE DEF id, g, n
<1>10. x \in 1..Len(g) /\ g[x] = Byte(n, k, b)
  BY <1>3, <1>6, <1>7, <1>8, <1>9 DEF Starts
<1>11. Contains(g, Byte(n, k, b))
  BY <1>10 DEF Contains
<1>12. id[1] = n
  BY DEF id
<1>. QED  BY <1>4, <1>6, <1>11, <1>12 DEF g, id, n
-----------------------------------------------------------------------------
(* The invariants of puts hold, too.                                       *)
LEMMA PutsInductive == Spec => [](IInv /\ OriginInv /\ TrackInv)
<1> DEFINE All == IInv /\ OriginInv /\ TrackInv
<1>1. Init => All
  BY InitKeeps, InitOrigin, InitTrack
<1>2. All /\ [Next]_vars => All'
  BY NextKeeps, NextKeepsOrigin, NextKeepsTrack
<1>. QED  BY <1>1, <1>2, PTL DEF Spec

(* When a put is done and its worker at a server undisturbed, this server  *)
(* has each chunk it was sent byte for byte, as long as no length before   *)
(* it, nor its own, is misread: for any files, lengths and interleavings,  *)
(* handle_put_dfc and handle_put_dfs agree on where each message ends.     *)
THEOREM PutsAreExact == Spec => []ChunksExact
<1>1. IInv /\ OriginInv /\ TrackInv => ChunksExact
  BY ExactChunks DEF IInv
<1>. QED  BY <1>1, PutsInductive, PTL

(* After such a put to servers 0 and 2, or to 1 and 3, every byte of its   *)
(* first file is in a chunk that one of the two has: get_distro gives each *)
(* pair all four chunks, and the first two a server gets are never         *)
(* misread before they are whole.                                          *)
THEOREM PairsHaveAll == Spec => []PairsHold
<1>1. IInv /\ OriginInv /\ TrackInv => PairsHold
  BY PairsKeep DEF IInv
<1>. QED  BY <1>1, PutsInductive, PTL
=============================================================================
