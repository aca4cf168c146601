-------------------------- MODULE UdpTransferProofs --------------------------
(***************************************************************************)
(* Proofs about UdpTransfer, for any files, rows of any length, any number *)
(* of commands and of lost datagrams.                                      *)
(*                                                                         *)
(* First what the rows of a file are: put together again they are the file.*)
(* Then the types; then, where answers come in time, what can be on its    *)
(* way in each state of the two programs, from which follows that what the *)
(* user is told is true and that files are copied whole; and, where        *)
(* moreover nothing is lost or overtaken, what must be on its way, from    *)
(* which follows why a command can fail.  Last, whatever the network does, *)
(* where the bytes of a file come from.                                    *)
(***************************************************************************)
EXTENDS UdpTransfer, IndexLemmas

(* Where the client awaits the first answer to its command.                *)
First == {"FILESIZE", "SENDSIZE", "reply", "GOODBYE"}

(* Answers come in time and once, and files can be written.                *)
Orderly == Sound /\ "duplicate" \notin mode.faults

(* The rows and the size of the file that the command is about.            *)
Loaded(buf, size, dir) ==
  /\ dir[ccmd[2]] # NoFile
  /\ buf = RowsOf(dir[ccmd[2]]) /\ size = Len(dir[ccmd[2]])

(* Some of the rows have come.                                             *)
Partial(to, from) ==
  DOMAIN to = DOMAIN from /\ \A i \in DOMAIN to : to[i] \in {NoRow, from[i]}

Awaited(buf) == \A i \in DOMAIN buf : buf[i] = NoRow

(* What can be on its way to the server, and where the programs then are.  *)
(* Nothing is known once it has crashed: it does not read any more.        *)
ServerMay(m) ==
  \/ spc = "crashed"
  \/ m = Word("ALLREC") /\ spc = "ALLREC" /\ cpc \in First \cup {"user"}
  \/ m = Command(ccmd) /\ cpc \in First /\ spc \in {"main", "SENDFILE", "FILESIZE", "ALLREC"}
  \/ m = Word("SENDFILE") /\ cpc = "ROW" /\ spc = "SENDFILE"
  \/ m = FileSize(csize) /\ cpc = "SENDFILE" /\ spc = "FILESIZE" /\ sname = ccmd[2]
  \/ (\E i \in DOMAIN cbuf : m = Row(cbuf, i)) /\ cpc = "ALLREC" /\ spc = "ROW"

(* What can be on its way to the client.                                   *)
ClientMay(m) ==
  \/ m = Word("FAIL") /\ cpc \in {"FILESIZE", "reply"} /\ spc = "main"
       /\ serverDir[ccmd[2]] = NoFile
  \/ m = Word("SUCCESS") /\ cpc = "reply" /\ spc = "main" /\ serverDir[ccmd[2]] = NoFile
  \/ m = Word("LIST") /\ cpc = "reply" /\ spc = "main" /\ ccmd[1] = "ls"
  \/ m = Word("GOODBYE") /\ cpc = "GOODBYE" /\ spc = "main"
  \/ m = FileSize(ssize) /\ cpc = "FILESIZE" /\ spc = "SENDFILE" /\ Loaded(sbuf, ssize, serverDir)
  \/ m = Word("SENDSIZE") /\ cpc = "SENDSIZE" /\ spc = "FILESIZE" /\ sname = ccmd[2]
  \/ m = Word("SENDFILE") /\ cpc = "SENDFILE" /\ spc = "ROW"
  \/ (\E i \in DOMAIN sbuf : m = Row(sbuf, i)) /\ cpc = "ROW" /\ spc = "ALLREC"
  \/ m = Word("ALLREC") /\ cpc = "ALLREC" /\ spc = "main"
       /\ serverDir[ccmd[2]] = clientDir[ccmd[2]]

(* A datagram that is not a row is on its way once.                        *)
Once(chan) ==
  \A i, j \in DOMAIN chan : chan[i].type # "ROW" /\ chan[i] = chan[j] => i = j

(* It is even the only one.                                                *)
Alone(chan) == \A i, j \in DOMAIN chan : chan[i].type # "ROW" => i = j

NetInv ==
  /\ toServer = <<>> \/ toClient = <<>>
  /\ \A i \in DOMAIN toServer : ServerMay(toServer[i])
  /\ \A i \in DOMAIN toClient : ClientMay(toClient[i])
  /\ spc # "crashed" => Once(toServer)
  /\ Alone(toClient)

(* What the client knows of its command.                                   *)
AskInv ==
  /\ cpc \in {"FILESIZE", "ROW", "check"} => ccmd[1] = "get"
  /\ cpc \in {"SENDSIZE", "SENDFILE", "ALLREC"} =>
       ccmd[1] = "put" /\ Loaded(cbuf, csize, clientDir)
  /\ cpc = "reply" => ccmd[1] \in {"delete", "ls"}
  /\ cpc = "GOODBYE" => ccmd[1] = "exit"

(* While one side receives rows, they are those the other one sends.       *)
GetInv ==
  /\ cpc \in {"ROW", "check"} =>
       /\ spc \in {"SENDFILE", "ALLREC"}
       /\ Loaded(sbuf, ssize, serverDir) /\ csize = ssize /\ csize > 0
       /\ Partial(cbuf, sbuf)
       /\ spc = "SENDFILE" => Awaited(cbuf)
  /\ cpc = "check" => toClient = <<>> /\ toServer = <<>>

PutInv ==
  /\ spc \in {"ROW", "check"} =>
       /\ cpc \in {"SENDFILE", "ALLREC"}
       /\ sname = ccmd[2] /\ ssize = csize /\ csize > 0
       /\ Partial(sbuf, cbuf)
       /\ cpc = "SENDFILE" => Awaited(sbuf)
  /\ spc = "check" => toClient = <<>> /\ toServer = <<>>

ToldInv == told = "done" => cpc = "user" /\ SuccessIsTrue

TalkInv == NetInv /\ AskInv /\ GetInv /\ PutInv /\ ToldInv

OrderlyInv == Orderly => TalkInv

(* What is on its way or has happened, when nothing is lost or overtaken.  *)
Coming(to, from, chan) ==
  \A i \in DOMAIN to : to[i] # NoRow \/ \E j \in DOMAIN chan : chan[j] = Row(from, i)

FlowInv ==
  /\ spc # "crashed" /\ cpc # "crashed"
  /\ cpc = "user" =>
       \/ spc = "main"
       \/ spc = "ALLREC" /\ toServer = <<Word("ALLREC")>>
       \/ spc = "SENDFILE" /\ sbuf = <<>>
  /\ cpc \in First =>
       \/ toClient # <<>>
       \/ spc = "main" /\ toServer = <<Command(ccmd)>>
       \/ spc = "ALLREC" /\ toServer = <<Word("ALLREC"), Command(ccmd)>>
       \/ spc \in {"main", "SENDFILE"} /\ sbuf = <<>>
  /\ cpc = "SENDFILE" => toClient # <<>> \/ toServer # <<>> \/ (csize = 0 /\ spc = "main")
  /\ cpc = "ROW" /\ spc = "SENDFILE" => toServer # <<>>
  /\ cpc = "ROW" /\ spc = "ALLREC" => Coming(cbuf, sbuf, toClient)
  /\ spc = "ROW" /\ cpc = "ALLREC" => Coming(sbuf, cbuf, toServer)
  /\ cpc = "check" => Complete(cbuf)
  /\ spc = "check" => Complete(sbuf)
  /\ told = "failed" =>
       cpc = "user" /\ (Wanted(ccmd) \in {NoFile, <<>>} \/ sbuf = <<>>)

FaithfulInv == Faithful /\ "duplicate" \notin mode.faults => FlowInv
-----------------------------------------------------------------------------
(* Rows and bytes.                                                         *)

LEMMA Divided ==
  ASSUME NEW a \in Nat
  PROVE  /\ a \div RowLen \in Nat /\ a % RowLen \in 0..(RowLen - 1)
         /\ a = RowLen * (a \div RowLen) + (a % RowLen)
BY TransferAssumption

LEMMA DividedOnce ==
  ASSUME NEW q \in Nat, NEW r \in 0..(RowLen - 1)
  PROVE  (q * RowLen + r) \div RowLen = q /\ (q * RowLen + r) % RowLen = r
<1> DEFINE a == q * RowLen + r
           p == a \div RowLen
           s == a % RowLen
<1>0. RowLen \in Nat /\ RowLen > 0
  BY TransferAssumption
<1>1. a \in Nat
  BY <1>0
<1>2. p \in Nat /\ s \in 0..(RowLen - 1) /\ a = RowLen * p + s
  BY <1>1, Divided
<1> HIDE DEF p, s
<1>3. p = q
  <2>1. CASE p < q
    <3>1. RowLen * p + RowLen =< RowLen * q
      <4>1. p + 1 =< q
        BY <1>2, <2>1
      <4>2. RowLen * (p + 1) =< RowLen * q
        BY <1>0, <1>2, <4>1
      <4>. QED  BY <1>0, <1>2, <4>2
    <3>. QED  BY <1>0, <1>2, <3>1
  <2>2. CASE p > q
    <3>1. RowLen * q + RowLen =< RowLen * p
      <4>1. q + 1 =< p
        BY <1>2, <2>2
      <4>2. RowLen * (q + 1) =< RowLen * p
        BY <1>0, <1>2, <4>1
      <4>. QED  BY <1>0, <1>2, <4>2
    <3>. QED  BY <1>0, <1>2, <3>1
  <2>. QED  BY <1>2, <2>1, <2>2
<1>4. s = r
  BY <1>0, <1>2, <1>3
<1>. QED  BY <1>3, <1>4 DEF p, s

(* There are rows for all bytes, and none without a byte.                  *)
LEMMA RowsEnough ==
  ASSUME NEW size \in Nat
  PROVE  /\ NumRows(size) \in Nat
         /\ NumRows(size) * RowLen >= size
         /\ size > 0 => NumRows(size) > 0
         /\ \A i \in 1..NumRows(size) : (i - 1) * RowLen < size
<1> DEFINE n == NumRows(size)
<1>0. RowLen \in Nat /\ RowLen > 0
  BY TransferAssumption
<1>1. size + RowLen - 1 \in Nat
  BY <1>0
<1>2. PICK r \in 0..(RowLen - 1) : n \in Nat /\ size + RowLen - 1 = RowLen * n + r
  BY <1>1, Divided DEF NumRows
<1> HIDE DEF n
<1>3. n * RowLen >= size
  BY <1>0, <1>2
<1>4. size > 0 => n > 0
  BY <1>0, <1>2
<1>5. ASSUME NEW i \in 1..n PROVE (i - 1) * RowLen < size
  <2>1. RowLen * i =< RowLen * n
    BY <1>0, <1>2
  <2>2. (i - 1) * RowLen = RowLen * i - RowLen
    BY <1>0, <1>2
  <2>. QED  BY <1>0, <1>2, <2>1, <2>2
<1>. QED  BY <1>2, <1>3, <1>4, <1>5 DEF n

DataRow == [1..RowLen -> Bytes]

(* bin_to_file_2d writes the first bytes of the rows, as many as the file  *)
(* has.                                                                    *)
Cell(buf, k) == buf[((k - 1) \div RowLen) + 1][((k - 1) % RowLen) + 1]

LEMMA CellIs ==
  ASSUME NEW i \in Nat \ {0}, NEW j \in 1..RowLen, NEW buf
  PROVE  Cell(buf, (i - 1) * RowLen + j) = buf[i][j]
<1> DEFINE q == i - 1
           r == j - 1
           k == (i - 1) * RowLen + j
<1>0. RowLen \in Nat /\ RowLen > 0
  BY TransferAssumption
<1>1. q \in Nat /\ r \in 0..(RowLen - 1) /\ k - 1 = q * RowLen + r
  BY <1>0
<1>2. (k - 1) \div RowLen = q /\ (k - 1) % RowLen = r
  <2> HIDE DEF q, r, k
  <2>. QED  BY <1>1, DividedOnce
<1>3. q + 1 = i /\ r + 1 = j
  BY <1>0
<1> HIDE DEF q, r, k
<1>4. Cell(buf, k) = buf[i][j]
  BY <1>2, <1>3 DEF Cell
<1>. QED  BY <1>4 DEF k

LEMMA CellType ==
  ASSUME NEW size \in Nat, NEW buf \in [1..NumRows(size) -> DataRow], NEW k \in 1..size
  PROVE  Cell(buf, k) \in Bytes
<1> DEFINE q == (k - 1) \div RowLen
           r == (k - 1) % RowLen
           n == NumRows(size)
<1>0. RowLen \in Nat /\ RowLen > 0
  BY TransferAssumption
<1>1. q \in Nat /\ r \in 0..(RowLen - 1) /\ k - 1 = RowLen * q + r
  BY <1>0, Divided
<1>2. n \in Nat /\ n * RowLen >= size
  BY RowsEnough
<1> HIDE DEF q, r, n
<1>3. q < n
  <2> SUFFICES ASSUME n =< q PROVE FALSE
    BY <1>1, <1>2
  <2>1. RowLen * n =< RowLen * q
    BY <1>0, <1>1, <1>2
  <2>. QED  BY <1>0, <1>1, <1>2, <2>1
<1>4. q + 1 \in 1..n /\ r + 1 \in 1..RowLen
  BY <1>0, <1>1, <1>2, <1>3
<1>. QED  BY <1>4 DEF Cell, DataRow, q, r, n

LEMMA FileOfIs ==
  ASSUME NEW size \in Nat, size > 0, NEW buf \in [1..NumRows(size) -> DataRow]
  PROVE  FileOf(buf, size) = [k \in 1..size |-> Cell(buf, k)]
<1> DEFINE n == NumRows(size)
           Start(i) == (i - 1) * RowLen
           parts == [i \in 1..n |-> IF RowLen > size - Start(i)
                                    THEN SubSeq(buf[i], 1, size - Start(i)) ELSE buf[i]]
           c == [k \in 1..size |-> Cell(buf, k)]
           Upto(i) == IF Start(i) + RowLen < size THEN Start(i) + RowLen ELSE size
<1>0. RowLen \in Nat /\ RowLen > 0
  BY TransferAssumption
<1>1. /\ n \in Nat /\ n > 0 /\ n * RowLen >= size
      /\ \A i \in 1..n : Start(i) < size
  BY RowsEnough
<1>2. c \in [1..size -> Bytes]
  BY CellType
<1>3. ASSUME NEW i \in 1..n
      PROVE  /\ Start(i) \in Nat /\ Upto(i) \in Nat /\ Upto(i) - Start(i) \in Nat
             /\ Upto(i) =< size
             /\ parts[i] = [j \in 1..(Upto(i) - Start(i)) |-> c[Start(i) + j]]
  <2> DEFINE p == Upto(i) - Start(i)
  <2>1. Start(i) \in Nat /\ Start(i) < size
    BY <1>0, <1>1
  <2>2. /\ Upto(i) \in Nat /\ p \in Nat /\ p > 0 /\ Upto(i) =< size /\ p =< RowLen
        /\ p = IF RowLen > size - Start(i) THEN size - Start(i) ELSE RowLen
    <3> HIDE DEF Start
    <3>. QED  BY <1>0, <2>1
  <2>3. buf[i] \in [1..RowLen -> Bytes]
    BY DEF DataRow
  <2>4. parts[i] = [j \in 1..p |-> buf[i][j]]
    <3> HIDE DEF p, Start
    <3>1. CASE RowLen > size - Start(i)
      <4>1. parts[i] = SubSeq(buf[i], 1, p)
        BY <2>2, <3>1
      <4>2. buf[i] \in Seq(Bytes) /\ Len(buf[i]) = RowLen
        BY <1>0, <2>3
      <4>3. SubSeq(buf[i], 1, p) = [j \in 1..p |-> buf[i][j]]
        BY <1>0, <2>2, <4>2
      <4>. QED  BY <4>1, <4>3
    <3>2. CASE ~(RowLen > size - Start(i))
      <4>1. parts[i] = buf[i] /\ p = RowLen
        BY <2>1, <2>2, <3>2
      <4>. QED  BY <2>3, <4>1
    <3>. QED  BY <3>1, <3>2
  <2>5. \A j \in 1..p : c[Start(i) + j] = buf[i][j]
    <3> SUFFICES ASSUME NEW j \in 1..p PROVE c[Start(i) + j] = buf[i][j]
      OBVIOUS
    <3>1. j \in 1..RowLen /\ Start(i) + j \in 1..size
      <4> HIDE DEF p, Start
      <4>1. p + Start(i) =< size
        BY <2>1, <2>2 DEF p
      <4>. QED  BY <1>0, <2>1, <2>2, <4>1
    <3>2. Cell(buf, Start(i) + j) = buf[i][j]
      BY <1>1, <3>1, CellIs
    <3>. QED  BY <3>1, <3>2
  <2> HIDE DEF parts, c, Start
  <2>. QED  BY <2>1, <2>2, <2>4, <2>5
<1>4. FlattenSeq(parts) = c
  <2> DEFINE cut == [i \in 0..n |-> IF i * RowLen < size THEN i * RowLen ELSE size]
  <2>1. /\ cut[0] = 0 /\ cut[n] = size
        /\ \A i \in 0..n : cut[i] \in Nat
    BY <1>0, <1>1
  <2>2. ASSUME NEW i \in 1..n
        PROVE  cut[i - 1] = Start(i) /\ cut[i] = Upto(i)
    <3>1. /\ i - 1 \in 0..n /\ i \in 0..n /\ i * RowLen = Start(i) + RowLen
          /\ Start(i) < size
      BY <1>0, <1>1
    <3>2. /\ cut[i - 1] = IF Start(i) < size THEN Start(i) ELSE size
          /\ cut[i] = IF i * RowLen < size THEN i * RowLen ELSE size
      BY <3>1
    <3> HIDE DEF Start, cut
    <3>. QED  BY <3>1, <3>2
  <2>4. Len(parts) = n
    BY <1>1
  <2> HIDE DEF cut, parts, c, n
  <2>5. \A i \in 1..n : /\ cut[i - 1] =< cut[i]
                       /\ parts[i] = Piece(c, cut[i - 1], cut[i] - cut[i - 1])
    <3> TAKE i \in 1..n
    <3>1. /\ Start(i) \in Nat /\ Upto(i) \in Nat /\ Upto(i) - Start(i) \in Nat
          /\ parts[i] = [j \in 1..(Upto(i) - Start(i)) |-> c[Start(i) + j]]
      BY <1>3
    <3> HIDE DEF Start, Upto
    <3>. QED  BY <2>2, <3>1 DEF Piece
  <2>6. n \in Nat /\ n > 0
    BY <1>1
  <2>7. Piece(c, 0, size) = c
    BY <1>2 DEF Piece
  <2>8. CutInto(c, cut, parts)
    BY <2>1, <2>4, <2>5 DEF CutInto
  <2>. QED  BY <2>1, <2>4, <2>6, <2>7, <2>8, CutUp
<1>5. FileOf(buf, size) = FlattenSeq(parts)
  <2>1. DOMAIN buf = 1..n
    OBVIOUS
  <2>. QED  BY <2>1 DEF FileOf
<1>. QED  BY <1>4, <1>5

(* A file that is cut in rows and put together again is the same file.     *)
THEOREM RowsMakeTheFile ==
  \A f \in Seq(Bytes) : FileOf(RowsOf(f), Len(f)) = f
<1> SUFFICES ASSUME NEW f \in Seq(Bytes) PROVE FileOf(RowsOf(f), Len(f)) = f
  OBVIOUS
<1> DEFINE size == Len(f)
           buf == RowsOf(f)
<1>0. RowLen \in Nat /\ RowLen > 0 /\ size \in Nat /\ NumRows(size) \in Nat
  BY TransferAssumption, RowsEnough
<1>1. buf \in [1..NumRows(size) -> DataRow]
  BY TransferAssumption DEF RowsOf, DataRow
<1>2. CASE size > 0
  <2>1. FileOf(buf, size) = [k \in 1..size |-> Cell(buf, k)]
    BY <1>0, <1>1, <1>2, FileOfIs
  <2>2. ASSUME NEW k \in 1..size PROVE Cell(buf, k) = f[k]
    <3> DEFINE q == (k - 1) \div RowLen
               r == (k - 1) % RowLen
    <3>1. q \in Nat /\ r \in 0..(RowLen - 1) /\ k - 1 = RowLen * q + r
      BY <1>0, Divided
    <3>2. Cell(buf, k) = buf[q + 1][r + 1]
      BY DEF Cell
    <3> HIDE DEF q, r
    <3>3. q + 1 \in 1..NumRows(size)
      <4> DEFINE n == NumRows(size)
      <4>1. n \in Nat /\ n * RowLen >= size
        BY <1>0, RowsEnough
      <4> HIDE DEF n
      <4>2. q < n
        <5> SUFFICES ASSUME n =< q PROVE FALSE
          BY <3>1, <4>1
        <5>1. RowLen * n =< RowLen * q
          BY <1>0, <3>1, <4>1
        <5>. QED  BY <1>0, <3>1, <4>1, <5>1
      <4>. QED  BY <3>1, <4>1, <4>2 DEF n
    <3>4. r + 1 \in 1..RowLen /\ ((q + 1) - 1) * RowLen + (r + 1) = k
      BY <1>0, <3>1
    <3>. QED  BY <1>0, <3>2, <3>3, <3>4 DEF RowsOf
  <2>3. f = [k \in 1..size |-> f[k]]
    OBVIOUS
  <2>. QED  BY <2>1, <2>2, <2>3
<1>3. CASE size = 0
  <2>1. NumRows(0) = 0
    <3>1. 0 + RowLen - 1 = 0 * RowLen + (RowLen - 1) /\ RowLen - 1 \in 0..(RowLen - 1)
      BY <1>0
    <3>. QED  BY <3>1, DividedOnce DEF NumRows
  <2>2. DOMAIN buf = {}
    BY <1>3, <2>1 DEF RowsOf
  <2>3. FileOf(buf, size) = <<>>
    BY <2>2 DEF FileOf, FlattenSeq
  <2>. QED  BY <1>3, <2>3
<1>. QED  BY <1>0, <1>2, <1>3
-----------------------------------------------------------------------------
(* Types.                                                                  *)

Plain == {"ALLREC", "SENDFILE", "SENDSIZE", "FAIL", "SUCCESS", "LIST", "GOODBYE"}

Cells == DataRow \cup {NoRow}

Datagram ==
  [type: Plain] \cup [type: {"command"}, op: Operations, name: Names]
  \cup [type: {"FILESIZE"}, size: Nat]
  \cup [type: {"ROW"}, num: Nat, total: Nat, data: Cells]

(* Every variable has its type, what is on its way is a datagram, and each *)
(* side has as many rows as its file needs.                                *)
TypeInv ==
  /\ TypeOK
  /\ toServer \in Seq(Datagram) /\ toClient \in Seq(Datagram)
  /\ Len(sbuf) = NumRows(ssize) /\ Len(cbuf) = NumRows(csize)

(* What is left of a channel from which one datagram is taken.             *)
LEMMA Left ==
  ASSUME NEW T, NEW chan \in Seq(T), NEW i \in DOMAIN chan
  PROVE  /\ RemoveAt(chan, i) \in Seq(T)
         /\ Len(RemoveAt(chan, i)) = Len(chan) - 1
         /\ \A k \in 1..(Len(chan) - 1) :
              RemoveAt(chan, i)[k] = IF k < i THEN chan[k] ELSE chan[k + 1]
<1> DEFINE a == SubSeq(chan, 1, i - 1)
           b == SubSeq(chan, i + 1, Len(chan))
<1>1. /\ a \in Seq(T) /\ Len(a) = i - 1
      /\ \A k \in 1..(i - 1) : a[k] = chan[k]
  OBVIOUS
<1>2. /\ b \in Seq(T) /\ Len(b) = Len(chan) - i
      /\ \A k \in 1..(Len(chan) - i) : b[k] = chan[i + k]
  OBVIOUS
<1>3. RemoveAt(chan, i) = a \o b
  BY DEF RemoveAt
<1> HIDE DEF a, b
<1>4. a \o b \in Seq(T) /\ Len(a \o b) = Len(chan) - 1
  BY <1>1, <1>2
<1>5. ASSUME NEW k \in 1..(Len(chan) - 1)
      PROVE  (a \o b)[k] = IF k < i THEN chan[k] ELSE chan[k + 1]
  <2>1. CASE k < i
    <3>1. (a \o b)[k] = a[k]
      BY <1>1, <1>2, <2>1
    <3>. QED  BY <1>1, <2>1, <3>1
  <2>2. CASE ~(k < i)
    <3>1. (a \o b)[k] = b[k - (i - 1)]
      BY <1>1, <1>2, <2>2
    <3>2. k - (i - 1) \in 1..(Len(chan) - i) /\ i + (k - (i - 1)) = k + 1
      BY <2>2
    <3>. QED  BY <1>2, <2>2, <3>1, <3>2
  <2>. QED  BY <2>1, <2>2
<1>. QED  BY <1>3, <1>4, <1>5

LEMMA RowsOfType ==
  ASSUME NEW f \in Seq(Bytes)
  PROVE  /\ RowsOf(f) \in Seq(DataRow) /\ RowsOf(f) \in Seq(Cells)
         /\ Len(RowsOf(f)) = NumRows(Len(f))
<1> DEFINE n == NumRows(Len(f))
<1>1. n \in Nat
  BY RowsEnough
<1>2. RowsOf(f) \in [1..n -> DataRow]
  BY TransferAssumption DEF RowsOf, DataRow
<1> HIDE DEF n
<1>. QED  BY <1>1, <1>2 DEF Cells, n

LEMMA UnreceivedType ==
  ASSUME NEW m, m.size \in Nat
  PROVE  /\ Unreceived(m) \in Seq(Cells)
         /\ Len(Unreceived(m)) = NumRows(m.size)
<1> DEFINE n == NumRows(m.size)
<1>1. n \in Nat
  BY RowsEnough
<1>2. Unreceived(m) \in [1..n -> Cells]
  BY DEF Unreceived, Cells
<1> HIDE DEF n
<1>. QED  BY <1>1, <1>2 DEF n

LEMMA NoRows == NumRows(0) = 0
<1>1. RowLen \in Nat /\ RowLen > 0
  BY TransferAssumption
<1>2. 0 + RowLen - 1 = 0 * RowLen + (RowLen - 1) /\ RowLen - 1 \in 0..(RowLen - 1)
  BY <1>1
<1>. QED  BY <1>1, <1>2, DividedOnce DEF NumRows

(* What is written when no row is missing is a file.                       *)
LEMMA WrittenType ==
  ASSUME NEW size \in Nat, NEW buf \in Seq(Cells), Len(buf) = NumRows(size), Complete(buf)
  PROVE  FileOf(buf, size) \in Seq(Bytes)
<1> DEFINE n == NumRows(size)
<1>1. n \in Nat
  BY RowsEnough
<1>2. buf \in [1..n -> DataRow]
  BY DEF Complete, Cells
<1>3. CASE size > 0
  <2>1. FileOf(buf, size) = [k \in 1..size |-> Cell(buf, k)]
    BY <1>2, <1>3, FileOfIs
  <2>2. \A k \in 1..size : Cell(buf, k) \in Bytes
    BY <1>2, CellType
  <2>. QED  BY <2>1, <2>2
<1>4. CASE size = 0
  <2>1. DOMAIN buf = {}
    BY <1>2, <1>4, NoRows
  <2>2. FileOf(buf, size) = <<>>
    BY <2>1 DEF FileOf, FlattenSeq
  <2>. QED  BY <2>2
<1>. QED  BY <1>3, <1>4

LEMMA DirType ==
  ASSUME NEW dir \in Dir, NEW n \in Names, NEW size \in Nat, NEW buf \in Seq(Cells),
         Len(buf) = NumRows(size), Complete(buf), NEW d \in Written(dir, n, buf, size)
  PROVE  d \in Dir
<1>1. FileOf(buf, size) \in Seq(Bytes)
  BY WrittenType
<1>. QED  BY <1>1 DEF Written, Dir

LEMMA SentType ==
  ASSUME NEW buf \in Seq(Cells)
  PROVE  Sent(buf) \in Seq(Datagram) /\ Len(Sent(buf)) = Len(buf)
<1>1. \A i \in DOMAIN buf : Row(buf, i) \in Datagram
  BY DEF Row, Datagram
<1>. QED  BY <1>1 DEF Sent

LEMMA WithRowType ==
  ASSUME NEW buf \in Seq(Cells), NEW m \in Datagram, m.type = "ROW"
  PROVE  WithRow(m, buf) \in Seq(Cells) /\ Len(WithRow(m, buf)) = Len(buf)
<1>1. m.data \in Cells
  BY DEF Datagram, Plain
<1>2. buf \in [1..Len(buf) -> Cells] /\ Len(buf) \in Nat
  OBVIOUS
<1>3. WithRow(m, buf) \in [1..Len(buf) -> Cells]
  BY <1>1, <1>2 DEF WithRow
<1>. QED  BY <1>2, <1>3

(* The cases of handle_client_cmd.                                         *)
Dropped(m) == m.type # "command" /\ UNCHANGED <<toClient, server>>

Offered(m) ==
  /\ m.type = "command" /\ m.op = "get" /\ serverDir[m.name] # NoFile
  /\ sbuf' = RowsOf(serverDir[m.name]) /\ ssize' = Len(serverDir[m.name])
  /\ spc' = "SENDFILE"
  /\ ServerSends(<<FileSize(ssize')>>)
  /\ UNCHANGED <<serverDir, sname>>

Missing(m) ==
  /\ m.type = "command" /\ m.op \in {"get", "delete"} /\ serverDir[m.name] = NoFile
  /\ ServerSends(<<Word("FAIL")>>)
  /\ UNCHANGED server

Deleted(m) ==
  /\ m.type = "command" /\ m.op = "delete" /\ serverDir[m.name] # NoFile
  /\ serverDir' = [serverDir EXCEPT ![m.name] = NoFile]
  /\ ServerSends(<<Word("SUCCESS")>>)
  /\ UNCHANGED <<spc, sname, sbuf, ssize>>

Expected(m) ==
  /\ m.type = "command" /\ m.op = "put"
  /\ sname' = m.name /\ spc' = "FILESIZE"
  /\ ServerSends(<<Word("SENDSIZE")>>)
  /\ UNCHANGED <<serverDir, sbuf, ssize>>

Answered(m) ==
  /\ m.type = "command" /\ m.op \in {"ls", "exit"}
  /\ ServerSends(<<Word(IF m.op = "ls" THEN "LIST" ELSE "GOODBYE")>>)
  /\ UNCHANGED server

CommandStep(m) ==
  Dropped(m) \/ Offered(m) \/ Missing(m) \/ Deleted(m) \/ Expected(m) \/ Answered(m)

LEMMA CommandCases ==
  ServerCommand => \E i \in DOMAIN toServer : ServerTakes(i) /\ CommandStep(toServer[i])
<1> SUFFICES ASSUME ServerCommand
             PROVE  \E i \in DOMAIN toServer : ServerTakes(i) /\ CommandStep(toServer[i])
  OBVIOUS
<1>. QED  BY DEF ServerCommand, CommandStep, Dropped, Offered, Missing, Deleted, Expected,
                 Answered

LEMMA InitTypes == Init => TypeInv
<1> SUFFICES ASSUME Init PROVE TypeInv
  OBVIOUS
<1>1. mode.commands \subseteq Operations \X Names
  BY TransferAssumption DEF Init, Mode
<1>. QED  BY <1>1, NoRows, TransferAssumption DEF Init, TypeInv, TypeOK

LEMMA StepTypes == TypeInv /\ [Next]_vars => TypeInv'
<1> SUFFICES ASSUME TypeInv, [Next]_vars PROVE TypeInv'
  OBVIOUS
<1> USE DEF net, server, client
<1>0. /\ mode.commands \subseteq Operations \X Names /\ ccmd[1] \in Operations /\ ccmd[2] \in Names
      /\ \A i \in DOMAIN toServer : toServer[i] \in Datagram
      /\ \A i \in DOMAIN toClient : toClient[i] \in Datagram
      /\ sbuf \in Seq(Cells) /\ cbuf \in Seq(Cells)
  BY TransferAssumption DEF TypeInv, TypeOK, Mode, Cells, DataRow
<1>w. \A w \in Plain : <<Word(w)>> \in Seq(Datagram)
  BY DEF Word, Datagram
<1>f. \A s \in Nat : <<FileSize(s)>> \in Seq(Datagram)
  BY DEF FileSize, Datagram
<1>c. \A c \in Operations \X Names : <<Command(c)>> \in Seq(Datagram)
  BY DEF Command, Datagram
<1>t. ASSUME NEW i, ServerTakes(i) PROVE i \in DOMAIN toServer /\ toServer' \in Seq(Datagram)
  BY <1>t, Left DEF ServerTakes, Deliverable, TypeInv
<1>u. ASSUME NEW i, ClientTakes(i) PROVE i \in DOMAIN toClient /\ toClient' \in Seq(Datagram)
  BY <1>u, Left DEF ClientTakes, Deliverable, TypeInv
<1>s. ASSUME NEW s \in Seq(Datagram), ServerSends(s) PROVE toClient' \in Seq(Datagram)
  BY <1>s DEF ServerSends, TypeInv
<1>r. ASSUME NEW s \in Seq(Datagram), ClientSends(s) PROVE toServer' \in Seq(Datagram)
  BY <1>r DEF ClientSends, TypeInv
<1>d. /\ \A n \in Names : serverDir[n] # NoFile => serverDir[n] \in Seq(Bytes)
      /\ \A n \in Names : clientDir[n] # NoFile => clientDir[n] \in Seq(Bytes)
  BY DEF TypeInv, TypeOK, Dir
<1>1. CASE ServerCommand
  <2>1. PICK i \in DOMAIN toServer : ServerTakes(i) /\ CommandStep(toServer[i])
    BY <1>1, CommandCases
  <2> DEFINE m == toServer[i]
  <2>2. m \in Datagram /\ toServer' \in Seq(Datagram) /\ UNCHANGED <<mode, faults, client>>
    BY <1>0, <1>1, <1>t, <2>1 DEF ServerCommand
  <2>3. m.type = "command" => m.name \in Names
    BY <2>2 DEF Datagram, Plain
  <2> HIDE DEF m
  <2>4. CASE Dropped(m)
    BY <2>2, <2>4 DEF Dropped, TypeInv, TypeOK
  <2>5. CASE Offered(m)
    <3>1. serverDir[m.name] \in Seq(Bytes)
      BY <1>d, <2>3, <2>5 DEF Offered
    <3>2. /\ ssize' \in Nat /\ sbuf' \in Seq(Cells) /\ Len(sbuf') = NumRows(ssize')
          /\ UNCHANGED <<serverDir, sname>> /\ spc' = "SENDFILE"
      BY <2>5, <3>1, RowsOfType DEF Offered
    <3>3. toClient' \in Seq(Datagram)
      BY <1>f, <1>s, <2>5, <3>2 DEF Offered
    <3>. QED  BY <2>2, <3>2, <3>3 DEF TypeInv, TypeOK, DataRow, Cells
  <2>6. CASE Missing(m)
    BY <1>s, <1>w, <2>2, <2>6 DEF Missing, TypeInv, TypeOK, Plain
  <2>7. CASE Deleted(m)
    BY <1>s, <1>w, <2>2, <2>3, <2>7 DEF Deleted, TypeInv, TypeOK, Plain, Dir
  <2>8. CASE Expected(m)
    BY <1>s, <1>w, <2>2, <2>3, <2>8 DEF Expected, TypeInv, TypeOK, Plain
  <2>9. CASE Answered(m)
    BY <1>s, <1>w, <2>2, <2>9 DEF Answered, TypeInv, TypeOK, Plain
  <2>. QED  BY <2>1, <2>4, <2>5, <2>6, <2>7, <2>8, <2>9 DEF CommandStep, m
<1>2. CASE ServerSendsFile
  BY <1>0, <1>t, <1>s, <1>2, SentType DEF ServerSendsFile, ServerIdle, TypeInv, TypeOK
<1>3. CASE ServerListens
  BY <1>t, <1>3 DEF ServerListens, TypeInv, TypeOK
<1>4. CASE ServerFileSize
  <2>1. PICK i \in DOMAIN toServer :
          /\ ServerTakes(i)
          /\ \/ /\ SizeAccepted(toServer[i])
                /\ sbuf' = Unreceived(toServer[i]) /\ ssize' = toServer[i].size
                /\ ServerSends(<<Word("SENDFILE")>>)
                /\ spc' = "ROW"
                /\ UNCHANGED <<serverDir, sname>>
             \/ ServerIdle /\ UNCHANGED toClient
    BY <1>4 DEF ServerFileSize
  <2>2. toServer' \in Seq(Datagram) /\ UNCHANGED <<mode, faults, client>>
    BY <1>4, <1>t, <2>1 DEF ServerFileSize
  <2>3. SizeAccepted(toServer[i]) => toServer[i].size \in Nat
    BY <1>0 DEF SizeAccepted, Datagram, Plain
  <2>. QED  BY <1>w, <1>s, <2>1, <2>2, <2>3, UnreceivedType
            DEF ServerIdle, TypeInv, TypeOK, Plain, Cells, DataRow
<1>5. CASE ServerRow
  <2>1. PICK i \in DOMAIN toServer :
          /\ ServerTakes(i)
          /\ \/ RowAccepted(toServer[i], sbuf) /\ sbuf' = WithRow(toServer[i], sbuf)
                  /\ UNCHANGED spc
             \/ spc' = "check" /\ UNCHANGED sbuf
    BY <1>5 DEF ServerRow
  <2>. QED  BY <1>0, <1>5, <1>t, <2>1, WithRowType
            DEF ServerRow, RowAccepted, TypeInv, TypeOK, Cells, DataRow
<1>6. CASE ServerSilence
  BY <1>6 DEF ServerSilence, TypeInv, TypeOK
<1>7. CASE ServerCheck
  <2>1. CASE Complete(sbuf)
    <3>1. serverDir' \in Dir
      BY <1>0, <1>7, <2>1, DirType DEF ServerCheck, TypeInv, TypeOK
    <3>. QED  BY <1>7, <1>s, <1>w, <2>1, <3>1
              DEF ServerCheck, Acknowledgement, TypeInv, TypeOK, Plain
  <2>2. CASE ~Complete(sbuf)
    BY <1>7, <2>2 DEF ServerCheck, TypeInv, TypeOK
  <2>. QED  BY <2>1, <2>2
<1>8. CASE \E c \in mode.commands : UserCommand(c)
  <2>1. PICK c \in mode.commands : UserCommand(c)
    BY <1>8
  <2>2. c[1] \in Operations /\ c[2] \in Names /\ cmds' \in 0..MaxCmds
    BY <1>0, <2>1, TransferAssumption DEF UserCommand, TypeInv, TypeOK
  <2>3. UNCHANGED <<mode, toClient, faults, server, clientDir>> /\ ccmd' = c
    BY <2>1 DEF UserCommand
  <2>4. CASE c[1] = "put" /\ clientDir[c[2]] = NoFile
    BY <2>1, <2>2, <2>3, <2>4 DEF UserCommand, Ends, TypeInv, TypeOK
  <2>5. CASE c[1] = "put" /\ clientDir[c[2]] # NoFile
    <3>1. clientDir[c[2]] \in Seq(Bytes)
      BY <1>d, <2>2, <2>5
    <3>2. /\ csize' \in Nat /\ cbuf' \in Seq(Cells) /\ Len(cbuf') = NumRows(csize')
          /\ cpc' = "SENDSIZE" /\ told' = "none"
      BY <2>1, <2>5, <3>1, RowsOfType DEF UserCommand
    <3>3. toServer' \in Seq(Datagram)
      BY <1>0, <1>c, <1>r, <2>1, <2>5 DEF UserCommand
    <3>. QED  BY <2>2, <2>3, <3>2, <3>3 DEF TypeInv, TypeOK, DataRow, Cells
  <2>6. CASE c[1] # "put"
    BY <1>0, <1>c, <1>r, <2>1, <2>2, <2>3, <2>6 DEF UserCommand, TypeInv, TypeOK
  <2>. QED  BY <2>4, <2>5, <2>6
<1>9. CASE ClientFileSize
  <2>1. PICK i \in DOMAIN toClient :
          /\ ClientTakes(i)
          /\ \/ /\ SizeAccepted(toClient[i])
                /\ cbuf' = Unreceived(toClient[i]) /\ csize' = toClient[i].size
                /\ ClientSends(<<Word("SENDFILE")>>)
                /\ cpc' = "ROW"
                /\ UNCHANGED told
             \/ Ends("failed") /\ UNCHANGED <<toServer, cbuf, csize>>
    BY <1>9 DEF ClientFileSize
  <2>2. /\ toClient' \in Seq(Datagram)
        /\ UNCHANGED <<mode, faults, server, clientDir, ccmd, cmds>>
    BY <1>9, <1>u, <2>1 DEF ClientFileSize
  <2>3. SizeAccepted(toClient[i]) => toClient[i].size \in Nat
    BY <1>0 DEF SizeAccepted, Datagram, Plain
  <2>. QED  BY <1>w, <1>r, <2>1, <2>2, <2>3, UnreceivedType
            DEF Ends, TypeInv, TypeOK, Plain, Cells, DataRow
<1>10. CASE ClientRow
  <2>1. PICK i \in DOMAIN toClient :
          /\ ClientTakes(i)
          /\ \/ RowAccepted(toClient[i], cbuf) /\ cbuf' = WithRow(toClient[i], cbuf)
                  /\ UNCHANGED <<cpc, told>>
             \/ Ends("failed") /\ UNCHANGED cbuf
    BY <1>10 DEF ClientRow
  <2>. QED  BY <1>0, <1>10, <1>u, <2>1, WithRowType
            DEF ClientRow, RowAccepted, Ends, TypeInv, TypeOK, Cells, DataRow
<1>11. CASE ClientSilence
  BY <1>11 DEF ClientSilence, TypeInv, TypeOK
<1>12. CASE ClientCheck
  <2>1. CASE Complete(cbuf)
    <3>1. clientDir' \in Dir
      BY <1>0, <1>12, <2>1, DirType DEF ClientCheck, TypeInv, TypeOK
    <3>. QED  BY <1>12, <1>r, <1>w, <2>1, <3>1
              DEF ClientCheck, Acknowledgement, Ends, TypeInv, TypeOK, Plain
  <2>2. CASE ~Complete(cbuf)
    BY <1>12, <2>2 DEF ClientCheck, TypeInv, TypeOK
  <2>. QED  BY <2>1, <2>2
<1>13. CASE ClientSendSize
  BY <1>13, <1>f, <1>r, <1>u DEF ClientSendSize, Ends, TypeInv, TypeOK
<1>14. CASE ClientSendsFile
  BY <1>0, <1>14, <1>r, <1>u, SentType DEF ClientSendsFile, Ends, TypeInv, TypeOK
<1>15. CASE ClientListens
  BY <1>15, <1>u DEF ClientListens, Ends, TypeInv, TypeOK
<1>16. CASE ClientReply
  BY <1>16, <1>u DEF ClientReply, Ends, TypeInv, TypeOK
<1>17. CASE ClientTimeout
  BY <1>17 DEF ClientTimeout, Ends, TypeInv, TypeOK
<1>18. CASE Lose
  BY <1>18, Left, TransferAssumption DEF Lose, Fault, TypeInv, TypeOK
<1>19. CASE Duplicate
  <2>1. toServer' \in Seq(Datagram)
    <3>1. CASE UNCHANGED toServer
      BY <3>1 DEF TypeInv
    <3>2. CASE \E i \in DOMAIN toServer : ClientSends(<<toServer[i]>>)
      <4>1. PICK i \in DOMAIN toServer : ClientSends(<<toServer[i]>>)
        BY <3>2
      <4>2. <<toServer[i]>> \in Seq(Datagram)
        BY <1>0
      <4>. QED  BY <1>r, <4>1, <4>2
    <3>. QED  BY <1>19, <3>1, <3>2 DEF Duplicate
  <2>2. toClient' \in Seq(Datagram)
    <3>1. CASE UNCHANGED toClient
      BY <3>1 DEF TypeInv
    <3>2. CASE \E i \in DOMAIN toClient : ServerSends(<<toClient[i]>>)
      <4>1. PICK i \in DOMAIN toClient : ServerSends(<<toClient[i]>>)
        BY <3>2
      <4>2. <<toClient[i]>> \in Seq(Datagram)
        BY <1>0
      <4>. QED  BY <1>s, <4>1, <4>2
    <3>. QED  BY <1>19, <3>1, <3>2 DEF Duplicate
  <2>3. faults' \in 0..MaxFaults /\ UNCHANGED <<mode, server, client>>
    BY <1>19, TransferAssumption DEF Duplicate, Fault, TypeInv, TypeOK
  <2>. QED  BY <2>1, <2>2, <2>3 DEF TypeInv, TypeOK
<1>20. CASE UNCHANGED vars
  BY <1>20 DEF vars, TypeInv, TypeOK
<1>. QED  BY <1>1, <1>2, <1>3, <1>4, <1>5, <1>6, <1>7, <1>8, <1>9, <1>10, <1>11, <1>12,
             <1>13, <1>14, <1>15, <1>16, <1>17, <1>18, <1>19, <1>20
          DEF Next, Server, Client, Terminating

LEMMA Types == Spec => []TypeInv
BY InitTypes, StepTypes, PTL DEF Spec

(* Every variable has its type: in particular what either side writes is a *)
(* file, although the rows and the size come from the network.             *)
THEOREM TypeCorrect == Spec => []TypeOK
<1>1. TypeInv => TypeOK
  BY DEF TypeInv
<1>. QED  BY <1>1, Types, PTL
-----------------------------------------------------------------------------
(* What is on its way, where answers come in time and once.                *)

LEMMA Rest ==
  ASSUME NEW T, NEW chan \in Seq(T), NEW i \in DOMAIN chan
  PROVE  /\ \A k \in DOMAIN RemoveAt(chan, i) :
              \E j \in DOMAIN chan : j # i /\ RemoveAt(chan, i)[k] = chan[j]
         /\ Once(chan) => Once(RemoveAt(chan, i))
         /\ Alone(chan) => Alone(RemoveAt(chan, i))
<1> DEFINE rest == RemoveAt(chan, i)
           From(k) == IF k < i THEN k ELSE k + 1
<1>0. /\ rest \in Seq(T) /\ Len(rest) = Len(chan) - 1
      /\ \A k \in 1..(Len(chan) - 1) : rest[k] = IF k < i THEN chan[k] ELSE chan[k + 1]
  BY Left
<1>1. DOMAIN rest = 1..(Len(chan) - 1) /\ \A k \in DOMAIN rest : rest[k] = chan[From(k)]
  <2>1. DOMAIN rest = 1..(Len(chan) - 1)
    <3> HIDE DEF rest
    <3>. QED  BY <1>0
  <2>2. \A k \in 1..(Len(chan) - 1) : rest[k] = chan[From(k)]
    BY <1>0
  <2> HIDE DEF rest, From
  <2>. QED  BY <2>1, <2>2
<1>2. \A k \in DOMAIN rest : From(k) \in DOMAIN chan /\ From(k) # i
  BY <1>1
<1>3. \A k, l \in DOMAIN rest : From(k) = From(l) => k = l
  BY <1>1
<1> HIDE DEF rest, From
<1>4. Once(chan) => Once(rest)
  BY <1>1, <1>2, <1>3 DEF Once
<1>5. Alone(chan) => Alone(rest)
  BY <1>1, <1>2, <1>3 DEF Alone
<1>. QED  BY <1>1, <1>2, <1>4, <1>5 DEF rest

(* Nothing is left of a channel of equal datagrams that are no rows.       *)
LEMMA NothingLeft ==
  ASSUME NEW T, NEW chan \in Seq(T), NEW i \in DOMAIN chan, Once(chan),
         chan[i].type # "ROW", \A j \in DOMAIN chan : chan[j] = chan[i]
  PROVE  RemoveAt(chan, i) = <<>>
<1>1. \A j \in DOMAIN chan : j = i
  BY DEF Once
<1>2. Len(chan) = 1
  <2>1. 1 \in DOMAIN chan /\ Len(chan) \in DOMAIN chan
    OBVIOUS
  <2>. QED  BY <1>1, <2>1
<1>3. RemoveAt(chan, i) \in Seq(T) /\ Len(RemoveAt(chan, i)) = 0
  BY <1>2, Left
<1>. QED  BY <1>3

(* A sender's rows, sent when nothing else is on its way.                  *)
LEMMA SentIs ==
  ASSUME NEW buf \in Seq(Cells)
  PROVE  /\ DOMAIN Sent(buf) = DOMAIN buf
         /\ \A i \in DOMAIN buf : Sent(buf)[i] = Row(buf, i) /\ Sent(buf)[i].type = "ROW"
  BY DEF Sent, Row

(* Rows that have all come are those of the sender.                        *)
LEMMA AllCame ==
  ASSUME NEW from \in Seq(Cells), NEW to \in Seq(Cells), Partial(to, from), Complete(to)
  PROVE  to = from
<1>1. DOMAIN to = DOMAIN from /\ \A i \in DOMAIN to : to[i] = from[i]
  BY DEF Partial, Complete
<1>. QED  BY <1>1

(* A row that is received is one more.                                     *)
LEMMA OneMore ==
  ASSUME NEW from \in Seq(Cells), NEW to \in Seq(Cells), Partial(to, from),
         NEW i \in DOMAIN from, NEW m, m = Row(from, i)
  PROVE  RowAccepted(m, to) /\ Partial(WithRow(m, to), from)
<1>1. m.type = "ROW" /\ m.num = i /\ m.total = Len(from) /\ m.data = from[i]
  BY DEF Row
<1>2. Len(to) = Len(from)
  BY DEF Partial
<1>3. DOMAIN WithRow(m, to) = DOMAIN to
  BY DEF WithRow
<1>4. \A k \in DOMAIN to : WithRow(m, to)[k] = IF k = i THEN from[i] ELSE to[k]
  BY <1>1 DEF WithRow
<1>. QED  BY <1>1, <1>2, <1>3, <1>4 DEF RowAccepted, Partial

(* A buffer for the rows of a file that is not empty.                      *)
LEMMA EmptyBuffer ==
  ASSUME NEW f \in Seq(Bytes), NEW m, m.size = Len(f), Len(f) > 0
  PROVE  /\ Partial(Unreceived(m), RowsOf(f)) /\ Awaited(Unreceived(m))
         /\ DOMAIN RowsOf(f) # {}
<1> DEFINE n == NumRows(Len(f))
<1>1. n \in Nat /\ n * RowLen >= Len(f)
  BY RowsEnough
<1>2. n # 0
  <2>1. 0 * RowLen = 0
    BY TransferAssumption
  <2> HIDE DEF n
  <2>. QED  BY <1>1, <2>1
<1>3. DOMAIN RowsOf(f) = 1..n
  BY DEF RowsOf
<1>4. Unreceived(m) = [i \in 1..n |-> NoRow]
  BY DEF Unreceived
<1>5. 1 \in 1..n
  BY <1>1, <1>2
<1> HIDE DEF n
<1>. QED  BY <1>3, <1>4, <1>5 DEF Partial, Awaited

(* A file that the server writes is the client's.                          *)
LEMMA PutWhole ==
  ASSUME TypeInv, Orderly, TalkInv, ServerCheck, Complete(sbuf)
  PROVE  /\ clientDir[ccmd[2]] \in Seq(Bytes) /\ cpc = "ALLREC" /\ spc' = "main"
         /\ serverDir' = [serverDir EXCEPT ![ccmd[2]] = clientDir[ccmd[2]]]
<1>0. ccmd[2] \in Names /\ sbuf \in Seq(Cells) /\ cbuf \in Seq(Cells) /\ ~mode.diskMayFail
  BY TransferAssumption DEF TypeInv, TypeOK, Mode, Cells, DataRow, Orderly, Sound
<1>1. /\ spc = "check" /\ cpc \in {"SENDFILE", "ALLREC"} /\ sname = ccmd[2] /\ ssize = csize
      /\ Loaded(cbuf, csize, clientDir) /\ csize > 0 /\ Partial(sbuf, cbuf)
  BY DEF ServerCheck, TalkInv, AskInv, PutInv
<1>2. clientDir[ccmd[2]] \in Seq(Bytes)
  BY <1>0, <1>1 DEF Loaded, TypeInv, TypeOK, Dir
<1>3. cpc = "ALLREC"
  <2>1. DOMAIN sbuf # {}
    <3> DEFINE m == FileSize(csize)
    <3>1. m.size = csize
      BY DEF FileSize
    <3> HIDE DEF m
    <3>. QED  BY <1>1, <1>2, <3>1, EmptyBuffer DEF Loaded, Partial
  <2>2. ~Awaited(sbuf)
    BY <2>1 DEF Awaited, Complete
  <2>. QED  BY <1>1, <2>2 DEF TalkInv, PutInv
<1>4. FileOf(sbuf, ssize) = clientDir[ccmd[2]]
  <2>1. sbuf = cbuf
    BY <1>0, <1>1, AllCame
  <2>. QED  BY <1>1, <1>2, <2>1, RowsMakeTheFile DEF Loaded
<1>. QED  BY <1>0, <1>1, <1>2, <1>3, <1>4 DEF ServerCheck, Written

LEMMA ServerTalks ==
  ASSUME TypeInv, Orderly, TalkInv, Server
  PROVE  TalkInv'
<1> USE DEF net, server, client
<1>0. /\ toServer \in Seq(Datagram) /\ toClient \in Seq(Datagram)
      /\ sbuf \in Seq(Cells) /\ cbuf \in Seq(Cells) /\ ssize \in Nat /\ csize \in Nat
      /\ ccmd[1] \in Operations /\ ccmd[2] \in Names
      /\ mode.timely /\ ~mode.diskMayFail /\ sname \in Names
  BY TransferAssumption DEF TypeInv, TypeOK, Mode, Cells, DataRow, Orderly, Sound
<1>1. ASSUME NEW i \in DOMAIN toServer, ServerTakes(i)
      PROVE  /\ toClient = <<>> /\ toServer' = RemoveAt(toServer, i)
             /\ \A j \in DOMAIN toServer : ServerMay(toServer[j])
             /\ \A k \in DOMAIN toServer' : \E j \in DOMAIN toServer : j # i /\ (toServer[k])' = toServer[j]
  <2>1. toServer # <<>>
    OBVIOUS
  <2>2. toServer' = RemoveAt(toServer, i)
    BY <1>1 DEF ServerTakes
  <2>3. \A k \in DOMAIN toServer' : \E j \in DOMAIN toServer : j # i /\ (toServer[k])' = toServer[j]
    BY <1>0, <2>2, Rest
  <2>. QED  BY <2>1, <2>2, <2>3 DEF TalkInv, NetInv
<1>2. CASE ServerCommand
  <2>1. PICK i \in DOMAIN toServer : ServerTakes(i) /\ CommandStep(toServer[i])
    BY <1>2, CommandCases
  <2>2. \A j \in DOMAIN toServer : toServer[j] = Command(ccmd) /\ cpc \in First
    BY <1>1, <1>2, <2>1 DEF ServerMay, ServerCommand
  <2>3. /\ toServer' = <<>> /\ toClient = <<>> /\ UNCHANGED <<mode, faults, client>>
        /\ spc = "main"
    <3>1. Once(toServer) /\ toServer[i].type # "ROW"
      BY <1>2, <2>2 DEF ServerCommand, TalkInv, NetInv, Command
    <3>. QED  BY <1>0, <1>1, <1>2, <2>1, <2>2, <3>1, NothingLeft DEF ServerCommand
  <2>4. CommandStep(Command(ccmd)) /\ cpc \in First
    BY <2>1, <2>2
  <2>5. AskInv' /\ GetInv' /\ PutInv' /\ ToldInv'
    <3>1. spc' \in {"main", "SENDFILE", "FILESIZE"}
      BY <2>3, <2>4
         DEF CommandStep, Dropped, Offered, Missing, Deleted, Expected, Answered
    <3>. QED  BY <2>3, <2>4, <3>1
       DEF TalkInv, AskInv, GetInv, PutInv, ToldInv, Loaded, First
  <2>6. NetInv'
    <3>0. /\ cpc = "FILESIZE" <=> ccmd[1] = "get"
          /\ cpc = "SENDSIZE" <=> ccmd[1] = "put"
          /\ cpc = "reply" <=> ccmd[1] \in {"delete", "ls"}
          /\ cpc = "GOODBYE" <=> ccmd[1] = "exit"
      BY <2>4 DEF TalkInv, AskInv, First
    <3>1. SUFFICES \E x : toClient' = <<x>> /\ ClientMay(x)'
      BY <2>3 DEF NetInv, Once, Alone
    <3>2. \A x : ServerSends(<<x>>) => toClient' = <<x>>
      BY <2>3 DEF ServerSends
    <3>3. CASE Offered(Command(ccmd))
      BY <2>3, <3>0, <3>2, <3>3 DEF Offered, Command, ClientMay, Loaded
    <3>4. CASE Missing(Command(ccmd))
      BY <2>3, <3>0, <3>2, <3>4 DEF Missing, Command, ClientMay
    <3>5. CASE Deleted(Command(ccmd))
      BY <1>0, <2>3, <3>0, <3>2, <3>5
         DEF Deleted, Command, ClientMay, TypeInv, TypeOK, Dir
    <3>6. CASE Expected(Command(ccmd))
      BY <2>3, <3>0, <3>2, <3>6 DEF Expected, Command, ClientMay
    <3>7. CASE Answered(Command(ccmd))
      BY <2>3, <3>0, <3>2, <3>7 DEF Answered, Command, ClientMay
    <3>8. ~Dropped(Command(ccmd))
      BY DEF Dropped, Command
    <3>. QED  BY <2>4, <3>3, <3>4, <3>5, <3>6, <3>7, <3>8 DEF CommandStep
  <2>. QED  BY <2>5, <2>6 DEF TalkInv
<1>3. CASE ServerSendsFile
  <2>1. PICK i \in DOMAIN toServer :
          /\ ServerTakes(i)
          /\ \/ /\ toServer[i].type = "SENDFILE"
                /\ ServerSends(Sent(sbuf))
                /\ spc' = "ALLREC"
                /\ UNCHANGED <<serverDir, sname, sbuf, ssize>>
             \/ toServer[i].type # "SENDFILE" /\ ServerIdle /\ UNCHANGED toClient
    BY <1>3 DEF ServerSendsFile
  <2>2. \A j \in DOMAIN toServer :
          \/ toServer[j] = Command(ccmd) /\ cpc \in First
          \/ toServer[j] = Word("SENDFILE") /\ cpc = "ROW"
    BY <1>1, <1>3, <2>1 DEF ServerMay, ServerSendsFile
  <2>3. /\ toServer' = <<>> /\ toClient = <<>> /\ UNCHANGED <<mode, faults, client>>
        /\ spc = "SENDFILE"
    <3>1. Once(toServer) /\ toServer[i].type # "ROW" /\ \A j \in DOMAIN toServer : toServer[j] = toServer[i]
      BY <1>3, <2>2 DEF ServerSendsFile, TalkInv, NetInv, Command, Word, First
    <3>. QED  BY <1>0, <1>1, <1>3, <2>1, <3>1, NothingLeft DEF ServerSendsFile
  <2>4. CASE toServer[i].type = "SENDFILE"
    <3>1. /\ cpc = "ROW" /\ spc' = "ALLREC" /\ UNCHANGED <<serverDir, sname, sbuf, ssize>>
          /\ toClient' = Sent(sbuf)
      BY <1>0, <2>1, <2>2, <2>3, <2>4, SentType DEF Command, First, ServerSends
    <3>2. NetInv'
      BY <1>0, <2>3, <3>1, SentIs DEF NetInv, ClientMay, Once, Alone
    <3>. QED  BY <2>3, <3>1, <3>2 DEF TalkInv, AskInv, GetInv, PutInv, ToldInv, Loaded
  <2>5. CASE toServer[i].type # "SENDFILE"
    <3>1. /\ cpc \in First /\ spc' = "main" /\ UNCHANGED <<serverDir, sname, sbuf, ssize>>
          /\ toClient' = <<>>
      BY <2>1, <2>2, <2>3, <2>5 DEF Word, ServerIdle
    <3>. QED  BY <2>3, <3>1
       DEF TalkInv, NetInv, Once, Alone, AskInv, GetInv, PutInv, ToldInv,
                                Loaded, First
  <2>. QED  BY <2>4, <2>5
<1>4. CASE ServerListens
  <2>1. PICK i \in DOMAIN toServer :
          ServerTakes(i) /\ spc' = IF toServer[i].type = "ALLREC" THEN "main" ELSE spc
    BY <1>4 DEF ServerListens
  <2>2. \A j \in DOMAIN toServer :
          \/ toServer[j] = Word("ALLREC") /\ cpc \in First \cup {"user"}
          \/ toServer[j] = Command(ccmd) /\ cpc \in First
    BY <1>1, <1>4, <2>1 DEF ServerMay, ServerListens
  <2>3. /\ toServer' = RemoveAt(toServer, i) /\ Once(toServer) /\ toClient = <<>>
        /\ UNCHANGED <<mode, faults, client, toClient, serverDir, sname, sbuf, ssize>>
        /\ spc = "ALLREC" /\ cpc \in First \cup {"user"}
    BY <1>1, <1>4, <2>1, <2>2 DEF ServerListens, TalkInv, NetInv
  <2>4. \A k \in DOMAIN toServer' : ServerMay(toServer[k])'
    <3> SUFFICES ASSUME NEW k \in DOMAIN toServer' PROVE ServerMay(toServer[k])'
      OBVIOUS
    <3>1. PICK j \in DOMAIN toServer : j # i /\ (toServer[k])' = toServer[j]
      BY <1>1, <2>1
    <3>2. CASE toServer[i].type = "ALLREC"
      <4>1. toServer[j] = Command(ccmd) /\ cpc \in First
        BY <2>2, <2>3, <3>1, <3>2 DEF Once, Word, Command
      <4>. QED  BY <2>1, <2>3, <3>1, <3>2, <4>1 DEF ServerMay
    <3>3. CASE toServer[i].type # "ALLREC"
      BY <2>1, <2>2, <2>3, <3>1, <3>3 DEF ServerMay
    <3>. QED  BY <3>2, <3>3
  <2>5. Once(toServer')
    BY <1>0, <2>3, Rest
  <2>6. NetInv'
    BY <2>3, <2>4, <2>5 DEF NetInv, Once, Alone
  <2>7. ToldInv'
    BY <2>3 DEF TalkInv, ToldInv, SuccessIsTrue, Sound
  <2>8. spc' \in {"main", "ALLREC"}
    BY <2>1, <2>3
  <2>. QED  BY <2>3, <2>6, <2>7, <2>8 DEF TalkInv, AskInv, GetInv, PutInv, Loaded, First
<1>5. CASE ServerFileSize
  <2>1. PICK i \in DOMAIN toServer :
          /\ ServerTakes(i)
          /\ \/ /\ SizeAccepted(toServer[i])
                /\ sbuf' = Unreceived(toServer[i]) /\ ssize' = toServer[i].size
                /\ ServerSends(<<Word("SENDFILE")>>)
                /\ spc' = "ROW"
                /\ UNCHANGED <<serverDir, sname>>
             \/ ServerIdle /\ UNCHANGED toClient
    BY <1>5 DEF ServerFileSize
  <2>2. \A j \in DOMAIN toServer :
          \/ toServer[j] = Command(ccmd) /\ cpc \in First
          \/ toServer[j] = FileSize(csize) /\ cpc = "SENDFILE" /\ sname = ccmd[2]
    BY <1>1, <1>5, <2>1 DEF ServerMay, ServerFileSize
  <2>3. /\ toServer' = <<>> /\ toClient = <<>> /\ UNCHANGED <<mode, faults, client>>
        /\ spc = "FILESIZE"
    <3>1. Once(toServer) /\ toServer[i].type # "ROW" /\ \A j \in DOMAIN toServer : toServer[j] = toServer[i]
      BY <1>5, <2>2 DEF ServerFileSize, TalkInv, NetInv, Command, FileSize, First
    <3>. QED  BY <1>0, <1>1, <1>5, <2>1, <3>1, NothingLeft DEF ServerFileSize
  <2>4. CASE spc' = "ROW"
    <3>1. /\ cpc = "SENDFILE" /\ sname = ccmd[2] /\ csize > 0 /\ toServer[i].size = csize
          /\ sbuf' = Unreceived(toServer[i]) /\ ssize' = csize
          /\ toClient' = <<Word("SENDFILE")>> /\ UNCHANGED <<serverDir, sname>>
      BY <2>1, <2>2, <2>3, <2>4
         DEF SizeAccepted, FileSize, Command, First, ServerIdle, ServerSends
    <3>2. Partial(sbuf, cbuf)' /\ Awaited(sbuf)'
      <4>1. clientDir[ccmd[2]] \in Seq(Bytes) /\ cbuf = RowsOf(clientDir[ccmd[2]]) /\ csize = Len(clientDir[ccmd[2]])
        BY <1>0, <3>1 DEF TalkInv, AskInv, Loaded, TypeInv, TypeOK, Dir
      <4>. QED  BY <2>3, <3>1, <4>1, EmptyBuffer DEF Partial, Awaited
    <3>3. NetInv'
      BY <2>3, <2>4, <3>1 DEF NetInv, ClientMay, Once, Alone
    <3>. QED  BY <2>3, <2>4, <3>1, <3>2, <3>3
       DEF TalkInv, AskInv, GetInv, PutInv, ToldInv, Loaded
  <2>5. CASE ServerIdle /\ UNCHANGED toClient
    <3>1. cpc \in First \cup {"SENDFILE"}
      BY <2>2
    <3>. QED  BY <2>3, <2>5, <3>1
       DEF ServerIdle, TalkInv, NetInv, Once, Alone, AskInv, GetInv,
                                       PutInv, ToldInv, Loaded, First
  <2>. QED  BY <2>1, <2>4, <2>5
<1>6. CASE ServerRow
  <2>1. PICK i \in DOMAIN toServer :
          /\ ServerTakes(i)
          /\ \/ RowAccepted(toServer[i], sbuf) /\ sbuf' = WithRow(toServer[i], sbuf)
                  /\ UNCHANGED spc
             \/ ~RowAccepted(toServer[i], sbuf) /\ spc' = "check" /\ UNCHANGED sbuf
    BY <1>6 DEF ServerRow
  <2>2. \A j \in DOMAIN toServer :
          (\E r \in DOMAIN cbuf : toServer[j] = Row(cbuf, r)) /\ cpc = "ALLREC"
    BY <1>1, <1>6, <2>1 DEF ServerMay, ServerRow
  <2>3. /\ Partial(sbuf, cbuf) /\ cpc = "ALLREC" /\ spc = "ROW" /\ toClient = <<>>
        /\ toServer' = RemoveAt(toServer, i)
        /\ UNCHANGED <<mode, toClient, faults, serverDir, sname, ssize, client>>
    BY <1>1, <1>6, <2>1, <2>2 DEF ServerRow, TalkInv, PutInv
  <2>4. spc' = "ROW" /\ Partial(sbuf, cbuf)'
    <3>1. RowAccepted(toServer[i], sbuf) /\ Partial(WithRow(toServer[i], sbuf), cbuf)
      BY <1>0, <2>2, <2>3, OneMore
    <3>. QED  BY <2>1, <2>3, <3>1 DEF Partial
  <2>5. \A k \in DOMAIN toServer' : ServerMay(toServer[k])'
    <3> SUFFICES ASSUME NEW k \in DOMAIN toServer' PROVE ServerMay(toServer[k])'
      OBVIOUS
    <3>1. PICK j \in DOMAIN toServer : (toServer[k])' = toServer[j]
      BY <1>1, <2>1
    <3>. QED  BY <2>2, <2>3, <2>4, <3>1 DEF ServerMay
  <2>6. Once(toServer')
    BY <1>0, <2>3, Rest DEF TalkInv, NetInv
  <2>7. NetInv'
    BY <2>3, <2>5, <2>6 DEF NetInv, Alone
  <2>. QED  BY <2>3, <2>4, <2>7 DEF TalkInv, AskInv, GetInv, PutInv, ToldInv, Loaded
<1>7. CASE ServerSilence
  <2>1. /\ spc = "ROW" /\ spc' = "check" /\ toServer = <<>> /\ toClient = <<>>
        /\ UNCHANGED <<mode, net, faults, serverDir, sname, sbuf, ssize, client>>
    BY <1>0, <1>7 DEF ServerSilence, NothingForServer, TalkInv, PutInv
  <2>. QED  BY <2>1 DEF TalkInv, NetInv, Once, Alone, AskInv, GetInv, PutInv, ToldInv,
       Loaded, Partial, Awaited
<1>8. CASE ServerCheck
  <2>1. /\ spc = "check" /\ toServer = <<>> /\ toClient = <<>> /\ cpc \in {"SENDFILE", "ALLREC"}
        /\ Loaded(cbuf, csize, clientDir) /\ csize > 0 /\ Partial(sbuf, cbuf)
        /\ sname = ccmd[2] /\ ssize = csize
        /\ UNCHANGED <<mode, toServer, faults, sname, sbuf, ssize, client>>
    BY <1>8 DEF ServerCheck, TalkInv, AskInv, PutInv
  <2>2. CASE ~Complete(sbuf)
    BY <1>8, <2>1, <2>2
       DEF ServerCheck, TalkInv, NetInv, Once, Alone, AskInv, GetInv, PutInv, ToldInv,
       Loaded
  <2>3. CASE Complete(sbuf)
    <3>1. /\ clientDir[ccmd[2]] \in Seq(Bytes) /\ cpc = "ALLREC" /\ spc' = "main"
          /\ serverDir' = [serverDir EXCEPT ![ccmd[2]] = clientDir[ccmd[2]]]
      BY <1>8, <2>3, PutWhole
    <3>2. (serverDir[ccmd[2]])' = (clientDir[ccmd[2]])'
      BY <1>0, <2>1, <3>1 DEF TypeInv, TypeOK, Dir
    <3>3. toClient' = <<Word("ALLREC")>>
      BY <1>8, <2>1, <2>3 DEF ServerCheck, ServerSends, Acknowledgement
    <3>4. NetInv'
      BY <2>1, <3>1, <3>2, <3>3 DEF NetInv, ClientMay, Once, Alone
    <3>. QED  BY <2>1, <3>1, <3>4 DEF TalkInv, AskInv, GetInv, PutInv, ToldInv, Loaded
  <2>. QED  BY <2>2, <2>3
<1>. QED  BY <1>2, <1>3, <1>4, <1>5, <1>6, <1>7, <1>8 DEF Server

(* A file that the client writes is the server's.                          *)
LEMMA GetWhole ==
  ASSUME TypeInv, Orderly, TalkInv, ClientCheck, Complete(cbuf)
  PROVE  /\ serverDir[ccmd[2]] \in Seq(Bytes) /\ spc = "ALLREC"
         /\ cpc' = "user" /\ told' = "done"
         /\ clientDir' = [clientDir EXCEPT ![ccmd[2]] = serverDir[ccmd[2]]]
<1>0. ccmd[2] \in Names /\ sbuf \in Seq(Cells) /\ cbuf \in Seq(Cells) /\ ~mode.diskMayFail
  BY TransferAssumption DEF TypeInv, TypeOK, Mode, Cells, DataRow, Orderly, Sound
<1>1. /\ cpc = "check" /\ spc \in {"SENDFILE", "ALLREC"} /\ csize = ssize
      /\ Loaded(sbuf, ssize, serverDir) /\ csize > 0 /\ Partial(cbuf, sbuf)
  BY DEF ClientCheck, TalkInv, GetInv
<1>2. serverDir[ccmd[2]] \in Seq(Bytes)
  BY <1>0, <1>1 DEF Loaded, TypeInv, TypeOK, Dir
<1>3. spc = "ALLREC"
  <2>1. DOMAIN cbuf # {}
    <3> DEFINE m == FileSize(ssize)
    <3>1. m.size = ssize
      BY DEF FileSize
    <3> HIDE DEF m
    <3>. QED  BY <1>1, <1>2, <3>1, EmptyBuffer DEF Loaded, Partial
  <2>2. ~Awaited(cbuf)
    BY <2>1 DEF Awaited, Complete
  <2>. QED  BY <1>1, <2>2 DEF TalkInv, GetInv
<1>4. FileOf(cbuf, csize) = serverDir[ccmd[2]]
  <2>1. cbuf = sbuf
    BY <1>0, <1>1, AllCame
  <2>. QED  BY <1>1, <1>2, <2>1, RowsMakeTheFile DEF Loaded
<1>. QED  BY <1>0, <1>1, <1>2, <1>3, <1>4 DEF ClientCheck, Written, Ends

LEMMA ClientTalks ==
  ASSUME TypeInv, Orderly, TalkInv, Client
  PROVE  TalkInv'
<1> USE DEF net, server, client
<1>0. /\ toServer \in Seq(Datagram) /\ toClient \in Seq(Datagram)
      /\ sbuf \in Seq(Cells) /\ cbuf \in Seq(Cells) /\ ssize \in Nat /\ csize \in Nat
      /\ ccmd[1] \in Operations /\ ccmd[2] \in Names
      /\ mode.timely /\ ~mode.diskMayFail
  BY TransferAssumption DEF TypeInv, TypeOK, Mode, Cells, DataRow, Orderly, Sound
<1>1. ASSUME NEW i \in DOMAIN toClient, ClientTakes(i)
      PROVE  /\ toServer = <<>> /\ toClient' = RemoveAt(toClient, i)
             /\ \A j \in DOMAIN toClient : ClientMay(toClient[j])
             /\ \A k \in DOMAIN toClient' : \E j \in DOMAIN toClient : j # i /\ (toClient[k])' = toClient[j]
             /\ Alone(toClient)'
             /\ toClient[i].type # "ROW" => toClient' = <<>>
  <2>1. toClient # <<>>
    OBVIOUS
  <2>2. toClient' = RemoveAt(toClient, i) /\ Alone(toClient)
    BY <1>1 DEF ClientTakes, TalkInv, NetInv
  <2>3. \A k \in DOMAIN toClient' : \E j \in DOMAIN toClient : j # i /\ (toClient[k])' = toClient[j]
    BY <1>0, <2>2, Rest
  <2>4. Alone(toClient)'
    <3>1. Alone(RemoveAt(toClient, i))
      BY <1>0, <2>2, Rest
    <3>. QED  BY <2>2, <3>1 DEF Alone
  <2>5. toClient[i].type # "ROW" => toClient' = <<>>
    <3> SUFFICES ASSUME toClient[i].type # "ROW" PROVE toClient' = <<>>
      OBVIOUS
    <3>1. Once(toClient) /\ \A j \in DOMAIN toClient : toClient[j] = toClient[i]
      BY <2>2 DEF Once, Alone
    <3>. QED  BY <1>0, <2>2, <3>1, NothingLeft
  <2>. QED  BY <2>1, <2>2, <2>3, <2>4, <2>5 DEF TalkInv, NetInv
<1>2. CASE ClientFileSize
  <2>1. PICK i \in DOMAIN toClient :
          /\ ClientTakes(i)
          /\ \/ /\ SizeAccepted(toClient[i])
                /\ cbuf' = Unreceived(toClient[i]) /\ csize' = toClient[i].size
                /\ ClientSends(<<Word("SENDFILE")>>)
                /\ cpc' = "ROW"
                /\ UNCHANGED told
             \/ Ends("failed") /\ UNCHANGED <<toServer, cbuf, csize>>
    BY <1>2 DEF ClientFileSize
  <2>2. \/ toClient[i] = Word("FAIL") /\ spc = "main"
        \/ toClient[i] = FileSize(ssize) /\ spc = "SENDFILE" /\ Loaded(sbuf, ssize, serverDir)
    BY <1>1, <1>2, <2>1 DEF ClientMay, ClientFileSize
  <2>3. /\ toClient' = <<>> /\ toServer = <<>> /\ cpc = "FILESIZE"
        /\ UNCHANGED <<mode, faults, server, clientDir, ccmd, cmds>>
    BY <1>1, <1>2, <2>1, <2>2 DEF ClientFileSize, Word, FileSize
  <2>4. CASE cpc' = "ROW"
    <3>1. /\ spc = "SENDFILE" /\ Loaded(sbuf, ssize, serverDir)
          /\ ssize > 0 /\ toClient[i].size = ssize
          /\ cbuf' = Unreceived(toClient[i]) /\ csize' = ssize
          /\ toServer' = <<Word("SENDFILE")>> /\ UNCHANGED told
      BY <2>1, <2>2, <2>3, <2>4 DEF SizeAccepted, FileSize, Word, Ends, ClientSends
    <3>2. Partial(cbuf, sbuf)' /\ Awaited(cbuf)'
      <4>1. /\ serverDir[ccmd[2]] \in Seq(Bytes)
            /\ sbuf = RowsOf(serverDir[ccmd[2]]) /\ ssize = Len(serverDir[ccmd[2]])
        BY <1>0, <3>1 DEF Loaded, TypeInv, TypeOK, Dir
      <4>. QED  BY <2>3, <3>1, <4>1, EmptyBuffer DEF Partial, Awaited
    <3>3. NetInv'
      BY <2>3, <2>4, <3>1 DEF NetInv, ServerMay, Once, Alone
    <3>. QED  BY <2>3, <2>4, <3>1, <3>2, <3>3
              DEF TalkInv, AskInv, GetInv, PutInv, ToldInv, Loaded
  <2>5. CASE Ends("failed") /\ UNCHANGED <<toServer, cbuf, csize>>
    BY <2>2, <2>3, <2>5
       DEF Ends, TalkInv, NetInv, Once, Alone, AskInv, GetInv, PutInv, ToldInv
  <2>. QED  BY <2>1, <2>4, <2>5
<1>3. CASE ClientRow
  <2>1. PICK i \in DOMAIN toClient :
          /\ ClientTakes(i)
          /\ \/ RowAccepted(toClient[i], cbuf) /\ cbuf' = WithRow(toClient[i], cbuf)
                  /\ UNCHANGED <<cpc, told>>
             \/ ~RowAccepted(toClient[i], cbuf) /\ Ends("failed") /\ UNCHANGED cbuf
    BY <1>3 DEF ClientRow
  <2>2. \A j \in DOMAIN toClient :
          (\E r \in DOMAIN sbuf : toClient[j] = Row(sbuf, r)) /\ spc = "ALLREC"
    BY <1>1, <1>3, <2>1 DEF ClientMay, ClientRow
  <2>3. /\ Partial(cbuf, sbuf) /\ cpc = "ROW" /\ spc = "ALLREC" /\ toServer = <<>>
        /\ Alone(toClient)'
        /\ UNCHANGED <<mode, toServer, faults, server, clientDir, ccmd, csize, cmds>>
    BY <1>1, <1>3, <2>1, <2>2 DEF ClientRow, TalkInv, GetInv
  <2>4. UNCHANGED <<cpc, told>> /\ Partial(cbuf, sbuf)'
    <3>1. RowAccepted(toClient[i], cbuf) /\ Partial(WithRow(toClient[i], cbuf), sbuf)
      BY <1>0, <2>2, <2>3, OneMore
    <3>. QED  BY <2>1, <2>3, <3>1 DEF Partial
  <2>5. \A k \in DOMAIN toClient' : ClientMay(toClient[k])'
    <3> SUFFICES ASSUME NEW k \in DOMAIN toClient' PROVE ClientMay(toClient[k])'
      OBVIOUS
    <3>1. PICK j \in DOMAIN toClient : (toClient[k])' = toClient[j]
      BY <1>1, <2>1
    <3>. QED  BY <2>2, <2>3, <2>4, <3>1 DEF ClientMay
  <2>6. NetInv'
    BY <2>3, <2>5 DEF NetInv, Once
  <2>. QED  BY <2>3, <2>4, <2>6 DEF TalkInv, AskInv, GetInv, PutInv, ToldInv, Loaded
<1>4. CASE ClientSilence
  <2>1. /\ cpc = "ROW" /\ cpc' = "check" /\ toServer = <<>> /\ toClient = <<>>
        /\ UNCHANGED <<mode, net, faults, server, clientDir, ccmd, cbuf, csize, told, cmds>>
    BY <1>0, <1>4 DEF ClientSilence, NothingForClient, TalkInv, GetInv
  <2>. QED  BY <2>1
     DEF TalkInv, NetInv, Once, Alone, AskInv, GetInv, PutInv, ToldInv, Loaded,
                        Partial, Awaited
<1>5. CASE ClientCheck
  <2>1. /\ cpc = "check" /\ toServer = <<>> /\ toClient = <<>> /\ spc \in {"SENDFILE", "ALLREC"}
        /\ Loaded(sbuf, ssize, serverDir) /\ csize > 0 /\ Partial(cbuf, sbuf)
        /\ ccmd[1] = "get" /\ csize = ssize
        /\ UNCHANGED <<mode, toClient, faults, server, ccmd, cbuf, csize, cmds>>
    BY <1>5 DEF ClientCheck, TalkInv, AskInv, GetInv
  <2>2. CASE ~Complete(cbuf)
    BY <1>5, <2>1, <2>2
       DEF ClientCheck, TalkInv, NetInv, Once, Alone, AskInv, GetInv, PutInv,
                            ToldInv, Loaded
  <2>3. CASE Complete(cbuf)
    <3>1. /\ serverDir[ccmd[2]] \in Seq(Bytes) /\ spc = "ALLREC"
          /\ cpc' = "user" /\ told' = "done"
          /\ clientDir' = [clientDir EXCEPT ![ccmd[2]] = serverDir[ccmd[2]]]
      BY <1>5, <2>3, GetWhole
    <3>2. (clientDir[ccmd[2]])' = (serverDir[ccmd[2]])'
      BY <1>0, <2>1, <3>1 DEF TypeInv, TypeOK, Dir
    <3>3. toServer' = <<Word("ALLREC")>>
      BY <1>5, <2>1, <2>3 DEF ClientCheck, ClientSends, Acknowledgement
    <3>4. NetInv'
      BY <2>1, <3>1, <3>3 DEF NetInv, ServerMay, Once, Alone
    <3>5. ToldInv'
      BY <2>1, <3>1, <3>2 DEF ToldInv, SuccessIsTrue, Loaded
    <3>. QED  BY <2>1, <3>1, <3>4, <3>5 DEF TalkInv, AskInv, GetInv, PutInv
  <2>. QED  BY <2>2, <2>3
<1>6. CASE ClientSendSize
  <2>1. PICK i \in DOMAIN toClient :
          /\ ClientTakes(i)
          /\ \/ /\ toClient[i].type = "SENDSIZE"
                /\ ClientSends(<<FileSize(csize)>>)
                /\ cpc' = "SENDFILE"
                /\ UNCHANGED told
             \/ toClient[i].type # "SENDSIZE" /\ Ends("failed") /\ UNCHANGED toServer
    BY <1>6 DEF ClientSendSize
  <2>2. toClient[i] = Word("SENDSIZE") /\ spc = "FILESIZE" /\ sname = ccmd[2]
    BY <1>1, <1>6, <2>1 DEF ClientMay, ClientSendSize
  <2>3. /\ toClient' = <<>> /\ toServer' = <<FileSize(csize)>>
        /\ cpc = "SENDSIZE" /\ cpc' = "SENDFILE"
        /\ UNCHANGED <<told, mode, faults, server, clientDir, ccmd, cbuf, csize, cmds>>
    BY <1>1, <1>6, <2>1, <2>2 DEF ClientSendSize, Word, ClientSends
  <2>. QED  BY <2>2, <2>3
     DEF TalkInv, NetInv, ServerMay, Once, Alone, AskInv, GetInv, PutInv,
                              ToldInv, Loaded
<1>7. CASE ClientSendsFile
  <2>1. PICK i \in DOMAIN toClient :
          /\ ClientTakes(i)
          /\ \/ /\ toClient[i].type = "SENDFILE"
                /\ ClientSends(Sent(cbuf))
                /\ cpc' = "ALLREC"
                /\ UNCHANGED told
             \/ toClient[i].type # "SENDFILE" /\ Ends("failed") /\ UNCHANGED toServer
    BY <1>7 DEF ClientSendsFile
  <2>2. toClient[i] = Word("SENDFILE") /\ spc = "ROW"
    BY <1>1, <1>7, <2>1 DEF ClientMay, ClientSendsFile
  <2>3. /\ toClient' = <<>> /\ toServer' = Sent(cbuf)
        /\ cpc = "SENDFILE" /\ cpc' = "ALLREC"
        /\ UNCHANGED <<told, mode, faults, server, clientDir, ccmd, cbuf, csize, cmds>>
    <3>1. <<>> \o Sent(cbuf) = Sent(cbuf)
      BY <1>0, SentType
    <3>2. toClient[i].type = "SENDFILE" /\ toClient[i].type # "ROW"
      BY <2>2 DEF Word
    <3>3. toClient' = <<>> /\ toServer = <<>>
      BY <1>1, <2>1, <3>2
    <3>. QED  BY <1>7, <2>1, <3>1, <3>2, <3>3 DEF ClientSendsFile, ClientSends
  <2>4. NetInv'
    BY <1>0, <2>2, <2>3, SentIs DEF NetInv, ServerMay, Once, Alone
  <2>. QED  BY <2>2, <2>3, <2>4
     DEF TalkInv, AskInv, GetInv, PutInv, ToldInv, Loaded, Partial
<1>8. CASE ClientListens
  <2>1. PICK i \in DOMAIN toClient :
          /\ ClientTakes(i)
          /\ IF toClient[i].type = "ALLREC" THEN Ends("done") ELSE UNCHANGED <<cpc, told>>
    BY <1>8 DEF ClientListens
  <2>2. /\ toClient[i] = Word("ALLREC") /\ spc = "main"
        /\ serverDir[ccmd[2]] = clientDir[ccmd[2]]
    BY <1>1, <1>8, <2>1 DEF ClientMay, ClientListens
  <2>3. /\ toClient' = <<>> /\ toServer = <<>> /\ cpc = "ALLREC" /\ cpc' = "user" /\ told' = "done"
        /\ UNCHANGED <<mode, toServer, faults, server, clientDir, ccmd, cbuf, csize, cmds>>
    BY <1>1, <1>8, <2>1, <2>2 DEF ClientListens, Word, Ends
  <2>4. ToldInv'
    BY <2>2, <2>3 DEF ToldInv, SuccessIsTrue, TalkInv, AskInv, Loaded
  <2>. QED  BY <2>2, <2>3, <2>4 DEF TalkInv, NetInv, Once, Alone, AskInv, GetInv, PutInv
<1>9. CASE ClientReply
  <2>1. PICK i \in DOMAIN toClient :
          /\ ClientTakes(i)
          /\ \/ cpc = "GOODBYE" /\ cpc' = "exited" /\ UNCHANGED told
             \/ /\ cpc = "reply"
                /\ Ends(IF ccmd[1] = "ls" \/ toClient[i].type = "SUCCESS"
                        THEN "done" ELSE "failed")
    BY <1>9 DEF ClientReply
  <2>2. /\ toClient[i].type # "ROW" /\ spc = "main"
        /\ toClient[i].type = "SUCCESS" => serverDir[ccmd[2]] = NoFile
    BY <1>1, <1>9, <2>1 DEF ClientMay, ClientReply, Word
  <2>3. /\ toClient' = <<>> /\ toServer = <<>> /\ cpc \in {"reply", "GOODBYE"}
        /\ cpc' \in {"user", "exited"}
        /\ UNCHANGED <<mode, toServer, faults, server, clientDir, ccmd, cbuf, csize, cmds>>
    BY <1>1, <1>9, <2>1, <2>2 DEF ClientReply, Ends
  <2>4. ToldInv'
    BY <2>1, <2>2, <2>3 DEF ToldInv, SuccessIsTrue, TalkInv, AskInv, Ends
  <2>. QED  BY <2>2, <2>3, <2>4 DEF TalkInv, NetInv, Once, Alone, AskInv, GetInv, PutInv
<1>10. CASE ClientTimeout
  <2>1. /\ toClient = <<>> /\ (toServer = <<>> \/ spc = "crashed")
        /\ spc \notin {"ROW", "check"}
        /\ cpc \in {"FILESIZE", "SENDSIZE", "SENDFILE", "reply", "GOODBYE"}
        /\ cpc' \in {"user", "exited"} /\ told' # "done"
        /\ UNCHANGED <<mode, net, faults, server, clientDir, ccmd, cbuf, csize, cmds>>
    BY <1>0, <1>10 DEF ClientTimeout, NothingForClient, Ends, TalkInv, ToldInv
  <2>. QED  BY <2>1
     DEF TalkInv, NetInv, ServerMay, Once, Alone, AskInv, GetInv, PutInv, ToldInv
<1>. QED  BY <1>2, <1>3, <1>4, <1>5, <1>6, <1>7, <1>8, <1>9, <1>10 DEF Client

LEMMA UserTalks ==
  ASSUME TypeInv, Orderly, TalkInv, NEW c \in mode.commands, UserCommand(c)
  PROVE  TalkInv'
<1> USE DEF net, server, client
<1>0. c[1] \in Operations /\ c[2] \in Names /\ toServer \in Seq(Datagram)
  BY TransferAssumption DEF TypeInv, TypeOK, Mode
<1>1. /\ cpc = "user" /\ ccmd' = c /\ UNCHANGED <<mode, toClient, faults, server, clientDir>>
      /\ spc \notin {"ROW", "check"} /\ told' # "done"
  BY DEF UserCommand, Ends, TalkInv, PutInv
<1>2. /\ toClient = <<>>
      /\ spc # "crashed" => \A j \in DOMAIN toServer : toServer[j] = Word("ALLREC") /\ spc = "ALLREC"
  <2>1. \A j \in DOMAIN toClient : FALSE
    BY <1>1 DEF TalkInv, NetInv, ClientMay
  <2>2. toClient \in Seq(Datagram)
    BY DEF TypeInv
  <2>. QED  BY <1>1, <2>1, <2>2 DEF TalkInv, NetInv, ServerMay, First
<1>3. CASE UNCHANGED <<toServer, cpc>>
  <2>. QED  BY <1>1, <1>2, <1>3
     DEF TalkInv, NetInv, ServerMay, Once, Alone, AskInv, GetInv, PutInv,
                                    ToldInv
<1>4. CASE ClientSends(<<Command(c)>>) /\ cpc' \in First
  <2>1. /\ Len(toServer') = Len(toServer) + 1
        /\ \A k \in DOMAIN toServer' :
             (toServer[k])' = IF k \in DOMAIN toServer THEN toServer[k] ELSE Command(c)
        /\ DOMAIN toServer' = 1..(Len(toServer) + 1)
    BY <1>0, <1>4 DEF ClientSends
  <2>2. spc' \in {"main", "SENDFILE", "FILESIZE", "ALLREC", "crashed"}
    BY <1>1 DEF TypeInv, TypeOK
  <2>3. \A k \in DOMAIN toServer' : ServerMay(toServer[k])'
    BY <1>1, <1>2, <1>4, <2>1, <2>2 DEF ServerMay
  <2>4. spc' # "crashed" => Once(toServer')
    <3>1. Command(c) # Word("ALLREC")
      BY DEF Command, Word
    <3>2. spc' # "crashed" => \A j, k \in DOMAIN toServer :
             (toServer[j]).type # "ROW" /\ toServer[j] = toServer[k] => j = k
      BY <1>1 DEF TalkInv, NetInv, Once
    <3>. QED  BY <1>0, <1>1, <1>2, <2>1, <3>1, <3>2 DEF Once
  <2>5. NetInv'
    BY <1>1, <1>2, <2>3, <2>4 DEF NetInv, Alone
  <2>6. AskInv'
    BY <1>0, <1>1, <1>4 DEF UserCommand, Ends, AskInv, Loaded, First, Operations
  <2>. QED  BY <1>1, <1>4, <2>5, <2>6 DEF TalkInv, GetInv, PutInv, ToldInv, First
<1>. QED  BY <1>3, <1>4, <1>0, <1>1 DEF UserCommand, Ends, First

LEMMA LossTalks ==
  ASSUME TypeInv, TalkInv, Lose
  PROVE  TalkInv'
<1> USE DEF net, server, client
<1>0. toServer \in Seq(Datagram) /\ toClient \in Seq(Datagram) /\ UNCHANGED <<mode, server, client>>
  BY DEF TypeInv, Lose
<1>1. CASE (\E i \in DOMAIN toServer : toServer' = RemoveAt(toServer, i)) /\ UNCHANGED toClient
  <2>1. PICK i \in DOMAIN toServer : toServer' = RemoveAt(toServer, i)
    BY <1>1
  <2>2. toClient = <<>> /\ spc \notin {"check"} /\ cpc # "check"
    BY <1>0, <2>1 DEF TalkInv, NetInv, GetInv, PutInv
  <2>3. \A k \in DOMAIN toServer' : \E j \in DOMAIN toServer : (toServer[k])' = toServer[j]
    BY <1>0, <2>1, Rest
  <2>4. \A k \in DOMAIN toServer' : ServerMay(toServer[k])'
    BY <1>0, <2>3 DEF TalkInv, NetInv, ServerMay
  <2>5. spc' # "crashed" => Once(toServer')
    BY <1>0, <2>1, Rest DEF TalkInv, NetInv
  <2>6. NetInv'
    BY <1>0, <1>1, <2>2, <2>4, <2>5 DEF NetInv, Alone
  <2>. QED  BY <1>0, <2>2, <2>6
     DEF TalkInv, AskInv, GetInv, PutInv, ToldInv, Loaded, SuccessIsTrue, Sound
<1>2. CASE (\E i \in DOMAIN toClient : toClient' = RemoveAt(toClient, i)) /\ UNCHANGED toServer
  <2>1. PICK i \in DOMAIN toClient : toClient' = RemoveAt(toClient, i)
    BY <1>2
  <2>2. toServer = <<>> /\ spc \notin {"check"} /\ cpc # "check"
    BY <1>0, <2>1 DEF TalkInv, NetInv, GetInv, PutInv
  <2>3. \A k \in DOMAIN toClient' : \E j \in DOMAIN toClient : (toClient[k])' = toClient[j]
    BY <1>0, <2>1, Rest
  <2>4. \A k \in DOMAIN toClient' : ClientMay(toClient[k])'
    BY <1>0, <2>3 DEF TalkInv, NetInv, ClientMay, Loaded
  <2>5. Alone(toClient')
    BY <1>0, <2>1, Rest DEF TalkInv, NetInv
  <2>6. NetInv'
    BY <1>0, <1>2, <2>2, <2>4, <2>5 DEF NetInv, Once
  <2>. QED  BY <1>0, <2>2, <2>6
     DEF TalkInv, AskInv, GetInv, PutInv, ToldInv, Loaded, SuccessIsTrue, Sound
<1>. QED  BY <1>1, <1>2 DEF Lose

LEMMA SameMode == [Next]_vars => mode' = mode
BY DEF Next, vars, Terminating, Server, Client, Lose, Duplicate, UserCommand,
   ServerCommand, ServerSendsFile, ServerListens, ServerFileSize, ServerRow,
   ServerSilence, ServerCheck, ClientFileSize, ClientRow, ClientSilence, ClientCheck,
   ClientSendSize, ClientSendsFile, ClientListens, ClientReply, ClientTimeout

(* The invariant of a conversation: in it a receiver has rows of one file. *)
LEMMA Talks == Spec => [](TypeInv /\ OrderlyInv)
<1>1. Init => TypeInv /\ OrderlyInv
  <2> SUFFICES ASSUME Init PROVE OrderlyInv
    BY InitTypes
  <2>. QED  BY DEF Init, OrderlyInv, TalkInv, NetInv, Once, Alone, AskInv, GetInv,
       PutInv, ToldInv
<1>2. TypeInv /\ OrderlyInv /\ [Next]_vars => (TypeInv /\ OrderlyInv)'
  <2> SUFFICES ASSUME TypeInv, OrderlyInv, [Next]_vars PROVE OrderlyInv'
    BY StepTypes
  <2>1. mode' = mode
    BY SameMode
  <2> SUFFICES ASSUME Orderly PROVE TalkInv'
    BY <2>1 DEF OrderlyInv, Orderly, Sound
  <2>2. TalkInv
    BY DEF OrderlyInv
  <2>3. CASE Server
    BY <2>2, <2>3, ServerTalks
  <2>4. CASE Client
    BY <2>2, <2>4, ClientTalks
  <2>5. CASE \E c \in mode.commands : UserCommand(c)
    BY <2>2, <2>5, UserTalks
  <2>6. CASE Lose
    BY <2>2, <2>6, LossTalks
  <2>7. ~Duplicate
    BY DEF Duplicate, Fault, Orderly
  <2>8. CASE UNCHANGED vars
    BY <2>2, <2>8
       DEF vars, net, server, client, TalkInv, NetInv, ServerMay, ClientMay, Once,
       Alone, AskInv, GetInv, PutInv, ToldInv, Loaded, Partial, Awaited, SuccessIsTrue,
       Sound
  <2>. QED  BY <2>3, <2>4, <2>5, <2>6, <2>7, <2>8 DEF Next, Terminating
<1>. QED  BY <1>1, <1>2, PTL DEF Spec

(* A datagram that comes twice comes late.                                 *)
OnceIfTimely == \A m \in Modes : m.timely => "duplicate" \notin m.faults

LEMMA SoundTalks ==
  ASSUME OnceIfTimely, TypeInv, OrderlyInv, Sound
  PROVE  Orderly /\ TalkInv
BY DEF OnceIfTimely, TypeInv, TypeOK, OrderlyInv, Orderly, Sound

(* What the user is told of a transfer or of a deletion is true, for any   *)
(* files and any losses and overtaking, when answers come in time.         *)
THEOREM ToldTrue ==
  ASSUME OnceIfTimely
  PROVE  Spec => []SuccessIsTrue
<1>1. TypeInv /\ OrderlyInv => SuccessIsTrue
  <2> SUFFICES ASSUME TypeInv, OrderlyInv, Sound, told = "done" PROVE SuccessIsTrue
    BY DEF SuccessIsTrue
  <2>. QED  BY SoundTalks DEF TalkInv, ToldInv
<1>. QED  BY <1>1, Talks, PTL

(* When answers come in time files change only as a whole: the protocol    *)
(* implements FileCopy, whatever is lost or overtaken.                     *)
THEOREM CopiesWhole ==
  ASSUME OnceIfTimely
  PROVE  Spec => CopySpec
<1> USE DEF server, client
<1>1. Init => Copy!Init
  BY DEF Init, Copy!Init
<1>2. TypeInv /\ OrderlyInv /\ [Next]_vars => [Copy!Next]_(Copy!vars)
  <2> SUFFICES ASSUME TypeInv, OrderlyInv, [Next]_vars PROVE [Copy!Next]_(Copy!vars)
    OBVIOUS
  <2>1. mode' = mode
    BY SameMode
  <2>2. CASE ~Sound
    BY <2>1, <2>2 DEF Copy!vars, Sound
  <2>3. CASE Sound
    <3>1. Orderly /\ TalkInv /\ Sound'
      BY <2>1, <2>3, SoundTalks DEF Sound
    <3>2. ccmd[2] \in Names
      BY TransferAssumption DEF TypeInv, TypeOK, Mode
    <3>3. CASE UNCHANGED <<serverDir, clientDir>>
      BY <2>3, <3>1, <3>3 DEF Copy!vars
    <3>4. CASE ServerCheck /\ Complete(sbuf)
      <4>1. /\ serverDir' = [serverDir EXCEPT ![ccmd[2]] = clientDir[ccmd[2]]]
            /\ clientDir[ccmd[2]] # NoFile /\ UNCHANGED clientDir
        BY <3>1, <3>4, PutWhole, TransferAssumption DEF ServerCheck
      <4>2. Copy!Put(ccmd[2])
        BY <2>3, <3>1, <4>1 DEF Copy!Put
      <4>. QED  BY <3>2, <4>2 DEF Copy!Next
    <3>5. CASE ClientCheck /\ Complete(cbuf)
      <4>1. /\ clientDir' = [clientDir EXCEPT ![ccmd[2]] = serverDir[ccmd[2]]]
            /\ serverDir[ccmd[2]] # NoFile /\ UNCHANGED serverDir
        BY <3>1, <3>5, GetWhole, TransferAssumption DEF ClientCheck
      <4>2. Copy!Get(ccmd[2])
        BY <2>3, <3>1, <4>1 DEF Copy!Get
      <4>. QED  BY <3>2, <4>2 DEF Copy!Next
    <3>6. CASE ServerCommand
      <4>1. PICK i \in DOMAIN toServer : CommandStep(toServer[i])
        BY <3>6, CommandCases
      <4>2. UNCHANGED clientDir /\ toServer[i] \in Datagram
        BY <3>6 DEF ServerCommand, TypeInv
      <4>3. CASE Deleted(toServer[i])
        <5> DEFINE n == toServer[i].name
        <5>1. n \in Names /\ serverDir' = [serverDir EXCEPT ![n] = NoFile]
          BY <4>2, <4>3 DEF Deleted, Datagram, Plain
        <5> HIDE DEF n
        <5>2. Copy!Delete(n)
          BY <2>3, <3>1, <4>2, <5>1 DEF Copy!Delete
        <5>. QED  BY <5>1, <5>2 DEF Copy!Next
      <4>4. CASE ~Deleted(toServer[i])
        <5>1. UNCHANGED serverDir
          BY <4>1, <4>4 DEF CommandStep, Dropped, Offered, Missing, Expected, Answered
        <5>. QED  BY <3>3, <4>2, <5>1
      <4>. QED  BY <4>3, <4>4
    <3>7. CASE /\ ~ServerCommand
               /\ ~(ServerCheck /\ Complete(sbuf)) /\ ~(ClientCheck /\ Complete(cbuf))
      <4>1. UNCHANGED <<serverDir, clientDir>>
        BY <3>7 DEF Next, vars, Terminating, Server, Client, Lose, Duplicate, UserCommand,
             ServerSendsFile, ServerListens, ServerFileSize, ServerRow, ServerIdle,
             ServerSilence, ServerCheck, ClientFileSize, ClientRow, ClientSilence,
             ClientCheck, ClientSendSize, ClientSendsFile, ClientListens, ClientReply,
             ClientTimeout
      <4>. QED  BY <3>3, <4>1
    <3>. QED  BY <3>4, <3>5, <3>6, <3>7
  <2>. QED  BY <2>2, <2>3
<1>. QED  BY <1>1, <1>2, Talks, PTL DEF Spec, CopySpec, Copy!Spec
-----------------------------------------------------------------------------
(* Over a network that does nothing wrong.                                 *)

(* Of a channel from which one datagram is taken the others are left.      *)
LEMMA OthersStay ==
  ASSUME NEW T, NEW chan \in Seq(T), NEW i \in DOMAIN chan, NEW j \in DOMAIN chan, j # i
  PROVE  \E k \in DOMAIN RemoveAt(chan, i) : RemoveAt(chan, i)[k] = chan[j]
<1> DEFINE rest == RemoveAt(chan, i)
           k == IF j < i THEN j ELSE j - 1
<1>1. /\ rest \in Seq(T) /\ Len(rest) = Len(chan) - 1
      /\ \A l \in 1..(Len(chan) - 1) : rest[l] = IF l < i THEN chan[l] ELSE chan[l + 1]
  BY Left
<1>2. k \in 1..(Len(chan) - 1) /\ (IF k < i THEN k ELSE k + 1) = j
  OBVIOUS
<1> HIDE DEF rest, k
<1>3. rest[k] = chan[j] /\ k \in DOMAIN rest
  BY <1>1, <1>2
<1>. QED  BY <1>3 DEF rest

LEMMA RowComes ==
  ASSUME NEW from \in Seq(DataRow), NEW to \in Seq(Cells), Partial(to, from),
         NEW T, NEW chan \in Seq(T), Coming(to, from, chan),
         NEW i \in DOMAIN chan, NEW r \in DOMAIN from, chan[i] = Row(from, r)
  PROVE  Coming(WithRow(chan[i], to), from, RemoveAt(chan, i))
<1> DEFINE new == WithRow(chan[i], to)
           rest == RemoveAt(chan, i)
<1>1. chan[i].num = r /\ chan[i].data = from[r] /\ from[r] # NoRow
  BY TransferAssumption DEF Row, DataRow
<1>2. DOMAIN new = DOMAIN to /\ \A k \in DOMAIN to : new[k] = IF k = r THEN from[r] ELSE to[k]
  BY <1>1 DEF WithRow
<1>3. ASSUME NEW k \in DOMAIN to, new[k] = NoRow
      PROVE  \E j \in DOMAIN rest : rest[j] = Row(from, k)
  <2>1. k # r /\ to[k] = NoRow
    BY <1>1, <1>2, <1>3
  <2>2. PICK j \in DOMAIN chan : chan[j] = Row(from, k)
    BY <2>1 DEF Coming
  <2>3. j # i
    BY <2>1, <2>2 DEF Row
  <2>. QED  BY <2>2, <2>3, OthersStay
<1> HIDE DEF new, rest
<1>4. Coming(new, from, rest)
  BY <1>2, <1>3 DEF Coming
<1>. QED  BY <1>4 DEF new, rest

LEMMA AllComing ==
  ASSUME NEW from \in Seq(Cells), NEW to, Partial(to, from)
  PROVE  Coming(to, from, Sent(from))
BY SentIs DEF Coming, Partial

LEMMA NoneComing ==
  ASSUME NEW from, NEW to, Coming(to, from, <<>>)
  PROVE  Complete(to)
BY DEF Coming, Complete

LEMMA LoadedIs ==
  ASSUME NEW dir \in Dir, NEW buf, NEW size, ccmd[2] \in Names, Loaded(buf, size, dir)
  PROVE  /\ buf \in Seq(DataRow) /\ dir[ccmd[2]] \in Seq(Bytes)
         /\ size = 0 => buf = <<>> /\ dir[ccmd[2]] = <<>>
<1>1. dir[ccmd[2]] \in Seq(Bytes) /\ buf = RowsOf(dir[ccmd[2]]) /\ size = Len(dir[ccmd[2]])
  BY DEF Loaded, Dir
<1>2. buf \in Seq(DataRow) /\ Len(buf) = NumRows(size)
  BY <1>1, RowsOfType
<1>3. size = 0 => buf = <<>>
  BY <1>2, NoRows
<1>. QED  BY <1>1, <1>2, <1>3

LEMMA ServerFlows ==
  ASSUME TypeInv, Orderly, TalkInv, FlowInv, "reorder" \notin mode.faults, Server
  PROVE  FlowInv'
<1> USE DEF net, server, client
<1>0. /\ toServer \in Seq(Datagram) /\ toClient \in Seq(Datagram)
      /\ sbuf \in Seq(Cells) /\ cbuf \in Seq(Cells) /\ ssize \in Nat /\ csize \in Nat
      /\ ccmd[2] \in Names /\ mode.timely
      /\ serverDir \in Dir /\ clientDir \in Dir
  BY TransferAssumption DEF TypeInv, TypeOK, Mode, Cells, DataRow, Orderly, Sound
<1>1. ASSUME NEW i \in DOMAIN toServer, ServerTakes(i)
      PROVE  /\ toServer # <<>> /\ toClient = <<>> /\ toServer' = RemoveAt(toServer, i) /\ i = 1
             /\ ServerMay(toServer[i])
  BY <1>1 DEF ServerTakes, Deliverable, TalkInv, NetInv
<1>2. CASE ServerCommand
  <2>1. PICK i \in DOMAIN toServer : ServerTakes(i) /\ CommandStep(toServer[i])
    BY <1>2, CommandCases
  <2>2. /\ toServer[i].type = "command" /\ cpc \in First /\ toClient = <<>>
        /\ UNCHANGED <<mode, faults, client>>
    BY <1>1, <1>2, <2>1 DEF ServerMay, ServerCommand, Command, FlowInv
  <2>3. /\ toClient' # <<>>
        /\ spc' \in {"main", "SENDFILE", "FILESIZE"}
    BY <1>2, <2>1, <2>2
       DEF ServerCommand, CommandStep, Dropped, Offered, Missing, Deleted, Expected,
       Answered, ServerSends
  <2>. QED  BY <2>2, <2>3 DEF FlowInv, First
<1>3. CASE ServerSendsFile
  <2>1. PICK i \in DOMAIN toServer :
          /\ ServerTakes(i)
          /\ \/ /\ toServer[i].type = "SENDFILE"
                /\ ServerSends(Sent(sbuf))
                /\ spc' = "ALLREC"
                /\ UNCHANGED <<serverDir, sname, sbuf, ssize>>
             \/ toServer[i].type # "SENDFILE" /\ ServerIdle /\ UNCHANGED toClient
    BY <1>3 DEF ServerSendsFile
  <2>2. \/ toServer[i].type = "command" /\ cpc \in First
        \/ toServer[i].type = "SENDFILE" /\ cpc = "ROW"
    BY <1>1, <1>3, <2>1 DEF ServerMay, ServerSendsFile, Word, Command
  <2>3. /\ toClient = <<>> /\ toServer # <<>> /\ spc = "SENDFILE"
        /\ UNCHANGED <<mode, faults, client, sbuf>>
    BY <1>1, <1>3, <2>1 DEF ServerSendsFile, ServerIdle
  <2>4. CASE cpc = "ROW"
    <3>1. spc' = "ALLREC" /\ toClient' = Sent(sbuf)
      <4>1. <<>> \o Sent(sbuf) = Sent(sbuf)
        BY <1>0, SentType
      <4>. QED  BY <2>1, <2>2, <2>3, <2>4, <4>1 DEF First, ServerSends
    <3>2. Coming(cbuf, sbuf, toClient)'
      <4>1. Coming(cbuf, sbuf, Sent(sbuf))
        BY <1>0, <2>4, AllComing DEF TalkInv, GetInv
      <4>. QED  BY <2>3, <3>1, <4>1 DEF Coming
    <3>. QED  BY <2>3, <2>4, <3>1, <3>2 DEF FlowInv, First
  <2>5. CASE cpc \in First
    <3>1. sbuf = <<>> /\ spc' = "main"
      BY <2>1, <2>2, <2>3, <2>5 DEF FlowInv, First, ServerIdle
    <3>. QED  BY <2>3, <2>5, <3>1 DEF FlowInv, First
  <2>. QED  BY <2>2, <2>4, <2>5
<1>4. CASE ServerListens
  <2>1. PICK i \in DOMAIN toServer :
          ServerTakes(i) /\ spc' = IF toServer[i].type = "ALLREC" THEN "main" ELSE spc
    BY <1>4 DEF ServerListens
  <2>2. /\ spc = "ALLREC" /\ toServer # <<>> /\ toClient = <<>> /\ cpc \in First \cup {"user"}
        /\ UNCHANGED <<mode, faults, client, toClient, serverDir, sname, sbuf, ssize>>
        /\ toServer' = RemoveAt(toServer, 1) /\ i = 1
    BY <1>1, <1>4, <2>1 DEF ServerListens, ServerMay, FlowInv
  <2>3. CASE cpc = "user"
    <3>1. spc' = "main"
      BY <2>1, <2>2, <2>3 DEF FlowInv, Word
    <3>. QED  BY <2>2, <2>3, <3>1 DEF FlowInv, First, Wanted
  <2>4. CASE cpc \in First
    <3>1. toServer = <<Word("ALLREC"), Command(ccmd)>>
      BY <2>2, <2>4 DEF FlowInv
    <3>2. spc' = "main" /\ toServer' = <<Command(ccmd)>>
      <4>1. spc' = "main"
        BY <2>1, <2>2, <3>1 DEF Word
      <4>2. ASSUME NEW a, NEW b PROVE RemoveAt(<<a, b>>, 1) = <<b>>
        <5> DEFINE pair == <<a, b>>
                   rest == RemoveAt(pair, 1)
        <5>1. pair \in Seq({a, b}) /\ Len(pair) = 2 /\ 1 \in DOMAIN pair /\ pair[2] = b
          OBVIOUS
        <5> HIDE DEF pair
        <5>2. /\ rest \in Seq({a, b}) /\ Len(rest) = Len(pair) - 1
              /\ \A k \in 1..(Len(pair) - 1) : rest[k] = IF k < 1 THEN pair[k] ELSE pair[k + 1]
          BY <5>1, Left
        <5> HIDE DEF rest
        <5>3. rest = <<b>>
          <6>1. Len(rest) = 1 /\ rest[1] = b
            BY <5>1, <5>2
          <6>. QED  BY <5>2, <6>1
        <5>. QED  BY <5>3 DEF rest, pair
      <4>. QED  BY <2>2, <3>1, <4>1, <4>2
    <3>. QED  BY <2>2, <2>4, <3>2 DEF FlowInv, First
  <2>. QED  BY <2>2, <2>3, <2>4
<1>5. CASE ServerFileSize
  <2>1. PICK i \in DOMAIN toServer :
          /\ ServerTakes(i)
          /\ \/ /\ SizeAccepted(toServer[i])
                /\ ServerSends(<<Word("SENDFILE")>>)
                /\ spc' = "ROW"
             \/ ~SizeAccepted(toServer[i]) /\ ServerIdle /\ UNCHANGED toClient
    BY <1>5 DEF ServerFileSize
  <2>2. /\ toServer[i] = FileSize(csize) /\ cpc = "SENDFILE" /\ toClient = <<>>
        /\ UNCHANGED <<mode, faults, client>>
    BY <1>1, <1>5, <2>1 DEF ServerMay, ServerFileSize, FlowInv
  <2>3. \/ spc' = "ROW" /\ toClient' # <<>>
        \/ spc' = "main" /\ csize = 0
    <3>1. toServer[i].type = "FILESIZE" /\ toServer[i].size = csize
      BY <2>2 DEF FileSize
    <3>2. CASE SizeAccepted(toServer[i])
      BY <2>1, <2>2, <3>2 DEF ServerSends
    <3>3. CASE ~SizeAccepted(toServer[i])
      BY <1>0, <2>1, <3>1, <3>3 DEF SizeAccepted, ServerIdle
    <3>. QED  BY <3>2, <3>3
  <2>. QED  BY <2>2, <2>3 DEF FlowInv, First
<1>6. CASE ServerRow
  <2>1. PICK i \in DOMAIN toServer :
          /\ ServerTakes(i)
          /\ \/ RowAccepted(toServer[i], sbuf) /\ sbuf' = WithRow(toServer[i], sbuf)
                  /\ UNCHANGED spc
             \/ ~RowAccepted(toServer[i], sbuf) /\ spc' = "check" /\ UNCHANGED sbuf
    BY <1>6 DEF ServerRow
  <2>2. PICK r \in DOMAIN cbuf : toServer[i] = Row(cbuf, r) /\ cpc = "ALLREC"
    BY <1>1, <1>6, <2>1 DEF ServerMay, ServerRow
  <2>3. /\ Partial(sbuf, cbuf) /\ spc = "ROW" /\ toServer' = RemoveAt(toServer, i)
        /\ UNCHANGED <<mode, toClient, faults, serverDir, sname, ssize, client>>
        /\ Coming(sbuf, cbuf, toServer) /\ cbuf \in Seq(DataRow)
    BY <1>0, <1>1, <1>6, <2>1, <2>2, LoadedIs
       DEF ServerRow, TalkInv, AskInv, PutInv, FlowInv
  <2>4. spc' = "ROW" /\ sbuf' = WithRow(toServer[i], sbuf)
    BY <1>0, <2>1, <2>2, <2>3, OneMore
  <2>5. Coming(sbuf, cbuf, toServer)'
    <3>1. Coming(WithRow(toServer[i], sbuf), cbuf, RemoveAt(toServer, i))
      BY <1>0, <2>2, <2>3, RowComes
    <3>. QED  BY <2>3, <2>4, <3>1 DEF Coming
  <2>. QED  BY <2>2, <2>3, <2>4, <2>5 DEF FlowInv, First
<1>7. CASE ServerSilence
  <2>1. /\ spc = "ROW" /\ spc' = "check" /\ toServer = <<>> /\ toClient = <<>>
        /\ cpc \in {"SENDFILE", "ALLREC"} /\ csize > 0
        /\ UNCHANGED <<mode, net, faults, serverDir, sname, sbuf, ssize, client>>
    BY <1>0, <1>7 DEF ServerSilence, NothingForServer, TalkInv, PutInv
  <2>2. cpc = "ALLREC" /\ Complete(sbuf)
    BY <1>0, <2>1, NoneComing DEF FlowInv
  <2>. QED  BY <2>1, <2>2 DEF FlowInv, First, Complete
<1>8. CASE ServerCheck
  <2>1. Complete(sbuf)
    BY <1>8 DEF ServerCheck, FlowInv
  <2>2. cpc = "ALLREC" /\ spc' = "main" /\ UNCHANGED <<mode, faults, client>>
    BY <1>8, <2>1, PutWhole DEF ServerCheck
  <2>. QED  BY <2>2 DEF FlowInv, First
<1>. QED  BY <1>2, <1>3, <1>4, <1>5, <1>6, <1>7, <1>8 DEF Server

LEMMA ClientFlows ==
  ASSUME TypeInv, Orderly, TalkInv, FlowInv, Client
  PROVE  FlowInv'
<1> USE DEF net, server, client
<1>0. /\ toServer \in Seq(Datagram) /\ toClient \in Seq(Datagram)
      /\ sbuf \in Seq(Cells) /\ cbuf \in Seq(Cells) /\ ssize \in Nat /\ csize \in Nat
      /\ ccmd[2] \in Names /\ mode.timely
      /\ serverDir \in Dir /\ clientDir \in Dir
  BY TransferAssumption DEF TypeInv, TypeOK, Mode, Cells, DataRow, Orderly, Sound
<1>1. ASSUME NEW i \in DOMAIN toClient, ClientTakes(i)
      PROVE  /\ toServer = <<>> /\ toClient' = RemoveAt(toClient, i)
             /\ ClientMay(toClient[i])
  BY <1>1 DEF ClientTakes, TalkInv, NetInv
<1>2. CASE ClientFileSize
  <2>1. PICK i \in DOMAIN toClient :
          /\ ClientTakes(i)
          /\ \/ /\ SizeAccepted(toClient[i])
                /\ ClientSends(<<Word("SENDFILE")>>)
                /\ cpc' = "ROW"
                /\ UNCHANGED told
             \/ ~SizeAccepted(toClient[i]) /\ Ends("failed") /\ UNCHANGED <<toServer, cbuf, csize>>
    BY <1>2 DEF ClientFileSize
  <2>2. \/ toClient[i] = Word("FAIL") /\ spc = "main" /\ serverDir[ccmd[2]] = NoFile
        \/ toClient[i] = FileSize(ssize) /\ spc = "SENDFILE" /\ Loaded(sbuf, ssize, serverDir)
    BY <1>1, <1>2, <2>1 DEF ClientMay, ClientFileSize
  <2>3. /\ toServer = <<>> /\ cpc = "FILESIZE" /\ ccmd[1] = "get"
        /\ UNCHANGED <<mode, faults, server, clientDir, ccmd, cmds>>
    BY <1>1, <1>2, <2>1 DEF ClientFileSize, TalkInv, AskInv
  <2>4. CASE SizeAccepted(toClient[i])
    <3>1. spc = "SENDFILE" /\ cpc' = "ROW" /\ UNCHANGED told
      BY <2>1, <2>2, <2>4 DEF SizeAccepted, Word
    <3>2. toServer' # <<>>
      <4>1. toServer' = <<>> \o <<Word("SENDFILE")>>
        BY <2>1, <2>3, <2>4 DEF ClientSends
      <4>2. \A w : <<>> \o <<w>> = <<w>>
        OBVIOUS
      <4>. QED  BY <4>1, <4>2
    <3>. QED  BY <2>3, <3>1, <3>2 DEF FlowInv, First
  <2>5. CASE ~SizeAccepted(toClient[i])
    <3>1. \/ cpc' = "user" /\ spc = "main" /\ serverDir[ccmd[2]] = NoFile
          \/ cpc' = "user" /\ spc = "SENDFILE" /\ sbuf = <<>>
      <4>1. CASE spc = "main" /\ serverDir[ccmd[2]] = NoFile
        BY <2>1, <2>5, <4>1 DEF Ends
      <4>2. CASE toClient[i] = FileSize(ssize) /\ spc = "SENDFILE" /\ Loaded(sbuf, ssize, serverDir)
        <5>1. ssize = 0
          <6>1. toClient[i].type = "FILESIZE" /\ toClient[i].size = ssize
            BY <4>2 DEF FileSize
          <6>. QED  BY <1>0, <2>5, <6>1 DEF SizeAccepted
        <5>2. sbuf = <<>>
          BY <1>0, <4>2, <5>1, LoadedIs
        <5>. QED  BY <2>1, <2>5, <4>2, <5>2 DEF Ends
      <4>. QED  BY <2>2, <4>1, <4>2
    <3>. QED  BY <2>3, <3>1 DEF FlowInv, First, Wanted
  <2>. QED  BY <2>4, <2>5
<1>3. CASE ClientRow
  <2>1. PICK i \in DOMAIN toClient :
          /\ ClientTakes(i)
          /\ \/ RowAccepted(toClient[i], cbuf) /\ cbuf' = WithRow(toClient[i], cbuf)
                  /\ UNCHANGED <<cpc, told>>
             \/ ~RowAccepted(toClient[i], cbuf) /\ Ends("failed") /\ UNCHANGED cbuf
    BY <1>3 DEF ClientRow
  <2>2. PICK r \in DOMAIN sbuf : toClient[i] = Row(sbuf, r) /\ spc = "ALLREC"
    BY <1>1, <1>3, <2>1 DEF ClientMay, ClientRow
  <2>3. /\ Partial(cbuf, sbuf) /\ cpc = "ROW" /\ toClient' = RemoveAt(toClient, i)
        /\ UNCHANGED <<mode, toServer, faults, server, clientDir, ccmd, csize, cmds>>
        /\ Coming(cbuf, sbuf, toClient) /\ sbuf \in Seq(DataRow)
    BY <1>0, <1>1, <1>3, <2>1, <2>2, LoadedIs DEF ClientRow, TalkInv, GetInv, FlowInv
  <2>4. UNCHANGED <<cpc, told>> /\ cbuf' = WithRow(toClient[i], cbuf)
    BY <1>0, <2>1, <2>2, <2>3, OneMore
  <2>5. Coming(cbuf, sbuf, toClient)'
    <3>1. Coming(WithRow(toClient[i], cbuf), sbuf, RemoveAt(toClient, i))
      BY <1>0, <2>2, <2>3, RowComes
    <3>. QED  BY <2>3, <2>4, <3>1 DEF Coming
  <2>. QED  BY <2>2, <2>3, <2>4, <2>5 DEF FlowInv, First
<1>4. CASE ClientSilence
  <2>1. /\ cpc = "ROW" /\ cpc' = "check" /\ toServer = <<>> /\ toClient = <<>>
        /\ spc \in {"SENDFILE", "ALLREC"}
        /\ UNCHANGED <<mode, net, faults, server, clientDir, ccmd, cbuf, csize, told, cmds>>
    BY <1>0, <1>4 DEF ClientSilence, NothingForClient, TalkInv, GetInv
  <2>2. spc = "ALLREC" /\ Complete(cbuf)
    BY <2>1, NoneComing DEF FlowInv
  <2>. QED  BY <2>1, <2>2 DEF FlowInv, First, Complete
<1>5. CASE ClientCheck
  <2>1. Complete(cbuf) /\ toServer = <<>>
    BY <1>5 DEF ClientCheck, FlowInv, TalkInv, GetInv
  <2>2. spc = "ALLREC" /\ cpc' = "user" /\ told' = "done"
    BY <1>5, <2>1, GetWhole
  <2>3. toServer' = <<Word("ALLREC")>> /\ UNCHANGED <<mode, faults, server>>
    BY <1>5, <2>1 DEF ClientCheck, ClientSends, Acknowledgement
  <2>. QED  BY <2>2, <2>3 DEF FlowInv, First
<1>6. CASE ClientSendSize
  <2>1. PICK i \in DOMAIN toClient :
          /\ ClientTakes(i)
          /\ \/ /\ toClient[i].type = "SENDSIZE"
                /\ ClientSends(<<FileSize(csize)>>)
                /\ cpc' = "SENDFILE"
                /\ UNCHANGED told
             \/ toClient[i].type # "SENDSIZE" /\ Ends("failed") /\ UNCHANGED toServer
    BY <1>6 DEF ClientSendSize
  <2>2. toClient[i] = Word("SENDSIZE") /\ spc = "FILESIZE"
    BY <1>1, <1>6, <2>1 DEF ClientMay, ClientSendSize
  <2>3. /\ toServer' # <<>> /\ cpc' = "SENDFILE" /\ cpc = "SENDSIZE"
        /\ UNCHANGED <<told, mode, faults, server, clientDir, ccmd, cbuf, csize, cmds>>
    BY <1>0, <1>6, <2>1, <2>2 DEF ClientSendSize, Word, ClientSends
  <2>. QED  BY <2>2, <2>3 DEF FlowInv, First
<1>7. CASE ClientSendsFile
  <2>1. PICK i \in DOMAIN toClient :
          /\ ClientTakes(i)
          /\ \/ /\ toClient[i].type = "SENDFILE"
                /\ ClientSends(Sent(cbuf))
                /\ cpc' = "ALLREC"
                /\ UNCHANGED told
             \/ toClient[i].type # "SENDFILE" /\ Ends("failed") /\ UNCHANGED toServer
    BY <1>7 DEF ClientSendsFile
  <2>2. toClient[i].type = "SENDFILE" /\ spc = "ROW" /\ toServer = <<>>
    BY <1>1, <1>7, <2>1 DEF ClientMay, ClientSendsFile, Word
  <2>3. toServer' = Sent(cbuf)
    <3>1. <<>> \o Sent(cbuf) = Sent(cbuf)
      BY <1>0, SentType
    <3>. QED  BY <2>1, <2>2, <3>1 DEF ClientSends
  <2>4. /\ cpc' = "ALLREC" /\ cpc = "SENDFILE"
        /\ UNCHANGED <<told, mode, faults, server, clientDir, ccmd, cbuf, csize, cmds>>
    BY <1>7, <2>1, <2>2 DEF ClientSendsFile
  <2>5. Coming(sbuf, cbuf, toServer)'
    <3>1. Coming(sbuf, cbuf, Sent(cbuf))
      BY <1>0, <2>2, AllComing DEF TalkInv, PutInv
    <3>. QED  BY <2>3, <2>4, <3>1 DEF Coming
  <2>. QED  BY <2>2, <2>4, <2>5 DEF FlowInv, First
<1>8. CASE ClientListens
  <2>1. PICK i \in DOMAIN toClient :
          /\ ClientTakes(i)
          /\ IF toClient[i].type = "ALLREC" THEN Ends("done") ELSE UNCHANGED <<cpc, told>>
    BY <1>8 DEF ClientListens
  <2>2. /\ spc = "main" /\ toClient[i].type = "ALLREC"
    BY <1>1, <1>8, <2>1 DEF ClientMay, ClientListens, Word
  <2>3. /\ cpc' = "user" /\ told' = "done"
        /\ UNCHANGED <<mode, toServer, faults, server, clientDir, ccmd, cbuf, csize, cmds>>
    BY <1>8, <2>1, <2>2 DEF ClientListens, Ends
  <2>. QED  BY <2>2, <2>3 DEF FlowInv, First
<1>9. CASE ClientReply
  <2>1. PICK i \in DOMAIN toClient :
          /\ ClientTakes(i)
          /\ \/ cpc = "GOODBYE" /\ cpc' = "exited" /\ UNCHANGED told
             \/ /\ cpc = "reply"
                /\ Ends(IF ccmd[1] = "ls" \/ toClient[i].type = "SUCCESS"
                        THEN "done" ELSE "failed")
    BY <1>9 DEF ClientReply
  <2>2. /\ spc = "main" /\ cpc \in {"reply", "GOODBYE"}
        /\ cpc = "reply" /\ ccmd[1] # "ls" /\ toClient[i].type # "SUCCESS" =>
             serverDir[ccmd[2]] = NoFile /\ ccmd[1] # "put"
        /\ UNCHANGED <<mode, toServer, faults, server, clientDir, ccmd, cbuf, csize, cmds>>
    BY <1>1, <1>9, <2>1 DEF ClientMay, ClientReply, Word, TalkInv, AskInv
  <2>3. \/ cpc' = "exited" /\ told' = told /\ cpc = "GOODBYE"
        \/ cpc' = "user" /\ told' = "done"
        \/ cpc' = "user" /\ serverDir[ccmd[2]] = NoFile /\ ccmd[1] # "put"
    BY <2>1, <2>2 DEF Ends
  <2>. QED  BY <2>2, <2>3 DEF FlowInv, First, Wanted
<1>10. CASE ClientTimeout
  <2>1. /\ toClient = <<>> /\ toServer = <<>>
        /\ cpc \in {"FILESIZE", "SENDSIZE", "SENDFILE", "reply", "GOODBYE"}
        /\ \/ cpc = "GOODBYE" /\ cpc' = "exited" /\ told' = told
           \/ cpc' = "user" /\ told' = "failed"
        /\ UNCHANGED <<mode, net, faults, server, clientDir, ccmd, cbuf, csize, cmds>>
    BY <1>0, <1>10 DEF ClientTimeout, NothingForClient, Ends, FlowInv
  <2>2. CASE cpc = "SENDFILE"
    <3>1. csize = 0 /\ spc = "main" /\ ccmd[1] = "put" /\ Loaded(cbuf, csize, clientDir)
      BY <2>1, <2>2 DEF FlowInv, TalkInv, AskInv
    <3>2. Wanted(ccmd) = <<>>
      BY <1>0, <3>1, LoadedIs DEF Wanted
    <3>. QED  BY <2>1, <2>2, <3>1, <3>2 DEF FlowInv, First, Wanted
  <2>3. CASE cpc \in First
    <3>1. spc \in {"main", "SENDFILE"} /\ sbuf = <<>>
      BY <2>1, <2>3 DEF FlowInv
    <3>. QED  BY <2>1, <2>3, <3>1 DEF FlowInv, First
  <2>. QED  BY <2>1, <2>2, <2>3 DEF First
<1>. QED  BY <1>2, <1>3, <1>4, <1>5, <1>6, <1>7, <1>8, <1>9, <1>10 DEF Client

LEMMA UserFlows ==
  ASSUME TypeInv, Orderly, TalkInv, FlowInv, NEW c \in mode.commands, UserCommand(c)
  PROVE  FlowInv'
<1> USE DEF net, server, client
<1>0. c[1] \in Operations /\ toServer \in Seq(Datagram)
  BY TransferAssumption DEF TypeInv, TypeOK, Mode
<1>1. /\ cpc = "user" /\ ccmd' = c /\ UNCHANGED <<mode, toClient, faults, server, clientDir>>
      /\ \/ spc = "main"
         \/ spc = "ALLREC" /\ toServer = <<Word("ALLREC")>>
         \/ spc = "SENDFILE" /\ sbuf = <<>>
  BY DEF UserCommand, FlowInv
<1>2. CASE c[1] = "put" /\ clientDir[c[2]] = NoFile
  <2>1. cpc' = "user" /\ told' = "failed" /\ UNCHANGED toServer
    BY <1>2 DEF UserCommand, Ends
  <2>. QED  BY <1>1, <1>2, <2>1 DEF FlowInv, First, Wanted
<1>3. CASE ~(c[1] = "put" /\ clientDir[c[2]] = NoFile)
  <2>1. cpc' \in First /\ told' = "none" /\ toServer' = toServer \o <<Command(c)>>
    BY <1>0, <1>3 DEF UserCommand, First, ClientSends
  <2>2. spc = "main" => toServer' = <<Command(c)>>
    <3> SUFFICES ASSUME spc = "main" PROVE toServer' = <<Command(c)>>
      OBVIOUS
    <3>1. \A j \in DOMAIN toServer : FALSE
      BY <1>1 DEF TalkInv, NetInv, ServerMay, First
    <3>2. toServer = <<>>
      <4>1. Len(toServer) \in Nat /\ DOMAIN toServer = 1..Len(toServer)
        BY <1>0
      <4>2. Len(toServer) = 0
        BY <3>1, <4>1
      <4>. QED  BY <1>0, <4>2
    <3>3. \A w : <<>> \o <<w>> = <<w>>
      OBVIOUS
    <3>. QED  BY <2>1, <3>2, <3>3
  <2>3. toServer = <<Word("ALLREC")>> => toServer' = <<Word("ALLREC"), Command(c)>>
    <3>1. ASSUME NEW v, NEW w PROVE <<v>> \o <<w>> = <<v, w>>
      <4> DEFINE p == <<v>> \o <<w>>
      <4>1. p \in Seq({v, w}) /\ Len(p) = 2 /\ p[1] = v /\ p[2] = w
        <5>1. <<v>> \in Seq({v, w}) /\ <<w>> \in Seq({v, w}) /\ Len(<<v>>) = 1 /\ Len(<<w>>) = 1
          OBVIOUS
        <5>. QED  BY <5>1
      <4> HIDE DEF p
      <4>2. p = <<v, w>>
        BY <4>1
      <4>. QED  BY <4>2 DEF p
    <3>. QED  BY <2>1, <3>1
  <2>. QED  BY <1>1, <2>1, <2>2, <2>3 DEF FlowInv, First
<1>. QED  BY <1>2, <1>3

LEMMA Flows == OnceIfTimely => (Spec => [](TypeInv /\ OrderlyInv /\ (Faithful => FlowInv)))
<1> SUFFICES ASSUME OnceIfTimely PROVE Spec => [](TypeInv /\ OrderlyInv /\ (Faithful => FlowInv))
  OBVIOUS
<1>1. Init => FlowInv
  <2> SUFFICES ASSUME Init PROVE FlowInv
    OBVIOUS
  <2>. QED  BY DEF Init, FlowInv, First
<1>2. /\ TypeInv /\ OrderlyInv /\ (Faithful => FlowInv)
      /\ [Next]_vars
      => (Faithful => FlowInv)'
  <2> SUFFICES ASSUME TypeInv, OrderlyInv, Faithful => FlowInv, [Next]_vars, Faithful'
               PROVE  FlowInv'
    OBVIOUS
  <2>1. ~Lose /\ ~Duplicate
    BY DEF Lose, Duplicate, Fault, Faithful, TypeInv, TypeOK
  <2>2. Faithful
    <3>1. faults' = faults
      BY <2>1 DEF Next, vars, Terminating, Server, Client, UserCommand,
         ServerCommand, ServerSendsFile, ServerListens, ServerFileSize, ServerRow,
         ServerSilence, ServerCheck, ClientFileSize, ClientRow, ClientSilence,
         ClientCheck,
         ClientSendSize, ClientSendsFile, ClientListens, ClientReply, ClientTimeout
    <3>. QED  BY <3>1, SameMode DEF Faithful, Sound
  <2>3. Orderly /\ TalkInv /\ FlowInv /\ "reorder" \notin mode.faults
    BY <2>2, SoundTalks DEF Faithful
  <2>4. CASE Server
    BY <2>3, <2>4, ServerFlows
  <2>5. CASE Client
    BY <2>3, <2>5, ClientFlows
  <2>6. CASE \E c \in mode.commands : UserCommand(c)
    BY <2>3, <2>6, UserFlows
  <2>7. CASE UNCHANGED vars
    BY <2>3, <2>7 DEF vars, net, server, client, FlowInv, Coming, Complete, Wanted
  <2>. QED  BY <2>1, <2>4, <2>5, <2>6, <2>7 DEF Next, Terminating
<1>. QED  BY <1>1, <1>2, Talks, PTL DEF Spec

(* Over a network that does nothing wrong a command fails only because of  *)
(* a file that is missing or empty.                                        *)
THEOREM FailuresExplained ==
  ASSUME OnceIfTimely
  PROVE  Spec => []FailsForAReason
<1>1. (Faithful => FlowInv) => FailsForAReason
  BY DEF FlowInv, FailsForAReason
<1>. QED  BY <1>1, Flows, PTL
-----------------------------------------------------------------------------
(* Rows that come late, whatever the network does.                         *)

Lengths == {Len(f) : f \in Contents}

SizeOK(size) == size = 0 \/ size \in Lengths

InPlace(b, k) == \E f \in Contents : Belongs(b, k, f)

Place(i, j) == (i - 1) * RowLen + j

RowInPlace(row, i) == \A j \in 1..RowLen : InPlace(row[j], Place(i, j))

RowsInPlace(buf) == \A i \in DOMAIN buf : buf[i] # NoRow => RowInPlace(buf[i], i)

FileInPlace(d) == Len(d) \in Lengths /\ \A k \in DOMAIN d : InPlace(d[k], k)

DirInPlace(dir) == \A n \in Names : dir[n] # NoFile => FileInPlace(dir[n])

CarriesInPlace(m) ==
  /\ m.type = "FILESIZE" => SizeOK(m.size)
  /\ m.type = "ROW" /\ m.data # NoRow => RowInPlace(m.data, m.num)

PlaceInv ==
  /\ DirInPlace(serverDir) /\ DirInPlace(clientDir)
  /\ RowsInPlace(sbuf) /\ RowsInPlace(cbuf)
  /\ SizeOK(ssize) /\ SizeOK(csize)
  /\ spc \in {"ROW", "check"} => ssize > 0
  /\ cpc \in {"ROW", "check"} => csize > 0
  /\ \A i \in DOMAIN toServer : CarriesInPlace(toServer[i])
  /\ \A i \in DOMAIN toClient : CarriesInPlace(toClient[i])

(* The rows, and the file, are from the file f.                            *)
RowsFrom(buf, f) ==
  \A i \in DOMAIN buf : buf[i] # NoRow =>
    \A j \in 1..RowLen : Belongs(buf[i][j], Place(i, j), f)

FileFrom(d, f) == \A k \in DOMAIN d : Belongs(d[k], k, f)

OneFile(d) == \E f \in Contents : FileFrom(d, f)

OneSource(buf) == \E f \in Contents : RowsFrom(buf, f)

NoRowsIn(chan) == \A j \in DOMAIN chan : chan[j].type # "ROW"

NoAck(chan) == \A j \in DOMAIN chan : chan[j].type # "ALLREC"

(* A stream of rows, and of acknowledgements the other way, from a sender  *)
(* in state s to a receiver in state r.  While nothing was sent there are  *)
(* none of them.                                                           *)
Receiving == {"ROW", "check"}

Quiet(rows, acks, to, r) ==
  NoRowsIn(rows) /\ NoAck(acks) /\ (r \in Receiving => Awaited(to))

(* Rows were sent: those on their way were sent once and have not come.    *)
RowsPhase(rows, acks, from, to, r) ==
  /\ NoAck(acks)
  /\ \A j \in DOMAIN rows : rows[j].type = "ROW" =>
       /\ \E i \in DOMAIN from : rows[j] = Row(from, i)
       /\ r \in Receiving /\ DOMAIN to = DOMAIN from => to[rows[j].num] = NoRow
  /\ \A j, k \in DOMAIN rows :
       rows[j].type = "ROW" /\ rows[k].type = "ROW" /\ rows[j].num = rows[k].num => j = k
  /\ r \in Receiving => Awaited(to) \/ Partial(to, from)

(* All of them have come.                                                  *)
AckPhase(rows, acks, to, r) ==
  /\ NoRowsIn(rows) /\ (r \in Receiving => Awaited(to))
  /\ \A j, k \in DOMAIN acks : acks[j].type = "ALLREC" /\ acks[k].type = "ALLREC" => j = k

Stream(rows, acks, from, s, to, r) ==
  \/ s # "ALLREC" /\ Quiet(rows, acks, to, r)
  \/ s = "ALLREC" /\ RowsPhase(rows, acks, from, to, r)
  \/ s = "ALLREC" /\ AckPhase(rows, acks, to, r)

Down == Stream(toClient, toServer, sbuf, spc, cbuf, cpc)

Up == Stream(toServer, toClient, cbuf, cpc, sbuf, spc)

OneInv ==
  /\ \A n \in Names : serverDir[n] # NoFile => OneFile(serverDir[n])
  /\ \A n \in Names : clientDir[n] # NoFile => OneFile(clientDir[n])
  /\ spc \in {"SENDFILE", "ALLREC"} => OneSource(sbuf)
  /\ cpc \in {"SENDSIZE", "SENDFILE", "ALLREC"} => OneSource(cbuf)
  /\ Down /\ Up

OnceInv == "duplicate" \notin mode.faults => OneInv

(* Where the byte of a file is in its rows.                                *)
RowAt(k) == ((k - 1) \div RowLen) + 1

ColumnAt(k) == ((k - 1) % RowLen) + 1

LEMMA CellPlace ==
  ASSUME NEW size \in Nat, NEW k \in 1..size
  PROVE  /\ RowAt(k) \in 1..NumRows(size) /\ ColumnAt(k) \in 1..RowLen
         /\ Place(RowAt(k), ColumnAt(k)) = k
<1> DEFINE q == (k - 1) \div RowLen
           r == (k - 1) % RowLen
           n == NumRows(size)
<1>0. RowLen \in Nat /\ RowLen > 0
  BY TransferAssumption
<1>1. q \in Nat /\ r \in 0..(RowLen - 1) /\ k - 1 = RowLen * q + r
  BY <1>0, Divided
<1>2. n \in Nat /\ n * RowLen >= size
  BY RowsEnough
<1>3. RowAt(k) = q + 1 /\ ColumnAt(k) = r + 1
  BY DEF RowAt, ColumnAt
<1> HIDE DEF q, r, n
<1>4. q < n
  <2> SUFFICES ASSUME n =< q PROVE FALSE
    BY <1>1, <1>2
  <2>1. RowLen * n =< RowLen * q
    BY <1>0, <1>1, <1>2
  <2>. QED  BY <1>0, <1>1, <1>2, <2>1
<1>5. q + 1 \in 1..n /\ r + 1 \in 1..RowLen /\ ((q + 1) - 1) * RowLen + (r + 1) = k
  BY <1>0, <1>1, <1>2, <1>4
<1>. QED  BY <1>3, <1>5 DEF n, Place

(* The rows of a file that belong in their place, or to one file.          *)
LEMMA RowsOfCell ==
  ASSUME NEW d \in Seq(Bytes), NEW i \in DOMAIN RowsOf(d), NEW j \in 1..RowLen
  PROVE  RowsOf(d)[i][j] = IF Place(i, j) \in DOMAIN d THEN d[Place(i, j)] ELSE Zero
<1>1. RowLen \in Nat /\ RowLen > 0 /\ NumRows(Len(d)) \in Nat /\ Len(d) \in Nat
  BY TransferAssumption, RowsEnough
<1>2. i \in 1..NumRows(Len(d))
  BY DEF RowsOf
<1>3. Place(i, j) \in Nat /\ Place(i, j) >= 1
  <2>1. i - 1 \in Nat
    BY <1>1, <1>2
  <2>2. (i - 1) * RowLen \in Nat
    BY <1>1, <2>1
  <2>. QED  BY <2>2 DEF Place
<1>4. RowsOf(d)[i][j] = IF Place(i, j) =< Len(d) THEN d[Place(i, j)] ELSE Zero
  BY <1>2 DEF RowsOf, Place
<1>. QED  BY <1>1, <1>3, <1>4

LEMMA RowsBelong ==
  ASSUME NEW d \in Seq(Bytes)
  PROVE  /\ FileInPlace(d) => RowsInPlace(RowsOf(d))
         /\ \A f \in Contents : FileFrom(d, f) => RowsFrom(RowsOf(d), f)
<1>1. FileInPlace(d) => RowsInPlace(RowsOf(d))
  <2> SUFFICES ASSUME FileInPlace(d), NEW i \in DOMAIN RowsOf(d), NEW j \in 1..RowLen
               PROVE  InPlace(RowsOf(d)[i][j], Place(i, j))
    BY DEF RowsInPlace, RowInPlace
  <2>1. Contents # {}
    BY DEF FileInPlace, Lengths
  <2>. QED  BY <2>1, RowsOfCell DEF FileInPlace, InPlace, Belongs
<1>2. ASSUME NEW f \in Contents, FileFrom(d, f), NEW i \in DOMAIN RowsOf(d), NEW j \in 1..RowLen
      PROVE  Belongs(RowsOf(d)[i][j], Place(i, j), f)
  BY <1>2, RowsOfCell DEF FileFrom, Belongs
<1>. QED  BY <1>1, <1>2 DEF RowsFrom

(* What is written when all rows have come.                                *)
LEMMA WrittenBelongs ==
  ASSUME NEW size \in Nat, size > 0, NEW buf \in Seq(Cells), Len(buf) = NumRows(size),
         Complete(buf)
  PROVE  /\ FileOf(buf, size) \in Seq(Bytes) /\ Len(FileOf(buf, size)) = size
         /\ SizeOK(size) /\ RowsInPlace(buf) => FileInPlace(FileOf(buf, size))
         /\ \A f \in Contents : RowsFrom(buf, f) => FileFrom(FileOf(buf, size), f)
<1> DEFINE n == NumRows(size)
           d == [k \in 1..size |-> Cell(buf, k)]
<1>1. n \in Nat
  BY RowsEnough
<1>2. buf \in [1..n -> DataRow] /\ DOMAIN buf = 1..n
  BY DEF Complete, Cells
<1>3. FileOf(buf, size) = d
  BY <1>2, FileOfIs
<1>4. d \in Seq(Bytes) /\ Len(d) = size /\ DOMAIN d = 1..size
  <2>1. \A k \in 1..size : Cell(buf, k) \in Bytes
    BY <1>2, CellType
  <2>. QED  BY <2>1
<1>5. SizeOK(size) /\ RowsInPlace(buf) => FileInPlace(d)
  <2> SUFFICES ASSUME SizeOK(size), RowsInPlace(buf) PROVE FileInPlace(d)
    OBVIOUS
  <2>1. ASSUME NEW k \in 1..size PROVE InPlace(Cell(buf, k), k)
    <3> DEFINE i == RowAt(k)
               j == ColumnAt(k)
    <3>1. i \in 1..n /\ j \in 1..RowLen /\ Place(i, j) = k /\ Cell(buf, k) = buf[i][j]
      BY CellPlace DEF Cell, RowAt, ColumnAt
    <3> HIDE DEF i, j
    <3>2. buf[i] # NoRow
      BY <1>2, <3>1 DEF Complete
    <3>. QED  BY <1>2, <3>1, <3>2 DEF RowsInPlace, RowInPlace
  <2>2. size \in Lengths
    BY DEF SizeOK
  <2>. QED  BY <1>4, <2>1, <2>2 DEF FileInPlace
<1>6. ASSUME NEW f \in Contents, RowsFrom(buf, f) PROVE FileFrom(d, f)
  <2>1. ASSUME NEW k \in 1..size PROVE Belongs(Cell(buf, k), k, f)
    <3> DEFINE i == RowAt(k)
               j == ColumnAt(k)
    <3>1. i \in 1..n /\ j \in 1..RowLen /\ Place(i, j) = k /\ Cell(buf, k) = buf[i][j]
      BY CellPlace DEF Cell, RowAt, ColumnAt
    <3> HIDE DEF i, j
    <3>2. buf[i] # NoRow
      BY <1>2, <3>1 DEF Complete
    <3>. QED  BY <1>2, <1>6, <3>1, <3>2 DEF RowsFrom
  <2>. QED  BY <1>4, <2>1 DEF FileFrom
<1>. QED  BY <1>3, <1>4, <1>5, <1>6

LEMMA WithRowInPlace ==
  ASSUME NEW buf \in Seq(Cells), RowsInPlace(buf), NEW m, m.type = "ROW", CarriesInPlace(m)
  PROVE  RowsInPlace(WithRow(m, buf))
<1>1. DOMAIN WithRow(m, buf) = DOMAIN buf
  BY DEF WithRow
<1>2. \A k \in DOMAIN buf : WithRow(m, buf)[k] = IF k = m.num THEN m.data ELSE buf[k]
  BY DEF WithRow
<1>. QED  BY <1>1, <1>2 DEF RowsInPlace, CarriesInPlace

LEMMA UnreceivedInPlace == \A m : RowsInPlace(Unreceived(m)) /\ Awaited(Unreceived(m))
BY DEF RowsInPlace, Unreceived, Awaited

LEMMA SentInPlace ==
  ASSUME NEW buf \in Seq(Cells), RowsInPlace(buf)
  PROVE  \A i \in DOMAIN Sent(buf) : CarriesInPlace(Sent(buf)[i])
BY DEF Sent, Row, RowsInPlace, CarriesInPlace

LEMMA InitInPlace == Init => PlaceInv
<1> SUFFICES ASSUME Init PROVE PlaceInv
  OBVIOUS
<1>1. ASSUME NEW f \in Contents PROVE FileInPlace(f)
  BY DEF FileInPlace, Lengths, InPlace, Belongs
<1>2. /\ \A n \in Names : serverDir[n] # NoFile => serverDir[n] \in Contents
      /\ \A n \in Names : clientDir[n] # NoFile => clientDir[n] \in Contents
  BY DEF Init, Contents
<1>3. DirInPlace(serverDir) /\ DirInPlace(clientDir)
  BY <1>1, <1>2 DEF DirInPlace
<1>. QED  BY <1>3 DEF Init, PlaceInv, RowsInPlace, SizeOK

LEMMA Appended ==
  ASSUME NEW T, NEW a \in Seq(T), NEW b \in Seq(T)
  PROVE  \A k \in DOMAIN (a \o b) :
           \/ k \in DOMAIN a /\ (a \o b)[k] = a[k]
           \/ k - Len(a) \in DOMAIN b /\ (a \o b)[k] = b[k - Len(a)]
<1>1. a \o b \in Seq(T) /\ Len(a \o b) = Len(a) + Len(b) /\ Len(a) \in Nat /\ Len(b) \in Nat
  OBVIOUS
<1>2. SUFFICES ASSUME NEW k \in 1..(Len(a) + Len(b))
               PROVE  \/ k \in 1..Len(a) /\ (a \o b)[k] = a[k]
                      \/ k - Len(a) \in 1..Len(b) /\ (a \o b)[k] = b[k - Len(a)]
  BY <1>1
<1>3. CASE k =< Len(a)
  BY <1>1, <1>3
<1>4. CASE ~(k =< Len(a))
  BY <1>1, <1>4
<1>. QED  BY <1>3, <1>4

LEMMA StepInPlace == TypeInv /\ PlaceInv /\ [Next]_vars => PlaceInv'
<1> SUFFICES ASSUME TypeInv, PlaceInv, [Next]_vars PROVE PlaceInv'
  OBVIOUS
<1> USE DEF net, server, client
<1>0. /\ toServer \in Seq(Datagram) /\ toClient \in Seq(Datagram)
      /\ sbuf \in Seq(Cells) /\ cbuf \in Seq(Cells) /\ ssize \in Nat /\ csize \in Nat
      /\ Len(sbuf) = NumRows(ssize) /\ Len(cbuf) = NumRows(csize)
      /\ ccmd[2] \in Names /\ sname \in Names
      /\ serverDir \in Dir /\ clientDir \in Dir
      /\ \A c \in mode.commands : c[2] \in Names
  BY TransferAssumption DEF TypeInv, TypeOK, Mode, Cells, DataRow
<1>w. \A w \in Plain : CarriesInPlace(Word(w)) /\ Word(w) \in Datagram
  BY DEF Word, Plain, Datagram, CarriesInPlace
<1>f. \A s \in Nat : SizeOK(s) => CarriesInPlace(FileSize(s)) /\ FileSize(s) \in Datagram
  BY DEF FileSize, Datagram, CarriesInPlace
<1>c. \A c \in mode.commands : CarriesInPlace(Command(c)) /\ Command(c) \in Datagram
  <2>1. mode.commands \subseteq Operations \X Names
    BY TransferAssumption DEF TypeInv, TypeOK, Mode
  <2>. QED  BY <2>1 DEF Command, Datagram, CarriesInPlace
<1>t. ASSUME NEW i \in DOMAIN toServer, toServer' = RemoveAt(toServer, i)
      PROVE  \A k \in DOMAIN toServer' : CarriesInPlace(toServer'[k])
  BY <1>0, <1>t, Rest DEF PlaceInv
<1>u. ASSUME NEW i \in DOMAIN toClient, toClient' = RemoveAt(toClient, i)
      PROVE  \A k \in DOMAIN toClient' : CarriesInPlace(toClient'[k])
  BY <1>0, <1>u, Rest DEF PlaceInv
<1>s. ASSUME NEW s \in Seq(Datagram), ServerSends(s), \A k \in DOMAIN s : CarriesInPlace(s[k])
      PROVE  \A k \in DOMAIN toClient' : CarriesInPlace(toClient'[k])
  BY <1>0, <1>s, Appended DEF ServerSends, PlaceInv
<1>r. ASSUME NEW s \in Seq(Datagram), ClientSends(s), \A k \in DOMAIN s : CarriesInPlace(s[k])
      PROVE  \A k \in DOMAIN toServer' : CarriesInPlace(toServer'[k])
  BY <1>0, <1>r, Appended DEF ClientSends, PlaceInv
<1>s1. ASSUME NEW m \in Datagram, ServerSends(<<m>>), CarriesInPlace(m)
       PROVE  \A k \in DOMAIN toClient' : CarriesInPlace(toClient'[k])
  <2>1. <<m>> \in Seq(Datagram) /\ \A k \in DOMAIN <<m>> : <<m>>[k] = m
    OBVIOUS
  <2>. QED  BY <1>s, <1>s1, <2>1
<1>r1. ASSUME NEW m \in Datagram, ClientSends(<<m>>), CarriesInPlace(m)
       PROVE  \A k \in DOMAIN toServer' : CarriesInPlace(toServer'[k])
  <2>1. <<m>> \in Seq(Datagram) /\ \A k \in DOMAIN <<m>> : <<m>>[k] = m
    OBVIOUS
  <2>. QED  BY <1>r, <1>r1, <2>1
<1>d. ASSUME NEW dir \in Dir, DirInPlace(dir), NEW n \in Names, dir[n] # NoFile
      PROVE  /\ dir[n] \in Seq(Bytes) /\ RowsInPlace(RowsOf(dir[n])) /\ SizeOK(Len(dir[n]))
             /\ Len(dir[n]) \in Nat
  <2>1. dir[n] \in Seq(Bytes) /\ FileInPlace(dir[n])
    BY <1>d DEF Dir, DirInPlace
  <2>. QED  BY <2>1, RowsBelong DEF FileInPlace, SizeOK
<1>e. ASSUME NEW dir \in Dir, DirInPlace(dir), NEW n \in Names, NEW size \in Nat, size > 0,
             SizeOK(size), NEW buf \in Seq(Cells), Len(buf) = NumRows(size), Complete(buf),
             RowsInPlace(buf), NEW d \in Written(dir, n, buf, size)
      PROVE  DirInPlace(d)
  <2>1. FileInPlace(FileOf(buf, size))
    BY <1>e, WrittenBelongs
  <2>. QED  BY <1>e, <2>1 DEF Written, DirInPlace, Dir
<1>x. /\ UNCHANGED toServer => \A k \in DOMAIN toServer' : CarriesInPlace(toServer'[k])
      /\ UNCHANGED toClient => \A k \in DOMAIN toClient' : CarriesInPlace(toClient'[k])
  BY DEF PlaceInv
<1>1. CASE ServerCommand
  <2>1. PICK i \in DOMAIN toServer : ServerTakes(i) /\ CommandStep(toServer[i])
    BY <1>1, CommandCases
  <2> DEFINE m == toServer[i]
  <2>2. /\ m \in Datagram /\ UNCHANGED <<mode, faults, client>>
        /\ \A k \in DOMAIN toServer' : CarriesInPlace(toServer'[k])
        /\ spc = "main"
    BY <1>0, <1>1, <1>t, <2>1 DEF ServerCommand, ServerTakes
  <2>3. m.type = "command" => m.name \in Names
    BY <2>2 DEF Datagram, Plain
  <2> HIDE DEF m
  <2>4. CASE Dropped(m)
    BY <1>x, <2>2, <2>4 DEF Dropped, PlaceInv
  <2>5. CASE Offered(m)
    <3>1. /\ RowsInPlace(sbuf') /\ SizeOK(ssize') /\ ssize' \in Nat
          /\ UNCHANGED <<serverDir, sname>> /\ spc' = "SENDFILE"
      BY <1>0, <1>d, <2>3, <2>5 DEF Offered, PlaceInv
    <3>2. \A k \in DOMAIN toClient' : CarriesInPlace(toClient'[k])
      BY <1>f, <1>s1, <2>5, <3>1 DEF Offered
    <3>. QED  BY <2>2, <3>1, <3>2 DEF PlaceInv
  <2>6. CASE Missing(m)
    BY <1>s1, <1>w, <2>2, <2>6 DEF Missing, PlaceInv, Plain
  <2>7. CASE Deleted(m)
    <3>1. DirInPlace(serverDir')
      BY <1>0, <2>3, <2>7 DEF Deleted, PlaceInv, DirInPlace, Dir
    <3>. QED  BY <1>s1, <1>w, <2>2, <2>7, <3>1 DEF Deleted, PlaceInv, Plain
  <2>8. CASE Expected(m)
    BY <1>s1, <1>w, <2>2, <2>8 DEF Expected, PlaceInv, Plain
  <2>9. CASE Answered(m)
    BY <1>s1, <1>w, <2>2, <2>9 DEF Answered, PlaceInv, Plain
  <2>. QED  BY <2>1, <2>4, <2>5, <2>6, <2>7, <2>8, <2>9 DEF CommandStep, m
<1>2. CASE ServerSendsFile
  <2>1. Sent(sbuf) \in Seq(Datagram) /\ \A i \in DOMAIN Sent(sbuf) : CarriesInPlace(Sent(sbuf)[i])
    BY <1>0, SentType, SentInPlace DEF PlaceInv
  <2>. QED  BY <1>2, <1>s, <1>t, <1>x, <2>1
     DEF ServerSendsFile, ServerTakes, ServerIdle, PlaceInv
<1>3. CASE ServerListens
  BY <1>3, <1>t, <1>x DEF ServerListens, ServerTakes, PlaceInv
<1>4. CASE ServerFileSize
  <2>1. PICK i \in DOMAIN toServer :
          /\ ServerTakes(i)
          /\ \/ /\ SizeAccepted(toServer[i])
                /\ sbuf' = Unreceived(toServer[i]) /\ ssize' = toServer[i].size
                /\ ServerSends(<<Word("SENDFILE")>>)
                /\ spc' = "ROW"
                /\ UNCHANGED <<serverDir, sname>>
             \/ ServerIdle /\ UNCHANGED toClient
    BY <1>4 DEF ServerFileSize
  <2>2. /\ \A k \in DOMAIN toServer' : CarriesInPlace(toServer'[k])
        /\ UNCHANGED <<mode, faults, client>>
    BY <1>4, <1>t, <2>1 DEF ServerFileSize, ServerTakes
  <2>3. CarriesInPlace(toServer[i])
    BY DEF PlaceInv
  <2>4. CASE SizeAccepted(toServer[i]) /\ spc' = "ROW"
    <3>1. RowsInPlace(sbuf') /\ SizeOK(ssize') /\ ssize' > 0 /\ UNCHANGED serverDir
      BY <2>1, <2>3, <2>4, UnreceivedInPlace DEF SizeAccepted, CarriesInPlace, ServerIdle
    <3>2. \A k \in DOMAIN toClient' : CarriesInPlace(toClient'[k])
      BY <1>s1, <1>w, <2>1, <2>4 DEF Plain, ServerIdle
    <3>. QED  BY <2>2, <2>4, <3>1, <3>2 DEF PlaceInv
  <2>5. CASE ServerIdle /\ UNCHANGED toClient
    BY <1>x, <2>2, <2>5 DEF ServerIdle, PlaceInv
  <2>. QED  BY <2>1, <2>4, <2>5
<1>5. CASE ServerRow
  <2>1. PICK i \in DOMAIN toServer :
          /\ ServerTakes(i)
          /\ \/ RowAccepted(toServer[i], sbuf) /\ sbuf' = WithRow(toServer[i], sbuf)
                  /\ UNCHANGED spc
             \/ spc' = "check" /\ UNCHANGED sbuf
    BY <1>5 DEF ServerRow
  <2>2. RowsInPlace(sbuf')
    BY <1>0, <2>1, WithRowInPlace DEF RowAccepted, PlaceInv
  <2>. QED  BY <1>5, <1>t, <1>x, <2>1, <2>2 DEF ServerRow, ServerTakes, PlaceInv
<1>6. CASE ServerSilence
  BY <1>6, <1>x DEF ServerSilence, PlaceInv
<1>7. CASE ServerCheck
  <2>1. CASE Complete(sbuf)
    <3>1. DirInPlace(serverDir')
      BY <1>0, <1>7, <1>e, <2>1 DEF ServerCheck, PlaceInv
    <3>. QED  BY <1>7, <1>s1, <1>w, <1>x, <2>1, <3>1
              DEF ServerCheck, Acknowledgement, PlaceInv, Plain
  <2>2. CASE ~Complete(sbuf)
    BY <1>7, <1>x, <2>2 DEF ServerCheck, PlaceInv
  <2>. QED  BY <2>1, <2>2
<1>8. CASE \E c \in mode.commands : UserCommand(c)
  <2>1. PICK c \in mode.commands : UserCommand(c)
    BY <1>8
  <2>2. UNCHANGED <<mode, toClient, faults, server, clientDir>> /\ cpc' \notin {"ROW", "check"}
    BY <2>1 DEF UserCommand, Ends
  <2>3. RowsInPlace(cbuf') /\ SizeOK(csize')
    BY <1>0, <1>d, <2>1 DEF UserCommand, PlaceInv
  <2>4. \A k \in DOMAIN toServer' : CarriesInPlace(toServer'[k])
    BY <1>c, <1>r1, <1>x, <2>1 DEF UserCommand
  <2>. QED  BY <1>x, <2>2, <2>3, <2>4 DEF PlaceInv
<1>9. CASE ClientFileSize
  <2>1. PICK i \in DOMAIN toClient :
          /\ ClientTakes(i)
          /\ \/ /\ SizeAccepted(toClient[i])
                /\ cbuf' = Unreceived(toClient[i]) /\ csize' = toClient[i].size
                /\ ClientSends(<<Word("SENDFILE")>>)
                /\ cpc' = "ROW"
                /\ UNCHANGED told
             \/ Ends("failed") /\ UNCHANGED <<toServer, cbuf, csize>>
    BY <1>9 DEF ClientFileSize
  <2>2. /\ \A k \in DOMAIN toClient' : CarriesInPlace(toClient'[k])
        /\ UNCHANGED <<mode, faults, server, clientDir, ccmd, cmds>>
    BY <1>9, <1>u, <2>1 DEF ClientFileSize, ClientTakes
  <2>3. CarriesInPlace(toClient[i])
    BY DEF PlaceInv
  <2>4. CASE SizeAccepted(toClient[i]) /\ cpc' = "ROW"
    <3>1. RowsInPlace(cbuf') /\ SizeOK(csize') /\ csize' > 0
      BY <2>1, <2>3, <2>4, UnreceivedInPlace DEF SizeAccepted, CarriesInPlace, Ends
    <3>2. \A k \in DOMAIN toServer' : CarriesInPlace(toServer'[k])
      BY <1>r1, <1>w, <2>1, <2>4 DEF Plain, Ends
    <3>. QED  BY <2>2, <2>4, <3>1, <3>2 DEF PlaceInv
  <2>5. CASE Ends("failed") /\ UNCHANGED <<toServer, cbuf, csize>>
    BY <1>x, <2>2, <2>5 DEF Ends, PlaceInv
  <2>. QED  BY <2>1, <2>4, <2>5
<1>10. CASE ClientRow
  <2>1. PICK i \in DOMAIN toClient :
          /\ ClientTakes(i)
          /\ \/ RowAccepted(toClient[i], cbuf) /\ cbuf' = WithRow(toClient[i], cbuf)
                  /\ UNCHANGED <<cpc, told>>
             \/ Ends("failed") /\ UNCHANGED cbuf
    BY <1>10 DEF ClientRow
  <2>2. RowsInPlace(cbuf')
    BY <1>0, <2>1, WithRowInPlace DEF RowAccepted, PlaceInv
  <2>. QED  BY <1>10, <1>u, <1>x, <2>1, <2>2 DEF ClientRow, ClientTakes, Ends, PlaceInv
<1>11. CASE ClientSilence
  BY <1>11, <1>x DEF ClientSilence, PlaceInv
<1>12. CASE ClientCheck
  <2>1. CASE Complete(cbuf)
    <3>1. DirInPlace(clientDir')
      BY <1>0, <1>12, <1>e, <2>1 DEF ClientCheck, PlaceInv
    <3>. QED  BY <1>12, <1>r1, <1>w, <1>x, <2>1, <3>1
              DEF ClientCheck, Acknowledgement, Ends, PlaceInv, Plain
  <2>2. CASE ~Complete(cbuf)
    BY <1>12, <1>x, <2>2 DEF ClientCheck, PlaceInv
  <2>. QED  BY <2>1, <2>2
<1>13. CASE ClientSendSize
  BY <1>0, <1>13, <1>f, <1>r1, <1>u, <1>x DEF ClientSendSize, ClientTakes, Ends, PlaceInv
<1>14. CASE ClientSendsFile
  <2>1. Sent(cbuf) \in Seq(Datagram) /\ \A i \in DOMAIN Sent(cbuf) : CarriesInPlace(Sent(cbuf)[i])
    BY <1>0, SentType, SentInPlace DEF PlaceInv
  <2>. QED  BY <1>14, <1>r, <1>u, <1>x, <2>1
     DEF ClientSendsFile, ClientTakes, Ends, PlaceInv
<1>15. CASE ClientListens
  BY <1>15, <1>u, <1>x DEF ClientListens, ClientTakes, Ends, PlaceInv
<1>16. CASE ClientReply
  BY <1>16, <1>u, <1>x DEF ClientReply, ClientTakes, Ends, PlaceInv
<1>17. CASE ClientTimeout
  BY <1>17, <1>x DEF ClientTimeout, Ends, PlaceInv
<1>18. CASE Lose
  BY <1>18, <1>t, <1>u, <1>x DEF Lose, PlaceInv
<1>19. CASE Duplicate
  <2>1. \A k \in DOMAIN toServer' : CarriesInPlace(toServer'[k])
    <3>1. CASE \E i \in DOMAIN toServer : ClientSends(<<toServer[i]>>)
      <4>1. PICK i \in DOMAIN toServer : ClientSends(<<toServer[i]>>)
        BY <3>1
      <4>2. toServer[i] \in Datagram /\ CarriesInPlace(toServer[i])
        BY <1>0 DEF PlaceInv
      <4>. QED  BY <1>r1, <4>1, <4>2
    <3>. QED  BY <1>19, <1>x, <3>1 DEF Duplicate
  <2>2. \A k \in DOMAIN toClient' : CarriesInPlace(toClient'[k])
    <3>1. CASE \E i \in DOMAIN toClient : ServerSends(<<toClient[i]>>)
      <4>1. PICK i \in DOMAIN toClient : ServerSends(<<toClient[i]>>)
        BY <3>1
      <4>2. toClient[i] \in Datagram /\ CarriesInPlace(toClient[i])
        BY <1>0 DEF PlaceInv
      <4>. QED  BY <1>s1, <4>1, <4>2
    <3>. QED  BY <1>19, <1>x, <3>1 DEF Duplicate
  <2>. QED  BY <1>19, <2>1, <2>2 DEF Duplicate, PlaceInv
<1>20. CASE UNCHANGED vars
  BY <1>20, <1>x DEF vars, PlaceInv
<1>. QED  BY <1>1, <1>2, <1>3, <1>4, <1>5, <1>6, <1>7, <1>8, <1>9, <1>10, <1>11, <1>12,
             <1>13, <1>14, <1>15, <1>16, <1>17, <1>18, <1>19, <1>20
          DEF Next, Server, Client, Terminating

LEMMA Placed == Spec => [](TypeInv /\ PlaceInv)
BY InitInPlace, StepInPlace, Types, PTL DEF Spec
-----------------------------------------------------------------------------
(* Rows that come once: a stream of rows and its acknowledgement.          *)

(* Of the messages of a type there are no more than there were; of the     *)
(* rows and acknowledgements neither.                                      *)
FewerOf(t, new, old) ==
  /\ \A k \in DOMAIN new : new[k].type = t => \E j \in DOMAIN old : old[j] = new[k]
  /\ \A k, l \in DOMAIN new : k # l /\ new[k].type = t /\ new[l].type = t =>
       \E i, j \in DOMAIN old : i # j /\ old[i] = new[k] /\ old[j] = new[l]

Fewer(new, old) == FewerOf("ROW", new, old) /\ FewerOf("ALLREC", new, old)

LEMMA FewerSame == \A chan : Fewer(chan, chan)
BY DEF Fewer, FewerOf

LEMMA FewerTaken ==
  ASSUME NEW chan \in Seq(Datagram), NEW i \in DOMAIN chan
  PROVE  Fewer(RemoveAt(chan, i), chan)
<1> DEFINE rest == RemoveAt(chan, i)
           From(k) == IF k < i THEN k ELSE k + 1
<1>1. /\ rest \in Seq(Datagram) /\ Len(rest) = Len(chan) - 1
      /\ \A k \in 1..(Len(chan) - 1) : rest[k] = IF k < i THEN chan[k] ELSE chan[k + 1]
  BY Left
<1> HIDE DEF rest
<1>2. /\ \A k \in DOMAIN rest : From(k) \in DOMAIN chan /\ rest[k] = chan[From(k)]
      /\ \A k, l \in DOMAIN rest : k # l => From(k) # From(l)
  BY <1>1
<1> HIDE DEF From
<1>3. \A t : FewerOf(t, rest, chan)
  BY <1>2 DEF FewerOf
<1>. QED  BY <1>3 DEF rest, Fewer

LEMMA FewerSent ==
  ASSUME NEW chan \in Seq(Datagram), NEW msgs \in Seq(Datagram), NEW t,
         \A k \in DOMAIN msgs : msgs[k].type # t
  PROVE  FewerOf(t, chan \o msgs, chan)
<1> DEFINE more == chan \o msgs
<1>1. \A k \in DOMAIN more : (k \in DOMAIN chan /\ more[k] = chan[k]) \/ more[k].type # t
  BY Appended
<1> HIDE DEF more
<1>2. FewerOf(t, more, chan)
  BY <1>1 DEF FewerOf
<1>. QED  BY <1>2 DEF more

(* A step that sends none of them, and ends neither state, leaves a stream *)
(* what it is.                                                             *)
LEMMA StreamStays ==
  ASSUME NEW rows, NEW acks, NEW from, NEW s, NEW to, NEW r, Stream(rows, acks, from, s, to, r),
         NEW rows2, NEW acks2, NEW from2, NEW s2, NEW to2, NEW r2,
         FewerOf("ROW", rows2, rows), FewerOf("ALLREC", acks2, acks),
         s2 = "ALLREC" <=> s = "ALLREC", s = "ALLREC" => from2 = from,
         r2 \in Receiving => r \in Receiving /\ to2 = to
  PROVE  Stream(rows2, acks2, from2, s2, to2, r2)
<1>1. NoRowsIn(rows) => NoRowsIn(rows2)
  BY DEF NoRowsIn, FewerOf
<1>2. NoAck(acks) => NoAck(acks2)
  BY DEF NoAck, FewerOf
<1>3. CASE s # "ALLREC" /\ Quiet(rows, acks, to, r)
  BY <1>1, <1>2, <1>3 DEF Quiet, Stream
<1>4. CASE s = "ALLREC" /\ RowsPhase(rows, acks, from, to, r)
  <2>1. NoAck(acks2) /\ (r2 \in Receiving => Awaited(to2) \/ Partial(to2, from2))
    BY <1>2, <1>4 DEF RowsPhase
  <2>2. ASSUME NEW j \in DOMAIN rows2, rows2[j].type = "ROW"
        PROVE  /\ \E i \in DOMAIN from2 : rows2[j] = Row(from2, i)
               /\ r2 \in Receiving /\ DOMAIN to2 = DOMAIN from2 => to2[rows2[j].num] = NoRow
    <3>1. PICK i \in DOMAIN rows : rows[i] = rows2[j]
      BY <2>2 DEF FewerOf
    <3>. QED  BY <1>4, <2>2, <3>1 DEF RowsPhase
  <2>3. ASSUME NEW j \in DOMAIN rows2, NEW k \in DOMAIN rows2, rows2[j].type = "ROW",
               rows2[k].type = "ROW", rows2[j].num = rows2[k].num, j # k
        PROVE  FALSE
    <3>1. PICK i, l \in DOMAIN rows : i # l /\ rows[i] = rows2[j] /\ rows[l] = rows2[k]
      BY <2>3 DEF FewerOf
    <3>. QED  BY <1>4, <2>3, <3>1 DEF RowsPhase
  <2>4. RowsPhase(rows2, acks2, from2, to2, r2)
    BY <2>1, <2>2, <2>3 DEF RowsPhase
  <2>. QED  BY <1>4, <2>4 DEF Stream
<1>5. CASE s = "ALLREC" /\ AckPhase(rows, acks, to, r)
  <2>1. ASSUME NEW j \in DOMAIN acks2, NEW k \in DOMAIN acks2, acks2[j].type = "ALLREC",
               acks2[k].type = "ALLREC", j # k
        PROVE  FALSE
    <3>1. PICK i, l \in DOMAIN acks : i # l /\ acks[i] = acks2[j] /\ acks[l] = acks2[k]
      BY <2>1 DEF FewerOf
    <3>. QED  BY <1>5, <2>1, <3>1 DEF AckPhase
  <2>2. AckPhase(rows2, acks2, to2, r2)
    BY <1>1, <1>5, <2>1 DEF AckPhase
  <2>. QED  BY <1>5, <2>2 DEF Stream
<1>. QED  BY <1>3, <1>4, <1>5 DEF Stream

(* The rows are sent.                                                      *)
LEMMA StreamSends ==
  ASSUME NEW rows \in Seq(Datagram), NEW acks, NEW from \in Seq(Cells), NEW s, NEW to, NEW r,
         Stream(rows, acks, from, s, to, r), s # "ALLREC", NEW acks2, FewerOf("ALLREC", acks2, acks)
  PROVE  Stream(rows \o Sent(from), acks2, from, "ALLREC", to, r)
<1> DEFINE more == rows \o Sent(from)
<1>1. /\ \A j \in DOMAIN rows : rows[j].type # "ROW"
      /\ NoAck(acks2) /\ (r \in Receiving => Awaited(to))
  BY DEF Stream, Quiet, NoAck, NoRowsIn, FewerOf
<1>2. /\ Len(rows) \in Nat /\ DOMAIN more \subseteq Int
      /\ \A j \in DOMAIN more :
           \/ j \in DOMAIN rows /\ more[j] = rows[j]
           \/ j - Len(rows) \in DOMAIN from /\ more[j] = Row(from, j - Len(rows))
  <2>1. Sent(from) \in Seq(Datagram)
    BY SentType
  <2>2. more \in Seq(Datagram)
    BY <2>1
  <2>. QED  BY <2>1, <2>2, Appended, SentIs
<1> HIDE DEF more
<1>3. \A j \in DOMAIN more : more[j].type = "ROW" =>
        /\ j - Len(rows) \in DOMAIN from /\ more[j] = Row(from, j - Len(rows))
        /\ more[j].num = j - Len(rows)
  BY <1>1, <1>2 DEF Row
<1>4. \A j, k \in DOMAIN more :
        more[j].type = "ROW" /\ more[k].type = "ROW" /\ more[j].num = more[k].num => j = k
  BY <1>2, <1>3
<1>5. RowsPhase(more, acks2, from, to, r)
  BY <1>1, <1>3, <1>4 DEF RowsPhase, Awaited
<1>. QED  BY <1>5 DEF Stream, more

(* A row comes.                                                            *)
LEMMA StreamTakes ==
  ASSUME NEW rows \in Seq(Datagram), NEW acks, NEW from \in Seq(Cells), NEW s,
         NEW to \in Seq(Cells), NEW r \in Receiving, Stream(rows, acks, from, s, to, r),
         NEW i \in DOMAIN rows, RowAccepted(rows[i], to)
  PROVE  Stream(RemoveAt(rows, i), acks, from, s, WithRow(rows[i], to), r)
<1> DEFINE rest == RemoveAt(rows, i)
           new == WithRow(rows[i], to)
<1>1. s = "ALLREC" /\ RowsPhase(rows, acks, from, to, r)
  BY DEF RowAccepted, Stream, Quiet, AckPhase, NoRowsIn
<1>2. PICK n \in DOMAIN from : rows[i] = Row(from, n)
  BY <1>1 DEF RowsPhase, RowAccepted
<1>3. /\ rows[i].type = "ROW" /\ rows[i].num = n /\ rows[i].data = from[n]
      /\ DOMAIN to = DOMAIN from
  BY <1>2 DEF Row, RowAccepted
<1>4. DOMAIN new = DOMAIN to /\ \A k \in DOMAIN to : new[k] = IF k = n THEN from[n] ELSE to[k]
  BY <1>3 DEF WithRow
<1>5. \A j \in DOMAIN rest : \E k \in DOMAIN rows : k # i /\ rest[j] = rows[k]
  BY Rest
<1>6. Fewer(rest, rows)
  BY FewerTaken
<1> HIDE DEF rest, new
<1>7. Partial(new, from)
  BY <1>1, <1>3, <1>4 DEF RowsPhase, Partial, Awaited
<1>8. ASSUME NEW j \in DOMAIN rest, rest[j].type = "ROW"
      PROVE  (\E k \in DOMAIN from : rest[j] = Row(from, k)) /\ new[rest[j].num] = NoRow
  <2>1. PICK k \in DOMAIN rows : k # i /\ rest[j] = rows[k]
    BY <1>5
  <2>2. PICK l \in DOMAIN from : rows[k] = Row(from, l)
    BY <1>1, <1>8, <2>1 DEF RowsPhase
  <2>3. rows[k].num = l /\ l # n /\ to[l] = NoRow
    BY <1>1, <1>3, <1>8, <2>1, <2>2 DEF RowsPhase, Row
  <2>. QED  BY <1>3, <1>4, <2>1, <2>2, <2>3
<1>9. ASSUME NEW j \in DOMAIN rest, NEW k \in DOMAIN rest, rest[j].type = "ROW",
             rest[k].type = "ROW", rest[j].num = rest[k].num, j # k
      PROVE  FALSE
  <2>1. PICK a, b \in DOMAIN rows : a # b /\ rows[a] = rest[j] /\ rows[b] = rest[k]
    BY <1>6, <1>9 DEF Fewer, FewerOf
  <2>. QED  BY <1>1, <1>9, <2>1 DEF RowsPhase
<1>10. RowsPhase(rest, acks, from, new, r)
  BY <1>1, <1>7, <1>8, <1>9 DEF RowsPhase
<1>. QED  BY <1>1, <1>10 DEF Stream, rest, new

(* The receiver has them all, and says so.                                 *)
LEMMA StreamComplete ==
  ASSUME NEW rows, NEW acks \in Seq(Datagram), NEW from \in Seq(Cells), NEW s,
         NEW to \in Seq(Cells), NEW r \in Receiving, Stream(rows, acks, from, s, to, r),
         Complete(to), DOMAIN to # {}, NEW r2, r2 \notin Receiving
  PROVE  /\ s = "ALLREC" /\ to = from
         /\ Stream(rows, acks \o Acknowledgement, from, s, to, r2)
<1>1. ~Awaited(to)
  BY DEF Awaited, Complete
<1>2. s = "ALLREC" /\ RowsPhase(rows, acks, from, to, r) /\ Partial(to, from)
  BY <1>1 DEF Stream, Quiet, AckPhase, RowsPhase
<1>3. to = from
  BY <1>2, AllCame
<1>4. NoRowsIn(rows)
  <2> SUFFICES ASSUME NEW j \in DOMAIN rows, rows[j].type = "ROW" PROVE FALSE
    BY DEF NoRowsIn
  <2>1. PICK i \in DOMAIN from : rows[j] = Row(from, i)
    BY <1>2 DEF RowsPhase
  <2>2. rows[j].num = i /\ to[i] = NoRow
    BY <1>2, <1>3, <2>1 DEF RowsPhase, Row
  <2>. QED  BY <1>3, <2>2 DEF Complete
<1> DEFINE more == acks \o Acknowledgement
<1>5. /\ Len(acks) \in Nat /\ DOMAIN more \subseteq Int
      /\ \A j \in DOMAIN more :
           (j \in DOMAIN acks /\ more[j] = acks[j]) \/ j - Len(acks) = 1
  <2>1. Word("ALLREC") \in Datagram
    BY DEF Word, Datagram, Plain
  <2>2. Acknowledgement \in Seq(Datagram) /\ DOMAIN Acknowledgement = {1}
    BY <2>1 DEF Acknowledgement
  <2>3. more \in Seq(Datagram)
    BY <2>2
  <2>. QED  BY <2>2, <2>3, Appended
<1> HIDE DEF more
<1>6. \A j \in DOMAIN more : more[j].type = "ALLREC" => j - Len(acks) = 1
  BY <1>2, <1>5 DEF RowsPhase, NoAck
<1>7. AckPhase(rows, more, to, r2)
  BY <1>4, <1>5, <1>6 DEF AckPhase
<1>. QED  BY <1>2, <1>3, <1>7 DEF Stream, more

(* The sender is told so.                                                  *)
LEMMA StreamAcked ==
  ASSUME NEW rows, NEW acks \in Seq(Datagram), NEW from, NEW to, NEW r,
         Stream(rows, acks, from, "ALLREC", to, r),
         NEW i \in DOMAIN acks, acks[i].type = "ALLREC", NEW s2, s2 # "ALLREC"
  PROVE  Stream(rows, RemoveAt(acks, i), from, s2, to, r)
<1>1. AckPhase(rows, acks, to, r)
  BY DEF Stream, RowsPhase, NoAck
<1>2. \A j \in DOMAIN RemoveAt(acks, i) :
        \E k \in DOMAIN acks : k # i /\ RemoveAt(acks, i)[j] = acks[k]
  BY Rest
<1>3. Quiet(rows, RemoveAt(acks, i), to, r)
  BY <1>1, <1>2 DEF AckPhase, Quiet, NoAck
<1>. QED  BY <1>3 DEF Stream

(* The receiver starts to receive.                                         *)
LEMMA StreamStarts ==
  ASSUME NEW rows, NEW acks, NEW from, NEW s, NEW to, NEW r, Stream(rows, acks, from, s, to, r),
         NEW rows2, NEW acks2, NEW to2, NEW r2,
         FewerOf("ROW", rows2, rows), FewerOf("ALLREC", acks2, acks), Awaited(to2)
  PROVE  Stream(rows2, acks2, from, s, to2, r2)
<1>1. Stream(rows2, acks2, from, s, to, "main")
  BY StreamStays DEF Receiving
<1>2. \A i : Row(from, i).num = i
  BY DEF Row
<1>. QED  BY <1>1, <1>2 DEF Stream, Quiet, RowsPhase, AckPhase, Awaited
-----------------------------------------------------------------------------
(* All rows are of one file, if no datagram comes twice.                   *)

LEMMA InitOne == Init => OneInv
<1> SUFFICES ASSUME Init PROVE OneInv
  OBVIOUS
<1>1. /\ \A n \in Names : serverDir[n] # NoFile => serverDir[n] \in Contents
      /\ \A n \in Names : clientDir[n] # NoFile => clientDir[n] \in Contents
  BY DEF Init, Contents
<1>2. \A f \in Contents : OneFile(f)
  BY DEF OneFile, FileFrom, Belongs
<1>3. Down /\ Up
  BY DEF Init, Down, Up, Stream, Quiet, NoRowsIn, NoAck, Receiving
<1>. QED  BY <1>1, <1>2, <1>3 DEF Init, OneInv

LEMMA StepOne ==
  ASSUME TypeInv, PlaceInv, OneInv, [Next]_vars, "duplicate" \notin mode.faults
  PROVE  OneInv'
<1> USE DEF net, server, client
<1>0. /\ toServer \in Seq(Datagram) /\ toClient \in Seq(Datagram)
      /\ sbuf \in Seq(Cells) /\ cbuf \in Seq(Cells) /\ ssize \in Nat /\ csize \in Nat
      /\ Len(sbuf) = NumRows(ssize) /\ Len(cbuf) = NumRows(csize)
      /\ ccmd[2] \in Names /\ sname \in Names
      /\ serverDir \in Dir /\ clientDir \in Dir
      /\ \A c \in mode.commands : c[2] \in Names /\ Command(c) \in Datagram
      /\ \A w \in Plain : Word(w) \in Datagram
      /\ \A n \in Nat : FileSize(n) \in Datagram
  <2>1. mode.commands \subseteq Operations \X Names /\ ccmd \in mode.commands
    BY TransferAssumption DEF TypeInv, TypeOK, Mode
  <2>. QED  BY <2>1 DEF TypeInv, TypeOK, Cells, DataRow, Command, Word, FileSize, Datagram
<1>t. ASSUME NEW i \in DOMAIN toServer, toServer' = RemoveAt(toServer, i)
      PROVE  Fewer(toServer', toServer)
  BY <1>0, <1>t, FewerTaken
<1>u. ASSUME NEW i \in DOMAIN toClient, toClient' = RemoveAt(toClient, i)
      PROVE  Fewer(toClient', toClient)
  BY <1>0, <1>u, FewerTaken
<1>s. ASSUME NEW m \in Datagram, m.type \notin {"ROW", "ALLREC"}, ServerSends(<<m>>)
      PROVE  Fewer(toClient', toClient)
  <2>1. <<m>> \in Seq(Datagram) /\ \A k \in DOMAIN <<m>> : <<m>>[k] = m
    OBVIOUS
  <2>. QED  BY <1>0, <1>s, <2>1, FewerSent DEF ServerSends, Fewer
<1>r. ASSUME NEW m \in Datagram, m.type \notin {"ROW", "ALLREC"}, ClientSends(<<m>>)
      PROVE  Fewer(toServer', toServer)
  <2>1. <<m>> \in Seq(Datagram) /\ \A k \in DOMAIN <<m>> : <<m>>[k] = m
    OBVIOUS
  <2>. QED  BY <1>0, <1>r, <2>1, FewerSent DEF ClientSends, Fewer
<1>x. /\ UNCHANGED toServer => Fewer(toServer', toServer)
      /\ UNCHANGED toClient => Fewer(toClient', toClient)
  BY FewerSame
<1>y. /\ spc \in {"SENDFILE", "ALLREC"} => OneSource(sbuf)
      /\ cpc \in {"SENDSIZE", "SENDFILE", "ALLREC"} => OneSource(cbuf)
      /\ Down /\ Up
      /\ \A n \in Names : serverDir[n] # NoFile => OneFile(serverDir[n])
      /\ \A n \in Names : clientDir[n] # NoFile => OneFile(clientDir[n])
  BY DEF OneInv
(* A step that changes the state of neither stream, and one after which    *)
(* the files and the rows sent are those there were.                       *)
<1>p. ASSUME FewerOf("ALLREC", toServer', toServer), FewerOf("ROW", toClient', toClient),
             spc' = "ALLREC" <=> spc = "ALLREC", spc = "ALLREC" => sbuf' = sbuf,
             cpc' \in Receiving => cpc \in Receiving /\ cbuf' = cbuf
      PROVE  Down'
  BY <1>p, <1>y, StreamStays DEF Down
<1>q. ASSUME FewerOf("ROW", toServer', toServer), FewerOf("ALLREC", toClient', toClient),
             cpc' = "ALLREC" <=> cpc = "ALLREC", cpc = "ALLREC" => cbuf' = cbuf,
             spc' \in Receiving => spc \in Receiving /\ sbuf' = sbuf
      PROVE  Up'
  BY <1>q, <1>y, StreamStays DEF Up
<1>o. ASSUME Down', Up', UNCHANGED <<serverDir, clientDir>>,
             spc' \in {"SENDFILE", "ALLREC"} => spc \in {"SENDFILE", "ALLREC"} /\ sbuf' = sbuf,
             cpc' \in {"SENDSIZE", "SENDFILE", "ALLREC"} =>
               cpc \in {"SENDSIZE", "SENDFILE", "ALLREC"} /\ cbuf' = cbuf
      PROVE  OneInv'
  BY <1>o, <1>y DEF OneInv
<1>d. ASSUME NEW dir \in Dir, NEW n \in Names, dir[n] # NoFile, OneFile(dir[n])
      PROVE  OneSource(RowsOf(dir[n]))
  <2>1. dir[n] \in Seq(Bytes)
    BY <1>d DEF Dir
  <2>. QED  BY <1>d, <2>1, RowsBelong DEF OneFile, OneSource
<1>e. ASSUME NEW dir \in Dir, \A n \in Names : dir[n] # NoFile => OneFile(dir[n]),
             NEW n \in Names, NEW size \in Nat, size > 0, NEW buf \in Seq(Cells),
             Len(buf) = NumRows(size), Complete(buf), OneSource(buf),
             NEW d \in Written(dir, n, buf, size)
      PROVE  \A k \in Names : d[k] # NoFile => OneFile(d[k])
  <2>1. OneFile(FileOf(buf, size))
    BY <1>e, WrittenBelongs DEF OneFile, OneSource
  <2>. QED  BY <1>e, <2>1 DEF Written, Dir
<1>n. ASSUME NEW size \in Nat, size > 0, NEW buf \in Seq(Cells), Len(buf) = NumRows(size)
      PROVE  DOMAIN buf # {}
  <2>1. RowAt(1) \in 1..NumRows(size) /\ NumRows(size) \in Nat
    BY <1>n, CellPlace, RowsEnough
  <2>2. DOMAIN buf = 1..NumRows(size)
    BY <1>n
  <2>. QED  BY <2>1, <2>2
<1>1. CASE ServerCommand
  <2>1. PICK i \in DOMAIN toServer : ServerTakes(i) /\ CommandStep(toServer[i])
    BY <1>1, CommandCases
  <2> DEFINE m == toServer[i]
  <2>2. /\ m \in Datagram /\ UNCHANGED <<mode, faults, client>>
        /\ Fewer(toServer', toServer) /\ spc = "main"
    BY <1>0, <1>1, <1>t, <2>1 DEF ServerCommand, ServerTakes
  <2>3. m.type = "command" => m.name \in Names
    BY <2>2 DEF Datagram, Plain
  <2> HIDE DEF m
  <2>4. CASE Offered(m)
    <3>1. /\ OneSource(sbuf') /\ ssize' \in Nat
          /\ UNCHANGED <<serverDir, sname>> /\ spc' = "SENDFILE"
      <4> DEFINE n == m.name
      <4>1. n \in Names /\ serverDir[n] # NoFile
        BY <2>3, <2>4 DEF Offered
      <4>2. /\ sbuf' = RowsOf(serverDir[n]) /\ ssize' = Len(serverDir[n])
            /\ UNCHANGED <<serverDir, sname>> /\ spc' = "SENDFILE"
        BY <2>4 DEF Offered
      <4> HIDE DEF n
      <4>3. serverDir[n] \in Seq(Bytes)
        BY <1>0, <4>1 DEF Dir
      <4>4. OneSource(RowsOf(serverDir[n]))
        BY <1>0, <1>d, <1>y, <4>1
      <4>. QED  BY <4>2, <4>3, <4>4
    <3>2. Fewer(toClient', toClient)
      BY <1>0, <1>s, <2>4, <3>1 DEF Offered, FileSize
    <3>3. Down' /\ Up'
      BY <1>p, <1>q, <2>2, <3>1, <3>2 DEF Receiving, Fewer
    <3>. QED  BY <1>y, <2>2, <3>1, <3>3 DEF OneInv
  <2>5. CASE ~Offered(m)
    <3>1. Fewer(toClient', toClient)
      BY <1>0, <1>s, <1>x, <2>1, <2>5
         DEF CommandStep, Dropped, Missing, Deleted, Expected, Answered, Word, Plain, m
    <3>2. spc' \in {"main", "FILESIZE"}
      BY <2>1, <2>2, <2>5
         DEF CommandStep, Dropped, Missing, Deleted, Expected, Answered, m
    <3>3. \A n \in Names : serverDir'[n] # NoFile => OneFile(serverDir'[n])
      BY <1>0, <1>y, <2>1, <2>5
         DEF CommandStep, Dropped, Missing, Deleted, Expected, Answered, m, Dir
    <3>4. Down' /\ Up'
      BY <1>p, <1>q, <2>2, <3>1, <3>2 DEF Receiving, Fewer
    <3>. QED  BY <1>y, <2>2, <3>2, <3>3, <3>4 DEF OneInv
  <2>. QED  BY <2>4, <2>5
<1>2. CASE ServerSendsFile
  <2>1. PICK i \in DOMAIN toServer :
          /\ ServerTakes(i)
          /\ \/ ServerSends(Sent(sbuf)) /\ spc' = "ALLREC"
                  /\ UNCHANGED <<serverDir, sname, sbuf, ssize>>
             \/ ServerIdle /\ UNCHANGED toClient
    BY <1>2 DEF ServerSendsFile
  <2>2. Fewer(toServer', toServer) /\ UNCHANGED <<mode, faults, client>> /\ spc = "SENDFILE"
    BY <1>2, <1>t, <2>1 DEF ServerSendsFile, ServerTakes
  <2>3. UNCHANGED <<serverDir, sbuf>>
    BY <2>1 DEF ServerIdle
  <2>4. CASE ServerSends(Sent(sbuf)) /\ spc' = "ALLREC"
    <3>1. Down'
      BY <1>0, <1>y, <2>2, <2>3, <2>4, StreamSends DEF Down, ServerSends, Fewer
    <3>2. toClient' = toClient \o Sent(sbuf)
      BY <2>4 DEF ServerSends
    <3>3. FewerOf("ALLREC", toClient', toClient)
      <4>1. \A k \in DOMAIN Sent(sbuf) : Sent(sbuf)[k].type # "ALLREC"
        BY <1>0, SentIs
      <4>. QED  BY <1>0, <3>2, <4>1, SentType, FewerSent
    <3>4. Up'
      BY <1>q, <2>2, <2>3, <2>4, <3>3 DEF Receiving, Fewer
    <3>. QED  BY <1>o, <2>2, <2>3, <2>4, <3>1, <3>4
  <2>5. CASE ServerIdle /\ UNCHANGED toClient
    <3>1. Down' /\ Up'
      BY <1>p, <1>q, <1>x, <2>2, <2>3, <2>5 DEF Receiving, Fewer, ServerIdle
    <3>. QED  BY <1>o, <2>2, <2>3, <2>5, <3>1 DEF ServerIdle
  <2>. QED  BY <2>1, <2>4, <2>5
<1>3. CASE ServerListens
  <2>1. PICK i \in DOMAIN toServer :
          /\ ServerTakes(i)
          /\ spc' = IF toServer[i].type = "ALLREC" THEN "main" ELSE spc
    BY <1>3 DEF ServerListens
  <2>2. /\ toServer' = RemoveAt(toServer, i) /\ Fewer(toServer', toServer)
        /\ UNCHANGED <<mode, toClient, faults, serverDir, sname, sbuf, ssize, client>>
        /\ spc = "ALLREC"
    BY <1>3, <1>t, <2>1 DEF ServerListens, ServerTakes
  <2>3. Up'
    BY <1>q, <1>x, <2>1, <2>2 DEF Receiving, Fewer
  <2>4. Down'
    <3>1. CASE toServer[i].type = "ALLREC"
      BY <1>0, <1>y, <2>1, <2>2, <3>1, StreamAcked DEF Down
    <3>2. CASE toServer[i].type # "ALLREC"
      BY <1>p, <1>x, <2>1, <2>2, <3>2 DEF Receiving, Fewer
    <3>. QED  BY <3>1, <3>2
  <2>. QED  BY <1>o, <2>1, <2>2, <2>3, <2>4
<1>4. CASE ServerFileSize
  <2>1. PICK i \in DOMAIN toServer :
          /\ ServerTakes(i)
          /\ \/ /\ sbuf' = Unreceived(toServer[i]) /\ ServerSends(<<Word("SENDFILE")>>)
                /\ spc' = "ROW" /\ UNCHANGED serverDir
             \/ ServerIdle /\ UNCHANGED toClient
    BY <1>4 DEF ServerFileSize
  <2>2. Fewer(toServer', toServer) /\ UNCHANGED <<mode, faults, client>> /\ spc = "FILESIZE"
    BY <1>4, <1>t, <2>1 DEF ServerFileSize, ServerTakes
  <2>3. Fewer(toClient', toClient)
    BY <1>0, <1>s, <1>x, <2>1 DEF Word, Plain
  <2>4. Down' /\ spc' \in {"main", "ROW"} /\ UNCHANGED serverDir
    BY <1>p, <2>1, <2>2, <2>3 DEF Receiving, Fewer, ServerIdle
  <2>5. Up'
    <3>1. CASE sbuf' = Unreceived(toServer[i])
      <4>1. Awaited(sbuf')
        BY <3>1, UnreceivedInPlace
      <4>. QED  BY <1>y, <2>2, <2>3, <4>1, StreamStarts DEF Up, Fewer
    <3>2. CASE ServerIdle
      BY <1>q, <2>2, <2>3, <3>2 DEF Receiving, Fewer, ServerIdle
    <3>. QED  BY <2>1, <3>1, <3>2
  <2>. QED  BY <1>o, <2>2, <2>4, <2>5
<1>5. CASE ServerRow
  <2>1. PICK i \in DOMAIN toServer :
          /\ ServerTakes(i)
          /\ \/ RowAccepted(toServer[i], sbuf) /\ sbuf' = WithRow(toServer[i], sbuf)
                  /\ UNCHANGED spc
             \/ spc' = "check" /\ UNCHANGED sbuf
    BY <1>5 DEF ServerRow
  <2>2. /\ toServer' = RemoveAt(toServer, i) /\ Fewer(toServer', toServer)
        /\ UNCHANGED <<mode, toClient, faults, serverDir, sname, ssize, client>>
        /\ spc = "ROW"
    BY <1>5, <1>t, <2>1 DEF ServerRow, ServerTakes
  <2>3. Down' /\ spc' \in {"ROW", "check"}
    BY <1>p, <1>x, <2>1, <2>2 DEF Receiving, Fewer
  <2>4. Up'
    <3>1. CASE RowAccepted(toServer[i], sbuf) /\ sbuf' = WithRow(toServer[i], sbuf) /\ UNCHANGED spc
      BY <1>0, <1>y, <2>2, <3>1, StreamTakes DEF Up, Receiving
    <3>2. CASE spc' = "check" /\ UNCHANGED sbuf
      BY <1>q, <1>x, <2>2, <3>2 DEF Receiving, Fewer
    <3>. QED  BY <2>1, <3>1, <3>2
  <2>. QED  BY <1>o, <2>2, <2>3, <2>4
<1>6. CASE ServerSilence
  <2>1. spc = "ROW" /\ spc' = "check"
        /\ UNCHANGED <<mode, net, faults, serverDir, sname, sbuf, ssize, client>>
    BY <1>6 DEF ServerSilence
  <2>2. Down' /\ Up'
    BY <1>p, <1>q, <1>x, <2>1 DEF Receiving, Fewer
  <2>. QED  BY <1>o, <2>1, <2>2
<1>7. CASE ServerCheck
  <2>1. spc = "check" /\ UNCHANGED <<mode, toServer, faults, sname, sbuf, ssize, client>>
    BY <1>7 DEF ServerCheck
  <2>2. CASE Complete(sbuf)
    <3>1. /\ toClient' = toClient \o Acknowledgement /\ spc' = "main"
          /\ serverDir' \in Written(serverDir, sname, sbuf, ssize) /\ ssize > 0
      BY <1>7, <2>1, <2>2 DEF ServerCheck, PlaceInv, ServerSends
    <3>2. cpc = "ALLREC" /\ sbuf = cbuf /\ Stream(toServer, toClient', cbuf, cpc, sbuf, "main")
      <4>1. DOMAIN sbuf # {}
        BY <1>0, <1>n, <3>1
      <4>2. /\ Stream(toServer, toClient, cbuf, cpc, sbuf, spc)
            /\ spc \in Receiving /\ "main" \notin Receiving
        BY <1>y, <2>1 DEF Up, Receiving
      <4>3. /\ cpc = "ALLREC" /\ sbuf = cbuf
            /\ Stream(toServer, toClient \o Acknowledgement, cbuf, cpc, sbuf, "main")
        BY <1>0, <2>2, <4>1, <4>2, StreamComplete
      <4>. QED  BY <3>1, <4>3
    <3>3. Up'
      BY <2>1, <3>1, <3>2 DEF Up
    <3>4. Down'
      <4>1. FewerOf("ROW", toClient', toClient)
        <5>1. /\ Acknowledgement \in Seq(Datagram)
              /\ \A k \in DOMAIN Acknowledgement : Acknowledgement[k].type # "ROW"
          BY <1>0 DEF Acknowledgement, Word, Plain
        <5>. QED  BY <1>0, <3>1, <5>1, FewerSent
      <4>. QED  BY <1>p, <1>x, <2>1, <3>1, <4>1 DEF Receiving, Fewer
    <3>5. \A k \in Names : serverDir'[k] # NoFile => OneFile(serverDir'[k])
      BY <1>0, <1>e, <1>y, <2>2, <3>1, <3>2
    <3>. QED  BY <1>y, <2>1, <3>1, <3>3, <3>4, <3>5 DEF OneInv
  <2>3. CASE ~Complete(sbuf)
    <3>1. spc' = "crashed" /\ UNCHANGED <<toClient, serverDir>>
      BY <1>7, <2>3 DEF ServerCheck
    <3>2. Down' /\ Up'
      BY <1>p, <1>q, <1>x, <2>1, <3>1 DEF Receiving, Fewer
    <3>. QED  BY <1>o, <2>1, <3>1, <3>2
  <2>. QED  BY <2>2, <2>3
<1>8. CASE \E c \in mode.commands : UserCommand(c)
  <2>1. PICK c \in mode.commands : UserCommand(c)
    BY <1>8
  <2>2. /\ UNCHANGED <<mode, toClient, faults, server, clientDir>> /\ cpc = "user"
        /\ cpc' \in {"user", "SENDSIZE", "FILESIZE", "GOODBYE", "reply"}
    BY <2>1 DEF UserCommand, Ends
  <2>3. Fewer(toServer', toServer)
    BY <1>0, <1>r, <1>x, <2>1 DEF UserCommand, Command
  <2>4. Down' /\ Up'
    BY <1>p, <1>q, <1>x, <2>2, <2>3 DEF Receiving, Fewer
  <2>5. cpc' = "SENDSIZE" => OneSource(cbuf')
    <3>1. ASSUME cpc' = "SENDSIZE"
          PROVE  clientDir[c[2]] # NoFile /\ cbuf' = RowsOf(clientDir[c[2]])
      BY <2>1, <3>1 DEF UserCommand, Ends
    <3>. QED  BY <1>0, <1>d, <1>y, <3>1
  <2>. QED  BY <1>y, <2>2, <2>4, <2>5 DEF OneInv
<1>9. CASE ClientFileSize
  <2>1. PICK i \in DOMAIN toClient :
          /\ ClientTakes(i)
          /\ \/ /\ cbuf' = Unreceived(toClient[i]) /\ ClientSends(<<Word("SENDFILE")>>)
                /\ cpc' = "ROW"
             \/ cpc' = "user" /\ UNCHANGED <<toServer, cbuf, csize>>
    BY <1>9 DEF ClientFileSize, Ends
  <2>2. /\ Fewer(toClient', toClient) /\ cpc = "FILESIZE"
        /\ UNCHANGED <<mode, faults, server, clientDir, ccmd, cmds>>
    BY <1>9, <1>u, <2>1 DEF ClientFileSize, ClientTakes
  <2>3. Fewer(toServer', toServer)
    BY <1>0, <1>r, <1>x, <2>1 DEF Word, Plain
  <2>4. Up'
    BY <1>q, <2>1, <2>2, <2>3 DEF Receiving, Fewer
  <2>5. Down'
    <3>1. CASE cbuf' = Unreceived(toClient[i])
      <4>1. Awaited(cbuf')
        BY <3>1, UnreceivedInPlace
      <4>. QED  BY <1>y, <2>2, <2>3, <4>1, StreamStarts DEF Down, Fewer
    <3>2. CASE cpc' = "user"
      BY <1>p, <2>2, <2>3, <3>2 DEF Receiving, Fewer
    <3>. QED  BY <2>1, <3>1, <3>2
  <2>. QED  BY <1>o, <2>1, <2>2, <2>4, <2>5
<1>10. CASE ClientRow
  <2>1. PICK i \in DOMAIN toClient :
          /\ ClientTakes(i)
          /\ \/ RowAccepted(toClient[i], cbuf) /\ cbuf' = WithRow(toClient[i], cbuf)
                  /\ UNCHANGED <<cpc, told>>
             \/ cpc' = "user" /\ UNCHANGED cbuf
    BY <1>10 DEF ClientRow, Ends
  <2>2. /\ toClient' = RemoveAt(toClient, i) /\ Fewer(toClient', toClient)
        /\ UNCHANGED <<mode, toServer, faults, server, clientDir, ccmd, csize, cmds>>
        /\ cpc = "ROW"
    BY <1>10, <1>u, <2>1 DEF ClientRow, ClientTakes
  <2>3. Up' /\ cpc' \in {"ROW", "user"}
    BY <1>q, <1>x, <2>1, <2>2 DEF Receiving, Fewer
  <2>4. Down'
    <3>1. CASE /\ RowAccepted(toClient[i], cbuf) /\ cbuf' = WithRow(toClient[i], cbuf)
               /\ UNCHANGED cpc
      BY <1>0, <1>y, <2>2, <3>1, StreamTakes DEF Down, Receiving
    <3>2. CASE cpc' = "user"
      BY <1>p, <1>x, <2>2, <3>2 DEF Receiving, Fewer
    <3>. QED  BY <2>1, <3>1, <3>2
  <2>. QED  BY <1>o, <2>2, <2>3, <2>4
<1>11. CASE ClientSilence
  <2>1. cpc = "ROW" /\ cpc' = "check"
        /\ UNCHANGED <<mode, net, faults, server, clientDir, ccmd, cbuf, csize, told, cmds>>
    BY <1>11 DEF ClientSilence
  <2>2. Down' /\ Up'
    BY <1>p, <1>q, <1>x, <2>1 DEF Receiving, Fewer
  <2>. QED  BY <1>o, <2>1, <2>2
<1>12. CASE ClientCheck
  <2>1. cpc = "check" /\ UNCHANGED <<mode, toClient, faults, server, ccmd, cbuf, csize, cmds>>
    BY <1>12 DEF ClientCheck
  <2>2. CASE Complete(cbuf)
    <3>1. /\ toServer' = toServer \o Acknowledgement /\ cpc' = "user"
          /\ clientDir' \in Written(clientDir, ccmd[2], cbuf, csize) /\ csize > 0
      BY <1>12, <2>1, <2>2 DEF ClientCheck, PlaceInv, ClientSends, Ends
    <3>2. spc = "ALLREC" /\ cbuf = sbuf /\ Stream(toClient, toServer', sbuf, spc, cbuf, "user")
      <4>1. DOMAIN cbuf # {}
        BY <1>0, <1>n, <3>1
      <4>2. /\ Stream(toClient, toServer, sbuf, spc, cbuf, cpc)
            /\ cpc \in Receiving /\ "user" \notin Receiving
        BY <1>y, <2>1 DEF Down, Receiving
      <4>3. /\ spc = "ALLREC" /\ cbuf = sbuf
            /\ Stream(toClient, toServer \o Acknowledgement, sbuf, spc, cbuf, "user")
        BY <1>0, <2>2, <4>1, <4>2, StreamComplete
      <4>. QED  BY <3>1, <4>3
    <3>3. Down'
      BY <2>1, <3>1, <3>2 DEF Down
    <3>4. Up'
      <4>1. FewerOf("ROW", toServer', toServer)
        <5>1. /\ Acknowledgement \in Seq(Datagram)
              /\ \A k \in DOMAIN Acknowledgement : Acknowledgement[k].type # "ROW"
          BY <1>0 DEF Acknowledgement, Word, Plain
        <5>. QED  BY <1>0, <3>1, <5>1, FewerSent
      <4>. QED  BY <1>q, <1>x, <2>1, <3>1, <4>1 DEF Receiving, Fewer
    <3>5. \A k \in Names : clientDir'[k] # NoFile => OneFile(clientDir'[k])
      BY <1>0, <1>e, <1>y, <2>2, <3>1, <3>2
    <3>. QED  BY <1>y, <2>1, <3>1, <3>3, <3>4, <3>5 DEF OneInv
  <2>3. CASE ~Complete(cbuf)
    <3>1. cpc' = "crashed" /\ UNCHANGED <<toServer, clientDir>>
      BY <1>12, <2>3 DEF ClientCheck
    <3>2. Down' /\ Up'
      BY <1>p, <1>q, <1>x, <2>1, <3>1 DEF Receiving, Fewer
    <3>. QED  BY <1>o, <2>1, <3>1, <3>2
  <2>. QED  BY <2>2, <2>3
<1>13. CASE ClientSendSize
  <2>1. PICK i \in DOMAIN toClient :
          /\ ClientTakes(i)
          /\ \/ ClientSends(<<FileSize(csize)>>) /\ cpc' = "SENDFILE"
             \/ cpc' = "user" /\ UNCHANGED toServer
    BY <1>13 DEF ClientSendSize, Ends
  <2>2. /\ Fewer(toClient', toClient) /\ cpc = "SENDSIZE"
        /\ UNCHANGED <<mode, faults, server, clientDir, ccmd, cbuf, csize, cmds>>
    BY <1>13, <1>u, <2>1 DEF ClientSendSize, ClientTakes
  <2>3. Fewer(toServer', toServer)
    BY <1>0, <1>r, <1>x, <2>1 DEF FileSize
  <2>4. Down' /\ Up'
    BY <1>p, <1>q, <2>1, <2>2, <2>3 DEF Receiving, Fewer
  <2>. QED  BY <1>o, <2>1, <2>2, <2>4
<1>14. CASE ClientSendsFile
  <2>1. PICK i \in DOMAIN toClient :
          /\ ClientTakes(i)
          /\ \/ ClientSends(Sent(cbuf)) /\ cpc' = "ALLREC"
             \/ cpc' = "user" /\ UNCHANGED toServer
    BY <1>14 DEF ClientSendsFile, Ends
  <2>2. /\ Fewer(toClient', toClient) /\ cpc = "SENDFILE"
        /\ UNCHANGED <<mode, faults, server, clientDir, ccmd, cbuf, csize, cmds>>
    BY <1>14, <1>u, <2>1 DEF ClientSendsFile, ClientTakes
  <2>3. CASE ClientSends(Sent(cbuf)) /\ cpc' = "ALLREC"
    <3>1. Up'
      BY <1>0, <1>y, <2>2, <2>3, StreamSends DEF Up, ClientSends, Fewer
    <3>2. FewerOf("ALLREC", toServer', toServer)
      <4>1. \A k \in DOMAIN Sent(cbuf) : Sent(cbuf)[k].type # "ALLREC"
        BY <1>0, SentIs
      <4>. QED  BY <1>0, <2>3, <4>1, SentType, FewerSent DEF ClientSends
    <3>3. Down'
      BY <1>p, <2>2, <2>3, <3>2 DEF Receiving, Fewer
    <3>. QED  BY <1>o, <2>2, <2>3, <3>1, <3>3
  <2>4. CASE cpc' = "user" /\ UNCHANGED toServer
    <3>1. Down' /\ Up'
      BY <1>p, <1>q, <1>x, <2>2, <2>4 DEF Receiving, Fewer
    <3>. QED  BY <1>o, <2>2, <2>4, <3>1
  <2>. QED  BY <2>1, <2>3, <2>4
<1>15. CASE ClientListens
  <2>1. PICK i \in DOMAIN toClient :
          /\ ClientTakes(i)
          /\ cpc' = IF toClient[i].type = "ALLREC" THEN "user" ELSE cpc
    BY <1>15 DEF ClientListens, Ends
  <2>2. /\ toClient' = RemoveAt(toClient, i) /\ Fewer(toClient', toClient)
        /\ UNCHANGED <<mode, toServer, faults, server, clientDir, ccmd, cbuf, csize, cmds>>
        /\ cpc = "ALLREC"
    BY <1>15, <1>u, <2>1 DEF ClientListens, ClientTakes
  <2>3. Down'
    BY <1>p, <1>x, <2>1, <2>2 DEF Receiving, Fewer
  <2>4. Up'
    <3>1. CASE toClient[i].type = "ALLREC"
      BY <1>0, <1>y, <2>1, <2>2, <3>1, StreamAcked DEF Up
    <3>2. CASE toClient[i].type # "ALLREC"
      BY <1>q, <1>x, <2>1, <2>2, <3>2 DEF Receiving, Fewer
    <3>. QED  BY <3>1, <3>2
  <2>. QED  BY <1>o, <2>1, <2>2, <2>3, <2>4
<1>16. CASE ClientReply
  <2>1. /\ Fewer(toClient', toClient) /\ cpc \in {"reply", "GOODBYE"}
        /\ cpc' \in {"exited", "user"}
        /\ UNCHANGED <<mode, toServer, faults, server, clientDir, ccmd, cbuf, csize, cmds>>
    BY <1>16, <1>u DEF ClientReply, ClientTakes, Ends
  <2>2. Down' /\ Up'
    BY <1>p, <1>q, <1>x, <2>1 DEF Receiving, Fewer
  <2>. QED  BY <1>o, <2>1, <2>2
<1>17. CASE ClientTimeout
  <2>1. /\ cpc \notin {"ALLREC", "ROW", "check"} /\ cpc' \in {"exited", "user"}
        /\ UNCHANGED <<mode, net, faults, server, clientDir, ccmd, cbuf, csize, cmds>>
    BY <1>17 DEF ClientTimeout, Ends
  <2>2. Down' /\ Up'
    BY <1>p, <1>q, <1>x, <2>1 DEF Receiving, Fewer
  <2>. QED  BY <1>o, <2>1, <2>2
<1>18. CASE Lose
  <2>1. /\ Fewer(toServer', toServer) /\ Fewer(toClient', toClient)
        /\ UNCHANGED <<mode, server, client>>
    BY <1>18, <1>t, <1>u, <1>x DEF Lose
  <2>2. Down' /\ Up'
    BY <1>p, <1>q, <2>1 DEF Receiving, Fewer
  <2>. QED  BY <1>o, <2>1, <2>2
<1>19. CASE UNCHANGED vars
  <2>1. UNCHANGED <<mode, net, server, client>>
    BY <1>19 DEF vars
  <2>2. Down' /\ Up'
    BY <1>p, <1>q, <1>x, <2>1 DEF Receiving, Fewer
  <2>. QED  BY <1>o, <2>1, <2>2
<1>20. ~Duplicate
  BY DEF Duplicate, Fault
<1>. QED  BY <1>1, <1>2, <1>3, <1>4, <1>5, <1>6, <1>7, <1>8, <1>9, <1>10, <1>11, <1>12,
             <1>13, <1>14, <1>15, <1>16, <1>17, <1>18, <1>19, <1>20
          DEF Next, Server, Client, Terminating

(* Whatever the network does the bytes of a file are in their place, and   *)
(* they are all of one file if no datagram comes twice.                    *)
THEOREM RowsKept == Spec => []RowsOfOneFile
<1>1. PlaceInv /\ OnceInv => RowsOfOneFile
  <2> SUFFICES ASSUME PlaceInv, OnceInv, NEW d \in {clientDir, serverDir}, NEW n \in Names,
                      d[n] # NoFile
               PROVE  /\ \E g \in Contents : Len(d[n]) = Len(g)
                      /\ \A k \in DOMAIN d[n] : \E f \in Contents : Belongs(d[n][k], k, f)
                      /\ "duplicate" \notin mode.faults =>
                           \E f \in Contents : \A k \in DOMAIN d[n] : Belongs(d[n][k], k, f)
    BY DEF RowsOfOneFile
  <2>1. FileInPlace(d[n])
    BY DEF PlaceInv, DirInPlace
  <2>2. "duplicate" \notin mode.faults => OneFile(d[n])
    BY DEF OnceInv, OneInv
  <2>. QED  BY <2>1, <2>2 DEF FileInPlace, Lengths, InPlace, OneFile, FileFrom
<1>2. Init => OnceInv
  BY InitOne DEF OnceInv
<1>3. TypeInv /\ PlaceInv /\ OnceInv /\ [Next]_vars => OnceInv'
  <2> SUFFICES ASSUME TypeInv, PlaceInv, OnceInv, [Next]_vars PROVE OnceInv'
    OBVIOUS
  <2>1. mode' = mode
    BY SameMode
  <2>. QED  BY <2>1, StepOne DEF OnceInv
<1>. QED  BY <1>1, <1>2, <1>3, Placed, PTL DEF Spec
=============================================================================
