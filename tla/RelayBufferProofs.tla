------------------------- MODULE RelayBufferProofs -------------------------
(***************************************************************************)
(* Proofs about the receive loop of the proxy: what the client is sent and *)
(* what a later request gets, for any sizes of buffer and blocks, any      *)
(* bodies, and every way the response can be cut up.                       *)
(***************************************************************************)
EXTENDS RelayBuffer, SequenceTheorems, TLAPS

Bytes == 0..255

NoNUL == \A i \in DOMAIN body : body[i] # NUL

Whole == HeaderSize + Len(body)

(* What has been relayed is what has arrived, and bytes_rem what has not,  *)
(* from the moment the header has come.                                    *)
RelayInv ==
  /\ body \in Bodies
  /\ buf \in [1..BufSize -> Int]
  /\ arrived \in 0..Whole /\ first \in 0..arrived
  /\ closed \in BOOLEAN
  /\ pc \in {"recv", "done", "served", "crashed"}
  /\ toClient = IF pc = "crashed" THEN <<>> ELSE SubSeq(Response, 1, arrived)
  /\ bytesRem = IF first >= HeaderSize THEN Whole - arrived ELSE 0
  /\ first = 0 =>
       pc = "recv" /\ arrived = 0 /\ ~closed /\ buf = [i \in 1..BufSize |-> NUL]
  /\ pc = "recv" /\ first > 0 => first >= HeaderSize /\ bytesRem > 0
  /\ pc \in {"done", "served"} /\ first >= HeaderSize /\ ~closed => bytesRem = 0

(* A response that came at once is in the file, unless a byte is a NUL.    *)
FileInv ==
  /\ first = Whole /\ NoNUL => cacheFile = body
  /\ pc = "served" => later = InBlocks(cacheFile)

(* A body is a sequence of bytes, and so is a response, header and all.    *)
LEMMA ResponseIs ==
  ASSUME body \in Bodies
  PROVE  /\ body \in Seq(Bytes) /\ Len(body) \in Nat
         /\ Whole \in Nat /\ Whole >= HeaderSize
         /\ Header \in Seq(Int) /\ Len(Header) = HeaderSize
         /\ Response \in Seq(Int) /\ Len(Response) = Whole
         /\ \A i \in 1..Len(body) : Response[HeaderSize + i] = body[i]
<1>1. body \in Seq(Bytes) /\ Len(body) \in Nat
  BY BufferAssumption DEF Bytes
<1>2. HeaderSize \in Nat /\ HeaderSize > 0
  BY BufferAssumption
<1>3. Header \in Seq(Int) /\ Len(Header) = HeaderSize
  <2>1. Header \in [1..HeaderSize -> Int]
    BY <1>2 DEF Header
  <2>. QED  BY <1>2, <2>1 DEF Header
<1>4. body \in Seq(Int)
  <2>. QED  BY <1>1, SeqMonotonic, Bytes \subseteq Int DEF Bytes
<1>5. Response \in Seq(Int) /\ Len(Response) = HeaderSize + Len(body)
  <2> HIDE DEF Header
  <2>. QED  BY <1>3, <1>4 DEF Response
<1>6. \A i \in 1..Len(body) : Response[HeaderSize + i] = body[i]
  <2>1. ASSUME NEW i \in 1..Len(body) PROVE (Header \o body)[HeaderSize + i] = body[i]
    <3> HIDE DEF Header
    <3>. QED  BY <1>1, <1>2, <1>3, <1>4
  <2>. QED  BY <2>1 DEF Response
<1>. QED  BY <1>1, <1>2, <1>3, <1>5, <1>6 DEF Whole

(* One more piece behind a prefix is the longer prefix.                    *)
LEMMA PrefixGrows ==
  ASSUME NEW s \in Seq(Int), NEW m \in Nat, NEW n \in Nat, m + n =< Len(s),
         NEW b \in Seq(Int), n =< Len(b),
         \A i \in 1..n : b[i] = s[m + i]
  PROVE  SubSeq(s, 1, m) \o SubSeq(b, 1, n) = SubSeq(s, 1, m + n)
<1> DEFINE a == SubSeq(s, 1, m)
           c == SubSeq(b, 1, n)
           d == a \o c
           e == SubSeq(s, 1, m + n)
<1>1. /\ a \in Seq(Int) /\ Len(a) = m /\ \A i \in 1..m : a[i] = s[i]
      /\ c \in Seq(Int) /\ Len(c) = n /\ \A i \in 1..n : c[i] = b[i]
      /\ e \in Seq(Int) /\ Len(e) = m + n /\ \A i \in 1..(m + n) : e[i] = s[i]
  OBVIOUS
<1> HIDE DEF a, c, e
<1>2. /\ d \in Seq(Int) /\ Len(d) = Len(a) + Len(c)
      /\ \A i \in 1..(Len(a) + Len(c)) :
           d[i] = IF i =< Len(a) THEN a[i] ELSE c[i - Len(a)]
  <2>1. a \in Seq(Int) /\ c \in Seq(Int)
    BY <1>1
  <2>. QED  BY <2>1, ConcatProperties, Zenon
<1> HIDE DEF d
<1>3. ASSUME NEW i \in 1..(m + n) PROVE d[i] = e[i]
  <2>1. d[i] = IF i =< m THEN a[i] ELSE c[i - m]
    BY <1>1, <1>2
  <2>2. CASE i =< m
    <3>1. i \in 1..m
      BY <2>2
    <3>. QED  BY <1>1, <2>1, <2>2, <3>1
  <2>3. CASE i > m
    <3>1. i - m \in 1..n
      BY <2>3
    <3>2. c[i - m] = s[m + (i - m)]
      BY <1>1, <3>1
    <3>3. m + (i - m) = i /\ ~(i =< m)
      BY <2>3
    <3>. QED  BY <1>1, <2>1, <3>2, <3>3
  <2>. QED  BY <2>2, <2>3
<1>4. d = e
  <2>1. Len(d) = Len(e) /\ Len(d) = m + n
    BY <1>1, <1>2
  <2>. QED  BY <1>1, <1>2, <1>3, <2>1, SeqEqual
<1>. QED  BY <1>4 DEF d, a, c, e

(* A buffer with n bytes of the response in it, which is sent as they came. *)
LEMMA ReceivedIs ==
  ASSUME body \in Bodies, buf \in [1..BufSize -> Int], arrived \in Nat,
         NEW n \in 1..BufSize, arrived + n =< Whole
  PROVE  /\ Received(n) \in [1..BufSize -> Int]
         /\ \A i \in 1..n : Received(n)[i] = Response[arrived + i]
         /\ SubSeq(Response, 1, arrived) \o Sent(Received(n), n)
              = SubSeq(Response, 1, arrived + n)
<1>1. /\ BufSize \in Nat /\ Response \in Seq(Int) /\ Len(Response) = Whole
      /\ Whole \in Nat
  BY BufferAssumption, ResponseIs
<1>2. Received(n) \in [1..BufSize -> Int]
  <2>1. ASSUME NEW i \in 1..BufSize, i =< n PROVE Response[arrived + i] \in Int
    BY <1>1, <2>1
  <2>. QED  BY <1>1, <2>1 DEF Received
<1>3. \A i \in 1..n : Received(n)[i] = Response[arrived + i]
  BY <1>1 DEF Received
<1> DEFINE b == Received(n)
<1>4. b \in Seq(Int) /\ Len(b) = BufSize
  <2> HIDE DEF b
  <2>1. b \in [1..BufSize -> Int]
    BY <1>2 DEF b
  <2>. QED  BY <1>1, <2>1
<1>5. SubSeq(Response, 1, arrived) \o SubSeq(b, 1, n) = SubSeq(Response, 1, arrived + n)
  <2> HIDE DEF b
  <2>1. \A i \in 1..n : b[i] = Response[arrived + i]
    BY <1>3 DEF b
  <2>2. n \in Nat /\ n =< Len(b)
    BY <1>1, <1>4
  <2>3. \A s \in Seq(Int), m, k \in Nat, t \in Seq(Int) :
          m + k =< Len(s) /\ k =< Len(t) /\ (\A i \in 1..k : t[i] = s[m + i])
            => SubSeq(s, 1, m) \o SubSeq(t, 1, k) = SubSeq(s, 1, m + k)
    BY PrefixGrows
  <2>4. arrived + n =< Len(Response)
    BY <1>1
  <2>5. Response \in Seq(Int) /\ b \in Seq(Int)
    BY <1>1, <1>4
  <2>. QED  BY <2>1, <2>2, <2>3, <2>4, <2>5, Zenon
<1>. QED  BY <1>2, <1>3, <1>5 DEF Sent

(* What fprintf finds behind the header is the body, if it came whole into *)
(* a clean buffer and holds no NUL.                                        *)
LEMMA PrintedWhole ==
  ASSUME body \in Bodies, buf = [i \in 1..BufSize |-> NUL], arrived = 0,
         Whole \in 1..BufSize, NoNUL
  PROVE  Printed(Received(Whole), HeaderSize + 1) = body
<1> DEFINE b == Received(Whole)
           rest == SubSeq(b, HeaderSize + 1, BufSize)
           nuls == {j \in DOMAIN rest : rest[j] = NUL}
           z == Len(body)
<1>1. /\ BufSize \in Nat /\ HeaderSize \in Nat /\ HeaderSize > 0
      /\ body \in Seq(Bytes) /\ z \in Nat /\ Whole = HeaderSize + z
      /\ \A i \in 1..z : Response[HeaderSize + i] = body[i]
  BY BufferAssumption, ResponseIs DEF Whole
<1>2. b \in Seq(Int) /\ Len(b) = BufSize
  <2>1. b \in [1..BufSize -> Int]
    <3>1. buf \in [1..BufSize -> Int] /\ arrived \in Nat /\ arrived + Whole =< Whole
      BY <1>1 DEF NUL
    <3>. QED  BY <1>1, <3>1, ReceivedIs
  <2> HIDE DEF b
  <2>. QED  BY <1>1, <2>1
<1>3. \A i \in 1..z : b[HeaderSize + i] = body[i]
  BY <1>1 DEF Received
<1>4. \A i \in (Whole + 1)..BufSize : b[i] = NUL
  BY <1>1 DEF Received
<1> HIDE DEF b
<1>5. rest \in Seq(Int) /\ Len(rest) = BufSize - HeaderSize
  BY <1>1, <1>2
<1>6. \A i \in 1..(BufSize - HeaderSize) : rest[i] = b[HeaderSize + i]
  BY <1>1, <1>2
<1> HIDE DEF rest
<1>7. \A i \in 1..z : rest[i] = body[i] /\ rest[i] # NUL
  <2> TAKE i \in 1..z
  <2>1. i \in 1..(BufSize - HeaderSize)
    BY <1>1
  <2>2. rest[i] = body[i]
    BY <1>3, <1>6, <2>1
  <2>3. i \in DOMAIN body
    BY <1>1
  <2>. QED  BY <2>2, <2>3 DEF NoNUL
<1>8. \A i \in (z + 1)..(BufSize - HeaderSize) : rest[i] = NUL
  <2> TAKE i \in (z + 1)..(BufSize - HeaderSize)
  <2>1. HeaderSize + i \in (Whole + 1)..BufSize /\ i \in 1..(BufSize - HeaderSize)
    BY <1>1
  <2>. QED  BY <1>4, <1>6, <2>1
<1>9. DOMAIN rest = 1..(BufSize - HeaderSize)
  BY <1>1, <1>5
<1>10. SubSeq(rest, 1, z) = body
  <2> DEFINE s == SubSeq(rest, 1, z)
  <2>1. s \in Seq(Int) /\ Len(s) = z /\ \A i \in 1..z : s[i] = rest[i]
    BY <1>1, <1>5
  <2> HIDE DEF s
  <2>2. \A i \in 1..z : s[i] = body[i]
    BY <1>7, <2>1
  <2>3. body \in Seq(Int)
    BY <1>1, SeqMonotonic, Bytes \subseteq Int DEF Bytes
  <2>4. s = body
    BY <1>1, <2>1, <2>2, <2>3, SeqEqual
  <2>. QED  BY <2>4 DEF s
<1>11. nuls = (z + 1)..(BufSize - HeaderSize)
  BY <1>1, <1>7, <1>8, <1>9
<1>12. CASE nuls = {}
  <2>1. z = BufSize - HeaderSize
    <3>1. z < BufSize - HeaderSize => z + 1 \in nuls
      BY <1>1, <1>11
    <3>. QED  BY <1>1, <1>12, <3>1
  <2>2. rest = SubSeq(rest, 1, z)
    <3> DEFINE s == SubSeq(rest, 1, z)
    <3>1. s \in Seq(Int) /\ Len(s) = z /\ \A i \in 1..z : s[i] = rest[i]
      BY <1>1, <1>5, <2>1
    <3> HIDE DEF s
    <3>2. s = rest
      BY <1>1, <1>5, <2>1, <3>1
    <3>. QED  BY <3>2 DEF s
  <2>. QED  BY <1>10, <1>12, <2>2 DEF Printed, b, rest, nuls
<1>13. CASE nuls # {}
  <2>1. z + 1 \in nuls /\ \A m \in nuls : z < m
    BY <1>1, <1>11, <1>13
  <2>2. z \in 0..BufSize
    BY <1>1
  <2>3. \A j \in 0..BufSize : j + 1 \in nuls /\ (\A m \in nuls : j < m) => j = z
    BY <1>1, <1>11, <2>1
  <2> DEFINE j == CHOOSE k \in 0..BufSize : k + 1 \in nuls /\ \A m \in nuls : k < m
  <2> HIDE DEF nuls
  <2>4. j = z
    BY <2>1, <2>2, <2>3
  <2>. QED  BY <1>10, <1>13, <2>4 DEF Printed, b, rest, nuls
<1>. QED  BY <1>12, <1>13

(* What send_file adds to a file are zeros, fewer than a block.            *)
LEMMA InBlocksIs ==
  ASSUME NEW f \in Seq(Bytes)
  PROVE  /\ IsPrefix(f, InBlocks(f))
         /\ Len(InBlocks(f)) < Len(f) + BlockSize
         /\ \A i \in (Len(f) + 1)..Len(InBlocks(f)) : InBlocks(f)[i] = NUL
<1> DEFINE n == Len(f)
           q == (n + BlockSize - 1) \div BlockSize
           r == (n + BlockSize - 1) % BlockSize
           z == q * BlockSize - n
           zeros == [i \in 1..z |-> NUL]
           g == f \o zeros
<1>0. BlockSize \in Nat /\ BlockSize > 0 /\ n \in Nat
  BY BufferAssumption
<1>1. /\ q \in Nat /\ r \in 0..(BlockSize - 1)
      /\ n + BlockSize - 1 = BlockSize * q + r
  BY <1>0
<1>2. InBlocks(f) = g
  BY DEF InBlocks
<1> HIDE DEF q, r
<1>3. z \in 0..(BlockSize - 1)
  <2>1. q * BlockSize = BlockSize * q
    BY <1>0, <1>1
  <2>. QED  BY <1>0, <1>1, <2>1
<1> HIDE DEF z
<1>4. zeros \in Seq(Bytes) /\ Len(zeros) = z /\ \A i \in 1..z : zeros[i] = NUL
  <2>1. zeros \in [1..z -> Bytes] /\ \A i \in 1..z : zeros[i] = NUL
    BY DEF Bytes, NUL
  <2>2. zeros \in Seq(Bytes)
    <3> HIDE DEF zeros
    <3>. QED  BY <1>0, <1>3, <2>1
  <2>. QED  BY <1>0, <1>3, <2>1, <2>2
<1> HIDE DEF zeros
<1>5. /\ g \in Seq(Bytes) /\ Len(g) = n + z
      /\ \A i \in 1..(n + z) : g[i] = IF i =< n THEN f[i] ELSE zeros[i - n]
  BY <1>4, ConcatProperties
<1> HIDE DEF g
<1>6. \A i \in (n + 1)..Len(g) : g[i] = NUL
  <2> TAKE i \in (n + 1)..Len(g)
  <2>1. i \in 1..(n + z) /\ ~(i =< n) /\ i - n \in 1..z
    BY <1>0, <1>3, <1>5
  <2>. QED  BY <1>4, <1>5, <2>1
<1>7. IsPrefix(f, g)
  <2> DEFINE s == SubSeq(f, 1, n)
             t == SubSeq(g, 1, n)
  <2>1. /\ s \in Seq(Bytes) /\ Len(s) = n /\ \A i \in 1..n : s[i] = f[i]
        /\ t \in Seq(Bytes) /\ Len(t) = n /\ \A i \in 1..n : t[i] = g[i]
    BY <1>0, <1>3, <1>5
  <2> HIDE DEF s, t
  <2>2. \A i \in 1..n : s[i] = t[i]
    <3> TAKE i \in 1..n
    <3>1. i \in 1..(n + z) /\ i =< n
      BY <1>0, <1>3
    <3>. QED  BY <1>5, <2>1, <3>1
  <2>3. s = t
    BY <1>0, <2>1, <2>2, SeqEqual
  <2>. QED  BY <1>0, <1>3, <1>5, <2>3 DEF IsPrefix, s, t
<1>. QED  BY <1>0, <1>2, <1>3, <1>5, <1>6, <1>7
-----------------------------------------------------------------------------
(* Both parts of the invariant hold at first.                              *)
LEMMA InitOK == Init => RelayInv /\ FileInv
<1> SUFFICES ASSUME Init PROVE RelayInv /\ FileInv
  OBVIOUS
<1>1. Whole \in Nat /\ Whole >= HeaderSize /\ HeaderSize > 0 /\ HeaderSize \in Nat
  BY ResponseIs, BufferAssumption DEF Init
<1>2. toClient = SubSeq(Response, 1, arrived)
  BY SubSeqEmpty DEF Init
<1>3. buf \in [1..BufSize -> Int]
  BY DEF Init, NUL
<1>4. RelayInv
  <2>1. /\ body \in Bodies /\ arrived = 0 /\ first = 0 /\ closed = FALSE
        /\ bytesRem = 0 /\ pc = "recv" /\ buf = [i \in 1..BufSize |-> NUL]
    BY DEF Init
  <2>2. /\ arrived \in 0..Whole /\ first \in 0..arrived /\ ~(first > 0)
        /\ ~(first >= HeaderSize)
    BY <1>1, <2>1
  <2>3. /\ closed \in BOOLEAN /\ ~closed /\ pc # "crashed" /\ pc # "done" /\ pc # "served"
        /\ pc \in {"recv", "done", "served", "crashed"}
    BY <2>1
  <2>. QED  BY <1>2, <1>3, <2>1, <2>2, <2>3, Zenon DEF RelayInv
<1>5. FileInv
  BY <1>1 DEF Init, FileInv
<1>. QED  BY <1>4, <1>5

LEMMA FirstOK ==
  ASSUME RelayInv, FileInv, NEW n \in 1..BufSize, RecvFirst(n)
  PROVE  RelayInv' /\ FileInv'
<1>0. /\ HeaderSize \in Nat /\ HeaderSize > 0 /\ StatusSize \in Nat /\ BufSize \in Nat
      /\ StatusSize =< HeaderSize
      /\ body \in Bodies /\ body' = body /\ arrived = 0 /\ first = 0
  BY BufferAssumption DEF RelayInv, RecvFirst
<1>1. /\ Response \in Seq(Int) /\ Len(Response) = Whole /\ Whole \in Nat
      /\ Len(body) \in Nat
  BY <1>0, ResponseIs
<1>2. Response' = Response /\ Whole' = Whole /\ NoNUL' = NoNUL
  BY <1>0 DEF Response, Whole, NoNUL
<1>3. n =< Whole
  BY <1>1 DEF RecvFirst
<1>4. /\ buf' \in [1..BufSize -> Int]
      /\ Sent(buf', n) = SubSeq(Response, 1, n)
  <2>1. /\ Received(n) \in [1..BufSize -> Int]
        /\ SubSeq(Response, 1, arrived) \o Sent(Received(n), n)
             = SubSeq(Response, 1, arrived + n)
    BY <1>0, <1>1, <1>3, ReceivedIs DEF RelayInv
  <2>2. SubSeq(Response, 1, arrived) = <<>>
    BY <1>0, SubSeqEmpty
  <2>3. Received(n) \in Seq(Int) /\ Sent(Received(n), n) \in Seq(Int)
    <3> DEFINE b == Received(n)
    <3> HIDE DEF b
    <3>1. b \in Seq(Int) /\ Len(b) = BufSize
      BY <1>0, <2>1 DEF b
    <3>2. SubSeq(b, 1, n) \in Seq(Int)
      BY <1>0, <3>1
    <3>. QED  BY <3>1, <3>2 DEF b, Sent
  <2>4. Sent(Received(n), n) = SubSeq(Response, 1, arrived + n)
    BY <2>1, <2>2, <2>3, ConcatEmptySeq
  <2>5. arrived + n = n
    BY <1>0
  <2>. QED  BY <2>1, <2>4, <2>5 DEF RecvFirst
<1>5. /\ arrived' = n /\ first' = n /\ closed' = closed /\ closed \in BOOLEAN /\ ~closed
      /\ pc = "recv" /\ bytesRem = 0 /\ toClient = <<>>
  BY <1>0, SubSeqEmpty DEF RecvFirst, RelayInv
<1>6. CASE n < StatusSize
  <2>1. bytesRem' = bytesRem /\ toClient' = Sent(buf', n) /\ pc' = "done"
    BY <1>0, <1>6 DEF RecvFirst
  <2>2. RelayInv'
    BY <1>0, <1>1, <1>2, <1>3, <1>4, <1>5, <1>6, <2>1 DEF RelayInv
  <2>3. FileInv'
    BY <1>0, <1>1, <1>2, <1>5, <1>6, <2>1 DEF FileInv, Whole
  <2>. QED  BY <2>2, <2>3
<1>7. CASE n >= StatusSize /\ n < HeaderSize
  <2>1. bytesRem' = bytesRem /\ toClient' = toClient /\ pc' = "crashed"
    BY <1>0, <1>7 DEF RecvFirst
  <2>2. RelayInv'
    BY <1>0, <1>1, <1>2, <1>3, <1>4, <1>5, <1>7, <2>1 DEF RelayInv
  <2>3. FileInv'
    BY <1>0, <1>1, <1>2, <1>5, <1>7, <2>1 DEF FileInv, Whole
  <2>. QED  BY <2>2, <2>3
<1>8. CASE n >= HeaderSize
  <2>1. /\ bytesRem' = Whole - n
        /\ toClient' = Sent(buf', n)
        /\ cacheFile' = Printed(Received(n), HeaderSize + 1)
        /\ pc' = IF Whole - n =< 0 THEN "done" ELSE "recv"
    BY <1>0, <1>1, <1>8 DEF RecvFirst, Remaining, NoMore, Whole
  <2>2. RelayInv'
    BY <1>0, <1>1, <1>2, <1>3, <1>4, <1>5, <1>8, <2>1 DEF RelayInv
  <2>3. ASSUME n = Whole, NoNUL PROVE cacheFile' = body
    <3>1. buf = [i \in 1..BufSize |-> NUL]
      BY <1>0 DEF RelayInv
    <3>. QED  BY <1>0, <2>1, <2>3, <3>1, PrintedWhole
  <2>4. FileInv'
    BY <1>0, <1>2, <1>5, <2>1, <2>3 DEF FileInv
  <2>. QED  BY <2>2, <2>4
<1>. QED  BY <1>0, <1>6, <1>7, <1>8

LEMMA MoreOK ==
  ASSUME RelayInv, FileInv, NEW n \in 1..BufSize, RecvMore(n)
  PROVE  RelayInv' /\ FileInv'
<1>0. /\ HeaderSize \in Nat /\ HeaderSize > 0 /\ BufSize \in Nat
      /\ body \in Bodies /\ body' = body /\ arrived \in Nat
      /\ first >= HeaderSize /\ first \in 0..arrived
      /\ bytesRem = Whole - arrived /\ pc = "recv"
      /\ toClient = SubSeq(Response, 1, arrived)
      /\ arrived' = arrived + n /\ bytesRem' = bytesRem - n
      /\ first' = first /\ closed' = closed
  BY BufferAssumption DEF RelayInv, RecvMore
<1>1. Whole \in Nat /\ Len(Response) = Whole
  BY <1>0, ResponseIs
<1>2. Response' = Response /\ Whole' = Whole /\ NoNUL' = NoNUL
  BY <1>0 DEF Response, Whole, NoNUL
<1>3. arrived + n =< Whole
  BY <1>1 DEF RecvMore
<1>4. buf' \in [1..BufSize -> Int] /\ toClient' = SubSeq(Response, 1, arrived + n)
  BY <1>0, <1>3, ReceivedIs DEF RecvMore, RelayInv
<1>5. pc' = IF Whole - (arrived + n) =< 0 THEN "done" ELSE "recv"
  BY <1>0, <1>1 DEF RecvMore, NoMore
<1>6. RelayInv'
  BY <1>0, <1>1, <1>2, <1>3, <1>4, <1>5 DEF RelayInv
<1>7. FileInv'
  <2>1. first' # Whole' /\ pc' # "served"
    BY <1>0, <1>1, <1>2, <1>3, <1>5
  <2>. QED  BY <2>1 DEF FileInv
<1>. QED  BY <1>6, <1>7

LEMMA ClosedOK ==
  ASSUME RelayInv, FileInv, RecvClosed
  PROVE  RelayInv' /\ FileInv'
<1>0. /\ HeaderSize \in Nat /\ HeaderSize > 0
      /\ body \in Bodies /\ body' = body
      /\ first >= HeaderSize /\ first \in 0..arrived /\ arrived \in 0..Whole
      /\ bytesRem = Whole - arrived /\ bytesRem > 0
      /\ toClient = SubSeq(Response, 1, arrived)
  BY BufferAssumption DEF RelayInv, RecvClosed
<1>1. Whole \in Nat
  BY <1>0, ResponseIs
<1>2. Response' = Response /\ Whole' = Whole /\ NoNUL' = NoNUL
  BY <1>0 DEF Response, Whole, NoNUL
<1>3. /\ pc' = "done" /\ closed' = TRUE
      /\ UNCHANGED <<arrived, first, buf, bytesRem, toClient>>
  BY DEF RecvClosed
<1>4. RelayInv'
  BY <1>0, <1>1, <1>2, <1>3 DEF RelayInv
<1>5. FileInv'
  <2>1. first' # Whole'
    BY <1>0, <1>1, <1>2, <1>3
  <2>. QED  BY <1>3, <2>1 DEF FileInv
<1>. QED  BY <1>4, <1>5

LEMMA LaterOK ==
  ASSUME RelayInv, FileInv, ServeLater
  PROVE  RelayInv' /\ FileInv'
<1>1. /\ pc = "done" /\ pc' = "served" /\ later' = InBlocks(cacheFile)
      /\ UNCHANGED <<body, arrived, closed, first, buf, bytesRem, cacheFile, toClient>>
  BY DEF ServeLater
<1>2. Response' = Response /\ Whole' = Whole /\ NoNUL' = NoNUL
  BY <1>1 DEF Response, Whole, NoNUL
<1>3. InBlocks(cacheFile)' = InBlocks(cacheFile)
  BY <1>1
<1>4. RelayInv'
  BY <1>1, <1>2 DEF RelayInv
<1>5. FileInv'
  BY <1>1, <1>2, <1>3 DEF FileInv
<1>. QED  BY <1>4, <1>5

(* What is relayed, and what is in the file, in every state.               *)
THEOREM Invariance == Spec => [](RelayInv /\ FileInv)
<1>1. RelayInv /\ FileInv /\ [Next]_vars => (RelayInv /\ FileInv)'
  <2> SUFFICES ASSUME RelayInv, FileInv, [Next]_vars PROVE (RelayInv /\ FileInv)'
    OBVIOUS
  <2>1. CASE UNCHANGED vars
    <3>1. Response' = Response /\ Whole' = Whole /\ NoNUL' = NoNUL
      BY <2>1 DEF vars, Response, Whole, NoNUL
    <3>. QED  BY <2>1, <3>1 DEF vars, RelayInv, FileInv
  <2>2. CASE \E n \in 1..BufSize : RecvFirst(n) \/ RecvMore(n)
    BY <2>2, FirstOK, MoreOK
  <2>3. CASE RecvClosed
    BY <2>3, ClosedOK
  <2>4. CASE ServeLater
    BY <2>4, LaterOK
  <2>. QED  BY <2>1, <2>2, <2>3, <2>4 DEF Next
<1>. QED  BY <1>1, InitOK, PTL DEF Spec
-----------------------------------------------------------------------------
(* Every variable keeps its type: nothing is received, and nothing counted *)
(* off, beyond what the response has.                                      *)
THEOREM TypeCorrect == Spec => []TypeOK
<1>1. RelayInv => TypeOK
  <2> SUFFICES ASSUME RelayInv PROVE TypeOK
    OBVIOUS
  <2>1. /\ HeaderSize \in Nat /\ Whole \in Nat /\ Len(Response) = Whole
        /\ Len(body) \in Nat /\ BufSize \in Nat
    BY BufferAssumption, ResponseIs DEF RelayInv
  <2>2. Len(buf) = BufSize
    BY <2>1 DEF RelayInv
  <2>3. bytesRem \in 0..Len(body)
    BY <2>1 DEF RelayInv, Whole
  <2>. QED  BY <2>1, <2>2, <2>3 DEF RelayInv, TypeOK
<1>. QED  BY <1>1, Invariance, PTL

(* However the response is cut up, and although one buffer is used again   *)
(* and again, the client receives it in order, and all of it unless the    *)
(* origin closed.                                                          *)
THEOREM RelayedWhole == Spec => []RelayedFaithfully
<1>1. RelayInv => RelayedFaithfully
  <2> SUFFICES ASSUME RelayInv PROVE RelayedFaithfully
    OBVIOUS
  <2>1. /\ HeaderSize \in Nat /\ Whole \in Nat /\ Len(Response) = Whole
        /\ Response \in Seq(Int) /\ HeaderSize > 0
    BY BufferAssumption, ResponseIs DEF RelayInv
  <2>2. ASSUME NEW a \in 0..Whole
        PROVE  IsPrefix(SubSeq(Response, 1, a), Response)
    <3> DEFINE r == Response
               s == SubSeq(r, 1, a)
    <3> HIDE DEF r
    <3>1. s \in Seq(Int) /\ Len(s) = a
      BY <2>1 DEF r
    <3>2. SubSeq(s, 1, a) = s
      BY <2>1, <3>1
    <3>. QED  BY <2>1, <3>1, <3>2 DEF IsPrefix, r
  <2>3. IsPrefix(<<>>, Response)
    BY <2>1, SubSeqEmpty DEF IsPrefix
  <2>4. IsPrefix(toClient, Response)
    BY <2>2, <2>3 DEF RelayInv
  <2>5. ASSUME pc \in {"done", "served"}, first >= HeaderSize, ~closed
        PROVE  toClient = Response
    <3>1. arrived = Whole /\ toClient = SubSeq(Response, 1, arrived)
      BY <2>1, <2>5 DEF RelayInv
    <3>2. SubSeq(Response, 1, Len(Response)) = Response
      <4> DEFINE r == Response
      <4> HIDE DEF r
      <4>1. r \in Seq(Int)
        BY <2>1 DEF r
      <4>2. SubSeq(r, 1, Len(r)) = r
        BY <4>1
      <4>. QED  BY <4>2 DEF r
    <3>. QED  BY <2>1, <3>1, <3>2
  <2>. QED  BY <2>4, <2>5 DEF RelayedFaithfully
<1>. QED  BY <1>1, Invariance, PTL

(* A response that arrives at once, and has no NUL, is cached as it is,    *)
(* and a client that asks later gets all of it, and after it at most the   *)
(* zeros that fill its last block.                                         *)
THEOREM OnePieceExact == Spec => []OnePieceServedExactly
<1>1. RelayInv /\ FileInv => OnePieceServedExactly
  <2> SUFFICES ASSUME RelayInv, FileInv, pc \in {"done", "served"},
                      first = Len(Response), NoNUL
               PROVE  /\ cacheFile = body
                      /\ pc = "served" =>
                           /\ IsPrefix(body, later)
                           /\ Len(later) < Len(body) + BlockSize
                           /\ \A i \in (Len(body) + 1)..Len(later) : later[i] = NUL
    BY DEF OnePieceServedExactly, NoNUL
  <2>1. body \in Seq(Bytes) /\ Len(Response) = Whole
    BY ResponseIs DEF RelayInv
  <2>2. cacheFile = body
    BY <2>1 DEF FileInv
  <2>3. pc = "served" => later = InBlocks(body)
    BY <2>2 DEF FileInv
  <2>. QED  BY <2>1, <2>2, <2>3, InBlocksIs
<1>. QED  BY <1>1, Invariance, PTL
=============================================================================
