--------------------------- MODULE DfsGetProofs ---------------------------
(***************************************************************************)
(* More proofs about Dfs: what its gets read, for any number of clients,   *)
(* files and stops.                                                        *)
(*                                                                         *)
(* AnswerInv says which chunks server 0 has on its disk that are whole and *)
(* stay so, what it can find for a get, and what of it this get has been   *)
(* and will be sent, until the client has written it into its file.        *)
(***************************************************************************)
EXTENDS DfsProofs

(* No chunk of server 0 is received twice.                                 *)
(* The cells with the commands of headers, and those with their fields.    *)
OpCells(t) == {p \in DOMAIN t : t[p][1] = "head" /\ t[p][3] = 1}
FieldCells(t) == {p \in DOMAIN t : t[p][1] = "head" /\ t[p][3] = 2}

(* The chunks whose headers are still to come.                             *)
Offered(t) == {Id(t[p][2]) : p \in OpCells(t)}

(* Streams in which fields follow their command, commands follow bytes, and*)
(* no chunk comes twice.                                                   *)
Lined(t) ==
  /\ \A p \in OpCells(t) : p + 1 \in DOMAIN t /\ t[p + 1] = <<"head", t[p][2], 2>>
  /\ \A p \in FieldCells(t) : p = 1 \/ t[p - 1] = <<"head", t[p][2], 1>>
  /\ \A p \in OpCells(t) : p = 1 \/ t[p - 1][1] # "head"
  /\ \A p, q \in OpCells(t) : Id(t[p][2]) = Id(t[q][2]) => p = q

LEMMA NothingLined == Lined(<<>>) /\ Offered(<<>>) = {}
BY DEF Lined, Offered, OpCells, FieldCells

LEMMA RestIs ==
  ASSUME NEW S, NEW t \in Seq(S), NEW n \in Nat
  PROVE  \E m \in Nat :
           /\ m =< n /\ m =< Len(t) /\ (m = n \/ m = Len(t))
           /\ Remaining(t, n) = SubSeq(t, m + 1, Len(t))
<1> DEFINE m == IF n < Len(t) THEN n ELSE Len(t)
<1>1. Min({n, Len(t)}) = m
  BY DEF Min
<1>2. m \in Nat /\ m =< n /\ m =< Len(t) /\ (m = n \/ m = Len(t))
  OBVIOUS
<1>. QED  BY <1>1, <1>2 DEF Remaining

LEMMA SuffixCells ==
  ASSUME NEW S, NEW t \in Seq(S), NEW m \in Nat, m =< Len(t), NEW r,
         r = SubSeq(t, m + 1, Len(t))
  PROVE  /\ r \in Seq(S) /\ Len(r) = Len(t) - m /\ DOMAIN r = 1..Len(t) - m
         /\ \A i \in DOMAIN r : r[i] = t[i + m] /\ i + m \in DOMAIN t
         /\ \A i \in DOMAIN t : i > m => i - m \in DOMAIN r
OBVIOUS

LEMMA LinedRest ==
  ASSUME NEW C, NEW t \in Seq(Sent(C)), Lined(t), NEW n \in Nat
  PROVE  LET r == Remaining(t, n) IN
         /\ Lined(r) /\ Offered(r) \subseteq Offered(t)
         /\ \A p \in OpCells(t) : p =< n => Id(t[p][2]) \notin Offered(r)
<1> DEFINE r == Remaining(t, n)
<1>a. PICK m \in Nat : /\ m =< n /\ m =< Len(t) /\ (m = n \/ m = Len(t))
                       /\ r = SubSeq(t, m + 1, Len(t))
  BY RestIs
<1> HIDE DEF r
<1>1. /\ Len(r) = Len(t) - m /\ DOMAIN r = 1..Len(t) - m
      /\ \A i \in DOMAIN r : r[i] = t[i + m] /\ i + m \in DOMAIN t
      /\ \A i \in DOMAIN t : i > m => i - m \in DOMAIN r
  BY <1>a, SuffixCells
<1>b. Len(t) \in Nat /\ DOMAIN t = 1..Len(t)
  OBVIOUS
<1>2. ASSUME NEW p \in DOMAIN r
      PROVE  p + m \in DOMAIN t /\ r[p] = t[p + m] /\ p \in Nat /\ p > 0
  BY <1>1, <1>a, <1>b
<1>3. \A p \in OpCells(r) : p + m \in OpCells(t) /\ r[p] = t[p + m]
  BY <1>2 DEF OpCells
<1>4. \A p \in FieldCells(r) : p + m \in FieldCells(t) /\ r[p] = t[p + m]
  BY <1>2 DEF FieldCells
<1>5. ASSUME NEW p \in OpCells(r)
      PROVE  p + 1 \in DOMAIN r /\ r[p + 1] = <<"head", r[p][2], 2>>
  <2>1. p \in DOMAIN r /\ p \in Nat /\ p > 0
    BY <1>2 DEF OpCells
  <2>2. (p + m) + 1 \in DOMAIN t /\ t[(p + m) + 1] = <<"head", r[p][2], 2>>
    BY <1>3 DEF Lined
  <2>3. (p + 1) + m = (p + m) + 1 /\ (p + m) + 1 > m /\ ((p + m) + 1) - m = p + 1
    BY <2>1
  <2>4. p + 1 \in DOMAIN r
    BY <1>1, <2>2, <2>3
  <2>. QED  BY <1>1, <2>2, <2>3, <2>4
<1>6. ASSUME NEW p \in DOMAIN r, p # 1
      PROVE  p - 1 \in DOMAIN r /\ r[p - 1] = t[(p + m) - 1] /\ p + m # 1
  <2>1. p \in Nat /\ p > 0
    BY <1>2
  <2>2. (p - 1) + m = (p + m) - 1 /\ p + m # 1
    BY <1>6, <2>1
  <2>3. p - 1 \in DOMAIN r
    <3> DEFINE x == Len(t)
    <3> HIDE DEF x
    <3>1. DOMAIN r = 1..x - m /\ x \in Nat
      BY <1>1, <1>b DEF x
    <3>. QED  BY <1>6, <2>1, <3>1
  <2>. QED  BY <1>1, <2>2, <2>3
<1>7. ASSUME NEW p \in FieldCells(r), p # 1
      PROVE  r[p - 1] = <<"head", r[p][2], 1>>
  <2>1. p \in DOMAIN r
    BY DEF FieldCells
  <2>. QED  BY <1>4, <1>6, <1>7, <2>1 DEF Lined
<1>8. ASSUME NEW p \in OpCells(r), p # 1
      PROVE  r[p - 1][1] # "head"
  <2>1. p \in DOMAIN r
    BY DEF OpCells
  <2>. QED  BY <1>3, <1>6, <1>8, <2>1 DEF Lined
<1>9. ASSUME NEW p \in OpCells(r), NEW q \in OpCells(r), Id(r[p][2]) = Id(r[q][2])
      PROVE  p = q
  <2>1. p + m = q + m
    BY <1>3, <1>9 DEF Lined
  <2>2. p \in Nat /\ q \in Nat
    BY <1>2 DEF OpCells
  <2>. QED  BY <2>1, <2>2
<1>10. Lined(r)
  BY <1>5, <1>7, <1>8, <1>9 DEF Lined
<1>11. Offered(r) \subseteq Offered(t)
  BY <1>3 DEF Offered
<1>12. ASSUME NEW p \in OpCells(t), p =< n, Id(t[p][2]) \in Offered(r)
       PROVE  FALSE
  <2>1. PICK q \in OpCells(r) : Id(t[p][2]) = Id(r[q][2])
    BY <1>12 DEF Offered
  <2>2. q + m \in OpCells(t) /\ Id(t[p][2]) = Id(t[q + m][2])
    BY <1>3, <2>1
  <2>3. p = q + m
    BY <2>2 DEF Lined
  <2>4. q \in Nat /\ q > 0
    BY <1>2 DEF OpCells
  <2>5. p > m /\ p \in DOMAIN t
    BY <2>3, <2>4 DEF OpCells
  <2>6. m # n
    BY <1>12, <2>3, <2>4
  <2> DEFINE x == Len(t)
  <2> HIDE DEF x
  <2>7. m = x /\ p \in 1..x /\ x \in Nat
    BY <1>a, <1>b, <2>5, <2>6 DEF x
  <2>. QED  BY <2>5, <2>7
<1>. QED  BY <1>10, <1>11, <1>12 DEF r

(* A command that is read comes with the fields of one of the headers that *)
(* the buffer has the command of.                                          *)
LEMMA OneBefore ==
  ASSUME NEW m \in Nat, NEW l \in Nat, NEW n \in Nat, m >= 2, m =< l, l =< n
  PROVE  m \in 1..l /\ m - 1 \in Nat /\ m - 1 < m /\ m - 1 =< l /\ m - 1 \in 0..l /\ m # 1
         /\ m - 1 =< n
OBVIOUS

LEMMA CommandRead ==
  ASSUME NEW C, C \subseteq Cmds, Closed(C), NEW t \in Seq(Sent(C)), Lined(t), NEW n \in Nat,
         n >= 2, NEW old \in C, old.op # "put", NEW d, d = Parsed(old, Taken(t, n)), d.op = "put"
  PROVE  \E p \in OpCells(t) : p =< n /\ Id(d) = Id(t[p][2])
<1> DEFINE buf == Taken(t, n)
           text == Text(buf)
           l == Len(text)
<1>1. /\ buf \in Seq(Sent(C)) /\ Len(buf) =< n /\ Len(buf) =< Len(t)
      /\ (n =< Len(t) => Len(buf) = n) /\ (Len(t) =< n => Len(buf) = Len(t))
      /\ \A i \in 1..Len(buf) : buf[i] = t[i]
  <2>1. buf \in Seq(Sent(C)) /\ Len(buf) =< n /\ Len(buf) =< Len(t)
    BY Receive
  <2>2. (n =< Len(t) => Len(buf) = n) /\ (Len(t) =< n => buf = t)
    BY Receive
  <2>3. \A i \in 1..Len(buf) : buf[i] = t[i]
    BY Receive
  <2>. QED  BY <2>1, <2>2, <2>3
<1> HIDE DEF buf
<1>2. \A i \in 1..Len(buf) : buf[i] # <<"nul">>
  <2> SUFFICES ASSUME NEW i \in 1..Len(buf) PROVE buf[i] # <<"nul">>
    OBVIOUS
  <2>1. buf[i] \in Sent(C)
    BY <1>1
  <2>. QED  BY <2>1 DEF Sent
<1>3. /\ text \in Seq(Sent(C)) /\ l = Len(buf) /\ l \in Nat /\ DOMAIN text = 1..l
      /\ \A i \in 1..l : text[i] = t[i]
  <2>1. /\ text \in Seq(Sent(C)) /\ Len(text) =< Len(buf)
        /\ \A i \in 1..Len(text) : text[i] = buf[i]
        /\ \A m \in 1..Len(buf) : (\A i \in 1..m : buf[i] # <<"nul">>) => m =< Len(text)
    BY <1>1, TextIs
  <2>2. Len(buf) \in Nat /\ Len(text) \in Nat
    BY <1>1, <2>1
  <2>3. Len(buf) =< Len(text)
    <3>1. CASE Len(buf) = 0
      BY <2>2, <3>1
    <3>2. CASE Len(buf) # 0
      <4>1. Len(buf) \in 1..Len(buf)
        BY <2>2, <3>2
      <4>. QED  BY <1>2, <2>1, <4>1
    <3>. QED  BY <3>1, <3>2
  <2>4. Len(text) = Len(buf)
    BY <2>1, <2>2, <2>3
  <2> HIDE DEF text
  <2>. QED  BY <1>1, <2>1, <2>2, <2>4
<1>4. PICK tr : /\ tr[0] = old
                /\ \A i \in 1..l : tr[i] = Line(text, tr[i - 1], i)
                /\ d = tr[l]
  <2>1. Parsed(old, buf) = d
    BY DEF buf
  <2>. QED  BY <1>3, <2>1, ParsedByCells
<1> HIDE DEF text, l
<1>5. /\ l =< n /\ l =< Len(t) /\ DOMAIN t = 1..Len(t) /\ Len(t) \in Nat
      /\ (n =< Len(t) => l = n) /\ (Len(t) =< n => l = Len(t))
      /\ l \in Nat /\ (2 \in DOMAIN t => 2 =< l)
      /\ \A m \in 1..l : m \in DOMAIN t /\ (m # 1 => m - 1 \in DOMAIN t)
  <2>1. /\ l =< n /\ l =< Len(t) /\ DOMAIN t = 1..Len(t) /\ Len(t) \in Nat
        /\ (n =< Len(t) => l = n) /\ (Len(t) =< n => l = Len(t)) /\ l \in Nat
    BY <1>1, <1>3
  <2> DEFINE x == Len(t)
             D == DOMAIN t
  <2> HIDE DEF x, D
  <2>2. /\ l =< n /\ l =< x /\ D = 1..x /\ x \in Nat /\ l \in Nat
        /\ (n =< x => l = n) /\ (x =< n => l = x)
    BY <2>1 DEF x, D
  <2>3. 2 \in D => 2 =< l
    BY <2>2
  <2>4. \A m \in 1..l : m \in D /\ (m # 1 => m - 1 \in D)
    BY <2>2
  <2>5. /\ 2 \in DOMAIN t => 2 =< l
        /\ \A m \in 1..l : m \in DOMAIN t /\ (m # 1 => m - 1 \in DOMAIN t)
    BY <2>3, <2>4 DEF D
  <2>. QED  BY <2>1, <2>5
<1>6. ASSUME NEW i \in 1..l
      PROVE  /\ t[i][1] = "head" => t[i][2] \in C
             /\ i \in DOMAIN t
  <2>1. text[i] \in Sent(C) /\ text[i] = t[i]
    BY <1>3
  <2>. QED  BY <1>5, <2>1 DEF Sent
(* What a line does.                                                       *)
<1>7. ASSUME NEW i \in 1..l, NEW c \in C
      PROVE  \/ /\ i \in OpCells(t) /\ (i = 1 \/ t[i - 1][1] = "head")
                /\ Line(text, c, i) = [c EXCEPT !.op = t[i][2].op]
             \/ i \in FieldCells(t) /\ Line(text, c, i) = Fields(c, t[i][2])
             \/ i \notin FieldCells(t) /\ Line(text, c, i) = c
  <2>1. text[i] = t[i] /\ i \in DOMAIN t /\ (i # 1 => text[i - 1] = t[i - 1])
    BY <1>3, <1>6
  <2>2. IsLine(text, i, 1) <=> i \in OpCells(t)
    BY <2>1 DEF IsLine, OpCells
  <2>3. IsLine(text, i, 2) <=> i \in FieldCells(t)
    BY <2>1 DEF IsLine, FieldCells
  <2>4. ~(IsLine(text, i, 1) /\ IsLine(text, i, 2))
    BY DEF IsLine
  <2>5. CASE IsLine(text, i, 2)
    BY <2>1, <2>3, <2>4, <2>5 DEF Line
  <2>6. CASE ~IsLine(text, i, 2)
    <3>1. CASE Line(text, c, i) = c
      BY <2>3, <2>6, <3>1
    <3>2. CASE Line(text, c, i) # c
      <4>1. /\ IsLine(text, i, 1) /\ (i = 1 \/ text[i - 1][1] = "head")
            /\ Line(text, c, i) = [c EXCEPT !.op = text[i][2].op]
        BY <2>6, <3>2 DEF Line
      <4>. QED  BY <2>1, <2>2, <4>1
    <3>. QED  BY <3>1, <3>2
  <2>. QED  BY <2>5, <2>6
<1>8. \A i \in 0..l : tr[i] \in C
  <2> DEFINE P == {m \in Nat : m =< l => tr[m] \in C}
  <2>1. ASSUME NEW m \in Nat, \A x \in Nat : x < m => x \in P
        PROVE  m \in P
    <3> SUFFICES ASSUME m =< l PROVE tr[m] \in C
      OBVIOUS
    <3>1. CASE m = 0
      BY <1>4, <3>1
    <3>2. CASE m # 0
      <4>1. m \in 1..l /\ m - 1 \in Nat /\ m - 1 < m /\ m - 1 =< l
        BY <1>3, <3>2
      <4>2. tr[m - 1] \in C
        BY <2>1, <4>1
      <4>3. tr[m] = Line(text, tr[m - 1], m)
        BY <1>4, <4>1
      <4>4. \/ /\ m \in OpCells(t)
               /\ Line(text, tr[m - 1], m) = [tr[m - 1] EXCEPT !.op = t[m][2].op]
            \/ m \in FieldCells(t) /\ Line(text, tr[m - 1], m) = Fields(tr[m - 1], t[m][2])
            \/ Line(text, tr[m - 1], m) = tr[m - 1]
        BY <1>7, <4>1, <4>2
      <4>5. m \in OpCells(t) \cup FieldCells(t) => t[m][2] \in C
        BY <1>6, <4>1 DEF OpCells, FieldCells
      <4>. QED  BY <4>2, <4>3, <4>4, <4>5 DEF Closed
    <3>. QED  BY <3>1, <3>2
  <2> SUFFICES ASSUME NEW i \in 0..l PROVE i \in P
    BY <1>3
  <2>2. i \in Nat
    BY <1>3
  <2> HIDE DEF P
  <2>. QED  BY <2>1, <2>2, NaturalsAll
<1>9. 1 \in OpCells(t) /\ 1 =< l
  <2> SUFFICES ASSUME ~(1 \in OpCells(t) /\ 1 =< l) PROVE d.op # "put"
    BY <1>3
  <2> DEFINE P == {m \in Nat : m =< l => tr[m].op # "put"}
  <2>1. ASSUME NEW m \in Nat, \A x \in Nat : x < m => x \in P
        PROVE  m \in P
    <3> SUFFICES ASSUME m =< l PROVE tr[m].op # "put"
      OBVIOUS
    <3>1. CASE m = 0
      BY <1>4, <3>1
    <3>2. CASE m # 0
      <4>1. m \in 1..l /\ m - 1 \in Nat /\ m - 1 < m /\ m - 1 =< l /\ m - 1 \in 0..l
        BY <1>3, <3>2
      <4>2. tr[m - 1] \in C /\ tr[m - 1].op # "put"
        BY <1>8, <2>1, <4>1
      <4>3. tr[m] = Line(text, tr[m - 1], m)
        BY <1>4, <4>1
      <4>4. ~(m \in OpCells(t) /\ (m = 1 \/ t[m - 1][1] = "head"))
        <5>1. m = 1 => m \notin OpCells(t)
          BY <4>1
        <5>2. m \in OpCells(t) => m = 1 \/ t[m - 1][1] # "head"
          BY DEF Lined
        <5>. QED  BY <5>1, <5>2
      <4>5. \/ m \in FieldCells(t) /\ tr[m] = Fields(tr[m - 1], t[m][2])
            \/ tr[m] = tr[m - 1]
        BY <1>7, <4>1, <4>2, <4>3, <4>4
      <4>6. m \in FieldCells(t) => t[m][2] \in C
        BY <1>6, <4>1 DEF FieldCells
      <4>7. m \in FieldCells(t) => Fields(tr[m - 1], t[m][2]).op = tr[m - 1].op
        BY <4>2, <4>6, FieldsOf
      <4>. QED  BY <4>2, <4>5, <4>7
    <3>. QED  BY <3>1, <3>2
  <2>2. l \in P
    <3> HIDE DEF P
    <3>. QED  BY <1>3, <2>1, NaturalsAll
  <2>. QED  BY <1>3, <1>4, <2>2
<1>10. 2 =< l /\ 2 \in FieldCells(t) /\ t[2] = <<"head", t[1][2], 2>>
  <2>1. 2 \in DOMAIN t /\ t[2] = <<"head", t[1][2], 2>>
    <3>1. 1 + 1 = 2
      OBVIOUS
    <3>. QED  BY <1>9, <3>1 DEF Lined
  <2>2. 2 =< l
    BY <1>5, <2>1
  <2>. QED  BY <2>1, <2>2 DEF FieldCells
<1> DEFINE Q == {m \in Nat : m >= 2 /\ m =< l =>
                   \E p \in OpCells(t) : p =< n /\ Id(tr[m]) = Id(t[p][2])}
<1>11. ASSUME NEW m \in Nat, \A x \in Nat : x < m => x \in Q
       PROVE  m \in Q
  <2> SUFFICES ASSUME m >= 2, m =< l
               PROVE  \E p \in OpCells(t) : p =< n /\ Id(tr[m]) = Id(t[p][2])
    OBVIOUS
  <2>1. m \in 1..l /\ m - 1 \in Nat /\ m - 1 < m /\ m - 1 =< l /\ m - 1 \in 0..l /\ m # 1
        /\ m - 1 =< n
    <3>1. l \in Nat /\ l =< n
      BY <1>5
    <3>. QED  BY <3>1, OneBefore
  <2>2. tr[m - 1] \in C /\ tr[m] = Line(text, tr[m - 1], m) /\ tr[m - 1] \in Cmds
    BY <1>4, <1>8, <2>1
  <2>3. CASE m \in FieldCells(t)
    <3>1. t[m - 1] = <<"head", t[m][2], 1>>
      BY <2>1, <2>3 DEF Lined
    <3>2. m - 1 \in OpCells(t) /\ t[m - 1][2] = t[m][2]
      <4>1. m - 1 \in DOMAIN t
        BY <1>5, <2>1
      <4>. QED  BY <3>1, <4>1 DEF OpCells
    <3>3. tr[m] = Fields(tr[m - 1], t[m][2])
      <4>1. m \notin OpCells(t)
        BY <2>3 DEF FieldCells, OpCells
      <4>. QED  BY <1>7, <2>1, <2>2, <2>3, <4>1
    <3>4. t[m][2] \in Cmds
      BY <1>6, <2>1, <2>3 DEF FieldCells
    <3>5. Id(tr[m]) = Id(t[m - 1][2])
      <4>1. /\ tr[m].name = t[m][2].name /\ tr[m].ver = t[m][2].ver
            /\ tr[m].chunk = t[m][2].chunk
        BY <2>2, <3>3, <3>4, FieldsOf
      <4>. QED  BY <3>2, <4>1 DEF Id
    <3>. QED  BY <2>1, <3>2, <3>5
  <2>4. CASE m \notin FieldCells(t)
    <3>1. m # 2
      BY <1>10, <2>4
    <3>2. m - 1 >= 2
      BY <3>1
    <3>3. PICK p \in OpCells(t) : p =< n /\ Id(tr[m - 1]) = Id(t[p][2])
      BY <1>11, <2>1, <3>2
    <3>4. tr[m] = tr[m - 1] \/ (m \in OpCells(t) /\ tr[m] = [tr[m - 1] EXCEPT !.op = t[m][2].op])
      BY <1>7, <2>1, <2>2, <2>4
    <3>5. Id(tr[m]) = Id(tr[m - 1])
      <4>1. CASE tr[m] = tr[m - 1]
        BY <4>1
      <4>2. CASE m \in OpCells(t) /\ tr[m] = [tr[m - 1] EXCEPT !.op = t[m][2].op]
        <5>1. t[m][2].op \in Ops
          BY <1>6, <2>1, <4>2 DEF OpCells, Cmds
        <5>. QED  BY <2>2, <4>2, <5>1, OpOf DEF Id
      <4>. QED  BY <3>4, <4>1, <4>2
    <3>. QED  BY <3>3, <3>5
  <2>. QED  BY <2>3, <2>4
<1>12. l \in Q
  <2> HIDE DEF Q
  <2>. QED  BY <1>3, <1>11, NaturalsAll
<1>. QED  BY <1>3, <1>4, <1>10, <1>12

-----------------------------------------------------------------------------
(* What the cells of two sequences are, put together.                      *)
LEMMA JoinedCells ==
  ASSUME NEW S, NEW a \in Seq(S), NEW b \in Seq(S), NEW t, t = a \o b
  PROVE  /\ t \in Seq(S) /\ Len(t) = Len(a) + Len(b)
         /\ \A p \in DOMAIN a : p \in DOMAIN t /\ t[p] = a[p]
         /\ \A p \in DOMAIN t : p \notin DOMAIN a =>
              p - Len(a) \in DOMAIN b /\ t[p] = b[p - Len(a)]
         /\ \A p \in DOMAIN b : p + Len(a) \in DOMAIN t /\ t[p + Len(a)] = b[p]
                                /\ p + Len(a) \notin DOMAIN a
         /\ \A p \in DOMAIN a : p - 1 \in DOMAIN a \/ p = 1
         /\ \A p \in DOMAIN t : p \in Nat \ {0}
OBVIOUS

(* A header behind bytes, whose chunk is another one than those before.    *)
LEMMA LinedHeader ==
  ASSUME NEW S, NEW a \in Seq(S), Lined(a), a = <<>> \/ a[Len(a)][1] # "head",
         NEW h, HeaderCells(h) \in Seq(S), Id(h) \notin Offered(a)
  PROVE  /\ Lined(a \o HeaderCells(h))
         /\ Offered(a \o HeaderCells(h)) \subseteq Offered(a) \cup {Id(h)}
<1> DEFINE b == HeaderCells(h)
           t == a \o b
           l == Len(a)
<1>1. /\ DOMAIN b = 1..HdrLen /\ \A x \in 1..HdrLen : b[x] = <<"head", h, x>>
      /\ 1 \in DOMAIN b /\ 2 \in DOMAIN b /\ l \in Nat /\ (a # <<>> => l \in DOMAIN a)
      /\ DOMAIN a = 1..l
  BY DfsAssumption DEF HeaderCells
<1>2. b \in Seq(S)
  OBVIOUS
<1> HIDE DEF b
<1>3. /\ \A p \in DOMAIN a : p \in DOMAIN t /\ t[p] = a[p]
      /\ \A p \in DOMAIN t : p \notin DOMAIN a => p - l \in DOMAIN b /\ t[p] = b[p - l]
      /\ \A p \in DOMAIN b : p + l \in DOMAIN t /\ t[p + l] = b[p] /\ p + l \notin DOMAIN a
      /\ \A p \in DOMAIN a : p - 1 \in DOMAIN a \/ p = 1
      /\ \A p \in DOMAIN t : p \in Nat \ {0}
  BY <1>2, JoinedCells
<1> HIDE DEF t, l
(* Where commands and fields are.                                          *)
<1>4. ASSUME NEW p \in DOMAIN t, p \notin DOMAIN a, t[p][1] = "head"
      PROVE  /\ t[p] = <<"head", h, p - l>> /\ t[p][2] = h /\ t[p][3] = p - l
             /\ t[p][3] = 1 => p = l + 1
             /\ t[p][3] = 2 => p = (l + 1) + 1
  <2>1. p - l \in DOMAIN b /\ t[p] = b[p - l]
    BY <1>3, <1>4
  <2>2. t[p] = <<"head", h, p - l>>
    BY <1>1, <2>1
  <2>3. t[p][3] = p - l /\ t[p][2] = h
    BY <2>2
  <2>4. p \in Nat
    BY <1>3
  <2>5. (p - l = 1 => p = l + 1) /\ (p - l = 2 => p = (l + 1) + 1)
    BY <1>1, <2>4
  <2>. QED  BY <2>2, <2>3, <2>5
<1>5. /\ l + 1 \in DOMAIN t /\ t[l + 1] = <<"head", h, 1>> /\ l + 1 \notin DOMAIN a
      /\ (l + 1) + 1 \in DOMAIN t /\ t[(l + 1) + 1] = <<"head", h, 2>>
  <2>1. 1 + l = l + 1 /\ 2 + l = (l + 1) + 1
    BY <1>1
  <2>. QED  BY <1>1, <1>3, <2>1
<1>6. \A p \in OpCells(t) : \/ p \in OpCells(a) /\ t[p] = a[p]
                            \/ p = l + 1 /\ t[p][2] = h /\ p \notin DOMAIN a
  BY <1>3, <1>4 DEF OpCells
<1>7. \A p \in FieldCells(t) : \/ p \in FieldCells(a) /\ t[p] = a[p]
                               \/ p = (l + 1) + 1 /\ t[p][2] = h
  BY <1>3, <1>4 DEF FieldCells
<1>8. ASSUME NEW p \in OpCells(t)
      PROVE  p + 1 \in DOMAIN t /\ t[p + 1] = <<"head", t[p][2], 2>>
  <2>1. CASE p \in OpCells(a) /\ t[p] = a[p]
    <3>1. p + 1 \in DOMAIN a /\ a[p + 1] = <<"head", a[p][2], 2>>
      BY <2>1 DEF Lined
    <3>. QED  BY <1>3, <2>1, <3>1
  <2>2. CASE p = l + 1 /\ t[p][2] = h
    BY <1>5, <2>2
  <2>. QED  BY <1>6, <2>1, <2>2
<1>9. ASSUME NEW p \in FieldCells(t), p # 1
      PROVE  t[p - 1] = <<"head", t[p][2], 1>>
  <2>1. CASE p \in FieldCells(a) /\ t[p] = a[p]
    <3>1. a[p - 1] = <<"head", a[p][2], 1>> /\ p \in DOMAIN a
      BY <1>9, <2>1 DEF Lined, FieldCells
    <3>2. p - 1 \in DOMAIN a
      BY <1>3, <1>9, <3>1
    <3>. QED  BY <1>3, <2>1, <3>1, <3>2
  <2>2. CASE p = (l + 1) + 1 /\ t[p][2] = h
    <3>1. p - 1 = l + 1
      BY <1>1, <2>2
    <3>. QED  BY <1>5, <2>2, <3>1
  <2>. QED  BY <1>7, <2>1, <2>2
<1>10. ASSUME NEW p \in OpCells(t), p # 1
       PROVE  t[p - 1][1] # "head"
  <2>1. CASE p \in OpCells(a) /\ t[p] = a[p]
    <3>1. a[p - 1][1] # "head" /\ p \in DOMAIN a
      BY <1>10, <2>1 DEF Lined, OpCells
    <3>2. p - 1 \in DOMAIN a
      BY <1>3, <1>10, <3>1
    <3>. QED  BY <1>3, <3>1, <3>2
  <2>2. CASE p = l + 1
    <3>1. p - 1 = l /\ l # 0
      BY <1>1, <1>10, <2>2
    <3>2. a # <<>>
      BY <3>1 DEF l
    <3>3. a[l][1] # "head" /\ l \in DOMAIN a
      BY <1>1, <3>2 DEF l
    <3>. QED  BY <1>3, <3>1, <3>3
  <2>. QED  BY <1>6, <2>1, <2>2
<1>11. ASSUME NEW p \in OpCells(t), NEW q \in OpCells(t), Id(t[p][2]) = Id(t[q][2])
       PROVE  p = q
  <2>1. \A x \in OpCells(a) : Id(a[x][2]) # Id(h)
    BY DEF Offered
  <2>. QED  BY <1>6, <1>11, <2>1 DEF Lined
<1>12. Lined(t)
  BY <1>8, <1>9, <1>10, <1>11 DEF Lined
<1>13. Offered(t) \subseteq Offered(a) \cup {Id(h)}
  BY <1>6 DEF Offered
<1>. QED  BY <1>12, <1>13 DEF t, b

LEMMA LinedBytes ==
  ASSUME NEW S, NEW a \in Seq(S), Lined(a), NEW b \in Seq(S),
         \A p \in DOMAIN b : b[p][1] # "head"
  PROVE  Lined(a \o b) /\ Offered(a \o b) \subseteq Offered(a)
<1> DEFINE t == a \o b
<1>1. /\ \A p \in DOMAIN a : p \in DOMAIN t /\ t[p] = a[p]
      /\ \A p \in DOMAIN t : p \notin DOMAIN a => p - Len(a) \in DOMAIN b /\ t[p] = b[p - Len(a)]
      /\ \A p \in DOMAIN a : p - 1 \in DOMAIN a \/ p = 1
  BY JoinedCells
<1> HIDE DEF t
<1>2. \A p \in OpCells(t) : p \in OpCells(a) /\ t[p] = a[p]
  BY <1>1 DEF OpCells
<1>3. \A p \in FieldCells(t) : p \in FieldCells(a) /\ t[p] = a[p]
  BY <1>1 DEF FieldCells
<1>4. ASSUME NEW p \in OpCells(t)
      PROVE  p + 1 \in DOMAIN t /\ t[p + 1] = <<"head", t[p][2], 2>>
  <2>1. p + 1 \in DOMAIN a /\ a[p + 1] = <<"head", a[p][2], 2>>
    BY <1>2 DEF Lined
  <2>. QED  BY <1>1, <1>2, <2>1
<1>5. ASSUME NEW p \in FieldCells(t), p # 1
      PROVE  t[p - 1] = <<"head", t[p][2], 1>>
  <2>1. p \in FieldCells(a) /\ t[p] = a[p] /\ p \in DOMAIN a
    BY <1>3 DEF FieldCells
  <2>2. p - 1 \in DOMAIN a
    BY <1>1, <1>5, <2>1
  <2>. QED  BY <1>1, <1>5, <2>1, <2>2 DEF Lined
<1>6. ASSUME NEW p \in OpCells(t), p # 1
      PROVE  t[p - 1][1] # "head"
  <2>1. p \in OpCells(a) /\ p \in DOMAIN a
    BY <1>2 DEF OpCells
  <2>2. p - 1 \in DOMAIN a
    BY <1>1, <1>6, <2>1
  <2>. QED  BY <1>1, <1>6, <2>1, <2>2 DEF Lined
<1>7. \A p, q \in OpCells(t) : Id(t[p][2]) = Id(t[q][2]) => p = q
  BY <1>2 DEF Lined
<1>8. Lined(t)
  BY <1>4, <1>5, <1>6, <1>7 DEF Lined
<1>9. Offered(t) \subseteq Offered(a)
  BY <1>2 DEF Offered
<1>. QED  BY <1>8, <1>9 DEF t

LEMMA LastOfJoined ==
  ASSUME NEW S, NEW a \in Seq(S), NEW b \in Seq(S), b # <<>>
  PROVE  (a \o b)[Len(a \o b)] = b[Len(b)] /\ Len(b) \in DOMAIN b
OBVIOUS

LEMMA LastOfRest ==
  ASSUME NEW S, NEW t \in Seq(S), NEW n \in Nat, NEW r, r = Remaining(t, n), r # <<>>
  PROVE  t # <<>> /\ r[Len(r)] = t[Len(t)]
<1>1. PICK m \in Nat : m =< Len(t) /\ r = SubSeq(t, m + 1, Len(t))
  BY RestIs
<1>2. /\ r \in Seq(S) /\ Len(r) = Len(t) - m /\ DOMAIN r = 1..Len(t) - m
      /\ \A i \in DOMAIN r : r[i] = t[i + m] /\ i + m \in DOMAIN t
  BY <1>1, SuffixCells
<1>3. Len(r) \in DOMAIN r /\ Len(r) + m = Len(t)
  <2>1. Len(r) \in Nat /\ Len(r) # 0 /\ Len(t) \in Nat
    BY <1>2
  <2> DEFINE x == Len(r)
             y == Len(t)
  <2> HIDE DEF x, y
  <2>2. x \in Nat /\ x # 0 /\ y \in Nat /\ x = y - m /\ DOMAIN r = 1..y - m
    BY <1>2, <2>1 DEF x, y
  <2>3. x \in DOMAIN r /\ x + m = y
    BY <2>2
  <2>. QED  BY <2>3 DEF x, y
<1>4. Len(t) \in DOMAIN t
  BY <1>2, <1>3
<1>. QED  BY <1>2, <1>3, <1>4

-----------------------------------------------------------------------------
(* The chunks whose headers have been sent.                                *)
Begun(c, m) == {IdAt(c, i) : i \in {x \in 1..Count(c) : 2 * x - 1 =< m}}

(* Every chunk comes once: those still to come, the one that is about to be*)
(* created and those that have been are different ones.  t is the stream,  *)
(* I are the chunks on the disk.                                           *)
OnceAt(c, m, t, w, d, I) ==
  /\ Lined(t)
  /\ Offered(t) \cap I = {}
  /\ Offered(t) \subseteq Begun(c, m)
  /\ \A id \in I : id[2] = c.k => id \in Begun(c, m)
  /\ w \in {"add", "create"} => Id(d) \in Begun(c, m) /\ Id(d) \notin Offered(t) \cup I
  /\ m % 2 = 0 => t = <<>> \/ t[Len(t)][1] # "head"

LEMMA BegunMore ==
  ASSUME NEW c, NEW m \in Nat
  PROVE  /\ Begun(c, m) \subseteq Begun(c, m + 1)
         /\ \A id \in Begun(c, m) : id[2] = c.k
<1>1. \A x \in 1..Count(c) : 2 * x - 1 =< m => 2 * x - 1 =< m + 1
  <2> SUFFICES ASSUME NEW x \in 1..Count(c), 2 * x - 1 =< m PROVE 2 * x - 1 =< m + 1
    OBVIOUS
  <2>1. x \in Int
    OBVIOUS
  <2>. QED  BY <2>1
<1>2. Begun(c, m) \subseteq Begun(c, m + 1)
  BY <1>1 DEF Begun
<1>3. \A id \in Begun(c, m) : id[2] = c.k
  BY DEF Begun, IdAt
<1>. QED  BY <1>2, <1>3

LEMMA OnceSent ==
  ASSUME NEW c, IsPut(c), NEW m \in Nat, m + 1 =< 2 * Count(c), Count(c) \in Nat,
         NEW t \in Seq(AnyCells),
         NEW w, NEW d, NEW I, OnceAt(c, m, t, w, d, I),
         m % 2 # 0 => LengthAt(c, (m + 1) \div 2) > 0
  PROVE  OnceAt(c, m + 1, t \o Message(c, m + 1), w, d, I)
<1> DEFINE b == Message(c, m + 1)
           u == t \o b
<1>1. Begun(c, m) \subseteq Begun(c, m + 1)
  BY BegunMore
<1>2. Cells \subseteq AnyCells
  <2>1. Full \subseteq Cmds
    BY FullIsGood DEF Good
  <2>. QED  BY <2>1 DEF Cells, AnyCells
<1>3. ASSUME Lined(u), NEW x \in SUBSET Begun(c, m + 1), x \cap Begun(c, m) = {},
             Offered(u) \subseteq Offered(t) \cup x,
             (m + 1) % 2 = 0 => u[Len(u)][1] # "head"
      PROVE  OnceAt(c, m + 1, u, w, d, I)
  <2>1. \A id \in x : id[2] = c.k
    <3>1. m + 1 \in Nat
      OBVIOUS
    <3>2. \A id \in Begun(c, m + 1) : id[2] = c.k
      BY <3>1, BegunMore
    <3>. QED  BY <3>2
  <2>2. x \cap I = {}
    BY <2>1, <1>3 DEF OnceAt
  <2>. QED  BY <1>1, <1>3, <2>2 DEF OnceAt
<1>4. CASE m % 2 = 0
  <2>1. PICK i \in Nat \ {0} : m + 1 = 2 * i - 1 /\ i \in 1..Count(c)
    <3>1. m \div 2 \in Nat /\ m = 2 * (m \div 2)
      BY <1>4
    <3>2. (m \div 2) + 1 \in Nat \ {0} /\ m + 1 = 2 * ((m \div 2) + 1) - 1
      BY <3>1
    <3>3. (m \div 2) + 1 \in 1..Count(c)
      BY <3>1
    <3>. QED  BY <3>2, <3>3
  <2> DEFINE h == HeaderAt(c, i)
  <2>2. b = HeaderCells(h) /\ b \in Seq(AnyCells)
    <3>1. b = HeaderCells(h) /\ HeaderCells(h) \in Seq(Cells)
      BY <2>1, HeaderCellsAt
    <3>. QED  BY <1>2, <3>1
  <2>3. Id(h) = IdAt(c, i)
    BY DEF Id, IdAt, HeaderAt, PutHeader
  <2>4. Id(h) \notin Begun(c, m)
    <3> SUFFICES ASSUME NEW x \in 1..Count(c), 2 * x - 1 =< m, IdAt(c, x) = IdAt(c, i)
                 PROVE  FALSE
      BY <2>3 DEF Begun
    <3>1. x # i
      BY <2>1
    <3>. QED  BY <2>1, <3>1, IdsDiffer
  <2>5. Id(h) \in Begun(c, m + 1)
    <3>1. 2 * i - 1 =< m + 1
      BY <2>1
    <3>. QED  BY <2>1, <2>3, <3>1 DEF Begun
  <2>6. Id(h) \notin Offered(t)
    BY <2>4 DEF OnceAt
  <2>7. Lined(u) /\ Offered(u) \subseteq Offered(t) \cup {Id(h)}
    <3>1. Lined(t) /\ (t = <<>> \/ t[Len(t)][1] # "head")
      BY <1>4 DEF OnceAt
    <3> HIDE DEF h, b
    <3>2. HeaderCells(h) \in Seq(AnyCells)
      BY <2>2
    <3>. QED  BY <2>2, <2>6, <3>1, <3>2, LinedHeader
  <2>8. (m + 1) % 2 # 0
    BY <1>4
  <2> HIDE DEF h, u
  <2>9. {Id(h)} \in SUBSET Begun(c, m + 1) /\ {Id(h)} \cap Begun(c, m) = {}
    BY <2>4, <2>5
  <2>10. OnceAt(c, m + 1, u, w, d, I)
    BY <1>3, <2>7, <2>8, <2>9
  <2>. QED  BY <2>10 DEF u
<1>5. CASE m % 2 # 0
  <2> DEFINE i == (m + 1) \div 2
  <2>1. i \in Nat \ {0} /\ m + 1 = 2 * i /\ i \in 1..Count(c)
    <3>1. i \in Nat \ {0} /\ m + 1 = 2 * i
      BY <1>5
    <3> HIDE DEF i
    <3>. QED  BY <3>1
  <2> HIDE DEF i
  <2>2. b = BodyAt(c, i)
    BY <2>1, MessageAt
  <2>3. b # <<>> /\ b \in Seq(AnyCells) /\ (\A x \in DOMAIN b : b[x][1] # "head")
    <3>1. /\ BodyAt(c, i) # <<>> /\ BodyAt(c, i) \in Seq(Cells)
          /\ \A x \in 1..Len(BodyAt(c, i)) : BodyAt(c, i)[x][1] = "byte"
      BY <1>5, <2>1, FirstByte, ChunkAt DEF i
    <3>. QED  BY <1>2, <2>2, <3>1
  <2> HIDE DEF b
  <2>4. Lined(u) /\ Offered(u) \subseteq Offered(t)
    BY <2>3, LinedBytes DEF OnceAt
  <2>5. u[Len(u)][1] # "head"
    <3>1. u[Len(u)] = b[Len(b)] /\ Len(b) \in DOMAIN b
      BY <2>3, LastOfJoined
    <3>. QED  BY <2>3, <3>1
  <2> HIDE DEF u
  <2>6. /\ {} \in SUBSET Begun(c, m + 1) /\ {} \cap Begun(c, m) = {}
        /\ Offered(u) \subseteq Offered(t) \cup {}
    BY <2>4
  <2>7. OnceAt(c, m + 1, u, w, d, I)
    BY <1>3, <2>4, <2>5, <2>6
  <2>. QED  BY <2>7 DEF u, b
<1>. QED  BY <1>4, <1>5

(* What a receive leaves.                                                  *)
LEMMA OnceRest ==
  ASSUME NEW C, NEW c, NEW m, NEW t \in Seq(Sent(C)), NEW w, NEW d, NEW e, NEW I,
         OnceAt(c, m, t, w, d, I), NEW n \in Nat, NEW v, v \notin {"add", "create"}
  PROVE  OnceAt(c, m, Remaining(t, n), v, e, I)
<1> DEFINE r == Remaining(t, n)
<1>1. Lined(r) /\ Offered(r) \subseteq Offered(t)
  BY LinedRest DEF OnceAt
<1>2. m % 2 = 0 => r = <<>> \/ r[Len(r)][1] # "head"
  BY LastOfRest DEF OnceAt
<1> HIDE DEF r
<1>. QED  BY <1>1, <1>2 DEF OnceAt, r

LEMMA OnceRead ==
  ASSUME NEW C, C \subseteq Cmds, Closed(C), NEW c, NEW m, NEW t \in Seq(Sent(C)), NEW w, NEW b,
         NEW I, OnceAt(c, m, t, w, b, I), NEW n \in Nat, n >= 2, NEW old \in C, old.op # "put",
         NEW d, d = Parsed(old, Taken(t, n)), d.op = "put"
  PROVE  OnceAt(c, m, Remaining(t, n), "add", d, I)
<1> DEFINE r == Remaining(t, n)
<1>1. OnceAt(c, m, r, "next", d, I)
  BY OnceRest
<1>2. PICK p \in OpCells(t) : p =< n /\ Id(d) = Id(t[p][2])
  BY CommandRead DEF OnceAt
<1>3. Id(d) \in Offered(t) /\ Id(d) \notin Offered(r)
  BY <1>2, LinedRest DEF OnceAt, Offered
<1> HIDE DEF r
<1>. QED  BY <1>1, <1>3 DEF OnceAt, r

LEMMA OnceCreated ==
  ASSUME NEW c, NEW m, NEW t, NEW d, NEW I, OnceAt(c, m, t, "create", d, I)
  PROVE  OnceAt(c, m, t, "body", d, I \cup {Id(d)})
BY DEF OnceAt

LEMMA OnceMoved ==
  ASSUME NEW c, NEW m, NEW t, NEW w, NEW d, NEW I, OnceAt(c, m, t, w, d, I), NEW v,
         v \in {"add", "create"} => w \in {"add", "create"}, NEW e, v \in {"add", "create"} => e = d
  PROVE  OnceAt(c, m, t, v, e, I)
BY DEF OnceAt

LEMMA OnceOther ==
  ASSUME NEW c, NEW m \in Nat, NEW t, NEW w, NEW d, NEW I, OnceAt(c, m, t, w, d, I), NEW id,
         id[2] # c.k
  PROVE  OnceAt(c, m, t, w, d, I \cup {id})
BY BegunMore DEF OnceAt

-----------------------------------------------------------------------------
(* What the steps of a worker do at server 0.                              *)
LEMMA FirstServer == 0 \in Servers
BY DEF Servers

LEMMA StoreTypes ==
  ASSUME Types, OriginInv
  PROVE  /\ cabinet[0] \in Seq(Full) /\ cabinet[0] \in Seq(Home)
         /\ file[0] \in Contents
         /\ \A k \in Clients : /\ nodes[k][0] \in Seq(Full) /\ toClient[k][0] \in Seq(Cells)
                               /\ wcmd[k][0] \in Good /\ wpc[k][0] \in Places
                               /\ disturbed[k][0] \in BOOLEAN
BY Tables, FirstServer DEF OriginInv, StoreOrigin

LEMMA ReceivesDoes ==
  ASSUME IInv, OriginInv, NEW k \in Clients, NEW n, ServerReceives(k, 0, n)
  PROVE  /\ toServer[k][0] # <<>> \/ ClientEnded(k)
         /\ toServer'[k][0] = Remaining(toServer[k][0], n)
         /\ toClient' = toClient
         /\ ~disturbed'[k][0] => ~disturbed[k][0]
BY FirstServer, ReceivesAt DEF IInv, ReplacedBy

LEMMA ReceiveFirstDoes ==
  ASSUME IInv, OriginInv, NEW k \in Clients, ReceiveFirst(k, 0)
  PROVE  /\ UNCHANGED <<cabinet, file, nodes, toClient>>
         /\ toServer[k][0] # <<>> \/ ClientEnded(k)
         /\ toServer'[k][0] = Remaining(toServer[k][0], 2 * HdrLen)
         /\ wcmd'[k][0] = Parsed(wcmd[k][0], Taken(toServer[k][0], 2 * HdrLen))
         /\ wpc[k][0] = "first"
         /\ \/ wcmd'[k][0].op = "put" /\ wpc'[k][0] = "add"
            \/ wcmd'[k][0].op = "get" /\ wpc'[k][0] = "find"
            \/ wcmd'[k][0].op = "" /\ wpc'[k][0] = "closed"
         /\ ~disturbed'[k][0] => ~disturbed[k][0]
<1>1. /\ UNCHANGED <<cabinet, file, nodes>> /\ ServerReceives(k, 0, 2 * HdrLen)
      /\ wcmd' = [wcmd EXCEPT ![k][0] = Parsed(wcmd[k][0], Taken(toServer[k][0], 2 * HdrLen))]
      /\ wpc[k][0] = "first"
      /\ \/ wcmd'[k][0].op = "put" /\ Step(k, 0, "first", "add")
         \/ wcmd'[k][0].op = "get" /\ Step(k, 0, "first", "find")
         \/ wcmd'[k][0].op = "" /\ Step(k, 0, "first", "closed")
  BY DEF ReceiveFirst
<1>2. wcmd'[k][0] = Parsed(wcmd[k][0], Taken(toServer[k][0], 2 * HdrLen))
  BY <1>1, Tables, Entry, FirstServer DEF IInv, ReplacedBy
<1>3. \A m : Step(k, 0, "first", m) => wpc'[k][0] = m
  BY StepTo, FirstServer DEF IInv, ReplacedBy
<1>. QED  BY <1>1, <1>2, <1>3, ReceivesDoes

LEMMA ReceiveNextDoes ==
  ASSUME IInv, OriginInv, NEW k \in Clients, ReceiveNext(k, 0)
  PROVE  /\ UNCHANGED <<cabinet, file, nodes, toClient>>
         /\ toServer[k][0] # <<>> \/ ClientEnded(k)
         /\ toServer'[k][0] = Remaining(toServer[k][0], HdrLen)
         /\ wcmd'[k][0] = Parsed([wcmd[k][0] EXCEPT !.op = ""], Taken(toServer[k][0], HdrLen))
         /\ wpc[k][0] = "next"
         /\ \/ wcmd'[k][0].op = "put" /\ wpc'[k][0] = "add"
            \/ wcmd'[k][0].op # "put" /\ wpc'[k][0] = "closed"
         /\ ~disturbed'[k][0] => ~disturbed[k][0]
<1>1. /\ UNCHANGED <<cabinet, file, nodes>> /\ ServerReceives(k, 0, HdrLen)
      /\ wcmd' = [wcmd EXCEPT ![k][0] =
                    Parsed([wcmd[k][0] EXCEPT !.op = ""], Taken(toServer[k][0], HdrLen))]
      /\ wpc[k][0] = "next"
      /\ \/ wcmd'[k][0].op = "put" /\ Step(k, 0, "next", "add")
         \/ wcmd'[k][0].op # "put" /\ Step(k, 0, "next", "closed")
  BY DEF ReceiveNext
<1>2. wcmd'[k][0] = Parsed([wcmd[k][0] EXCEPT !.op = ""], Taken(toServer[k][0], HdrLen))
  BY <1>1, Tables, Entry, FirstServer DEF IInv, ReplacedBy
<1>3. \A m : Step(k, 0, "next", m) => wpc'[k][0] = m
  BY StepTo, FirstServer DEF IInv, ReplacedBy
<1>. QED  BY <1>1, <1>2, <1>3, ReceivesDoes

LEMMA AddNodeDoes ==
  ASSUME IInv, OriginInv, NEW k \in Clients, AddNode(k, 0)
  PROVE  /\ UNCHANGED <<file, wcmd, nodes, toServer, toClient, disturbed>>
         /\ wpc[k][0] = "add" /\ wpc'[k][0] = "create"
         /\ CanWrite(0, wcmd[k][0].name)
         /\ cabinet'[0] = Append(cabinet[0], [wcmd[k][0] EXCEPT !.op = "get"])
<1>1. /\ UNCHANGED <<file, wcmd, nodes, toServer, toClient, disturbed>>
      /\ Step(k, 0, "add", "create") /\ CanWrite(0, wcmd[k][0].name)
      /\ cabinet' = [cabinet EXCEPT ![0] = Append(cabinet[0], [wcmd[k][0] EXCEPT !.op = "get"])]
  BY DEF AddNode, net
<1>2. cabinet \in [Servers -> Seq(Full)]
  BY Tables DEF IInv
<1>. QED  BY <1>1, <1>2, StepTo, FirstServer DEF IInv, ReplacedBy

LEMMA CreateChunkDoes ==
  ASSUME IInv, OriginInv, NEW k \in Clients, CreateChunk(k, 0)
  PROVE  /\ UNCHANGED <<cabinet, wcmd, nodes, toServer, toClient, disturbed>>
         /\ wpc[k][0] = "create" /\ wpc'[k][0] = "body"
         /\ CanWrite(0, wcmd[k][0].name)
         /\ DOMAIN file'[0] = DOMAIN file[0] \cup {Id(wcmd[k][0])}
         /\ file'[0][Id(wcmd[k][0])] = <<>>
         /\ \A x \in DOMAIN file[0] : x # Id(wcmd[k][0]) => file'[0][x] = file[0][x]
<1> DEFINE id == Id(wcmd[k][0])
           g == [x \in DOMAIN file[0] \cup {id} |-> IF x = id THEN <<>> ELSE file[0][x]]
<1>1. /\ UNCHANGED <<cabinet, wcmd, nodes, toServer, toClient, disturbed>>
      /\ Step(k, 0, "create", "body") /\ CanWrite(0, wcmd[k][0].name)
      /\ file' = [file EXCEPT ![0] = g]
  BY DEF CreateChunk, net
<1>2. file \in [Servers -> Contents]
  BY Tables DEF IInv
<1>3. file'[0] = g
  BY <1>1, <1>2, FirstServer
<1>4. wpc[k][0] = "create" /\ wpc'[k][0] = "body"
  BY <1>1, StepTo, FirstServer DEF IInv, ReplacedBy
<1>5. /\ DOMAIN g = DOMAIN file[0] \cup {id} /\ g[id] = <<>>
      /\ \A x \in DOMAIN file[0] : x # id => g[x] = file[0][x]
  OBVIOUS
<1> HIDE DEF g, id
<1>. QED  BY <1>1, <1>3, <1>4, <1>5 DEF id

LEMMA ReceiveBodyDoes ==
  ASSUME IInv, OriginInv, NEW k \in Clients, ReceiveBody(k, 0)
  PROVE  LET id == Id(wcmd[k][0])
             n == Value(wcmd[k][0].size) - Len(file[0][id])
         IN
         /\ UNCHANGED <<cabinet, wcmd, nodes, toClient>>
         /\ wpc[k][0] \in {"body", "rest"} /\ wpc'[k][0] \in {"rest", "next"}
         /\ n \in Nat /\ id \in DOMAIN file[0]
         /\ toServer'[k][0] = Remaining(toServer[k][0], n)
         /\ DOMAIN file'[0] = DOMAIN file[0]
         /\ file'[0][id] = file[0][id] \o Taken(toServer[k][0], n)
         /\ \A x \in DOMAIN file[0] : x # id => file'[0][x] = file[0][x]
         /\ ~disturbed'[k][0] => ~disturbed[k][0]
<1> DEFINE d == wcmd[k][0]
           id == Id(d)
           f == file[0]
           n == Value(d.size) - Len(f[id])
           data == f[id] \o Taken(toServer[k][0], n)
<1>1. /\ UNCHANGED <<cabinet, wcmd, nodes>> /\ ServerReceives(k, 0, n)
      /\ wpc[k][0] \in {"body", "rest"}
      /\ file' = [file EXCEPT ![0][id] = data]
      /\ Step(k, 0, "body", "rest") \/ Step(k, 0, "body", "next") \/ Step(k, 0, "rest", "next")
  BY DEF ReceiveBody
<1>2. file \in [Servers -> Contents] /\ d \in Good
  BY Tables, StoreTypes DEF IInv
<1>3. FileAt(k, 0)
  BY FirstServer DEF IInv, FileInv
<1>4. id \in DOMAIN f /\ (f[id] = <<>> \/ Len(f[id]) =< Value(d.size))
  BY <1>1, <1>3 DEF FileAt
<1>5. n \in Nat
  <2>1. f[id] \in Seq(Cells)
    BY <1>2, <1>4, FirstServer DEF Contents
  <2>2. Len(f[id]) \in Nat
    BY <2>1
  <2>3. Value(d.size) \in Nat
    <3>1. d.size \in Sizes
      BY <1>2 DEF Good, Cmds
    <3>. QED  BY <3>1, ValueType
  <2>4. f[id] = <<>> => Len(f[id]) = 0
    OBVIOUS
  <2> DEFINE x == Len(f[id])
             y == Value(d.size)
  <2>5. x \in Nat /\ y \in Nat /\ x =< y
    BY <1>4, <2>2, <2>3, <2>4
  <2> HIDE DEF x, y
  <2>6. y - x \in Nat
    BY <2>5
  <2>. QED  BY <2>6 DEF x, y
<1>6. wpc'[k][0] \in {"rest", "next"}
  BY <1>1, StepTo, FirstServer DEF IInv, ReplacedBy
<1>7. file'[0] = [f EXCEPT ![id] = data]
  <2> HIDE DEF data, id
  <2>. QED  BY <1>1, <1>2, FirstServer
<1>8. /\ DOMAIN file'[0] = DOMAIN f /\ file'[0][id] = data
      /\ \A x \in DOMAIN f : x # id => file'[0][x] = f[x]
  <2> HIDE DEF data, id
  <2>. QED  BY <1>4, <1>7
<1>9. /\ toServer'[k][0] = Remaining(toServer[k][0], n) /\ toClient' = toClient
      /\ ~disturbed'[k][0] => ~disturbed[k][0]
  BY <1>1, ReceivesDoes
<1>. QED  BY <1>1, <1>4, <1>5, <1>6, <1>8, <1>9

LEMMA FindDoes ==
  ASSUME IInv, OriginInv, NEW k \in Clients, Find(k, 0)
  PROVE  LET found == {i \in DOMAIN cabinet[0] : cabinet[0][i].name = wcmd[k][0].name}
             first == NewestOf(cabinet[0], found)
             others == {i \in found : cabinet[0][i].chunk # first.chunk}
         IN
         /\ UNCHANGED <<cabinet, file, wcmd, toServer, toClient, disturbed>>
         /\ wpc[k][0] = "find"
         /\ \/ /\ wpc'[k][0] = "send" /\ found # {} /\ others # {}
               /\ nodes'[k][0] = <<first, NewestOf(cabinet[0], others)>>
            \/ wpc'[k][0] = "closed" /\ (found = {} \/ others = {}) /\ nodes' = nodes
<1> DEFINE found == {i \in DOMAIN cabinet[0] : cabinet[0][i].name = wcmd[k][0].name}
           first == NewestOf(cabinet[0], found)
           others == {i \in found : cabinet[0][i].chunk # first.chunk}
           second == NewestOf(cabinet[0], others)
<1>1. /\ UNCHANGED <<cabinet, file, wcmd, toServer, toClient, disturbed>>
      /\ \/ /\ found # {} /\ others # {} /\ Step(k, 0, "find", "send")
            /\ nodes' = [nodes EXCEPT ![k][0] = <<first, second>>]
         \/ (found = {} \/ others = {}) /\ Step(k, 0, "find", "closed") /\ nodes' = nodes
  BY DEF Find, net
<1> HIDE DEF found, first, others, second
<1>2. nodes' = [nodes EXCEPT ![k][0] = <<first, second>>] => nodes'[k][0] = <<first, second>>
  BY Tables, Entry, FirstServer DEF IInv, ReplacedBy
<1>3. \A m : Step(k, 0, "find", m) => wpc[k][0] = "find" /\ wpc'[k][0] = m
  BY StepTo, FirstServer DEF IInv, ReplacedBy
<1>4. /\ UNCHANGED <<cabinet, file, wcmd, toServer, toClient, disturbed>>
      /\ wpc[k][0] = "find"
      /\ \/ /\ wpc'[k][0] = "send" /\ found # {} /\ others # {}
            /\ nodes'[k][0] = <<first, second>>
         \/ wpc'[k][0] = "closed" /\ (found = {} \/ others = {}) /\ nodes' = nodes
  BY <1>1, <1>2, <1>3
<1>. QED  BY <1>4 DEF found, first, others, second

LEMMA NodeSentDoes ==
  ASSUME IInv, OriginInv, NEW k \in Clients, NEW l, NodeSent(k, 0, l)
  PROVE  /\ wpc[k][0] = l /\ nodes'[k][0] = Tail(nodes[k][0])
         /\ wpc'[k][0] \in {"send", "closed"}
<1>1. nodes' = [nodes EXCEPT ![k][0] = Tail(nodes[k][0])]
      /\ (Step(k, 0, l, "closed") \/ Step(k, 0, l, "send"))
  BY DEF NodeSent
<1>2. nodes'[k][0] = Tail(nodes[k][0])
  BY <1>1, Tables, Entry, FirstServer DEF IInv, ReplacedBy
<1>3. \A m : Step(k, 0, l, m) => wpc[k][0] = l /\ wpc'[k][0] = m
  BY StepTo, FirstServer DEF IInv, ReplacedBy
<1>. QED  BY <1>1, <1>2, <1>3

LEMMA SendsDoes ==
  ASSUME IInv, OriginInv, NEW k \in Clients, NEW cells, ServerSends(k, 0, cells)
  PROVE  toServer' = toServer /\ toClient'[k][0] = toClient[k][0] \o cells
BY Tables, Entry, FirstServer DEF IInv, ServerSends, ReplacedBy

LEMMA SendHeaderDoes ==
  ASSUME IInv, OriginInv, NEW k \in Clients, SendHeader(k, 0)
  PROVE  LET n == nodes[k][0][1] IN
         /\ UNCHANGED <<cabinet, file, toServer>>
         /\ wpc[k][0] = "send" /\ CanRead(0, n.name)
         /\ wcmd'[k][0] = Fields(wcmd[k][0], n)
         /\ toClient'[k][0] = toClient[k][0] \o HeaderCells(wcmd'[k][0])
         /\ \/ /\ Id(n) \in DOMAIN file[0] /\ wpc'[k][0] = "sendbody"
               /\ UNCHANGED <<nodes, disturbed>>
            \/ /\ nodes'[k][0] = Tail(nodes[k][0]) /\ wpc'[k][0] \in {"send", "closed"}
               /\ disturbed'[k][0]
<1> DEFINE n == nodes[k][0][1]
<1>1. /\ UNCHANGED <<cabinet, file>> /\ wpc[k][0] = "send" /\ CanRead(0, n.name)
      /\ wcmd' = [wcmd EXCEPT ![k][0] = Fields(wcmd[k][0], n)]
      /\ ServerSends(k, 0, HeaderCells(wcmd'[k][0]))
      /\ \/ /\ Id(n) \in DOMAIN file[0] /\ Step(k, 0, "send", "sendbody")
            /\ UNCHANGED <<nodes, disturbed>>
         \/ /\ NodeSent(k, 0, "send") /\ disturbed' = [disturbed EXCEPT ![k][0] = TRUE]
  BY DEF SendHeader
<1>2. wcmd'[k][0] = Fields(wcmd[k][0], n)
  <2> HIDE DEF n
  <2>. QED  BY <1>1, Tables, Entry, FirstServer DEF IInv, ReplacedBy
<1>3. disturbed' = [disturbed EXCEPT ![k][0] = TRUE] => disturbed'[k][0]
  BY Tables, Entry, FirstServer DEF IInv, ReplacedBy
<1>4. \A m : Step(k, 0, "send", m) => wpc'[k][0] = m
  BY StepTo, FirstServer DEF IInv, ReplacedBy
<1>5. toServer' = toServer /\ toClient'[k][0] = toClient[k][0] \o HeaderCells(wcmd'[k][0])
  BY <1>1, SendsDoes
<1>. QED  BY <1>1, <1>2, <1>3, <1>4, <1>5, NodeSentDoes

LEMMA SendBodyDoes ==
  ASSUME IInv, OriginInv, NEW k \in Clients, SendBody(k, 0)
  PROVE  LET content == file[0][Id(nodes[k][0][1])] IN
         /\ UNCHANGED <<cabinet, file, wcmd, toServer>>
         /\ wpc[k][0] = "sendbody" /\ wpc'[k][0] \in {"send", "closed"}
         /\ nodes'[k][0] = Tail(nodes[k][0])
         /\ toClient'[k][0] = toClient[k][0] \o Block(content)
         /\ ~disturbed'[k][0] => ~disturbed[k][0] /\ content # <<>>
<1> DEFINE content == file[0][Id(nodes[k][0][1])]
           b == disturbed[k][0] \/ content = <<>>
<1>1. /\ UNCHANGED <<cabinet, file, wcmd>> /\ NodeSent(k, 0, "sendbody")
      /\ ServerSends(k, 0, Block(content)) /\ disturbed' = [disturbed EXCEPT ![k][0] = b]
  BY DEF SendBody
<1>2. disturbed'[k][0] = b
  <2> HIDE DEF b
  <2>. QED  BY <1>1, Tables, Entry, FirstServer DEF IInv, ReplacedBy
<1>3. ~disturbed'[k][0] => ~disturbed[k][0] /\ content # <<>>
  BY <1>2
<1> HIDE DEF content, b
<1>4. toServer' = toServer /\ toClient'[k][0] = toClient[k][0] \o Block(content)
  BY <1>1, SendsDoes
<1>5. /\ wpc[k][0] = "sendbody" /\ nodes'[k][0] = Tail(nodes[k][0])
      /\ wpc'[k][0] \in {"send", "closed"}
  BY <1>1, NodeSentDoes
<1>. QED  BY <1>1, <1>3, <1>4, <1>5 DEF content

-----------------------------------------------------------------------------
(* Every put to server 0 gives each chunk once.                            *)
PutsTo0(k) == cmd[k].op = "put" /\ 0 \in Range(cmd[k].servers)

Once(k) ==
  PutsTo0(k) =>
    OnceAt(Connection(k, 0), SentTo(k, 0), toServer[k][0], wpc[k][0], wcmd[k][0], DOMAIN file[0])

OnceInv == \A k \in Clients : Once(k)

LEMMA PutWorker ==
  ASSUME IInv, OriginInv, TrackInv, NEW k \in Clients,
         wpc[k][0] \in {"add", "create", "body", "rest"}
  PROVE  /\ PutsTo0(k) /\ wcmd[k][0] \in Full /\ wcmd[k][0].op = "put" /\ wcmd[k][0].ver = k
         /\ wcmd[k][0].name \in Range(cmd[k].files)
         /\ Len(wcmd[k][0].size) =< 2 /\ wcmd[k][0] \in Owned(k, 0)
         /\ toServer[k][0] \in Seq(Sent(Owned(k, 0)))
<1>1. wcmd[k][0] \in Full
  BY FirstServer DEF IInv, ConnectionInv, AtServer, WorkerAt, PutPlaces
<1>2. wcmd[k][0].op = "put" /\ Track(k, 0)
  BY FirstServer, TrackOf DEF OpAt
<1>3. wcmd[k][0] \in Owned(k, 0) /\ toServer[k][0] \in Seq(Sent(Owned(k, 0)))
  BY FirstServer, OriginOf
<1>4. cmd[k].op = "put"
  BY <1>2, <1>3 DEF Owned, Answered
<1>5. 0 \in Range(cmd[k].servers)
  BY <1>2, <1>4 DEF Track
<1>6. wcmd[k][0].ver = k /\ wcmd[k][0].name \in Range(cmd[k].files) /\ Len(wcmd[k][0].size) =< 2
  BY <1>1, <1>3, <1>4 DEF Owned
<1>. QED  BY <1>1, <1>2, <1>3, <1>4, <1>5, <1>6 DEF PutsTo0

(* What is left to prove of a step of a worker at server 0.                *)
LEMMA WorkerOnce ==
  ASSUME IInv, OriginInv, TrackInv, OnceInv, NEW k \in Clients, Worker(k, 0),
         \/ DOMAIN file'[0] = DOMAIN file[0]
         \/ \E id : id[2] = k /\ DOMAIN file'[0] = DOMAIN file[0] \cup {id},
         PutsTo0(k) =>
           OnceAt(Connection(k, 0), SentTo(k, 0), toServer'[k][0], wpc'[k][0], wcmd'[k][0],
                  DOMAIN file'[0])
  PROVE  OnceInv'
<1>1. Quiet(k, 0)
  BY FirstServer, WorkerIsQuiet DEF IInv
<1>2. cmd' = cmd /\ sent' = sent
  BY <1>1 DEF Quiet, ofClient
<1>3. ASSUME NEW j \in Clients PROVE Once(j)'
  <2>1. /\ (PutsTo0(j))' <=> PutsTo0(j)
        /\ Connection(j, 0)' = Connection(j, 0) /\ SentTo(j, 0)' = SentTo(j, 0)
    BY <1>2 DEF PutsTo0, Connection, SentTo
  <2>2. CASE j = k
    BY <2>1, <2>2 DEF Once
  <2>3. CASE j # k
    <3> SUFFICES ASSUME PutsTo0(j)
                 PROVE  OnceAt(Connection(j, 0), SentTo(j, 0), toServer'[j][0], wpc'[j][0],
                               wcmd'[j][0], DOMAIN file'[0])
      BY <2>1 DEF Once
    <3>1. wpc'[j][0] = wpc[j][0] /\ wcmd'[j][0] = wcmd[j][0] /\ toServer'[j][0] = toServer[j][0]
      BY <1>1, <2>3, FirstServer DEF Quiet, Elsewhere
    <3>2. OnceAt(Connection(j, 0), SentTo(j, 0), toServer[j][0], wpc[j][0], wcmd[j][0],
                 DOMAIN file[0])
      BY DEF OnceInv, Once
    <3>3. SentTo(j, 0) \in Nat /\ Connection(j, 0).k = j
      BY SentNow, FirstServer, ConnectionIsPut DEF IInv, PutsTo0
    <3>4. CASE DOMAIN file'[0] = DOMAIN file[0]
      BY <3>1, <3>2, <3>4
    <3>5. CASE \E id : id[2] = k /\ DOMAIN file'[0] = DOMAIN file[0] \cup {id}
      <4>1. PICK id : id[2] = k /\ DOMAIN file'[0] = DOMAIN file[0] \cup {id}
        BY <3>5
      <4>2. id[2] # Connection(j, 0).k
        BY <2>3, <3>3, <4>1
      <4>3. OnceAt(Connection(j, 0), SentTo(j, 0), toServer[j][0], wpc[j][0], wcmd[j][0],
                   DOMAIN file[0] \cup {id})
        BY <3>2, <3>3, <4>2, OnceOther
      <4>. QED  BY <3>1, <4>1, <4>3
    <3>. QED  BY <3>4, <3>5
  <2>. QED  BY <2>2, <2>3
<1>. QED  BY <1>3 DEF OnceInv

LEMMA LimitsAreTwo == HdrLen \in Nat /\ 2 * HdrLen \in Nat /\ HdrLen >= 2 /\ 2 * HdrLen >= 2
BY DfsAssumption

LEMMA ReceiverOnce ==
  ASSUME IInv, OriginInv, TrackInv, OnceInv, NEW k \in Clients,
         ReceiveFirst(k, 0) \/ ReceiveNext(k, 0), Worker(k, 0)
  PROVE  OnceInv'
<1> DEFINE c == Connection(k, 0)
           m == SentTo(k, 0)
           t == toServer[k][0]
           w == wpc[k][0]
           d == wcmd[k][0]
           I == DOMAIN file[0]
           C == Owned(k, 0)
<1>1. C \subseteq Cmds /\ Closed(C) /\ d \in C /\ t \in Seq(Sent(C))
      /\ [d EXCEPT !.op = ""] \in C
  BY OwnedClosed, OriginOf, FirstServer
<1>2. w = "first" => d = Blank /\ d.op # "put"
  <2>1. w = "first" => d = Blank
    BY FirstServer DEF IInv, ConnectionInv, AtServer, WorkerAt
  <2>. QED  BY <2>1, BlankIsGood
<1>3. d \in Cmds
  BY <1>1
<1>4. [d EXCEPT !.op = ""].op # "put"
  BY <1>3, OpOf DEF Ops
<1>5. PICK n \in Nat, old \in C :
        /\ n >= 2 /\ old.op # "put"
        /\ toServer'[k][0] = Remaining(t, n) /\ wcmd'[k][0] = Parsed(old, Taken(t, n))
        /\ (wcmd'[k][0].op = "put" /\ wpc'[k][0] = "add") \/ wpc'[k][0] \in {"find", "closed"}
        /\ file' = file
  <2>1. CASE ReceiveFirst(k, 0)
    BY <1>1, <1>2, <2>1, ReceiveFirstDoes, LimitsAreTwo
  <2>2. CASE ReceiveNext(k, 0)
    BY <1>1, <1>4, <2>2, ReceiveNextDoes, LimitsAreTwo
  <2>. QED  BY <2>1, <2>2
<1>6. ASSUME PutsTo0(k)
      PROVE  OnceAt(c, m, toServer'[k][0], wpc'[k][0], wcmd'[k][0], DOMAIN file'[0])
  <2>1. OnceAt(c, m, t, w, d, I)
    BY <1>6 DEF OnceInv, Once
  <2> HIDE DEF c, m, t, w, d, I, C
  <2>2. CASE wcmd'[k][0].op = "put" /\ wpc'[k][0] = "add"
    BY <1>1, <1>5, <2>1, <2>2, OnceRead DEF I
  <2>3. CASE wpc'[k][0] \in {"find", "closed"}
    <3>1. wpc'[k][0] \notin {"add", "create"}
      BY <2>3
    <3>2. OnceAt(c, m, Remaining(t, n), wpc'[k][0], wcmd'[k][0], I)
      BY <1>1, <2>1, <3>1, OnceRest
    <3>. QED  BY <1>5, <3>2 DEF I
  <2>. QED  BY <1>5, <2>2, <2>3
<1>. QED  BY <1>5, <1>6, WorkerOnce

LEMMA WorkerKeepsOnce ==
  ASSUME IInv, OriginInv, TrackInv, OnceInv, NEW k \in Clients, Worker(k, 0)
  PROVE  OnceInv'
<1> DEFINE At(t, w, d, I) == OnceAt(Connection(k, 0), SentTo(k, 0), t, w, d, I)
<1>1. PutsTo0(k) => At(toServer[k][0], wpc[k][0], wcmd[k][0], DOMAIN file[0])
  BY DEF OnceInv, Once
<1>2. CASE Wait(k, 0)
  <2>1. UNCHANGED <<file, wpc, wcmd, toServer>>
    BY <1>2 DEF Wait, net
  <2>. QED  BY <1>1, <2>1, WorkerOnce
<1>3. CASE ReceiveFirst(k, 0) \/ ReceiveNext(k, 0)
  BY <1>3, ReceiverOnce
<1>4. CASE AddNode(k, 0)
  <2>1. /\ UNCHANGED <<file, wcmd, toServer>> /\ wpc[k][0] = "add" /\ wpc'[k][0] = "create"
    BY <1>4, AddNodeDoes
  <2>2. PutsTo0(k) => At(toServer[k][0], "create", wcmd[k][0], DOMAIN file[0])
    BY <1>1, <2>1, OnceMoved
  <2> HIDE DEF At
  <2>3. PutsTo0(k) => At(toServer'[k][0], wpc'[k][0], wcmd'[k][0], DOMAIN file'[0])
    BY <2>1, <2>2
  <2>. QED  BY <2>1, <2>3, WorkerOnce DEF At
<1>5. CASE CreateChunk(k, 0)
  <2>1. /\ UNCHANGED <<wcmd, toServer>> /\ wpc[k][0] = "create" /\ wpc'[k][0] = "body"
        /\ DOMAIN file'[0] = DOMAIN file[0] \cup {Id(wcmd[k][0])}
    BY <1>5, CreateChunkDoes
  <2>2. Id(wcmd[k][0])[2] = k
    BY <2>1, PutWorker DEF Id
  <2>3. PutsTo0(k) => At(toServer[k][0], "body", wcmd[k][0], DOMAIN file[0] \cup {Id(wcmd[k][0])})
    BY <1>1, <2>1, OnceCreated
  <2> HIDE DEF At
  <2>4. PutsTo0(k) => At(toServer'[k][0], wpc'[k][0], wcmd'[k][0], DOMAIN file'[0])
    BY <2>1, <2>3
  <2>. QED  BY <2>1, <2>2, <2>4, WorkerOnce DEF At
<1>6. CASE ReceiveBody(k, 0)
  <2> DEFINE n == Value(wcmd[k][0].size) - Len(file[0][Id(wcmd[k][0])])
  <2>1. /\ wcmd' = wcmd /\ wpc'[k][0] \in {"rest", "next"} /\ n \in Nat
        /\ toServer'[k][0] = Remaining(toServer[k][0], n) /\ DOMAIN file'[0] = DOMAIN file[0]
    BY <1>6, ReceiveBodyDoes
  <2>2. toServer[k][0] \in Seq(Sent(Owned(k, 0))) /\ wpc'[k][0] \notin {"add", "create"}
    BY <2>1, OriginOf, FirstServer
  <2> HIDE DEF n
  <2>3. PutsTo0(k) => At(Remaining(toServer[k][0], n), wpc'[k][0], wcmd[k][0], DOMAIN file[0])
    BY <1>1, <2>1, <2>2, OnceRest
  <2> HIDE DEF At
  <2>4. PutsTo0(k) => At(toServer'[k][0], wpc'[k][0], wcmd'[k][0], DOMAIN file'[0])
    BY <2>1, <2>3
  <2>. QED  BY <2>1, <2>4, WorkerOnce DEF At
<1>7. CASE Find(k, 0) \/ SendHeader(k, 0) \/ SendBody(k, 0)
  <2>1. wpc[k][0] \in {"find", "send", "sendbody"} /\ file' = file
    BY <1>7 DEF Find, SendHeader, SendBody
  <2>2. ~PutsTo0(k)
    BY <2>1, FirstServer, AnsweredOnly DEF Answered, PutsTo0
  <2>. QED  BY <2>1, <2>2, WorkerOnce
<1>. QED  BY <1>2, <1>3, <1>4, <1>5, <1>6, <1>7 DEF Worker

(* The other steps.                                                        *)
LEMMA ClientKeepsOnce ==
  ASSUME IInv, OriginInv, TrackInv, OnceInv, NEW k \in Clients, Client(k)
  PROVE  OnceInv'
<1>1. QuietClient(k)
  BY ClientIsQuiet DEF IInv
<1>2. cmd' = cmd /\ wcmd' = wcmd /\ file' = file
  BY <1>1 DEF QuietClient
<1>3. ASSUME NEW j \in Clients, j # k PROVE Once(j)'
  <2>1. sent'[j] = sent[j] /\ wpc'[j] = wpc[j] /\ toServer'[j] = toServer[j]
    BY <1>1, <1>3 DEF QuietClient, Alone
  <2>2. /\ (PutsTo0(j))' <=> PutsTo0(j)
        /\ Connection(j, 0)' = Connection(j, 0) /\ SentTo(j, 0)' = SentTo(j, 0)
    BY <1>2, <2>1 DEF PutsTo0, Connection, SentTo
  <2>. QED  BY <1>2, <2>1, <2>2 DEF OnceInv, Once
<1>4. Once(k)'
  <2> SUFFICES ASSUME PutsTo0(k)
               PROVE  OnceAt(Connection(k, 0), SentTo(k, 0)', toServer'[k][0], wpc'[k][0],
                             wcmd[k][0], DOMAIN file[0])
    BY <1>2 DEF Once, PutsTo0, Connection
  <2> DEFINE c == Connection(k, 0)
             m == SentTo(k, 0)
             t == toServer[k][0]
             w == wpc[k][0]
             d == wcmd[k][0]
             I == DOMAIN file[0]
  <2>1. OnceAt(c, m, t, w, d, I)
    BY DEF OnceInv, Once
  <2>2. cmd[k].op = "put" /\ 0 \in Range(cmd[k].servers)
    BY DEF PutsTo0
  <2>3. CASE Connect(k) \/ Refuse(k)
    <3>1. sent' = sent /\ toServer' = toServer
      BY <2>3 DEF Connect, Refuse, net
    <3>2. SentTo(k, 0)' = m
      BY <1>2, <3>1 DEF SentTo
    <3>3. wpc'[k][0] \notin {"add", "create"} \/ wpc'[k][0] = w
      <4>1. CASE Refuse(k)
        BY <4>1 DEF Refuse, ofServer
      <4>2. CASE Connect(k)
        <5>1. wpc' = [wpc EXCEPT ![k] =
                [s \in Servers |-> IF Contains(cmd[k].servers, s) THEN "first" ELSE "none"]]
          BY <4>2 DEF Connect
        <5>2. wpc'[k][0] \in {"first", "none"}
          BY <5>1, FirstServer, Tables DEF IInv
        <5>. QED  BY <5>2
      <4>. QED  BY <2>3, <4>1, <4>2
    <3> HIDE DEF c, m, t, w, d, I
    <3>4. OnceAt(c, m, t, wpc'[k][0], d, I)
      <4>1. wpc'[k][0] \in {"add", "create"} => w \in {"add", "create"}
        BY <3>3
      <4>. QED  BY <2>1, <4>1, OnceMoved
    <3>. QED  BY <3>1, <3>2, <3>4 DEF c, m, t, w, d, I
  <2>4. CASE PutSend(k)
    <3> DEFINE o == ServerOf(k)
               n == sent[k]
               cells == IF n % 2 = 0 THEN HeaderCells(PutHeader(FileOf(k), k, ChunkOf(k)))
                        ELSE Body(FileOf(k), k, ChunkOf(k))
    <3>1. /\ pc[k] = "put" /\ wpc' = wpc
          /\ n % 2 = 0 \/ ChunkSize(FileOf(k), ChunkOf(k)) > 0
          /\ toServer' = [toServer EXCEPT ![k][o] = toServer[k][o] \o cells]
          /\ sent' = [sent EXCEPT ![k] = n + 1]
      BY <2>4 DEF PutSend, ClientSends, ofServer
    <3>2. sent \in [Clients -> Nat] /\ toServer \in [Clients -> [Servers -> Seq(AnyCells)]]
          /\ Types
      BY DEF IInv, Types, ClientTypes, ServerTypes
    <3>3. sent'[k] = n + 1 /\ o \in Servers /\ n \in Nat
      BY <3>1, <3>2, NextToSend
    <3>4. /\ toServer'[k][o] = toServer[k][o] \o cells
          /\ \A s \in Servers : s # o => toServer'[k][s] = toServer[k][s]
      BY <3>1, <3>2, <3>3, Replaced
    <3> HIDE DEF cells, o
    <3>5. /\ IsPut(c) /\ Count(c) = 2 * Len(cmd[k].files) /\ Len(cmd[k].files) \in Nat
          /\ Count(c) \in Nat /\ m \in Nat
      BY <2>2, <3>2, ConnectionIsPut, FirstServer, SentNow
    <3>6. /\ 0 = o => SentTo(k, 0)' = m + 1
          /\ 0 # o => SentTo(k, 0)' = m
          /\ 0 = o => m \div 4 = n \div PerFile(k) /\ m % 4 = n % 4
      BY <1>2, <2>2, <3>1, <3>3, SentLater DEF o
    <3>7. CASE o # 0
      <4>1. toServer'[k][0] = t
        BY <3>4, <3>7, FirstServer
      <4>. QED  BY <2>1, <3>1, <3>6, <3>7, <4>1
    <3>8. CASE o = 0
      <4>1. /\ n % 2 = 0 => Message(c, m + 1) = cells /\ m % 2 = 0
            /\ n % 2 # 0 => Message(c, m + 1) = cells /\ m % 2 # 0
                            /\ LengthAt(c, (m + 1) \div 2) > 0
        <5>1. /\ c = Connection(k, ServerOf(k)) /\ m = SentTo(k, ServerOf(k)) /\ m \in Nat
              /\ m \div 4 = sent[k] \div PerFile(k) /\ m % 4 = sent[k] % 4
          BY <3>5, <3>6, <3>8 DEF o
        <5> HIDE DEF c, m
        <5>2. /\ n % 2 = 0 =>
                   /\ Message(c, m + 1) = HeaderCells(PutHeader(FileOf(k), k, ChunkOf(k)))
                   /\ m % 2 = 0
              /\ n % 2 # 0 =>
                   /\ Message(c, m + 1) = Body(FileOf(k), k, ChunkOf(k))
                   /\ m % 2 # 0
                   /\ LengthAt(c, (m + 1) \div 2) = ChunkSize(FileOf(k), ChunkOf(k))
          BY <3>1, <5>1, MessageNow
        <5>. QED  BY <3>1, <5>2 DEF cells
      <4>2. m + 1 =< 2 * Count(c)
        <5> DEFINE a == Len(cmd[k].servers)
                   p == Position(cmd[k].servers, 0)
                   f == Len(cmd[k].files)
                   all == PerFile(k) * f
        <5>1. /\ SentTo(k, 0)' = SentAmong(a, p, n + 1) /\ all = 4 * a * f
              /\ m = SentAmong(a, p, n)
          BY <1>2, <3>3 DEF SentTo, PerFile
        <5>2. a \in {1, 2, 4} /\ p \in 1..a /\ f \in Nat
          BY <2>2, <3>2, <3>5, Positions
        <5>3. n < all /\ all \in Nat
          BY <2>2, <3>1, <3>2, NextToSend, PutNotEmpty
        <5>4. SentTo(k, 0)' = m + 1
          BY <3>6, <3>8
        <5> HIDE DEF a, p, f, m, all
        <5>5. /\ SentAmong(a, p, 4 * a * f) = 4 * f
              /\ \A x \in Nat : x < 4 * a * f => SentAmong(a, p, x) =< 4 * f
          BY <5>2, SentAll
        <5>6. n + 1 = all \/ (n + 1 < all /\ n + 1 \in Nat)
          BY <3>3, <5>3
        <5>7. SentAmong(a, p, n + 1) =< 4 * f
          <6>1. CASE n + 1 = all
            BY <5>1, <5>2, <5>5, <6>1
          <6>2. CASE n + 1 < all /\ n + 1 \in Nat
            BY <5>1, <5>5, <6>2
          <6>. QED  BY <5>6, <6>1, <6>2
        <5>8. 2 * Count(c) = 4 * f
          BY <3>5, <5>2 DEF f
        <5>. QED  BY <5>1, <5>4, <5>7, <5>8
      <4>3. t \in Seq(AnyCells)
        BY <3>2, FirstServer
      <4>4. m % 2 # 0 => LengthAt(c, (m + 1) \div 2) > 0
        <5>1. n % 2 = 0 \/ n % 2 # 0
          OBVIOUS
        <5>. QED  BY <4>1, <5>1
      <4> HIDE DEF c, m, t, w, d, I
      <4>5. OnceAt(c, m + 1, t \o Message(c, m + 1), w, d, I)
        BY <2>1, <3>5, <4>2, <4>3, <4>4, OnceSent
      <4>6. toServer'[k][0] = t \o Message(c, m + 1) /\ SentTo(k, 0)' = m + 1
        BY <3>4, <3>6, <3>8, <4>1 DEF t
      <4>. QED  BY <3>1, <4>5, <4>6 DEF c, w, d, I
    <3>. QED  BY <3>7, <3>8
  <2>5. CASE Ask(k) \/ ReceiveHeader(k) \/ ReceiveChunk(k) \/ ReceiveNextHeader(k)
    <3>1. pc[k] \in {"ask", "header", "body", "rest", "next"}
      BY <2>5 DEF Ask, ReceiveHeader, ReceiveChunk, ReceiveNextHeader, Goto
    <3>2. cmd[k].op = "get"
      BY <3>1 DEF IInv, ConnectionInv, AtClient
    <3>. QED  BY <2>2, <3>2
  <2>. QED  BY <2>3, <2>4, <2>5 DEF Client
<1>. QED  BY <1>3, <1>4 DEF OnceInv

(* Steps in which workers only end, or drawers are emptied.                *)
LEMMA EndingOnce ==
  ASSUME OnceInv, UNCHANGED <<cmd, sent>>, file'[0] = file[0],
         \A k \in Clients :
           /\ wcmd'[k][0] = wcmd[k][0] /\ toServer'[k][0] = toServer[k][0]
           /\ wpc'[k][0] = wpc[k][0] \/ wpc'[k][0] \in {"none", "closed"}
  PROVE  OnceInv'
<1>1. ASSUME NEW k \in Clients PROVE Once(k)'
  <2>1. /\ (PutsTo0(k))' <=> PutsTo0(k)
        /\ Connection(k, 0)' = Connection(k, 0) /\ SentTo(k, 0)' = SentTo(k, 0)
    BY DEF PutsTo0, Connection, SentTo
  <2>2. Once(k)
    BY DEF OnceInv
  <2>3. wpc'[k][0] \in {"add", "create"} => wpc[k][0] \in {"add", "create"}
    OBVIOUS
  <2>. QED  BY <2>1, <2>2, <2>3, OnceMoved DEF Once
<1>. QED  BY <1>1 DEF OnceInv

-----------------------------------------------------------------------------
(* Numbers of at most two digits.                                          *)
LEMMA ShortValue ==
  ASSUME NEW d \in Sizes, Len(d) =< 2
  PROVE  /\ Len(d) \in 0..2
         /\ Len(d) = 0 => d = <<>> /\ Value(d) = 0
         /\ Len(d) = 1 => Value(d) = d[1] /\ d[1] \in 0..Base - 1
         /\ Len(d) = 2 => /\ Value(d) = d[1] * Base + d[2]
                         /\ d[1] \in 0..Base - 1 /\ d[2] \in 0..Base - 1
<1> DEFINE n == Len(d)
<1>1. n \in Nat /\ DOMAIN d = 1..n /\ (n = 0 => d = <<>>) /\ \A j \in 1..n : d[j] \in 0..Base - 1
  <2>1. d \in Seq(0..Base - 1)
    BY DEF Sizes
  <2>2. n \in Nat /\ DOMAIN d = 1..n /\ (n = 0 => d = <<>>)
    BY <2>1
  <2>3. \A j \in 1..n : d[j] \in 0..Base - 1
    BY <2>1, ElementOfSeq
  <2>. QED  BY <2>2, <2>3
<1>2. PICK t : /\ t[0] = 0
               /\ \A j \in 1..n : t[j] = t[j - 1] * Base + d[j]
               /\ Value(d) = t[n]
  BY <1>1, ValueByDigits
<1>3. Base \in Nat /\ Base > 1
  BY DfsAssumption
<1>4. n >= 1 => t[1] = d[1]
  <2> SUFFICES ASSUME n >= 1 PROVE t[1] = d[1]
    OBVIOUS
  <2>1. 1 \in 1..n /\ 1 - 1 = 0
    BY <1>1
  <2>2. t[1] = t[0] * Base + d[1] /\ d[1] \in 0..Base - 1
    BY <1>1, <1>2, <2>1
  <2>3. 0 * Base = 0
    BY <1>3
  <2>. QED  BY <1>2, <1>3, <2>2, <2>3
<1>5. n = 2 => t[2] = d[1] * Base + d[2]
  <2> SUFFICES ASSUME n = 2 PROVE t[2] = d[1] * Base + d[2]
    OBVIOUS
  <2>1. 2 \in 1..n /\ 2 - 1 = 1
    OBVIOUS
  <2>2. t[2] = t[1] * Base + d[2]
    BY <1>2, <2>1
  <2>. QED  BY <1>4, <2>2
<1>6. n \in 0..2 /\ (n >= 1 => d[1] \in 0..Base - 1) /\ (n = 2 => d[2] \in 0..Base - 1)
  <2>1. n \in 0..2 /\ (n >= 1 => 1 \in 1..n) /\ (n = 2 => 2 \in 1..n)
    BY <1>1
  <2>. QED  BY <1>1, <2>1
<1> HIDE DEF n
<1>7. n = 0 => Value(d) = 0
  BY <1>2
<1>8. n = 1 => Value(d) = d[1] /\ d[1] \in 0..Base - 1
  BY <1>2, <1>4, <1>6
<1>9. n = 2 => /\ Value(d) = d[1] * Base + d[2]
               /\ d[1] \in 0..Base - 1 /\ d[2] \in 0..Base - 1
  BY <1>2, <1>5, <1>6
<1>. QED  BY <1>1, <1>6, <1>7, <1>8, <1>9 DEF n

LEMMA TwoDigits ==
  ASSUME NEW b \in Nat, b > 1, NEW x \in 0..b - 1, NEW y \in 0..b - 1
  PROVE  x * b + y \in Nat /\ x * b + y < b * b /\ x =< x * b + y /\ x < b * b
<1>1. x \in Nat /\ y \in Nat /\ x =< b - 1 /\ y =< b - 1
  OBVIOUS
<1>2. x * b \in Nat /\ x * b =< (b - 1) * b
  BY <1>1
<1>3. (b - 1) * b = b * b - b /\ b * b \in Nat
  OBVIOUS
<1>4. x =< x * b
  BY <1>1
<1> DEFINE p == x * b
           q == b * b
<1>5. p \in Nat /\ p =< q - b /\ q \in Nat /\ x =< p
  BY <1>2, <1>3, <1>4
<1> HIDE DEF p, q
<1>6. p + y \in Nat /\ p + y < q /\ x =< p + y /\ x < q
  BY <1>1, <1>5
<1>. QED  BY <1>6 DEF p, q

LEMMA ShortBound ==
  ASSUME NEW d \in Sizes, Len(d) =< 2
  PROVE  Value(d) \in Nat /\ Value(d) < Base * Base /\ Value(d) < 2 * HdrLen + 1
<1>1. Base \in Nat /\ Base > 1 /\ HdrLen \in Nat /\ Base * Base =< 2 * HdrLen
  BY DfsAssumption
<1>2. Value(d) \in Nat /\ Value(d) < Base * Base
  <2>1. CASE Len(d) = 0
    <3>1. Value(d) = 0
      BY <2>1, ShortValue
    <3>2. 0 < Base * Base
      BY <1>1
    <3>. QED  BY <3>1, <3>2
  <2>2. CASE Len(d) = 1
    <3>1. Value(d) = d[1] /\ d[1] \in 0..Base - 1
      BY <2>2, ShortValue
    <3>. QED  BY <1>1, <3>1, TwoDigits
  <2>3. CASE Len(d) = 2
    <3>1. Value(d) = d[1] * Base + d[2] /\ d[1] \in 0..Base - 1 /\ d[2] \in 0..Base - 1
      BY <2>3, ShortValue
    <3>. QED  BY <1>1, <3>1, TwoDigits
  <2>4. Len(d) \in 0..2
    BY ShortValue
  <2>. QED  BY <2>1, <2>2, <2>3, <2>4
<1> DEFINE v == Value(d)
           q == Base * Base
<1>3. v \in Nat /\ v < q /\ q =< 2 * HdrLen /\ q \in Nat
  BY <1>1, <1>2
<1> HIDE DEF v, q
<1>4. v < 2 * HdrLen + 1
  BY <1>1, <1>3
<1>. QED  BY <1>2, <1>4 DEF v

LEMMA OverwriteMore ==
  ASSUME NEW old \in Sizes, Len(old) =< 2, NEW new \in Sizes, Len(new) =< 2
  PROVE  Overwrite(old, new) \in Sizes /\ Len(Overwrite(old, new)) =< 2
         /\ Value(new) =< Value(Overwrite(old, new))
<1> DEFINE o == Overwrite(old, new)
<1>1. o \in Sizes /\ (Len(old) =< Len(new) => o = new)
      /\ (Len(old) = 2 /\ Len(new) = 1 => Len(o) = 2 /\ o[1] = new[1])
  BY OverwriteIs
<1>2. Len(old) \in 0..2 /\ Len(new) \in 0..2
  BY ShortValue
<1>3. Len(o) =< 2
  <2>1. old \in Seq(0..Base - 1) /\ new \in Seq(0..Base - 1)
    BY DEF Sizes
  <2>2. Len(new \o SubSeq(old, Len(new) + 1, Len(old))) =< 2
    BY <2>1
  <2>. QED  BY <2>2 DEF Overwrite
<1> HIDE DEF o
<1>4. Value(new) \in Nat /\ Value(o) \in Nat
  BY <1>1, <1>3, ShortBound
<1>5. CASE Len(old) =< Len(new)
  BY <1>1, <1>3, <1>4, <1>5 DEF o
<1>6. CASE Len(new) = 0
  <2>1. Value(new) = 0
    BY <1>6, ShortValue
  <2>. QED  BY <1>1, <1>3, <1>4, <2>1 DEF o
<1>7. CASE Len(old) = 2 /\ Len(new) = 1
  <2>1. Value(new) = new[1] /\ new[1] \in 0..Base - 1
    BY <1>7, ShortValue
  <2>2. Len(o) = 2 /\ o[1] = new[1]
    BY <1>1, <1>7
  <2>3. Value(o) = o[1] * Base + o[2] /\ o[1] \in 0..Base - 1 /\ o[2] \in 0..Base - 1
    BY <1>1, <1>3, <2>2, ShortValue
  <2>4. new[1] =< new[1] * Base + o[2]
    <3>1. Base \in Nat /\ Base > 1
      BY DfsAssumption
    <3>. QED  BY <2>1, <2>3, <3>1, TwoDigits
  <2>. QED  BY <1>1, <1>3, <2>1, <2>2, <2>3, <2>4 DEF o
<1>8. Len(old) =< Len(new) \/ Len(new) = 0 \/ (Len(old) = 2 /\ Len(new) = 1)
  BY <1>2
<1>. QED  BY <1>5, <1>6, <1>7, <1>8

LEMMA DigitsValue ==
  ASSUME NEW n \in Names, NEW c \in Chunks
  PROVE  Value(Digits(ChunkSize(n, c))) = ChunkSize(n, c)
<1> DEFINE x == ChunkSize(n, c)
           d == Digits(x)
<1>1. x \in Nat /\ d \in Sizes /\ Base \in Nat /\ Base > 1
  BY ChunkSizes, DfsAssumption
<1> HIDE DEF x
<1>2. CASE x < Base
  <2>1. d = <<x>>
    BY <1>2 DEF Digits
  <2>2. Len(d) = 1 /\ d[1] = x /\ Len(d) =< 2
    BY <2>1
  <2>3. Value(d) = d[1]
    <3> HIDE DEF d
    <3>. QED  BY <1>1, <2>2, ShortValue
  <2>. QED  BY <2>2, <2>3 DEF x
<1>3. CASE ~(x < Base)
  <2>1. d = <<x \div Base, x % Base>>
    BY <1>3 DEF Digits
  <2>2. Len(d) = 2 /\ d[1] = x \div Base /\ d[2] = x % Base /\ Len(d) =< 2
    BY <2>1
  <2>3. (x \div Base) * Base + (x % Base) = x
    <3> DEFINE q == x \div Base
               r == x % Base
    <3>1. q \in Nat /\ r \in Nat /\ x = Base * q + r
      BY <1>1
    <3> HIDE DEF q, r
    <3>2. Base * q = q * Base
      BY <1>1, <3>1
    <3>3. q * Base + r = x
      BY <1>1, <3>1, <3>2
    <3>. QED  BY <3>3 DEF q, r
  <2>4. Value(d) = d[1] * Base + d[2]
    <3> HIDE DEF d
    <3>. QED  BY <1>1, <2>2, ShortValue
  <2>. QED  BY <2>2, <2>3, <2>4 DEF x
<1>. QED  BY <1>2, <1>3

(* What was put before: version 0, and no length is printed too small.     *)
Fitting == {c \in Full : c.ver = 0 /\ ChunkSize(c.name, c.chunk) =< Value(c.size)}

LEMMA NodesBeforeFit == NodesBefore(0) \in Seq(Fitting)
<1> DEFINE first(i) == [PutHeader(Before[i], 0, Part(Before[i], 0, 0)) EXCEPT !.op = "get"]
           second(i) == Fields(first(i), PutHeader(Before[i], 0, Part(Before[i], 0, 1)))
           parts == [i \in DOMAIN Before |-> <<first(i), second(i)>>]
<1>1. NodesBefore(0) = FlattenSeq(parts)
  BY DEF NodesBefore
<1>2. ASSUME NEW i \in DOMAIN Before PROVE first(i) \in Fitting /\ second(i) \in Fitting
  <2>1. Before[i] \in Names /\ 0 \in Versions /\ 0 \in 0..1 /\ 1 \in 0..1
    BY DfsAssumption DEF Versions
  <2>2. Part(Before[i], 0, 0) \in Chunks /\ Part(Before[i], 0, 1) \in Chunks
    BY <2>1, FirstServer, PartType
  <2> DEFINE a == PutHeader(Before[i], 0, Part(Before[i], 0, 0))
             b == PutHeader(Before[i], 0, Part(Before[i], 0, 1))
             e == [a EXCEPT !.op = "get"]
             f == Fields(e, b)
  <2>3. a \in Full /\ b \in Full /\ Len(a.size) =< 2 /\ Len(b.size) =< 2
    BY <2>1, <2>2, PutHeaderFull
  <2>4. /\ a.ver = 0 /\ Value(a.size) = ChunkSize(a.name, a.chunk)
        /\ b.ver = 0 /\ Value(b.size) = ChunkSize(b.name, b.chunk)
    BY <2>1, <2>2, DigitsValue DEF PutHeader
  <2>5. a \in Cmds /\ b \in Cmds
    BY <2>3, FullIsGood DEF Good
  <2>6. first(i) = e /\ second(i) = f
    OBVIOUS
  <2> HIDE DEF a, b, first, second
  <2>7. /\ e \in Full /\ e \in Cmds /\ e.ver = a.ver /\ e.size = a.size /\ e.name = a.name
        /\ e.chunk = a.chunk
    BY <2>3, <2>5, OpOf DEF Ops
  <2> HIDE DEF e
  <2>8. /\ f \in Full /\ f.ver = b.ver /\ f.name = b.name /\ f.chunk = b.chunk
        /\ f.size = Overwrite(e.size, b.size)
    <3>1. f \in Full /\ f.ver = b.ver /\ f.name = b.name /\ f.chunk = b.chunk
      BY <2>3, <2>5, <2>7, FieldsFull, FieldsOf
    <3>2. f.size = Overwrite(e.size, b.size)
      BY <2>3, <2>7 DEF Fields, Full
    <3>. QED  BY <3>1, <3>2
  <2> HIDE DEF f
  <2>9. /\ a.size \in Sizes /\ b.size \in Sizes /\ Value(b.size) =< Value(f.size)
        /\ Value(b.size) \in Nat /\ Value(a.size) \in Nat
    <3>1. a.size \in Sizes /\ b.size \in Sizes
      BY <2>3 DEF Full
    <3>. QED  BY <2>3, <2>7, <2>8, <3>1, OverwriteMore, ShortBound
  <2>10. e \in Fitting /\ f \in Fitting
    BY <2>4, <2>7, <2>8, <2>9 DEF Fitting
  <2>. QED  BY <2>6, <2>10
<1> HIDE DEF first, second
<1>3. parts \in Seq(Seq(Fitting))
  <2>1. \A i \in DOMAIN Before : <<first(i), second(i)>> \in Seq(Fitting)
    BY <1>2
  <2>2. Before \in Seq(Names)
    BY DfsAssumption
  <2>3. DOMAIN Before = 1..Len(Before) /\ Len(Before) \in Nat
    BY <2>2
  <2>. QED  BY <2>1, <2>3
<1>. QED  BY <1>1, <1>3, FlattenType

LEMMA InitOnce ==
  ASSUME Init
  PROVE  OnceInv
<1>1. ASSUME NEW k \in Clients, PutsTo0(k)
      PROVE  OnceAt(Connection(k, 0), SentTo(k, 0), toServer[k][0], wpc[k][0], wcmd[k][0],
                    DOMAIN file[0])
  <2>1. toServer[k][0] = <<>> /\ wpc[k][0] = "none"
    BY FirstServer DEF Init
  <2>2. Connection(k, 0).k = k /\ k # 0
    <3>1. k \in Nat \ {0}
      <4>1. Clients = 1..Cardinality(Clients) /\ Cardinality(Clients) \in Nat
        BY DfsAssumption, FS_CardinalityType
      <4>. QED  BY <4>1
    <3>. QED  BY <3>1 DEF Connection
  <2>3. \A id \in DOMAIN file[0] : id[2] = 0
    <3>1. DOMAIN file[0] = {Id(NodesBefore(0)[i]) : i \in DOMAIN NodesBefore(0)}
      BY FirstServer DEF Init
    <3>2. \A i \in DOMAIN NodesBefore(0) : NodesBefore(0)[i] \in Fitting
      BY NodesBeforeFit
    <3>3. \A x \in Fitting : x.ver = 0
      BY DEF Fitting
    <3>. QED  BY <3>1, <3>2, <3>3 DEF Id
  <2>. QED  BY <2>1, <2>2, <2>3, NothingLined DEF OnceAt
<1>. QED  BY <1>1 DEF OnceInv, Once
-----------------------------------------------------------------------------
(* Chunks are not longer than their nodes say, and who is to receive a     *)
(* chunk has the length of its node.                                       *)
Making == {"create", "body", "rest"}

Fits(x) ==
  /\ Id(x) \in DOMAIN file[0] => Len(file[0][Id(x)]) =< Value(x.size)
  /\ \A j \in Clients : wpc[j][0] \in Making /\ Id(wcmd[j][0]) = Id(x) => wcmd[j][0].size = x.size

FitInv == \A x \in Range(cabinet[0]) : Fits(x)

(* What is sent is in the cabinet, and is not written.                     *)
Reads(k) ==
  /\ wpc[k][0] \in {"send", "sendbody"} =>
       \A i \in DOMAIN nodes[k][0] : nodes[k][0][i] \in Range(cabinet[0])
  /\ wpc[k][0] = "sendbody" =>
       wcmd[k][0].name = nodes[k][0][1].name /\ CanRead(0, wcmd[k][0].name)

ReadInv == \A k \in Clients : Reads(k)

(* Chunks are made of what puts send.                                      *)
NotGets == {c \in Cmds : c.op # "get"}

TextInv == \A id \in DOMAIN file[0] : file[0][id] \in Seq(Sent(NotGets))

StoreInv == OnceInv /\ FitInv /\ ReadInv /\ TextInv

(* The chunks that nobody writes any more.                                 *)
Settled(id) ==
  id \in DOMAIN file[0] /\ \A j \in Clients : wpc[j][0] \in {"body", "rest"} => Id(wcmd[j][0]) # id

Kept0 == \A id : Settled(id) => Settled(id)' /\ file'[0][id] = file[0][id]

-----------------------------------------------------------------------------
LEMMA NodeIs ==
  ASSUME Types, NEW x \in Range(cabinet[0])
  PROVE  x \in Full /\ x.size \in Sizes /\ Value(x.size) \in Nat
<1>1. cabinet[0] \in Seq(Full)
  BY FirstServer DEF Types, ServerTypes
<1>2. x \in Full
  BY <1>1 DEF Range
<1>. QED  BY <1>2, ValueType DEF Full

LEMMA FitQuiet ==
  ASSUME FitInv, Range(cabinet'[0]) \subseteq Range(cabinet[0]), file'[0] = file[0],
         \A j \in Clients : wpc'[j][0] \in Making =>
           wpc[j][0] \in Making /\ wcmd'[j][0] = wcmd[j][0]
  PROVE  FitInv'
BY DEF FitInv, Fits

(* What the worker of another client does not change.                      *)
LEMMA OthersAlone ==
  ASSUME IInv, OriginInv, NEW k \in Clients, Worker(k, 0)
  PROVE  /\ UNCHANGED <<cmd, pc, sent, asked, reply, got, late, fresh>>
         /\ \A j \in Clients : j # k =>
              /\ wpc'[j][0] = wpc[j][0] /\ wcmd'[j][0] = wcmd[j][0] /\ nodes'[j][0] = nodes[j][0]
              /\ toServer'[j][0] = toServer[j][0] /\ toClient'[j][0] = toClient[j][0]
              /\ disturbed'[j][0] = disturbed[j][0]
<1>1. Quiet(k, 0)
  BY FirstServer, WorkerIsQuiet DEF IInv
<1>. QED  BY <1>1, FirstServer DEF Quiet, Elsewhere, ofClient

LEMMA MakersDiffer ==
  ASSUME IInv, OriginInv, TrackInv, NEW j \in Clients, NEW k \in Clients, j # k,
         wpc[j][0] \in {"add", "create", "body", "rest"},
         wpc[k][0] \in {"add", "create", "body", "rest"}
  PROVE  Id(wcmd[j][0]) # Id(wcmd[k][0])
<1>1. wcmd[j][0].ver = j /\ wcmd[k][0].ver = k
  BY PutWorker
<1>. QED  BY <1>1 DEF Id

LEMMA NewChunk ==
  ASSUME IInv, OriginInv, TrackInv, OnceInv, NEW k \in Clients, wpc[k][0] \in {"add", "create"}
  PROVE  Id(wcmd[k][0]) \notin DOMAIN file[0]
<1>1. PutsTo0(k)
  BY PutWorker
<1>. QED  BY <1>1 DEF OnceInv, Once, OnceAt

LEMMA AppendRange ==
  ASSUME NEW S, NEW t \in Seq(S), NEW x \in S
  PROVE  Range(Append(t, x)) = Range(t) \cup {x}
<1> DEFINE u == Append(t, x)
<1>1. /\ Len(t) \in Nat /\ DOMAIN t = 1..Len(t) /\ DOMAIN u = 1..Len(t) + 1
      /\ u[Len(t) + 1] = x /\ \A i \in 1..Len(t) : u[i] = t[i]
  OBVIOUS
<1> HIDE DEF u
<1>2. Range(u) \subseteq Range(t) \cup {x}
  <2> SUFFICES ASSUME NEW i \in DOMAIN u PROVE u[i] \in Range(t) \cup {x}
    BY DEF Range
  <2>1. i = Len(t) + 1 \/ i \in 1..Len(t)
    BY <1>1
  <2>. QED  BY <1>1, <2>1 DEF Range
<1>3. Range(t) \subseteq Range(u)
  <2> SUFFICES ASSUME NEW i \in DOMAIN t PROVE t[i] \in Range(u)
    BY DEF Range
  <2>1. i \in DOMAIN u /\ u[i] = t[i]
    BY <1>1
  <2>. QED  BY <2>1 DEF Range
<1>4. x \in Range(u)
  <2>1. Len(t) + 1 \in DOMAIN u
    BY <1>1
  <2>. QED  BY <1>1, <2>1 DEF Range
<1>. QED  BY <1>2, <1>3, <1>4 DEF u

LEMMA AddNodeFit ==
  ASSUME IInv, OriginInv, TrackInv, StoreInv, NEW k \in Clients, AddNode(k, 0), Worker(k, 0)
  PROVE  FitInv'
<1> DEFINE d == wcmd[k][0]
           e == [d EXCEPT !.op = "get"]
<1>1. /\ file' = file /\ wcmd' = wcmd /\ wpc[k][0] = "add" /\ wpc'[k][0] = "create"
      /\ cabinet'[0] = Append(cabinet[0], e)
  BY AddNodeDoes
<1>2. d \in Full /\ d \in Cmds
  BY <1>1, PutWorker, FullIsGood DEF Good
<1>3. e \in Full /\ Id(e) = Id(d) /\ e.size = d.size
  BY <1>2, OpOf DEF Ops, Id
<1>4. Range(cabinet'[0]) = Range(cabinet[0]) \cup {e}
  <2>1. cabinet[0] \in Seq(Full)
    BY StoreTypes DEF IInv
  <2> HIDE DEF e
  <2>. QED  BY <1>1, <1>3, <2>1, AppendRange
<1>5. Id(d) \notin DOMAIN file[0]
  BY <1>1, NewChunk DEF StoreInv
<1>6. \A j \in Clients : j # k => wpc'[j][0] = wpc[j][0]
  BY OthersAlone
<1>7. \A j \in Clients : j # k /\ wpc[j][0] \in Making => Id(wcmd[j][0]) # Id(d)
  BY <1>1, MakersDiffer DEF Making
<1>8. \A x \in Range(cabinet[0]) : Id(x) # Id(d)
  <2> SUFFICES ASSUME NEW i \in DOMAIN cabinet[0], Id(cabinet[0][i]) = Id(d) PROVE FALSE
    BY DEF Range
  <2>1. PICK j \in Clients : wpc[j][0] = "create" /\ Id(wcmd[j][0]) = Id(cabinet[0][i])
    BY <1>5, FirstServer DEF IInv, NodesHaveChunks
  <2>2. j # k
    BY <1>1, <2>1
  <2>. QED  BY <1>7, <2>1, <2>2 DEF Making
<1> HIDE DEF d, e
<1>9. ASSUME NEW x, Id(x) = Id(d), x.size = d.size PROVE Fits(x)'
  <2>1. Id(x) \notin DOMAIN file'[0]
    BY <1>1, <1>5, <1>9
  <2>2. ASSUME NEW j \in Clients, wpc'[j][0] \in Making, Id(wcmd'[j][0]) = Id(x)
        PROVE  wcmd'[j][0].size = x.size
    <3>1. CASE j = k
      BY <1>1, <1>9, <3>1 DEF d
    <3>2. CASE j # k
      BY <1>1, <1>6, <1>7, <1>9, <2>2, <3>2
    <3>. QED  BY <3>1, <3>2
  <2>. QED  BY <2>1, <2>2 DEF Fits
<1>10. ASSUME NEW x \in Range(cabinet[0]) PROVE Fits(x)'
  <2>1. Fits(x) /\ Id(x) # Id(d)
    BY <1>8 DEF StoreInv, FitInv
  <2>2. \A j \in Clients : wpc'[j][0] \in Making /\ Id(wcmd'[j][0]) = Id(x) => wpc[j][0] \in Making
    BY <1>1, <1>6, <2>1 DEF d
  <2>. QED  BY <1>1, <2>1, <2>2 DEF Fits
<1>11. ASSUME NEW x \in Range(cabinet'[0]) PROVE Fits(x)'
  <2>1. CASE x \in Range(cabinet[0])
    BY <1>10, <2>1
  <2>2. CASE x = e
    BY <1>3, <1>9, <2>2
  <2>. QED  BY <1>4, <2>1, <2>2
<1>. QED  BY <1>11 DEF FitInv

(* What a worker starts to write, and what it writes.                      *)
LEMMA CreateChunkFit ==
  ASSUME IInv, OriginInv, TrackInv, StoreInv, NEW k \in Clients, CreateChunk(k, 0), Worker(k, 0)
  PROVE  FitInv'
<1> DEFINE id == Id(wcmd[k][0])
<1>1. /\ cabinet' = cabinet /\ wcmd' = wcmd /\ wpc[k][0] = "create" /\ wpc'[k][0] = "body"
      /\ DOMAIN file'[0] = DOMAIN file[0] \cup {id} /\ file'[0][id] = <<>>
      /\ \A x \in DOMAIN file[0] : x # id => file'[0][x] = file[0][x]
  BY CreateChunkDoes
<1>2. \A j \in Clients : j # k => wpc'[j][0] = wpc[j][0]
  BY OthersAlone
<1> HIDE DEF id
<1>3. ASSUME NEW x \in Range(cabinet[0]) PROVE Fits(x)'
  <2>1. Fits(x)
    BY DEF StoreInv, FitInv
  <2>2. Id(x) \in DOMAIN file'[0] => Len(file'[0][Id(x)]) =< Value(x.size)
    <3>1. CASE Id(x) = id
      <4>1. Value(x.size) \in Nat
        BY NodeIs DEF IInv
      <4>2. Len(<<>>) = 0
        OBVIOUS
      <4>3. 0 =< Value(x.size)
        BY <4>1
      <4>. QED  BY <1>1, <3>1, <4>2, <4>3
    <3>2. CASE Id(x) # id
      BY <1>1, <2>1, <3>2 DEF Fits
    <3>. QED  BY <3>1, <3>2
  <2>3. \A j \in Clients : wpc'[j][0] \in Making => wpc[j][0] \in Making
    BY <1>1, <1>2 DEF Making
  <2>. QED  BY <1>1, <2>1, <2>2, <2>3 DEF Fits
<1>. QED  BY <1>1, <1>3 DEF FitInv

LEMMA GrownLength ==
  ASSUME NEW S, NEW f \in Seq(S), NEW d \in Seq(S), NEW v \in Nat, Len(d) =< v - Len(f)
  PROVE  Len(f \o d) =< v
OBVIOUS

LEMMA ReceiveBodyFit ==
  ASSUME IInv, OriginInv, TrackInv, StoreInv, NEW k \in Clients, ReceiveBody(k, 0), Worker(k, 0)
  PROVE  FitInv'
<1> DEFINE id == Id(wcmd[k][0])
           v == Value(wcmd[k][0].size)
           f == file[0][id]
           data == Taken(toServer[k][0], v - Len(f))
<1>1. /\ cabinet' = cabinet /\ wcmd' = wcmd
      /\ wpc[k][0] \in {"body", "rest"} /\ wpc'[k][0] \in {"rest", "next"}
      /\ DOMAIN file'[0] = DOMAIN file[0] /\ id \in DOMAIN file[0] /\ v - Len(f) \in Nat
      /\ file'[0][id] = f \o data
      /\ \A x \in DOMAIN file[0] : x # id => file'[0][x] = file[0][x]
  BY ReceiveBodyDoes
<1>2. \A j \in Clients : j # k => wpc'[j][0] = wpc[j][0]
  BY OthersAlone
<1>3. Len(f \o data) =< v
  <2>1. wcmd[k][0].size \in Sizes
    BY <1>1, PutWorker DEF Full
  <2>2. v \in Nat
    BY <2>1, ValueType
  <2>3. f \in Seq(AnyCells) /\ data \in Seq(AnyCells) /\ Len(data) =< v - Len(f)
    <3>1. file[0] \in Contents /\ toServer[k][0] \in Seq(AnyCells)
      BY Tables, FirstServer DEF IInv
    <3>2. f \in Seq(Cells)
      BY <1>1, <3>1 DEF Contents
    <3>3. Cells \subseteq AnyCells
      <4>1. Full \subseteq Cmds
        BY FullIsGood DEF Good
      <4>. QED  BY <4>1 DEF Cells, AnyCells
    <3>4. f \in Seq(AnyCells)
      BY <3>2, <3>3
    <3> DEFINE l == v - Len(f)
    <3> HIDE DEF l, f, v
    <3>5. data \in Seq(AnyCells) /\ Len(data) =< l
      <4>1. l \in Nat
        BY <1>1 DEF l
      <4>2. data = Taken(toServer[k][0], l)
        BY DEF l
      <4> HIDE DEF data
      <4>. QED  BY <3>1, <4>1, <4>2, Receive
    <3>. QED  BY <3>4, <3>5 DEF l
  <2> HIDE DEF f, data, v
  <2>. QED  BY <2>2, <2>3, GrownLength
<1> HIDE DEF id, v, f, data
<1>4. ASSUME NEW x \in Range(cabinet[0]) PROVE Fits(x)'
  <2>1. Fits(x)
    BY DEF StoreInv, FitInv
  <2>2. Id(x) \in DOMAIN file'[0] => Len(file'[0][Id(x)]) =< Value(x.size)
    <3>1. CASE Id(x) = id
      <4>1. wcmd[k][0].size = x.size
        BY <1>1, <2>1, <3>1 DEF Fits, Making, id
      <4>2. Value(x.size) = v
        BY <4>1 DEF v
      <4>. QED  BY <1>1, <1>3, <3>1, <4>2
    <3>2. CASE Id(x) # id
      BY <1>1, <2>1, <3>2 DEF Fits
    <3>. QED  BY <3>1, <3>2
  <2>3. \A j \in Clients : wpc'[j][0] \in Making => wpc[j][0] \in Making
    BY <1>1, <1>2 DEF Making
  <2>. QED  BY <1>1, <2>1, <2>2, <2>3 DEF Fits
<1>. QED  BY <1>1, <1>4 DEF FitInv

(* What all other steps of workers do with what is written.                *)
LEMMA QuietStore ==
  ASSUME IInv, OriginInv, NEW k \in Clients, Worker(k, 0), StoreInv,
         cabinet' = cabinet, file' = file,
         wpc'[k][0] \in {"body", "rest"} => wpc[k][0] \in {"body", "rest"},
         wpc'[k][0] \in Making => wpc[k][0] \in Making /\ wcmd'[k][0] = wcmd[k][0]
  PROVE  FitInv' /\ TextInv' /\ Kept0
<1>1. \A j \in Clients : j # k => wpc'[j][0] = wpc[j][0] /\ wcmd'[j][0] = wcmd[j][0]
  BY OthersAlone
<1>2. FitInv'
  <2>1. \A j \in Clients : wpc'[j][0] \in Making => wpc[j][0] \in Making /\ wcmd'[j][0] = wcmd[j][0]
    BY <1>1
  <2>. QED  BY <2>1, FitQuiet DEF StoreInv
<1>3. TextInv'
  BY DEF StoreInv, TextInv
<1>4. Kept0
  <2> SUFFICES ASSUME NEW id, Settled(id) PROVE Settled(id)' /\ file'[0][id] = file[0][id]
    BY DEF Kept0
  <2>1. \A j \in Clients : wpc'[j][0] \in {"body", "rest"} =>
          wpc[j][0] \in {"body", "rest"} /\ wcmd'[j][0] = wcmd[j][0]
    BY <1>1 DEF Making
  <2>. QED  BY <2>1 DEF Settled
<1>. QED  BY <1>2, <1>3, <1>4

(* What the worker of another client reads.                                *)
LEMMA OthersRead ==
  ASSUME IInv, OriginInv, NEW k \in Clients, Worker(k, 0), StoreInv,
         Range(cabinet[0]) \subseteq Range(cabinet'[0]),
         \A j \in Clients : j # k /\ wpc[j][0] = "sendbody" /\ wpc'[k][0] \in {"body", "rest"} =>
           wcmd'[k][0].name # wcmd[j][0].name,
         Reads(k)'
  PROVE  ReadInv'
<1>1. \A j \in Clients : j # k => wpc'[j][0] = wpc[j][0] /\ wcmd'[j][0] = wcmd[j][0]
                                  /\ nodes'[j][0] = nodes[j][0]
  BY OthersAlone
<1>2. ASSUME NEW j \in Clients, j # k PROVE Reads(j)'
  <2>1. Reads(j) /\ wpc'[j][0] = wpc[j][0] /\ wcmd'[j][0] = wcmd[j][0]
        /\ nodes'[j][0] = nodes[j][0]
    BY <1>1, <1>2 DEF StoreInv, ReadInv
  <2>2. ASSUME wpc[j][0] = "sendbody", NEW i \in Clients, Writing(i, 0, wcmd[j][0].name)'
        PROVE  FALSE
    <3>1. wpc'[i][0] \in {"body", "rest"} /\ wcmd'[i][0].name = wcmd[j][0].name
      BY <1>1, <1>2, <2>2 DEF Writing
    <3>2. i # k
      BY <1>2, <2>2, <3>1
    <3>3. Writing(i, 0, wcmd[j][0].name)
      BY <1>1, <3>1, <3>2 DEF Writing
    <3>. QED  BY <2>1, <2>2, <3>3 DEF Reads, CanRead
  <2>3. wpc[j][0] = "sendbody" => CanRead(0, wcmd[j][0].name)'
    BY <2>2 DEF CanRead
  <2>. QED  BY <2>1, <2>3 DEF Reads
<1>. QED  BY <1>2 DEF ReadInv

LEMMA ReceiverStore ==
  ASSUME IInv, OriginInv, TrackInv, StoreInv, NEW k \in Clients,
         Wait(k, 0) \/ ReceiveFirst(k, 0) \/ ReceiveNext(k, 0), Worker(k, 0)
  PROVE  FitInv' /\ TextInv' /\ Kept0 /\ ReadInv'
<1>1. CASE Wait(k, 0)
  <2>1. /\ UNCHANGED <<cabinet, file, wpc, wcmd, nodes>>
        /\ wpc[k][0] \in {"first", "body", "rest", "next"}
    BY <1>1 DEF Wait
  <2>2. Reads(k)'
    BY <2>1 DEF Reads
  <2>3. ReadInv'
    <3>1. \A j \in Clients : j # k /\ wpc[j][0] = "sendbody" /\ wpc'[k][0] \in {"body", "rest"} =>
            wcmd'[k][0].name # wcmd[j][0].name
      BY <2>1 DEF StoreInv, ReadInv, Reads, CanRead, Writing
    <3>. QED  BY <2>1, <2>2, <3>1, OthersRead
  <2>. QED  BY <2>1, <2>3, QuietStore
<1>2. CASE ReceiveFirst(k, 0) \/ ReceiveNext(k, 0)
  <2>1. UNCHANGED <<cabinet, file, nodes>> /\ wpc'[k][0] \in {"add", "find", "closed"}
    BY <1>2, ReceiveFirstDoes, ReceiveNextDoes
  <2>2. Reads(k)' /\ wpc'[k][0] \notin {"body", "rest"} /\ wpc'[k][0] \notin Making
    BY <2>1 DEF Reads, Making
  <2>3. ReadInv'
    BY <2>1, <2>2, OthersRead
  <2>. QED  BY <2>1, <2>2, <2>3, QuietStore
<1>. QED  BY <1>1, <1>2

LEMMA AddNodeStore ==
  ASSUME IInv, OriginInv, TrackInv, StoreInv, NEW k \in Clients, AddNode(k, 0), Worker(k, 0)
  PROVE  FitInv' /\ TextInv' /\ Kept0 /\ ReadInv'
<1> DEFINE e == [wcmd[k][0] EXCEPT !.op = "get"]
<1>1. /\ file' = file /\ wcmd' = wcmd /\ wpc[k][0] = "add" /\ wpc'[k][0] = "create"
      /\ cabinet'[0] = Append(cabinet[0], e)
  BY AddNodeDoes
<1>2. \A j \in Clients : j # k => wpc'[j][0] = wpc[j][0]
  BY OthersAlone
<1>3. TextInv'
  BY <1>1 DEF StoreInv, TextInv
<1>4. Kept0
  <2>1. \A j \in Clients : wpc'[j][0] \in {"body", "rest"} => wpc[j][0] \in {"body", "rest"}
    BY <1>1, <1>2
  <2>. QED  BY <1>1, <2>1 DEF Kept0, Settled
<1>5. ReadInv'
  <2>1. e \in Full
    <3>1. wcmd[k][0] \in Full
      BY <1>1, PutWorker
    <3>. QED  BY <3>1 DEF Full, Ops
  <2>2. cabinet[0] \in Seq(Full)
    BY StoreTypes DEF IInv
  <2> HIDE DEF e
  <2>3. Range(cabinet[0]) \subseteq Range(cabinet'[0])
    BY <1>1, <2>1, <2>2, AppendRange
  <2>4. Reads(k)'
    BY <1>1 DEF Reads
  <2>5. wpc'[k][0] \notin {"body", "rest"}
    BY <1>1
  <2>. QED  BY <2>3, <2>4, <2>5, OthersRead
<1>. QED  BY <1>3, <1>4, <1>5, AddNodeFit

LEMMA CreateChunkStore ==
  ASSUME IInv, OriginInv, TrackInv, StoreInv, NEW k \in Clients, CreateChunk(k, 0), Worker(k, 0)
  PROVE  FitInv' /\ TextInv' /\ Kept0 /\ ReadInv'
<1> DEFINE id == Id(wcmd[k][0])
<1>1. /\ cabinet' = cabinet /\ wcmd' = wcmd /\ wpc[k][0] = "create" /\ wpc'[k][0] = "body"
      /\ CanWrite(0, wcmd[k][0].name)
      /\ DOMAIN file'[0] = DOMAIN file[0] \cup {id} /\ file'[0][id] = <<>>
      /\ \A x \in DOMAIN file[0] : x # id => file'[0][x] = file[0][x]
  BY CreateChunkDoes
<1>2. \A j \in Clients : j # k => wpc'[j][0] = wpc[j][0]
  BY OthersAlone
<1>3. id \notin DOMAIN file[0]
  BY <1>1, NewChunk DEF StoreInv
<1> HIDE DEF id
<1>4. TextInv'
  <2>1. \A S : <<>> \in Seq(S)
    OBVIOUS
  <2>2. \A x \in DOMAIN file'[0] : file'[0][x] \in Seq(Sent(NotGets))
    BY <1>1, <2>1 DEF StoreInv, TextInv
  <2>3. Sent(NotGets)' = Sent(NotGets)
    BY DEF Sent, NotGets, Cmds, Sizes, Ops
  <2>. QED  BY <2>2, <2>3 DEF TextInv
<1>5. Kept0
  <2> SUFFICES ASSUME NEW x, Settled(x) PROVE Settled(x)' /\ file'[0][x] = file[0][x]
    BY DEF Kept0
  <2>1. x # id
    BY <1>3 DEF Settled
  <2>2. \A j \in Clients : wpc'[j][0] \in {"body", "rest"} => Id(wcmd'[j][0]) # x
    <3> TAKE j \in Clients
    <3>1. CASE j = k
      BY <1>1, <2>1, <3>1 DEF id
    <3>2. CASE j # k
      BY <1>1, <1>2, <3>2 DEF Settled
    <3>. QED  BY <3>1, <3>2
  <2>. QED  BY <1>1, <2>1, <2>2 DEF Settled
<1>6. ReadInv'
  <2>1. Reads(k)'
    BY <1>1 DEF Reads
  <2>2. \A j \in Clients : wpc[j][0] = "sendbody" => wcmd'[k][0].name # wcmd[j][0].name
    BY <1>1 DEF CanWrite, Reading
  <2>3. Range(cabinet[0]) \subseteq Range(cabinet'[0])
    BY <1>1
  <2>. QED  BY <2>1, <2>2, <2>3, OthersRead
<1>. QED  BY <1>4, <1>5, <1>6, CreateChunkFit

LEMMA ReceiveBodyStore ==
  ASSUME IInv, OriginInv, TrackInv, StoreInv, NEW k \in Clients, ReceiveBody(k, 0), Worker(k, 0)
  PROVE  FitInv' /\ TextInv' /\ Kept0 /\ ReadInv'
<1> DEFINE id == Id(wcmd[k][0])
           n == Value(wcmd[k][0].size) - Len(file[0][id])
<1>1. /\ cabinet' = cabinet /\ wcmd' = wcmd
      /\ wpc[k][0] \in {"body", "rest"} /\ wpc'[k][0] \in {"rest", "next"}
      /\ DOMAIN file'[0] = DOMAIN file[0] /\ id \in DOMAIN file[0] /\ n \in Nat
      /\ file'[0][id] = file[0][id] \o Taken(toServer[k][0], n)
      /\ \A x \in DOMAIN file[0] : x # id => file'[0][x] = file[0][x]
  BY ReceiveBodyDoes
<1>2. \A j \in Clients : j # k => wpc'[j][0] = wpc[j][0]
  BY OthersAlone
<1> HIDE DEF id, n
<1>3. TextInv'
  <2>1. toServer[k][0] \in Seq(Sent(NotGets))
    <3>1. toServer[k][0] \in Seq(Sent(Owned(k, 0))) /\ cmd[k].op = "put"
      BY <1>1, PutWorker DEF PutsTo0
    <3>2. Owned(k, 0) \subseteq NotGets
      BY <3>1 DEF Owned, NotGets, Answered
    <3>3. Sent(Owned(k, 0)) \subseteq Sent(NotGets)
      BY <3>2 DEF Sent
    <3>. QED  BY <3>1, <3>3
  <2>2. Taken(toServer[k][0], n) \in Seq(Sent(NotGets))
    BY <1>1, <2>1, ReceiveType
  <2>3. file[0][id] \in Seq(Sent(NotGets))
    BY <1>1 DEF StoreInv, TextInv
  <2> DEFINE C == Sent(NotGets)
             a == file[0][id]
             b == Taken(toServer[k][0], n)
  <2>4. a \o b \in Seq(C)
    <3> HIDE DEF a, b, C
    <3>1. a \in Seq(C) /\ b \in Seq(C)
      BY <2>2, <2>3 DEF a, b, C
    <3>. QED  BY <3>1
  <2>5. \A x \in DOMAIN file'[0] : file'[0][x] \in Seq(Sent(NotGets))
    BY <1>1, <2>4 DEF StoreInv, TextInv
  <2>6. Sent(NotGets)' = Sent(NotGets)
    BY DEF Sent, NotGets, Cmds, Sizes, Ops
  <2>. QED  BY <2>5, <2>6 DEF TextInv
<1>4. Kept0
  <2> SUFFICES ASSUME NEW x, Settled(x) PROVE Settled(x)' /\ file'[0][x] = file[0][x]
    BY DEF Kept0
  <2>1. x # id /\ x \in DOMAIN file[0]
    BY <1>1 DEF Settled, id
  <2>2. \A j \in Clients : wpc'[j][0] \in {"body", "rest"} => wpc[j][0] \in {"body", "rest"}
    BY <1>1, <1>2
  <2>. QED  BY <1>1, <2>1, <2>2 DEF Settled
<1>5. ReadInv'
  <2>1. Reads(k)'
    BY <1>1 DEF Reads
  <2>2. \A j \in Clients : wpc[j][0] = "sendbody" => wcmd'[k][0].name # wcmd[j][0].name
    BY <1>1 DEF StoreInv, ReadInv, Reads, CanRead, Writing
  <2>3. Range(cabinet[0]) \subseteq Range(cabinet'[0])
    BY <1>1
  <2>. QED  BY <2>1, <2>2, <2>3, OthersRead
<1>. QED  BY <1>3, <1>4, <1>5, ReceiveBodyFit

(* The nodes that Find chooses.                                            *)
LEMMA ChosenNode ==
  ASSUME Types, OriginInv, NEW I, I \subseteq DOMAIN cabinet[0], I # {}
  PROVE  /\ Max(I) \in I
         /\ NewestOf(cabinet[0], I) = cabinet[0][Max(I)]
         /\ NewestOf(cabinet[0], I) \in Range(cabinet[0])
<1>1. cabinet[0] \in Seq(Full)
  BY StoreTypes
<1>2. Max(I) \in I
  BY <1>1, NewestIsNode
<1>. QED  BY <1>2 DEF NewestOf, Range

LEMMA FindStore ==
  ASSUME IInv, OriginInv, TrackInv, StoreInv, NEW k \in Clients, Find(k, 0), Worker(k, 0)
  PROVE  FitInv' /\ TextInv' /\ Kept0 /\ ReadInv'
<1> DEFINE found == {i \in DOMAIN cabinet[0] : cabinet[0][i].name = wcmd[k][0].name}
           first == NewestOf(cabinet[0], found)
           others == {i \in found : cabinet[0][i].chunk # first.chunk}
           second == NewestOf(cabinet[0], others)
<1>1. /\ UNCHANGED <<cabinet, file, wcmd>>
      /\ \/ /\ wpc'[k][0] = "send" /\ found # {} /\ others # {}
            /\ nodes'[k][0] = <<first, second>>
         \/ wpc'[k][0] = "closed"
  BY FindDoes
<1>2. found \subseteq DOMAIN cabinet[0] /\ others \subseteq DOMAIN cabinet[0]
  OBVIOUS
<1> HIDE DEF found, others, first, second
<1>3. found # {} => first \in Range(cabinet[0])
  BY <1>2, ChosenNode DEF first, IInv
<1>4. others # {} => second \in Range(cabinet[0])
  BY <1>2, ChosenNode DEF second, IInv
<1>5. wpc'[k][0] = "send" => \A i \in DOMAIN nodes'[k][0] : nodes'[k][0][i] \in Range(cabinet[0])
  BY <1>1, <1>3, <1>4
<1>6. Reads(k)'
  BY <1>1, <1>5 DEF Reads
<1>7. wpc'[k][0] \notin {"body", "rest"} /\ wpc'[k][0] \notin Making
  BY <1>1 DEF Making
<1>. QED  BY <1>1, <1>6, <1>7, QuietStore, OthersRead

LEMMA TailCells ==
  ASSUME NEW S, NEW t \in Seq(S), t # <<>>
  PROVE  /\ Tail(t) \in Seq(S) /\ 1 \in DOMAIN t /\ t[1] \in S
         /\ \A i \in DOMAIN Tail(t) : i + 1 \in DOMAIN t /\ Tail(t)[i] = t[i + 1]
OBVIOUS

LEMMA SenderStore ==
  ASSUME IInv, OriginInv, TrackInv, StoreInv, NEW k \in Clients,
         SendHeader(k, 0) \/ SendBody(k, 0), Worker(k, 0)
  PROVE  FitInv' /\ TextInv' /\ Kept0 /\ ReadInv'
<1> DEFINE ns == nodes[k][0]
<1>1. /\ UNCHANGED <<cabinet, file>> /\ wpc[k][0] \in {"send", "sendbody"}
      /\ \/ /\ wpc'[k][0] = "sendbody" /\ nodes' = nodes /\ CanRead(0, ns[1].name)
            /\ wcmd'[k][0] = Fields(wcmd[k][0], ns[1])
         \/ wpc'[k][0] \in {"send", "closed"} /\ nodes'[k][0] = Tail(ns)
  BY SendHeaderDoes, SendBodyDoes
<1>2. wpc'[k][0] \notin {"body", "rest"} /\ wpc'[k][0] \notin Making
  BY <1>1 DEF Making
<1>3. ns \in Seq(Full) /\ ns # <<>>
  BY <1>1, FirstServer, StoreTypes DEF IInv, ConnectionInv, AtServer, WorkerAt
<1>4. \A i \in DOMAIN ns : ns[i] \in Range(cabinet[0])
  BY <1>1 DEF StoreInv, ReadInv, Reads
<1>5. \A i \in DOMAIN nodes'[k][0] : nodes'[k][0][i] \in Range(cabinet[0])
  <2>1. CASE nodes' = nodes
    BY <1>4, <2>1
  <2>2. CASE nodes'[k][0] = Tail(ns)
    <3>1. \A i \in DOMAIN Tail(ns) : i + 1 \in DOMAIN ns /\ Tail(ns)[i] = ns[i + 1]
      BY <1>3, TailCells
    <3>. QED  BY <1>4, <2>2, <3>1
  <2>. QED  BY <1>1, <2>1, <2>2
<1>6. wpc'[k][0] = "sendbody" =>
        wcmd'[k][0].name = nodes'[k][0][1].name /\ CanRead(0, wcmd'[k][0].name)
  <2> SUFFICES ASSUME wpc'[k][0] = "sendbody"
               PROVE  wcmd'[k][0].name = nodes'[k][0][1].name /\ CanRead(0, wcmd'[k][0].name)
    OBVIOUS
  <2>1. nodes' = nodes /\ CanRead(0, ns[1].name) /\ wcmd'[k][0] = Fields(wcmd[k][0], ns[1])
    BY <1>1
  <2>2. wcmd[k][0] \in Cmds /\ ns[1] \in Cmds
    <3>1. ns[1] \in Full
      BY <1>3, TailCells
    <3>. QED  BY <3>1, FullIsGood, StoreTypes DEF Good, IInv
  <2>3. wcmd'[k][0].name = ns[1].name
    BY <2>1, <2>2, FieldsOf
  <2>. QED  BY <2>1, <2>3
<1>7. wpc'[k][0] = "sendbody" => CanRead(0, wcmd[k][0].name)'
  <2> SUFFICES ASSUME wpc'[k][0] = "sendbody", NEW j \in Clients,
                      wpc'[j][0] \in {"body", "rest"}, wcmd'[j][0].name = wcmd'[k][0].name
               PROVE  FALSE
    BY DEF CanRead, Writing
  <2>1. j # k
    OBVIOUS
  <2>2. wpc'[j][0] = wpc[j][0] /\ wcmd'[j][0] = wcmd[j][0]
    BY <2>1, OthersAlone
  <2>. QED  BY <1>6, <2>2 DEF CanRead, Writing
<1>8. Reads(k)'
  BY <1>1, <1>5, <1>6, <1>7 DEF Reads
<1>. QED  BY <1>1, <1>2, <1>8, QuietStore, OthersRead

LEMMA WorkerStore ==
  ASSUME IInv, OriginInv, TrackInv, StoreInv, NEW k \in Clients, Worker(k, 0)
  PROVE  StoreInv' /\ Kept0
<1>1. FitInv' /\ TextInv' /\ Kept0 /\ ReadInv'
  BY ReceiverStore, AddNodeStore, CreateChunkStore, ReceiveBodyStore, FindStore, SenderStore
     DEF Worker
<1>. QED  BY <1>1, WorkerKeepsOnce DEF StoreInv

(* Steps that add nothing to server 0.                                     *)
LEMMA EndingStore ==
  ASSUME Types, StoreInv, OnceInv', file'[0] = file[0],
         \A j \in Clients :
           /\ wcmd'[j][0] = wcmd[j][0] /\ nodes'[j][0] = nodes[j][0]
           /\ wpc'[j][0] = wpc[j][0] \/ wpc'[j][0] \in {"none", "first", "closed"},
         \/ cabinet'[0] = cabinet[0]
         \/ cabinet'[0] = <<>> /\ \A j \in Clients : wpc'[j][0] \notin {"send", "sendbody"}
  PROVE  StoreInv' /\ Kept0
<1>1. Range(cabinet'[0]) \subseteq Range(cabinet[0])
  BY DEF Range
<1>2. FitInv'
  <2>1. \A j \in Clients : wpc'[j][0] \in Making => wpc[j][0] \in Making /\ wcmd'[j][0] = wcmd[j][0]
    BY DEF Making
  <2>. QED  BY <1>1, <2>1, FitQuiet DEF StoreInv
<1>3. TextInv'
  BY DEF StoreInv, TextInv
<1>4. \A j \in Clients : wpc'[j][0] \in {"body", "rest"} => wpc[j][0] = wpc'[j][0]
  OBVIOUS
<1>5. Kept0
  BY <1>4 DEF Kept0, Settled
<1>6. ReadInv'
  <2> SUFFICES ASSUME NEW k \in Clients PROVE Reads(k)'
    BY DEF ReadInv
  <2>1. Reads(k)
    BY DEF StoreInv, ReadInv
  <2>2. CASE wpc'[k][0] \in {"send", "sendbody"}
    <3>1. wpc'[k][0] = wpc[k][0] /\ cabinet'[0] = cabinet[0]
      BY <2>2
    <3>2. CanRead(0, wcmd[k][0].name) => CanRead(0, wcmd[k][0].name)'
      BY <1>4 DEF CanRead, Writing
    <3>. QED  BY <2>1, <3>1, <3>2 DEF Reads
  <2>3. CASE wpc'[k][0] \notin {"send", "sendbody"}
    BY <2>3 DEF Reads
  <2>. QED  BY <2>2, <2>3
<1>. QED  BY <1>2, <1>3, <1>5, <1>6 DEF StoreInv

LEMMA ClientStore ==
  ASSUME IInv, OriginInv, TrackInv, StoreInv, NEW k \in Clients, Client(k)
  PROVE  StoreInv' /\ Kept0
<1>1. UNCHANGED <<cabinet, file, wcmd, nodes>> /\ Alone(k, wpc, wpc')
  BY ClientIsQuiet DEF IInv, QuietClient
<1>2. OnceInv'
  BY ClientKeepsOnce DEF StoreInv
<1>3. wpc'[k][0] = wpc[k][0] \/ wpc'[k][0] \in {"none", "first"}
  <2>1. CASE Connect(k)
    <3>1. wpc' = [wpc EXCEPT ![k] =
            [s \in Servers |-> IF Contains(cmd[k].servers, s) THEN "first" ELSE "none"]]
      BY <2>1 DEF Connect
    <3>. QED  BY <3>1, FirstServer, Tables DEF IInv
  <2>2. CASE ~Connect(k)
    BY <2>2 DEF Client, Refuse, PutSend, Ask, ReceiveHeader, ReceiveChunk,
                               ReceiveNextHeader, ofServer
  <2>. QED  BY <2>1, <2>2
<1>. QED  BY <1>1, <1>2, <1>3, EndingStore DEF IInv, Alone

(* What a worker of another server, or the end of one, leaves of server 0. *)
LEMMA ElsewhereStore ==
  ASSUME IInv, OriginInv, NEW k \in Clients, NEW s \in Servers, s # 0, Worker(k, s)
  PROVE  /\ cabinet'[0] = cabinet[0] /\ file'[0] = file[0]
         /\ UNCHANGED <<cmd, pc, sent, asked, reply, got, late, fresh>>
         /\ \A j \in Clients :
              /\ wpc'[j][0] = wpc[j][0] /\ wcmd'[j][0] = wcmd[j][0] /\ nodes'[j][0] = nodes[j][0]
              /\ toServer'[j][0] = toServer[j][0] /\ toClient'[j][0] = toClient[j][0]
              /\ disturbed'[j][0] = disturbed[j][0]
<1>1. Quiet(k, s)
  BY WorkerIsQuiet DEF IInv
<1>2. /\ UNCHANGED <<cmd, pc, sent, asked, reply, got, late, fresh>>
      /\ \A j \in Clients :
              /\ wpc'[j][0] = wpc[j][0] /\ wcmd'[j][0] = wcmd[j][0] /\ nodes'[j][0] = nodes[j][0]
              /\ toServer'[j][0] = toServer[j][0] /\ toClient'[j][0] = toClient[j][0]
              /\ disturbed'[j][0] = disturbed[j][0]
  BY <1>1, FirstServer DEF Quiet, Elsewhere, ofClient
<1>3. cabinet \in [Servers -> Seq(Full)] /\ file \in [Servers -> Contents]
  BY Tables DEF IInv
<1>4. cabinet'[0] = cabinet[0]
  <2>1. cabinet' = cabinet \/ \E v : cabinet' = [cabinet EXCEPT ![s] = v]
    BY DEF Worker, Wait, ReceiveFirst, ReceiveNext, AddNode, CreateChunk, ReceiveBody, Find,
           SendHeader, SendBody
  <2>. QED  BY <1>3, <2>1, FirstServer
<1>5. file'[0] = file[0]
  <2>1. file' = file \/ \E v : file' = [file EXCEPT ![s] = v]
    <3>1. CASE ReceiveBody(k, s)
      <4>1. \E id, v : file' = [file EXCEPT ![s][id] = v]
        BY <3>1 DEF ReceiveBody
      <4>. QED  BY <4>1
    <3>2. CASE ~ReceiveBody(k, s)
      BY <3>2 DEF Worker, Wait, ReceiveFirst, ReceiveNext, AddNode, CreateChunk, Find,
                  SendHeader, SendBody
    <3>. QED  BY <3>1, <3>2
  <2>. QED  BY <1>3, <2>1, FirstServer
<1>. QED  BY <1>2, <1>4, <1>5

LEMMA DieStore ==
  ASSUME IInv, OriginInv, NEW k \in Clients, NEW s \in Servers, Die(k, s)
  PROVE  /\ UNCHANGED <<ofClient, file, wcmd, nodes, toServer, toClient>>
         /\ \A j \in Clients :
              \/ wpc'[j][0] = wpc[j][0] /\ (disturbed'[j][0] <=> disturbed[j][0])
              \/ wpc'[j][0] = "closed" /\ disturbed'[j][0]
         /\ \/ cabinet'[0] = cabinet[0]
            \/ cabinet'[0] = <<>> /\ \A j \in Clients : wpc'[j][0] \in {"none", "closed"}
<1>1. /\ UNCHANGED <<ofClient, file, wcmd, nodes, toServer, toClient>>
      /\ cabinet' = [cabinet EXCEPT ![s] = <<>>]
      /\ wpc' = [j \in Clients |-> [wpc[j] EXCEPT ![s] = IF @ = "none" THEN @ ELSE "closed"]]
      /\ disturbed' = [j \in Clients |->
           [disturbed[j] EXCEPT ![s] = @ \/ wpc[j][s] \notin {"none", "closed"}]]
  BY DEF Die, Gone
<1>2. /\ cabinet \in [Servers -> Seq(Full)] /\ wpc \in [Clients -> [Servers -> Places]]
      /\ disturbed \in [Clients -> [Servers -> BOOLEAN]]
  BY Tables DEF IInv
<1>3. ASSUME s = 0, NEW j \in Clients
      PROVE  /\ wpc'[j][0] = IF wpc[j][0] = "none" THEN "none" ELSE "closed"
             /\ disturbed'[j][0] <=> disturbed[j][0] \/ wpc[j][0] \notin {"none", "closed"}
  <2>1. wpc[j] \in [Servers -> Places] /\ disturbed[j] \in [Servers -> BOOLEAN]
    BY <1>2
  <2>2. wpc'[j] = [wpc[j] EXCEPT ![0] = IF wpc[j][0] = "none" THEN wpc[j][0] ELSE "closed"]
    BY <1>1, <1>3
  <2>3. disturbed'[j] = [disturbed[j] EXCEPT ![0] =
                           disturbed[j][0] \/ wpc[j][0] \notin {"none", "closed"}]
    BY <1>1, <1>3
  <2>. QED  BY <2>1, <2>2, <2>3, FirstServer
<1>4. ASSUME s # 0, NEW j \in Clients
      PROVE  wpc'[j][0] = wpc[j][0] /\ disturbed'[j][0] = disturbed[j][0]
  BY <1>1, <1>2, <1>4, FirstServer
<1>5. CASE s = 0
  <2>1. cabinet'[0] = <<>>
    BY <1>1, <1>2, <1>5, FirstServer
  <2>2. ASSUME NEW j \in Clients
        PROVE  /\ \/ wpc'[j][0] = wpc[j][0] /\ (disturbed'[j][0] <=> disturbed[j][0])
                  \/ wpc'[j][0] = "closed" /\ disturbed'[j][0]
               /\ wpc'[j][0] \in {"none", "closed"}
    <3>1. CASE wpc[j][0] = "none"
      BY <1>3, <1>5, <3>1
    <3>2. CASE wpc[j][0] = "closed"
      BY <1>3, <1>5, <3>2
    <3>3. CASE wpc[j][0] \notin {"none", "closed"}
      BY <1>3, <1>5, <3>3
    <3>. QED  BY <3>1, <3>2, <3>3
  <2>. QED  BY <1>1, <2>1, <2>2
<1>6. CASE s # 0
  <2>1. cabinet'[0] = cabinet[0]
    BY <1>1, <1>2, <1>6, FirstServer
  <2>. QED  BY <1>1, <1>4, <1>6, <2>1
<1>. QED  BY <1>5, <1>6

LEMMA PowerStore ==
  ASSUME IInv, NEW s \in Servers, Stop(s) \/ StartAgain(s)
  PROVE  /\ UNCHANGED <<ofClient, file, wpc, wcmd, nodes, net>>
         /\ \/ cabinet'[0] = cabinet[0]
            \/ cabinet'[0] = <<>> /\ \A j \in Clients : wpc[j][0] \in {"none", "closed"}
<1>1. UNCHANGED <<ofClient, file, wpc, wcmd, nodes, net>>
  BY DEF Stop, StartAgain, ofServer
<1>2. CASE StartAgain(s)
  BY <1>1, <1>2 DEF StartAgain, ofServer
<1>3. CASE Stop(s)
  <2>1. cabinet' = [cabinet EXCEPT ![s] = <<>>] /\ Joined(s) /\ cabinet \in [Servers -> Seq(Full)]
    BY <1>3 DEF Stop, Gone, MainReturns, IInv, Types, ServerTypes
  <2>2. CASE s = 0
    BY <1>1, <2>1, <2>2, FirstServer DEF Joined
  <2>3. CASE s # 0
    BY <1>1, <2>1, <2>3, FirstServer
  <2>. QED  BY <2>2, <2>3
<1>. QED  BY <1>2, <1>3

LEMMA NextStore ==
  ASSUME IInv, OriginInv, TrackInv, StoreInv, [Next]_vars
  PROVE  StoreInv' /\ Kept0
<1>1. CASE \E k \in Clients : Client(k)
  BY <1>1, ClientStore
<1>2. CASE \E k \in Clients : Worker(k, 0)
  BY <1>2, WorkerStore
<1>3. ASSUME NEW k \in Clients, NEW s \in Servers, s # 0, Worker(k, s)
      PROVE  StoreInv' /\ Kept0
  <2>1. /\ cabinet'[0] = cabinet[0] /\ file'[0] = file[0] /\ cmd' = cmd /\ sent' = sent
        /\ \A j \in Clients :
              /\ wpc'[j][0] = wpc[j][0] /\ wcmd'[j][0] = wcmd[j][0] /\ nodes'[j][0] = nodes[j][0]
              /\ toServer'[j][0] = toServer[j][0]
    BY <1>3, ElsewhereStore
  <2>2. OnceInv'
    BY <2>1, EndingOnce DEF StoreInv
  <2>. QED  BY <2>1, <2>2, EndingStore DEF IInv
<1>4. ASSUME NEW k \in Clients, NEW s \in Servers, Die(k, s)
      PROVE  StoreInv' /\ Kept0
  <2>1. /\ UNCHANGED <<ofClient, file, wcmd, nodes, toServer>>
        /\ \A j \in Clients : wpc'[j][0] = wpc[j][0] \/ wpc'[j][0] = "closed"
        /\ \/ cabinet'[0] = cabinet[0]
           \/ cabinet'[0] = <<>> /\ \A j \in Clients : wpc'[j][0] \in {"none", "closed"}
    BY <1>4, DieStore
  <2>2. cmd' = cmd /\ sent' = sent
    BY <2>1 DEF ofClient
  <2>3. OnceInv'
    BY <2>1, <2>2, EndingOnce DEF StoreInv
  <2>. QED  BY <2>1, <2>3, EndingStore DEF IInv
<1>5. CASE (\E s \in Servers : Stop(s) \/ StartAgain(s)) \/ UNCHANGED vars
  <2>1. /\ UNCHANGED <<cmd, sent, file, wpc, wcmd, nodes, toServer>>
        /\ \/ cabinet'[0] = cabinet[0]
           \/ cabinet'[0] = <<>> /\ \A j \in Clients : wpc[j][0] \in {"none", "closed"}
    <3>1. CASE \E s \in Servers : Stop(s) \/ StartAgain(s)
      BY <3>1, PowerStore DEF ofClient, net
    <3>2. CASE UNCHANGED vars
      BY <3>2 DEF vars, ofClient, ofServer, net
    <3>. QED  BY <1>5, <3>1, <3>2
  <2>2. OnceInv'
    BY <2>1, EndingOnce DEF StoreInv
  <2>. QED  BY <2>1, <2>2, EndingStore DEF IInv
<1>. QED  BY <1>1, <1>2, <1>3, <1>4, <1>5 DEF Next, SendNothing, Terminating

LEMMA InitStore ==
  ASSUME Init
  PROVE  StoreInv
<1>1. /\ cabinet[0] = NodesBefore(0) /\ DOMAIN file[0] \subseteq Ids
      /\ \A id \in DOMAIN file[0] : file[0][id] = Body(id[1], id[2], id[3])
      /\ \A k \in Clients : wpc[k][0] = "none"
  <2>1. file[0] \in Contents
    BY InitTypes, FirstServer DEF Types, ServerTypes
  <2>2. DOMAIN file[0] \subseteq Ids
    BY <2>1 DEF Contents
  <2>. QED  BY <2>2, FirstServer DEF Init
<1>2. FitInv
  <2> SUFFICES ASSUME NEW x \in Range(cabinet[0]) PROVE Fits(x)
    BY DEF FitInv
  <2>1. x \in Fitting
    BY <1>1, NodesBeforeFit DEF Range
  <2>2. Id(x) \in DOMAIN file[0] => Len(file[0][Id(x)]) =< Value(x.size)
    <3> SUFFICES ASSUME Id(x) \in DOMAIN file[0] PROVE Len(file[0][Id(x)]) =< Value(x.size)
      OBVIOUS
    <3>1. /\ x.name \in Names /\ x.ver = 0 /\ x.chunk \in Chunks /\ 0 \in Versions
          /\ ChunkSize(x.name, x.chunk) =< Value(x.size)
      BY <2>1 DEF Fitting, Full, Versions
    <3>2. file[0][Id(x)] = Body(x.name, 0, x.chunk)
      BY <1>1, <3>1 DEF Id
    <3>3. Len(Body(x.name, 0, x.chunk)) = ChunkSize(x.name, x.chunk)
      BY <3>1, BodyType
    <3>. QED  BY <3>1, <3>2, <3>3
  <2>3. \A j \in Clients : wpc[j][0] \notin Making
    BY <1>1 DEF Making
  <2>. QED  BY <2>2, <2>3 DEF Fits
<1>3. ReadInv
  BY <1>1 DEF ReadInv, Reads
<1>4. TextInv
  <2> SUFFICES ASSUME NEW id \in DOMAIN file[0] PROVE file[0][id] \in Seq(Sent(NotGets))
    BY DEF TextInv
  <2>1. id[1] \in Names /\ id[2] \in Versions /\ id[3] \in Chunks
    BY <1>1 DEF Ids
  <2>. QED  BY <1>1, <2>1, BodySent
<1>. QED  BY <1>2, <1>3, <1>4, InitOnce DEF StoreInv

(* A header, and nothing else, is read.                                    *)
LEMMA LineRead ==
  ASSUME NEW old \in Cmds, NEW h \in Cmds, h.op \in {"get", "put"}
  PROVE  Parsed(old, HeaderCells(h)) = [h EXCEPT !.size = Overwrite(old.size, h.size)]
<1> DEFINE buf == HeaderCells(h)
           text == Text(buf)
           n == Len(text)
           new == [h EXCEPT !.size = Overwrite(old.size, h.size)]
<1> HIDE DEF new
<1>0. HdrLen \in Nat /\ HdrLen > 2
  BY DfsAssumption
<1>1. /\ buf \in Seq(AnyCells) /\ Len(buf) = HdrLen
      /\ \A i \in 1..HdrLen : buf[i] = <<"head", h, i>>
  <2>1. \A i \in 1..HdrLen : <<"head", h, i>> \in AnyCells
    BY <1>0 DEF AnyCells
  <2>. QED  BY <1>0, <2>1 DEF HeaderCells
<1> HIDE DEF buf
<1>2. \A i \in 1..HdrLen : buf[i] # <<"nul">>
  BY <1>1
<1>3. HdrLen \in 1..Len(buf)
  BY <1>0, <1>1
<1>4. text \in Seq(AnyCells) /\ n = HdrLen /\ \A i \in 1..n : text[i] = buf[i]
  <2>1. /\ text \in Seq(AnyCells) /\ n =< Len(buf) /\ \A i \in 1..n : text[i] = buf[i]
        /\ \A m \in 1..Len(buf) : (\A i \in 1..m : buf[i] # <<"nul">>) => m =< n
    BY <1>1, TextIs
  <2>2. HdrLen =< n
    BY <1>2, <1>3, <2>1
  <2>3. n \in Nat
    BY <2>1
  <2> HIDE DEF text, n
  <2>. QED  BY <1>0, <1>1, <2>1, <2>2, <2>3
<1>5. PICK t : /\ t[0] = old
               /\ \A i \in 1..n : t[i] = Line(text, t[i - 1], i)
               /\ Parsed(old, buf) = t[n]
  <2>1. n \in Nat /\ DOMAIN text = 1..n
    BY <1>4
  <2>. QED  BY <2>1, ParsedByCells
<1> HIDE DEF text, n
<1>6. \A i \in 1..n : text[i] = <<"head", h, i>>
  BY <1>1, <1>4
<1>7. t[2] = new
  <2>1. n \in Nat /\ 1 \in 1..n /\ 2 \in 1..n /\ 1 - 1 = 0 /\ 2 - 1 = 1
    BY <1>0, <1>4
  <2>2. t[1] = Line(text, t[0], 1) /\ t[2] = Line(text, t[1], 2)
    BY <1>5, <2>1
  <2>3. t[1] = [old EXCEPT !.op = h.op]
    <3>1. text[1] = <<"head", h, 1>>
      BY <1>6, <2>1
    <3>2. IsLine(text, 1, 1) /\ ~IsLine(text, 1, 2) /\ text[1][2] = h
      BY <3>1 DEF IsLine
    <3>3. h.op # ""
      OBVIOUS
    <3>. QED  BY <1>5, <2>2, <3>2, <3>3 DEF Line
  <2>4. t[1].op = h.op /\ t[1].size = old.size
    <3>1. h.op \in Ops
      BY DEF Cmds
    <3>. QED  BY <2>3, <3>1, OpOf
  <2>5. t[2] = Fields(t[1], h)
    <3>1. text[2] = <<"head", h, 2>>
      BY <1>6, <2>1
    <3>2. ~IsLine(text, 2, 1) /\ IsLine(text, 2, 2) /\ text[2][2] = h
      BY <3>1 DEF IsLine
    <3>. QED  BY <2>2, <3>2 DEF Line
  <2>6. Fields(t[1], h) = new
    BY <2>4 DEF Fields, Cmds, new
  <2>. QED  BY <2>5, <2>6
<1> DEFINE P == {m \in Nat : 2 =< m /\ m =< n => t[m] = new}
<1>8. ASSUME NEW m \in Nat, \A l \in Nat : l < m => l \in P
      PROVE  m \in P
  <2> SUFFICES ASSUME 2 =< m, m =< n PROVE t[m] = new
    OBVIOUS
  <2>1. CASE m = 2
    BY <1>7, <2>1
  <2>2. CASE m # 2
    <3>1. m \in 1..n /\ m - 1 \in Nat /\ m - 1 < m /\ 2 =< m - 1 /\ m - 1 =< n /\ m # 1
      BY <1>0, <1>4, <2>2
    <3>2. t[m - 1] = new
      BY <1>8, <3>1
    <3>3. text[m] = <<"head", h, m>> /\ t[m] = Line(text, t[m - 1], m)
      BY <1>5, <1>6, <3>1
    <3>4. ~IsLine(text, m, 1) /\ ~IsLine(text, m, 2)
      BY <2>2, <3>1, <3>3 DEF IsLine
    <3>. QED  BY <3>2, <3>3, <3>4 DEF Line
  <2>. QED  BY <2>1, <2>2
<1>9. n \in Nat /\ n =< n /\ 2 =< n
  BY <1>0, <1>4
<1>10. n \in P
  <2> HIDE DEF P
  <2>. QED  BY <1>8, <1>9, NaturalsAll
<1>. QED  BY <1>5, <1>9, <1>10 DEF buf, new

(* Nothing of what is read begins a header with the command get.           *)
NoGetIn(buf) ==
  \A i \in 1..Len(buf) :
    buf[i][1] = "head" /\ buf[i][3] = 1 /\ (i = 1 \/ buf[i - 1][1] = "head") => buf[i][2].op # "get"

LEMMA NoGetRead ==
  ASSUME NEW old \in Cmds, old.op # "get", NEW buf \in Seq(Cells), NoGetIn(buf)
  PROVE  Parsed(old, buf).op # "get"
<1> DEFINE text == Text(buf)
           n == Len(text)
<1>1. /\ text \in Seq(Cells) /\ n =< Len(buf) /\ \A i \in 1..n : text[i] = buf[i]
      /\ n \in Nat /\ Len(buf) \in Nat
  BY TextIs
<1>2. PICK t : /\ t[0] = old
               /\ \A i \in 1..n : t[i] = Line(text, t[i - 1], i)
               /\ Parsed(old, buf) = t[n]
  BY <1>1, ParsedByCells
<1> HIDE DEF text
<1>3. ASSUME NEW i \in 1..n, IsLine(text, i, 1), i = 1 \/ text[i - 1][1] = "head"
      PROVE  text[i][2].op # "get"
  <2>1. i \in 1..Len(buf) /\ text[i] = buf[i]
    BY <1>1
  <2>2. i # 1 => text[i - 1] = buf[i - 1]
    <3>1. i # 1 => i - 1 \in 1..n
      BY <1>1
    <3>. QED  BY <1>1, <3>1
  <2>. QED  BY <1>3, <2>1, <2>2 DEF NoGetIn, IsLine
<1> DEFINE P == {m \in Nat : m =< n => t[m] \in Cmds /\ t[m].op # "get"}
<1>4. ASSUME NEW m \in Nat, \A l \in Nat : l < m => l \in P
      PROVE  m \in P
  <2> SUFFICES ASSUME m =< n PROVE t[m] \in Cmds /\ t[m].op # "get"
    OBVIOUS
  <2>1. CASE m = 0
    BY <1>2, <2>1
  <2>2. CASE m # 0
    <3>1. m \in 1..n /\ m - 1 \in Nat /\ m - 1 < m /\ m - 1 =< n
      BY <1>1, <2>2
    <3>2. t[m - 1] \in Cmds /\ t[m - 1].op # "get"
      BY <1>4, <3>1
    <3>3. t[m] = Line(text, t[m - 1], m)
      BY <1>2, <3>1
    <3>4. IsLine(text, m, 1) \/ IsLine(text, m, 2) => text[m][2] \in Cmds /\ text[m][2].op \in Ops
      <4> SUFFICES ASSUME text[m][1] = "head" PROVE text[m][2] \in Cmds /\ text[m][2].op \in Ops
        BY DEF IsLine
      <4>1. text[m] \in Cells
        BY <1>1, <3>1
      <4>2. text[m][2] \in Full
        BY <4>1 DEF Cells, Plain
      <4>. QED  BY <4>2, FullIsGood DEF Good, Full
    <3>5. ~(IsLine(text, m, 1) /\ IsLine(text, m, 2))
      BY DEF IsLine
    <3>6. CASE IsLine(text, m, 2)
      <4>1. t[m] = Fields(t[m - 1], text[m][2])
        BY <3>3, <3>5, <3>6 DEF Line
      <4>. QED  BY <3>2, <3>4, <3>6, <4>1, FieldsOf
    <3>7. CASE IsLine(text, m, 1) /\ (m = 1 \/ text[m - 1][1] = "head")
      <4>1. text[m][2].op # "get"
        BY <1>3, <3>1, <3>7
      <4>2. t[m] = [t[m - 1] EXCEPT !.op = text[m][2].op] \/ t[m] = t[m - 1]
        BY <3>3, <3>5, <3>7 DEF Line
      <4> DEFINE c == t[m - 1]
                 op == text[m][2].op
      <4>3. c \in Cmds /\ op \in Ops /\ op # "get" /\ c.op # "get"
        BY <3>2, <3>4, <3>7, <4>1
      <4>4. t[m] = [c EXCEPT !.op = op] \/ t[m] = c
        BY <4>2
      <4> HIDE DEF c, op
      <4>5. [c EXCEPT !.op = op] \in Cmds /\ [c EXCEPT !.op = op].op = op
        BY <4>3, OpOf
      <4>. QED  BY <4>3, <4>4, <4>5
    <3>8. CASE ~IsLine(text, m, 2) /\ ~(IsLine(text, m, 1) /\ (m = 1 \/ text[m - 1][1] = "head"))
      BY <3>2, <3>3, <3>8 DEF Line
    <3>. QED  BY <3>6, <3>7, <3>8
  <2>. QED  BY <2>1, <2>2
<1>5. n \in Nat /\ n =< n
  BY <1>1
<1>6. n \in P
  <2> HIDE DEF P, n
  <2>. QED  BY <1>4, <1>5, NaturalsAll
<1>. QED  BY <1>2, <1>5, <1>6

-----------------------------------------------------------------------------
(* What is on its way to a get from server 0.  V are the chunks on the     *)
(* disk that it may get, and N has the one that comes next, if it is one   *)
(* of these; w is where the worker is, T what has been sent.  It is u that *)
(* the get may be left without a chunk, e that the worker may end without  *)
(* sending one, and o that the next node is one the get asked for.         *)
Followed(z, w) == (z = <<>> /\ w \in {"send", "closed"}) \/ Begins(z, Full)

Coming(V, N, w, T, m) ==
  \/ T = <<>> /\ w = "sendbody" /\ \E v \in N : Len(v) =< m
  \/ \E v \in V : \E z \in Seq(Cells) :
       T = Block(v) \o z /\ Len(v) =< m /\ Followed(z, w)

Waits(w, T, e, o) ==
  /\ T = <<>> /\ w \in {"none", "first", "find", "send", "closed"}
  /\ w = "closed" => e
  /\ w = "send" => o

Answers(V, N, w, T) ==
  \E h \in Full : \E y \in Seq(Cells) :
    /\ T = HeaderCells(h) \o y /\ h.op = "get" /\ Len(h.size) =< 2
    /\ Coming(V, N, w, y, Value(h.size))

Read(V, g) == \E v \in V : ReadsAs(v, g)

(* Where the client is with server 0: no header has come, one has, the     *)
(* chunk has, and it asks the other server.  What is left of a chunk is    *)
(* what followed the buffer of send_chunk.                                 *)
Junk == {<<"nul">>, <<"memory">>}

BeforeHeader(V, N, w, T, e, o, u, q, r, g) ==
  /\ g = <<>> /\ r.size = <<>> /\ q \in {"ask", "header", "body", "next"}
  /\ Waits(w, T, e, o) \/ Answers(V, N, w, T)
  /\ q \in {"body", "next"} => u

BeforeChunk(V, N, w, T, u, q, r, g) ==
  /\ g = <<>> /\ Len(r.size) =< 2 /\ q \in {"body", "next"}
  /\ Coming(V, N, w, T, Value(r.size))
  /\ q = "next" => u \/ (Value(r.size) = 0 /\ T = <<>>)

AfterChunk(V, w, T, q, g) ==
  /\ q = "next" /\ Read(V, g)
  /\ \E j \in Seq(Junk) : \E z \in Seq(Cells) : j # <<>> /\ T = j \o z /\ Followed(z, w)

AfterAll(V, u, g) == Read(V, g) \/ (g = <<>> /\ u)

Flow(V, N, w, T, e, o, u, a, q, r, g) ==
  IF a = 0
  THEN \/ BeforeHeader(V, N, w, T, e, o, u, q, r, g)
       \/ BeforeChunk(V, N, w, T, u, q, r, g)
       \/ AfterChunk(V, w, T, q, g)
  ELSE AfterAll(V, u, g)

(* What a step of the worker does to it.                                   *)
FlowStep(V, N, w, S, e, o, u, a, q, r, g, M, x, T, p) ==
  Flow(V, N, w, S, e, o, u, a, q, r, g) => Flow(V, M, x, T, e, p, u, a, q, r, g)

(* More chunks are written.                                                *)
LEMMA FlowGrows ==
  ASSUME NEW V, NEW W, V \subseteq W, NEW N, NEW w, NEW T, NEW e, NEW o, NEW u, NEW a, NEW q,
         NEW r, NEW g, Flow(V, N, w, T, e, o, u, a, q, r, g)
  PROVE  Flow(W, N, w, T, e, o, u, a, q, r, g)
<1>1. \A y, m : Coming(V, N, w, y, m) => Coming(W, N, w, y, m)
  BY DEF Coming
<1>2. Answers(V, N, w, T) => Answers(W, N, w, T)
  BY <1>1 DEF Answers
<1>3. Read(V, g) => Read(W, g)
  BY DEF Read
<1>. QED  BY <1>1, <1>2, <1>3 DEF Flow, BeforeHeader, BeforeChunk, AfterChunk, AfterAll

(* The worker has sent nothing yet.                                        *)
LEMMA FlowBefore ==
  ASSUME NEW V, NEW N, NEW w \in {"first", "find"}, NEW T, NEW e, NEW o, NEW u, NEW a, NEW q,
         NEW r, NEW g,
         NEW M, NEW x \in {"find", "send", "closed"}, NEW p, x = "closed" => e, x = "send" => p
  PROVE  FlowStep(V, N, w, T, e, o, u, a, q, r, g, M, x, T, p)
<1> SUFFICES ASSUME Flow(V, N, w, T, e, o, u, a, q, r, g)
             PROVE  Flow(V, M, x, T, e, p, u, a, q, r, g)
  BY DEF FlowStep
<1>1. \A z : Followed(z, w) => Followed(z, x)
  BY DEF Followed
<1>2. \A y, m : Coming(V, N, w, y, m) => Coming(V, M, x, y, m)
  BY <1>1 DEF Coming
<1>3. Waits(w, T, e, o) => Waits(x, T, e, p)
  BY DEF Waits
<1>4. Answers(V, N, w, T) => Answers(V, M, x, T)
  BY <1>2 DEF Answers
<1>. QED  BY <1>1, <1>2, <1>3, <1>4 DEF Flow, BeforeHeader, BeforeChunk, AfterChunk, AfterAll

(* It sends.                                                               *)
LEMMA BeginsNow ==
  ASSUME NEW h \in Full, NEW y \in Seq(Cells)
  PROVE  HeaderCells(h) \o y \in Seq(Cells) /\ Begins(HeaderCells(h) \o y, Full)
<1>1. HeaderCells(h) \in Seq(Cells) /\ Begins(HeaderCells(h), Full)
  BY HeaderType
<1>. QED  BY <1>1, BeginsMore

LEMMA FollowedMore ==
  ASSUME NEW z \in Seq(Cells), NEW w, Followed(z, w), NEW cells \in Seq(Cells), NEW x,
         z = <<>> => Begins(cells, Full)
  PROVE  z \o cells \in Seq(Cells) /\ Followed(z \o cells, x)
<1>1. CASE z = <<>>
  <2>1. z \o cells = cells
    BY <1>1
  <2>. QED  BY <1>1, <2>1 DEF Followed
<1>2. CASE z # <<>>
  BY <1>2, BeginsMore DEF Followed
<1>. QED  BY <1>1, <1>2

(* A block is never empty, and bytes of the chunk are its first cells.     *)
LEMMA BlockIs ==
  ASSUME NEW v \in Seq(Cells) \ {<<>>}
  PROVE  /\ Block(v) \in Seq(Cells) /\ Len(Block(v)) = 2 * HdrLen /\ DOMAIN Block(v) = 1..2 * HdrLen
         /\ \A i \in 1..2 * HdrLen :
              Block(v)[i] = IF i =< Len(v) THEN v[i]
                            ELSE IF i =< HdrLen THEN <<"nul">> ELSE <<"memory">>
         /\ \A z \in Seq(Cells) : Block(v) \o z # <<>>
<1>1. HdrLen \in Nat /\ HdrLen > 2 /\ Block(v) \in Seq(Cells)
  BY DfsAssumption, BlockType
<1>2. /\ DOMAIN Block(v) = 1..2 * HdrLen
      /\ \A i \in 1..2 * HdrLen :
              Block(v)[i] = IF i =< Len(v) THEN v[i]
                            ELSE IF i =< HdrLen THEN <<"nul">> ELSE <<"memory">>
  BY DEF Block
<1> DEFINE b == Block(v)
<1>3. b \in Seq(Cells) /\ DOMAIN b = 1..2 * HdrLen
  BY <1>1, <1>2
<1>4. Len(b) = 2 * HdrLen /\ \A z \in Seq(Cells) : b \o z # <<>>
  <2> HIDE DEF b
  <2>1. Len(b) = 2 * HdrLen
    BY <1>1, <1>3
  <2>2. Len(b) > 0
    BY <1>1, <2>1
  <2>. QED  BY <1>3, <2>1, <2>2
<1>. QED  BY <1>1, <1>2, <1>4

LEMMA EmptyJoined ==
  ASSUME NEW S, NEW t \in Seq(S)
  PROVE  <<>> \o t = t /\ t \o <<>> = t /\ <<>> \in Seq(S)
OBVIOUS

LEMMA JoinedMore ==
  ASSUME NEW b \in Seq(Cells), NEW z \in Seq(Cells), NEW t \in Seq(Cells), NEW y, y = b \o z
  PROVE  y \o t = b \o (z \o t)
<1>1. (b \o z) \o t = b \o (z \o t)
  BY SMT
<1>. QED  BY <1>1

LEMMA ComingSent ==
  ASSUME NEW V, V \subseteq Seq(Cells), NEW N, NEW w, NEW y \in Seq(Cells), NEW m,
         Coming(V, N, w, y, m), NEW cells \in Seq(Cells), NEW x, NEW M,
         \/ w = "send" /\ Begins(cells, Full)
         \/ /\ w = "sendbody" /\ x \in {"send", "closed"}
            /\ \A v \in N : v \in V /\ cells = Block(v)
  PROVE  y \o cells \in Seq(Cells) /\ Coming(V, M, x, y \o cells, m)
<1>1. y \o cells \in Seq(Cells)
  OBVIOUS
<1>2. CASE y = <<>> /\ w = "sendbody" /\ \E v \in N : Len(v) =< m
  <2>1. PICK v \in N : Len(v) =< m
    BY <1>2
  <2>2. v \in V /\ cells = Block(v)
    BY <1>2, <2>1
  <2>3. y \o cells = Block(v) \o <<>> /\ <<>> \in Seq(Cells)
    BY <1>2, <2>2, EmptyJoined
  <2>4. Followed(<<>>, x)
    BY <1>2 DEF Followed
  <2>. QED  BY <1>1, <2>1, <2>2, <2>3, <2>4 DEF Coming
<1>3. CASE \E v \in V : \E z \in Seq(Cells) :
             y = Block(v) \o z /\ Len(v) =< m /\ Followed(z, w)
  <2>1. PICK v \in V : \E z \in Seq(Cells) :
             y = Block(v) \o z /\ Len(v) =< m /\ Followed(z, w)
    BY <1>3
  <2>2. PICK z \in Seq(Cells) : y = Block(v) \o z /\ Len(v) =< m /\ Followed(z, w)
    BY <2>1
  <2>3. z = <<>> => Begins(cells, Full)
    BY <2>2, BeginsNotEmpty DEF Followed
  <2>4. z \o cells \in Seq(Cells) /\ Followed(z \o cells, x)
    BY <2>2, <2>3, FollowedMore
  <2>5. y \o cells = Block(v) \o (z \o cells)
    <3>1. Block(v) \in Seq(Cells)
      BY BlockType
    <3>. QED  BY <2>2, <3>1, JoinedMore
  <2> DEFINE t == y \o cells
             r == z \o cells
             b == Block(v)
  <2>6. t = b \o r /\ r \in Seq(Cells) /\ Len(v) =< m /\ Followed(r, x)
    BY <2>2, <2>4, <2>5
  <2> HIDE DEF t, r, b
  <2>7. \E i \in V : \E j \in Seq(Cells) : t = Block(i) \o j /\ Len(i) =< m /\ Followed(j, x)
    BY <2>6, Zenon DEF b
  <2>8. Coming(V, M, x, t, m)
    BY <2>7, Zenon DEF Coming
  <2>. QED  BY <1>1, <2>8 DEF t
<1>. QED  BY <1>2, <1>3 DEF Coming

LEMMA FlowHeaderSent ==
  ASSUME NEW V, V \subseteq Seq(Cells) \ {<<>>}, NEW N, NEW T \in Seq(Cells), NEW e, NEW o,
         NEW u, NEW a,
         NEW q, NEW r, NEW g, Flow(V, N, "send", T, e, o, u, a, q, r, g),
         NEW h \in Full, h.op = "get", Len(h.size) =< 2, NEW M, NEW p,
         o => \E v \in M : Len(v) =< Value(h.size)
  PROVE  Flow(V, M, "sendbody", T \o HeaderCells(h), e, p, u, a, q, r, g)
<1> DEFINE cells == HeaderCells(h)
<1>1. cells \in Seq(Cells) /\ Begins(cells, Full)
  BY HeaderType
<1>2. \A m : \A y \in Seq(Cells) :
        Coming(V, N, "send", y, m) => Coming(V, M, "sendbody", y \o cells, m)
  BY <1>1, ComingSent
<1>3. ASSUME Waits("send", T, e, o) \/ Answers(V, N, "send", T)
      PROVE  Answers(V, M, "sendbody", T \o cells)
  <2>1. CASE Waits("send", T, e, o)
    <3>1. T \o cells = cells /\ cells = cells \o <<>> /\ <<>> \in Seq(Cells)
      BY <1>1, <2>1, EmptyJoined DEF Waits
    <3>2. Coming(V, M, "sendbody", <<>>, Value(h.size))
      BY <2>1 DEF Waits, Coming
    <3>. QED  BY <3>1, <3>2 DEF Answers
  <2>2. CASE Answers(V, N, "send", T)
    <3>1. PICK i \in Full : \E y \in Seq(Cells) :
            /\ T = HeaderCells(i) \o y /\ i.op = "get" /\ Len(i.size) =< 2
            /\ Coming(V, N, "send", y, Value(i.size))
      BY <2>2 DEF Answers
    <3>2. PICK y \in Seq(Cells) :
            /\ T = HeaderCells(i) \o y /\ i.op = "get" /\ Len(i.size) =< 2
            /\ Coming(V, N, "send", y, Value(i.size))
      BY <3>1
    <3>3. y \o cells \in Seq(Cells) /\ Coming(V, M, "sendbody", y \o cells, Value(i.size))
      BY <1>1, <1>2, <3>2
    <3>4. T \o cells = HeaderCells(i) \o (y \o cells)
      <4>1. HeaderCells(i) \in Seq(Cells)
        BY HeaderType
      <4>2. (HeaderCells(i) \o y) \o cells = HeaderCells(i) \o (y \o cells)
        <5> HIDE DEF cells
        <5>. QED  BY <1>1, <4>1, Associates
      <4>. QED  BY <3>2, <4>2
    <3>. QED  BY <3>2, <3>3, <3>4 DEF Answers
  <2>. QED  BY <1>3, <2>1, <2>2
<1>4. \A z \in Seq(Cells) : Followed(z, "send") =>
        z \o cells \in Seq(Cells) /\ Followed(z \o cells, "sendbody")
  BY <1>1, FollowedMore
<1>5. AfterChunk(V, "send", T, q, g) => AfterChunk(V, "sendbody", T \o cells, q, g)
  <2> SUFFICES ASSUME AfterChunk(V, "send", T, q, g)
               PROVE  \E j \in Seq(Junk) : \E z \in Seq(Cells) :
                        j # <<>> /\ T \o cells = j \o z /\ Followed(z, "sendbody")
    BY DEF AfterChunk
  <2>1. PICK j \in Seq(Junk) : \E z \in Seq(Cells) : j # <<>> /\ T = j \o z /\ Followed(z, "send")
    BY DEF AfterChunk
  <2>2. PICK z \in Seq(Cells) : j # <<>> /\ T = j \o z /\ Followed(z, "send")
    BY <2>1
  <2>3. T \o cells = j \o (z \o cells)
    <3>1. Junk \subseteq Cells
      BY DEF Junk, Cells, Plain
    <3>2. j \in Seq(Cells)
      BY <3>1
    <3>. QED  BY <1>1, <2>2, <3>2, Associates
  <2>. QED  BY <1>4, <2>2, <2>3
<1> HIDE DEF cells
<1>6. BeforeChunk(V, N, "send", T, u, q, r, g) =>
        BeforeChunk(V, M, "sendbody", T \o cells, u, q, r, g)
  <2>1. Coming(V, N, "send", T, Value(r.size)) => T # <<>>
    <3> SUFFICES ASSUME Coming(V, N, "send", T, Value(r.size)) PROVE T # <<>>
      OBVIOUS
    <3>1. PICK v \in V : \E z \in Seq(Cells) : T = Block(v) \o z
      BY DEF Coming
    <3>. QED  BY <3>1, BlockIs
  <2>. QED  BY <1>2, <2>1 DEF BeforeChunk
<1>. QED  BY <1>3, <1>5, <1>6 DEF Flow, BeforeHeader, AfterAll, cells

(* It sends a chunk, a block, and goes on.                                 *)
BodyIs(V, N, T, cells, x) ==
  /\ V \subseteq Seq(Cells) \ {<<>>} /\ T \in Seq(Cells) /\ cells \in Seq(Cells)
  /\ x \in {"send", "closed"}
  /\ \A v \in N : v \in V /\ cells = Block(v)

LEMMA FlowBodySent ==
  ASSUME NEW V, NEW N, NEW T, NEW e, NEW o, NEW u, NEW a, NEW q, NEW r, NEW g, NEW cells,
         NEW x, NEW M, NEW p, BodyIs(V, N, T, cells, x)
  PROVE  FlowStep(V, N, "sendbody", T, e, o, u, a, q, r, g, M, x, T \o cells, p)
<1>0. /\ V \subseteq Seq(Cells) \ {<<>>} /\ T \in Seq(Cells) /\ cells \in Seq(Cells)
      /\ x \in {"send", "closed"}
      /\ \A v \in N : v \in V /\ cells = Block(v)
  BY DEF BodyIs
<1> USE <1>0
<1> SUFFICES ASSUME Flow(V, N, "sendbody", T, e, o, u, a, q, r, g)
             PROVE  Flow(V, M, x, T \o cells, e, p, u, a, q, r, g)
  BY DEF FlowStep
<1>1. V \subseteq Seq(Cells)
  OBVIOUS
<1>2. \A m : \A y \in Seq(Cells) :
        Coming(V, N, "sendbody", y, m) => Coming(V, M, x, y \o cells, m)
  BY <1>1, ComingSent
<1>3. Answers(V, N, "sendbody", T) => Answers(V, M, x, T \o cells)
  <2> SUFFICES ASSUME Answers(V, N, "sendbody", T) PROVE Answers(V, M, x, T \o cells)
    OBVIOUS
  <2>1. PICK i \in Full : \E y \in Seq(Cells) :
          /\ T = HeaderCells(i) \o y /\ i.op = "get" /\ Len(i.size) =< 2
          /\ Coming(V, N, "sendbody", y, Value(i.size))
    BY DEF Answers
  <2>2. PICK y \in Seq(Cells) :
          /\ T = HeaderCells(i) \o y /\ i.op = "get" /\ Len(i.size) =< 2
          /\ Coming(V, N, "sendbody", y, Value(i.size))
    BY <2>1
  <2>3. y \o cells \in Seq(Cells) /\ Coming(V, M, x, y \o cells, Value(i.size))
    BY <1>2, <2>2
  <2>4. T \o cells = HeaderCells(i) \o (y \o cells)
    <3>1. HeaderCells(i) \in Seq(Cells)
      BY HeaderType
    <3>. QED  BY <2>2, <3>1, Associates
  <2>. QED  BY <2>2, <2>3, <2>4 DEF Answers
<1>4. ~Waits("sendbody", T, e, o)
  BY DEF Waits
<1>5. AfterChunk(V, "sendbody", T, q, g) => AfterChunk(V, x, T \o cells, q, g)
  <2> SUFFICES ASSUME AfterChunk(V, "sendbody", T, q, g)
               PROVE  \E j \in Seq(Junk) : \E z \in Seq(Cells) :
                        j # <<>> /\ T \o cells = j \o z /\ Followed(z, x)
    BY DEF AfterChunk
  <2>1. PICK j \in Seq(Junk) : \E z \in Seq(Cells) :
          j # <<>> /\ T = j \o z /\ Followed(z, "sendbody")
    BY DEF AfterChunk
  <2>2. PICK z \in Seq(Cells) : j # <<>> /\ T = j \o z /\ Followed(z, "sendbody")
    BY <2>1
  <2>3. T \o cells = j \o (z \o cells)
    <3>1. Junk \subseteq Cells
      BY DEF Junk, Cells, Plain
    <3>2. j \in Seq(Cells)
      BY <3>1
    <3>. QED  BY <2>2, <3>2, Associates
  <2>4. z = <<>> => Begins(cells, Full)
    BY <2>2, BeginsNotEmpty DEF Followed
  <2>5. z \o cells \in Seq(Cells) /\ Followed(z \o cells, x)
    BY <2>2, <2>4, FollowedMore
  <2>. QED  BY <2>2, <2>3, <2>5
<1>6. BeforeChunk(V, N, "sendbody", T, u, q, r, g) => BeforeChunk(V, M, x, T \o cells, u, q, r, g)
  <2> SUFFICES ASSUME BeforeChunk(V, N, "sendbody", T, u, q, r, g), q = "next", ~u
               PROVE  FALSE
    BY <1>2 DEF BeforeChunk
  <2>1. Value(r.size) = 0 /\ T = <<>> /\ Coming(V, N, "sendbody", T, Value(r.size))
    BY DEF BeforeChunk
  <2>2. PICK v \in V : Len(v) =< 0
    BY <2>1, BlockIs DEF Coming
  <2>3. v \in Seq(Cells) /\ v # <<>>
    OBVIOUS
  <2>. QED  BY <2>2, <2>3
<1>. QED  BY <1>3, <1>4, <1>5, <1>6 DEF Flow, BeforeHeader, AfterAll

(* A whole chunk is read, and what is left of its block is junk.           *)
LEMMA JunkIsCells == Seq(Junk) \subseteq Seq(Cells)
<1>1. Junk \subseteq Cells
  BY DEF Junk, Cells, Plain
<1>. QED  BY <1>1

LEMMA PartOfBlock ==
  ASSUME NEW S, NEW b \in Seq(S), NEW n \in Nat, n < Len(b)
  PROVE  LET buf == SubSeq(b, 1, n)
             j == SubSeq(b, n + 1, Len(b)) IN
         /\ buf \in Seq(S) /\ Len(buf) = n /\ DOMAIN buf = 1..n /\ \A i \in 1..n : buf[i] = b[i]
         /\ j \in Seq(S) /\ j # <<>> /\ \A i \in DOMAIN j : j[i] = b[i + n] /\ i + n \in DOMAIN b
                                                           /\ i + n > n
<1> DEFINE j == SubSeq(b, n + 1, Len(b))
           buf == SubSeq(b, 1, n)
<1>1. buf \in Seq(S) /\ Len(buf) = n /\ DOMAIN buf = 1..n /\ \A i \in 1..n : buf[i] = b[i]
  OBVIOUS
<1>2. /\ j \in Seq(S) /\ Len(j) = Len(b) - n /\ DOMAIN j = 1..Len(b) - n
      /\ \A i \in DOMAIN j : j[i] = b[i + n] /\ i + n \in DOMAIN b
  BY SuffixCells
<1>3. j # <<>> /\ \A i \in DOMAIN j : i + n > n
  <2> HIDE DEF j
  <2> DEFINE l == Len(b)
  <2>0. l \in Nat /\ Len(j) = l - n /\ DOMAIN j = 1..l - n /\ n < l
    BY <1>2
  <2> HIDE DEF l
  <2>. QED  BY <1>2, <2>0
<1> HIDE DEF j, buf
<1>4. QED  BY <1>1, <1>2, <1>3 DEF j, buf

LEMMA PrefixIs ==
  ASSUME NEW S, NEW v \in Seq(S), NEW t \in Seq(S), Len(v) =< Len(t),
         \A i \in 1..Len(v) : t[i] = v[i]
  PROVE  IsPrefix(v, t)
<1>1. SubSeq(v, 1, Len(v)) = v
  OBVIOUS
<1> DEFINE x == SubSeq(t, 1, Len(v))
<1>2. x \in Seq(S) /\ Len(x) = Len(v) /\ \A i \in 1..Len(v) : x[i] = t[i]
  OBVIOUS
<1> HIDE DEF x
<1>3. x = v
  BY <1>2, SeqEqual
<1>. QED  BY <1>1, <1>3 DEF IsPrefix, x

ReadWhole(v, n, z, T) ==
  /\ Len(Taken(T, n)) = n /\ n > 0
  /\ ReadsAs(v, Text(Taken(T, n)))
  /\ \E j \in Seq(Junk) : j # <<>> /\ Remaining(T, n) = j \o z

LEMMA ChunkRead ==
  ASSUME NEW v \in Seq(Cells) \ {<<>>}, v \in Seq(Sent(NotGets)),
         NEW n \in Nat, Len(v) =< n, n < 2 * HdrLen, NEW z \in Seq(Cells),
         NEW T, T = Block(v) \o z
  PROVE  ReadWhole(v, n, z, T)
<1> SUFFICES /\ Len(Taken(T, n)) = n /\ n > 0
             /\ ReadsAs(v, Text(Taken(T, n)))
             /\ \E j \in Seq(Junk) : j # <<>> /\ Remaining(T, n) = j \o z
  BY DEF ReadWhole
<1> DEFINE b == Block(v)
           l == Len(v)
           buf == SubSeq(b, 1, n)
           j == SubSeq(b, n + 1, Len(b))
           t == Text(buf)
<1>1. HdrLen \in Nat /\ HdrLen > 2 /\ l \in Nat /\ l > 0 /\ DOMAIN v = 1..l
  BY DfsAssumption
<1>a. \A i \in 1..l : v[i] # <<"nul">>
  <2>1. \A i \in 1..l : v[i] \in Sent(NotGets)
    OBVIOUS
  <2>2. <<"nul">> \notin Sent(NotGets)
    BY DEF Sent
  <2>. QED  BY <2>1, <2>2
<1>2. /\ b \in Seq(Cells) /\ Len(b) = 2 * HdrLen /\ DOMAIN b = 1..2 * HdrLen
      /\ \A i \in 1..2 * HdrLen : b[i] = IF i =< l THEN v[i]
                                         ELSE IF i =< HdrLen THEN <<"nul">> ELSE <<"memory">>
  BY BlockIs
<1> HIDE DEF b
<1>3. Taken(T, n) = buf /\ Remaining(T, n) = j \o z
  <2>1. n \in 0..Len(b)
    BY <1>1, <1>2
  <2>. QED  BY <1>2, <2>1, TakenWithin DEF b
<1>4. /\ buf \in Seq(Cells) /\ Len(buf) = n /\ DOMAIN buf = 1..n /\ \A i \in 1..n : buf[i] = b[i]
      /\ j \in Seq(Cells) /\ j # <<>> /\ \A i \in DOMAIN j : j[i] = b[i + n] /\ i + n \in DOMAIN b
                                                            /\ i + n > n
  <2>1. n < Len(b)
    BY <1>2
  <2>. QED  BY <1>2, <2>1, PartOfBlock
<1> HIDE DEF buf, j, l
<1>5. j \in Seq(Junk)
  <2>1. ASSUME NEW i \in DOMAIN j PROVE j[i] \in Junk
    <3>1. i + n \in 1..2 * HdrLen /\ j[i] = b[i + n] /\ i + n > n
      BY <1>2, <1>4
    <3>2. ~(i + n =< l)
      BY <1>1, <3>1 DEF l
    <3>. QED  BY <1>2, <3>1, <3>2 DEF Junk
  <2>2. \E m \in Nat : j \in [1..m -> Junk]
    BY <1>4, <2>1
  <2>. QED  BY <2>2
<1>6. /\ t \in Seq(Cells) /\ Len(t) =< n /\ \A i \in 1..Len(t) : t[i] = buf[i] /\ buf[i] # <<"nul">>
      /\ \A m \in 1..n : (\A i \in 1..m : buf[i] # <<"nul">>) => m =< Len(t)
      /\ Len(t) \in Nat
  <2>1. t \in Seq(Cells) /\ Len(t) =< Len(buf)
    BY <1>4, TextIs
  <2>2. \A i \in 1..Len(t) : t[i] = buf[i] /\ buf[i] # <<"nul">>
    BY <1>4, TextIs
  <2>3. \A m \in 1..Len(buf) : (\A i \in 1..m : buf[i] # <<"nul">>) => m =< Len(t)
    BY <1>4, TextIs
  <2> HIDE DEF t
  <2>4. Len(buf) = n
    BY <1>4
  <2>5. \A m \in 1..n : (\A i \in 1..m : buf[i] # <<"nul">>) => m =< Len(t)
    BY <2>3, <2>4
  <2>6. Len(t) \in Nat /\ Len(t) =< n
    BY <2>1, <2>4
  <2>. QED  BY <2>1, <2>2, <2>5, <2>6
<1> HIDE DEF t
<1>7. l =< n /\ n \in 1..2 * HdrLen /\ n > 0
  BY <1>1 DEF l
<1>8. \A i \in 1..l : i \in 1..n /\ buf[i] = v[i] /\ buf[i] # <<"nul">>
  <2> TAKE i \in 1..l
  <2>1. i \in 1..n /\ i \in 1..2 * HdrLen /\ i =< l
    BY <1>1, <1>7
  <2>. QED  BY <1>a, <1>2, <1>4, <2>1 DEF l
<1>9. l =< Len(t)
  <2>1. l \in 1..n
    BY <1>1, <1>7
  <2>. QED  BY <1>6, <1>8, <2>1
<1>10. CASE l < HdrLen
  <2>1. Len(t) = l
    <3> SUFFICES ASSUME Len(t) # l PROVE FALSE
      OBVIOUS
    <3>1. l + 1 \in 1..Len(t) /\ l + 1 \in 1..n /\ l + 1 \in 1..2 * HdrLen /\ l + 1 =< HdrLen
          /\ ~(l + 1 =< l)
      BY <1>1, <1>6, <1>7, <1>9, <1>10
    <3>2. buf[l + 1] = <<"nul">>
      BY <1>2, <1>4, <3>1
    <3>. QED  BY <1>6, <3>1, <3>2
  <2>2. \A i \in 1..l : t[i] = v[i]
    BY <1>6, <1>8, <2>1
  <2>3. t = v
    BY <1>6, <2>1, <2>2, SeqEqual DEF l
  <2>. QED  BY <1>3, <1>4, <1>5, <1>7, <2>3 DEF ReadsAs, t
<1>11. CASE l >= HdrLen
  <2>1. \A i \in 1..n : ~(i =< l) => buf[i] = <<"memory">>
    <3> TAKE i \in 1..n
    <3>1. ~(i =< l) => ~(i =< HdrLen) /\ i \in 1..2 * HdrLen
      BY <1>1, <1>7, <1>11
    <3>. QED  BY <1>2, <1>4, <3>1
  <2>2. \A i \in 1..n : buf[i] # <<"nul">>
    <3> TAKE i \in 1..n
    <3>1. i =< l => i \in 1..l
      OBVIOUS
    <3>. QED  BY <1>8, <2>1, <3>1
  <2>3. Len(t) = n
    <3>1. n \in 1..n
      BY <1>7
    <3>2. n =< Len(t)
      BY <1>6, <2>2, <3>1
    <3>. QED  BY <1>6, <3>2
  <2>4. IsPrefix(v, t)
    <3>1. \A i \in 1..l : t[i] = v[i]
      BY <1>6, <1>8, <2>3
    <3>. QED  BY <1>6, <1>9, <3>1, PrefixIs DEF l
  <2>5. \A i \in l + 1..Len(t) : t[i] = <<"memory">>
    <3> TAKE i \in l + 1..Len(t)
    <3>1. i \in 1..n /\ ~(i =< l)
      BY <1>1, <2>3
    <3>. QED  BY <1>6, <2>1, <2>3, <3>1
  <2>6. ReadsAs(v, t)
    BY <1>11, <2>4, <2>5 DEF ReadsAs, l
  <2>. QED  BY <1>3, <1>4, <1>5, <1>7, <2>6 DEF t
<1>12. l < HdrLen \/ l >= HdrLen
  BY <1>1 DEF l
<1>. QED  BY <1>10, <1>11, <1>12

(* Nothing is taken of nothing.                                            *)
LEMMA NothingTaken ==
  ASSUME NEW n \in Nat
  PROVE  Taken(<<>>, n) = <<>> /\ Remaining(<<>>, n) = <<>>
<1>1. <<>> \in Seq({}) /\ Len(<<>>) =< n
  OBVIOUS
<1>. QED  BY <1>1, ReceiveAll

(* The command of what is read of junk and a header behind it, or of what  *)
(* puts have sent, is not get.                                             *)
LEMMA JunkFirst ==
  ASSUME NEW j \in Seq(Junk), j # <<>>, NEW z \in Seq(Cells), z = <<>> \/ Begins(z, Full)
  PROVE  NoGetIn(Taken(j \o z, HdrLen))
<1> DEFINE T == j \o z
           buf == Taken(T, HdrLen)
           l == Len(j)
<1>1. HdrLen \in Nat /\ HdrLen > 2 /\ l \in Nat /\ l > 0 /\ DOMAIN j = 1..l
  BY DfsAssumption
<1>2. /\ T \in Seq(Cells) /\ \A p \in DOMAIN j : p \in DOMAIN T /\ T[p] = j[p]
      /\ \A p \in DOMAIN T : p \notin DOMAIN j => p - l \in DOMAIN z /\ T[p] = z[p - l]
      /\ \A p \in DOMAIN T : p \in Nat \ {0}
  <2>1. j \in Seq(Cells)
    BY JunkIsCells
  <2>. QED  BY <2>1, JoinedCells
<1> HIDE DEF T
<1>3. /\ buf \in Seq(Cells) /\ Len(buf) =< HdrLen /\ Len(buf) =< Len(T)
      /\ \A i \in 1..Len(buf) : buf[i] = T[i]
  <2>1. buf \in Seq(Cells) /\ Len(buf) =< HdrLen /\ Len(buf) =< Len(T)
    BY <1>1, <1>2, Receive
  <2>2. \A i \in 1..Len(buf) : buf[i] = T[i]
    BY <1>1, <1>2, Receive
  <2>. QED  BY <2>1, <2>2
<1>4. Len(T) \in Nat /\ DOMAIN T = 1..Len(T) /\ Len(buf) \in Nat
  BY <1>2, <1>3
<1> HIDE DEF buf, l
<1>5. ASSUME NEW i \in 1..Len(buf), buf[i][1] = "head", buf[i][3] = 1
      PROVE  i # 1 /\ buf[i - 1][1] # "head"
  <2>1. i \in DOMAIN T /\ buf[i] = T[i] /\ i \in Nat /\ i =< HdrLen
    BY <1>1, <1>3, <1>4
  <2>2. ASSUME NEW p \in DOMAIN j PROVE T[p][1] # "head"
    <3>1. T[p] = j[p] /\ j[p] \in Junk
      BY <1>2
    <3>. QED  BY <3>1 DEF Junk
  <2>3. i \notin DOMAIN j
    BY <1>5, <2>1, <2>2
  <2>4. i - l \in DOMAIN z /\ T[i] = z[i - l]
    BY <1>2, <2>1, <2>3
  <2>5. PICK h \in Full : \A p \in 1..HdrLen : z[p] = <<"head", h, p>>
    <3>1. z # <<>>
      BY <2>4
    <3>. QED  BY <3>1 DEF Begins
  <2>6. i - l \in 1..HdrLen
    <3>1. i > l
      BY <1>1, <2>1, <2>3
    <3>. QED  BY <1>1, <2>1, <3>1
  <2>7. i - l = 1
    <3>1. z[i - l] = <<"head", h, i - l>>
      BY <2>5, <2>6
    <3>. QED  BY <1>5, <2>1, <2>4, <3>1
  <2>8. i # 1 /\ i - 1 \in DOMAIN j /\ i - 1 \in 1..Len(buf)
    <3>1. i - 1 = l
      BY <1>1, <2>1, <2>7
    <3>. QED  BY <1>1, <1>4, <2>1, <3>1
  <2>9. buf[i - 1] = T[i - 1]
    BY <1>3, <2>8
  <2>. QED  BY <2>2, <2>8, <2>9
<1>6. NoGetIn(buf)
  BY <1>5 DEF NoGetIn
<1>. QED  BY <1>6 DEF buf, T

LEMMA ChunkHasNoGet ==
  ASSUME NEW v \in Seq(Sent(NotGets)) \ {<<>>}, v \in Seq(Cells), NEW z \in Seq(Cells),
         NEW T, T = Block(v) \o z
  PROVE  T \in Seq(Cells) /\ T # <<>> /\ NoGetIn(Taken(T, HdrLen))
<1> DEFINE b == Block(v)
           buf == Taken(T, HdrLen)
<1>1. HdrLen \in Nat /\ HdrLen > 2
  BY DfsAssumption
<1>2. /\ b \in Seq(Cells) /\ Len(b) = 2 * HdrLen /\ b \o z # <<>>
      /\ b \in Seq(Replied(NotGets))
  BY BlockIs, BlockOf
<1> HIDE DEF b
<1>3. buf = SubSeq(b, 1, HdrLen)
  <2>1. HdrLen \in 0..Len(b)
    BY <1>1, <1>2
  <2>. QED  BY <1>2, <2>1, TakenWithin DEF b
<1>4. Len(buf) = HdrLen /\ \A i \in 1..HdrLen : buf[i] = b[i] /\ i \in DOMAIN b
  BY <1>1, <1>2, <1>3
<1> HIDE DEF buf
<1>5. ASSUME NEW i \in 1..Len(buf), buf[i][1] = "head" PROVE buf[i][2].op # "get"
  <2>1. buf[i] \in Replied(NotGets)
    BY <1>2, <1>4
  <2>2. buf[i][2] \in NotGets
    BY <1>5, <2>1 DEF Replied, Sent
  <2>. QED  BY <2>2 DEF NotGets
<1>6. NoGetIn(buf)
  BY <1>5 DEF NoGetIn
<1>. QED  BY <1>2, <1>6 DEF buf, b

(* The client of a get asks.                                               *)
LEMMA FlowAsk ==
  ASSUME NEW V, NEW N, NEW w, NEW T, NEW e, NEW o, NEW u, NEW a, NEW r, NEW g,
         Flow(V, N, w, T, e, o, u, a, "ask", r, g)
  PROVE  Flow(V, N, w, T, e, o, u, a, "header", r, g)
BY DEF Flow, BeforeHeader, BeforeChunk, AfterChunk

(* A header that is next is read whole, and fills a df_serv_cmd that had   *)
(* no length.                                                              *)
HeaderIsRead(h, y, T, r) ==
  /\ Taken(T, HdrLen) # <<>> /\ Remaining(T, HdrLen) = y
  /\ Parsed(r, Taken(T, HdrLen)).op = "get" /\ Parsed(r, Taken(T, HdrLen)).size = h.size

LEMMA AnswerRead ==
  ASSUME NEW h \in Full, h.op = "get", NEW y \in Seq(Cells), NEW T, T = HeaderCells(h) \o y,
         NEW r \in Cmds, r.size = <<>>
  PROVE  HeaderIsRead(h, y, T, r)
<1> SUFFICES /\ Taken(T, HdrLen) # <<>> /\ Remaining(T, HdrLen) = y
             /\ Parsed(r, Taken(T, HdrLen)).op = "get" /\ Parsed(r, Taken(T, HdrLen)).size = h.size
  BY DEF HeaderIsRead
<1>1. /\ HeaderCells(h) \in Seq(Cells) /\ Len(HeaderCells(h)) = HdrLen /\ HeaderCells(h) # <<>>
  BY HeaderType, BeginsNotEmpty
<1>2. Taken(T, HdrLen) = HeaderCells(h) /\ Remaining(T, HdrLen) = y
  BY <1>1, TakenExact
<1>3. h \in Cmds
  BY FullIsGood DEF Good
<1>4. Overwrite(r.size, h.size) = h.size
  <2>1. r.size \in Sizes /\ h.size \in Sizes
    BY <1>3 DEF Cmds
  <2>2. Len(r.size) =< Len(h.size)
    <3>1. Len(h.size) \in Nat /\ Len(r.size) = 0
      BY <2>1 DEF Sizes
    <3>. QED  BY <3>1
  <2>. QED  BY <2>1, <2>2, OverwriteIs
<1>5. Parsed(r, HeaderCells(h)) = [h EXCEPT !.size = h.size]
  BY <1>3, <1>4, LineRead
<1>6. [h EXCEPT !.size = h.size].op = "get" /\ [h EXCEPT !.size = h.size].size = h.size
  BY <1>3 DEF Cmds
<1>. QED  BY <1>1, <1>2, <1>5, <1>6

LEMMA FlowHeader ==
  ASSUME NEW V, NEW N, NEW w, NEW T, NEW e, NEW o, NEW u, NEW r \in Cmds, NEW g,
         Flow(V, N, w, T, e, o, u, 0, "header", r, g),
         NEW x, T = <<>> /\ w # "closed" => x, e => x
  PROVE  Flow(V, N, w, Remaining(T, HdrLen), e, o, x, 0, "body", Parsed(r, Taken(T, HdrLen)), g)
<1>1. /\ g = <<>> /\ r.size = <<>>
      /\ Waits(w, T, e, o) \/ Answers(V, N, w, T)
  BY DEF Flow, BeforeHeader, BeforeChunk, AfterChunk
<1>2. CASE Waits(w, T, e, o)
  <2>1. T = <<>> /\ x
    BY <1>2 DEF Waits
  <2>2. Taken(T, HdrLen) = <<>> /\ Remaining(T, HdrLen) = T
    BY <2>1, LimitsAreTwo, NothingTaken
  <2>3. Parsed(r, Taken(T, HdrLen)) = r
    BY <2>2, ParsedNothing
  <2>. QED  BY <1>1, <1>2, <2>1, <2>2, <2>3 DEF Flow, BeforeHeader
<1>3. CASE Answers(V, N, w, T)
  <2>1. PICK h \in Full : \E y \in Seq(Cells) :
          /\ T = HeaderCells(h) \o y /\ h.op = "get" /\ Len(h.size) =< 2
          /\ Coming(V, N, w, y, Value(h.size))
    BY <1>3 DEF Answers
  <2>2. PICK y \in Seq(Cells) :
          /\ T = HeaderCells(h) \o y /\ h.op = "get" /\ Len(h.size) =< 2
          /\ Coming(V, N, w, y, Value(h.size))
    BY <2>1
  <2>3. Remaining(T, HdrLen) = y /\ Parsed(r, Taken(T, HdrLen)).size = h.size
    <3>1. T = HeaderCells(h) \o y /\ h.op = "get" /\ r.size = <<>>
      BY <1>1, <2>2
    <3>2. HeaderIsRead(h, y, T, r)
      BY <3>1, AnswerRead
    <3>. QED  BY <3>2 DEF HeaderIsRead
  <2>. QED  BY <1>1, <2>2, <2>3 DEF Flow, BeforeChunk
<1>. QED  BY <1>1, <1>2, <1>3

(* It receives a chunk, or finds nothing.                                  *)
ChunkIsTaken(V, N, w, T, e, o, r, g, n, x) ==
  /\ Len(Taken(T, n)) \notin 1..n - 1
  /\ Flow(V, N, w, Remaining(T, n), e, o, x, 0, "next", r, g \o Text(Taken(T, n)))

LEMMA FlowChunk ==
  ASSUME NEW V, V \subseteq Seq(Sent(NotGets)) \ {<<>>}, V \subseteq Seq(Cells), NEW N, NEW w,
         NEW T \in Seq(Cells), NEW e, NEW o, NEW u, NEW r, r.size \in Sizes, NEW g,
         Flow(V, N, w, T, e, o, u, 0, "body", r, g),
         NEW n \in Nat, n = Value(r.size), NEW x, u => x,
         n > 0 /\ Taken(T, n) = <<>> /\ w # "closed" => x
  PROVE  ChunkIsTaken(V, N, w, T, e, o, r, g, n, x)
<1> SUFFICES /\ Len(Taken(T, n)) \notin 1..n - 1
             /\ Flow(V, N, w, Remaining(T, n), e, o, x, 0, "next", r, g \o Text(Taken(T, n)))
  BY DEF ChunkIsTaken
<1>0. Text(<<>>) = <<>>
  BY DEF Text
<1>1. n \in Nat
  BY ValueType
<1>2. g = <<>>
  BY DEF Flow, BeforeHeader, BeforeChunk, AfterChunk
<1>3. CASE BeforeHeader(V, N, w, T, e, o, u, "body", r, g)
  <2>1. n = 0 /\ u
    BY <1>3, ValueType DEF BeforeHeader
  <2>2. Taken(T, n) = <<>> /\ Remaining(T, n) = T
    BY <2>1, Receive
  <2>3. g \o Text(Taken(T, n)) = g /\ Len(Taken(T, n)) = 0
    BY <1>0, <1>2, <2>2
  <2>4. BeforeHeader(V, N, w, T, e, o, x, "next", r, g)
    BY <1>3, <2>1 DEF BeforeHeader
  <2>5. Len(Taken(T, n)) \notin 1..n - 1
    BY <2>1, <2>3
  <2>6. Flow(V, N, w, T, e, o, x, 0, "next", r, g)
    BY <2>4 DEF Flow
  <2>. QED  BY <2>2, <2>3, <2>5, <2>6
<1>4. CASE BeforeChunk(V, N, w, T, u, "body", r, g)
  <2>1. Len(r.size) =< 2 /\ Coming(V, N, w, T, n)
    BY <1>4 DEF BeforeChunk
  <2>2. CASE T = <<>> /\ w = "sendbody" /\ \E v \in N : Len(v) =< n
    <3>1. Taken(T, n) = <<>> /\ Remaining(T, n) = T
      BY <1>1, <2>2, NothingTaken
    <3>2. g \o Text(Taken(T, n)) = g /\ Len(Taken(T, n)) = 0
      BY <1>0, <1>2, <3>1
    <3>3. x \/ n = 0
      BY <1>1, <2>2, <3>1
    <3>4. BeforeChunk(V, N, w, Remaining(T, n), x, "next", r, g)
      BY <1>2, <2>1, <2>2, <3>1, <3>3 DEF BeforeChunk
    <3>. QED  BY <3>2, <3>4 DEF Flow
  <2>3. CASE \E v \in V : \E z \in Seq(Cells) : T = Block(v) \o z /\ Len(v) =< n /\ Followed(z, w)
    <3>1. PICK v \in V : \E z \in Seq(Cells) :
            T = Block(v) \o z /\ Len(v) =< n /\ Followed(z, w)
      BY <2>3
    <3>2. PICK z \in Seq(Cells) : T = Block(v) \o z /\ Len(v) =< n /\ Followed(z, w)
      BY <3>1
    <3>3. v \in Seq(Cells) \ {<<>>} /\ v \in Seq(Sent(NotGets))
      OBVIOUS
    <3>4. n < 2 * HdrLen
      <4>1. n < Base * Base
        BY <2>1, ShortBound
      <4>2. Base * Base \in Nat /\ Base * Base =< 2 * HdrLen /\ 2 * HdrLen \in Nat
        BY DfsAssumption
      <4>. QED  BY <1>1, <4>1, <4>2
    <3>5. /\ Len(Taken(T, n)) = n /\ n > 0
          /\ ReadsAs(v, Text(Taken(T, n)))
          /\ \E j \in Seq(Junk) : j # <<>> /\ Remaining(T, n) = j \o z
      <4>1. Len(v) =< n /\ T = Block(v) \o z
        BY <3>2
      <4>2. ReadWhole(v, n, z, T)
        BY <1>1, <3>3, <3>4, <4>1, ChunkRead
      <4>. QED  BY <4>2 DEF ReadWhole
    <3>6. g \o Text(Taken(T, n)) = Text(Taken(T, n))
      <4>1. Taken(T, n) \in Seq(Cells)
        BY <1>1, ReceiveType
      <4>2. Text(Taken(T, n)) \in Seq(Cells)
        BY <4>1, TextIs
      <4>. QED  BY <1>2, <4>2, EmptyJoined
    <3>7. AfterChunk(V, w, Remaining(T, n), "next", g \o Text(Taken(T, n)))
      BY <3>2, <3>5, <3>6 DEF AfterChunk, Read
    <3>. QED  BY <1>1, <3>5, <3>7 DEF Flow
  <2>. QED  BY <2>1, <2>2, <2>3 DEF Coming
<1>5. ~AfterChunk(V, w, T, "body", g)
  BY DEF AfterChunk
<1>. QED  BY <1>3, <1>4, <1>5 DEF Flow

(* What comes next is not the header of a chunk, or it is the first that   *)
(* comes.                                                                  *)
NextIsTaken(V, N, w, T, e, o, g, b, x) ==
  /\ Parsed(b, Taken(T, HdrLen)).op # "get" => AfterAll(V, x, g)
  /\ Parsed(b, Taken(T, HdrLen)).op = "get" =>
       Flow(V, N, w, Remaining(T, HdrLen), e, o, x, 0, "body", Parsed(b, Taken(T, HdrLen)), g)

LEMMA FlowNext ==
  ASSUME NEW V, V \subseteq Seq(Sent(NotGets)) \ {<<>>}, V \subseteq Seq(Cells), NEW N, NEW w,
         NEW T \in Seq(Cells), NEW e, NEW o, NEW u, NEW r, NEW g,
         Flow(V, N, w, T, e, o, u, 0, "next", r, g),
         NEW x, u => x, T = <<>> /\ w # "closed" => x,
         NEW b \in Cmds, b.op # "get", b.size = r.size
  PROVE  NextIsTaken(V, N, w, T, e, o, g, b, x)
<1> SUFFICES /\ Parsed(b, Taken(T, HdrLen)).op # "get" => AfterAll(V, x, g)
             /\ Parsed(b, Taken(T, HdrLen)).op = "get" =>
                  Flow(V, N, w, Remaining(T, HdrLen), e, o, x, 0, "body",
                       Parsed(b, Taken(T, HdrLen)), g)
  BY DEF NextIsTaken
<1> DEFINE d == Parsed(b, Taken(T, HdrLen))
<1>1. T = <<>> => d.op # "get"
  <2> SUFFICES ASSUME T = <<>> PROVE d.op # "get"
    OBVIOUS
  <2>1. Taken(T, HdrLen) = <<>>
    BY LimitsAreTwo, NothingTaken
  <2>2. d = b
    BY <2>1, ParsedNothing
  <2>. QED  BY <2>2
<1>2. Taken(T, HdrLen) \in Seq(Cells)
  BY LimitsAreTwo, ReceiveType
<1>3. NoGetIn(Taken(T, HdrLen)) => d.op # "get"
  BY <1>2, NoGetRead
<1>4. CASE BeforeHeader(V, N, w, T, e, o, u, "next", r, g)
  <2>1. /\ g = <<>> /\ x /\ b.size = <<>>
        /\ Waits(w, T, e, o) \/ Answers(V, N, w, T)
    BY <1>4 DEF BeforeHeader
  <2>2. AfterAll(V, x, g)
    BY <2>1 DEF AfterAll
  <2>3. CASE Waits(w, T, e, o)
    BY <1>1, <2>2, <2>3 DEF Waits
  <2>4. CASE Answers(V, N, w, T)
    <3>1. PICK h \in Full : \E y \in Seq(Cells) :
            /\ T = HeaderCells(h) \o y /\ h.op = "get" /\ Len(h.size) =< 2
            /\ Coming(V, N, w, y, Value(h.size))
      BY <2>4 DEF Answers
    <3>2. PICK y \in Seq(Cells) :
            /\ T = HeaderCells(h) \o y /\ h.op = "get" /\ Len(h.size) =< 2
            /\ Coming(V, N, w, y, Value(h.size))
      BY <3>1
    <3>3. Remaining(T, HdrLen) = y /\ d.size = h.size
      <4>1. T = HeaderCells(h) \o y /\ h.op = "get"
        BY <3>2
      <4>2. HeaderIsRead(h, y, T, b)
        BY <2>1, <4>1, AnswerRead
      <4>. QED  BY <4>2 DEF HeaderIsRead
    <3> HIDE DEF d
    <3>4. BeforeChunk(V, N, w, Remaining(T, HdrLen), x, "body", d, g)
      BY <2>1, <3>2, <3>3 DEF BeforeChunk
    <3>5. Flow(V, N, w, Remaining(T, HdrLen), e, o, x, 0, "body", d, g)
      BY <3>4 DEF Flow
    <3>. QED  BY <2>2, <3>5 DEF d
  <2>. QED  BY <2>1, <2>3, <2>4
<1>5. CASE BeforeChunk(V, N, w, T, u, "next", r, g)
  <2>1. /\ g = <<>> /\ Coming(V, N, w, T, Value(r.size))
        /\ u \/ T = <<>>
    BY <1>5 DEF BeforeChunk
  <2>2. CASE T = <<>> /\ w = "sendbody"
    <3>1. AfterAll(V, x, g)
      BY <2>1, <2>2 DEF AfterAll
    <3>. QED  BY <1>1, <2>2, <3>1
  <2>3. CASE \E v \in V : \E z \in Seq(Cells) : T = Block(v) \o z
    <3>1. PICK v \in V : \E z \in Seq(Cells) : T = Block(v) \o z
      BY <2>3
    <3>2. PICK z \in Seq(Cells) : T = Block(v) \o z
      BY <3>1
    <3>3. v \in Seq(Sent(NotGets)) \ {<<>>} /\ v \in Seq(Cells)
      OBVIOUS
    <3>4. T # <<>> /\ NoGetIn(Taken(T, HdrLen))
      BY <3>2, <3>3, ChunkHasNoGet
    <3>5. AfterAll(V, x, g)
      BY <2>1, <3>4 DEF AfterAll
    <3>. QED  BY <1>3, <3>4, <3>5
  <2>. QED  BY <2>1, <2>2, <2>3 DEF Coming
<1>6. CASE AfterChunk(V, w, T, "next", g)
  <2>1. AfterAll(V, x, g)
    BY <1>6 DEF AfterChunk, AfterAll
  <2>2. PICK j \in Seq(Junk) : \E z \in Seq(Cells) : j # <<>> /\ T = j \o z /\ Followed(z, w)
    BY <1>6 DEF AfterChunk
  <2>3. PICK z \in Seq(Cells) : j # <<>> /\ T = j \o z /\ Followed(z, w)
    BY <2>2
  <2>4. NoGetIn(Taken(j \o z, HdrLen))
    BY <2>3, JunkFirst DEF Followed
  <2>. QED  BY <1>3, <2>1, <2>3, <2>4
<1>. QED  BY <1>4, <1>5, <1>6 DEF Flow

-----------------------------------------------------------------------------
(* What a get asks, where it has asked, and what it may be sent.           *)
Wanted(k) == cmd[k].files[1]

Asking(h, n) == h \in Cmds /\ h.op = "get" /\ h.name = n

(* Its request, and the worker that has it.                                *)
Request(k) ==
  /\ pc[k] = "start" => got[k] = <<>>
  /\ pc[k] = "done" => asked[k] = 2
  /\ pc[k] = "ask" /\ asked[k] = 0 => Asking(reply[k], Wanted(k))
  /\ toServer[k][0] = <<>> \/ \E h : Asking(h, Wanted(k)) /\ toServer[k][0] = HeaderCells(h)
  /\ wpc[k][0] \notin PutPlaces
  /\ wpc[k][0] \in {"find", "send", "sendbody"} => wcmd[k][0].op = "get"
  /\ wpc[k][0] = "find" => wcmd[k][0].name = Wanted(k)
  /\ wpc[k][0] = "first" /\ toServer[k][0] = <<>> => pc[k] = "ask" /\ asked[k] = 0

RequestInv == \A k \in Clients : cmd[k].op = "get" => Request(k)

LEMMA AskedHeader ==
  ASSUME NEW h \in Cmds
  PROVE  /\ HeaderCells(h) \in Seq(AnyCells) /\ Len(HeaderCells(h)) = HdrLen
         /\ HeaderCells(h) # <<>>
<1>1. HdrLen \in Nat /\ HdrLen > 0
  BY DfsAssumption
<1>2. \A i \in 1..HdrLen : <<"head", h, i>> \in AnyCells
  BY DEF AnyCells
<1>3. HeaderCells(h) \in Seq(AnyCells) /\ Len(HeaderCells(h)) = HdrLen
  BY <1>1, <1>2 DEF HeaderCells
<1> DEFINE c == HeaderCells(h)
<1> HIDE DEF c
<1>4. c # <<>>
  BY <1>1, <1>3 DEF c
<1>. QED  BY <1>3, <1>4 DEF c

LEMMA SameRequest ==
  ASSUME NEW k \in Clients, Request(k), cmd' = cmd, pc'[k] = pc[k], asked'[k] = asked[k],
         reply'[k] = reply[k], got'[k] = got[k], wcmd'[k][0] = wcmd[k][0],
         toServer'[k][0] = toServer[k][0],
         wpc'[k][0] = wpc[k][0] \/ wpc'[k][0] = "closed"
  PROVE  Request(k)'
BY DEF Request, Wanted, PutPlaces

LEMMA ClientRequest ==
  ASSUME IInv, OriginInv, NEW k \in Clients, cmd[k].op = "get", Request(k), Client(k)
  PROVE  Request(k)'
<1>1. /\ cmd' = cmd /\ wcmd' = wcmd
      /\ pc \in [Clients -> Pcs] /\ asked \in [Clients -> {0, 2}] /\ reply \in [Clients -> Good]
      /\ got \in [Clients -> Seq(Cells \ {<<"nul">>})]
      /\ wpc \in [Clients -> [Servers -> Places]]
      /\ toServer \in [Clients -> [Servers -> Seq(AnyCells)]]
  BY ClientIsQuiet, Tables DEF IInv, QuietClient, Types, ClientTypes
<1>2. /\ pc[k] = "start" => asked[k] = 0
      /\ pc[k] \in {"start", "refused"} => wpc[k][0] = "none" /\ toServer[k][0] = <<>>
      /\ pc[k] # "put"
  BY FirstServer DEF IInv, ConnectionInv, AtServer, WorkerAt, AtClient, OriginInv, ReplyOrigin
<1>3. CASE Connect(k)
  <2>1. /\ pc[k] = "start" /\ pc'[k] = "ask" /\ asked' = asked /\ got' = got
        /\ toServer' = toServer
        /\ reply'[k] = [Blank EXCEPT !.op = "get", !.name = Wanted(k)]
    BY <1>1, <1>3 DEF Connect, Goto, net, Wanted
  <2>2. wpc'[k][0] \in {"first", "none"}
    BY <1>1, <1>3, FirstServer DEF Connect
  <2>3. Asking(reply'[k], Wanted(k))
    <3>1. reply'[k].op = "get" /\ reply'[k].name = Wanted(k)
      BY <2>1 DEF Blank
    <3>2. reply'[k] \in Good
      BY ClientKeepsIInv DEF IInv, Types, ClientTypes
    <3>. QED  BY <3>1, <3>2 DEF Asking, Good
  <2>. QED  BY <1>1, <1>2, <2>1, <2>2, <2>3 DEF Request, Wanted, PutPlaces
<1>4. CASE Refuse(k)
  <2>1. /\ pc[k] = "start" /\ pc'[k] = "refused" /\ asked' = asked /\ got' = got
        /\ toServer' = toServer /\ wpc' = wpc
    BY <1>1, <1>4 DEF Refuse, Goto, net, ofServer
  <2>. QED  BY <1>1, <1>2, <2>1 DEF Request, Wanted, PutPlaces
<1>5. CASE Ask(k)
  <2>1. /\ pc[k] = "ask" /\ pc'[k] = "header" /\ asked' = asked /\ got' = got /\ wpc' = wpc
        /\ toServer' = [toServer EXCEPT ![k][asked[k]] = @ \o HeaderCells(reply[k])]
    BY <1>1, <1>5 DEF Ask, Goto, ClientSends, ofServer
  <2>2. CASE asked[k] = 0
    <3>1. toServer[k][0] = <<>>
      BY <2>1, <2>2, FirstServer DEF IInv, ConnectionInv, AtServer, GetAt, Unasked
    <3>2. Asking(reply[k], Wanted(k))
      BY <2>1, <2>2 DEF Request
    <3>3. toServer'[k][0] = <<>> \o HeaderCells(reply[k])
      BY <1>1, <2>1, <2>2, <3>1, FirstServer
    <3>4. HeaderCells(reply[k]) # <<>> /\ <<>> \o HeaderCells(reply[k]) = HeaderCells(reply[k])
      <4>1. HeaderCells(reply[k]) \in Seq(AnyCells) /\ HeaderCells(reply[k]) # <<>>
        BY <3>2, AskedHeader DEF Asking
      <4> DEFINE c == HeaderCells(reply[k])
      <4> HIDE DEF c
      <4>2. c # <<>> /\ <<>> \o c = c
        BY <4>1, EmptyJoined DEF c
      <4>. QED  BY <4>2 DEF c
    <3>. QED  BY <1>1, <2>1, <3>2, <3>3, <3>4 DEF Request, Wanted, PutPlaces
  <2>3. CASE asked[k] = 2
    <3>1. toServer'[k][0] = toServer[k][0]
      BY <1>1, <2>1, <2>3, FirstServer
    <3>. QED  BY <1>1, <2>1, <2>3, <3>1 DEF Request, Wanted, PutPlaces
  <2>. QED  BY <1>1, <2>2, <2>3
<1>6. CASE ReceiveHeader(k) \/ ReceiveChunk(k) \/ ReceiveNextHeader(k)
  <2>1. /\ pc[k] \in {"header", "body", "rest", "next"}
        /\ pc'[k] \in {"body", "rest", "next", "ask", "done"}
        /\ pc'[k] = "ask" => asked'[k] = 2
        /\ pc'[k] = "done" => asked'[k] = 2
        /\ wpc' = wpc /\ toServer' = toServer
    BY <1>1, <1>6 DEF ReceiveHeader, ReceiveChunk, ReceiveNextHeader, Goto, ClientReceives, ofServer
  <2>. QED  BY <1>1, <2>1 DEF Request, Wanted, PutPlaces
<1>7. ~PutSend(k)
  BY <1>2 DEF PutSend
<1>. QED  BY <1>3, <1>4, <1>5, <1>6, <1>7 DEF Client

(* The worker finds what the client asks for.                              *)
LEMMA RequestReceived ==
  ASSUME IInv, OriginInv, NEW k \in Clients, cmd[k].op = "get", Request(k), ReceiveFirst(k, 0)
  PROVE  /\ wpc'[k][0] = "find" /\ wcmd'[k][0].op = "get" /\ wcmd'[k][0].name = Wanted(k)
         /\ toServer'[k][0] = <<>>
<1> DEFINE t == toServer[k][0]
           n == 2 * HdrLen
           old == wcmd[k][0]
<1>1. /\ t # <<>> \/ ClientEnded(k)
      /\ toServer'[k][0] = Remaining(t, n)
      /\ wcmd'[k][0] = Parsed(old, Taken(t, n))
      /\ wpc[k][0] = "first"
      /\ \/ wcmd'[k][0].op = "put" /\ wpc'[k][0] = "add"
         \/ wcmd'[k][0].op = "get" /\ wpc'[k][0] = "find"
         \/ wcmd'[k][0].op = "" /\ wpc'[k][0] = "closed"
  BY ReceiveFirstDoes
<1>2. t # <<>>
  BY <1>1 DEF Request, ClientEnded
<1>3. PICK h : Asking(h, Wanted(k)) /\ t = HeaderCells(h)
  BY <1>2 DEF Request
<1>4. Taken(t, n) = t /\ Remaining(t, n) = <<>>
  <2>1. t \in Seq(AnyCells) /\ Len(t) = HdrLen
    BY <1>3, AskedHeader DEF Asking
  <2>2. HdrLen =< n /\ n \in Nat
    BY LimitsAreTwo
  <2>3. Len(t) =< n
    BY <2>1, <2>2
  <2>. QED  BY <2>1, <2>2, <2>3, ReceiveAll
<1>5. old \in Cmds
  BY FirstServer, Tables DEF IInv, Good
<1>6. Parsed(old, HeaderCells(h)) = [h EXCEPT !.size = Overwrite(old.size, h.size)]
  BY <1>3, <1>5, LineRead DEF Asking
<1>7. wcmd'[k][0] = [h EXCEPT !.size = Overwrite(old.size, h.size)]
  BY <1>1, <1>3, <1>4, <1>6
<1>8. wcmd'[k][0].op = "get" /\ wcmd'[k][0].name = Wanted(k)
  BY <1>3, <1>7 DEF Asking, Cmds
<1>. QED  BY <1>1, <1>4, <1>8

LEMMA WorkerRequest ==
  ASSUME IInv, OriginInv, NEW k \in Clients, cmd[k].op = "get", Request(k), Worker(k, 0)
  PROVE  Request(k)'
<1>1. UNCHANGED <<cmd, pc, sent, asked, reply, got, late, fresh>>
  BY OthersAlone
<1>2. wpc[k][0] \notin PutPlaces
  BY DEF Request
<1>3. CASE Wait(k, 0)
  BY <1>1, <1>3, SameRequest DEF Wait, net
<1>4. CASE ReceiveFirst(k, 0)
  <2>1. /\ wpc'[k][0] = "find" /\ wcmd'[k][0].op = "get" /\ wcmd'[k][0].name = Wanted(k)
        /\ toServer'[k][0] = <<>>
    BY <1>4, RequestReceived
  <2>. QED  BY <1>1, <2>1 DEF Request, Wanted, PutPlaces
<1>5. CASE Find(k, 0)
  <2>1. /\ wcmd' = wcmd /\ toServer' = toServer /\ wpc[k][0] = "find"
        /\ wpc'[k][0] \in {"send", "closed"}
    BY <1>5, FindDoes
  <2>. QED  BY <1>1, <2>1 DEF Request, Wanted, PutPlaces
<1>6. CASE SendHeader(k, 0)
  <2>1. /\ toServer' = toServer /\ wpc[k][0] = "send"
        /\ wpc'[k][0] \in {"sendbody", "send", "closed"}
        /\ wcmd'[k][0] = Fields(wcmd[k][0], nodes[k][0][1])
    BY <1>6, SendHeaderDoes
  <2>2. wcmd[k][0] \in Cmds /\ nodes[k][0][1] \in Cmds
    <3>1. nodes[k][0] # <<>>
      BY <2>1, FirstServer DEF IInv, ConnectionInv, AtServer, WorkerAt
    <3>2. nodes[k][0] \in Seq(Full) /\ wcmd[k][0] \in Good
      BY FirstServer, Tables DEF IInv
    <3>3. nodes[k][0][1] \in Full
      BY <3>1, <3>2, TailCells
    <3>. QED  BY <3>2, <3>3, FullIsGood DEF Good
  <2>3. wcmd'[k][0].op = "get"
    BY <2>1, <2>2, FieldsOf DEF Request
  <2>. QED  BY <1>1, <2>1, <2>3 DEF Request, Wanted, PutPlaces
<1>7. CASE SendBody(k, 0)
  <2>1. /\ wcmd' = wcmd /\ toServer' = toServer /\ wpc[k][0] = "sendbody"
        /\ wpc'[k][0] \in {"send", "closed"}
    BY <1>7, SendBodyDoes
  <2>. QED  BY <1>1, <2>1 DEF Request, Wanted, PutPlaces
<1>8. ~ReceiveNext(k, 0) /\ ~AddNode(k, 0) /\ ~CreateChunk(k, 0) /\ ~ReceiveBody(k, 0)
  BY <1>2 DEF PutPlaces, ReceiveNext, AddNode, Step, CreateChunk, ReceiveBody
<1>. QED  BY <1>3, <1>4, <1>5, <1>6, <1>7, <1>8 DEF Worker

LEMMA NextRequest ==
  ASSUME IInv, OriginInv, RequestInv, [Next]_vars
  PROVE  RequestInv'
<1> SUFFICES ASSUME NEW k \in Clients, cmd'[k].op = "get" PROVE Request(k)'
  BY DEF RequestInv
<1>0. cmd' = cmd => cmd[k].op = "get" /\ Request(k)
  BY DEF RequestInv
<1>1. ASSUME NEW j \in Clients, Client(j) PROVE Request(k)'
  <2>1. QuietClient(j)
    BY <1>1, ClientIsQuiet DEF IInv
  <2>2. CASE j = k
    BY <1>0, <1>1, <2>1, <2>2, ClientRequest DEF QuietClient
  <2>3. CASE j # k
    BY <1>0, <2>1, <2>3, SameRequest DEF QuietClient, Alone
  <2>. QED  BY <2>2, <2>3
<1>2. ASSUME NEW j \in Clients, Worker(j, 0) PROVE Request(k)'
  <2>1. /\ UNCHANGED <<cmd, pc, sent, asked, reply, got, late, fresh>>
        /\ \A i \in Clients : i # j =>
              wpc'[i][0] = wpc[i][0] /\ wcmd'[i][0] = wcmd[i][0] /\ toServer'[i][0] = toServer[i][0]
    BY <1>2, OthersAlone
  <2>2. CASE j = k
    BY <1>0, <1>2, <2>1, <2>2, WorkerRequest
  <2>3. CASE j # k
    BY <1>0, <2>1, <2>3, SameRequest
  <2>. QED  BY <2>2, <2>3
<1>3. ASSUME NEW j \in Clients, NEW s \in Servers, s # 0, Worker(j, s) PROVE Request(k)'
  <2>1. /\ UNCHANGED <<cmd, pc, sent, asked, reply, got, late, fresh>>
        /\ wpc'[k][0] = wpc[k][0] /\ wcmd'[k][0] = wcmd[k][0] /\ toServer'[k][0] = toServer[k][0]
    BY <1>3, ElsewhereStore
  <2>. QED  BY <1>0, <2>1, SameRequest
<1>4. ASSUME NEW j \in Clients, NEW s \in Servers, Die(j, s) PROVE Request(k)'
  <2>1. /\ UNCHANGED <<ofClient, wcmd, toServer>>
        /\ wpc'[k][0] = wpc[k][0] \/ wpc'[k][0] = "closed"
    BY <1>4, DieStore
  <2>. QED  BY <1>0, <2>1, SameRequest DEF ofClient
<1>5. CASE (\E s \in Servers : Stop(s) \/ StartAgain(s)) \/ UNCHANGED vars
  <2>1. UNCHANGED <<ofClient, wpc, wcmd, toServer>>
    <3>1. CASE \E s \in Servers : Stop(s) \/ StartAgain(s)
      BY <3>1, PowerStore DEF net
    <3>2. CASE UNCHANGED vars
      BY <3>2 DEF vars, ofServer, net
    <3>. QED  BY <1>5, <3>1, <3>2
  <2>. QED  BY <1>0, <2>1, SameRequest DEF ofClient
<1>. QED  BY <1>1, <1>2, <1>3, <1>4, <1>5 DEF Next, SendNothing, Terminating

-----------------------------------------------------------------------------
(* What server 0 answers with until it has looked: it has two chunks of    *)
(* the file, the newest node is fresh, and so will be every newer one.     *)
NodesOf(n) == {i \in DOMAIN cabinet[0] : cabinet[0][i].name = n}

Newest(i, I) == i \in I /\ \A j \in I : j =< i

Ready(k) ==
  /\ \E i, j \in NodesOf(Wanted(k)) : cabinet[0][i].chunk # cabinet[0][j].chunk
  /\ \A i : Newest(i, NodesOf(Wanted(k))) => cabinet[0][i].ver \in fresh[k]
  /\ \A j \in Clients :
       cmd[j].op = "put" /\ Contains(cmd[j].files, Wanted(k)) /\ wpc[j][0] # "closed"
         => j \in fresh[k]

FreshAt(k) == fresh[k] # {} /\ wpc[k][0] \in {"first", "find"} => Ready(k)

FreshInv == \A k \in Clients : cmd[k].op = "get" => FreshAt(k)

LEMMA SameFresh ==
  ASSUME NEW k \in Clients, FreshAt(k), cmd' = cmd, fresh'[k] = fresh[k],
         wpc'[k][0] \in {"first", "find"} =>
           cabinet'[0] = cabinet[0] /\ wpc[k][0] \in {"first", "find"},
         \A j \in Clients : wpc'[j][0] # "closed" => wpc[j][0] # "closed"
  PROVE  FreshAt(k)'
<1> SUFFICES ASSUME fresh'[k] # {}, wpc'[k][0] \in {"first", "find"} PROVE Ready(k)'
  BY DEF FreshAt
<1>1. cabinet'[0] = cabinet[0] /\ Ready(k)
  BY DEF FreshAt
<1>2. Wanted(k)' = Wanted(k)
  BY DEF Wanted
<1>3. NodesOf(Wanted(k))' = NodesOf(Wanted(k))
  BY <1>1, <1>2 DEF NodesOf
<1>. QED  BY <1>1, <1>2, <1>3 DEF Ready

(* A node is added.                                                        *)
LEMMA AddedNode ==
  ASSUME NEW S, NEW t \in Seq(S), NEW x
  PROVE  LET u == Append(t, x) IN
         /\ DOMAIN t = 1..Len(t) /\ DOMAIN u = 1..Len(t) + 1 /\ Len(t) \in Nat
         /\ u[Len(t) + 1] = x /\ \A i \in 1..Len(t) : u[i] = t[i]
OBVIOUS

LEMMA AddNodeFresh ==
  ASSUME IInv, OriginInv, TrackInv, NEW k \in Clients, FreshAt(k), NEW j \in Clients, j # k,
         AddNode(j, 0), Worker(j, 0)
  PROVE  FreshAt(k)'
<1>1. /\ UNCHANGED <<cmd, fresh>>
      /\ \A i \in Clients : i # j => wpc'[i][0] = wpc[i][0]
  BY OthersAlone
<1> SUFFICES ASSUME fresh[k] # {}, wpc[k][0] \in {"first", "find"} PROVE Ready(k)'
  BY <1>1 DEF FreshAt
<1>2. Ready(k)
  BY DEF FreshAt
<1> DEFINE x == [wcmd[j][0] EXCEPT !.op = "get"]
           t == cabinet[0]
           l == Len(t)
           n == Wanted(k)
           I == NodesOf(n)
<1>3. wpc[j][0] = "add" /\ wpc'[j][0] = "create" /\ cabinet'[0] = Append(t, x)
  BY AddNodeDoes
<1>4. wcmd[j][0] \in Full /\ wcmd[j][0].ver = j /\ cmd[j].op = "put"
      /\ wcmd[j][0].name \in Range(cmd[j].files)
  BY <1>3, PutWorker DEF PutsTo0
<1>5. x.ver = j /\ x.name = wcmd[j][0].name
  BY <1>4 DEF Full
<1>6. /\ DOMAIN t = 1..l /\ DOMAIN cabinet'[0] = 1..l + 1 /\ l \in Nat
      /\ cabinet'[0][l + 1] = x /\ \A i \in 1..l : cabinet'[0][i] = t[i]
  <2>1. t \in Seq(Full)
    BY FirstServer, Tables DEF IInv
  <2>. QED  BY <1>3, <2>1, AddedNode
<1>7. n' = n
  BY <1>1 DEF Wanted
<1> HIDE DEF x
<1>8. I' = I \cup (IF x.name = n THEN {l + 1} ELSE {})
  <2>1. I' = {i \in 1..l + 1 : cabinet'[0][i].name = n} /\ I = {i \in 1..l : t[i].name = n}
    BY <1>6, <1>7 DEF NodesOf
  <2>2. 1..l + 1 = (1..l) \cup {l + 1} /\ l + 1 \notin 1..l
    BY <1>6
  <2>. QED  BY <1>6, <2>1, <2>2
<1>9. I \subseteq 1..l /\ \A i \in I : cabinet'[0][i] = t[i]
  BY <1>6 DEF NodesOf
<1>10. \E i, m \in I' : cabinet'[0][i].chunk # cabinet'[0][m].chunk
  BY <1>2, <1>8, <1>9 DEF Ready
<1>11. \A i : Newest(i, I') => cabinet'[0][i].ver \in fresh[k]
  <2> SUFFICES ASSUME NEW i, Newest(i, I') PROVE cabinet'[0][i].ver \in fresh[k]
    OBVIOUS
  <2>1. CASE x.name = n
    <3>1. i = l + 1
      <4>1. l + 1 \in I' /\ i \in I' /\ l + 1 =< i
        BY <1>8, <2>1 DEF Newest
      <4>2. i \in 1..l + 1
        BY <1>6, <1>8, <1>9, <4>1
      <4>. QED  BY <1>6, <4>1, <4>2
    <3>2. Contains(cmd[j].files, n)
      BY <1>4, <1>5, <2>1 DEF Range, Contains
    <3>3. j \in fresh[k]
      BY <1>2, <1>3, <1>4, <3>2 DEF Ready
    <3>. QED  BY <1>5, <1>6, <3>1, <3>3
  <2>2. CASE x.name # n
    <3>1. I' = I
      BY <1>8, <2>2
    <3>. QED  BY <1>2, <1>9, <3>1 DEF Ready, Newest
  <2>. QED  BY <2>1, <2>2
<1>12. \A i \in Clients :
         cmd[i].op = "put" /\ Contains(cmd[i].files, n) /\ wpc'[i][0] # "closed" => i \in fresh[k]
  <2> SUFFICES ASSUME NEW i \in Clients, cmd[i].op = "put", Contains(cmd[i].files, n),
                      wpc'[i][0] # "closed"
               PROVE  i \in fresh[k]
    OBVIOUS
  <2>1. wpc[i][0] # "closed"
    BY <1>1, <1>3
  <2>. QED  BY <1>2, <2>1 DEF Ready
<1>. QED  BY <1>1, <1>7, <1>10, <1>11, <1>12 DEF Ready

(* The client connects.                                                    *)
LEMMA ConnectFresh ==
  ASSUME IInv, OriginInv, NEW k \in Clients, cmd[k].op = "get", Connect(k)
  PROVE  FreshAt(k)'
<1>1. /\ cmd' = cmd /\ cabinet' = cabinet /\ fresh'[k] = Findable(Wanted(k))
      /\ \A i \in Clients : i # k => wpc'[i][0] = wpc[i][0]
  <2>1. /\ fresh \in [Clients -> SUBSET Versions] /\ wpc \in [Clients -> [Servers -> Places]]
    BY Tables DEF IInv, Types, ClientTypes
  <2>. QED  BY <2>1 DEF Connect, Wanted
<1> DEFINE n == Wanted(k)
           I == NodesOf(n)
<1> SUFFICES ASSUME Findable(n) # {} PROVE Ready(k)'
  BY <1>1 DEF FreshAt
<1>2. n' = n /\ I' = I
  BY <1>1 DEF Wanted, NodesOf
<1>3. I = {i \in DOMAIN cabinet[0] : cabinet[0][i].name = n}
  BY DEF NodesOf
<1> HIDE DEF I
<1>4. \E c, d \in {cabinet[0][i].chunk : i \in I} : c # d
  BY <1>3 DEF Findable
<1>5. Findable(n) = {cabinet[0][Max(I)].ver} \cup
          {j \in Clients : cmd[j].op = "put" /\ Contains(cmd[j].files, n) /\ ~ServerEnded(j, 0)}
  BY <1>3, <1>4 DEF Findable
<1>6. \E i, j \in I : cabinet[0][i].chunk # cabinet[0][j].chunk
  BY <1>4
<1>7. \A i : Newest(i, I) => i = Max(I)
  <2> DEFINE l == Len(cabinet[0])
  <2>1. I \subseteq 1..l /\ l \in Nat
    <3>1. cabinet[0] \in Seq(Full)
      BY FirstServer, Tables DEF IInv
    <3>. QED  BY <1>3, <3>1
  <2> HIDE DEF l
  <2>a. \A y \in I : y \in Nat
    BY <2>1
  <2> SUFFICES ASSUME NEW i, Newest(i, I) PROVE i = Max(I)
    OBVIOUS
  <2>2. i \in I /\ \A j \in I : j =< i
    BY DEF Newest
  <2>3. Max(I) \in I /\ \A y \in I : y =< Max(I)
    BY <2>1, <2>2, MaxOfIndices
  <2>4. i =< Max(I) /\ Max(I) =< i /\ i \in Nat /\ Max(I) \in Nat
    BY <2>a, <2>2, <2>3
  <2>. QED  BY <2>4
<1>8. \A j \in Clients :
        cmd[j].op = "put" /\ Contains(cmd[j].files, n) /\ wpc'[j][0] # "closed" => j \in Findable(n)
  <2> SUFFICES ASSUME NEW j \in Clients, cmd[j].op = "put", Contains(cmd[j].files, n),
                      wpc'[j][0] # "closed"
               PROVE  j \in Findable(n)
    OBVIOUS
  <2>1. j # k
    OBVIOUS
  <2>2. ~ServerEnded(j, 0)
    BY <1>1, <2>1 DEF ServerEnded
  <2>. QED  BY <1>5, <2>2
<1>9. \A i : Newest(i, I) => cabinet[0][i].ver \in Findable(n)
  BY <1>5, <1>7
<1>. QED  BY <1>1, <1>2, <1>6, <1>8, <1>9 DEF Ready, I

(* Every other step leaves what the server has, and ends no put.           *)
LEMMA ClosedStays ==
  ASSUME IInv, OriginInv, [Next]_vars, NEW j \in Clients, wpc[j][0] = "closed"
  PROVE  wpc'[j][0] = "closed"
<1>1. ASSUME NEW k \in Clients, Client(k) PROVE wpc'[j][0] = "closed"
  <2>1. CASE Connect(k)
    <3>1. j # k
      BY <2>1, FirstServer DEF Connect, Goto, IInv, ConnectionInv, AtServer, WorkerAt
    <3>2. wpc'[j] = wpc[j]
      BY <2>1, <3>1, Tables DEF Connect, IInv
    <3>. QED  BY <3>2
  <2>2. CASE ~Connect(k)
    BY <1>1, <2>2 DEF Client, Refuse, PutSend, Ask, ReceiveHeader, ReceiveChunk,
                               ReceiveNextHeader, ofServer
  <2>. QED  BY <2>1, <2>2
<1>2. ASSUME NEW k \in Clients, Worker(k, 0) PROVE wpc'[j][0] = "closed"
  <2>1. j # k
    BY <1>2 DEF Worker
  <2>. QED  BY <1>2, <2>1, OthersAlone
<1>3. ASSUME NEW k \in Clients, NEW s \in Servers, s # 0, Worker(k, s) PROVE wpc'[j][0] = "closed"
  BY <1>3, ElsewhereStore
<1>4. ASSUME NEW k \in Clients, NEW s \in Servers, Die(k, s) PROVE wpc'[j][0] = "closed"
  <2>1. wpc'[j][0] = wpc[j][0] \/ wpc'[j][0] = "closed"
    BY <1>4, DieStore
  <2>. QED  BY <2>1
<1>5. CASE (\E s \in Servers : Stop(s) \/ StartAgain(s)) \/ UNCHANGED vars
  <2>1. wpc' = wpc
    <3>1. CASE \E s \in Servers : Stop(s) \/ StartAgain(s)
      BY <3>1, PowerStore
    <3>2. CASE UNCHANGED vars
      BY <3>2 DEF vars, ofServer
    <3>. QED  BY <1>5, <3>1, <3>2
  <2>. QED  BY <2>1
<1>. QED  BY <1>1, <1>2, <1>3, <1>4, <1>5 DEF Next, SendNothing, Terminating

LEMMA WorkerFresh ==
  ASSUME IInv, OriginInv, TrackInv, NEW k \in Clients, cmd[k].op = "get", Request(k), FreshAt(k),
         NEW j \in Clients, Worker(j, 0),
         \A i \in Clients : wpc'[i][0] # "closed" => wpc[i][0] # "closed"
  PROVE  FreshAt(k)'
<1>1. /\ UNCHANGED <<cmd, fresh>>
      /\ \A i \in Clients : i # j => wpc'[i][0] = wpc[i][0]
  BY OthersAlone
<1>2. CASE AddNode(j, 0)
  <2>1. j # k
    BY <1>2 DEF AddNode, Step, Request, PutPlaces
  <2>. QED  BY <1>2, <2>1, AddNodeFresh
<1>3. CASE ~AddNode(j, 0)
  <2>1. cabinet' = cabinet
    BY <1>3 DEF Worker, Wait, ReceiveFirst, ReceiveNext, CreateChunk, ReceiveBody, Find,
                SendHeader, SendBody
  <2>2. j = k /\ wpc'[k][0] \in {"first", "find"} => wpc[k][0] \in {"first", "find"}
    <3>1. ASSUME j = k, ~Wait(k, 0), ~ReceiveFirst(k, 0) PROVE wpc'[k][0] \notin {"first", "find"}
      <4>1. ~ReceiveNext(k, 0) /\ ~AddNode(k, 0) /\ ~CreateChunk(k, 0) /\ ~ReceiveBody(k, 0)
        BY DEF Request, PutPlaces, ReceiveNext, AddNode, Step, CreateChunk, ReceiveBody
      <4>2. Find(k, 0) \/ SendHeader(k, 0) \/ SendBody(k, 0)
        BY <3>1, <4>1 DEF Worker
      <4>. QED  BY <4>2, FindDoes, SendHeaderDoes, SendBodyDoes
    <3>2. Wait(k, 0) => wpc' = wpc
      BY DEF Wait
    <3>3. ReceiveFirst(k, 0) => wpc[k][0] = "first"
      BY DEF ReceiveFirst
    <3>. QED  BY <3>1, <3>2, <3>3
  <2>3. wpc'[k][0] \in {"first", "find"} => wpc[k][0] \in {"first", "find"}
    BY <1>1, <2>2
  <2>. QED  BY <1>1, <2>1, <2>3, SameFresh
<1>. QED  BY <1>2, <1>3

LEMMA NextFresh ==
  ASSUME IInv, OriginInv, TrackInv, RequestInv, FreshInv, [Next]_vars
  PROVE  FreshInv'
<1> SUFFICES ASSUME NEW k \in Clients, cmd'[k].op = "get" PROVE FreshAt(k)'
  BY DEF FreshInv
<1>0. cmd' = cmd => cmd[k].op = "get" /\ FreshAt(k) /\ Request(k)
  BY DEF FreshInv, RequestInv
<1>a. \A i \in Clients : wpc'[i][0] # "closed" => wpc[i][0] # "closed"
  BY ClosedStays
<1>1. ASSUME NEW j \in Clients, Client(j) PROVE FreshAt(k)'
  <2>1. /\ cmd' = cmd /\ cabinet' = cabinet
        /\ j # k => fresh'[k] = fresh[k] /\ wpc'[k] = wpc[k]
    BY <1>1, ClientIsQuiet DEF IInv, QuietClient, Alone
  <2>2. CASE j = k /\ Connect(k)
    BY <1>0, <2>1, <2>2, ConnectFresh
  <2>3. CASE j = k /\ ~Connect(k)
    <3>1. fresh' = fresh /\ wpc' = wpc
      BY <1>1, <2>3 DEF Client, Refuse, PutSend, Ask, ReceiveHeader, ReceiveChunk,
                               ReceiveNextHeader, ofServer
    <3>. QED  BY <1>0, <1>a, <2>1, <3>1, SameFresh
  <2>4. CASE j # k
    BY <1>0, <1>a, <2>1, <2>4, SameFresh
  <2>. QED  BY <2>2, <2>3, <2>4
<1>2. ASSUME NEW j \in Clients, Worker(j, 0) PROVE FreshAt(k)'
  <2>1. cmd' = cmd
    BY <1>2, OthersAlone
  <2>. QED  BY <1>0, <1>a, <1>2, <2>1, WorkerFresh
<1>3. ASSUME NEW j \in Clients, NEW s \in Servers, s # 0, Worker(j, s) PROVE FreshAt(k)'
  <2>1. cmd' = cmd /\ fresh' = fresh /\ cabinet'[0] = cabinet[0] /\ wpc'[k][0] = wpc[k][0]
    BY <1>3, ElsewhereStore
  <2>. QED  BY <1>0, <1>a, <2>1, SameFresh
<1>4. ASSUME NEW j \in Clients, NEW s \in Servers, Die(j, s) PROVE FreshAt(k)'
  <2>1. /\ UNCHANGED ofClient
        /\ wpc'[k][0] = wpc[k][0] \/ wpc'[k][0] = "closed"
        /\ cabinet'[0] = cabinet[0] \/ wpc'[k][0] \in {"none", "closed"}
    BY <1>4, DieStore
  <2>2. cmd' = cmd /\ fresh' = fresh
    BY <2>1 DEF ofClient
  <2>3. wpc'[k][0] \in {"first", "find"} =>
           cabinet'[0] = cabinet[0] /\ wpc[k][0] \in {"first", "find"}
    BY <2>1
  <2>. QED  BY <1>0, <1>a, <2>2, <2>3, SameFresh
<1>5. CASE (\E s \in Servers : Stop(s) \/ StartAgain(s)) \/ UNCHANGED vars
  <2>1. /\ cmd' = cmd /\ fresh' = fresh /\ wpc' = wpc
        /\ cabinet'[0] = cabinet[0] \/ wpc[k][0] \in {"none", "closed"}
    <3>1. CASE \E s \in Servers : Stop(s) \/ StartAgain(s)
      BY <3>1, PowerStore DEF ofClient
    <3>2. CASE UNCHANGED vars
      BY <3>2 DEF vars, ofClient, ofServer
    <3>. QED  BY <1>5, <3>1, <3>2
  <2>2. wpc'[k][0] \in {"first", "find"} =>
           cabinet'[0] = cabinet[0] /\ wpc[k][0] \in {"first", "find"}
    BY <2>1
  <2>. QED  BY <1>0, <1>a, <2>1, <2>2, SameFresh
<1>. QED  BY <1>1, <1>2, <1>3, <1>4, <1>5 DEF Next, SendNothing, Terminating

(* What the worker finds.                                                  *)
LEMMA FoundFresh ==
  ASSUME IInv, OriginInv, NEW k \in Clients, Request(k), FreshAt(k), Find(k, 0)
  PROVE  /\ wpc'[k][0] = "closed" => fresh[k] = {}
         /\ wpc'[k][0] = "send" => /\ nodes'[k][0][1].name = Wanted(k)
                                   /\ fresh[k] = {} \/ nodes'[k][0][1].ver \in fresh[k]
<1> DEFINE I == {i \in DOMAIN cabinet[0] : cabinet[0][i].name = wcmd[k][0].name}
           first == NewestOf(cabinet[0], I)
           others == {i \in I : cabinet[0][i].chunk # first.chunk}
<1>1. /\ wpc[k][0] = "find"
      /\ \/ /\ wpc'[k][0] = "send" /\ I # {}
            /\ nodes'[k][0] = <<first, NewestOf(cabinet[0], others)>>
         \/ wpc'[k][0] = "closed" /\ (I = {} \/ others = {})
  BY FindDoes
<1>2. I = NodesOf(Wanted(k))
  BY <1>1 DEF Request, NodesOf
<1>3. fresh[k] # {} => Ready(k)
  BY <1>1 DEF FreshAt
<1>4. fresh[k] # {} => I # {} /\ others # {}
  BY <1>2, <1>3 DEF Ready
<1>5. I # {} => Newest(Max(I), I) /\ first = cabinet[0][Max(I)] /\ first.name = Wanted(k)
  <2> SUFFICES ASSUME I # {}
               PROVE  Newest(Max(I), I) /\ first = cabinet[0][Max(I)] /\ first.name = Wanted(k)
    OBVIOUS
  <2>1. I \subseteq DOMAIN cabinet[0]
    OBVIOUS
  <2>2. first = cabinet[0][Max(I)] /\ Max(I) \in I
    BY <2>1, ChosenNode DEF IInv
  <2>3. \A y \in I : y =< Max(I)
    <3>1. cabinet[0] \in Seq(Full)
      BY FirstServer, Tables DEF IInv
    <3>2. I \subseteq 1..Len(cabinet[0]) /\ Len(cabinet[0]) \in Nat
      BY <2>1, <3>1
    <3> HIDE DEF I
    <3>. QED  BY <3>2, <2>2, MaxOfIndices
  <2>4. first.name = Wanted(k)
    BY <1>2, <2>2 DEF NodesOf
  <2>. QED  BY <2>2, <2>3, <2>4 DEF Newest
<1>6. fresh[k] # {} => first.ver \in fresh[k]
  BY <1>2, <1>3, <1>4, <1>5 DEF Ready
<1>7. wpc'[k][0] = "send" => nodes'[k][0][1] = first
  BY <1>1
<1> HIDE DEF I, first, others
<1>. QED  BY <1>1, <1>4, <1>5, <1>6, <1>7

-----------------------------------------------------------------------------
(* What a get may be sent, and what comes next.                            *)
Sought(k, id) == id[1] = Wanted(k) /\ (fresh[k] = {} \/ id[2] \in fresh[k])

Takeable(k) ==
  {v \in Seq(Cells) : v # <<>> /\ \E id : Sought(k, id) /\ Settled(id) /\ v = file[0][id]}

NextId(k) == Id(nodes[k][0][1])

NextChunk(k) ==
  {v \in Seq(Cells) : wpc[k][0] = "sendbody" /\ Sought(k, NextId(k)) /\ v = file[0][NextId(k)]}

Unanswered(k) == late[k] \/ fresh[k] = {}

FlowAt(k) ==
  pc[k] \notin {"start", "refused"} /\ ~disturbed[k][0] =>
    Flow(Takeable(k), NextChunk(k), wpc[k][0], toClient[k][0], fresh[k] = {},
         Sought(k, NextId(k)), Unanswered(k), asked[k], pc[k], reply[k], got[k])

FlowInv == \A k \in Clients : cmd[k].op = "get" => FlowAt(k)

(* All that is only possible stays so.                                     *)
LEMMA FlowMore ==
  ASSUME NEW V, NEW W, V \subseteq W, NEW N, NEW w, NEW T, NEW e, NEW o, NEW u, NEW a, NEW q,
         NEW r, NEW g, Flow(V, N, w, T, e, o, u, a, q, r, g),
         NEW f, NEW p, NEW x, e => f, o => p, u => x
  PROVE  Flow(W, N, w, T, f, p, x, a, q, r, g)
<1>1. Waits(w, T, e, o) => Waits(w, T, f, p)
  BY DEF Waits
<1>2. Flow(V, N, w, T, f, p, x, a, q, r, g)
  BY <1>1 DEF Flow, BeforeHeader, BeforeChunk, AfterAll
<1>. QED  BY <1>2, FlowGrows

LEMMA TakeableIs ==
  ASSUME StoreInv, NEW k \in Clients
  PROVE  /\ Takeable(k) \subseteq Seq(Sent(NotGets)) \ {<<>>}
         /\ Takeable(k) \subseteq Seq(Cells) /\ Takeable(k) \subseteq Seq(Cells) \ {<<>>}
<1>1. \A id : Settled(id) => file[0][id] \in Seq(Sent(NotGets))
  BY DEF StoreInv, TextInv, Settled
<1>. QED  BY <1>1 DEF Takeable

LEMMA SameSought ==
  ASSUME NEW k \in Clients, cmd' = cmd, fresh'[k] = fresh[k]
  PROVE  \A id : Sought(k, id)' <=> Sought(k, id)
BY DEF Sought, Wanted

LEMMA TakeableGrows ==
  ASSUME Kept0, NEW k \in Clients, cmd' = cmd, fresh'[k] = fresh[k]
  PROVE  Takeable(k) \subseteq Takeable(k)'
<1>1. \A id : Sought(k, id)' <=> Sought(k, id)
  BY SameSought
<1> SUFFICES ASSUME NEW v \in Takeable(k) PROVE v \in Takeable(k)'
  OBVIOUS
<1>2. PICK id : Sought(k, id) /\ Settled(id) /\ v = file[0][id]
  BY DEF Takeable
<1>3. Settled(id)' /\ file'[0][id] = file[0][id] /\ Sought(k, id)'
  BY <1>1, <1>2 DEF Kept0
<1>. QED  BY <1>2, <1>3 DEF Takeable

(* The chunk that is sent is nobody's.                                     *)
LEMMA NextSettled ==
  ASSUME IInv, StoreInv, NEW k \in Clients, wpc[k][0] = "sendbody"
  PROVE  /\ Settled(NextId(k)) /\ file[0][NextId(k)] \in Seq(Cells)
         /\ nodes[k][0] # <<>> /\ nodes[k][0][1] \in Range(cabinet[0])
<1>1. /\ NextId(k) \in DOMAIN file[0] /\ nodes[k][0] # <<>>
  BY FirstServer DEF IInv, FileInv, FileAt, ConnectionInv, AtServer, WorkerAt, NextId
<1>2. nodes[k][0] \in Seq(Full) /\ file[0] \in Contents
  BY FirstServer DEF IInv, Types, ServerTypes
<1>3. 1 \in DOMAIN nodes[k][0]
  BY <1>1, <1>2, TailCells
<1>4. /\ wcmd[k][0].name = nodes[k][0][1].name /\ CanRead(0, wcmd[k][0].name)
      /\ nodes[k][0][1] \in Range(cabinet[0])
  BY <1>3 DEF StoreInv, ReadInv, Reads
<1>5. \A j \in Clients : wpc[j][0] \in {"body", "rest"} => Id(wcmd[j][0]) # NextId(k)
  BY <1>4 DEF CanRead, Writing, Id, NextId
<1>6. file[0][NextId(k)] \in Seq(Cells)
  BY <1>1, <1>2 DEF Contents
<1>. QED  BY <1>1, <1>4, <1>5, <1>6 DEF Settled

LEMMA SameNext ==
  ASSUME IInv, StoreInv, Kept0, NEW k \in Clients, cmd' = cmd, fresh'[k] = fresh[k],
         wpc'[k][0] = wpc[k][0], nodes'[k][0] = nodes[k][0]
  PROVE  /\ NextChunk(k)' = NextChunk(k) /\ NextId(k)' = NextId(k)
         /\ Sought(k, NextId(k))' <=> Sought(k, NextId(k))
<1>1. NextId(k)' = NextId(k)
  BY DEF NextId
<1>2. Sought(k, NextId(k))' <=> Sought(k, NextId(k))
  BY <1>1 DEF Sought, Wanted
<1>3. wpc[k][0] = "sendbody" => file'[0][NextId(k)] = file[0][NextId(k)]
  BY NextSettled DEF Kept0
<1>. QED  BY <1>1, <1>2, <1>3 DEF NextChunk

LEMMA SameFlow ==
  ASSUME IInv, StoreInv, Kept0, NEW k \in Clients, FlowAt(k), cmd' = cmd,
         fresh'[k] = fresh[k], pc'[k] = pc[k], asked'[k] = asked[k], reply'[k] = reply[k],
         got'[k] = got[k], late'[k] = late[k],
         ~disturbed'[k][0] => ~disturbed[k][0] /\ wpc'[k][0] = wpc[k][0],
         nodes'[k][0] = nodes[k][0], toClient'[k][0] = toClient[k][0]
  PROVE  FlowAt(k)'
<1> SUFFICES ASSUME pc'[k] \notin {"start", "refused"}, ~disturbed'[k][0]
             PROVE  Flow(Takeable(k), NextChunk(k), wpc[k][0], toClient[k][0], fresh[k] = {},
                         Sought(k, NextId(k)), Unanswered(k), asked[k], pc[k], reply[k], got[k])'
  BY DEF FlowAt
<1>1. Flow(Takeable(k), NextChunk(k), wpc[k][0], toClient[k][0], fresh[k] = {},
           Sought(k, NextId(k)), Unanswered(k), asked[k], pc[k], reply[k], got[k])
  BY DEF FlowAt
<1>2. Takeable(k) \subseteq Takeable(k)'
  BY TakeableGrows
<1>3. /\ NextChunk(k)' = NextChunk(k)
      /\ Sought(k, NextId(k))' <=> Sought(k, NextId(k))
      /\ Unanswered(k)' <=> Unanswered(k)
  BY SameNext DEF Unanswered
<1> DEFINE W == Takeable(k)'
           p == Sought(k, NextId(k))'
           x == Unanswered(k)'
           M == NextChunk(k)'
<1>4. /\ Takeable(k) \subseteq W /\ M = NextChunk(k)
      /\ Sought(k, NextId(k)) => p
      /\ Unanswered(k) => x
  BY <1>2, <1>3
<1> HIDE DEF W, p, x, M
<1>5. Flow(W, M, wpc[k][0], toClient[k][0], fresh[k] = {}, p, x, asked[k], pc[k], reply[k], got[k])
  BY <1>1, <1>4, FlowMore
<1>6. Flow(W, M, wpc'[k][0], toClient'[k][0], fresh'[k] = {}, p, x, asked'[k], pc'[k],
           reply'[k], got'[k])
  BY <1>5
<1>. QED  BY <1>6 DEF W, p, x, M

(* The worker of a get goes on.                                            *)
FlowNow(k) ==
  Flow(Takeable(k), NextChunk(k), wpc[k][0], toClient[k][0], fresh[k] = {},
       Sought(k, NextId(k)), Unanswered(k), asked[k], pc[k], reply[k], got[k])

LEMMA FlowAfter ==
  ASSUME Kept0, NEW k \in Clients, UNCHANGED <<cmd, pc, sent, asked, reply, got, late, fresh>>,
         NEW M, M = NextChunk(k)', NEW p, p => Sought(k, NextId(k))',
         Flow(Takeable(k), M, wpc'[k][0], toClient'[k][0], fresh[k] = {}, p, Unanswered(k),
              asked[k], pc[k], reply[k], got[k])
  PROVE  FlowAt(k)'
<1>1. Takeable(k) \subseteq Takeable(k)'
  BY TakeableGrows
<1>2. Unanswered(k) => Unanswered(k)'
  BY DEF Unanswered
<1> DEFINE W == Takeable(k)'
           o == Sought(k, NextId(k))'
           x == Unanswered(k)'
           u == Unanswered(k)
           e == fresh[k] = {}
<1>3. /\ Takeable(k) \subseteq W /\ (p => o) /\ (u => x)
      /\ Flow(Takeable(k), M, wpc'[k][0], toClient'[k][0], e, p, u, asked[k], pc[k], reply[k],
              got[k])
  BY <1>1, <1>2
<1> HIDE DEF W, o, x, u, e
<1>4. Flow(W, M, wpc'[k][0], toClient'[k][0], e, o, x, asked[k], pc[k], reply[k], got[k])
  BY <1>3, FlowMore
<1>5. Flow(W, M, wpc'[k][0], toClient'[k][0], fresh'[k] = {}, o, x, asked'[k], pc'[k],
           reply'[k], got'[k])
  BY <1>4 DEF e
<1>. QED  BY <1>5 DEF W, o, x, FlowAt

LEMMA RequestFlow ==
  ASSUME IInv, OriginInv, Kept0, NEW k \in Clients, cmd[k].op = "get", Request(k), FlowNow(k),
         ReceiveFirst(k, 0), UNCHANGED <<cmd, pc, sent, asked, reply, got, late, fresh>>
  PROVE  FlowAt(k)'
<1>1. wpc[k][0] = "first" /\ wpc'[k][0] = "find" /\ toClient' = toClient
  BY RequestReceived, ReceiveFirstDoes
<1> DEFINE M == NextChunk(k)'
           p == Sought(k, NextId(k))'
           o == Sought(k, NextId(k))
           u == Unanswered(k)
           e == fresh[k] = {}
           w == wpc[k][0]
           x == "find"
<1>a. /\ w \in {"first", "find"} /\ x \in {"find", "send", "closed"}
      /\ (x = "closed" => e) /\ (x = "send" => p)
      /\ Flow(Takeable(k), NextChunk(k), w, toClient[k][0], e, o, u, asked[k], pc[k], reply[k],
              got[k])
  BY <1>1 DEF FlowNow
<1> HIDE DEF M, p, o, u, e, x, w
<1>b. FlowStep(Takeable(k), NextChunk(k), w, toClient[k][0], e, o, u, asked[k], pc[k], reply[k],
               got[k], M, x, toClient[k][0], p)
  BY <1>a, FlowBefore
<1>2. Flow(Takeable(k), M, x, toClient[k][0], e, p, u, asked[k], pc[k], reply[k], got[k])
  BY <1>a, <1>b DEF FlowStep
<1>3. Flow(Takeable(k), M, wpc'[k][0], toClient'[k][0], fresh[k] = {}, p, Unanswered(k),
           asked[k], pc[k], reply[k], got[k])
  BY <1>1, <1>2 DEF u, e, x
<1>. QED  BY <1>3, FlowAfter DEF M, p

LEMMA FindFlow ==
  ASSUME IInv, OriginInv, Kept0, NEW k \in Clients, Request(k), FreshAt(k), FlowNow(k),
         Find(k, 0), UNCHANGED <<cmd, pc, sent, asked, reply, got, late, fresh>>
  PROVE  FlowAt(k)'
<1>1. /\ wpc[k][0] = "find" /\ wpc'[k][0] \in {"send", "closed"} /\ toClient' = toClient
  BY FindDoes
<1>2. wpc'[k][0] = "closed" => fresh[k] = {}
  BY FoundFresh
<1>3. wpc'[k][0] = "send" => Sought(k, NextId(k))'
  <2> SUFFICES ASSUME wpc'[k][0] = "send" PROVE Sought(k, NextId(k))'
    OBVIOUS
  <2>1. /\ nodes'[k][0][1].name = Wanted(k)
        /\ fresh[k] = {} \/ nodes'[k][0][1].ver \in fresh[k]
    BY FoundFresh
  <2>. QED  BY <2>1 DEF Sought, NextId, Id, Wanted
<1> DEFINE M == NextChunk(k)'
           p == Sought(k, NextId(k))'
           x == wpc'[k][0]
           o == Sought(k, NextId(k))
           u == Unanswered(k)
           e == fresh[k] = {}
           w == wpc[k][0]
<1>4. /\ w \in {"first", "find"} /\ x \in {"find", "send", "closed"}
      /\ (x = "closed" => e) /\ (x = "send" => p)
      /\ Flow(Takeable(k), NextChunk(k), w, toClient[k][0], e, o, u, asked[k], pc[k], reply[k],
              got[k])
  BY <1>1, <1>2, <1>3 DEF FlowNow
<1> HIDE DEF M, p, o, u, e, x, w
<1>b. FlowStep(Takeable(k), NextChunk(k), w, toClient[k][0], e, o, u, asked[k], pc[k], reply[k],
               got[k], M, x, toClient[k][0], p)
  BY <1>4, FlowBefore
<1>5. Flow(Takeable(k), M, x, toClient[k][0], e, p, u, asked[k], pc[k], reply[k], got[k])
  BY <1>4, <1>b DEF FlowStep
<1>6. Flow(Takeable(k), M, wpc'[k][0], toClient'[k][0], fresh[k] = {}, p, Unanswered(k),
           asked[k], pc[k], reply[k], got[k])
  BY <1>1, <1>5 DEF x, u, e
<1>. QED  BY <1>6, FlowAfter DEF M, p

LEMMA HeaderFlow ==
  ASSUME IInv, OriginInv, StoreInv, Kept0, NEW k \in Clients, cmd[k].op = "get", Request(k),
         FlowNow(k), SendHeader(k, 0), ~disturbed'[k][0],
         UNCHANGED <<cmd, pc, sent, asked, reply, got, late, fresh>>
  PROVE  FlowAt(k)'
<1> DEFINE n == nodes[k][0][1]
           old == wcmd[k][0]
           h == wcmd'[k][0]
<1>1. /\ cabinet' = cabinet /\ file' = file /\ nodes' = nodes
      /\ wpc[k][0] = "send" /\ wpc'[k][0] = "sendbody"
      /\ h = Fields(old, n) /\ toClient'[k][0] = toClient[k][0] \o HeaderCells(h)
      /\ Id(n) \in DOMAIN file[0]
  BY SendHeaderDoes
<1>2. /\ nodes[k][0] # <<>> /\ nodes[k][0] \in Seq(Full) /\ old \in Good /\ old \in Owned(k, 0)
      /\ nodes[k][0] \in Seq(Home) /\ toClient[k][0] \in Seq(Cells)
  <2>1. Answered(k, 0)
    BY DEF Answered
  <2>. QED  BY <1>1, <2>1, FirstServer, Tables
            DEF IInv, ConnectionInv, AtServer, WorkerAt, OriginInv, Origin
<1>3. n \in Full /\ n \in Home /\ n \in Range(cabinet[0])
  <2>1. 1 \in DOMAIN nodes[k][0] /\ n \in Full /\ n \in Home
    BY <1>2, TailCells
  <2>. QED  BY <1>1, <2>1 DEF StoreInv, ReadInv, Reads
<1>4. /\ n \in Cmds /\ old \in Cmds /\ n.size \in Sizes /\ old.size \in Sizes
      /\ Len(n.size) =< 2 /\ Len(old.size) =< 2
  BY <1>2, <1>3, FullIsGood DEF Good, Cmds, Home, Owned
<1>5. /\ h.op = "get" /\ h.size = Overwrite(old.size, n.size) /\ h \in Full
      /\ Len(Overwrite(old.size, n.size)) =< 2
      /\ Value(n.size) =< Value(Overwrite(old.size, n.size))
      /\ Overwrite(old.size, n.size) \in Sizes
  <2>1. h.op = old.op /\ old.op = "get"
    BY <1>1, <1>4, FieldsOf DEF Request
  <2>2. /\ Overwrite(old.size, n.size) \in Sizes /\ Len(Overwrite(old.size, n.size)) =< 2
        /\ Value(n.size) =< Value(Overwrite(old.size, n.size))
    BY <1>4, OverwriteMore
  <2>3. h = [n EXCEPT !.op = old.op, !.size = Overwrite(old.size, n.size)]
    BY <1>1 DEF Fields
  <2>4. h.size = Overwrite(old.size, n.size) /\ h \in Full
    <3>1. old.op \in Ops
      BY <1>4 DEF Cmds
    <3>. QED  BY <1>3, <2>2, <2>3, <3>1 DEF Full
  <2>. QED  BY <2>1, <2>2, <2>4
<1> DEFINE M == NextChunk(k)'
           p == Sought(k, NextId(k))'
           o == Sought(k, NextId(k))
           v == file[0][Id(n)]
<1>6. v \in Seq(Cells) /\ Len(v) =< Value(n.size)
  <2>1. file[0] \in Contents
    BY FirstServer, Tables DEF IInv
  <2>2. v \in Seq(Cells)
    BY <1>1, <2>1 DEF Contents
  <2>. QED  BY <1>1, <1>3, <2>2 DEF StoreInv, FitInv, Fits
<1>7. o => v \in M
  BY <1>1, <1>6 DEF NextChunk, NextId, Sought, Wanted
<1>8. o => \E c \in M : Len(c) =< Value(h.size)
  <2> SUFFICES ASSUME o PROVE Len(v) =< Value(h.size)
    BY <1>7
  <2>1. Value(n.size) \in Nat /\ Value(h.size) \in Nat /\ Value(n.size) =< Value(h.size)
    <3>1. Value(n.size) =< Value(h.size)
      BY <1>5
    <3>2. h.size \in Sizes
      BY <1>5
    <3>. QED  BY <1>4, <3>1, <3>2, ValueType
  <2>2. Len(v) \in Nat
    BY <1>6
  <2>. QED  BY <1>6, <2>1, <2>2
<1>9. /\ h \in Full /\ h.op = "get" /\ Len(h.size) =< 2
  BY <1>5
<1>10. Takeable(k) \subseteq Seq(Cells) \ {<<>>}
  BY TakeableIs
<1>11. Flow(Takeable(k), NextChunk(k), "send", toClient[k][0], fresh[k] = {}, o, Unanswered(k),
            asked[k], pc[k], reply[k], got[k])
  BY <1>1 DEF FlowNow
<1> HIDE DEF M, p, o, h, v
<1>12. Flow(Takeable(k), M, "sendbody", toClient[k][0] \o HeaderCells(h), fresh[k] = {}, p,
            Unanswered(k), asked[k], pc[k], reply[k], got[k])
  BY <1>2, <1>8, <1>9, <1>10, <1>11, FlowHeaderSent
<1>13. Flow(Takeable(k), M, wpc'[k][0], toClient'[k][0], fresh[k] = {}, p, Unanswered(k),
           asked[k], pc[k], reply[k], got[k])
  BY <1>1, <1>12
<1>. QED  BY <1>13, FlowAfter DEF M, p

LEMMA BodyFlow ==
  ASSUME IInv, OriginInv, StoreInv, Kept0, NEW k \in Clients, FlowNow(k),
         SendBody(k, 0), ~disturbed'[k][0],
         UNCHANGED <<cmd, pc, sent, asked, reply, got, late, fresh>>
  PROVE  FlowAt(k)'
<1> DEFINE v == file[0][NextId(k)]
           cells == Block(v)
           M == NextChunk(k)'
           p == Sought(k, NextId(k))'
           x == wpc'[k][0]
           o == Sought(k, NextId(k))
           u == Unanswered(k)
           e == fresh[k] = {}
<1>1. /\ wpc[k][0] = "sendbody" /\ x \in {"send", "closed"}
      /\ toClient'[k][0] = toClient[k][0] \o cells /\ v # <<>>
  BY SendBodyDoes DEF NextId
<1>2. Settled(NextId(k)) /\ v \in Seq(Cells)
  BY <1>1, NextSettled
<1>3. cells \in Seq(Cells)
  BY <1>2, BlockType
<1>4. \A c \in NextChunk(k) : c \in Takeable(k) /\ cells = Block(c)
  BY <1>1, <1>2 DEF NextChunk, Takeable
<1>5. Takeable(k) \subseteq Seq(Cells) \ {<<>>}
  BY TakeableIs
<1>6. toClient[k][0] \in Seq(Cells)
  BY FirstServer, Tables DEF IInv
<1>7. /\ Flow(Takeable(k), NextChunk(k), "sendbody", toClient[k][0], e, o, u, asked[k], pc[k],
              reply[k], got[k])
      /\ x \in {"send", "closed"}
  BY <1>1 DEF FlowNow
<1> HIDE DEF M, p, x, cells, o, u, e
<1>b. FlowStep(Takeable(k), NextChunk(k), "sendbody", toClient[k][0], e, o, u, asked[k], pc[k],
               reply[k], got[k], M, x, toClient[k][0] \o cells, p)
  <2> DEFINE V == Takeable(k)
             N == NextChunk(k)
             S == toClient[k][0]
             a == asked[k]
             q == pc[k]
             r == reply[k]
             g == got[k]
  <2>1. BodyIs(V, N, S, cells, x)
    BY <1>3, <1>4, <1>5, <1>6, <1>7 DEF BodyIs
  <2> HIDE DEF V, N, S, a, q, r, g
  <2>2. FlowStep(V, N, "sendbody", S, e, o, u, a, q, r, g, M, x, S \o cells, p)
    BY <2>1, FlowBodySent
  <2>. QED  BY <2>2 DEF V, N, S, a, q, r, g
<1>8. Flow(Takeable(k), M, x, toClient[k][0] \o cells, e, p, u, asked[k], pc[k], reply[k], got[k])
  BY <1>7, <1>b DEF FlowStep
<1>9. Flow(Takeable(k), M, wpc'[k][0], toClient'[k][0], fresh[k] = {}, p, Unanswered(k),
           asked[k], pc[k], reply[k], got[k])
  BY <1>1, <1>8 DEF x, u, e
<1>. QED  BY <1>9, FlowAfter DEF M, p

LEMMA WorkerFlow ==
  ASSUME IInv, OriginInv, StoreInv, Kept0, NEW k \in Clients, cmd[k].op = "get", Request(k),
         FreshAt(k), FlowAt(k), Worker(k, 0)
  PROVE  FlowAt(k)'
<1>1. UNCHANGED <<cmd, pc, sent, asked, reply, got, late, fresh>>
  BY OthersAlone
<1> SUFFICES ASSUME pc[k] \notin {"start", "refused"}, ~disturbed'[k][0] PROVE FlowAt(k)'
  BY <1>1 DEF FlowAt
<1>2. ~disturbed[k][0] => FlowNow(k)
  BY DEF FlowAt, FlowNow
<1>3. CASE Wait(k, 0)
  BY <1>1, <1>3, SameFlow DEF Wait, net
<1>4. CASE ReceiveFirst(k, 0)
  <2>1. ~disturbed[k][0]
    BY <1>4, ReceiveFirstDoes
  <2>. QED  BY <1>1, <1>2, <1>4, <2>1, RequestFlow
<1>5. CASE Find(k, 0)
  <2>1. disturbed' = disturbed
    BY <1>5, FindDoes
  <2>. QED  BY <1>1, <1>2, <1>5, <2>1, FindFlow
<1>6. CASE SendHeader(k, 0)
  <2>1. ~disturbed[k][0]
    BY <1>6, SendHeaderDoes
  <2>. QED  BY <1>1, <1>2, <1>6, <2>1, HeaderFlow
<1>7. CASE SendBody(k, 0)
  <2>1. ~disturbed[k][0]
    BY <1>7, SendBodyDoes
  <2>. QED  BY <1>1, <1>2, <1>7, <2>1, BodyFlow
<1>8. ~ReceiveNext(k, 0) /\ ~AddNode(k, 0) /\ ~CreateChunk(k, 0) /\ ~ReceiveBody(k, 0)
  BY DEF Request, PutPlaces, ReceiveNext, AddNode, Step, CreateChunk, ReceiveBody
<1>. QED  BY <1>3, <1>4, <1>5, <1>6, <1>7, <1>8 DEF Worker

(* The client of a get goes on.                                            *)
FlowFor(k, x, T, a, q, r, g) ==
  Flow(Takeable(k), NextChunk(k), wpc[k][0], T, fresh[k] = {}, Sought(k, NextId(k)), x, a, q, r, g)

LEMMA ClientAfter ==
  ASSUME IInv, StoreInv, Kept0, NEW k \in Clients, QuietClient(k), fresh'[k] = fresh[k],
         wpc'[k][0] = wpc[k][0], NEW x, x => Unanswered(k)',
         NEW T, T = toClient'[k][0], NEW a, a = asked'[k], NEW q, q = pc'[k],
         NEW r, r = reply'[k], NEW g, g = got'[k],
         ~disturbed[k][0] => FlowFor(k, x, T, a, q, r, g)
  PROVE  FlowAt(k)'
<1>1. cmd' = cmd /\ nodes'[k][0] = nodes[k][0] /\ (~disturbed'[k][0] => ~disturbed[k][0])
  BY DEF QuietClient
<1> SUFFICES ASSUME ~disturbed'[k][0]
             PROVE  Flow(Takeable(k)', NextChunk(k)', wpc'[k][0], toClient'[k][0], fresh'[k] = {},
                         Sought(k, NextId(k))', Unanswered(k)', asked'[k], pc'[k], reply'[k],
                         got'[k])
  BY DEF FlowAt
<1>2. Takeable(k) \subseteq Takeable(k)'
  BY <1>1, TakeableGrows
<1>3. NextChunk(k)' = NextChunk(k) /\ (Sought(k, NextId(k))' <=> Sought(k, NextId(k)))
  BY <1>1, SameNext
<1> DEFINE W == Takeable(k)'
           p == Sought(k, NextId(k))'
           o == Sought(k, NextId(k))
           u == Unanswered(k)'
           e == fresh[k] = {}
<1>4. /\ Takeable(k) \subseteq W /\ (o => p) /\ (x => u)
      /\ Flow(Takeable(k), NextChunk(k), wpc[k][0], T, e, o, x, a, q, r, g)
  BY <1>1, <1>2, <1>3 DEF FlowFor
<1> HIDE DEF W, p, o, u, e
<1>5. Flow(W, NextChunk(k), wpc[k][0], T, e, p, u, a, q, r, g)
  BY <1>4, FlowMore
<1>. QED  BY <1>3, <1>5 DEF W, p, u, e

LEMMA ConnectFlow ==
  ASSUME IInv, OriginInv, NEW k \in Clients, cmd[k].op = "get", Request(k), Connect(k)
  PROVE  FlowAt(k)'
<1>1. /\ pc[k] = "start" /\ pc'[k] = "ask" /\ asked' = asked /\ got' = got
      /\ toClient' = toClient
      /\ reply'[k] = [Blank EXCEPT !.op = "get", !.name = Wanted(k)]
      /\ wpc'[k][0] \in {"first", "none"}
  <2>1. /\ pc \in [Clients -> Pcs] /\ reply \in [Clients -> Good]
        /\ wpc \in [Clients -> [Servers -> Places]]
    BY Tables DEF IInv, Types, ClientTypes
  <2>. QED  BY <2>1, FirstServer DEF Connect, Goto, net, Wanted
<1>2. asked[k] = 0 /\ toClient[k][0] = <<>> /\ got[k] = <<>>
  BY <1>1, FirstServer DEF IInv, ConnectionInv, AtServer, WorkerAt, OriginInv, ReplyOrigin, Request
<1>3. reply'[k].size = <<>>
  BY <1>1 DEF Blank
<1> DEFINE e == (fresh[k] = {})'
           o == Sought(k, NextId(k))'
           u == Unanswered(k)'
           V == Takeable(k)'
           N == NextChunk(k)'
           r == reply'[k]
<1>4. /\ got'[k] = <<>> /\ r.size = <<>> /\ pc'[k] = "ask" /\ asked'[k] = 0
      /\ toClient'[k][0] = <<>> /\ wpc'[k][0] \in {"first", "none"}
  BY <1>1, <1>2, <1>3
<1> HIDE DEF e, o, u, V, N, r
<1>5. BeforeHeader(V, N, wpc'[k][0], toClient'[k][0], e, o, u, pc'[k], r, got'[k])
  BY <1>4 DEF BeforeHeader, Waits
<1>6. Flow(V, N, wpc'[k][0], toClient'[k][0], e, o, u, asked'[k], pc'[k], r, got'[k])
  BY <1>4, <1>5 DEF Flow
<1>. QED  BY <1>6 DEF FlowAt, e, o, u, V, N, r

LEMMA AskFlow ==
  ASSUME IInv, StoreInv, Kept0, NEW k \in Clients, QuietClient(k), FlowAt(k), Ask(k)
  PROVE  FlowAt(k)'
<1>1. /\ pc[k] = "ask" /\ pc'[k] = "header"
      /\ UNCHANGED <<asked, reply, got, late, fresh, wpc, toClient>>
  <2>1. pc \in [Clients -> Pcs]
    BY DEF IInv, Types, ClientTypes
  <2>. QED  BY <2>1 DEF Ask, Goto, ofServer, ClientSends
<1> DEFINE x == Unanswered(k)
<1>2. x => Unanswered(k)'
  BY <1>1 DEF Unanswered
<1>3. ~disturbed[k][0] => FlowFor(k, x, toClient[k][0], asked[k], "header", reply[k], got[k])
  BY <1>1, FlowAsk DEF FlowAt, FlowFor
<1> HIDE DEF x
<1>. QED  BY <1>1, <1>2, <1>3, ClientAfter

(* What it receives when it asks the second server is nothing.             *)
LEMMA SecondIsSilent ==
  ASSUME IInv, OriginInv, NEW k \in Clients, cmd[k].op = "get", asked[k] # 0, NEW n \in Nat
  PROVE  asked[k] = 2 /\ toClient[k][2] = <<>> /\ Taken(toClient[k][asked[k]], n) = <<>>
<1>1. asked[k] = 2 /\ 2 \in Servers
  BY DEF IInv, Types, ClientTypes, Servers
<1>2. toClient[k][2] = <<>>
  BY <1>1 DEF OriginInv, Origin, Answered
<1>3. Taken(toClient[k][2], n) = <<>>
  BY <1>2, NothingTaken
<1>. QED  BY <1>1, <1>2, <1>3

LEMMA LaterOnly ==
  ASSUME IInv, NEW k \in Clients, NEW n \in Nat, ClientReceives(k, n), fresh' = fresh
  PROVE  /\ Unanswered(k) => Unanswered(k)'
         /\ fresh[k] = {} => Unanswered(k)'
         /\ asked[k] = 0 => toClient'[k][0] = Remaining(toClient[k][0], n)
         /\ asked[k] = 0 /\ n > 0 /\ Taken(toClient[k][0], n) = <<>> /\ wpc[k][0] # "closed" =>
              Unanswered(k)'
<1>1. late \in [Clients -> BOOLEAN] /\ Types
  BY DEF IInv, Types, ClientTypes
<1>2. late'[k] <=> late[k] \/ (n > 0 /\ Taken(toClient[k][asked[k]], n) = <<>>
                               /\ ~ServerEnded(k, asked[k]))
  BY <1>1 DEF ClientReceives
<1>3. asked[k] = 0 => toClient'[k][0] = Remaining(toClient[k][0], n)
  BY <1>1, ClientReceived
<1>4. wpc[k][0] # "closed" => ~ServerEnded(k, 0)
  BY DEF ServerEnded
<1>. QED  BY <1>2, <1>3, <1>4 DEF Unanswered

(* Once it asks the second server, nothing changes.                        *)
LEMMA SecondFlow ==
  ASSUME IInv, StoreInv, Kept0, NEW k \in Clients, QuietClient(k), fresh'[k] = fresh[k],
         wpc'[k][0] = wpc[k][0], FlowAt(k), pc[k] \notin {"start", "refused"}, asked[k] # 0,
         asked'[k] # 0, got'[k] = got[k], Unanswered(k) => Unanswered(k)'
  PROVE  FlowAt(k)'
<1> DEFINE x == Unanswered(k)'
           T == toClient'[k][0]
           a == asked'[k]
           q == pc'[k]
           r == reply'[k]
           g == got'[k]
<1>1. ~disturbed[k][0] => AfterAll(Takeable(k), Unanswered(k), got[k])
  BY DEF FlowAt, Flow
<1>2. ~disturbed[k][0] => AfterAll(Takeable(k), x, g)
  BY <1>1 DEF AfterAll
<1>3. a # 0 /\ x => Unanswered(k)'
  OBVIOUS
<1>4. ~disturbed[k][0] => FlowFor(k, x, T, a, q, r, g)
  BY <1>2 DEF FlowFor, Flow
<1> HIDE DEF x, T, a, q, r, g
<1>5. x => Unanswered(k)'
  BY DEF x
<1>6. T = toClient'[k][0] /\ a = asked'[k] /\ q = pc'[k] /\ r = reply'[k] /\ g = got'[k]
  BY DEF T, a, q, r, g
<1>. QED  BY <1>4, <1>5, <1>6, ClientAfter

LEMMA HeaderReceivedFlow ==
  ASSUME IInv, OriginInv, StoreInv, Kept0, NEW k \in Clients, cmd[k].op = "get",
         QuietClient(k), FlowAt(k), ReceiveHeader(k)
  PROVE  FlowAt(k)'
<1>0. /\ pc \in [Clients -> Pcs] /\ reply \in [Clients -> Good]
      /\ toClient \in [Clients -> [Servers -> Seq(Cells)]] /\ HdrLen \in Nat /\ HdrLen > 0
  BY Tables, LimitsAreTwo, DfsAssumption DEF IInv, Types, ClientTypes
<1>1. /\ pc[k] = "header" /\ pc'[k] = "body" /\ ClientReceives(k, HdrLen)
      /\ asked' = asked /\ got' = got /\ fresh' = fresh /\ wpc' = wpc
      /\ reply'[k] = Parsed(reply[k], Taken(toClient[k][asked[k]], HdrLen))
  BY <1>0 DEF ReceiveHeader, Goto, ofServer
<1>2. CASE asked[k] # 0
  <2>1. Unanswered(k) => Unanswered(k)'
    BY <1>0, <1>1, LaterOnly
  <2>. QED  BY <1>1, <1>2, <2>1, SecondFlow
<1>3. CASE asked[k] = 0
  <2> DEFINE x == Unanswered(k)'
             u == Unanswered(k)
             e == fresh[k] = {}
             T == toClient[k][0]
             w == wpc[k][0]
             o == Sought(k, NextId(k))
             r == reply[k]
             S == toClient'[k][0]
             d == reply'[k]
  <2>1. /\ S = Remaining(T, HdrLen) /\ d = Parsed(r, Taken(T, HdrLen))
        /\ e => x
        /\ r \in Cmds
    BY <1>0, <1>1, <1>3, LaterOnly DEF Good
  <2>2. T = <<>> /\ w # "closed" => x
    <3>1. T = <<>> => Taken(T, HdrLen) = <<>>
      BY <1>0, NothingTaken
    <3>. QED  BY <1>0, <1>1, <1>3, <3>1, LaterOnly
  <2>3. ~disturbed[k][0] =>
           Flow(Takeable(k), NextChunk(k), w, T, e, o, u, 0, "header", r, got[k])
    BY <1>1, <1>3 DEF FlowAt
  <2>a. x => Unanswered(k)'
    OBVIOUS
  <2> HIDE DEF x, u, e, T, w, o, r, S, d
  <2>4. ~disturbed[k][0] =>
           Flow(Takeable(k), NextChunk(k), w, S, e, o, x, 0, "body", d, got[k])
    BY <2>1, <2>2, <2>3, FlowHeader
  <2>5. ~disturbed[k][0] => FlowFor(k, x, S, 0, "body", d, got[k])
    BY <2>4 DEF FlowFor, e, o, w
  <2>6. /\ S = toClient'[k][0] /\ 0 = asked'[k] /\ "body" = pc'[k] /\ d = reply'[k]
        /\ got[k] = got'[k] /\ fresh'[k] = fresh[k] /\ wpc'[k][0] = wpc[k][0]
    BY <1>1, <1>3 DEF S, d
  <2>. QED  BY <2>a, <2>5, <2>6, ClientAfter
<1>. QED  BY <1>2, <1>3

LEMMA ChunkReceivedFlow ==
  ASSUME IInv, OriginInv, StoreInv, Kept0, NEW k \in Clients, cmd[k].op = "get",
         QuietClient(k), FlowAt(k), ReceiveChunk(k)
  PROVE  FlowAt(k)'
<1> DEFINE n == IF pc[k] = "rest" THEN left[k] ELSE Value(reply[k].size)
<1>0. /\ pc \in [Clients -> Pcs] /\ reply \in [Clients -> Good] /\ left \in [Clients -> Nat]
      /\ got \in [Clients -> Seq(Cells \ {<<"nul">>})]
      /\ toClient \in [Clients -> [Servers -> Seq(Cells)]] /\ reply[k].size \in Sizes
      /\ got[k] \in Seq(Cells)
  BY Tables DEF IInv, Types, ClientTypes, Good, Cmds
<1>a. n \in Nat
  BY <1>0, ValueType
<1>1. /\ pc[k] \in {"body", "rest"} /\ pc'[k] \in {"rest", "next"} /\ ClientReceives(k, n)
      /\ asked' = asked /\ reply' = reply /\ fresh' = fresh /\ wpc' = wpc
      /\ got'[k] = got[k] \o Text(Taken(toClient[k][asked[k]], n))
      /\ pc[k] = "body" /\ Len(Taken(toClient[k][asked[k]], n)) \notin 1..n - 1 => pc'[k] = "next"
  BY <1>0 DEF ReceiveChunk, Goto, ofServer
<1>2. CASE asked[k] # 0
  <2>1. Unanswered(k) => Unanswered(k)'
    BY <1>a, <1>1, LaterOnly
  <2>2. Taken(toClient[k][asked[k]], n) = <<>>
    BY <1>2, <1>a, SecondIsSilent
  <2>3. Text(<<>>) = <<>>
    BY DEF Text
  <2>4. got'[k] = got[k]
    <3>1. got[k] \o <<>> = got[k]
      BY <1>0, EmptyJoined
    <3>. QED  BY <1>1, <2>2, <2>3, <3>1
  <2>. QED  BY <1>1, <1>2, <2>1, <2>4, SecondFlow
<1>3. CASE asked[k] = 0
  <2> DEFINE x == Unanswered(k)'
             u == Unanswered(k)
             e == fresh[k] = {}
             T == toClient[k][0]
             w == wpc[k][0]
             o == Sought(k, NextId(k))
             r == reply[k]
             S == toClient'[k][0]
             g == got'[k]
             q == pc'[k]
  <2>1. /\ S = Remaining(T, n) /\ g = got[k] \o Text(Taken(T, n))
        /\ u => x
        /\ r.size \in Sizes
    BY <1>0, <1>a, <1>1, <1>3, LaterOnly
  <2>2. n > 0 /\ Taken(T, n) = <<>> /\ w # "closed" => x
    BY <1>a, <1>1, <1>3, LaterOnly
  <2>3. ~disturbed[k][0] =>
           Flow(Takeable(k), NextChunk(k), w, T, e, o, u, 0, pc[k], r, got[k])
    BY <1>1, <1>3 DEF FlowAt
  <2>b. ~disturbed[k][0] => pc[k] = "body"
    BY <1>1, <2>3 DEF Flow, BeforeHeader, BeforeChunk, AfterChunk
  <2>c. pc[k] = "body" => n = Value(r.size)
    BY <1>1
  <2>d. pc[k] = "body" /\ Len(Taken(T, n)) \notin 1..n - 1 => q = "next"
    BY <1>1, <1>3
  <2>a. x => Unanswered(k)'
    OBVIOUS
  <2>e. T \in Seq(Cells)
    BY <1>0, FirstServer
  <2>f. Takeable(k) \subseteq Seq(Sent(NotGets)) \ {<<>>} /\ Takeable(k) \subseteq Seq(Cells)
    BY TakeableIs
  <2> HIDE DEF x, u, e, T, w, o, r, S, g, q, n
  <2>4. ASSUME ~disturbed[k][0]
        PROVE  /\ Len(Taken(T, n)) \notin 1..n - 1
               /\ Flow(Takeable(k), NextChunk(k), w, Remaining(T, n), e, o, x, 0, "next", r,
                       got[k] \o Text(Taken(T, n)))
    <3>1. Flow(Takeable(k), NextChunk(k), w, T, e, o, u, 0, "body", r, got[k]) /\ n = Value(r.size)
      BY <2>3, <2>b, <2>c, <2>4
    <3>2. (u => x) /\ r.size \in Sizes
      BY <2>1
    <3> DEFINE V == Takeable(k)
               N == NextChunk(k)
               f == got[k]
    <3>3. /\ V \subseteq Seq(Sent(NotGets)) \ {<<>>} /\ V \subseteq Seq(Cells)
          /\ Flow(V, N, w, T, e, o, u, 0, "body", r, f)
      BY <2>f, <3>1
    <3> HIDE DEF V, N, f
    <3>4. ChunkIsTaken(V, N, w, T, e, o, r, f, n, x)
      <4>1. /\ V \subseteq Seq(Sent(NotGets)) \ {<<>>} /\ V \subseteq Seq(Cells)
            /\ T \in Seq(Cells) /\ r.size \in Sizes
            /\ Flow(V, N, w, T, e, o, u, 0, "body", r, f) /\ n = Value(r.size)
            /\ u => x
            /\ n > 0 /\ Taken(T, n) = <<>> /\ w # "closed" => x
        BY <2>2, <2>e, <3>1, <3>2, <3>3
      <4>. QED  BY <1>a, <4>1, FlowChunk
    <3>. QED  BY <3>4 DEF V, N, f, ChunkIsTaken
  <2>g. ~disturbed[k][0] => q = "next"
    BY <2>4, <2>b, <2>d
  <2>h. ~disturbed[k][0] => Flow(Takeable(k), NextChunk(k), w, S, e, o, x, 0, q, r, g)
    BY <2>1, <2>4, <2>g
  <2>5. ~disturbed[k][0] => FlowFor(k, x, S, 0, q, r, g)
    BY <2>h DEF FlowFor, e, o, w
  <2>6. /\ S = toClient'[k][0] /\ 0 = asked'[k] /\ q = pc'[k] /\ r = reply'[k]
        /\ g = got'[k] /\ fresh'[k] = fresh[k] /\ wpc'[k][0] = wpc[k][0]
    BY <1>1, <1>3 DEF S, r, g, q
  <2>. QED  BY <2>a, <2>5, <2>6, ClientAfter
<1>. QED  BY <1>2, <1>3

LEMMA NextHeaderFlow ==
  ASSUME IInv, OriginInv, StoreInv, Kept0, NEW k \in Clients, cmd[k].op = "get",
         QuietClient(k), FlowAt(k), ReceiveNextHeader(k)
  PROVE  FlowAt(k)'
<1> DEFINE b == [reply[k] EXCEPT !.op = ""]
<1>0. /\ pc \in [Clients -> Pcs] /\ reply \in [Clients -> Good] /\ asked \in [Clients -> {0, 2}]
      /\ toClient \in [Clients -> [Servers -> Seq(Cells)]] /\ HdrLen \in Nat /\ HdrLen > 0
  BY Tables, LimitsAreTwo, DfsAssumption DEF IInv, Types, ClientTypes
<1>1. /\ pc[k] = "next" /\ ClientReceives(k, HdrLen)
      /\ got' = got /\ fresh' = fresh /\ wpc' = wpc
      /\ reply'[k] = Parsed(b, Taken(toClient[k][asked[k]], HdrLen))
      /\ \/ reply'[k].op = "get" /\ pc'[k] = "body" /\ asked' = asked
         \/ reply'[k].op # "get" /\ pc'[k] \in {"ask", "done"} /\ asked'[k] = 2
  BY <1>0 DEF ReceiveNextHeader, Goto, ofServer
<1>b. b \in Cmds /\ b.op # "get" /\ b.size = reply[k].size
  BY <1>0, OpOf DEF Good, Ops
<1> HIDE DEF b
<1>2. CASE asked[k] # 0
  <2>1. Unanswered(k) => Unanswered(k)'
    BY <1>0, <1>1, LaterOnly
  <2>2. asked'[k] # 0
    BY <1>1, <1>2
  <2>. QED  BY <1>1, <1>2, <2>1, <2>2, SecondFlow
<1>3. CASE asked[k] = 0
  <2> DEFINE x == Unanswered(k)'
             u == Unanswered(k)
             e == fresh[k] = {}
             T == toClient[k][0]
             w == wpc[k][0]
             o == Sought(k, NextId(k))
             r == reply[k]
             S == toClient'[k][0]
             d == reply'[k]
             a == asked'[k]
             q == pc'[k]
             g == got[k]
  <2>1. /\ S = Remaining(T, HdrLen) /\ d = Parsed(b, Taken(T, HdrLen))
        /\ u => x
    BY <1>0, <1>1, <1>3, LaterOnly
  <2>2. T = <<>> /\ w # "closed" => x
    <3>1. T = <<>> => Taken(T, HdrLen) = <<>>
      BY <1>0, NothingTaken
    <3>. QED  BY <1>0, <1>1, <1>3, <3>1, LaterOnly
  <2>3. ~disturbed[k][0] => Flow(Takeable(k), NextChunk(k), w, T, e, o, u, 0, "next", r, g)
    BY <1>1, <1>3 DEF FlowAt
  <2>a. x => Unanswered(k)'
    OBVIOUS
  <2>b. /\ d.op = "get" => q = "body" /\ a = 0
        /\ d.op # "get" => a # 0
    BY <1>1, <1>3
  <2>e. T \in Seq(Cells) /\ b.size = r.size
    BY <1>0, <1>b, FirstServer
  <2>f. Takeable(k) \subseteq Seq(Sent(NotGets)) \ {<<>>} /\ Takeable(k) \subseteq Seq(Cells)
    BY TakeableIs
  <2> HIDE DEF x, u, e, T, w, o, r, S, d, a, q, g
  <2>4. ASSUME ~disturbed[k][0]
        PROVE  /\ d.op # "get" => AfterAll(Takeable(k), x, g)
               /\ d.op = "get" =>
                    Flow(Takeable(k), NextChunk(k), w, S, e, o, x, 0, "body", d, g)
    <3> DEFINE V == Takeable(k)
               N == NextChunk(k)
    <3>1. /\ V \subseteq Seq(Sent(NotGets)) \ {<<>>} /\ V \subseteq Seq(Cells)
          /\ Flow(V, N, w, T, e, o, u, 0, "next", r, g)
      BY <2>f, <2>3, <2>4
    <3>2. (u => x) /\ b \in Cmds /\ b.op # "get" /\ b.size = r.size
      BY <1>b, <2>1, <2>e
    <3> HIDE DEF V, N
    <3>3. NextIsTaken(V, N, w, T, e, o, g, b, x)
      BY <2>2, <2>e, <3>1, <3>2, FlowNext
    <3>. QED  BY <2>1, <3>3 DEF V, N, NextIsTaken
  <2>g. ~disturbed[k][0] => Flow(Takeable(k), NextChunk(k), w, S, e, o, x, a, q, d, g)
    <3>1. ASSUME ~disturbed[k][0], d.op # "get"
          PROVE  Flow(Takeable(k), NextChunk(k), w, S, e, o, x, a, q, d, g)
      BY <2>4, <2>b, <3>1 DEF Flow
    <3>2. ASSUME ~disturbed[k][0], d.op = "get"
          PROVE  Flow(Takeable(k), NextChunk(k), w, S, e, o, x, a, q, d, g)
      BY <2>4, <2>b, <3>2
    <3>. QED  BY <3>1, <3>2
  <2>5. ~disturbed[k][0] => FlowFor(k, x, S, a, q, d, g)
    BY <2>g DEF FlowFor, e, o, w
  <2>6. /\ S = toClient'[k][0] /\ a = asked'[k] /\ q = pc'[k] /\ d = reply'[k]
        /\ g = got'[k] /\ fresh'[k] = fresh[k] /\ wpc'[k][0] = wpc[k][0]
    BY <1>1 DEF S, d, a, q, g
  <2>. QED  BY <2>a, <2>5, <2>6, ClientAfter
<1>. QED  BY <1>2, <1>3

LEMMA ClientFlow ==
  ASSUME IInv, OriginInv, StoreInv, Kept0, NEW k \in Clients, cmd[k].op = "get", Request(k),
         FlowAt(k), Client(k)
  PROVE  FlowAt(k)'
<1>1. QuietClient(k) /\ pc[k] # "put" /\ pc \in [Clients -> Pcs]
  BY ClientIsQuiet DEF IInv, ConnectionInv, AtClient, Types, ClientTypes
<1>2. ~PutSend(k)
  BY <1>1 DEF PutSend
<1>3. CASE Refuse(k)
  <2>1. pc'[k] = "refused"
    BY <1>1, <1>3 DEF Refuse, Goto
  <2>. QED  BY <2>1 DEF FlowAt
<1>4. CASE Connect(k)
  BY <1>4, ConnectFlow
<1>5. CASE Ask(k)
  BY <1>1, <1>5, AskFlow
<1>6. CASE ReceiveHeader(k)
  BY <1>1, <1>6, HeaderReceivedFlow
<1>7. CASE ReceiveChunk(k)
  BY <1>1, <1>7, ChunkReceivedFlow
<1>8. CASE ReceiveNextHeader(k)
  BY <1>1, <1>8, NextHeaderFlow
<1>. QED  BY <1>2, <1>3, <1>4, <1>5, <1>6, <1>7, <1>8 DEF Client

LEMMA NextFlow ==
  ASSUME IInv, OriginInv, TrackInv, StoreInv, RequestInv, FreshInv, FlowInv, [Next]_vars
  PROVE  FlowInv'
<1> SUFFICES ASSUME NEW k \in Clients, cmd'[k].op = "get" PROVE FlowAt(k)'
  BY DEF FlowInv
<1>0. cmd' = cmd => cmd[k].op = "get" /\ Request(k) /\ FreshAt(k) /\ FlowAt(k)
  BY DEF RequestInv, FreshInv, FlowInv
<1>k. Kept0
  BY NextStore
<1>1. ASSUME NEW j \in Clients, Client(j) PROVE FlowAt(k)'
  <2>1. QuietClient(j)
    BY <1>1, ClientIsQuiet DEF IInv
  <2>2. CASE j = k
    BY <1>0, <1>k, <1>1, <2>1, <2>2, ClientFlow DEF QuietClient
  <2>3. CASE j # k
    BY <1>0, <1>k, <2>1, <2>3, SameFlow DEF QuietClient, Alone
  <2>. QED  BY <2>2, <2>3
<1>2. ASSUME NEW j \in Clients, Worker(j, 0) PROVE FlowAt(k)'
  <2>1. /\ UNCHANGED <<cmd, pc, sent, asked, reply, got, late, fresh>>
        /\ \A i \in Clients : i # j =>
              /\ wpc'[i][0] = wpc[i][0] /\ nodes'[i][0] = nodes[i][0]
              /\ toClient'[i][0] = toClient[i][0] /\ disturbed'[i][0] = disturbed[i][0]
    BY <1>2, OthersAlone
  <2>2. CASE j = k
    BY <1>0, <1>k, <1>2, <2>1, <2>2, WorkerFlow
  <2>3. CASE j # k
    BY <1>0, <1>k, <2>1, <2>3, SameFlow
  <2>. QED  BY <2>2, <2>3
<1>3. ASSUME NEW j \in Clients, NEW s \in Servers, s # 0, Worker(j, s) PROVE FlowAt(k)'
  <2>1. /\ UNCHANGED <<cmd, pc, sent, asked, reply, got, late, fresh>>
        /\ wpc'[k][0] = wpc[k][0] /\ nodes'[k][0] = nodes[k][0]
        /\ toClient'[k][0] = toClient[k][0] /\ disturbed'[k][0] = disturbed[k][0]
    BY <1>3, ElsewhereStore
  <2>. QED  BY <1>0, <1>k, <2>1, SameFlow
<1>4. ASSUME NEW j \in Clients, NEW s \in Servers, Die(j, s) PROVE FlowAt(k)'
  <2>1. /\ UNCHANGED <<ofClient, nodes, toClient>>
        /\ ~disturbed'[k][0] => ~disturbed[k][0] /\ wpc'[k][0] = wpc[k][0]
    BY <1>4, DieStore
  <2>. QED  BY <1>0, <1>k, <2>1, SameFlow DEF ofClient
<1>5. CASE (\E s \in Servers : Stop(s) \/ StartAgain(s)) \/ UNCHANGED vars
  <2>1. UNCHANGED <<ofClient, wpc, nodes, disturbed, toClient>>
    <3>1. CASE \E s \in Servers : Stop(s) \/ StartAgain(s)
      BY <3>1, PowerStore DEF net
    <3>2. CASE UNCHANGED vars
      BY <3>2 DEF vars, ofServer, net
    <3>. QED  BY <1>5, <3>1, <3>2
  <2>. QED  BY <1>0, <1>k, <2>1, SameFlow DEF ofClient
<1>. QED  BY <1>1, <1>2, <1>3, <1>4, <1>5 DEF Next, SendNothing, Terminating

-----------------------------------------------------------------------------
(* What a get is given: the invariant of its answers.                      *)
AnswerInv == StoreInv /\ RequestInv /\ FreshInv /\ FlowInv

LEMMA InitAnswer ==
  ASSUME Init
  PROVE  AnswerInv
<1>1. StoreInv
  BY InitStore
<1> SUFFICES ASSUME NEW k \in Clients, cmd[k].op = "get"
             PROVE  Request(k) /\ FreshAt(k) /\ FlowAt(k)
  BY <1>1 DEF AnswerInv, RequestInv, FreshInv, FlowInv
<1>2. /\ pc[k] = "start" /\ got[k] = <<>> /\ fresh[k] = {}
      /\ wpc[k][0] = "none" /\ toServer[k][0] = <<>>
  BY FirstServer DEF Init
<1>. QED  BY <1>2 DEF Request, FreshAt, FlowAt, PutPlaces

LEMMA NextAnswer ==
  ASSUME IInv, OriginInv, TrackInv, AnswerInv, [Next]_vars
  PROVE  AnswerInv'
<1>1. StoreInv'
  BY NextStore DEF AnswerInv
<1>2. RequestInv'
  BY NextRequest DEF AnswerInv
<1>3. FreshInv'
  BY NextFresh DEF AnswerInv
<1>4. FlowInv'
  BY NextFlow DEF AnswerInv
<1>. QED  BY <1>1, <1>2, <1>3, <1>4 DEF AnswerInv

LEMMA GetDone ==
  ASSUME IInv, AnswerInv, NEW k \in Clients, cmd[k].op = "get", pc[k] = "done",
         ~disturbed[k][0]
  PROVE  \/ got[k] = <<>> /\ Unanswered(k)
         \/ \E id : /\ Sought(k, id) /\ id \in Ids /\ id \in DOMAIN file[0]
                    /\ ReadsAs(file[0][id], got[k])
<1>1. asked[k] = 2
  BY DEF AnswerInv, RequestInv, Request
<1>2. AfterAll(Takeable(k), Unanswered(k), got[k])
  BY <1>1 DEF AnswerInv, FlowInv, FlowAt, Flow
<1>3. DOMAIN file[0] \subseteq Ids
  <2>1. file[0] \in Contents
    BY FirstServer DEF IInv, Types, ServerTypes
  <2>. QED  BY <2>1 DEF Contents
<1>4. CASE Read(Takeable(k), got[k])
  <2>1. PICK v \in Takeable(k) : ReadsAs(v, got[k])
    BY <1>4 DEF Read
  <2>2. PICK id : Sought(k, id) /\ Settled(id) /\ v = file[0][id]
    BY <2>1 DEF Takeable
  <2>3. id \in DOMAIN file[0] /\ id \in Ids
    BY <1>3, <2>2 DEF Settled
  <2>. QED  BY <2>1, <2>2, <2>3
<1>. QED  BY <1>2, <1>4 DEF AfterAll

LEMMA StoredGets ==
  ASSUME IInv, AnswerInv
  PROVE  GotIsStored
<1> SUFFICES ASSUME NEW k \in Clients, cmd[k].op = "get", pc[k] = "done", ~disturbed[k][0]
             PROVE  got[k] = <<>> \/ \E content \in Range(file[0]) : ReadsAs(content, got[k])
  BY DEF GotIsStored
<1>1. \A id \in DOMAIN file[0] : file[0][id] \in Range(file[0])
  BY DEF Range
<1>. QED  BY <1>1, GetDone

LEMMA FreshGets ==
  ASSUME IInv, AnswerInv
  PROVE  GetsFresh
<1> SUFFICES ASSUME NEW k \in Clients, cmd[k].op = "get", pc[k] = "done", ~disturbed[k][0],
                    ~late[k], fresh[k] # {}
             PROVE  \E v \in fresh[k], c \in Chunks :
                      LET id == <<cmd[k].files[1], v, c>> IN
                      id \in DOMAIN file[0] /\ ReadsAs(file[0][id], got[k])
  BY DEF GetsFresh
<1>1. PICK id : Sought(k, id) /\ id \in Ids /\ id \in DOMAIN file[0] /\ ReadsAs(file[0][id], got[k])
  BY GetDone DEF Unanswered
<1>2. id[1] = cmd[k].files[1] /\ id[2] \in fresh[k] /\ id[3] \in Chunks
      /\ id = <<cmd[k].files[1], id[2], id[3]>>
  BY <1>1 DEF Sought, Wanted, Ids
<1>. QED  BY <1>1, <1>2

(* The invariants of gets hold, too.                                       *)
LEMMA GetsInductive == Spec => [](IInv /\ OriginInv /\ TrackInv /\ AnswerInv)
<1> DEFINE All == IInv /\ OriginInv /\ TrackInv /\ AnswerInv
<1>1. Init => All
  BY InitKeeps, InitOrigin, InitTrack, InitAnswer
<1>2. All /\ [Next]_vars => All'
  BY NextKeeps, NextKeepsOrigin, NextKeepsTrack, NextAnswer
<1>. QED  BY <1>1, <1>2, PTL DEF Spec

(* A get to which no header came without its chunk wrote one whole chunk   *)
(* of server 0, with what followed the buffer of send_chunk if the chunk   *)
(* fills it, or nothing: whatever puts run beside it, with any lengths,    *)
(* get_chunk_from_server reads no chunk that is being written, takes no    *)
(* part of one for another, and writes nothing behind it.                  *)
THEOREM GetsAreStored == Spec => []GotIsStored
<1>1. IInv /\ AnswerInv => GotIsStored
  BY StoredGets
<1>. QED  BY <1>1, GetsInductive, PTL

(* If nothing was late, and server 0 could answer when such a get started, *)
(* the chunk is of the file it asked for, and of the newest version there  *)
(* was then or of one that was being put: handle_get_dfs finds no older    *)
(* node, however many puts add theirs in the meantime.                     *)
THEOREM GetsAreFresh == Spec => []GetsFresh
<1>1. IInv /\ AnswerInv => GetsFresh
  BY FreshGets
<1>. QED  BY <1>1, GetsInductive, PTL
=============================================================================
