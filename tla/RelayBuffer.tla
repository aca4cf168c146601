---------------------------- MODULE RelayBuffer ----------------------------
(***************************************************************************)
(* The receive loop of fetch_remote (src/3_PA/proxy_serv/proxy_funs.c),    *)
(* byte by byte: what the client is sent and what is written to the cache  *)
(* file while the response of the origin server arrives in pieces, and     *)
(* what a later request is then sent by send_file.                         *)
(*                                                                         *)
(* One thread runs this with the bucket locked; the concurrent behaviour   *)
(* is that of ProxyCache.  The response is a 200 with a Content-Length.    *)
(***************************************************************************)
EXTENDS Integers, SequencesExt

CONSTANTS
  BufSize,     \* MAX_MSG_SZ
  BlockSize,   \* KILO, the unit send_file reads and sends
  StatusSize,  \* bytes up to and including the status of the response
  HeaderSize,  \* bytes up to and including the blank line
  Bodies,      \* the bodies origin servers answer with, of bytes
  MayClose     \* whether the origin may close before the end of the body

NUL == 0

ASSUME BufferAssumption ==
  /\ BufSize \in Nat \ {0} /\ BlockSize \in Nat \ {0}
  /\ HeaderSize \in 1..BufSize /\ StatusSize \in 1..HeaderSize
  /\ MayClose \in BOOLEAN
  /\ Bodies \subseteq Seq(0..255)

VARIABLES
  body,        \* the body of this response
  arrived,     \* bytes of the response recv has returned
  closed,      \* the origin has closed the connection early
  first,       \* bytes the first recv returned, 0 before it returns
  buf,         \* message_buf, never cleared between two recvs
  bytesRem,    \* bytes_rem
  cacheFile,   \* what is in the cache file
  toClient,    \* what has been sent to the client of this request
  later,       \* what a later request is sent after the header
  pc           \* "recv", "done", "served" or "crashed"

vars == <<body, arrived, closed, first, buf, bytesRem, cacheFile, toClient, later, pc>>

(* The bytes of the response; those of the header are told apart from      *)
(* those of any body.                                                      *)
Header == [i \in 1..HeaderSize |-> -i]
Response == Header \o body

Init ==
  /\ body \in Bodies
  /\ arrived = 0
  /\ closed = FALSE
  /\ first = 0
  /\ buf = [i \in 1..BufSize |-> NUL]
  /\ bytesRem = 0
  /\ cacheFile = <<>>
  /\ toClient = <<>>
  /\ later = <<>>
  /\ pc = "recv"

(* The buffer after recv has stored n more bytes of the response in it.    *)
Received(n) ==
  [i \in 1..BufSize |-> IF i =< n THEN Response[arrived + i] ELSE buf[i]]

(* fprintf "%.*s" of the buffer from position i on: up to the first NUL or *)
(* the end of the buffer, however few bytes recv returned.                 *)
Printed(b, i) ==
  LET rest == SubSeq(b, i, BufSize)
      nuls == {j \in DOMAIN rest : rest[j] = NUL}
  IN  IF nuls = {} THEN rest
      ELSE SubSeq(rest, 1, CHOOSE j \in 0..BufSize :
                             j + 1 \in nuls /\ \A m \in nuls : j < m)

Sent(b, n) == SubSeq(b, 1, n)

(* bytes_rem after a first recv of n bytes.                                *)
WholePacketCounted(n) == Len(body) - n   \* fault: the header is not subtracted

Remaining(n) == Len(body) - (n - HeaderSize)

StopEarly(left) == left =< 1             \* fault: one byte short

NoMore(left) == left =< 0

(* The first recv returns n bytes.  Without the status line it looks like  *)
(* an error page, and bytes_rem comes from an empty node.  parse_header    *)
(* then looks for the blank line; if that has not arrived, strstr returns  *)
(* NULL and the header is copied with a length computed from it.           *)
RecvFirst(n) ==
  /\ pc = "recv" /\ first = 0
  /\ n =< Len(Response)
  /\ buf' = Received(n)
  /\ arrived' = n
  /\ first' = n
  /\ \/ /\ n < StatusSize
        /\ toClient' = Sent(buf', n)
        /\ pc' = "done"
        /\ UNCHANGED <<bytesRem, cacheFile>>
     \/ /\ n \in StatusSize..(HeaderSize - 1)
        /\ pc' = "crashed"
        /\ UNCHANGED <<bytesRem, cacheFile, toClient>>
     \/ /\ n >= HeaderSize
        /\ bytesRem' = Remaining(n)
        /\ cacheFile' = Printed(buf', HeaderSize + 1)
        /\ toClient' = Sent(buf', n)
        /\ pc' = IF NoMore(bytesRem') THEN "done" ELSE "recv"
  /\ UNCHANGED <<body, closed, later>>

RecvMore(n) ==
  /\ pc = "recv" /\ first > 0
  /\ arrived + n =< Len(Response)
  /\ buf' = Received(n)
  /\ arrived' = arrived + n
  /\ bytesRem' = bytesRem - n
  /\ cacheFile' = cacheFile \o Printed(buf', 1)
  /\ toClient' = toClient \o Sent(buf', n)
  /\ pc' = IF NoMore(bytesRem') THEN "done" ELSE "recv"
  /\ UNCHANGED <<body, closed, first, later>>

(* recv returns 0: the buffer is printed once more before the loop ends.   *)
RecvClosed ==
  /\ pc = "recv" /\ first > 0
  /\ MayClose
  /\ closed' = TRUE
  /\ cacheFile' = cacheFile \o Printed(buf, 1)
  /\ pc' = "done"
  /\ UNCHANGED <<body, arrived, first, buf, bytesRem, toClient, later>>

WholeBlocksOnly(f) ==                    \* fault: a last short block is not sent
  SubSeq(f, 1, (Len(f) \div BlockSize) * BlockSize)

(* send_file: whole blocks, the last one filled up with zeros.             *)
InBlocks(f) ==
  LET blocks == (Len(f) + BlockSize - 1) \div BlockSize
  IN  f \o [i \in 1..(blocks * BlockSize - Len(f)) |-> NUL]

ServeLater ==
  /\ pc = "done"
  /\ later' = InBlocks(cacheFile)
  /\ pc' = "served"
  /\ UNCHANGED <<body, arrived, closed, first, buf, bytesRem, cacheFile, toClient>>

Next ==
  \/ \E n \in 1..BufSize : RecvFirst(n) \/ RecvMore(n)
  \/ RecvClosed
  \/ ServeLater

Spec == Init /\ [][Next]_vars
-----------------------------------------------------------------------------
(* Every variable has its type.                                            *)
TypeOK ==
  /\ body \in Bodies
  /\ arrived \in 0..Len(Response)
  /\ closed \in BOOLEAN
  /\ first \in 0..arrived
  /\ Len(buf) = BufSize
  /\ bytesRem \in 0..Len(body)
  /\ pc \in {"recv", "done", "served", "crashed"}

(* However the response is cut up, and although one buffer is reused, the  *)
(* client receives it in order, and all of it unless the origin closed.    *)
(* The header must come in one piece: parse_header does not wait for it.   *)
RelayedFaithfully ==
  /\ IsPrefix(toClient, Response)
  /\ pc \in {"done", "served"} /\ first >= HeaderSize /\ ~closed
       => toClient = Response

(* A response that arrives in one piece, and whose body has no NUL, is     *)
(* cached as it is, and all of it is sent to a client that asks later:     *)
(* after it come at most the zeros that fill its last block.               *)
OnePieceServedExactly ==
  pc \in {"done", "served"} /\ first = Len(Response)
    /\ (\A i \in DOMAIN body : body[i] # NUL)
    => /\ cacheFile = body
       /\ pc = "served" =>
            /\ IsPrefix(body, later)
            /\ Len(later) < Len(body) + BlockSize
            /\ \A i \in (Len(body) + 1)..Len(later) : later[i] = NUL

(* The cache file of a page is the body of the response.                   *)
CacheFileIsBody ==
  pc \in {"done", "served"} /\ first >= HeaderSize /\ ~closed => cacheFile = body
=============================================================================
