----------------------------- MODULE WebRequest -----------------------------
(***************************************************************************)
(* How the web server of src/2_PA/web_serv answers a request: parse_req,   *)
(* get_filetype, build_header and the sends of send_response and           *)
(* send_error.  A request is the text up to its second space and the word  *)
(* that follows; its path is a sequence of characters, in lower case (the  *)
(* server lowers the others).  A request without a space after its path    *)
(* has spaced = FALSE.                                                     *)
(***************************************************************************)
EXTENDS Integers, SequencesExt

CONSTANTS
  Files,      \* the content of each file below ../www, by its path
  Folders,    \* the directories below ../www, by their paths
  BlockLen    \* KILO: how much send_response sends at once

ASSUME WebAssumption ==
  /\ BlockLen \in Nat \ {0}
  /\ \A path \in DOMAIN Files : Files[path] \in Seq(STRING)   \* a byte is a string

Zero == "0"   \* the byte a block is padded with

Index == <<"i", "n", "d", "e", "x", ".", "h", "t", "m", "l">>

(* What recv leaves in the buffer when a client closes and sends nothing   *)
Empty == [method |-> "", path |-> <<>>, spaced |-> FALSE, version |-> ""]

HasDotDot(path) == \E i \in 1..Len(path) - 1 : path[i] = "." /\ path[i + 1] = "."

(* A path that ends in a slash: the name of the index replaces its first   *)
(* characters, not what follows the slash.                                 *)
Indexed(path) ==
  IF Last(path) = "/" THEN Index \o SubSeq(path, Len(Index) + 1, Len(path)) ELSE path

Extensions ==
  [html |-> <<"h", "t", "m", "l">>, txt |-> <<"t", "x", "t">>, png |-> <<"p", "n", "g">>,
   gif |-> <<"g", "i", "f">>, jpg |-> <<"j", "p", "g">>, css |-> <<"c", "s", "s">>,
   js |-> <<"j", "s">>]

(* get_filetype: a file of another type, or without one, is sent all the   *)
(* same, since nobody looks at what get_filetype returns.                  *)
FileType(path) ==
  LET dots == {i \in DOMAIN path : path[i] = "."}
      extension == SubSeq(path, Max(dots) + 1, Len(path))
      fitting == {e \in DOMAIN Extensions : IsPrefix(Extensions[e], extension)}
  IN IF dots = {} \/ fitting = {} THEN "none" ELSE CHOOSE e \in fitting : TRUE

(* parse_req, in the order of its checks                                   *)
Verdict(r) ==
  IF r.method # "GET" THEN "405"
  ELSE IF ~r.spaced THEN "400"
  ELSE IF HasDotDot(r.path) THEN "403"
  ELSE IF r.version \notin {"HTTP/1.1", "HTTP/1.0"} THEN "505"
  ELSE "ok"

(* send_error; the version is not known before the path has been read      *)
ErrorSends(r, error) ==
  << [status |-> error, type |-> "txt", length |-> 0,
      version |-> IF Verdict(r) = "ok" THEN r.version ELSE "HTTP/0.9"] >>

(* fopen, below ../www/: a slash more does not matter.                     *)
Opened(r) ==
  LET path == Indexed(r.path) IN IF path[1] = "/" THEN Tail(path) ELSE path

FileFound(r) == Verdict(r) = "ok" /\ Opened(r) \in DOMAIN Files \cup Folders

WholeBlocks(content) ==                    \* fault: the last block is not sent
  [i \in 1..Len(content) \div BlockLen |-> SubSeq(content, (i - 1) * BlockLen + 1, i * BlockLen)]

(* send_response: the last block is padded.                                *)
Blocks(content) ==
  [i \in 1..(Len(content) + BlockLen - 1) \div BlockLen |->
     [j \in 1..BlockLen |-> LET k == (i - 1) * BlockLen + j
                           IN  IF k <= Len(content) THEN content[k] ELSE Zero]]

(* build_header and send_response.  A directory can be opened, too: its    *)
(* size is -1 and nothing can be read from it.                             *)
FileSends(r) ==
  LET path == Opened(r)
      isFile == path \in DOMAIN Files
  IN << [status |-> "200", type |-> FileType(path), version |-> r.version,
         length |-> IF isFile THEN Len(Files[path]) ELSE -1] >>
     \o (IF isFile THEN Blocks(Files[path]) ELSE <<>>)
=============================================================================
