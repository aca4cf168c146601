----------------------------- MODULE RequestKey -----------------------------
(***************************************************************************)
(* The key under which the proxy of src/3_PA/proxy_serv caches the answer  *)
(* to a request: what parse_req and get_md5_str compute from the URL.  A   *)
(* URL is a sequence of characters; MD5 is taken to be injective, so the   *)
(* key is the string that is hashed.                                       *)
(***************************************************************************)
EXTENDS Integers, Sequences, FiniteSetsExt

(* The character at position i of the request line; a URL is preceded and  *)
(* followed by a space.                                                    *)
LOCAL At(url, i) == IF i \in DOMAIN url THEN url[i] ELSE " "

(* The slashes with no slash beside them.                                  *)
IsolatedSlashes(url) ==
  {i \in DOMAIN url : url[i] = "/" /\ At(url, i + 1) # "/" /\ At(url, i - 1) # "/"}

(* params->filepath: as many characters as there are from the last         *)
(* isolated slash to the end, copied from the beginning of the URL.        *)
FilePath(url) ==
  IF IsolatedSlashes(url) = {} THEN <<"/">>
  ELSE SubSeq(url, 1, Len(url) - Max(IsolatedSlashes(url)) + 1)

(* get_md5_str: hostname and filepath, without the port.                   *)
CacheKey(hostname, url) == hostname \o FilePath(url)

(* check_dynamic                                                           *)
IsDynamic(url) == \E i \in DOMAIN url : url[i] = "?"
=============================================================================
