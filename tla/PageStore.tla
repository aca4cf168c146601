------------------------------ MODULE PageStore ------------------------------
(***************************************************************************)
(* What the cache of the proxy promises its clients.  A page is absent or  *)
(* present; it is withdrawn before it is replaced, it is put back with a   *)
(* new content in one step, and a client is served exactly the content     *)
(* that is present while it is served.                                     *)
(***************************************************************************)
CONSTANTS
  Keys,      \* the pages that can be stored
  Clients,   \* those who are served
  Contents,  \* what a page may contain
  Absent,    \* no content
  Nothing    \* what a client has that has not been served

VARIABLES
  store,     \* store[k]: the content of page k, or Absent
  got        \* got[c]: what client c has been served

vars == <<store, got>>

Init ==
  /\ store = [k \in Keys |-> Absent]
  /\ got = [c \in Clients |-> Nothing]

Withdraw(k) ==
  /\ store[k] # Absent
  /\ store' = [store EXCEPT ![k] = Absent]
  /\ UNCHANGED got

Publish(k) ==
  /\ store[k] = Absent
  /\ \E x \in Contents : store' = [store EXCEPT ![k] = x]
  /\ UNCHANGED got

Serve(c, k) ==
  /\ store[k] # Absent
  /\ got' = [got EXCEPT ![c] = store[k]]
  /\ UNCHANGED store

Leave(c) ==
  /\ got' = [got EXCEPT ![c] = Nothing]
  /\ UNCHANGED store

Next ==
  \/ \E k \in Keys : Withdraw(k) \/ Publish(k)
  \/ \E c \in Clients, k \in Keys : Serve(c, k)
  \/ \E c \in Clients : Leave(c)

Spec == Init /\ [][Next]_vars
=============================================================================
