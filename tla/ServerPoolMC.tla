---------------------------- MODULE ServerPoolMC ----------------------------
(* A small instance of ServerPool for TLC.                                 *)
EXTENDS ServerPool, TLC

TwoClients == {"c1", "c2"}
LastClient == {"c2"}

(* Two pages, one of them of two blocks, and a directory.                  *)
Page == <<"/", "a", ".", "t", "x", "t">>
OfRoot ==
  (Index :> <<"i1">>) @@ (<<"a", ".", "t", "x", "t">> :> <<"a1", "a2", "a3">>)
OneFolder == {<<"d">>}

Line(path) == [method |-> "GET", path |-> path, spaced |-> TRUE, version |-> "HTTP/1.1"]
Wrong == [Line(Page) EXCEPT !.version = "HTTP/2.0"]
Post == [Line(Page) EXCEPT !.method = "POST"]
Unspaced == [Line(Page) EXCEPT !.spaced = FALSE]
Above == Line(<<"/", ".", ".", "/", "a">>)
Missing == Line(<<"/", "b">>)

Scenario(r1, r2, n) == [request |-> [c1 |-> r1, c2 |-> r2], signals |-> n]

(* A silent client and two SIGINTs; two files and one SIGINT; paths with   *)
(* and without slashes and all kinds of errors.                            *)
SomeScenarios ==
  {Scenario(Silence, Line(Page), 2),
   Scenario(Line(Page), Line(Page), 1), Scenario(Line(<<"/">>), Missing, 0),
   Scenario(Line(Tail(Page)), Missing, 0), Scenario(Line(<<"/", "d">>), Post, 0),
   Scenario(Line(<<"/", "d", "/">>), Wrong, 0),
   Scenario(Above, Unspaced, 0), Scenario(Missing, Silence, 0)}
=============================================================================
