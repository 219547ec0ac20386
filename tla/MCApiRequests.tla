---------------------------- MODULE MCApiRequests ----------------------------
(***************************************************************************)
(* An instance of ApiRequests for TLC.                                     *)
(***************************************************************************)
EXTENDS ApiRequests, TLC

CONSTANTS reader, writer, k, c1, c2, c3

MCScopes == (reader :> {"tasks:read"}) @@ (writer :> {"tasks:read", "tasks:write"})

Asks(route, by, id) == [route |-> route, by |-> by, id |-> id]

MCAsk ==
  (c1 :> {Asks("create", writer, None), Asks("start", writer, k)}) @@
  (c2 :> {Asks("cancel", writer, k), Asks("get", reader, c1), Asks("cancel", reader, k)}) @@
  (c3 :> {Asks("cancel", writer, k), Asks("list", reader, None), Asks("start", None, k)})
=============================================================================
