----------------------------- MODULE MCPiBridge -----------------------------
(* Two requests of one conversation.  The first names another model than    *)
(* the one Pi boots with; the second, a stream, takes the model it finds,   *)
(* so the two may share a process or be served by one each.                 *)
EXTENDS PiBridge

MCThreadOf == [r \in Requests |-> "t1"]
MCModelOf  == [r \in Requests |-> IF r = "call" THEN "m2" ELSE NoModel]
=============================================================================
