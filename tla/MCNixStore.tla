----------------------------- MODULE MCNixStore -----------------------------
(* Small instances of NixStore.  One has a request for a store path that   *)
(* leads through two, which exhausts the hops when both are cold and is a  *)
(* directory in the end; a source request for the second of them; and a    *)
(* debug info request for the same build id.  The other has two requests   *)
(* for sources that two build ids share.  The two store paths are          *)
(* spellings of one, so they share an image.                               *)
EXTENDS NixStore

CONSTANTS r1, r2, r3, r4, b1, b2, a1, p1, p2, i1, i2

MCImageOf == [u \in Units |-> IF u = a1 THEN i1 ELSE i2]
MCArchiveOf == [b \in Builds |-> a1]
MCBuildOf == [r \in Requests |-> IF r \in {r1, r4} THEN b2 ELSE b1]
MCEndpoint == [r \in Requests |-> CASE r = r1 -> "path" [] r = r3 -> "debuginfo" [] OTHER -> "source"]
MCLeads == [r \in Requests |-> CASE r = r1 -> <<p2, p1>> [] r = r3 -> << >> [] OTHER -> <<p1>>]
=============================================================================
