---------------------------- MODULE MCTestClient ----------------------------
(* Small instances of TestClient for TLC. *)
EXTENDS TestClient, TLC

CONSTANTS srv, o1, o2, o3, b1, b2

MCBlockOf == (o1 :> b1) @@ (o2 :> b1) @@ (o3 :> b2)
MCBlockOrder == <<b1>>
=============================================================================
