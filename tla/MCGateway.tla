------------------------------ MODULE MCGateway ------------------------------
(* Gateway on small instances: the kinds of the requests that are made.      *)
EXTENDS Gateway, TLC

CONSTANTS w1, g1, f1, f2, f3

EachKind == f1 :> "blocked" @@ f2 :> "mirrored" @@ f3 :> "proxied"
=============================================================================
