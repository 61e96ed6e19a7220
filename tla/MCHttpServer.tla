------------------------------ MODULE MCHttpServer ------------------------------
EXTENDS HttpServer

CONSTANTS c1, c2

(* Every text of up to five characters.                                    *)
MCAddresses == UNION {[1 .. n -> {0, 1, Colon, Slash, Letter}] : n \in 0 .. 5}
=============================================================================
