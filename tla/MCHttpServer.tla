---------------------------- MODULE MCHttpServer ----------------------------
(* HttpServer for TLC: a number that fits into a char and one that does not, *)
(* in every pair; a request, a part of one, one of its length that ends like *)
(* it, and a longer datagram.                                                *)
EXTENDS HttpServer

MCWanted    == <<1, 2, 3>>
MCDatagrams == {MCWanted, <<1, 2>>, <<4, 4, 3>>, <<1, 2, 3, 4>>}
MCItems     == {[kind |-> "number", value |-> n] : n \in {1, 300}}
=============================================================================
