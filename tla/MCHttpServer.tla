---------------------------- MODULE MCHttpServer ----------------------------
(* Two workers and three clients, of which one is always left waiting. *)
EXTENDS HttpServer
=============================================================================
