-------------------------- MODULE MCConnectionPool --------------------------
(* ConnectionPool on a small instance; no definitions of its own.          *)
EXTENDS ConnectionPool
=============================================================================
