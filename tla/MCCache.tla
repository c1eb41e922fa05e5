------------------------------ MODULE MCCache -------------------------------
(* A small instance of Cache: see MCCache.cfg.                             *)
EXTENDS Cache
=============================================================================
