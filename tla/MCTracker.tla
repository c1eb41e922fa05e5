----------------------------- MODULE MCTracker ------------------------------
(* A small instance of Tracker: see MCTracker.cfg.                         *)
EXTENDS Tracker
=============================================================================
