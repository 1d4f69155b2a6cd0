----------------------------- MODULE MCFirstRun -----------------------------
(* One flash and one overlay, or two flashes, with two cuts between them. *)
EXTENDS FirstRun
=============================================================================
