---------------------------- MODULE MCLdsPointQueue ----------------------------
(* The queues of two lidars; those of the first one wrap. *)
EXTENDS LdsPointQueue, TLC

SomeOffered == (0 :> 4) @@ (1 :> 2)
=============================================================================
