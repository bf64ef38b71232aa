------------------------------ MODULE MCServe ------------------------------
(* One client, two panes, of which one writes.                             *)
EXTENDS Serve
CONSTANTS c1, p1, p2
=============================================================================
