------------------------------ MODULE MCWatch ------------------------------
(* Instances of WatchLists for TLC. *)
EXTENDS WatchLists

CONSTANTS c1, c2
====
