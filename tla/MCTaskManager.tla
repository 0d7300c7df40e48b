---- MODULE MCTaskManager ----
(* Two persistent tasks, which have to keep their order, and a volatile one. *)
EXTENDS TaskManager
====
