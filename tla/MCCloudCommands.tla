---------------------------- MODULE MCCloudCommands ----------------------------
(* CloudCommands on a small instance: one server a cloud.json can name. *)
EXTENDS CloudCommands
================================================================================
