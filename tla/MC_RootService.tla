---- MODULE MC_RootService ----
(* One client, one query and a mailbox of one place, the least in which     *)
(* senders wait for room and a snapshot outlives a refresh.                 *)
EXTENDS RootService
====
