-------------------------- MODULE MCPersistentPool --------------------------
(* Two requests, for one conversation or for two, and room for one process. *)
EXTENDS PersistentPool

CONSTANTS r1, r2, chat, cron

MCResolved == {[r \in Requests |-> chat],
               [r \in Requests |-> IF r = r1 THEN chat ELSE cron]}
=============================================================================
