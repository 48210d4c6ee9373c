---------------------------- MODULE SyncOutboxMC ----------------------------
(* Instances of SyncOutbox for TLC. *)
EXTENDS SyncOutbox

CONSTANTS j1, j2,       \* jobs
          api, cli      \* the API process and an `aftermind worker` process
=============================================================================
