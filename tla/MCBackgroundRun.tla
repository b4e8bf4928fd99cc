---------------------------- MODULE MCBackgroundRun ----------------------------
(* An event beside a cron job, and a scheduled slot that two cron jobs see.     *)
EXTENDS BackgroundRun

CONSTANTS one, tick

Kinds(kind) == [p \in Process |-> IF p = tick THEN "cron" ELSE kind]

Scenarios ==
  {[kinds |-> Kinds("event"),
    trigger |-> [enabled |-> TRUE, due |-> FALSE, builtin |-> FALSE, model |-> TRUE]],
   [kinds |-> Kinds("cron"),
    trigger |-> [enabled |-> TRUE, due |-> TRUE, builtin |-> TRUE, model |-> TRUE]]}
=============================================================================
