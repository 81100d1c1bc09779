---------------------------- MODULE MCScheduler ----------------------------
(* Small instances of Scheduler for TLC.                                   *)
EXTENDS Scheduler

MCQuantums == [l \in Level |-> l + 1]

\* Kernel threads: no fork, no signals, so no process has a parent.
KernelCalls == {"create", "yield", "exit", "sleep_on", "set_priority", "sleep"}
\* Processes made by fork, which compute and wait for others by polling.
UserCalls == {"fork", "exit", "wait"}
=============================================================================
