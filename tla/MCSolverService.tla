-------------------------- MODULE MCSolverService --------------------------
(* TLC instance.  The manager's threads at their busiest without clients;  *)
(* a boot and an exit around one client; and a server left by an earlier   *)
(* run, which may crash, with two clients.                                 *)
EXTENDS SolverService

CONSTANTS boot, web, main, t1, t2

MCCallers == {boot, web, main}
MCTasks == {t1, t2}
MCBudgets == {[callers |-> MCCallers, tasks |-> {}],
              [callers |-> {boot, main}, tasks |-> {t1}],
              [callers |-> {}, tasks |-> MCTasks]}
=============================================================================
