------------------------------ MODULE ShellExec ------------------------------
(***************************************************************************)
(* A shell command of the agent: runShellCommand (vscode/src/agentHost.ts).  *)
(* The shell may leave processes behind that keep its pipes open, and the    *)
(* result is delivered when the pipes are closed, not when the shell ends.   *)
(***************************************************************************)
EXTENDS Integers, Sequences

VARIABLES
  shell,   \* the child process and what is known of it
  stopped  \* the turn's abort signal

NoShell == [on |-> FALSE, child |-> "none", heir |-> FALSE, timer |-> FALSE, listens |-> FALSE,
            timedOut |-> FALSE, code |-> "none"]

ShellInit == shell = NoShell /\ stopped = FALSE

\* spawn, with its timer and, of a signal that is not aborted yet, its listener:
\* addEventListener on one that is already aborted never calls it.
Spawned ==
  [NoShell EXCEPT !.on = TRUE, !.child = "runs", !.timer = TRUE, !.listens = ~stopped]

\* The command's own steps: it starts a process, ends; that one ends.
Forks ==
  /\ shell.on /\ shell.child = "runs" /\ ~shell.heir
  /\ shell' = [shell EXCEPT !.heir = TRUE]
  /\ UNCHANGED stopped

Exits ==
  /\ shell.on /\ shell.child = "runs"
  /\ \E code \in {"zero", "other"} : shell' = [shell EXCEPT !.child = "gone", !.code = code]
  /\ UNCHANGED stopped

HeirExits ==
  /\ shell.on /\ shell.heir
  /\ shell' = [shell EXCEPT !.heir = FALSE]
  /\ UNCHANGED stopped

\* A plausible slip: the processes that are left are waited for before the kill.
KilledIfAlone ==
  IF shell.child = "runs" /\ ~shell.heir
    THEN [shell EXCEPT !.child = "gone", !.code = "null"] ELSE shell

\* kill("SIGKILL") reaches the shell alone, and does nothing when it has ended.
Killed ==
  IF shell.child = "runs" THEN [shell EXCEPT !.child = "gone", !.code = "null"] ELSE shell

TimerFires ==
  /\ shell.on /\ shell.timer
  /\ shell' = [Killed EXCEPT !.timer = FALSE, !.timedOut = TRUE]
  /\ UNCHANGED stopped

\* Stop: the listener is called at once, and once.
Stop ==
  /\ ~stopped
  /\ stopped' = TRUE
  /\ shell' = IF shell.on /\ shell.listens THEN [Killed EXCEPT !.listens = FALSE] ELSE shell

\* "close": the shell has ended and nobody holds its pipes.
Closed == shell.on /\ shell.child = "gone" /\ ~shell.heir

\* finish, and what the tool says of it: the exit code and the note of the timeout.
ShellResult == [error |-> shell.code # "zero", code |-> shell.code, timedOut |-> shell.timedOut]
=============================================================================
