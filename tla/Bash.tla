-------------------------------- MODULE Bash --------------------------------
(***************************************************************************)
(* The Bash tool (src/tools/bash.rs): a shell is started with pipes that   *)
(* nobody reads before it has ended; it is asked every 50 ms whether it    *)
(* has; at the deadline it is killed and what it wrote is dropped.  A tick *)
(* of the clock is one such sleep.  Two adjacent system calls of viv fall  *)
(* in one tick.  Both pipes are one here.                                  *)
(***************************************************************************)
EXTENDS Integers

CONSTANTS
  Timeout,      \* the deadline, in sleeps
  PipeSize,     \* what the pipe holds (64 KiB on Linux)
  MaxOutput     \* bound: pieces a command writes

VARIABLES
  execute,      \* where execute() is
  clock, wake,
  shell,        \* "none", "running", "ended", "killed"
  heir,         \* the shell left a process behind that holds the pipe
  left,         \* pieces still to be written
  inPipe, got,
  answer,
  output,       \* history: pieces the command writes in all
  endedAt       \* history: when the shell ended

bashVars == <<execute, clock, wake, shell, heir, left, inPipe, got, answer, output, endedAt>>

(* The kinds of the constants. *)
BashAssumption == Timeout \in Nat /\ PipeSize \in Nat /\ MaxOutput \in Nat

Never == Timeout + 1

BashInit ==
  /\ execute = "idle" /\ clock = 0 /\ wake = 0 /\ shell = "none" /\ heir = FALSE
  /\ left = 0 /\ inPipe = 0 /\ got = 0 /\ answer = "none" /\ output = 0 /\ endedAt = Never

Answers(a) == execute' = "answered" /\ answer' = a
Waits == UNCHANGED <<clock, wake, inPipe, got, answer>>

(***************************************************************************)
(* execute()                                                               *)
(***************************************************************************)
StartInBackground ==
  /\ execute = "idle" /\ Answers("started") /\ shell' = "running"
  /\ UNCHANGED <<clock, wake, heir, left, inPipe, got, output, endedAt>>

Start ==
  /\ execute = "idle" /\ execute' = "probing" /\ shell' = "running"
  /\ \E n \in 0..MaxOutput : left' = n /\ output' = n
  /\ Waits /\ UNCHANGED <<heir, endedAt>>

(* Mutant: the shell is waited for.                                        *)
WaitForIt ==
  /\ execute = "probing" /\ shell # "running"
  /\ execute' = "reading"
  /\ Waits /\ UNCHANGED <<shell, heir, left, output, endedAt>>

TryWait ==
  /\ execute = "probing"
  /\ execute' = IF shell = "running" THEN "checking" ELSE "reading"
  /\ Waits /\ UNCHANGED <<shell, heir, left, output, endedAt>>

KillLate ==
  /\ execute = "checking" /\ clock >= Timeout
  /\ shell' = IF shell = "running" THEN "killed" ELSE shell
  /\ Answers("timeout") /\ inPipe' = 0
  /\ UNCHANGED <<clock, wake, heir, left, got, output, endedAt>>

Sleep ==
  /\ execute = "checking" /\ clock < Timeout
  /\ execute' = "sleeping" /\ wake' = clock + 1
  /\ UNCHANGED <<clock, shell, heir, left, inPipe, got, answer, output, endedAt>>

(* Mutant: the deadline is looked at before the shell. *)
WakeAndCheck ==
  /\ execute = "sleeping" /\ clock >= wake
  /\ execute' = IF clock >= Timeout THEN "checking" ELSE "probing"
  /\ Waits /\ UNCHANGED <<shell, heir, left, output, endedAt>>

Wake ==
  /\ execute = "sleeping" /\ clock >= wake /\ execute' = "probing"
  /\ Waits /\ UNCHANGED <<shell, heir, left, output, endedAt>>

(* wait_with_output reads until nobody holds the pipe any more. *)
ReadPipe ==
  /\ execute = "reading" /\ inPipe > 0
  /\ got' = got + inPipe /\ inPipe' = 0
  /\ UNCHANGED <<execute, clock, wake, shell, heir, left, answer, output, endedAt>>

Finish ==
  /\ execute = "reading" /\ inPipe = 0 /\ ~heir
  /\ Answers("output")
  /\ UNCHANGED <<clock, wake, shell, heir, left, inPipe, got, output, endedAt>>

(***************************************************************************)
(* The command and the clock.  A writer waits while the pipe is full; a    *)
(* pipe nobody can read any more takes everything (SIGPIPE aside).         *)
(***************************************************************************)
Writes ==
  /\ shell = "running" \/ heir
  /\ left > 0 /\ left' = left - 1
  /\ IF execute = "answered" THEN UNCHANGED inPipe ELSE inPipe < PipeSize /\ inPipe' = inPipe + 1
  /\ UNCHANGED <<execute, clock, wake, shell, heir, got, answer, output, endedAt>>

LeavesAProcess ==
  /\ shell = "running" /\ ~heir /\ heir' = TRUE
  /\ UNCHANGED <<execute, clock, wake, shell, left, inPipe, got, answer, output, endedAt>>

ShellEnds ==
  /\ shell = "running" /\ (left = 0 \/ heir)
  /\ shell' = "ended" /\ endedAt' = clock
  /\ UNCHANGED <<execute, clock, wake, heir, left, inPipe, got, answer, output>>

RestEnds ==
  /\ heir /\ left = 0 /\ shell # "running" /\ heir' = FALSE
  /\ UNCHANGED <<execute, clock, wake, shell, left, inPipe, got, answer, output, endedAt>>

Tick ==
  /\ clock < Timeout + 1 /\ execute \notin {"idle", "probing", "checking"}
  /\ clock' = clock + 1
  /\ UNCHANGED <<execute, wake, shell, heir, left, inPipe, got, answer, output, endedAt>>

Viv == StartInBackground \/ Start \/ TryWait \/ KillLate \/ Sleep \/ Wake \/ ReadPipe \/ Finish
Command == Writes \/ LeavesAProcess \/ ShellEnds \/ RestEnds
BashNext == Viv \/ Command \/ Tick

(* A command that has something to write writes it when it can, and what   *)
(* a shell leaves behind ends; the shell itself may run for ever.          *)
BashFairness ==
  WF_bashVars(Viv /\ execute # "idle") /\ WF_bashVars(Writes \/ RestEnds) /\ WF_bashVars(Tick)
BashSpec == BashInit /\ [][BashNext]_bashVars /\ BashFairness

(***************************************************************************)
(* A command that ended before the deadline is not reported as timed out,  *)
(* and an answer that carries output carries all of it: what was written   *)
(* while nobody read, and what a process left behind wrote later.          *)
(***************************************************************************)
AnswerFitsTheCommand ==
  /\ answer = "timeout" => endedAt >= Timeout
  /\ answer = "output" => got = output

(***************************************************************************)
(* Every call returns, also when the command fills the pipe nobody reads   *)
(* or never ends, as long as what it leaves behind ends.                   *)
(***************************************************************************)
CommandReturns == (execute # "idle") ~> (execute = "answered")
=============================================================================
