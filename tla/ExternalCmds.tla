----------------------------- MODULE ExternalCmds -----------------------------
(***************************************************************************)
(* The commands of the hooks (internal/hooks, internal/externalcmd).  A hook *)
(* starts a command and gives back a function that stops it and launches the *)
(* command of the opposite event, which nobody stops.  Each command has a    *)
(* goroutine, counted by the wait group of the pool; Core waits for the pool *)
(* after it has closed the servers and the path manager.                     *)
(***************************************************************************)
EXTENDS Naturals, FiniteSets, Codecs

CONSTANT Ids   \* commands that may exist at a time (a bound)

VARIABLES
    hook,   \* hook -> "off", or the command it started, or None if it has none
    cmd,    \* Ids -> a command
    pool    \* "open", "wait": Core is in Pool.Close(), "closed"

vars == <<hook, cmd, pool>>

Hooks == {"init", "demand", "ready", "connect", "read"}

\* run is the goroutine of run(): "start", "select" with the process alive,
\* "killed": SIGINT was sent and the process is awaited, "pause" before a
\* restart.  terminate: the channel is closed.  opposite: launched by the end
\* of a hook.
Command ==
    [run: {None, "start", "select", "killed", "pause"}, process: BOOLEAN,
     terminate: BOOLEAN, restart: BOOLEAN, opposite: BOOLEAN]

NoCommand ==
    [run |-> None, process |-> FALSE, terminate |-> FALSE, restart |-> FALSE,
     opposite |-> FALSE]

Init ==
    /\ hook = [h \in Hooks |-> "off"]
    /\ cmd = [i \in Ids |-> NoCommand]
    /\ pool = "open"

\* pool.wg: the commands whose goroutine has not returned.
Running == {i \in Ids : cmd[i].run # None}

\* An identity is used again when no hook holds its command.
Free == {i \in Ids \ Running : \A h \in Hooks : hook[h] # i}

\* NewCmd().
NewCmd(restart, opposite) ==
    [NoCommand EXCEPT !.run = "start", !.restart = restart, !.opposite = opposite]

-----------------------------------------------------------------------------
(***************************************************************************)
(* The hooks.  Each command is optional.                                     *)
(***************************************************************************)
Launch(h) ==
    /\ pool = "open" /\ hook[h] = "off"
    /\ \/ hook' = [hook EXCEPT ![h] = None] /\ UNCHANGED cmd
       \/ \E i \in Free, restart \in BOOLEAN :
            /\ hook' = [hook EXCEPT ![h] = i]
            /\ cmd' = [cmd EXCEPT ![i] = NewCmd(restart, FALSE)]
    /\ UNCHANGED pool

\* Close(), which does not wait for the command.
Closed(h) ==
    IF hook[h] = None THEN cmd ELSE [cmd EXCEPT ![hook[h]].terminate = TRUE]

Unlaunch(h) ==
    /\ hook[h] # "off"
    /\ hook' = [hook EXCEPT ![h] = "off"]
    /\ cmd' = Closed(h)
    /\ UNCHANGED pool

UnlaunchAndRun(h) ==
    /\ hook[h] # "off"
    /\ hook' = [hook EXCEPT ![h] = "off"]
    /\ \E i \in Free : cmd' = [Closed(h) EXCEPT ![i] = NewCmd(FALSE, TRUE)]
    /\ UNCHANGED pool

\* run() of a path; the hook has no opposite.
OnInit == hook["demand"] = "off" /\ hook["ready"] = "off" /\ Launch("init")

OnUnInit == Unlaunch("init")

\* In a path that runs.  Its tail ends them after the one of OnInit.
OnDemand == hook["init"] # "off" /\ Launch("demand")

OnUnDemand == Unlaunch("demand") \/ UnlaunchAndRun("demand")

OnReady == hook["init"] # "off" /\ Launch("ready")

OnNotReady == Unlaunch("ready") \/ UnlaunchAndRun("ready")

\* A connection, and a reader, which may be a session without one.
OnConnect == Launch("connect")

OnDisconnect == Unlaunch("connect") \/ UnlaunchAndRun("connect")

OnRead == Launch("read")

OnUnread == Unlaunch("read") \/ UnlaunchAndRun("read")

-----------------------------------------------------------------------------
(* run() and runOSSpecific().                                                *)

Set(i, r) ==
    /\ cmd' = [cmd EXCEPT ![i] = r]
    /\ UNCHANGED <<hook, pool>>

\* What run() does when the process has ended by itself or was not started.
AfterExit(c) ==
    IF c.restart THEN [c EXCEPT !.run = "pause", !.process = FALSE] ELSE NoCommand

StartProcess(i) ==
    /\ cmd[i].run = "start"
    /\ \/ Set(i, [cmd[i] EXCEPT !.run = "select", !.process = TRUE])
       \/ Set(i, AfterExit(cmd[i]))

\* The process ends; the goroutine that waits for it offers its code.
ProcessExits(i) ==
    /\ cmd[i].run \in {"select", "killed"} /\ cmd[i].process
    /\ Set(i, [cmd[i] EXCEPT !.process = FALSE])

CmdDone(i) ==
    /\ cmd[i].run = "select" /\ ~cmd[i].process
    /\ Set(i, AfterExit(cmd[i]))

\* The process is interrupted, and awaited.
Terminated(i) ==
    /\ cmd[i].run = "select" /\ cmd[i].terminate
    /\ Set(i, [cmd[i] EXCEPT !.run = "killed"])

KilledDone(i) ==
    /\ cmd[i].run = "killed" /\ ~cmd[i].process
    /\ Set(i, NoCommand)

\* The select on restartPause.
PauseEnds(i) ==
    /\ cmd[i].run = "pause"
    /\ \/ Set(i, [cmd[i] EXCEPT !.run = "start"])
       \/ cmd[i].terminate /\ Set(i, NoCommand)

-----------------------------------------------------------------------------
(* Core.closeResources(nil).                                                 *)

\* Pool.Close(): every server and the path manager have been closed.
PoolClose ==
    /\ pool = "open" /\ \A h \in Hooks : hook[h] = "off"
    /\ pool' = "wait"
    /\ UNCHANGED <<hook, cmd>>

PoolWaitReturns ==
    /\ pool = "wait" /\ Running = {}
    /\ pool' = "closed"
    /\ UNCHANGED <<hook, cmd>>

-----------------------------------------------------------------------------
\* What happens by itself; a process ends by itself once it is interrupted.
CmdStep(i) ==
    \/ StartProcess(i) \/ CmdDone(i) \/ Terminated(i) \/ KilledDone(i)
    \/ PauseEnds(i)
    \/ cmd[i].run = "killed" /\ ProcessExits(i)

Next ==
    \/ OnInit \/ OnUnInit \/ OnDemand \/ OnUnDemand \/ OnReady \/ OnNotReady
    \/ OnConnect \/ OnDisconnect \/ OnRead \/ OnUnread
    \/ PoolClose \/ PoolWaitReturns
    \/ \E i \in Ids : CmdStep(i) \/ ProcessExits(i)

Spec == Init /\ [][Next]_vars

-----------------------------------------------------------------------------
(* Properties.                                                               *)

TypeOK ==
    /\ hook \in [Hooks -> {"off", None} \cup Ids]
    /\ cmd \in [Ids -> Command]
    /\ pool \in {"open", "wait", "closed"}

\* A command that will start its process again is one that its hook can still
\* stop, or one that has been told to: no command survives its event.
EveryRestartIsOwned ==
    \A i \in Running :
        cmd[i].restart => cmd[i].terminate \/ \E h \in Hooks : hook[h] = i

\* Pool.Close() waits for the processes that are alive, and in the end only for
\* those of opposite events, which nobody stops: every other command has been
\* told to end, so that none restarts for ever.
NobodyLeftWaiting ==
    /\ pool = "closed" => \A i \in Ids : ~cmd[i].process
    /\ pool = "wait" =>
        \/ ENABLED (PoolWaitReturns \/ \E i \in Ids : CmdStep(i))
        \/ \A i \in Running : cmd[i].process /\ cmd[i].opposite
=============================================================================
