----------------------------- MODULE InitScript -----------------------------
(***************************************************************************)
(* system/water-gateway.sh: start, stop, restart and status, run from one  *)
(* or more shells against the gateway processes and the pid file.  Nothing *)
(* locks the script, so that two runs interleave between any two commands  *)
(* of theirs.                                                              *)
(*                                                                         *)
(* A pid is not used again, and the daemon is installed and executable.    *)
(***************************************************************************)
EXTENDS Integers, FiniteSets

CONSTANTS Shells,       \* where the script may run at the same time
          MaxProcs,     \* bound of the model: gateways launched
          Polls,        \* tries of stop's loop; 10 in the script
          MaxCommands,  \* bound of the model: runs of the script
          MaxOverlaps,  \* bound of the model: runs begun during another
          MaxAborts     \* bound of the model: runs that are broken off

ASSUME ScriptAssumption ==
    /\ IsFiniteSet(Shells)
    /\ MaxProcs \in Nat /\ MaxCommands <= MaxProcs
    /\ Polls \in Nat \ {0} /\ MaxCommands \in Nat /\ MaxOverlaps \in Nat
    /\ MaxAborts \in Nat

Procs == 1 .. MaxProcs  \* pids of the gateways, given in order
NoPid == 0

VARIABLES life,      \* of each gateway: "none", "up", "stopping", "dead"
          pidfile,   \* the pid in PIDFILE, NoPid when there is no file
          cmd,       \* the command each shell runs, "" when none
          pc,        \* the command of the script it comes to next
          PID,       \* its variable PID; for start, $!
          polls,     \* its tries left
          commands,  \* runs begun so far
          overlaps,  \* those begun while another was not finished
          aborts     \* those broken off

vars == <<life, pidfile, cmd, pc, PID, polls, commands, overlaps, aborts>>
shell == <<cmd, pc, PID, polls>>
counts == <<commands, overlaps, aborts>>

(* kill -0 *)
Runs(p) == p # NoPid /\ life[p] \in {"up", "stopping"}
Alive == {p \in Procs : Runs(p)}
Idle(s) == cmd[s] = ""

Init == /\ life = [p \in Procs |-> "none"]
        /\ pidfile = NoPid
        /\ cmd = [s \in Shells |-> ""] /\ pc = [s \in Shells |-> ""]
        /\ PID = [s \in Shells |-> NoPid] /\ polls = [s \in Shells |-> 0]
        /\ commands = 0 /\ overlaps = 0 /\ aborts = 0

Goto(s, where) == pc' = [pc EXCEPT ![s] = where] /\ UNCHANGED <<cmd, PID, polls>>

Return(s) == /\ cmd' = [cmd EXCEPT ![s] = ""] /\ pc' = [pc EXCEPT ![s] = ""]
             /\ PID' = [PID EXCEPT ![s] = NoPid] /\ polls' = [polls EXCEPT ![s] = 0]

(* stop returns: to the prompt, or to restart, which goes on with start. *)
StopReturns(s) ==
    IF cmd[s] = "restart" THEN Goto(s, "start") ELSE Return(s)

-----------------------------------------------------------------------------
First == [start |-> "start", stop |-> "stop", restart |-> "stop", status |-> "status"]

Begin(s, c) ==
    /\ Idle(s) /\ commands < MaxCommands
    /\ commands' = commands + 1
    /\ IF \A t \in Shells : Idle(t) THEN UNCHANGED overlaps
       ELSE overlaps < MaxOverlaps /\ overlaps' = overlaps + 1
    /\ cmd' = [cmd EXCEPT ![s] = c]
    /\ pc' = [pc EXCEPT ![s] = First[c]]
    /\ UNCHANGED <<life, pidfile, PID, polls, aborts>>

(* mutant: the check is left out *)
StartUnchecked(s) ==
    /\ pc[s] = "start"
    /\ Goto(s, "launch")
    /\ UNCHANGED <<life, pidfile, counts>>

(* start: [ -f PIDFILE ] && kill -0 *)
StartCheck(s) ==
    /\ pc[s] = "start"
    /\ IF Runs(pidfile) THEN Return(s) ELSE Goto(s, "launch")
    /\ UNCHANGED <<life, pidfile, counts>>

(* $DAEMON & *)
StartLaunch(s) ==
    /\ pc[s] = "launch"
    /\ \E p \in Procs :
           /\ life[p] = "none" /\ \A q \in 1 .. p - 1 : life[q] # "none"
           /\ life' = [life EXCEPT ![p] = "up"]
           /\ PID' = [PID EXCEPT ![s] = p]
    /\ pc' = [pc EXCEPT ![s] = "write"]
    /\ UNCHANGED <<pidfile, cmd, polls, counts>>

(* echo $! > PIDFILE *)
StartWrite(s) ==
    /\ pc[s] = "write"
    /\ pidfile' = PID[s]
    /\ Return(s)
    /\ UNCHANGED <<life, counts>>

(* stop: [ ! -f PIDFILE ] || ! kill -0 *)
StopCheck(s) ==
    /\ pc[s] = "stop"
    /\ Goto(s, IF Runs(pidfile) THEN "kill" ELSE "rm")
    /\ UNCHANGED <<life, pidfile, counts>>

(* PID=$(cat PIDFILE), which may have changed since; kill PID *)
StopKill(s) ==
    /\ pc[s] = "kill"
    /\ PID' = [PID EXCEPT ![s] = pidfile]
    /\ polls' = [polls EXCEPT ![s] = Polls]
    /\ pc' = [pc EXCEPT ![s] = "poll"]
    /\ life' = [p \in Procs |-> IF p = pidfile /\ life[p] = "up"
                                THEN "stopping" ELSE life[p]]
    /\ UNCHANGED <<pidfile, cmd, counts>>

(* mutant: after the last try stop just removes the pid file *)
PollGivesUp(s) ==
    /\ pc[s] = "poll"
    /\ IF Runs(PID[s]) /\ polls[s] > 0
       THEN polls' = [polls EXCEPT ![s] = @ - 1] /\ UNCHANGED <<cmd, pc, PID>>
       ELSE Goto(s, "rm")
    /\ UNCHANGED <<life, pidfile, counts>>

(* mutant: the loop has no end *)
PollForever(s) ==
    /\ pc[s] = "poll"
    /\ IF Runs(PID[s])
       THEN polls' = [polls EXCEPT ![s] = @ - 1] /\ UNCHANGED <<cmd, pc, PID>>
       ELSE Goto(s, "rm")
    /\ UNCHANGED <<life, pidfile, counts>>

(* One turn of the loop, or its end. *)
StopPoll(s) ==
    /\ pc[s] = "poll"
    /\ IF Runs(PID[s]) /\ polls[s] > 0
       THEN polls' = [polls EXCEPT ![s] = @ - 1] /\ UNCHANGED <<cmd, pc, PID>>
       ELSE Goto(s, IF Runs(PID[s]) THEN "kill9" ELSE "rm")
    /\ UNCHANGED <<life, pidfile, counts>>

(* kill -9 PID *)
StopKill9(s) ==
    /\ pc[s] = "kill9"
    /\ life' = [p \in Procs |-> IF p = PID[s] /\ Runs(p) THEN "dead" ELSE life[p]]
    /\ Goto(s, "rm")
    /\ UNCHANGED <<pidfile, counts>>

(* rm -f PIDFILE *)
StopRemove(s) ==
    /\ pc[s] = "rm"
    /\ pidfile' = NoPid
    /\ StopReturns(s)
    /\ UNCHANGED <<life, counts>>

(* mutant: status removes the pid file whether the gateway runs or not *)
StatusAlwaysRemoves(s) ==
    /\ pc[s] = "status"
    /\ Goto(s, "status_rm")
    /\ UNCHANGED <<life, pidfile, counts>>

(* status: the same test, and rm when nothing runs *)
StatusCheck(s) ==
    /\ pc[s] = "status"
    /\ IF Runs(pidfile) THEN Return(s) ELSE Goto(s, "status_rm")
    /\ UNCHANGED <<life, pidfile, counts>>

StatusRemove(s) ==
    /\ pc[s] = "status_rm"
    /\ pidfile' = NoPid
    /\ Return(s)
    /\ UNCHANGED <<life, counts>>

Script(s) == \/ StartCheck(s) \/ StartLaunch(s) \/ StartWrite(s)
             \/ StopCheck(s) \/ StopKill(s) \/ StopPoll(s) \/ StopKill9(s)
             \/ StopRemove(s) \/ StatusCheck(s) \/ StatusRemove(s)

(* The shell is killed, or its terminal closed; a gateway it launched goes *)
(* on, as background jobs of a script do.                                  *)
Abort(s) == /\ ~Idle(s) /\ aborts < MaxAborts
            /\ aborts' = aborts + 1
            /\ Return(s)
            /\ UNCHANGED <<life, pidfile, commands, overlaps>>

-----------------------------------------------------------------------------
(* The gateway ends by itself: the configuration does not load, it crashes *)
(* or is killed; or it has finished its shutdown.                          *)
Exit(p) == /\ Runs(p)
           /\ life' = [life EXCEPT ![p] = "dead"]
           /\ UNCHANGED <<pidfile, shell, counts>>

(* The model ends with MaxCommands. *)
Done == (\A s \in Shells : Idle(s)) /\ commands = MaxCommands /\ UNCHANGED vars

Next == \/ \E s \in Shells : Script(s) \/ Abort(s) \/ \E c \in DOMAIN First : Begin(s, c)
        \/ \E p \in Procs : Exit(p)
        \/ Done

Spec == Init /\ [][Next]_vars

(* A shell goes on with its script.  A gateway need not end: uploader.c:57 *)
(* may hold its shutdown up for as long as connect() blocks.               *)
FairSpec == Spec /\ \A s \in Shells : WF_vars(Script(s))

-----------------------------------------------------------------------------
TypeOK ==
    /\ life \in [Procs -> {"none", "up", "stopping", "dead"}]
    /\ pidfile \in Procs \cup {NoPid}
    /\ cmd \in [Shells -> DOMAIN First \cup {""}]
    /\ pc \in [Shells -> {"", "start", "launch", "write", "stop", "kill", "poll",
                          "kill9", "rm", "status", "status_rm"}]
    /\ PID \in [Shells -> Procs \cup {NoPid}]
    /\ polls \in [Shells -> 0 .. Polls]
    /\ commands \in 0 .. MaxCommands /\ overlaps \in 0 .. commands
    /\ aborts \in 0 .. commands

(* Two gateways share a serial line, a database and a light only if runs   *)
(* of the script overlapped or were broken off, and each such run adds one *)
(* at most.                                                                *)
GatewaysWithinOverlaps == Cardinality(Alive) <= 1 + overlaps + aborts

(* When every run so far was finished before the next, a gateway that runs *)
(* can be stopped: the pid file names it.  Gateways that end by themselves *)
(* in between, at any step of a run, do not matter.                        *)
PidfileNamesGateway ==
    overlaps = 0 /\ aborts = 0 /\ (\A s \in Shells : Idle(s))
        => Alive \subseteq {pidfile}

(* A run of stop that saw a gateway ends it, also one whose shutdown never *)
(* finishes: kill -9 follows the ten tries.                                *)
StopEndsGateway ==
    \A s \in Shells, p \in Procs :
        (pc[s] = "poll" /\ PID[s] = p) ~> (life[p] = "dead" \/ aborts > 0)
=============================================================================
