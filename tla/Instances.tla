------------------------------ MODULE Instances -----------------------------
(***************************************************************************)
(* Several invocations of the program on one machine: the server of module *)
(* Server from its first step, other servers beside it, and --status.  All *)
(* of them load server.yml, and they know of each other only by the PID    *)
(* file (main.go, src/src/server/pid.go, handleStatus in cli_ops.go).      *)
(*                                                                         *)
(* Writing a file is two steps, because os.WriteFile empties it first;     *)
(* between them, and after a process was killed there, it is "empty".      *)
(***************************************************************************)
EXTENDS Server

CONSTANTS
  Rivals,    \* other processes that want to serve
  Queries,   \* processes that run --status
  MaxStarted \* bound: how many processes are started beside Main

ASSUME InstancesAssumption ==
  /\ Main \notin Rivals \cup Queries
  /\ Rivals \cap Queries = {}
  /\ {"none", "empty"} \cap ({Main} \cup Rivals) = {}
  /\ MaxStarted \in Nat

VARIABLES
  process,    \* what each process is doing
  pidFile,    \* "none", "empty" or the process it names
  serverYml,  \* "none", "empty" or "whole"
  started,
  raced       \* ghost: did a process look at the PID file while another changed it?

instanceVars == <<process, pidFile, serverYml, started, raced>>
machineVars == <<allVars, instanceVars>>

Processes == {Main} \cup Rivals \cup Queries

\* Between looking at the PID file and being done with it.
Changing == {p \in Processes : process[p] \in {"remove", "write", "writing"}}

\* isProcessRunning and isOurProcess.
Alive(p) == process[p] \notin {"off", "gone"}

\* One process listens on the port.
PortTaken == listening \/ \E p \in Rivals : process[p] = "serving"

Become(p, pc) == process' = [process EXCEPT ![p] = pc]

InstancesInit ==
  /\ ServerInit
  /\ process = [p \in Processes |-> IF p = Main THEN "load" ELSE "off"]
  /\ pidFile = "none"
  /\ serverYml \in {"none", "whole"}
  /\ started = 0
  /\ raced = FALSE

----------------------------------------------------------------------------
(***************************************************************************)
(* config.Load                                                             *)
(***************************************************************************)
Start(p) ==
  /\ process[p] \in {"off", "gone"}
  /\ started < MaxStarted
  /\ started' = started + 1
  /\ Become(p, "load")
  /\ UNCHANGED <<allVars, pidFile, serverYml, raced>>

\* An empty file is a configuration without a port, which Validate refuses.
Load(p) ==
  /\ process[p] = "load"
  /\ \/ serverYml = "none" /\ serverYml' = "empty" /\ Become(p, "save")
     \/ serverYml = "empty" /\ UNCHANGED serverYml /\ Become(p, "gone")
     \/ serverYml = "whole" /\ UNCHANGED serverYml /\ Become(p, "check")
  /\ UNCHANGED <<allVars, pidFile, started, raced>>

SaveDefaults(p) ==
  /\ process[p] = "save"
  /\ serverYml' = "whole"
  /\ Become(p, "check")
  /\ UNCHANGED <<allVars, pidFile, started, raced>>

----------------------------------------------------------------------------
(***************************************************************************)
(* CheckPIDFile and WritePIDFile                                           *)
(***************************************************************************)

\* Mutant: a server that is refused removes the PID file, like one that ends.
RemovedWhenRefused == "remove"

AfterRefusal == "gone"

\* Where p goes on when no server runs: only a server writes the file.
AfterCheck(p) == IF p \in Queries THEN "gone" ELSE "write"

\* A file that names nobody alive is taken for stale, an empty one for corrupt:
\* both are removed.
CheckPIDFile(p) ==
  /\ process[p] = "check"
  /\ LET named == pidFile \in {Main} \cup Rivals
         next == IF named /\ Alive(pidFile) THEN AfterRefusal
                 ELSE IF pidFile = "none" THEN AfterCheck(p) ELSE "remove" IN
       Become(p, next)
  /\ raced' = (raced \/ Changing # {})
  /\ UNCHANGED <<allVars, pidFile, serverYml, started>>

\* os.Remove takes whatever file is there by now.
RemoveStale(p) ==
  /\ process[p] = "remove"
  /\ pidFile' = "none"
  /\ Become(p, AfterCheck(p))
  /\ UNCHANGED <<allVars, serverYml, started, raced>>

EmptyPIDFile(p) ==
  /\ process[p] = "write"
  /\ pidFile' = "empty"
  /\ Become(p, "writing")
  /\ UNCHANGED <<allVars, serverYml, started, raced>>

FillPIDFile(p) ==
  /\ process[p] = "writing"
  /\ pidFile' = p
  /\ Become(p, "up")
  /\ UNCHANGED <<allVars, serverYml, started, raced>>

\* The deferred RemovePIDFile, whoever the file names.
RemovePIDFile(p) ==
  /\ process[p] = "up"
  /\ IF p = Main THEN main = "return" ELSE PortTaken
  /\ pidFile' = "none"
  /\ Become(p, IF p = Main THEN "removed" ELSE "gone")
  /\ UNCHANGED <<allVars, serverYml, started, raced>>

----------------------------------------------------------------------------
(***************************************************************************)
(* After the PID file: Main does what module Server says, a rival listens, *)
(* serves and ends, or is killed.                                          *)
(***************************************************************************)
RivalListens(p) ==
  /\ p \in Rivals
  /\ process[p] = "up"
  /\ ~PortTaken
  /\ Become(p, "serving")
  /\ UNCHANGED <<allVars, pidFile, serverYml, started, raced>>

RivalEnds(p) ==
  /\ process[p] = "serving"
  /\ pidFile' = "none"
  /\ Become(p, "gone")
  /\ UNCHANGED <<allVars, serverYml, started, raced>>

\* SIGKILL, or a crash: no deferred call runs.
Kill(p) ==
  /\ p \in Rivals
  /\ Alive(p)
  /\ Become(p, "gone")
  /\ UNCHANGED <<allVars, pidFile, serverYml, started, raced>>

ServerRuns ==
  /\ process[Main] \in {"up", "removed"}
  /\ ServerNext
  /\ listening' => (listening \/ ~PortTaken)
  /\ IF main' = "exited" /\ main = "return"
     THEN process[Main] = "removed" /\ Become(Main, "gone")
     ELSE UNCHANGED process
  /\ UNCHANGED <<pidFile, serverYml, started, raced>>

StartupStep(p) ==
  \/ Load(p) \/ SaveDefaults(p) \/ CheckPIDFile(p) \/ RemoveStale(p)
  \/ EmptyPIDFile(p) \/ FillPIDFile(p) \/ RemovePIDFile(p)

InstancesNext ==
  \/ ServerRuns
  \/ \E p \in Processes : StartupStep(p)
  \/ \E p \in Rivals \cup Queries : Start(p) \/ RivalListens(p) \/ RivalEnds(p) \/ Kill(p)

InstancesSpec == InstancesInit /\ [][InstancesNext]_machineVars

\* As in module Server; each process goes through its startup.
InstancesFairness ==
  /\ \A p \in Processes : WF_machineVars(StartupStep(p))
  /\ WF_machineVars(ServerRuns /\ MainStep)
  /\ \A i \in Loops : /\ WF_machineVars(ServerRuns /\ Background /\ EnterSelect(i))
                      /\ SF_machineVars(ServerRuns /\ Background /\ LoopReturns(i))
  /\ \A r \in Runs : WF_machineVars(ServerRuns /\ Background /\ RunStep(r))

FairInstancesSpec == InstancesSpec /\ InstancesFairness

----------------------------------------------------------------------------
\* As long as no two processes are at the PID file at the same moment, it names
\* the server that listens, however many others are started, refused, killed or
\* asked for their status meanwhile.
PidFileNamesServer ==
  ~raced => /\ listening => pidFile = Main
            /\ \A p \in Rivals : process[p] = "serving" => pidFile = p
============================================================================
