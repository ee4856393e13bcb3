------------------------------- MODULE Launch -------------------------------
(***************************************************************************)
(* One server after another on one port: how bench/run_sweep.py starts,    *)
(* watches and stops vLLM for each configuration it measures.              *)
(*                                                                         *)
(* A start is a shell (run_vllm.sh), which runs the API process, which     *)
(* spawns engine and worker processes and then listens.  The sweep knows   *)
(* the shell by its Popen object, the API process by the port it listens   *)
(* on, and the workers by their names: an API process that does not listen *)
(* yet is known by nothing.  Sweep takes the outcome of a start as given;  *)
(* here are the processes behind it.                                       *)
(*                                                                         *)
(* Bounds: NumLaunches (servers started), MaxKills (sweeps killed).        *)
(***************************************************************************)
EXTENDS Integers, FiniteSets

CONSTANTS
    NumLaunches,
    MaxKills,
    Early    \* a start can be given up, or the sweep killed, before there are workers

ASSUME LaunchAssumption ==
    NumLaunches \in Nat \ {0} /\ MaxKills \in Nat /\ Early \in BOOLEAN

Launches == 1..NumLaunches

VARIABLES
    shell,     \* of each launch: "none", "alive" or "dead"
    api,       \* of each launch: "none", "booting", "loading", "listening" or "dead"
    workers,   \* launches with VLLM:: processes alive
    asked,     \* launches whose API process got SIGTERM
    pc,        \* control point of the sweep
    launch,    \* number of servers started so far: the last one is proc
    next,      \* what follows the stop_port in progress
    kills

procVars == <<shell, api, workers, asked>>
sweepVars == <<pc, launch, next, kills>>
vars == <<procVars, sweepVars>>

Alive(k) == api[k] \in {"booting", "loading", "listening"}

\* pids_on_port: an API process that has asked to stop listens until it closes.
Listeners == {k \in Launches : api[k] = "listening"}

\* Started, but with nothing yet that the sweep could find: no listener, no worker.
Embryo(k) == shell[k] = "alive" /\ api[k] \in {"none", "booting"}

(***************************************************************************)
(* The server: run_vllm.sh, vLLM and the operating system.                 *)
(***************************************************************************)

\* run_vllm.sh has read its arguments and runs vllm serve.
Serve(k) ==
    /\ shell[k] = "alive" /\ api[k] = "none"
    /\ api' = [api EXCEPT ![k] = "booting"]
    /\ UNCHANGED <<shell, workers, asked, sweepVars>>

SpawnWorkers(k) ==
    /\ api[k] = "booting"
    /\ api' = [api EXCEPT ![k] = "loading"]
    /\ workers' = workers \union {k}
    /\ UNCHANGED <<shell, asked, sweepVars>>

Listen(k) ==
    /\ api[k] = "loading" /\ k \in workers
    /\ api' = [api EXCEPT ![k] = "listening"]
    /\ UNCHANGED <<shell, workers, asked, sweepVars>>

\* The API process dies, of an error or of SIGTERM; its workers often survive.
Dies(k) ==
    /\ Alive(k)
    /\ api' = [api EXCEPT ![k] = "dead"]
    /\ UNCHANGED <<shell, workers, asked, sweepVars>>

\* An API process whose workers were killed, or which closes as it was asked to.
Ends(k) ==
    /\ \/ api[k] \in {"loading", "listening"} /\ k \notin workers
       \/ Alive(k) /\ k \in asked
    /\ Dies(k)

WorkersExit(k) ==
    /\ k \in workers /\ api[k] = "dead"
    /\ workers' = workers \ {k}
    /\ UNCHANGED <<shell, api, asked, sweepVars>>

\* The shell was waiting for its only command.
ShellExits(k) ==
    /\ shell[k] = "alive" /\ api[k] = "dead"
    /\ shell' = [shell EXCEPT ![k] = "dead"]
    /\ UNCHANGED <<api, workers, asked, sweepVars>>

(***************************************************************************)
(* stop_port                                                               *)
(***************************************************************************)

Terminate ==
    /\ pc = "terminate"
    /\ asked' = asked \union Listeners
    /\ pc' = "drain"
    /\ UNCHANGED <<shell, api, workers, launch, next, kills>>

Drained ==
    /\ pc = "drain" /\ Listeners = {}
    /\ pc' = "orphans"
    /\ UNCHANGED <<procVars, launch, next, kills>>

\* Mutant: SIGTERM is trusted.
KilledNone == {}

\* Those that get SIGKILL.
Killed == Listeners

\* STOP_TIMEOUT_S is over and some still listen.
DrainTimeout ==
    /\ pc = "drain" /\ Listeners # {}
    /\ api' = [k \in Launches |-> IF k \in Killed THEN "dead" ELSE api[k]]
    /\ pc' = "orphans"
    /\ UNCHANGED <<shell, workers, asked, launch, next, kills>>

\* Mutant: workers are taken to die with their API process.
SurvivorsAll == workers

\* What pkill VLLM:: leaves.
Survivors == {}

KillOrphans ==
    /\ pc = "orphans"
    /\ workers' = Survivors
    /\ pc' = "settle"
    /\ UNCHANGED <<shell, api, asked, launch, next, kills>>

\* time.sleep(2): enough, so it is assumed here, for an API process that never got a
\* signal to notice that its workers are gone and to end.
Settle ==
    /\ pc = "settle"
    /\ \A k \in Launches : api[k] \in {"loading", "listening"} => k \in workers \union asked
    /\ pc' = next
    /\ UNCHANGED <<procVars, launch, next, kills>>

(***************************************************************************)
(* run_one_config                                                          *)
(***************************************************************************)

\* A configuration that needs its server restarted.
Begin(from) ==
    /\ pc = from /\ launch < NumLaunches
    /\ pc' = "terminate" /\ next' = "spawn"
    /\ UNCHANGED <<procVars, launch, kills>>

Spawn ==
    /\ pc = "spawn"
    /\ launch' = launch + 1
    /\ shell' = [shell EXCEPT ![launch + 1] = "alive"]
    /\ pc' = "wait"
    /\ UNCHANGED <<api, workers, asked, next, kills>>

\* Back to the loop over configurations once the server is stopped: proc gets SIGTERM,
\* and a shell that waits for a command dies of it without passing it on.
Stop ==
    /\ shell' = [shell EXCEPT ![launch] = "dead"]
    /\ pc' = "terminate" /\ next' = "configs"
    /\ UNCHANGED <<api, workers, asked, launch, kills>>

\* wait_healthy: proc.poll() has a code.
ServerExited == pc = "wait" /\ shell[launch] = "dead" /\ Stop

\* wait_healthy: a fatal marker, a log that stalls while no worker is busy, the deadline.
GiveUp ==
    /\ pc = "wait" /\ shell[launch] = "alive"
    /\ Embryo(launch) => Early
    /\ Stop

\* wait_healthy: something answers on the port; poll() was asked a moment before.
Healthy ==
    /\ pc = "wait"
    /\ Listeners # {}
    /\ pc' = "bench"
    /\ UNCHANGED <<procVars, launch, next, kills>>

BenchEnds == pc = "bench" /\ Stop

Finish ==
    /\ pc = "configs"
    /\ pc' = "done"
    /\ UNCHANGED <<procVars, launch, next, kills>>

\* The sweep is killed; the server, in a session of its own, lives on.
Kill ==
    /\ pc \notin {"off", "done"}
    /\ kills < MaxKills
    /\ (launch > 0 /\ Embryo(launch)) => Early
    /\ kills' = kills + 1
    /\ pc' = "off"
    /\ UNCHANGED <<procVars, launch, next>>

(***************************************************************************)
(* Specification                                                           *)
(***************************************************************************)
Init ==
    /\ shell = [k \in Launches |-> "none"] /\ api = [k \in Launches |-> "none"]
    /\ workers = {} /\ asked = {}
    /\ pc = "off" /\ launch = 0 /\ next = "spawn" /\ kills = 0

Step ==
    \/ Begin("configs") \/ Terminate \/ Drained \/ DrainTimeout \/ KillOrphans \/ Settle
    \/ Spawn \/ ServerExited \/ GiveUp \/ Healthy \/ BenchEnds \/ Finish

Server(k) ==
    Serve(k) \/ SpawnWorkers(k) \/ Listen(k) \/ Dies(k) \/ Ends(k) \/ WorkersExit(k)
    \/ ShellExits(k)

Next == Step \/ Kill \/ Begin("off") \/ \E k \in Launches : Server(k)

Spec == Init /\ [][Next]_vars

\* Every wait of the sweep has a deadline, a process that is asked to end or has lost its
\* workers ends, and the shell follows its command.
FairSpec ==
    /\ Spec /\ WF_vars(Step)
    /\ \A k \in Launches : WF_vars(Ends(k)) /\ WF_vars(ShellExits(k))

(***************************************************************************)
(* Properties.                                                             *)
(***************************************************************************)

\* Types, and that the launches so far are those that have had a shell.
TypeOK ==
    /\ shell \in [Launches -> {"none", "alive", "dead"}]
    /\ api \in [Launches -> {"none", "booting", "loading", "listening", "dead"}]
    /\ workers \subseteq Launches /\ asked \subseteq Launches
    /\ pc \in {"off", "terminate", "drain", "orphans", "settle", "spawn", "wait", "bench",
               "configs", "done"}
    /\ launch \in 0..NumLaunches /\ next \in {"spawn", "configs"}
    /\ kills \in 0..MaxKills
    /\ \A k \in Launches : shell[k] = "none" <=> k > launch

\* The GPUs belong to one server at a time: whatever was killed, timed out or left behind
\* by an earlier sweep, a server's workers start when no other's are alive.
OneEngine == Cardinality(workers) <= 1

\* What is measured is the configuration's own server: nothing else answers on the port.
MeasuresOwn == pc = "bench" => Listeners \subseteq {launch}

\* A sweep that reaches its end leaves no process behind.
CleansUp ==
    pc = "done" ~> workers = {} /\ \A k \in Launches : shell[k] # "alive" /\ ~Alive(k)

(***************************************************************************)
(* The inductive invariant behind the safety properties (LaunchProofs).    *)
(***************************************************************************)

\* Nothing exists of a launch to come, and there is one to come where one is due.
FutureInv ==
    /\ \A k \in Launches : k > launch => shell[k] = "none" /\ api[k] = "none"
    /\ pc \in {"terminate", "drain", "orphans", "settle"} /\ next = "spawn"
          => launch < NumLaunches
    /\ pc = "spawn" => launch < NumLaunches
    /\ pc \in {"wait", "bench"} => launch > 0

\* Only the start that is being waited for is without workers yet.
EmbryoInv ==
    \A k \in Launches : k <= launch /\ api[k] \in {"none", "booting"}
        => k = launch /\ pc = "wait" /\ shell[k] = "alive"

\* Only the last server has workers, and none survive stop_port.
WorkersInv ==
    /\ workers \subseteq {launch}
    /\ pc \in {"settle", "spawn"} => workers = {}

\* A server that got SIGTERM was listening, and has ended when stop_port goes on.
AskedInv ==
    \A k \in asked :
        /\ api[k] \in {"listening", "dead"}
        /\ pc \in {"orphans", "settle", "spawn"} => api[k] = "dead"

\* After stop_port no API process is left; later, only that of the last launch.
OldServersInv ==
    \A k \in Launches : api[k] \in {"loading", "listening"} =>
        pc # "spawn" /\ (pc \in {"wait", "bench"} => k = launch)

LaunchInv == FutureInv /\ EmbryoInv /\ WorkersInv /\ AskedInv /\ OldServersInv

=============================================================================
