------------------------------- MODULE NodeHost -------------------------------
(***************************************************************************)
(* The commands of an operator on one host: python -m cats.node start,     *)
(* stop, status and ensure (cats/node/cli.py), where ensure is             *)
(* ContentStore.ensure (data/input/structure/infrastructure/               *)
(* content_store_utils.py).  A start that succeeds is the Node.            *)
(*                                                                         *)
(* External: TCP (one listener to a port, bind fails when there is one),   *)
(* signals, and Kubo: a daemon locks repo.lock or exits, then opens its    *)
(* API; unlinking the file leaves the lock with whoever has it, and a      *)
(* later daemon locks a new file.  The id of a process that has died may   *)
(* go to another program, one that does not listen on the port.            *)
(***************************************************************************)
EXTENDS Naturals, FiniteSets

CONSTANTS Commands,    \* commands typed by operators, one process each
          oldNode,     \* a Node from an earlier session
          wrapper,     \* the process that launched it, named after cats.node
          foreign,     \* another program, which may listen on the port
          lookalike,   \* one more, with "node.py" somewhere in its command line
          shell,       \* the parent of every command
          Daemons,     \* ipfs daemon processes
          Starts,      \* starts of a daemon in one ensure: three in the code
          MaxFaults,   \* bound on faults
          None

Processes == Commands \cup {oldNode, wrapper, foreign, lookalike, shell}

ASSUME HostAssumption ==
    /\ oldNode \notin {wrapper, foreign, lookalike, shell, None}
    /\ wrapper \notin {foreign, lookalike, shell, None}
    /\ foreign \notin {lookalike, shell, None}
    /\ lookalike \notin {shell, None} /\ shell # None
    /\ Commands \cap {oldNode, wrapper, foreign, lookalike, shell, None} = {}
    /\ Daemons # {} /\ None \notin Daemons
    /\ Starts \in Nat \ {0} /\ MaxFaults \in Nat

VARIABLES
    kind,      \* [Commands -> Kinds]: what was typed
    pc,        \* [Commands -> PCs]
    pid,       \* [Commands -> Processes \cup {None}]: the listener lsof named
    targets,   \* [Commands -> SUBSET Processes]: still to be signalled
    aim,       \* [Commands -> Processes \cup {None}]: ps has shown it, kill is next
    killed,    \* [Commands -> BOOLEAN]: killed_any
    port,      \* who listens on HOST:PORT
    alive,     \* SUBSET Processes
    termed,    \* SUBSET Processes: SIGTERM has been delivered
    reused,    \* SUBSET Processes: ids that are now those of unrelated programs
    late,      \* history: SUBSET Commands: whose aim was reused since ps showed it
    victim,    \* history: [Commands -> ...]: who listened when stop began
    attempt,   \* [Commands -> 0..Starts]: starts of a daemon in this ensure
    doomed,    \* [Commands -> SUBSET Daemons]: the pids a heal will terminate
    daemon,    \* [Daemons -> {"dead", "starting", "locked", "up"}]
    lockFile,  \* BOOLEAN: repo.lock exists
    holders,   \* SUBSET Daemons: who has locked the file that is there
    mixed,     \* history: two heals overlapped, or a failing probe hid a daemon
    faults

node == <<port, alive, termed, reused>>
kubo == <<daemon, lockFile, holders>>
vars == <<kind, pc, pid, targets, aim, killed, port, alive, termed, reused, late,
          victim, attempt, doomed, daemon, lockFile, holders, mixed, faults>>

Kinds   == {"start", "stop", "status", "ensure"}
Ended   == {"exit0", "exit1"}
Healing == {"shutdown", "ready1", "pids", "terminate", "ready2", "lock", "unlink"}
PCs     == {"new", "listening", "lsof", "ps", "kill", "wait", "after", "owner", "bind",
            "serving", "flask", "store", "ready0", "ready3", "api"}
             \cup Healing \cup Ended

\* _is_cats_node_cmd looks for "cats.node", "cats/node" or "node.py" anywhere in
\* the command line: every command here has the first.
Marked == ({oldNode, wrapper, lookalike} \cup Commands) \ reused

Parent(p) == IF p = oldNode THEN wrapper ELSE shell

\* Daemons are alike: any one will do.  The Node's port and Kubo share nothing,
\* so that one of the two starts empty.
First(D) == CHOOSE d \in D : TRUE

Init ==
    /\ kind = [c \in Commands |-> "status"] /\ pc = [c \in Commands |-> "new"]
    /\ pid = [c \in Commands |-> None] /\ targets = [c \in Commands |-> {}]
    /\ aim = [c \in Commands |-> None]
    /\ killed = [c \in Commands |-> FALSE] /\ victim = [c \in Commands |-> None]
    /\ port \in {None, oldNode, foreign, lookalike}
    /\ alive = {wrapper, foreign, lookalike, shell} \cup ({port} \cap {oldNode})
    /\ termed = {} /\ reused = {} /\ late = {}
    /\ attempt = [c \in Commands |-> 0] /\ doomed = [c \in Commands |-> {}]
    /\ \E s \in {"dead", "starting", "locked", "up"} :
         /\ s = "dead" \/ port = None
         /\ daemon = [e \in Daemons |-> IF e = First(Daemons) THEN s ELSE "dead"]
         /\ holders = IF s \in {"locked", "up"} THEN {First(Daemons)} ELSE {}
    /\ lockFile \in {port = None, holders # {}}
    /\ mixed = FALSE /\ faults = 0

Goto(c, s)       == pc' = [pc EXCEPT ![c] = s]
Step(c, from, s) == pc[c] = from /\ Goto(c, s)
Fault            == faults < MaxFaults /\ faults' = faults + 1
Listening        == port # None
IsReady          == \E d \in Daemons : daemon[d] = "up"

signalling == <<pid, targets, aim, killed, late, victim>>
healing    == <<attempt, doomed, kubo, mixed>>

\* main: the command line is parsed.  start and stop free the port, start after
\* a soft probe of Kubo that changes nothing; status probes; ensure heals.
Main(c, k) ==
    /\ Step(c, "new", CASE k \in {"start", "stop"} -> "listening"
                        [] k = "status" -> "flask"
                        [] k = "ensure" -> "ready0")
    /\ kind' = [kind EXCEPT ![c] = k]
    /\ alive' = alive \cup {c}
    /\ victim' = [victim EXCEPT ![c] = IF k = "stop" THEN port ELSE None]
    /\ UNCHANGED <<pid, targets, aim, killed, late, port, termed, reused, healing, faults>>

------------------------------------------------------------------------------
(***************************************************************************)
(* _stop_node_process, for start and for stop                              *)
(***************************************************************************)
StillListening(c) ==
    /\ Step(c, "listening", IF Listening THEN "lsof" ELSE "after")
    /\ UNCHANGED <<kind, signalling, node, healing, faults>>

\* _listen_pids; an lsof that fails has no answer.
ListenPids(c) ==
    /\ Step(c, "lsof", IF Listening THEN "ps" ELSE "after")
    /\ pid' = [pid EXCEPT ![c] = port]
    /\ UNCHANGED <<kind, targets, aim, killed, late, victim, node, healing, faults>>

ListenPidsFails(c) ==
    /\ Fault /\ Step(c, "lsof", "after")
    /\ UNCHANGED <<kind, signalling, node, healing>>

\* ps of the listener: its parent is to be killed too.
Inspect(c) ==
    /\ pc[c] = "ps"
    /\ IF pid[c] \in alive \cap Marked
         THEN Goto(c, "kill") /\ targets' = [targets EXCEPT ![c] = {pid[c], Parent(pid[c])}]
         ELSE Goto(c, "after") /\ UNCHANGED targets
    /\ UNCHANGED <<kind, pid, aim, killed, late, victim, node, healing, faults>>

\* Mutant of CheckTarget: the target's command line is not looked at.
CheckNothing(c, p) ==
    /\ pc[c] = "kill" /\ aim[c] = None /\ p \in targets[c]
    /\ targets' = [targets EXCEPT ![c] = @ \ {p}]
    /\ aim' = [aim EXCEPT ![c] = p]
    /\ late' = late \ {c}
    /\ UNCHANGED <<kind, pc, pid, killed, victim, node, healing, faults>>

\* One target after the other: ps again ...
CheckTarget(c, p) ==
    /\ pc[c] = "kill" /\ aim[c] = None /\ p \in targets[c]
    /\ targets' = [targets EXCEPT ![c] = @ \ {p}]
    /\ aim' = [aim EXCEPT ![c] = IF p \in alive \cap Marked THEN p ELSE None]
    /\ late' = late \ {c}
    /\ UNCHANGED <<kind, pc, pid, killed, victim, node, healing, faults>>

\* ... then SIGTERM, to whoever has that id by now.
KillTarget(c) ==
    /\ pc[c] = "kill" /\ aim[c] # None
    /\ IF aim[c] \in alive
         THEN termed' = termed \cup {aim[c]} /\ killed' = [killed EXCEPT ![c] = TRUE]
         ELSE UNCHANGED <<termed, killed>>
    /\ aim' = [aim EXCEPT ![c] = None]
    /\ UNCHANGED <<kind, pc, pid, targets, late, victim, port, alive, reused, healing, faults>>

\* A ps that fails: that process is passed over.
PsFails(c) ==
    /\ Fault
    /\ \/ Step(c, "ps", "after") /\ UNCHANGED targets
       \/ /\ pc[c] = "kill" /\ aim[c] = None /\ UNCHANGED pc
          /\ \E p \in targets[c] : targets' = [targets EXCEPT ![c] = @ \ {p}]
    /\ UNCHANGED <<kind, pid, aim, killed, late, victim, node, healing>>

KillDone(c) ==
    /\ targets[c] = {} /\ aim[c] = None
    /\ Step(c, "kill", IF killed[c] THEN "wait" ELSE "after")
    /\ UNCHANGED <<kind, signalling, node, healing, faults>>

\* Twenty looks at the port, a tenth of a second apart: it may still be taken
\* after the last one.
WaitPort(c) ==
    /\ Step(c, "wait", "after")
    /\ UNCHANGED <<kind, signalling, node, healing, faults>>

\* Mutant of StopReports: the port is not looked at again.
StopReportsDone(c) ==
    /\ kind[c] = "stop" /\ Step(c, "after", "exit0")
    /\ alive' = alive \ {c}
    /\ UNCHANGED <<kind, signalling, port, termed, reused, healing, faults>>

\* _cmd_stop
StopReports(c) ==
    /\ kind[c] = "stop" /\ Step(c, "after", IF Listening THEN "exit1" ELSE "exit0")
    /\ alive' = alive \ {c}
    /\ UNCHANGED <<kind, signalling, port, termed, reused, healing, faults>>

\* _cmd_start: is the port somebody else's?  Two looks, one after the other.
StartLooks(c) ==
    /\ kind[c] = "start" /\ Step(c, "after", IF Listening THEN "owner" ELSE "bind")
    /\ UNCHANGED <<kind, signalling, node, healing, faults>>

\* _cats_node_on_port: without an owner, or when lsof or ps fails, start blames
\* another program and gives up.
StartOwner(c) ==
    /\ pc[c] = "owner"
    /\ \/ port \in Marked /\ Goto(c, "bind") /\ UNCHANGED <<alive, faults>>
       \/ port \notin Marked /\ Goto(c, "exit1") /\ alive' = alive \ {c} /\ UNCHANGED faults
       \/ Fault /\ Goto(c, "exit1") /\ alive' = alive \ {c}
    /\ UNCHANGED <<kind, signalling, port, termed, reused, healing>>

\* catNode.run
Bind(c) ==
    /\ pc[c] = "bind"
    /\ IF Listening THEN Goto(c, "exit1") /\ alive' = alive \ {c} /\ UNCHANGED port
                    ELSE Goto(c, "serving") /\ port' = c /\ UNCHANGED alive
    /\ UNCHANGED <<kind, signalling, termed, reused, healing, faults>>

\* A process that got SIGTERM ends: the Node by _handle_stop_signal.
Dies(p) ==
    /\ p \in termed \cap alive
    /\ alive' = alive \ {p} /\ reused' = reused \ {p}
    /\ port' = IF port = p THEN None ELSE port
    /\ pc' = [c \in Commands |-> IF c = p /\ p \notin reused THEN "exit0" ELSE pc[c]]
    /\ UNCHANGED <<kind, signalling, termed, healing, faults>>

\* The id of a process that has ended goes to an unrelated program: it matters
\* when a command still has that id in hand.
Reuse(p) ==
    /\ Fault
    /\ \E c \in Commands : (pc[c] = "ps" /\ pid[c] = p) \/ p \in targets[c] \cup {aim[c]}
    /\ p \notin alive /\ (p \in Commands => pc[p] \in Ended)
    /\ alive' = alive \cup {p} /\ reused' = reused \cup {p}
    /\ termed' = termed \ {p}
    /\ late' = late \cup {c \in Commands : aim[c] = p}
    /\ UNCHANGED <<kind, pc, pid, targets, aim, killed, victim, port, healing>>

\* _cmd_status: first the port, then the API.
StatusFlask(c) ==
    /\ Step(c, "flask", IF port \in Marked THEN "store" ELSE "exit1")
    /\ alive' = IF port \in Marked THEN alive ELSE alive \ {c}
    /\ UNCHANGED <<kind, signalling, port, termed, reused, healing, faults>>

StatusStore(c) ==
    /\ Step(c, "store", IF IsReady THEN "exit0" ELSE "exit1")
    /\ alive' = alive \ {c}
    /\ UNCHANGED <<kind, signalling, port, termed, reused, healing, faults>>

------------------------------------------------------------------------------
(***************************************************************************)
(* ContentStore.ensure                                                     *)
(***************************************************************************)
cli == <<kind, signalling, port, termed, reused>>

Ends(c, how) == Goto(c, how) /\ alive' = alive \ {c}

\* Between its first look and its end an ensure may remove locks and daemons.
Ensuring(c) == pc[c] \in Healing \cup {"ready3", "api"}

\* The first is_ready.
FirstLook(c) ==
    /\ pc[c] = "ready0"
    /\ IF IsReady THEN Ends(c, "exit0") ELSE Goto(c, "shutdown") /\ UNCHANGED alive
    /\ mixed' = (mixed \/ (~ IsReady /\ \E e \in Commands \ {c} : Ensuring(e)))
    /\ UNCHANGED <<cli, attempt, doomed, kubo, faults>>

\* A heal that finds the API up returns; so does ensure then, or the loop, whose
\* next daemon finds the lock taken.
HealLook(c, from, to) ==
    /\ Step(c, from, IF IsReady THEN "ready3" ELSE to)
    /\ UNCHANGED <<cli, alive, attempt, doomed, kubo, mixed, faults>>

\* ipfs shutdown reaches whatever daemon has its API up by now.
IpfsShutdown(c) ==
    /\ Step(c, "shutdown", "ready1")
    /\ \E up \in {{}, {d \in Daemons : daemon[d] = "up"}} :
         /\ daemon' = [d \in Daemons |-> IF d \in up THEN "dead" ELSE daemon[d]]
         /\ holders' = holders \ up
    /\ UNCHANGED <<cli, alive, attempt, doomed, lockFile, mixed, faults>>

\* lsof of the lock and pgrep of the daemons; either may fail and name nobody.
LockAndDaemonPids(c) ==
    /\ Step(c, "pids", "terminate")
    /\ \/ /\ doomed' = [doomed EXCEPT ![c] = {d \in Daemons : daemon[d] # "dead"}]
          /\ UNCHANGED <<mixed, faults>>
       \/ /\ Fault /\ doomed' = [doomed EXCEPT ![c] = {}]
          /\ mixed' = (mixed \/ \E d \in Daemons : daemon[d] = "starting")
    /\ UNCHANGED <<cli, alive, attempt, kubo>>

\* _terminate_pids: SIGTERM, and SIGKILL for the stubborn.
TerminatePids(c) ==
    /\ Step(c, "terminate", "ready2")
    /\ daemon' = [d \in Daemons |-> IF d \in doomed[c] THEN "dead" ELSE daemon[d]]
    /\ holders' = holders \ doomed[c]
    /\ doomed' = [doomed EXCEPT ![c] = {}]
    /\ UNCHANGED <<cli, alive, attempt, lockFile, mixed, faults>>

\* Mutant of LockHolders: the file is removed, held or not.
LockHoldersIgnored(c) ==
    /\ Step(c, "lock", IF lockFile THEN "unlink" ELSE "ready3")
    /\ UNCHANGED <<cli, alive, attempt, doomed, kubo, mixed, faults>>

\* The lock file is removed only if nobody has it, as far as lsof can tell.
LockHolders(c) ==
    /\ \/ /\ Step(c, "lock", IF lockFile /\ holders = {} THEN "unlink" ELSE "ready3")
          /\ UNCHANGED <<mixed, faults>>
       \/ /\ lockFile /\ holders # {}
          /\ Fault /\ mixed' = TRUE /\ Step(c, "lock", "unlink")
    /\ UNCHANGED <<cli, alive, attempt, doomed, kubo>>

\* os.unlink: whoever holds the lock goes on holding it, of a file without name.
UnlinkLock(c) ==
    /\ Step(c, "unlink", "ready3")
    /\ lockFile' = FALSE /\ holders' = {}
    /\ UNCHANGED <<cli, alive, attempt, doomed, daemon, mixed, faults>>

\* After the first heal ensure looks once more, and starts a daemon if there is
\* still no API; after the others the loop goes on without a look, and raises
\* when it has had its starts.
HealReturns(c) ==
    /\ pc[c] = "ready3"
    /\ \/ attempt[c] = 0 /\ IsReady /\ Ends(c, "exit0")
       \/ attempt[c] = Starts /\ Ends(c, "exit1")
    /\ UNCHANGED <<cli, attempt, doomed, kubo, mixed, faults>>

Popen(c) ==
    /\ attempt[c] = 0 => ~ IsReady
    /\ attempt[c] < Starts
    /\ Step(c, "ready3", "api")
    /\ attempt' = [attempt EXCEPT ![c] = @ + 1]
    /\ \E d \in Daemons : daemon[d] = "dead"
    /\ daemon' = [daemon EXCEPT ![First({d \in Daemons : daemon[d] = "dead"})] = "starting"]
    /\ UNCHANGED <<cli, alive, doomed, lockFile, holders, mixed, faults>>

ApiReady(c) ==
    /\ pc[c] = "api" /\ IsReady /\ Ends(c, "exit0")
    /\ UNCHANGED <<cli, attempt, doomed, kubo, mixed, faults>>

\* Mutant of ApiTimeout: the retries go on.
ApiTimeoutForever(c) ==
    /\ Step(c, "api", "shutdown") /\ ~ IsReady
    /\ attempt' = [attempt EXCEPT ![c] = 1]
    /\ UNCHANGED <<cli, alive, doomed, kubo, mixed, faults>>

\* Thirty seconds without an API: heal, and start another daemon.
ApiTimeout(c) ==
    /\ Step(c, "api", "shutdown") /\ ~ IsReady
    /\ UNCHANGED <<cli, alive, attempt, doomed, kubo, mixed, faults>>

------------------------------------------------------------------------------
(***************************************************************************)
(* Kubo                                                                    *)
(***************************************************************************)
commandVars == <<kind, pc, signalling, node, attempt, doomed, mixed, faults>>

\* "someone else has the lock": the daemon exits.
DaemonLocks(d) ==
    /\ daemon[d] = "starting"
    /\ IF holders = {}
         THEN /\ daemon' = [daemon EXCEPT ![d] = "locked"]
              /\ holders' = {d} /\ lockFile' = TRUE
         ELSE /\ daemon' = [daemon EXCEPT ![d] = "dead"]
              /\ UNCHANGED <<holders, lockFile>>
    /\ UNCHANGED commandVars

\* The API is one port: a second daemon that gets this far exits.
DaemonServes(d) ==
    /\ daemon[d] = "locked"
    /\ daemon' = [daemon EXCEPT ![d] = IF IsReady THEN "dead" ELSE "up"]
    /\ holders' = IF IsReady THEN holders \ {d} ELSE holders
    /\ UNCHANGED <<commandVars, lockFile>>

\* The API of a running daemon hangs: the lock stays with it.
DaemonHangs(d) ==
    /\ daemon[d] = "up" /\ Fault
    /\ daemon' = [daemon EXCEPT ![d] = "locked"]
    /\ UNCHANGED <<kind, pc, signalling, node, attempt, doomed, mixed, lockFile, holders>>

Command(c) ==
    \/ StillListening(c) \/ ListenPids(c) \/ Inspect(c)
    \/ \E p \in Processes : CheckTarget(c, p)
    \/ KillTarget(c) \/ KillDone(c) \/ WaitPort(c) \/ StopReports(c) \/ StartLooks(c) \/ StartOwner(c)
    \/ Bind(c) \/ StatusFlask(c) \/ StatusStore(c)
    \/ FirstLook(c) \/ HealLook(c, "ready1", "pids") \/ HealLook(c, "ready2", "lock")
    \/ IpfsShutdown(c) \/ LockAndDaemonPids(c) \/ TerminatePids(c) \/ LockHolders(c)
    \/ UnlinkLock(c) \/ HealReturns(c) \/ Popen(c) \/ ApiReady(c) \/ ApiTimeout(c)

Next ==
    \/ \E c \in Commands : \/ \E k \in Kinds : Main(c, k)
                           \/ Command(c) \/ ListenPidsFails(c) \/ PsFails(c)
    \/ \E p \in Processes : Dies(p) \/ Reuse(p)
    \/ \E d \in Daemons : DaemonLocks(d) \/ DaemonServes(d) \/ DaemonHangs(d)

\* A command that can go on does, and a daemon that was started gets to the
\* lock.  Nobody has to type anything, no process has to die in time and no
\* daemon has to open its API.
Spec ==
    /\ Init /\ [][Next]_vars
    /\ \A c \in Commands : WF_vars(Command(c))
    /\ \A d \in Daemons : WF_vars(DaemonLocks(d))

------------------------------------------------------------------------------
\* Types of the processes, the commands and the repository.
TypeOK ==
    /\ kind \in [Commands -> Kinds] /\ pc \in [Commands -> PCs]
    /\ pid \in [Commands -> Processes \cup {None}]
    /\ targets \in [Commands -> SUBSET Processes]
    /\ aim \in [Commands -> Processes \cup {None}]
    /\ killed \in [Commands -> BOOLEAN]
    /\ port \in Processes \cup {None}
    /\ alive \subseteq Processes /\ termed \subseteq Processes
    /\ reused \subseteq Processes /\ late \subseteq Commands
    /\ victim \in [Commands -> Processes \cup {None}]
    /\ attempt \in [Commands -> 0 .. Starts]
    /\ doomed \in [Commands -> SUBSET Daemons]
    /\ daemon \in [Daemons -> {"dead", "starting", "locked", "up"}]
    /\ lockFile \in BOOLEAN /\ holders \subseteq Daemons
    /\ mixed \in BOOLEAN /\ faults \in 0 .. MaxFaults

\* start and stop signal no program without the marker: neither the one that
\* listens on the port, nor the shell that launched a Node, nor one that was given
\* the id of a process that died after lsof or ps had named it.  One gap is left:
\* an id that changes hands between the second ps and the kill.
OthersSurvive ==
    [][ \A p \in {foreign, shell} \cup reused :
          p \in termed' \ termed => \E c \in late : aim[c] = p ]_vars

\* The port is whose the commands say.  Who listens is alive, and a start that
\* says it serves is the one that listens: two starts at once, or a start during
\* the slow end of the Node before it, do not both serve.  When stop reports
\* "node stopped", the Node that listened when it began does not listen, then or
\* later, although it may outlive the two seconds that stop waits for it.
PortAsReported ==
    /\ port # None => port \in alive
    /\ \A c \in Commands :
         /\ pc[c] = "serving" => port = c
         /\ pc[c] = "exit0" /\ victim[c] # None => port # victim[c]

\* Two daemons never have the repository at the same time, unless two operators
\* healed at once, the last lsof failed or a daemon just starting was missed:
\* repo.lock is removed only when its holders are gone, even if the heal could
\* not find whom to terminate (_heal_stale_repo_lock).
SoleOwner ==
    ~ mixed => Cardinality({d \in Daemons : daemon[d] \in {"locked", "up"}}) <= 1

\* Every command ends or serves, with daemons that hang, start slowly or lose
\* the lock, Nodes that do not die, and other commands in between: every loop of
\* the two modules is bounded.
CommandsEnd ==
    \A c \in Commands : pc[c] # "new" ~> pc[c] \in Ended \cup {"serving"}
==============================================================================
