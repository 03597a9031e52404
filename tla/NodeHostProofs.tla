---------------------------- MODULE NodeHostProofs ----------------------------
(***************************************************************************)
(* The operator's commands for every set of commands and of daemons, every *)
(* number of starts in an ensure and every number of faults.               *)
(***************************************************************************)
EXTENDS NodeHost, FiniteSetTheorems, TLAPS

\* Where a command stands is fit for what was typed; until it has ended its id
\* is its own, it serves exactly when it has the port, and who listened when a
\* stop began never binds the port again.
CommandGood(c) ==
    /\ pc[c] = "new" => kind[c] = "status"
    /\ pc[c] \in {"flask", "store"} => kind[c] = "status"
    /\ pc[c] \in Healing \cup {"ready0", "ready3", "api"} => kind[c] = "ensure"
    /\ pc[c] \in {"owner", "bind", "serving"} => kind[c] = "start"
    /\ pc[c] \notin {"new"} \cup Ended => c \in alive
    /\ c \in reused => pc[c] \in Ended
    /\ pc[c] = "serving" <=> port = c
    /\ victim[c] # None => kind[c] = "stop"
    /\ victim[c] \in Commands => pc[victim[c]] \in {"serving", "exit0"}
    /\ pc[c] = "exit0" /\ victim[c] # None => port # victim[c]

\* What lsof names, ps inspects and kill is given is never a stop, a status or an
\* ensure; what kill is given carries the marker, or its id has changed hands.
SignalGood(c) ==
    /\ pid[c] \in Commands => kind[pid[c]] = "start"
    /\ \A p \in targets[c] : p \in Commands => kind[p] = "start"
    /\ aim[c] \in Commands => kind[aim[c]] = "start"
    /\ aim[c] # None => aim[c] \in Marked \/ c \in late

PortGood ==
    /\ port # None => port \in alive
    /\ \A p \in termed : p \in Commands => kind[p] = "start"

HostInv == TypeOK /\ PortGood /\ \A c \in Commands : CommandGood(c) /\ SignalGood(c)

\* One daemon at most has the file that is there, and no other has an earlier
\* one; one ensure at most heals, and it has seen off every daemon that was
\* starting by the time it looks at the lock.
HealGood(c) ==
    /\ pc[c] = "terminate" => \A d \in Daemons : daemon[d] = "starting" => d \in doomed[c]
    /\ pc[c] \in {"ready2", "lock", "unlink"} => \A d \in Daemons : daemon[d] # "starting"
    /\ pc[c] = "unlink" => holders = {}

RepoInv ==
    /\ \A d, e \in holders : d = e
    /\ ~ mixed =>
         /\ \A d \in Daemons : daemon[d] \in {"locked", "up"} => d \in holders
         /\ \A c, e \in Commands : Ensuring(c) /\ Ensuring(e) => c = e
         /\ \A c \in Commands : HealGood(c)

------------------------------------------------------------------------------
LEMMA FirstIn == \A D : D # {} => First(D) \in D
BY DEF First

LEMMA FaultTyped ==
    ASSUME TypeOK, Fault
    PROVE  faults' \in 0 .. MaxFaults
BY HostAssumption DEF TypeOK, Fault

LEMMA HostInit == Init => HostInv /\ RepoInv
<1> SUFFICES ASSUME Init PROVE HostInv /\ RepoInv
  OBVIOUS
<1>0. First(Daemons) \in Daemons
  BY FirstIn, HostAssumption
<1>1. PICK s \in {"dead", "starting", "locked", "up"} :
        /\ daemon = [e \in Daemons |-> IF e = First(Daemons) THEN s ELSE "dead"]
        /\ holders = IF s \in {"locked", "up"} THEN {First(Daemons)} ELSE {}
  BY DEF Init
<1>2. TypeOK
  <2>1. attempt \in [Commands -> 0 .. Starts] /\ faults \in 0 .. MaxFaults
    BY HostAssumption DEF Init
  <2>2. lockFile \in BOOLEAN /\ mixed \in BOOLEAN
    BY DEF Init
  <2>3. port \in Processes \cup {None} /\ alive \subseteq Processes
    BY DEF Init, Processes
  <2>4. daemon \in [Daemons -> {"dead", "starting", "locked", "up"}]
        /\ holders \subseteq Daemons
    BY <1>0, <1>1
  <2> QED BY <2>1, <2>2, <2>3, <2>4 DEF Init, TypeOK, Kinds, PCs
<1>3. PortGood
  BY HostAssumption DEF Init, PortGood
<1>4. ASSUME NEW c \in Commands PROVE CommandGood(c) /\ SignalGood(c)
  BY HostAssumption DEF Init, CommandGood, SignalGood, Healing, Ended
<1>5. RepoInv
  BY <1>0, <1>1 DEF Init, RepoInv, Ensuring, HealGood, Healing
<1> QED BY <1>2, <1>3, <1>4, <1>5 DEF HostInv

LEMMA HostTypes ==
    ASSUME TypeOK, [Next]_vars
    PROVE  TypeOK'
<1> USE DEF TypeOK, Step, Goto, signalling, healing, node, kubo, cli,
            commandVars, Ends
<1>0. TypeOK
  OBVIOUS
<1>1. ASSUME NEW c \in Commands, NEW k \in Kinds, Main(c, k)
      PROVE  TypeOK'
  BY <1>1 DEF Main, PCs, Kinds, Processes
<1>2. ASSUME NEW c \in Commands, Command(c)
      PROVE  TypeOK'
  <2>1. CASE StillListening(c) \/ ListenPids(c) \/ KillDone(c) \/ WaitPort(c)
    BY <1>0, <2>1 DEF StillListening, ListenPids, KillDone, WaitPort,
        Listening, PCs
  <2>2. CASE Inspect(c)
    BY <1>0, <2>2 DEF Inspect, Marked, Parent, PCs, Processes
  <2>3. CASE \E p \in Processes : CheckTarget(c, p)
    BY <1>0, <2>3 DEF CheckTarget
  <2>16. CASE KillTarget(c)
    <3>1. termed' \subseteq Processes
      BY <1>0, <2>16 DEF KillTarget
    <3>2. killed' \in [Commands -> BOOLEAN]
      BY <1>0, <2>16 DEF KillTarget
    <3>3. aim' \in [Commands -> Processes \cup {None}]
      BY <1>0, <2>16 DEF KillTarget
    <3> QED BY <1>0, <2>16, <3>1, <3>2, <3>3 DEF KillTarget
  <2>4. CASE StopReports(c) \/ StartLooks(c)
    BY <1>0, <2>4 DEF StopReports, StartLooks, Listening, PCs, Ended
  <2>5. CASE StartOwner(c)
    BY <1>0, <2>5, FaultTyped DEF StartOwner, PCs, Ended
  <2>6. CASE Bind(c)
    BY <1>0, <2>6 DEF Bind, Listening, PCs, Ended, Processes
  <2>7. CASE StatusFlask(c) \/ StatusStore(c)
    BY <1>0, <2>7 DEF StatusFlask, StatusStore, PCs, Ended
  <2>8. CASE FirstLook(c)
    BY <1>0, <2>8 DEF FirstLook, PCs, Ended, Healing
  <2>9. CASE HealLook(c, "ready1", "pids") \/ HealLook(c, "ready2", "lock")
    BY <1>0, <2>9 DEF HealLook, PCs, Healing
  <2>10. CASE IpfsShutdown(c)
    BY <1>0, <2>10 DEF IpfsShutdown, PCs, Healing
  <2>11. CASE LockAndDaemonPids(c)
    BY <1>0, <2>11, FaultTyped DEF LockAndDaemonPids, PCs, Healing
  <2>12. CASE TerminatePids(c)
    BY <1>0, <2>12 DEF TerminatePids, PCs, Healing
  <2>13. CASE LockHolders(c) \/ UnlinkLock(c)
    BY <1>0, <2>13, FaultTyped DEF LockHolders, UnlinkLock, PCs, Healing
  <2>14. CASE HealReturns(c) \/ ApiReady(c) \/ ApiTimeout(c)
    BY <1>0, <2>14 DEF HealReturns, ApiReady, ApiTimeout, PCs, Healing, Ended
  <2>15. CASE Popen(c)
    <3>1. attempt' \in [Commands -> 0 .. Starts]
      BY <1>0, <2>15, HostAssumption DEF Popen
    <3>2. pc' \in [Commands -> PCs]
      BY <1>0, <2>15 DEF Popen, PCs
    <3>3. daemon' \in [Daemons -> {"dead", "starting", "locked", "up"}]
      BY <1>0, <2>15, FirstIn DEF Popen
    <3> QED BY <1>0, <2>15, <3>1, <3>2, <3>3 DEF Popen
  <2> QED BY <1>2, <2>1, <2>2, <2>3, <2>4, <2>5, <2>6, <2>7, <2>8, <2>9,
          <2>10, <2>11, <2>12, <2>13, <2>14, <2>15, <2>16 DEF Command
<1>3. ASSUME NEW c \in Commands, ListenPidsFails(c) \/ PsFails(c)
      PROVE  TypeOK'
  <2>1. CASE ListenPidsFails(c)
    BY <1>0, <2>1, FaultTyped DEF ListenPidsFails, PCs
  <2>2. CASE PsFails(c)
    <3>1. targets' \in [Commands -> SUBSET Processes]
      BY <1>0, <2>2 DEF PsFails
    <3>2. pc' \in [Commands -> PCs]
      BY <1>0, <2>2 DEF PsFails, PCs
    <3> QED BY <1>0, <2>2, <3>1, <3>2, FaultTyped DEF PsFails
  <2> QED BY <1>3, <2>1, <2>2
<1>4. ASSUME NEW p \in Processes, Dies(p)
      PROVE  TypeOK'
  BY <1>4 DEF Dies, PCs, Ended
<1>7. ASSUME NEW p \in Processes, Reuse(p)
      PROVE  TypeOK'
  BY <1>7, FaultTyped DEF Reuse
<1>5. ASSUME NEW d \in Daemons, DaemonLocks(d) \/ DaemonServes(d) \/ DaemonHangs(d)
      PROVE  TypeOK'
  BY <1>5, FaultTyped DEF DaemonLocks, DaemonServes, DaemonHangs
<1>6. CASE UNCHANGED vars
  BY <1>6 DEF vars
<1> QED BY <1>1, <1>2, <1>3, <1>4, <1>5, <1>6, <1>7 DEF Next

\* Who listens lives, and only starts among the commands are signalled.
LEMMA HostNode ==
    ASSUME HostInv, [Next]_vars
    PROVE  PortGood'
<1> USE DEF PortGood, TypeOK, Step, Goto, signalling,
            healing, node, kubo, cli, commandVars, Ends
<1>0. /\ TypeOK /\ PortGood
      /\ \A e \in Commands : CommandGood(e) /\ SignalGood(e)
  BY DEF HostInv
<1>1. ASSUME NEW c \in Commands, NEW k \in Kinds, Main(c, k)
      PROVE  PortGood'
  BY <1>0, <1>1, HostAssumption DEF Main, CommandGood
<1>2. ASSUME NEW c \in Commands, Command(c)
      PROVE  PortGood'
  <2>1. CASE StillListening(c) \/ ListenPids(c) \/ KillDone(c) \/ WaitPort(c)
    BY <1>0, <2>1 DEF StillListening, ListenPids, KillDone, WaitPort,
        Listening
  <2>2. CASE Inspect(c)
    BY <1>0, <2>2 DEF Inspect, Marked, Parent
  <2>3. CASE \E p \in Processes : CheckTarget(c, p)
    BY <1>0, <2>3 DEF CheckTarget
  <2>16. CASE KillTarget(c)
    BY <1>0, <2>16 DEF KillTarget, SignalGood
  <2>4. CASE StopReports(c) \/ StartLooks(c)
    BY <1>0, <2>4, HostAssumption DEF StopReports, StartLooks, Listening,
        CommandGood
  <2>5. CASE StartOwner(c)
    BY <1>0, <2>5, HostAssumption DEF StartOwner, CommandGood
  <2>6. CASE Bind(c)
    BY <1>0, <2>6, HostAssumption DEF Bind, Listening, CommandGood, Ended
  <2>7. CASE StatusFlask(c) \/ StatusStore(c)
    BY <1>0, <2>7, HostAssumption DEF StatusFlask, StatusStore, CommandGood
  <2>8. CASE FirstLook(c)
    BY <1>0, <2>8, HostAssumption DEF FirstLook, CommandGood
  <2>9. CASE HealLook(c, "ready1", "pids") \/ HealLook(c, "ready2", "lock")
    BY <1>0, <2>9 DEF HealLook
  <2>10. CASE IpfsShutdown(c)
    BY <1>0, <2>10 DEF IpfsShutdown
  <2>11. CASE LockAndDaemonPids(c)
    BY <1>0, <2>11 DEF LockAndDaemonPids
  <2>12. CASE TerminatePids(c)
    BY <1>0, <2>12 DEF TerminatePids
  <2>13. CASE LockHolders(c) \/ UnlinkLock(c)
    BY <1>0, <2>13 DEF LockHolders, UnlinkLock
  <2>14. CASE HealReturns(c) \/ ApiReady(c) \/ ApiTimeout(c)
    BY <1>0, <2>14, HostAssumption DEF HealReturns, ApiReady, ApiTimeout,
        CommandGood
  <2>15. CASE Popen(c)
    BY <1>0, <2>15 DEF Popen
  <2> QED BY <1>2, <2>1, <2>2, <2>3, <2>4, <2>5, <2>6, <2>7, <2>8, <2>9,
          <2>10, <2>11, <2>12, <2>13, <2>14, <2>15, <2>16 DEF Command
<1>3. ASSUME NEW c \in Commands, ListenPidsFails(c) \/ PsFails(c)
      PROVE  PortGood'
  BY <1>0, <1>3 DEF ListenPidsFails, PsFails
<1>4. ASSUME NEW p \in Processes, Dies(p)
      PROVE  PortGood'
  BY <1>0, <1>4, HostAssumption DEF Dies
<1>7. ASSUME NEW p \in Processes, Reuse(p)
      PROVE  PortGood'
  BY <1>0, <1>7 DEF Reuse
<1>5. ASSUME NEW d \in Daemons, DaemonLocks(d) \/ DaemonServes(d) \/ DaemonHangs(d)
      PROVE  PortGood'
  BY <1>0, <1>5 DEF DaemonLocks, DaemonServes, DaemonHangs
<1>6. CASE UNCHANGED vars
  BY <1>0, <1>6 DEF vars
<1> QED BY <1>1, <1>2, <1>3, <1>4, <1>5, <1>6, <1>7 DEF Next

LEMMA HostCommands ==
    ASSUME HostInv, [Next]_vars, NEW q \in Commands
    PROVE  CommandGood(q)'
<1> USE DEF CommandGood, Healing, Ended, TypeOK, Step, Goto, signalling,
            healing, node, kubo, cli, commandVars, Ends
<1>0. /\ TypeOK /\ PortGood
      /\ \A e \in Commands : CommandGood(e)
  BY DEF HostInv
<1>1. ASSUME NEW c \in Commands, NEW k \in Kinds, Main(c, k)
      PROVE  CommandGood(q)'
  BY <1>0, <1>1, HostAssumption DEF Main, Kinds
<1>2. ASSUME NEW c \in Commands, Command(c)
      PROVE  CommandGood(q)'
  <2>1. CASE StillListening(c) \/ ListenPids(c) \/ KillDone(c) \/ WaitPort(c)
    BY <1>0, <2>1, HostAssumption DEF StillListening, ListenPids, KillDone,
        WaitPort, Listening
  <2>2. CASE Inspect(c)
    BY <1>0, <2>2, HostAssumption DEF Inspect, Marked, Parent
  <2>3. CASE \E p \in Processes : CheckTarget(c, p)
    BY <1>0, <2>3, HostAssumption DEF CheckTarget
  <2>16. CASE KillTarget(c)
    BY <1>0, <2>16, HostAssumption DEF KillTarget
  <2>4. CASE StopReports(c) \/ StartLooks(c)
    BY <1>0, <2>4, HostAssumption DEF StopReports, StartLooks, Listening
  <2>5. CASE StartOwner(c)
    BY <1>0, <2>5, HostAssumption DEF StartOwner
  <2>6. CASE Bind(c)
    BY <1>0, <2>6, HostAssumption DEF Bind, Listening
  <2>7. CASE StatusFlask(c) \/ StatusStore(c)
    BY <1>0, <2>7, HostAssumption DEF StatusFlask, StatusStore
  <2>8. CASE FirstLook(c)
    BY <1>0, <2>8, HostAssumption DEF FirstLook
  <2>9. CASE HealLook(c, "ready1", "pids") \/ HealLook(c, "ready2", "lock")
    BY <1>0, <2>9, HostAssumption DEF HealLook
  <2>10. CASE IpfsShutdown(c)
    BY <1>0, <2>10, HostAssumption DEF IpfsShutdown
  <2>11. CASE LockAndDaemonPids(c)
    BY <1>0, <2>11, HostAssumption DEF LockAndDaemonPids
  <2>12. CASE TerminatePids(c)
    BY <1>0, <2>12, HostAssumption DEF TerminatePids
  <2>13. CASE LockHolders(c) \/ UnlinkLock(c)
    BY <1>0, <2>13, HostAssumption DEF LockHolders, UnlinkLock
  <2>14. CASE HealReturns(c) \/ ApiReady(c) \/ ApiTimeout(c)
    BY <1>0, <2>14, HostAssumption DEF HealReturns, ApiReady, ApiTimeout
  <2>15. CASE Popen(c)
    BY <1>0, <2>15, HostAssumption DEF Popen
  <2> QED BY <1>2, <2>1, <2>2, <2>3, <2>4, <2>5, <2>6, <2>7, <2>8, <2>9,
          <2>10, <2>11, <2>12, <2>13, <2>14, <2>15, <2>16 DEF Command
<1>3. ASSUME NEW c \in Commands, ListenPidsFails(c) \/ PsFails(c)
      PROVE  CommandGood(q)'
  BY <1>0, <1>3 DEF ListenPidsFails, PsFails
<1>4. ASSUME NEW p \in Processes, Dies(p)
      PROVE  CommandGood(q)'
  BY <1>0, <1>4, HostAssumption DEF Dies, PortGood
<1>7. ASSUME NEW p \in Processes, Reuse(p)
      PROVE  CommandGood(q)'
  BY <1>0, <1>7, HostAssumption DEF Reuse, PortGood
<1>5. ASSUME NEW d \in Daemons, DaemonLocks(d) \/ DaemonServes(d) \/ DaemonHangs(d)
      PROVE  CommandGood(q)'
  BY <1>0, <1>5 DEF DaemonLocks, DaemonServes, DaemonHangs
<1>6. CASE UNCHANGED vars
  BY <1>0, <1>6 DEF vars
<1> QED BY <1>1, <1>2, <1>3, <1>4, <1>5, <1>6, <1>7 DEF Next

\* An id in the hands of q is a start's, and kill's is marked or has been reused.
LEMMA HostSignals ==
    ASSUME HostInv, [Next]_vars, NEW q \in Commands
    PROVE  SignalGood(q)'
<1> USE DEF SignalGood, TypeOK, Step, Goto, signalling, healing, node, kubo, cli,
            commandVars, Ends
<1>0. /\ TypeOK /\ PortGood
      /\ \A e \in Commands : CommandGood(e) /\ SignalGood(e)
  BY DEF HostInv
<1>1. ASSUME NEW c \in Commands, NEW k \in Kinds, Main(c, k)
      PROVE  SignalGood(q)'
  BY <1>0, <1>1, HostAssumption DEF Main, Marked, CommandGood
<1>2. ASSUME NEW c \in Commands, Command(c)
      PROVE  SignalGood(q)'
  <2>1. CASE UNCHANGED <<kind, pid, targets, aim, reused, late>>
    BY <1>0, <2>1 DEF Marked
  <2>2. CASE ListenPids(c)
    BY <1>0, <2>2, HostAssumption DEF ListenPids, CommandGood, Marked
  <2>3. CASE Inspect(c)
    BY <1>0, <2>3, HostAssumption DEF Inspect, Parent, Marked
  <2>4. CASE \E p \in Processes : CheckTarget(c, p)
    <3>1. PICK p \in Processes : CheckTarget(c, p)
      BY <2>4
    <3>2. /\ targets'[q] \subseteq targets[q] /\ UNCHANGED <<kind, pid, reused>>
          /\ q # c => aim'[q] = aim[q] /\ (q \in late => q \in late')
      BY <1>0, <3>1 DEF CheckTarget
    <3>3. q = c => aim'[q] \in {None} \cup (targets[q] \cap Marked)
      BY <1>0, <3>1 DEF CheckTarget
    <3> QED BY <1>0, <3>2, <3>3, HostAssumption DEF Marked
  <2>5. CASE KillTarget(c)
    BY <1>0, <2>5, HostAssumption DEF KillTarget, Marked
  <2>6. Command(c) => \/ UNCHANGED <<kind, pid, targets, aim, reused, late>>
                      \/ ListenPids(c) \/ Inspect(c) \/ KillTarget(c)
                      \/ \E p \in Processes : CheckTarget(c, p)
    BY DEF Command, StillListening, KillDone, WaitPort, StopReports, StartLooks,
           StartOwner, Bind, StatusFlask, StatusStore, FirstLook, HealLook,
           IpfsShutdown, LockAndDaemonPids, TerminatePids, LockHolders, UnlinkLock,
           HealReturns, Popen, ApiReady, ApiTimeout
  <2> QED BY <1>2, <2>1, <2>2, <2>3, <2>4, <2>5, <2>6
<1>3. ASSUME NEW c \in Commands, ListenPidsFails(c) \/ PsFails(c)
      PROVE  SignalGood(q)'
  BY <1>0, <1>3 DEF ListenPidsFails, PsFails, Marked
<1>4. ASSUME NEW p \in Processes, Dies(p) \/ Reuse(p)
      PROVE  SignalGood(q)'
  BY <1>0, <1>4 DEF Dies, Reuse, Marked
<1>5. ASSUME NEW d \in Daemons, DaemonLocks(d) \/ DaemonServes(d) \/ DaemonHangs(d)
      PROVE  SignalGood(q)'
  BY <1>0, <1>5 DEF DaemonLocks, DaemonServes, DaemonHangs, Marked
<1>6. CASE UNCHANGED vars
  BY <1>0, <1>6 DEF vars, Marked
<1> QED BY <1>1, <1>2, <1>3, <1>4, <1>5, <1>6 DEF Next

LEMMA RepoStep ==
    ASSUME TypeOK, RepoInv, [Next]_vars
    PROVE  RepoInv'
<1> USE DEF RepoInv, HealGood, Ensuring, Healing, TypeOK, Step, Goto,
            signalling, healing, node, kubo, cli, commandVars, Ends
<1>0. TypeOK /\ RepoInv
  OBVIOUS
<1>1. ASSUME NEW c \in Commands, NEW k \in Kinds, Main(c, k)
      PROVE  RepoInv'
  BY <1>0, <1>1 DEF Main, Kinds
<1>2. ASSUME NEW c \in Commands, Command(c)
      PROVE  RepoInv'
  <2>1. CASE StillListening(c) \/ ListenPids(c) \/ KillDone(c) \/ WaitPort(c)
    BY <1>0, <2>1 DEF StillListening, ListenPids, KillDone, WaitPort,
        Listening
  <2>2. CASE Inspect(c)
    BY <1>0, <2>2 DEF Inspect, Marked, Parent
  <2>3. CASE \E p \in Processes : CheckTarget(c, p)
    BY <1>0, <2>3 DEF CheckTarget
  <2>16. CASE KillTarget(c)
    BY <1>0, <2>16 DEF KillTarget
  <2>4. CASE StopReports(c) \/ StartLooks(c)
    BY <1>0, <2>4 DEF StopReports, StartLooks, Listening
  <2>5. CASE StartOwner(c)
    BY <1>0, <2>5 DEF StartOwner
  <2>6. CASE Bind(c)
    BY <1>0, <2>6 DEF Bind, Listening
  <2>7. CASE StatusFlask(c) \/ StatusStore(c)
    BY <1>0, <2>7 DEF StatusFlask, StatusStore
  <2>8. CASE FirstLook(c)
    <3>1. /\ UNCHANGED <<daemon, holders, doomed>> /\ (~ mixed' => ~ mixed)
          /\ pc[c] = "ready0" /\ pc' = [pc EXCEPT ![c] = IF IsReady THEN "exit0" ELSE "shutdown"]
      BY <2>8 DEF FirstLook
    <3>2. ~ mixed' /\ ~ IsReady => \A e \in Commands \ {c} : ~ Ensuring(e)
      BY <2>8 DEF FirstLook
    <3> QED BY <1>0, <3>1, <3>2
  <2>9. CASE HealLook(c, "ready1", "pids") \/ HealLook(c, "ready2", "lock")
    BY <1>0, <2>9 DEF HealLook
  <2>10. CASE IpfsShutdown(c)
    BY <1>0, <2>10 DEF IpfsShutdown
  <2>11. CASE LockAndDaemonPids(c)
    <3>1. /\ UNCHANGED <<daemon, holders>> /\ (~ mixed' => ~ mixed)
          /\ pc[c] = "pids" /\ pc' = [pc EXCEPT ![c] = "terminate"]
          /\ \A e \in Commands \ {c} : doomed'[e] = doomed[e]
      BY <1>0, <2>11 DEF LockAndDaemonPids
    <3>2. ~ mixed' => \A d \in Daemons : daemon[d] = "starting" => d \in doomed'[c]
      <4>1. CASE doomed' = [doomed EXCEPT ![c] = {d \in Daemons : daemon[d] # "dead"}]
        <5>1. doomed'[c] = {d \in Daemons : daemon[d] # "dead"}
          BY <1>0, <4>1
        <5> QED BY <5>1
      <4>2. CASE mixed' = (mixed \/ \E d \in Daemons : daemon[d] = "starting")
        BY <4>2
      <4> QED BY <2>11, <4>1, <4>2 DEF LockAndDaemonPids
    <3> QED BY <1>0, <3>1, <3>2
  <2>12. CASE TerminatePids(c)
    BY <1>0, <2>12 DEF TerminatePids
  <2>13. CASE LockHolders(c) \/ UnlinkLock(c)
    BY <1>0, <2>13 DEF LockHolders, UnlinkLock
  <2>14. CASE HealReturns(c) \/ ApiReady(c) \/ ApiTimeout(c)
    BY <1>0, <2>14 DEF HealReturns, ApiReady, ApiTimeout
  <2>15. CASE Popen(c)
    BY <1>0, <2>15, FirstIn DEF Popen
  <2> QED BY <1>2, <2>1, <2>2, <2>3, <2>4, <2>5, <2>6, <2>7, <2>8, <2>9,
          <2>10, <2>11, <2>12, <2>13, <2>14, <2>15, <2>16 DEF Command
<1>3. ASSUME NEW c \in Commands, ListenPidsFails(c) \/ PsFails(c)
      PROVE  RepoInv'
  BY <1>0, <1>3 DEF ListenPidsFails, PsFails
<1>4. ASSUME NEW p \in Processes, Dies(p)
      PROVE  RepoInv'
  BY <1>0, <1>4 DEF Dies
<1>7. ASSUME NEW p \in Processes, Reuse(p)
      PROVE  RepoInv'
  BY <1>0, <1>7 DEF Reuse
<1>5. ASSUME NEW d \in Daemons, DaemonLocks(d) \/ DaemonServes(d) \/ DaemonHangs(d)
      PROVE  RepoInv'
  BY <1>0, <1>5 DEF DaemonLocks, DaemonServes, DaemonHangs
<1>6. CASE UNCHANGED vars
  BY <1>0, <1>6 DEF vars
<1> QED BY <1>1, <1>2, <1>3, <1>4, <1>5, <1>6, <1>7 DEF Next

LEMMA HostAlways == Spec => []HostInv
<1>1. HostInv /\ [Next]_vars => HostInv'
  BY HostTypes, HostNode, HostCommands, HostSignals DEF HostInv
<1>2. Init => HostInv
  BY HostInit
<1> QED BY <1>1, <1>2, PTL DEF Spec

------------------------------------------------------------------------------
\* The processes, the commands and the repository stay in their types: a start
\* signals processes only, and an ensure stays within its starts.
THEOREM HostTyped == Spec => []TypeOK
<1>1. HostInv => TypeOK
  BY DEF HostInv
<1> QED BY <1>1, HostAlways, PTL

\* start and stop signal no program without the marker, whatever became of its id
\* before the second ps; what is left is the gap between that ps and the kill.
THEOREM OthersAlwaysSurvive == Spec => OthersSurvive
<1>1. ASSUME HostInv, [Next]_vars, NEW p \in {foreign, shell} \cup reused,
             p \in termed' \ termed
      PROVE  \E c \in late : aim[c] = p
  <2>1. PICK c \in Commands : aim[c] = p
    <3>1. ASSUME NEW c \in Commands, Command(c) PROVE aim[c] = p
      <4>1. CASE KillTarget(c)
        BY <1>1, <4>1 DEF KillTarget
      <4>2. CASE \/ StillListening(c) \/ ListenPids(c) \/ Inspect(c)
                 \/ (\E e \in Processes : CheckTarget(c, e)) \/ KillDone(c)
                 \/ WaitPort(c) \/ StartLooks(c)
        BY <1>1, <4>2 DEF StillListening, ListenPids, Inspect, CheckTarget, KillDone,
           WaitPort, StartLooks, node
      <4>3. CASE \/ StopReports(c) \/ StartOwner(c) \/ Bind(c) \/ StatusFlask(c)
                 \/ StatusStore(c)
        BY <1>1, <4>3 DEF StopReports, StartOwner, Bind, StatusFlask, StatusStore
      <4>4. CASE \/ FirstLook(c) \/ HealLook(c, "ready1", "pids")
                 \/ HealLook(c, "ready2", "lock") \/ IpfsShutdown(c)
                 \/ LockAndDaemonPids(c) \/ TerminatePids(c)
        BY <1>1, <4>4 DEF FirstLook, HealLook, IpfsShutdown, LockAndDaemonPids,
           TerminatePids, cli
      <4>5. CASE \/ LockHolders(c) \/ UnlinkLock(c) \/ HealReturns(c) \/ Popen(c)
                 \/ ApiReady(c) \/ ApiTimeout(c)
        BY <1>1, <4>5 DEF LockHolders, UnlinkLock, HealReturns, Popen, ApiReady,
           ApiTimeout, cli
      <4> QED BY <3>1, <4>1, <4>2, <4>3, <4>4, <4>5 DEF Command
    <3>2. ASSUME NEW c \in Commands,
                 (\E k \in Kinds : Main(c, k)) \/ ListenPidsFails(c) \/ PsFails(c)
          PROVE  termed' = termed
      BY <3>2 DEF Main, ListenPidsFails, PsFails, node
    <3>3. ASSUME NEW e \in Processes, Dies(e) \/ Reuse(e) PROVE termed' \subseteq termed
      BY <3>3 DEF Dies, Reuse
    <3>4. ASSUME NEW d \in Daemons, DaemonLocks(d) \/ DaemonServes(d) \/ DaemonHangs(d)
          PROVE  termed' = termed
      BY <3>4 DEF DaemonLocks, DaemonServes, DaemonHangs, commandVars, node
    <3> QED BY <1>1, <3>1, <3>2, <3>3, <3>4 DEF Next, vars
  <2>2. SignalGood(c) /\ p \notin Marked /\ p # None
    BY <1>1, <2>1, HostAssumption DEF HostInv, Marked, TypeOK, Processes
  <2> QED BY <2>1, <2>2 DEF SignalGood
<1>2. HostInv /\ [Next]_vars =>
        [\A p \in {foreign, shell} \cup reused :
           p \in termed' \ termed => \E c \in late : aim[c] = p]_vars
  BY <1>1
<1> QED BY <1>2, HostAlways, PTL DEF Spec, OthersSurvive

\* The port is whose start and stop say it is.
THEOREM PortsAsReported == Spec => []PortAsReported
<1>1. HostInv => PortAsReported
  BY DEF HostInv, PortGood, CommandGood, PortAsReported
<1> QED BY <1>1, HostAlways, PTL

\* The repository has one daemon at most, unless heals overlapped or a failing
\* probe hid a daemon.
THEOREM RepoHasSoleOwner == Spec => []SoleOwner
<1>1. RepoInv => SoleOwner
  <2> SUFFICES ASSUME RepoInv, ~ mixed
               PROVE  Cardinality({d \in Daemons : daemon[d] \in {"locked", "up"}}) <= 1
    BY DEF SoleOwner
  <2> DEFINE S == {d \in Daemons : daemon[d] \in {"locked", "up"}}
  <2>1. \A d, e \in S : d = e
    BY DEF RepoInv
  <2>2. CASE S = {}
    BY <2>2, FS_EmptySet
  <2>3. ASSUME NEW d \in S PROVE Cardinality(S) <= 1
    <3>1. S = {d}
      BY <2>1, <2>3
    <3>2. Cardinality({d}) = 1
      BY FS_Singleton
    <3> QED BY <3>1, <3>2
  <2> QED BY <2>2, <2>3
<1>2. TypeOK /\ RepoInv /\ [Next]_vars => RepoInv'
  BY RepoStep
<1>3. Init => RepoInv
  BY HostInit
<1> QED BY <1>1, <1>2, <1>3, HostTyped, PTL DEF Spec
==============================================================================
