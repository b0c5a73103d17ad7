------------------------------- MODULE Startup -------------------------------
(***************************************************************************)
(* How the vibeboxes of one project get a VM manager                       *)
(* (src/src/vm_manager.rs, ensure_manager), and how a manager process gets *)
(* its socket (run_manager, run_manager_with).                             *)
(*                                                                         *)
(* Processes share only files of .vibebox: vm.lock, vm.pid and vm.sock.    *)
(* A file is the value at its path; each action is at most one operation   *)
(* on one file, so every interleaving of the processes is a behaviour.     *)
(* The manager that client c spawns is the manager c.                      *)
(***************************************************************************)
EXTENDS Naturals, FiniteSets

CONSTANTS
  Client,        \* the vibebox processes, and the managers they may spawn
  NoFile,        \* nothing at the path
  MaxStops,      \* bound on the number of faults and of ends of a VM
  Faults         \* what may go wrong, a subset of AllFaults

\* "lockGap": another process runs between the creation of vm.lock and the
\* write of the pid in it.  "timeout": a vibebox waits longer than 10 s.
\* "reinstall": the supervisor's binary is replaced by an unsigned one.
\* "reset": `vibebox reset' is run.  "list": `vibebox list' is run, anywhere.
\* "pidReuse": the pid of a process that has ended is given to another one.
\* "acceptFails": accept fails in a manager that serves.
AllFaults == {"clientDies", "managerDies", "managerFails", "lockGap", "timeout",
              "reinstall", "reset", "list", "pidReuse", "acceptFails"}

ASSUME ClientAssumption == IsFiniteSet(Client)
ASSUME FileAssumption ==
  NoFile \notin Client \cup [by : Client, written : BOOLEAN]
ASSUME FaultAssumption ==
  MaxStops \in Nat /\ Faults \subseteq AllFaults

VARIABLES
  client,      \* client[c]: where c is in ensure_manager
  holds,       \* holds[c]: lock_file.is_some()
  manager,     \* manager[m]: where m is in run_manager
  lock,        \* vm.lock: who created it, and whether its pid is written
  pidFile,     \* vm.pid, likewise
  sock,        \* vm.sock: the manager that bound it
  deaf,        \* the managers whose accept thread has ended, its listener with it
  signed,      \* the supervisor's binary has its entitlement
  lister,      \* whether a `vibebox list' is about to remove vm.pid
  strangers,   \* the processes here whose pid is now that of a stranger
  stopsLeft,   \* how many more stops there can be
  serial       \* history: managers started one after the other, none beside one
               \* that is deaf, and no reset was made under a live one

procs   == <<client, holds, manager, deaf>>
files   == <<lock, pidFile, sock>>
outside == <<signed, lister, strangers>>
vars    == <<procs, files, outside, stopsLeft, serial>>

PidContent == [by : Client, written : BOOLEAN] \cup {NoFile}

ClientDead  == {"failed", "dead", "left"}
ManagerDead == {"none", "exited", "dead", "refusedSelf"}
InEnsure    == {"readPid", "unlinkPid", "fastConnect", "openLock", "writeLock",
                "readLock", "unlinkLock", "spawn", "wait", "unlock", "giveUp"}
Starting    == {"readPid", "unlinkPid", "createPid", "writePid", "sign",
                "probe", "checkSock", "unlinkSock", "bind"}

ClientAlive(c)  == client[c] \notin ClientDead
ManagerAlive(m) == manager[m] \notin ManagerDead

\* The vibebox that spawned a manager does not wait for it: one that ends first
\* is a zombie for as long as that vibebox lives.
Zombie(m) == manager[m] \in ManagerDead \ {"none"} /\ ClientAlive(m)

\* connect(2) reaches the listener whose socket is at the path, if there is one.
Connectable == sock # NoFile /\ ManagerAlive(sock) /\ sock \notin deaf

\* kill(pid, 0) finds the pid read from vm.pid.
PidFileAlive ==
  /\ pidFile # NoFile /\ pidFile.written
  /\ \/ ManagerAlive(pidFile.by) \/ Zombie(pidFile.by)
     \/ <<"manager", pidFile.by>> \in strangers

\* The pid in vm.lock is.
LockOwnerAlive == ClientAlive(lock.by) \/ <<"client", lock.by>> \in strangers

\* Mutant of LockStale: the process that wrote the pid is not looked at.
LockStaleIfEmpty == lock = NoFile \/ ~ lock.written

\* is_lock_stale: no pid in the file, no file, or a dead process.
LockStale == lock = NoFile \/ ~ lock.written \/ ~ LockOwnerAlive

Init ==
  /\ client = [c \in Client |-> "idle"]
  /\ holds = [c \in Client |-> FALSE]
  /\ manager = [m \in Client |-> "none"]
  /\ lock = NoFile
  /\ pidFile = NoFile
  /\ sock = NoFile
  /\ deaf = {}
  /\ signed = FALSE
  /\ lister = "idle"
  /\ strangers = {}
  /\ stopsLeft = MaxStops
  /\ serial = TRUE

-----------------------------------------------------------------------------
(***************************************************************************)
(* A vibebox in ensure_manager.                                            *)
(***************************************************************************)
Goto(c, pc) == client' = [client EXCEPT ![c] = pc]

At(c, pc) == client[c] = pc

Begin(c) ==
  /\ At(c, "idle")
  /\ Goto(c, "readPid")
  /\ UNCHANGED <<holds, manager, deaf, files, outside, stopsLeft, serial>>

\* cleanup_stale_manager reads vm.pid ...
ReadPid(c) ==
  /\ At(c, "readPid")
  /\ Goto(c, IF PidFileAlive THEN "fastConnect" ELSE "unlinkPid")
  /\ UNCHANGED <<holds, manager, deaf, files, outside, stopsLeft, serial>>

\* ... and removes whatever is there by then.
UnlinkPid(c) ==
  /\ At(c, "unlinkPid")
  /\ Goto(c, "fastConnect")
  /\ pidFile' = NoFile
  /\ UNCHANGED <<holds, manager, deaf, lock, sock, outside, stopsLeft, serial>>

FastConnect(c) ==
  /\ At(c, "fastConnect")
  /\ Goto(c, IF Connectable THEN "connected" ELSE "openLock")
  /\ UNCHANGED <<holds, manager, deaf, files, outside, stopsLeft, serial>>

\* Somebody has the lock or is a manager on its way to the socket.
SomebodyStarts ==
  \/ \E c \in Client : holds[c] /\ ClientAlive(c)
  \/ \E m \in Client : manager[m] \in Starting

\* A live manager that nobody can connect to any more.
SomebodyIsDeaf == \E m \in deaf : ManagerAlive(m)

\* acquire_spawn_lock: create_new succeeds.
CreateLock(c) ==
  /\ At(c, "openLock") /\ lock = NoFile
  /\ holds' = [holds EXCEPT ![c] = TRUE]
  /\ serial' = (serial /\ ~ SomebodyStarts /\ ~ SomebodyIsDeaf)
  /\ \/ /\ "lockGap" \in Faults
        /\ lock' = [by |-> c, written |-> FALSE]
        /\ Goto(c, "writeLock")
     \/ /\ lock' = [by |-> c, written |-> TRUE]
        /\ Goto(c, "spawn")
  /\ UNCHANGED <<manager, deaf, pidFile, sock, outside, stopsLeft>>

\* The pid goes to the file c created, wherever that is by now.
WriteLock(c) ==
  /\ At(c, "writeLock")
  /\ lock' = IF lock # NoFile /\ lock.by = c
             THEN [lock EXCEPT !.written = TRUE] ELSE lock
  /\ Goto(c, "spawn")
  /\ UNCHANGED <<holds, manager, deaf, pidFile, sock, outside, stopsLeft, serial>>

\* create_new finds the file there.
LockExists(c) ==
  /\ At(c, "openLock") /\ lock # NoFile
  /\ Goto(c, "readLock")
  /\ UNCHANGED <<holds, manager, deaf, files, outside, stopsLeft, serial>>

ReadLock(c) ==
  /\ At(c, "readLock")
  /\ Goto(c, IF LockStale THEN "unlinkLock" ELSE "wait")
  /\ UNCHANGED <<holds, manager, deaf, files, outside, stopsLeft, serial>>

UnlinkLock(c) ==
  /\ At(c, "unlinkLock")
  /\ lock' = NoFile
  /\ Goto(c, "openLock")
  /\ UNCHANGED <<holds, manager, deaf, pidFile, sock, outside, stopsLeft, serial>>

Spawn(c) ==
  /\ At(c, "spawn")
  /\ manager' = [manager EXCEPT ![c] = "readPid"]
  /\ Goto(c, "wait")
  /\ UNCHANGED <<holds, deaf, files, outside, stopsLeft, serial>>

\* An iteration of the loop that connects.
WaitConnect(c) ==
  /\ At(c, "wait") /\ Connectable
  /\ Goto(c, IF holds[c] THEN "unlock" ELSE "connected")
  /\ UNCHANGED <<holds, manager, deaf, files, outside, stopsLeft, serial>>

\* Something goes wrong.
Stop(fault) ==
  /\ fault \in Faults
  /\ stopsLeft > 0 /\ stopsLeft' = stopsLeft - 1

\* Mutant of WaitTimeout: the error is returned before the lock is released.
WaitTimeoutReturnsFirst(c) ==
  /\ Stop("timeout")
  /\ At(c, "wait") /\ ~ Connectable
  /\ Goto(c, "failed")
  /\ UNCHANGED <<holds, manager, deaf, files, outside, serial>>

WaitTimeout(c) ==
  /\ Stop("timeout")
  /\ At(c, "wait") /\ ~ Connectable
  /\ Goto(c, IF holds[c] THEN "giveUp" ELSE "failed")
  /\ UNCHANGED <<holds, manager, deaf, files, outside, serial>>

\* Mutant of Unlock: the path is removed, the file is kept open.
UnlockKeepsFile(c) ==
  /\ client[c] \in {"unlock", "giveUp"}
  /\ lock' = NoFile
  /\ Goto(c, IF At(c, "unlock") THEN "connected" ELSE "failed")
  /\ UNCHANGED <<holds, manager, deaf, pidFile, sock, outside, stopsLeft, serial>>

\* The lock is released by its path, on success and on timeout.
Unlock(c) ==
  /\ client[c] \in {"unlock", "giveUp"}
  /\ holds' = [holds EXCEPT ![c] = FALSE]
  /\ lock' = NoFile
  /\ Goto(c, IF At(c, "unlock") THEN "connected" ELSE "failed")
  /\ UNCHANGED <<manager, deaf, pidFile, sock, outside, stopsLeft, serial>>

\* The session is over and the vibebox ends.
Leave(c) ==
  /\ At(c, "connected")
  /\ Goto(c, "left")
  /\ UNCHANGED <<holds, manager, deaf, files, outside, stopsLeft, serial>>

ClientStep(c) ==
  \/ ReadPid(c) \/ UnlinkPid(c) \/ FastConnect(c)
  \/ CreateLock(c) \/ WriteLock(c) \/ LockExists(c) \/ ReadLock(c)
  \/ UnlinkLock(c) \/ Spawn(c) \/ WaitConnect(c) \/ Unlock(c)

-----------------------------------------------------------------------------
(***************************************************************************)
(* A manager: ensure_pid_file, ensure_signed, then the socket.             *)
(***************************************************************************)
MGoto(m, pc) == manager' = [manager EXCEPT ![m] = pc]

MAt(m, pc) == manager[m] = pc

\* "vm manager already running": a live pid and a socket at the path.  The
\* pid is its own when it was executed again (Sign) over an old socket.
Refuse(m) ==
  /\ MAt(m, "readPid")
  /\ PidFileAlive /\ sock # NoFile
  /\ MGoto(m, IF pidFile.by = m THEN "refusedSelf" ELSE "exited")
  /\ UNCHANGED <<client, holds, deaf, files, outside, stopsLeft, serial>>

MReadPid(m) ==
  /\ MAt(m, "readPid")
  /\ ~ (PidFileAlive /\ sock # NoFile)
  /\ MGoto(m, "unlinkPid")
  /\ UNCHANGED <<client, holds, deaf, files, outside, stopsLeft, serial>>

MUnlinkPid(m) ==
  /\ MAt(m, "unlinkPid")
  /\ pidFile' = NoFile
  /\ MGoto(m, "createPid")
  /\ UNCHANGED <<client, holds, deaf, lock, sock, outside, stopsLeft, serial>>

\* fs::write opens vm.pid with truncation ...
CreatePid(m) ==
  /\ MAt(m, "createPid")
  /\ pidFile' = [by |-> m, written |-> FALSE]
  /\ MGoto(m, "writePid")
  /\ UNCHANGED <<client, holds, deaf, lock, sock, outside, stopsLeft, serial>>

\* ... and writes to the file it opened, wherever that is by now.
WritePid(m) ==
  /\ MAt(m, "writePid")
  /\ pidFile' = IF pidFile # NoFile /\ pidFile.by = m
                THEN [pidFile EXCEPT !.written = TRUE] ELSE pidFile
  /\ MGoto(m, "sign")
  /\ UNCHANGED <<client, holds, deaf, lock, sock, outside, stopsLeft, serial>>

\* ensure_signed: an unsigned binary is signed and executed again, with the
\* same pid, from the beginning; vm.pid stays.
Sign(m) ==
  /\ MAt(m, "sign")
  /\ signed' = TRUE
  /\ MGoto(m, IF signed THEN "probe" ELSE "readPid")
  /\ UNCHANGED <<client, holds, deaf, files, lister, strangers, stopsLeft, serial>>

\* Mutant of Probe: nobody is asked, a socket that exists is removed.
ProbeNobody(m) ==
  /\ MAt(m, "probe")
  /\ MGoto(m, "checkSock")
  /\ UNCHANGED <<client, holds, deaf, files, outside, stopsLeft, serial>>

\* Somebody else answers at the socket: this manager returns.
Probe(m) ==
  /\ MAt(m, "probe")
  /\ MGoto(m, IF Connectable THEN "dropGuard" ELSE "checkSock")
  /\ UNCHANGED <<client, holds, deaf, files, outside, stopsLeft, serial>>

CheckSock(m) ==
  /\ MAt(m, "checkSock")
  /\ MGoto(m, IF sock # NoFile THEN "unlinkSock" ELSE "bind")
  /\ UNCHANGED <<client, holds, deaf, files, outside, stopsLeft, serial>>

UnlinkSock(m) ==
  /\ MAt(m, "unlinkSock")
  /\ sock' = NoFile
  /\ MGoto(m, "bind")
  /\ UNCHANGED <<client, holds, deaf, lock, pidFile, outside, stopsLeft, serial>>

\* bind fails when a socket appeared since.
Bind(m) ==
  /\ MAt(m, "bind")
  /\ IF sock = NoFile THEN sock' = m /\ MGoto(m, "serving")
                      ELSE UNCHANGED sock /\ MGoto(m, "dropGuard")
  /\ UNCHANGED <<client, holds, deaf, lock, pidFile, outside, stopsLeft, serial>>

\* accept fails: its thread ends and drops the listener; all else goes on.
AcceptFails(m) ==
  /\ Stop("acceptFails")
  /\ MAt(m, "serving") /\ m \notin deaf
  /\ deaf' = deaf \cup {m}
  /\ serial' = (serial /\ ~ SomebodyStarts)
  /\ UNCHANGED <<client, holds, manager, files, outside>>

\* run_vm has returned and the event loop is joined (module VmManager).
VmEnds(m) ==
  /\ stopsLeft > 0 /\ stopsLeft' = stopsLeft - 1
  /\ MAt(m, "serving")
  /\ MGoto(m, "unlinkOwnSock")
  /\ UNCHANGED <<client, holds, deaf, files, outside, serial>>

UnlinkOwnSock(m) ==
  /\ MAt(m, "unlinkOwnSock")
  /\ sock' = NoFile
  /\ MGoto(m, "dropGuard")
  /\ UNCHANGED <<client, holds, deaf, lock, pidFile, outside, stopsLeft, serial>>

\* PidFileGuard is dropped: vm.pid is removed, whoever wrote it.
DropGuard(m) ==
  /\ MAt(m, "dropGuard")
  /\ pidFile' = NoFile
  /\ MGoto(m, "exited")
  /\ UNCHANGED <<client, holds, deaf, lock, sock, outside, stopsLeft, serial>>

ManagerStep(m) ==
  \/ Refuse(m) \/ MReadPid(m) \/ MUnlinkPid(m) \/ CreatePid(m) \/ WritePid(m)
  \/ Sign(m) \/ Probe(m) \/ CheckSock(m) \/ UnlinkSock(m) \/ Bind(m)
  \/ UnlinkOwnSock(m) \/ DropGuard(m)

-----------------------------------------------------------------------------
(***************************************************************************)
(* What goes wrong.                                                        *)
(***************************************************************************)
\* A vibebox is interrupted or its spawn fails: it ends without releasing.
ClientDies(c) ==
  /\ Stop("clientDies")
  /\ client[c] \in InEnsure
  /\ Goto(c, "dead")
  /\ UNCHANGED <<holds, manager, deaf, files, outside, serial>>

\* A manager is killed, or calls force_exit.
ManagerDies(m) ==
  /\ Stop("managerDies")
  /\ ManagerAlive(m)
  /\ MGoto(m, "dead")
  /\ UNCHANGED <<client, holds, deaf, files, outside, serial>>

\* Keys, configuration, mounts: an error before the socket drops the guard.
ManagerFails(m) ==
  /\ Stop("managerFails")
  /\ MAt(m, "probe")
  /\ MGoto(m, "dropGuard")
  /\ UNCHANGED <<client, holds, deaf, files, outside, serial>>

Reinstall ==
  /\ Stop("reinstall")
  /\ signed' = FALSE
  /\ UNCHANGED <<procs, files, lister, strangers, serial>>

\* clean_project removes .vibebox without asking whether a manager runs; the
\* removal of its files is taken as one step.
Reset ==
  /\ Stop("reset")
  /\ lock' = NoFile /\ pidFile' = NoFile /\ sock' = NoFile
  /\ serial' = (serial /\ \A m \in Client : ~ ManagerAlive(m))
  /\ UNCHANGED <<procs, outside>>

\* Another process gets the pid of one that has ended, and was waited for, and
\* left it in a file ...
PidReused(c) ==
  /\ Stop("pidReuse")
  /\ \/ /\ client[c] \in ClientDead /\ lock # NoFile /\ lock.by = c
        /\ strangers' = strangers \cup {<<"client", c>>}
     \/ /\ manager[c] \in ManagerDead /\ ~ Zombie(c) /\ pidFile # NoFile /\ pidFile.by = c
        /\ strangers' = strangers \cup {<<"manager", c>>}
  /\ UNCHANGED <<procs, files, signed, lister, serial>>

\* ... and ends.
StrangerEnds ==
  /\ \E s \in strangers : strangers' = strangers \ {s}
  /\ UNCHANGED <<procs, files, signed, lister, stopsLeft, serial>>

\* is_session_active, for the project's record in the list: a vm.pid without
\* the pid of a live process ...
ListReadsPid ==
  /\ "list" \in Faults
  /\ lister = "idle" /\ ~ PidFileAlive
  /\ lister' = "remove"
  /\ UNCHANGED <<procs, files, signed, strangers, stopsLeft, serial>>

\* ... is removed, whatever it is by then.
ListRemovesPid ==
  /\ lister = "remove" /\ lister' = "idle"
  /\ pidFile' = NoFile
  /\ UNCHANGED <<procs, lock, sock, signed, strangers, stopsLeft, serial>>

Next ==
  \/ Reinstall \/ Reset \/ StrangerEnds \/ ListReadsPid \/ ListRemovesPid
  \/ \E c \in Client : PidReused(c)
  \/ \E c \in Client :
       Begin(c) \/ ClientStep(c) \/ WaitTimeout(c) \/ Leave(c) \/ ClientDies(c)
  \/ \E m \in Client :
       \/ ManagerStep(m) \/ AcceptFails(m) \/ VmEnds(m)
       \/ ManagerDies(m) \/ ManagerFails(m)

Spec == Init /\ [][Next]_vars

(***************************************************************************)
(* Every live process runs.  Nothing makes a vibebox start or leave, a VM  *)
(* end, or a fault happen.                                                 *)
(***************************************************************************)
FairSpec ==
  /\ Spec
  /\ \A c \in Client : WF_vars(ClientStep(c)) /\ WF_vars(ManagerStep(c))

-----------------------------------------------------------------------------
(***************************************************************************)
(* Every variable keeps its type, and the open lock file exists only in a  *)
(* vibebox that is between acquire_spawn_lock and the end of its wait.     *)
(***************************************************************************)
TypeOK ==
  /\ client \in [Client -> InEnsure \cup ClientDead \cup {"idle", "connected"}]
  /\ holds \in [Client -> BOOLEAN]
  /\ \A c \in Client : holds[c] =>
       client[c] \in {"writeLock", "spawn", "wait", "unlock", "giveUp", "dead"}
  /\ manager \in [Client -> Starting \cup ManagerDead
                              \cup {"serving", "unlinkOwnSock", "dropGuard"}]
  /\ lock \in PidContent
  /\ pidFile \in PidContent
  /\ sock \in Client \cup {NoFile}
  /\ deaf \subseteq Client
  /\ signed \in BOOLEAN
  /\ lister \in {"idle", "remove"}
  /\ strangers \subseteq {"client", "manager"} \X Client
  /\ stopsLeft \in 0 .. MaxStops
  /\ serial \in BOOLEAN

Serving == {m \in Client : manager[m] = "serving"}

(***************************************************************************)
(* docs/tasks.md: "use vm.lock to ensure process concurrency safety".  The *)
(* managers of one project share instance.raw, so at most one runs a VM.   *)
(* docs/implementations.md: "a directory can only have a single session".  *)
(***************************************************************************)
AtMostOneVm == \A m, n \in Serving : m = n

(***************************************************************************)
(* As long as managers start one after the other, none of them beside a    *)
(* live manager whose accept has failed, and .vibebox is reset only        *)
(* between sessions, at most one manager runs a VM and it owns the socket, *)
(* whatever the rest does: vibeboxes that die with the lock, managers      *)
(* killed at any point, a predecessor that is still ending, one that no    *)
(* longer accepts, or a `vibebox list', that removes the vm.pid of a live  *)
(* manager.                                                                *)
(***************************************************************************)
SerialStartsShareOneVm ==
  serial => AtMostOneVm /\ \A m \in Serving : sock = m

(***************************************************************************)
(* A vibebox that got through ensure_manager, or gave up, leaves no lock   *)
(* behind: the lock at the path is that of a vibebox still inside, or of   *)
(* one that died there.                                                    *)
(***************************************************************************)
NoForgottenLock == lock # NoFile => client[lock.by] \in InEnsure \cup {"dead"}

Alone(c) ==
  \A d \in Client \ {c} : client[d] \notin InEnsure \cup {"idle"}

(***************************************************************************)
(* Whatever files earlier crashes left, and while managers they left are   *)
(* still starting or ending, a vibebox that is alone gets connected, as    *)
(* long as managers start one after the other, none beside one that is     *)
(* deaf, and .vibebox is not reset under a live one.  What vm.pid tells    *)
(* has to be true: no pid in a file is by now a stranger's, nor that of a  *)
(* zombie, a manager that was killed under a vibebox that is still there.  *)
(* The one exception left is the error "vm manager already running (pid    *)
(* N)" of ensure_pid_file where N is the manager itself, executed again by *)
(* ensure_signed while a socket of a crash was there.                      *)
(***************************************************************************)
PidFileTells == strangers = {} /\ (pidFile # NoFile => ~ Zombie(pidFile.by))

LoneClientRecovers ==
  \A c \in Client :
    (/\ serial /\ stopsLeft = 0 /\ PidFileTells
     /\ client[c] = "readPid" /\ Alone(c))
      ~> (client[c] = "connected" \/ ~ serial
            \/ \E m \in Client : manager[m] = "refusedSelf")

=============================================================================
