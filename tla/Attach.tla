-------------------------------- MODULE Attach --------------------------------
(***************************************************************************)
(* How a vibebox that is connected to a manager gets into its guest        *)
(* (src/src/instance.rs, run_with_ssh), and the two files of .vibebox by   *)
(* which it learns of the guest: instance.toml, which vibeboxes, managers  *)
(* and supervisors read and rewrite whole, and status.txt.                 *)
(*                                                                         *)
(* A write of instance.toml is two steps, truncation and data; a load is   *)
(* one.  Of the file the model keeps the session's id, which stands for    *)
(* the password and the user generated with it, and the guest's address.   *)
(* The guest of manager m has the address m: each boot takes a new lease.  *)
(* How a manager gets its socket is module Startup; here it is one step.   *)
(***************************************************************************)
EXTENDS Naturals, FiniteSets

CONSTANTS
  Client,        \* vibeboxes
  Manager,       \* managers, numbered in the order in which they start
  NoFile,        \* nothing at the path, no connection, no manager
  Empty,         \* what a load finds between a truncation and its write
  Garbled,       \* what two writes leave when the longer one is below
  Progress,      \* any content of status.txt that is not an error
  NoIp,          \* vm_ipv4 is None
  Old,           \* the address of a guest of long ago
  MaxIds,        \* bound: ids generated from here on are not told apart
  MaxStops,      \* bound on the number of crashes
  SshRetries     \* SSH_CONNECT_RETRIES

ASSUME ProcessAssumption ==
  /\ IsFiniteSet(Client) /\ IsFiniteSet(Manager) /\ Manager \subseteq Nat
  /\ Client \cap Manager = {}
ASSUME AddressAssumption ==
  /\ NoIp \notin Manager \cup {Old}
  /\ Old \notin Manager
  /\ NoFile \notin Manager /\ Progress \notin Manager
ASSUME ContentAssumption ==
  /\ {NoFile, Empty, Garbled} \cap [id : Nat, ip : Manager \cup {Old, NoIp}] = {}
  /\ Cardinality({NoFile, Empty, Garbled}) = 3
ASSUME BoundAssumption ==
  MaxIds \in Nat /\ MaxStops \in Nat /\ SshRetries \in Nat \ {0}

VARIABLES
  inst,          \* instance.toml
  status,        \* status.txt
  sock,          \* the manager that listens at vm.sock
  proc,          \* proc[p]: a process and what it holds
  lastId,        \* the last id generated
  stopsLeft,     \* how many more crashes there can be
  clean          \* history: no disturbance.  No load met a file that is being
                 \* written, no process died in a write, no write undid
                 \* another's, no two managers started together

vars == <<inst, status, sock, proc, lastId, stopsLeft, clean>>

Process == Client \cup Manager
Config  == [id : 0 .. MaxIds, ip : Manager \cup {Old, NoIp}]
Content == Config \cup {NoFile, Empty, Garbled}

StatusContent == Manager \cup {NoFile, Progress}   \* m: "error:" written by m

Starting == {"touch", "stamp", "load", "clear", "probe"}
Ended    == {"report", "unlink", "lastTouch", "lastStamp", "gone"}
Polling  == {"poll", "check"}
Place    == Starting \cup Ended \cup Polling \cup
            {"idle", "bound", "boot", "publish", "run",
             "first", "found", "giveUp", "again", "ssh", "session"}

(***************************************************************************)
(* A process: where it is, the operation on instance.toml it is about to   *)
(* make there, the configuration it holds, what it last saw in the file or *)
(* gave to it, its connection, its attempts in run_ssh_session.            *)
(***************************************************************************)
State == [at : Place, io : {"none", "read", "truncate", "write"},
          mem : Config \cup {NoFile}, base : Content,
          conn : Manager \cup {NoFile}, attempts : 0 .. SshRetries - 1]

Nothing == [at |-> "idle", io |-> "none", mem |-> NoFile, base |-> NoFile,
            conn |-> NoFile, attempts |-> 0]
Quit    == [Nothing EXCEPT !.at = "gone"]      \* with success or an error

Init ==
  /\ inst \in {NoFile, Empty, Garbled} \cup [id : {0}, ip : {NoIp, Old}]
  /\ status = NoFile
  /\ sock = NoFile
  /\ proc = [p \in Process |-> Nothing]
  /\ lastId = 0
  /\ stopsLeft = MaxStops
  /\ clean = TRUE

At(p, l)     == proc[p].at = l /\ proc[p].io = "none"
Become(p, r) == proc' = [proc EXCEPT ![p] = r]
Go(r, l)     == [r EXCEPT !.at = l, !.io = "none"]
GoDo(r, l, op) == [r EXCEPT !.at = l, !.io = op]

Up(m) == m \in Manager /\ proc[m].at \in {"publish", "run"}

-----------------------------------------------------------------------------
(***************************************************************************)
(* Operations on instance.toml, by whichever process is there.             *)
(***************************************************************************)
\* Mutant of StartConfig: a manager keeps the address of an earlier guest.
StartConfigAsIs(cfg) == cfg

\* run_manager_with forgets the address of an earlier guest.
StartConfig(cfg) == [cfg EXCEPT !.ip = NoIp]

\* load_or_create_instance_config has returned r.mem to the process r: what
\* its caller does next.
Loaded(r) ==
  CASE r.at = "touch"     -> GoDo(r, "stamp", "truncate")
    [] r.at = "load"      -> IF StartConfig(r.mem) = r.mem
                             THEN Go(r, "probe")
                             ELSE GoDo([r EXCEPT !.mem = StartConfig(@)],
                                       "clear", "truncate")
    [] r.at = "lastTouch" -> GoDo(r, "lastStamp", "truncate")
    [] r.at = "first"     -> GoDo(r, "poll", "read")
    [] r.at = "poll"      -> Go(r, IF r.mem.ip # NoIp THEN "found" ELSE "check")
    [] r.at = "again"     -> IF r.mem.ip # NoIp THEN Go(r, "ssh") ELSE Quit

\* write_instance_config, called by the process r itself, has returned.
Stored(r) ==
  CASE r.at = "stamp"     -> GoDo(r, "load", "read")
    [] r.at = "clear"     -> Go(r, "probe")
    [] r.at = "publish"   -> Go(r, "run")
    [] r.at = "lastStamp" -> Quit

\* It could not parse the file.  touch_last_active's errors are ignored.
Refused(r) ==
  CASE r.at = "touch" -> GoDo(r, "load", "read")
    [] r.at = "load"  -> GoDo(r, "lastTouch", "read")
    [] OTHER          -> Quit

LoadCalls == {"touch", "load", "lastTouch", "first", "poll", "again"}

Load(p) ==
  /\ proc[p].io = "read" /\ inst \in Config
  /\ Become(p, Loaded([proc[p] EXCEPT !.mem = inst, !.base = inst]))
  /\ UNCHANGED <<inst, status, sock, lastId, stopsLeft, clean>>

LoadFails(p) ==
  /\ proc[p].io = "read" /\ inst = Garbled
  /\ Become(p, Refused(proc[p]))
  /\ UNCHANGED <<inst, status, sock, lastId, stopsLeft, clean>>

\* Mutant of Incomplete: a configuration without address gets a new id.
IncompleteWithoutAddress ==
  inst \in {NoFile, Empty} \cup [id : 0 .. MaxIds, ip : {NoIp}]

\* There is no file, or it is empty and parses all the same.
Incomplete == inst \in {NoFile, Empty}

\* A new id and a new password, no address.
Create(p) ==
  /\ proc[p].io = "read" /\ Incomplete
  /\ lastId' = IF lastId < MaxIds THEN lastId + 1 ELSE lastId
  /\ Become(p, [proc[p] EXCEPT !.io = "truncate", !.base = inst,
                               !.mem = [id |-> lastId', ip |-> NoIp]])
  /\ clean' = (clean /\ \A q \in Process : proc[q].io # "write")
  /\ UNCHANGED <<inst, status, sock, stopsLeft>>

\* fs::write opens the file with truncation ...
Truncate(p) ==
  /\ proc[p].io = "truncate"
  /\ inst' = Empty
  /\ Become(p, [proc[p] EXCEPT !.io = "write"])
  /\ clean' = (clean /\ inst = proc[p].base)
  /\ UNCHANGED <<status, sock, lastId, stopsLeft>>

\* ... and writes from its beginning, over what others wrote since.
Overwrite(old, new) == IF old = Empty THEN {new} ELSE {new, Garbled}

Write(p) ==
  /\ proc[p].io = "write"
  /\ inst' \in Overwrite(inst, proc[p].mem)
  /\ LET r == [proc[p] EXCEPT !.base = proc[p].mem]
     IN  Become(p, IF r.at \in LoadCalls THEN Loaded(r) ELSE Stored(r))
  /\ clean' = (clean /\ inst = Empty)
  /\ UNCHANGED <<status, sock, lastId, stopsLeft>>

FileStep(p) == Load(p) \/ LoadFails(p) \/ Create(p) \/ Truncate(p) \/ Write(p)

-----------------------------------------------------------------------------
(***************************************************************************)
(* A vibebox.                                                              *)
(***************************************************************************)
\* ensure_manager found nobody to connect to and starts a manager.
StartManager(m) ==
  /\ At(m, "idle") /\ \A n \in Manager : n < m => ~ At(n, "idle")
  /\ \E c \in Client : At(c, "idle")
  /\ sock = NoFile
  /\ LET together == \E n \in Manager : proc[n].at \in Starting
     IN  clean' = (clean /\ ~ together)
  /\ Become(m, GoDo(proc[m], "touch", "read"))
  /\ UNCHANGED <<inst, status, sock, lastId, stopsLeft>>

\* ensure_manager returns a connection, which c keeps to its end.
Connect(c) ==
  /\ At(c, "idle") /\ sock # NoFile
  /\ Become(c, GoDo([proc[c] EXCEPT !.conn = sock], "first", "read"))
  /\ UNCHANGED <<inst, status, sock, lastId, stopsLeft, clean>>

\* Mutant of ReadStatus: an error is news like any other.
ReadStatusIgnoresErrors(c) ==
  /\ At(c, "check")
  /\ Become(c, GoDo(proc[c], "poll", "read"))
  /\ UNCHANGED <<inst, status, sock, lastId, stopsLeft, clean>>

\* Mutant of ReadStatus: the configuration is loaded once, before the loop.
ReadStatusOnly(c) ==
  /\ At(c, "check") /\ status \in Manager
  /\ Become(c, Go(proc[c], "giveUp"))
  /\ UNCHANGED <<inst, status, sock, lastId, stopsLeft, clean>>

\* No address yet: an error in status.txt ends the wait, anything else, and
\* an iteration that is too early for a look at the file, does not.
ReadStatus(c) ==
  /\ At(c, "check")
  /\ Become(c, IF status \in Manager THEN Go(proc[c], "giveUp")
                                     ELSE GoDo(proc[c], "poll", "read"))
  /\ UNCHANGED <<inst, status, sock, lastId, stopsLeft, clean>>

\* 480 s have passed.
WaitTimesOut(c) ==
  /\ At(c, "check")
  /\ Become(c, Go(proc[c], "giveUp"))
  /\ UNCHANGED <<inst, status, sock, lastId, stopsLeft, clean>>

\* wait_for_vm_ipv4 returns, whatever it returns, without status.txt.
RemoveStatus(c) ==
  /\ At(c, "found") \/ At(c, "giveUp")
  /\ status' = NoFile
  /\ Become(c, IF At(c, "found") THEN GoDo(proc[c], "again", "read") ELSE Quit)
  /\ UNCHANGED <<inst, sock, lastId, stopsLeft, clean>>

\* Mutant of AttemptFails: one attempt too many.
AttemptFailsLater(c) ==
  /\ Become(c, IF proc[c].attempts + 1 > SshRetries THEN Quit
               ELSE Go([proc[c] EXCEPT !.attempts = @ + 1], "ssh"))
  /\ UNCHANGED <<inst, status, sock, lastId, stopsLeft, clean>>

\* run_ssh_session: the port is closed, or ssh ends with 255, its own errors.
AttemptFails(c) ==
  /\ Become(c, IF proc[c].attempts + 1 >= SshRetries THEN Quit
               ELSE Go([proc[c] EXCEPT !.attempts = @ + 1], "ssh"))
  /\ UNCHANGED <<inst, status, sock, lastId, stopsLeft, clean>>

SshFails(c) == At(c, "ssh") /\ AttemptFails(c)

\* The guest answers at the address.
SshRuns(c) ==
  /\ At(c, "ssh") /\ Up(proc[c].mem.ip)
  /\ Become(c, Go(proc[c], "session"))
  /\ UNCHANGED <<inst, status, sock, lastId, stopsLeft, clean>>

\* The guest goes away under the session: 255.
SessionLost(c) ==
  /\ At(c, "session") /\ ~ Up(proc[c].mem.ip)
  /\ AttemptFails(c)

\* The user leaves.
SessionEnds(c) ==
  /\ At(c, "session")
  /\ Become(c, Quit)
  /\ UNCHANGED <<inst, status, sock, lastId, stopsLeft, clean>>

ClientStep(c) ==
  FileStep(c) \/ ReadStatus(c) \/ RemoveStatus(c) \/ SshFails(c) \/ SshRuns(c)
              \/ SessionLost(c)

-----------------------------------------------------------------------------
(***************************************************************************)
(* A manager, from the supervisor's main to its end.                       *)
(***************************************************************************)
\* Somebody answers at the socket, or it is bound.
Probe(m) ==
  /\ At(m, "probe")
  /\ sock' = IF sock = NoFile THEN m ELSE sock
  /\ Become(m, IF sock = NoFile THEN Go(proc[m], "bound")
                                ELSE GoDo(proc[m], "lastTouch", "read"))
  /\ UNCHANGED <<inst, status, lastId, stopsLeft, clean>>

\* run_with_args_and_extras says what it is doing; the later messages, up to
\* "vm booting", are the same to a reader.
UpdateStatus(m) ==
  /\ At(m, "bound")
  /\ status' = Progress
  /\ Become(m, Go(proc[m], "boot"))
  /\ UNCHANGED <<inst, sock, lastId, stopsLeft, clean>>

\* Mutant of GuestReports: the address is kept in memory only.
GuestReportsInMemory(m) ==
  /\ At(m, "boot")
  /\ Become(m, Go([proc[m] EXCEPT !.mem.ip = m], "run"))
  /\ UNCHANGED <<inst, status, sock, lastId, stopsLeft, clean>>

\* The console shows VIBEBOX_IPV4 for the first time: the configuration the
\* manager holds is written with it, and never again.
GuestReports(m) ==
  /\ At(m, "boot")
  /\ Become(m, GoDo([proc[m] EXCEPT !.mem.ip = m], "publish", "truncate"))
  /\ UNCHANGED <<inst, status, sock, lastId, stopsLeft, clean>>

\* run_vm returns, with an error or without; StatusFile is dropped.
RunVmReturns(m) ==
  /\ At(m, "boot") \/ At(m, "run")
  /\ status' = NoFile
  /\ Become(m, Go(proc[m], "unlink")) \/ Become(m, Go(proc[m], "report"))
  /\ UNCHANGED <<inst, sock, lastId, stopsLeft, clean>>

ReportError(m) ==
  /\ At(m, "report")
  /\ status' = m
  /\ Become(m, Go(proc[m], "unlink"))
  /\ UNCHANGED <<inst, sock, lastId, stopsLeft, clean>>

\* The socket is removed; the supervisor stamps instance.toml once more.
Unlink(m) ==
  /\ At(m, "unlink")
  /\ sock' = NoFile
  /\ Become(m, GoDo(proc[m], "lastTouch", "read"))
  /\ UNCHANGED <<inst, status, lastId, stopsLeft, clean>>

ManagerStep(m) ==
  FileStep(m) \/ Probe(m) \/ UpdateStatus(m) \/ ReportError(m) \/ Unlink(m)

\* A process is killed or interrupted, in the middle of a write perhaps.
Dies(p) ==
  /\ stopsLeft > 0 /\ stopsLeft' = stopsLeft - 1
  /\ proc[p].at \notin {"idle", "gone"}
  /\ Become(p, Quit)
  /\ sock' = IF sock = p THEN NoFile ELSE sock
  /\ clean' = (clean /\ proc[p].io # "write")
  /\ UNCHANGED <<inst, status, lastId>>

Next ==
  /\ clean             \* behaviours are not followed past a disturbance
  /\ \/ \E c \in Client : Connect(c) \/ ClientStep(c) \/ WaitTimesOut(c)
                           \/ SessionEnds(c) \/ Dies(c)
     \/ \E m \in Manager : StartManager(m) \/ ManagerStep(m) \/ GuestReports(m)
                            \/ RunVmReturns(m) \/ Dies(m)

Spec == Init /\ [][Next]_vars

(***************************************************************************)
(* Every live vibebox runs; the managers need not.  Nothing makes 480 s    *)
(* pass, a user leave or a process die.                                    *)
(***************************************************************************)
FairSpec ==
  Spec /\ \A c \in Client : WF_vars(clean /\ ClientStep(c))

-----------------------------------------------------------------------------
(***************************************************************************)
(* Every variable keeps its type.                                          *)
(***************************************************************************)
TypeOK ==
  /\ inst \in Content
  /\ status \in StatusContent
  /\ sock \in Manager \cup {NoFile}
  /\ proc \in [Process -> State]
  /\ lastId \in 0 .. MaxIds
  /\ stopsLeft \in 0 .. MaxStops
  /\ clean \in BOOLEAN

(***************************************************************************)
(* docs/implementations.md: "A session is represented by a UUID".  Without *)
(* a disturbance every process and the file agree on the identity of the   *)
(* session, and with it on the password the guest was given, whoever       *)
(* created the file or found it empty.                                     *)
(***************************************************************************)
OneIdentity ==
  clean => \A p, q \in Process :
    proc[p].mem # NoFile =>
      /\ proc[q].mem # NoFile => proc[p].mem.id = proc[q].mem.id
      /\ inst \in Config => proc[p].mem.id = inst.id

(***************************************************************************)
(* Without a disturbance a vibebox never tries an address that a guest     *)
(* left behind: it is that of the guest of the manager it is connected to, *)
(* or that manager is over.                                                *)
(***************************************************************************)
NoStaleAddress ==
  clean => \A c \in Client :
    proc[c].at \in {"ssh", "session"} =>
      /\ proc[c].mem.ip \in Manager
      /\ proc[c].mem.ip = proc[c].conn \/ proc[proc[c].conn].at \in Ended

(***************************************************************************)
(* Without a disturbance the address a running guest reported stays in     *)
(* instance.toml, whoever rewrites the file: it is written only once.      *)
(***************************************************************************)
PublishedStays ==
  clean => \A m \in Manager : At(m, "run") => inst = proc[m].mem \/ inst = Empty

\* A guest runs and its manager has written its address.
GuestReady == \E m \in Manager : At(m, "run")

(***************************************************************************)
(* Without a disturbance nobody is left waiting while a guest runs.        *)
(***************************************************************************)
WaiterGetsAddress ==
  \A c \in Client :
    (clean /\ proc[c].at \in Polling /\ GuestReady)
      ~> (proc[c].at \notin Polling \/ ~ GuestReady \/ ~ clean)

(***************************************************************************)
(* An error in status.txt does not stay while a vibebox waits: it reaches  *)
(* this one, or another one removes it first.                              *)
(***************************************************************************)
ErrorEndsAWait ==
  \A c \in Client :
    (clean /\ proc[c].at \in Polling /\ status \in Manager)
      ~> (proc[c].at \notin Polling \/ status \notin Manager \/ ~ clean)

=============================================================================
