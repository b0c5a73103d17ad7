---------------------------- MODULE StartupProofs ----------------------------
(***************************************************************************)
(* The safety of Startup for every number of vibeboxes and of faults.      *)
(***************************************************************************)
EXTENDS Startup, TLAPS

(***************************************************************************)
(* Type correctness.                                                       *)
(***************************************************************************)
LEMMA InitType == Init => TypeOK
<1> SUFFICES ASSUME Init PROVE TypeOK
  OBVIOUS
<1>1. signed \in BOOLEAN /\ serial \in BOOLEAN
  BY Zenon DEF Init
<1>2. holds \in [Client -> BOOLEAN] /\ \A c \in Client : ~ holds[c]
  BY DEF Init
<1> QED
  BY <1>1, <1>2, FaultAssumption
  DEF Init, TypeOK, PidContent, ManagerDead, Starting

\* A fault uses up one of the stops that are left.
LEMMA StopType ==
  ASSUME stopsLeft \in 0 .. MaxStops, NEW fault, Stop(fault)
  PROVE  stopsLeft' \in 0 .. MaxStops
  BY FaultAssumption DEF Stop

\* A pid file with a writer is a record; writing the pid keeps it one.
LEMMA WrittenType ==
  ASSUME NEW f \in PidContent, NEW c \in Client, f # NoFile
  PROVE  [f EXCEPT !.written = TRUE] \in PidContent
  BY DEF PidContent

LEMMA RecordType ==
  ASSUME NEW c \in Client, NEW w \in BOOLEAN
  PROVE  [by |-> c, written |-> w] \in PidContent
  BY DEF PidContent

LEMMA NextType == TypeOK /\ [Next]_vars => TypeOK'
<1> SUFFICES ASSUME TypeOK, [Next]_vars PROVE TypeOK'
  OBVIOUS
<1> USE DEF TypeOK, procs, files, outside
<1>e. /\ InEnsure = {"readPid", "unlinkPid", "fastConnect", "openLock",
                     "writeLock", "readLock", "unlinkLock", "spawn", "wait",
                     "unlock", "giveUp"}
      /\ ClientDead = {"failed", "dead", "left"}
  BY DEF InEnsure, ClientDead
<1>m. /\ Starting = {"readPid", "unlinkPid", "createPid", "writePid", "sign",
                     "probe", "checkSock", "unlinkSock", "bind"}
      /\ ManagerDead = {"none", "exited", "dead", "refusedSelf"}
  BY DEF Starting, ManagerDead
<1>1. ASSUME NEW c \in Client,
             Begin(c) \/ ClientStep(c) \/ WaitTimeout(c) \/ Leave(c)
               \/ ClientDies(c)
      PROVE  TypeOK'
  <2>1. CASE Begin(c) \/ ReadPid(c) \/ FastConnect(c) \/ LockExists(c)
             \/ ReadLock(c) \/ Leave(c) \/ WaitConnect(c)
    BY <2>1, <1>e
    DEF Begin, ReadPid, FastConnect, LockExists, ReadLock, Leave, WaitConnect,
        Goto, At
  <2>2. CASE UnlinkPid(c) \/ UnlinkLock(c)
    <3>1. pidFile' \in PidContent /\ lock' \in PidContent
      BY <2>2 DEF UnlinkPid, UnlinkLock, PidContent
    <3> QED
      BY <2>2, <3>1, <1>e DEF UnlinkPid, UnlinkLock, Goto, At
  <2>3. CASE CreateLock(c)
    <3>1. serial' \in BOOLEAN
      BY <2>3, Zenon DEF CreateLock
    <3>2. lock' \in PidContent
      BY <2>3, RecordType DEF CreateLock
    <3> QED
      BY <2>3, <3>1, <3>2, <1>e DEF CreateLock, Goto, At
  <2>4. CASE WriteLock(c)
    <3>1. lock' \in PidContent
      BY <2>4, WrittenType DEF WriteLock
    <3> QED
      BY <2>4, <3>1, <1>e DEF WriteLock, Goto, At
  <2>5. CASE Spawn(c)
    BY <2>5, <1>e, <1>m DEF Spawn, Goto, At
  <2>6. CASE Unlock(c)
    BY <2>6, <1>e DEF Unlock, Goto, At, PidContent
  <2>7. CASE WaitTimeout(c) \/ ClientDies(c)
    <3>1. stopsLeft' \in 0 .. MaxStops
      BY <2>7, StopType DEF WaitTimeout, ClientDies
    <3> QED
      BY <2>7, <3>1, <1>e DEF WaitTimeout, ClientDies, Goto, At
  <2> QED
    BY <1>1, <2>1, <2>2, <2>3, <2>4, <2>5, <2>6, <2>7 DEF ClientStep
<1>2. ASSUME NEW m \in Client,
             \/ ManagerStep(m) \/ AcceptFails(m) \/ VmEnds(m)
             \/ ManagerDies(m) \/ ManagerFails(m)
      PROVE  TypeOK'
  <2>1. CASE Refuse(m) \/ MReadPid(m) \/ Probe(m) \/ CheckSock(m)
    BY <2>1, <1>m DEF Refuse, MReadPid, Probe, CheckSock, MGoto, MAt
  <2>2. CASE MUnlinkPid(m) \/ CreatePid(m) \/ DropGuard(m)
    <3>1. NoFile \in PidContent
      BY DEF PidContent
    <3>2. pidFile' \in PidContent
      BY <2>2, <3>1, RecordType DEF MUnlinkPid, CreatePid, DropGuard
    <3> QED
      BY <2>2, <3>2, <1>m DEF MUnlinkPid, CreatePid, DropGuard, MGoto, MAt
  <2>3. CASE WritePid(m)
    <3>1. pidFile' \in PidContent
      BY <2>3, WrittenType DEF WritePid
    <3> QED
      BY <2>3, <3>1, <1>m DEF WritePid, MGoto, MAt
  <2>4. CASE Sign(m)
    <3>1. signed' \in BOOLEAN
      BY <2>4, Zenon DEF Sign
    <3> QED
      BY <2>4, <3>1, <1>m DEF Sign, MGoto, MAt
  <2>5. CASE UnlinkSock(m) \/ UnlinkOwnSock(m) \/ Bind(m)
    BY <2>5, <1>m DEF UnlinkSock, UnlinkOwnSock, Bind, MGoto, MAt
  <2>6. CASE ManagerDies(m) \/ ManagerFails(m)
    <3>1. stopsLeft' \in 0 .. MaxStops
      BY <2>6, StopType DEF ManagerDies, ManagerFails
    <3> QED
      BY <2>6, <3>1, <1>m DEF ManagerDies, ManagerFails, MGoto, MAt
  <2>7. CASE VmEnds(m)
    BY <2>7, <1>m, FaultAssumption DEF VmEnds, MGoto, MAt
  <2>8. CASE AcceptFails(m)
    <3>1. serial' \in BOOLEAN
      BY <2>8, Zenon DEF AcceptFails
    <3>2. stopsLeft' \in 0 .. MaxStops
      BY <2>8, StopType DEF AcceptFails
    <3> QED
      BY <2>8, <3>1, <3>2 DEF AcceptFails
  <2> QED
    BY <1>2, <2>1, <2>2, <2>3, <2>4, <2>5, <2>6, <2>7, <2>8 DEF ManagerStep
<1>3. CASE Reinstall
  <2>1. signed' \in BOOLEAN
    BY <1>3, Zenon DEF Reinstall
  <2> QED
    BY <1>3, <2>1, StopType DEF Reinstall
<1>4. CASE Reset
  <2>1. serial' \in BOOLEAN
    BY <1>4, Zenon DEF Reset
  <2> QED
    BY <1>4, <2>1, StopType DEF Reset, PidContent
<1>5. ASSUME NEW c \in Client, PidReused(c) PROVE TypeOK'
  BY <1>5, StopType DEF PidReused
<1>6. CASE StrangerEnds \/ ListReadsPid \/ ListRemovesPid
  BY <1>6 DEF StrangerEnds, ListReadsPid, ListRemovesPid, PidContent
<1>7. CASE UNCHANGED vars
  BY <1>7 DEF vars
<1> QED
  BY <1>1, <1>2, <1>3, <1>4, <1>5, <1>6, <1>7 DEF Next

(***************************************************************************)
(* Every variable keeps its type, and the open lock file exists only in a  *)
(* vibebox between acquire_spawn_lock and the end of its wait.             *)
(***************************************************************************)
THEOREM StartupTypeCorrect == Spec => []TypeOK
  BY InitType, NextType, PTL DEF Spec

-----------------------------------------------------------------------------
(***************************************************************************)
(* The lock at the path.  Whoever created it still has the file open, or   *)
(* died with it: nobody leaves ensure_manager with the file open.          *)
(***************************************************************************)
LockIsHeld == lock # NoFile => holds[lock.by]

LEMMA NextLock == TypeOK /\ LockIsHeld /\ [Next]_vars => LockIsHeld'
<1> SUFFICES ASSUME TypeOK, LockIsHeld, [Next]_vars, lock' # NoFile
             PROVE  holds'[lock'.by]
  BY DEF LockIsHeld
<1> USE DEF procs, files
<1>t. /\ holds \in [Client -> BOOLEAN]
      /\ lock # NoFile => lock.by \in Client
  BY DEF TypeOK, PidContent
<1>1. ASSUME NEW c \in Client, CreateLock(c)
      PROVE  holds'[lock'.by]
  BY <1>1, <1>t DEF CreateLock
<1>2. ASSUME NEW c \in Client, WriteLock(c)
      PROVE  holds'[lock'.by]
  <2>1. lock # NoFile /\ lock'.by = lock.by /\ holds' = holds
    BY <1>2 DEF WriteLock, TypeOK, PidContent
  <2> QED
    BY <2>1 DEF LockIsHeld
<1>3. ASSUME NEW c \in Client,
             UnlinkLock(c) \/ Unlock(c)
      PROVE  FALSE
  BY <1>3 DEF UnlinkLock, Unlock
<1>4. ASSUME NEW c \in Client,
             \/ Begin(c) \/ ReadPid(c) \/ UnlinkPid(c) \/ FastConnect(c)
             \/ LockExists(c) \/ ReadLock(c) \/ Spawn(c) \/ WaitConnect(c)
             \/ WaitTimeout(c) \/ Leave(c) \/ ClientDies(c)
             \/ ManagerStep(c) \/ AcceptFails(c) \/ VmEnds(c)
             \/ ManagerDies(c) \/ ManagerFails(c) \/ PidReused(c)
      PROVE  UNCHANGED <<lock, holds>>
  BY <1>4
  DEF Begin, ReadPid, UnlinkPid, FastConnect, LockExists, ReadLock, Spawn,
      WaitConnect, WaitTimeout, Leave, ClientDies, ManagerStep, Refuse,
      MReadPid, MUnlinkPid, CreatePid, WritePid, Sign, Probe, CheckSock,
      UnlinkSock, Bind, UnlinkOwnSock, DropGuard, AcceptFails, VmEnds,
      ManagerDies, ManagerFails, PidReused
<1>5. CASE Reinstall \/ Reset \/ StrangerEnds \/ ListReadsPid
             \/ ListRemovesPid \/ UNCHANGED vars
  BY <1>5
  DEF Reinstall, Reset, StrangerEnds, ListReadsPid, ListRemovesPid,
      LockIsHeld, vars
<1> QED
  BY <1>1, <1>2, <1>3, <1>4, <1>5 DEF Next, ClientStep, LockIsHeld

(***************************************************************************)
(* No vibebox that got through ensure_manager, or gave up, leaves its lock *)
(* behind (acquire_spawn_lock, ensure_manager): its file is removed before *)
(* the function returns, or by somebody else.                              *)
(***************************************************************************)
THEOREM NoLockForgotten == Spec => []NoForgottenLock
<1>1. Init => LockIsHeld
  BY DEF Init, LockIsHeld
<1>2. TypeOK /\ LockIsHeld => NoForgottenLock
  BY DEF TypeOK, PidContent, LockIsHeld, NoForgottenLock, InEnsure
<1> QED
  BY <1>1, <1>2, NextLock, StartupTypeCorrect, PTL DEF Spec

-----------------------------------------------------------------------------
(***************************************************************************)
(* Managers that start one after the other.  At most one vibebox, with its *)
(* manager, is on the way to the socket; a manager with a VM, or one that  *)
(* has yet to remove its socket, has the socket, and listens to it as long *)
(* as somebody is on the way; and when a manager that found nobody at the  *)
(* socket is about to take it, nobody has it.                              *)
(***************************************************************************)
Starter(c) == (holds[c] /\ ClientAlive(c)) \/ manager[c] \in Starting

Owner(m) == manager[m] \in {"serving", "unlinkOwnSock"}

LockersHold ==
  \A c \in Client : client[c] \in {"writeLock", "spawn"} => holds[c]

\* Before its vibebox has spawned it there is no manager.
NoneYet ==
  \A c \in Client :
    client[c] \in {"idle", "readPid", "unlinkPid", "fastConnect", "openLock",
                   "writeLock", "readLock", "unlinkLock", "spawn"}
      => manager[c] = "none"

DeafHaveServed == \A m \in deaf : manager[m] \notin Starting \cup {"none"}

OneStarter == \A c, d \in Client : Starter(c) /\ Starter(d) => c = d

OwnersHaveSock == \A m \in Client : Owner(m) => sock = m

OwnersListen == \A c \in Client, m \in deaf : Starter(c) => ~ Owner(m)

PathIsFree ==
  \A m, n \in Client :
    manager[m] \in {"checkSock", "unlinkSock", "bind"} => ~ Owner(n)

SerialInv ==
  /\ LockersHold /\ NoneYet /\ DeafHaveServed
  /\ serial => OneStarter /\ OwnersHaveSock /\ OwnersListen /\ PathIsFree

\* The steps of a vibebox leave the managers and the socket alone, but for
\* the start of its own manager.
LEMMA ClientSerial ==
  ASSUME TypeOK, SerialInv, NEW c \in Client,
         \/ Begin(c) \/ ClientStep(c) \/ WaitTimeout(c) \/ Leave(c)
         \/ ClientDies(c)
  PROVE  SerialInv'
<1> USE DEF procs, files, At
<1>t. /\ client \in [Client -> InEnsure \cup ClientDead \cup {"idle", "connected"}]
      /\ holds \in [Client -> BOOLEAN]
      /\ manager \in [Client -> Starting \cup ManagerDead
                                \cup {"serving", "unlinkOwnSock", "dropGuard"}]
      /\ deaf \subseteq Client
  BY DEF TypeOK
<1>i. LockersHold /\ NoneYet /\ DeafHaveServed
  BY DEF SerialInv
<1>1. CASE CreateLock(c)
  <2>1. LockersHold'
    BY <1>1, <1>t, <1>i DEF CreateLock, Goto, LockersHold
  <2>2. NoneYet' /\ DeafHaveServed'
    BY <1>1, <1>t, <1>i DEF CreateLock, Goto, NoneYet, DeafHaveServed
  <2>3. ASSUME serial' PROVE OneStarter'
    <3>1. \A d \in Client : ~ Starter(d)
      BY <1>1, <2>3, Zenon DEF CreateLock, SomebodyStarts, Starter
    <3>2. \A d \in Client : Starter(d)' => d = c
      BY <1>1, <3>1, <1>t DEF CreateLock, Goto, Starter, ClientAlive
    <3> QED
      BY <3>2, Zenon DEF OneStarter
  <2>4. serial' => serial /\ ~ SomebodyIsDeaf
    BY <1>1, Zenon DEF CreateLock
  <2>5. UNCHANGED <<manager, sock, deaf>>
    BY <1>1 DEF CreateLock
  <2>6. ASSUME serial' PROVE OwnersListen'
    <3>1. \A m \in deaf : ~ Owner(m)
      BY <2>4, <2>6 DEF SomebodyIsDeaf, ManagerAlive, ManagerDead, Owner
    <3> QED
      BY <2>5, <3>1 DEF OwnersListen, Owner
  <2>7. serial' => OwnersHaveSock' /\ PathIsFree'
    BY <2>4, <2>5 DEF SerialInv, OwnersHaveSock, PathIsFree, Owner
  <2> QED
    BY <2>1, <2>2, <2>3, <2>6, <2>7 DEF SerialInv
<1>2. CASE Spawn(c)
  <2>1. Starter(c)
    BY <1>2, <1>t, <1>i
    DEF Spawn, LockersHold, Starter, ClientAlive, ClientDead
  <2>2. LockersHold'
    BY <1>2, <1>t, <1>i DEF Spawn, Goto, LockersHold
  <2>3. \A d \in Client : Starter(d)' => Starter(d) \/ d = c
    BY <1>2, <1>t DEF Spawn, Goto, Starter, ClientAlive
  <2>4. \A m \in Client :
          /\ Owner(m)' => Owner(m)
          /\ manager'[m] \in {"checkSock", "unlinkSock", "bind"}
               => manager[m] \in {"checkSock", "unlinkSock", "bind"}
    BY <1>2, <1>t DEF Spawn, Owner
  <2>5. UNCHANGED <<sock, serial, deaf>>
    BY <1>2 DEF Spawn
  <2>6. NoneYet'
    BY <1>2, <1>t, <1>i DEF Spawn, Goto, NoneYet
  <2>7. manager[c] = "none"
    BY <1>2, <1>i DEF Spawn, NoneYet
  <2>8. DeafHaveServed'
    BY <1>2, <1>t, <1>i, <2>7 DEF Spawn, DeafHaveServed
  <2>9. serial => OneStarter' /\ OwnersListen'
    BY <2>1, <2>3, <2>4, <2>5, <1>t DEF SerialInv, OneStarter, OwnersListen
  <2> QED
    BY <2>2, <2>4, <2>5, <2>6, <2>8, <2>9
    DEF SerialInv, OwnersHaveSock, PathIsFree
<1>3. CASE \/ Begin(c) \/ ReadPid(c) \/ UnlinkPid(c) \/ FastConnect(c)
           \/ WriteLock(c) \/ LockExists(c) \/ ReadLock(c) \/ UnlinkLock(c)
           \/ WaitConnect(c) \/ Unlock(c) \/ WaitTimeout(c) \/ Leave(c)
           \/ ClientDies(c)
  <2>1. UNCHANGED <<manager, sock, serial, deaf>>
    BY <1>3
    DEF Begin, ReadPid, UnlinkPid, FastConnect, WriteLock, LockExists,
        ReadLock, UnlinkLock, WaitConnect, Unlock, WaitTimeout, Leave,
        ClientDies
  <2>2. \A d \in Client : Starter(d)' => Starter(d)
    BY <1>3, <1>t
    DEF Begin, ReadPid, UnlinkPid, FastConnect, WriteLock, LockExists,
        ReadLock, UnlinkLock, WaitConnect, Unlock, WaitTimeout, Leave,
        ClientDies, Goto, Starter, ClientAlive, ClientDead, InEnsure
  <2>3. LockersHold'
    BY <1>3, <1>t, <1>i
    DEF Begin, ReadPid, UnlinkPid, FastConnect, WriteLock, LockExists,
        ReadLock, UnlinkLock, WaitConnect, Unlock, WaitTimeout, Leave,
        ClientDies, Goto, LockersHold
  <2>4. NoneYet' /\ DeafHaveServed'
    BY <1>3, <1>t, <1>i, <2>1
    DEF Begin, ReadPid, UnlinkPid, FastConnect, WriteLock, LockExists,
        ReadLock, UnlinkLock, WaitConnect, Unlock, WaitTimeout, Leave,
        ClientDies, Goto, NoneYet, DeafHaveServed
  <2> QED
    BY <2>1, <2>2, <2>3, <2>4
    DEF SerialInv, OneStarter, OwnersHaveSock, OwnersListen, PathIsFree, Owner
<1> QED
  BY <1>1, <1>2, <1>3 DEF ClientStep

\* An accept thread that ends while somebody is on the way ends the order.
LEMMA AcceptSerial ==
  ASSUME TypeOK, SerialInv, NEW m \in Client, AcceptFails(m)
  PROVE  SerialInv'
<1>1. /\ UNCHANGED <<client, holds, manager, sock>>
      /\ deaf' = deaf \cup {m} /\ manager[m] = "serving"
  BY DEF AcceptFails, MAt, files
<1>2. serial' => serial /\ ~ SomebodyStarts
  BY Zenon DEF AcceptFails
<1>3. LockersHold' /\ NoneYet' /\ DeafHaveServed'
  BY <1>1 DEF SerialInv, LockersHold, NoneYet, DeafHaveServed, Starting
<1>4. ASSUME serial' PROVE \A c \in Client : ~ Starter(c)'
  <2>1. \A c \in Client : ~ Starter(c)
    BY <1>2, <1>4, Zenon DEF SomebodyStarts, Starter
  <2> QED
    BY <1>1, <2>1 DEF Starter, ClientAlive
<1>5. serial' => OneStarter' /\ OwnersListen'
  BY <1>4, Zenon DEF OneStarter, OwnersListen
<1>6. serial' => OwnersHaveSock' /\ PathIsFree'
  BY <1>1, <1>2 DEF SerialInv, OwnersHaveSock, PathIsFree, Owner
<1> QED
  BY <1>3, <1>5, <1>6 DEF SerialInv

\* The steps of a manager: only the one starter takes the socket, and only
\* its owner gives it up.
LEMMA ManagerSerial ==
  ASSUME TypeOK, SerialInv, NEW m \in Client,
         ManagerStep(m) \/ VmEnds(m) \/ ManagerDies(m) \/ ManagerFails(m)
  PROVE  SerialInv'
<1> USE DEF procs, files, MAt
<1>t. /\ manager \in [Client -> Starting \cup ManagerDead
                             \cup {"serving", "unlinkOwnSock", "dropGuard"}]
      /\ deaf \subseteq Client
  BY DEF TypeOK
<1>c. UNCHANGED <<client, holds, deaf, serial>>
  BY DEF ManagerStep, Refuse, MReadPid, MUnlinkPid, CreatePid, WritePid, Sign,
         Probe, CheckSock, UnlinkSock, Bind, UnlinkOwnSock, DropGuard, VmEnds,
         ManagerDies, ManagerFails
<1>n. LockersHold'
  BY <1>c DEF SerialInv, LockersHold
<1>o. \A n \in Client : n # m => manager'[n] = manager[n]
  BY <1>t
  DEF ManagerStep, Refuse, MReadPid, MUnlinkPid, CreatePid, WritePid, Sign,
      Probe, CheckSock, UnlinkSock, Bind, UnlinkOwnSock, DropGuard, VmEnds,
      ManagerDies, ManagerFails, MGoto
<1>s. manager'[m] \in Starting => manager[m] \in Starting
  BY <1>t
  DEF ManagerStep, Refuse, MReadPid, MUnlinkPid, CreatePid, WritePid, Sign,
      Probe, CheckSock, UnlinkSock, Bind, UnlinkOwnSock, DropGuard, VmEnds,
      ManagerDies, ManagerFails, MGoto, Starting
<1>g. manager[m] # "none" /\ manager'[m] # "none"
  BY <1>t
  DEF ManagerStep, Refuse, MReadPid, MUnlinkPid, CreatePid, WritePid, Sign,
      Probe, CheckSock, UnlinkSock, Bind, UnlinkOwnSock, DropGuard, VmEnds,
      ManagerDies, ManagerFails, MGoto, ManagerAlive, ManagerDead
<1>h. LockersHold' /\ NoneYet' /\ DeafHaveServed'
  BY <1>c, <1>n, <1>o, <1>s, <1>g, <1>t DEF SerialInv, NoneYet, DeafHaveServed
<1>1. serial' => OneStarter'
  BY <1>c, <1>o, <1>s DEF SerialInv, OneStarter, Starter, ClientAlive
<1>w. Owner(m)' => Owner(m) \/ manager[m] \in Starting
  BY <1>t
  DEF ManagerStep, Refuse, MReadPid, MUnlinkPid, CreatePid, WritePid, Sign,
      Probe, CheckSock, UnlinkSock, Bind, UnlinkOwnSock, DropGuard, VmEnds,
      ManagerDies, ManagerFails, MGoto, Owner, Starting
<1>l. serial' => OwnersListen'
  <2>1. \A c \in Client : Starter(c)' => Starter(c)
    BY <1>c, <1>o, <1>s DEF Starter, ClientAlive
  <2>2. \A n \in deaf : Owner(n)' => Owner(n)
    BY <1>o, <1>w, <1>t DEF SerialInv, DeafHaveServed, Owner
  <2> QED
    BY <1>c, <2>1, <2>2 DEF SerialInv, OwnersListen
<1> SUFFICES ASSUME serial PROVE OwnersHaveSock' /\ PathIsFree'
  BY <1>c, <1>h, <1>1, <1>l DEF SerialInv
<1>i. OneStarter /\ OwnersHaveSock /\ OwnersListen /\ PathIsFree
  BY DEF SerialInv
<1>2. CASE Bind(m)
  <2>1. \A n \in Client : ~ Owner(n)
    BY <1>2, <1>i DEF Bind, PathIsFree
  <2>2. \A n \in Client : manager'[n] \in {"checkSock", "unlinkSock", "bind"}
                           => n = m
    <3>1. Starter(m)
      BY <1>2 DEF Bind, Starter, Starting
    <3>2. \A n \in Client :
            manager[n] \in {"checkSock", "unlinkSock", "bind"} => Starter(n)
      BY DEF Starter, Starting
    <3> QED
      BY <3>1, <3>2, <1>i, <1>o DEF OneStarter
  <2>3. manager'[m] \in {"serving", "dropGuard"}
        /\ (manager'[m] = "serving" => sock' = m)
    BY <1>2, <1>t DEF Bind, MGoto
  <2> QED
    BY <2>1, <2>2, <2>3, <1>o DEF OwnersHaveSock, PathIsFree, Owner
<1>3. CASE UnlinkSock(m)
  <2>1. manager'[m] = "bind" /\ \A n \in Client : ~ Owner(n)
    BY <1>3, <1>t, <1>i DEF UnlinkSock, PathIsFree, MGoto
  <2>2. \A n \in Client : ~ Owner(n)'
    BY <2>1, <1>o DEF Owner
  <2> QED
    BY <2>2 DEF OwnersHaveSock, PathIsFree
<1>4. CASE UnlinkOwnSock(m)
  <2>1. Owner(m) /\ manager'[m] = "dropGuard"
    BY <1>4, <1>t DEF UnlinkOwnSock, MGoto, Owner
  <2>2. \A n \in Client : ~ Owner(n)'
    BY <2>1, <1>i, <1>o DEF OwnersHaveSock, Owner
  <2> QED
    BY <2>2 DEF OwnersHaveSock, PathIsFree
<1>5. CASE Probe(m)
  <2>1. UNCHANGED sock /\ manager'[m] \in {"dropGuard", "checkSock"}
    BY <1>5, <1>t DEF Probe, MGoto
  <2>2. \A n \in Client : Owner(n)' => Owner(n)
    BY <2>1, <1>o DEF Owner
  <2>3. OwnersHaveSock'
    BY <2>1, <2>2, <1>i DEF OwnersHaveSock
  <2>4. ASSUME manager'[m] = "checkSock", NEW n \in Client, Owner(n)
        PROVE  FALSE
    <3>1. ~ Connectable
      BY <1>5, <2>4, <1>t DEF Probe, MGoto
    <3>2. sock = n /\ n # NoFile
      BY <2>4, <1>i, FileAssumption DEF OwnersHaveSock
    <3>3. ManagerAlive(n)
      BY <2>4 DEF Owner, ManagerAlive, ManagerDead
    <3>4. n \notin deaf
      BY <1>5, <1>i, <2>4 DEF Probe, OwnersListen, Starter, Starting
    <3> QED
      BY <3>1, <3>2, <3>3, <3>4 DEF Connectable
  <2>5. PathIsFree'
    BY <2>1, <2>2, <2>4, <1>i, <1>o DEF PathIsFree
  <2> QED
    BY <2>3, <2>5
<1>6. CASE \/ Refuse(m) \/ MReadPid(m) \/ MUnlinkPid(m) \/ CreatePid(m)
           \/ WritePid(m) \/ Sign(m) \/ CheckSock(m) \/ DropGuard(m)
           \/ VmEnds(m) \/ ManagerDies(m) \/ ManagerFails(m)
  <2>1. UNCHANGED sock
    BY <1>6
    DEF Refuse, MReadPid, MUnlinkPid, CreatePid, WritePid, Sign, CheckSock,
        DropGuard, VmEnds, ManagerDies, ManagerFails
  <2>2. /\ Owner(m)' => Owner(m)
        /\ manager'[m] \in {"checkSock", "unlinkSock", "bind"}
             => manager[m] \in {"checkSock", "unlinkSock", "bind"}
    BY <1>6, <1>t
    DEF Refuse, MReadPid, MUnlinkPid, CreatePid, WritePid, Sign, CheckSock,
        DropGuard, VmEnds, ManagerDies, ManagerFails, MGoto, Owner
  <2> QED
    BY <2>1, <2>2, <1>i, <1>o DEF OwnersHaveSock, PathIsFree, Owner
<1> QED
  BY <1>2, <1>3, <1>4, <1>5, <1>6 DEF ManagerStep

LEMMA NextSerial == TypeOK /\ SerialInv /\ [Next]_vars => SerialInv'
<1> SUFFICES ASSUME TypeOK, SerialInv, [Next]_vars PROVE SerialInv'
  OBVIOUS
<1>1. CASE Reinstall \/ StrangerEnds \/ ListReadsPid \/ ListRemovesPid
             \/ (\E c \in Client : PidReused(c)) \/ UNCHANGED vars
  <2>1. UNCHANGED <<procs, sock, serial>>
    BY <1>1
    DEF Reinstall, StrangerEnds, ListReadsPid, ListRemovesPid, PidReused, vars,
        files
  <2> QED
    BY <2>1
    DEF procs, SerialInv, LockersHold, NoneYet, DeafHaveServed, OneStarter,
        OwnersHaveSock, OwnersListen, PathIsFree, Starter, Owner, ClientAlive
<1>2. CASE Reset
  <2>1. UNCHANGED <<client, holds, manager, deaf>> /\ (serial' => serial)
    BY <1>2, Zenon DEF Reset, procs
  <2>2. serial' => \A m \in Client : ~ ManagerAlive(m)
    BY <1>2, Zenon DEF Reset
  <2>3. serial' => \A m \in Client : ~ Owner(m)
    BY <2>2 DEF ManagerAlive, ManagerDead, Owner
  <2> QED
    BY <2>1, <2>3
    DEF SerialInv, LockersHold, NoneYet, DeafHaveServed, OneStarter,
        OwnersHaveSock, OwnersListen, PathIsFree, Starter, Owner, ClientAlive
<1> QED
  BY <1>1, <1>2, ClientSerial, AcceptSerial, ManagerSerial DEF Next

(***************************************************************************)
(* As long as managers start one after the other, none beside one whose    *)
(* accept has failed, and .vibebox is reset only between sessions, at most *)
(* one manager runs a VM and it owns the socket (ensure_manager,           *)
(* run_manager_with).                                                      *)
(***************************************************************************)
THEOREM SerialStarts == Spec => []SerialStartsShareOneVm
<1>1. Init => SerialInv
  BY DEF Init, SerialInv, LockersHold, NoneYet, DeafHaveServed, OneStarter,
         OwnersHaveSock, OwnersListen, PathIsFree, Starter, Owner, Starting
<1>2. SerialInv => SerialStartsShareOneVm
  BY DEF SerialInv, OwnersHaveSock, Owner, SerialStartsShareOneVm, AtMostOneVm,
         Serving
<1> QED
  BY <1>1, <1>2, NextSerial, StartupTypeCorrect, PTL DEF Spec

=============================================================================
