------------------------------ MODULE VmManager ------------------------------
(***************************************************************************)
(* One VM manager process (src/src/vm_manager.rs) from the moment its      *)
(* socket is bound, the connections made to it, and the guest.             *)
(*                                                                         *)
(* Threads of the manager: the main thread (run_manager_with), the accept  *)
(* thread, one handler thread per connection, and the event loop           *)
(* (manager_event_loop), which receives Inc, Dec and VmExited through one  *)
(* mpsc channel.                                                           *)
(*                                                                         *)
(* Deadlines are countdowns: `Tick' is the passage of one unit of time and *)
(* a countdown at 0 is a deadline that has passed.  A thread that runs     *)
(* late is a behaviour with more Ticks.                                    *)
(***************************************************************************)
EXTENDS Naturals, Sequences, FiniteSets

CONSTANTS
  Conn,           \* connections; each is made once
  Grace,          \* auto_shutdown_ms.max(1)
  Retry,          \* SHUTDOWN_RETRY_MS
  HardTimeout,    \* HARD_SHUTDOWN_TIMEOUT_MS
  NoDeadline,     \* the None of shutdown_deadline and hard_deadline
  AcceptMayFail   \* whether accept(2) can return an error

ASSUME ConnAssumption == IsFiniteSet(Conn)
ASSUME TimeAssumption ==
  /\ Grace \in Nat \ {0}
  /\ Retry \in Nat \ {0}
  /\ HardTimeout \in Nat \ {0}
  /\ NoDeadline \notin Nat
ASSUME AcceptAssumption == AcceptMayFail \in BOOLEAN

VARIABLES
  client,         \* client[c]: the other end of c is "new", "open" or "closed"
  handler,        \* handler[c]: the manager's thread for c
  accepting,      \* the accept thread is in its loop and owns the listener
  events,         \* the channel: events sent and not yet received
  loop,           \* the event loop thread is "running" or "done"
  refCount,       \* ref_count
  shutdownIn,     \* shutdown_deadline
  shutdownSent,   \* shutdown_sent
  hardIn,         \* hard_deadline
  idle,           \* history: time for which ref_count has been 0, capped
  vm,             \* the guest: "preparing", "running" or "stopped"
  console,        \* vm_input_tx holds a sender whose receiver is alive
  typed,          \* a poweroff line is on its way to the guest's shell
  main,           \* where the main thread is in run_manager_with
  proc,           \* the process: "alive", "exited" or "forced" (force_exit)
  sockFile        \* vm.sock exists

connVars == <<client, handler, accepting>>
loopVars == <<loop, refCount, shutdownIn, shutdownSent, hardIn, idle>>
vmVars   == <<vm, console, typed>>
mainVars == <<main, proc, sockFile>>
vars     == <<connVars, events, loopVars, vmVars, mainVars>>

Inc(c)   == [kind |-> "Inc", conn |-> c]
Dec(c)   == [kind |-> "Dec", conn |-> c]
VmExited == [kind |-> "VmExited"]
Event    == {Inc(c) : c \in Conn} \cup {Dec(c) : c \in Conn} \cup {VmExited}

Countdown == Nat \cup {NoDeadline}
IdleCap   == Grace + HardTimeout

Alive == proc = "alive"

Queued(e) == \E i \in DOMAIN events : events[i] = e

(***************************************************************************)
(* The connections the event loop has counted: Inc received, Dec not.      *)
(***************************************************************************)
IsCounted(c) ==
  /\ handler[c] \in {"watching", "done"}
  /\ ~ Queued(Inc(c))
  /\ handler[c] = "done" => Queued(Dec(c))

Counted == {c \in Conn : IsCounted(c)}

Init ==
  /\ client = [c \in Conn |-> "new"]
  /\ handler = [c \in Conn |-> "none"]
  /\ accepting = TRUE
  /\ events = <<>>
  /\ loop = "running"
  /\ refCount = 0
  /\ shutdownIn = NoDeadline
  /\ shutdownSent = FALSE
  /\ hardIn = NoDeadline
  /\ idle = 0
  /\ vm = "preparing"
  /\ console = FALSE
  /\ typed = FALSE
  /\ main = "runVm"
  /\ proc = "alive"
  /\ sockFile = TRUE

-----------------------------------------------------------------------------
(***************************************************************************)
(* The other ends of the connections: vibeboxes, and the probe that a      *)
(* second manager makes.  A connection waits in the listener's backlog as  *)
(* soon as connect(2) returns, whatever the manager's threads are doing.   *)
(***************************************************************************)
Connect(c) ==
  /\ client[c] = "new"
  /\ Alive /\ sockFile /\ accepting
  /\ client' = [client EXCEPT ![c] = "open"]
  /\ UNCHANGED <<handler, accepting, events, loopVars, vmVars, mainVars>>

\* The vibebox ends, in whatever way, and its stream is closed.
Leave(c) ==
  /\ client[c] = "open"
  /\ client' = [client EXCEPT ![c] = "closed"]
  /\ UNCHANGED <<handler, accepting, events, loopVars, vmVars, mainVars>>

-----------------------------------------------------------------------------
(***************************************************************************)
(* The accept thread and the connection handlers.                          *)
(***************************************************************************)
\* A send on the channel; the loop drops the receiver when it ends.
Post(e) == events' = IF loop = "running" THEN Append(events, e) ELSE events

Accept(c) ==
  /\ Alive /\ accepting
  /\ client[c] # "new"
  /\ handler[c] = "none"
  /\ handler' = [handler EXCEPT ![c] = "reading"]
  /\ UNCHANGED <<client, accepting, events, loopVars, vmVars, mainVars>>

\* An error from accept ends the accept thread for good, and the listener.
AcceptError ==
  /\ AcceptMayFail
  /\ Alive /\ accepting
  /\ accepting' = FALSE
  /\ UNCHANGED <<client, handler, events, loopVars, vmVars, mainVars>>

\* read_client_pid returns: after the client's line, its end, or 200 ms.
ReadClientPid(c) ==
  /\ handler[c] = "reading"
  /\ handler' = [handler EXCEPT ![c] = "watching"]

\* wait_for_disconnect returns when the stream is at its end.
WaitForDisconnect(c) ==
  /\ handler[c] = "watching"
  /\ client[c] = "closed"
  /\ handler' = [handler EXCEPT ![c] = "done"]

\* Mutant of SendInc: a connection without a pid line is not announced.
SendIncWithPidOnly(c) ==
  /\ Alive
  /\ ReadClientPid(c)
  /\ Post(Inc(c)) \/ UNCHANGED events
  /\ UNCHANGED <<client, accepting, loopVars, vmVars, mainVars>>

SendInc(c) ==
  /\ Alive
  /\ ReadClientPid(c)
  /\ Post(Inc(c))
  /\ UNCHANGED <<client, accepting, loopVars, vmVars, mainVars>>

SendDec(c) ==
  /\ Alive
  /\ WaitForDisconnect(c)
  /\ Post(Dec(c))
  /\ UNCHANGED <<client, accepting, loopVars, vmVars, mainVars>>

HandlerStep(c) == Accept(c) \/ SendInc(c) \/ SendDec(c)

-----------------------------------------------------------------------------
(***************************************************************************)
(* The event loop: one iteration is one action.                            *)
(***************************************************************************)
Receive(e) ==
  /\ Alive /\ loop = "running"
  /\ events # <<>>
  /\ Head(events) = e

CountIn(c) ==
  /\ Receive(Inc(c))
  /\ events' = Tail(events)
  /\ refCount' = refCount + 1
  /\ idle' = 0
  /\ UNCHANGED <<connVars, loop, vmVars, mainVars>>

\* Mutants of LoopInc: one of the three resets is forgotten.
LoopIncKeepsGrace(c) ==
  /\ CountIn(c)
  /\ shutdownSent' = FALSE /\ hardIn' = NoDeadline /\ UNCHANGED shutdownIn

LoopIncKeepsHard(c) ==
  /\ CountIn(c)
  /\ shutdownSent' = FALSE /\ shutdownIn' = NoDeadline /\ UNCHANGED hardIn

LoopIncKeepsSent(c) ==
  /\ CountIn(c)
  /\ shutdownIn' = NoDeadline /\ hardIn' = NoDeadline /\ UNCHANGED shutdownSent

LoopInc(c) ==
  /\ CountIn(c)
  /\ shutdownIn' = NoDeadline
  /\ shutdownSent' = FALSE
  /\ hardIn' = NoDeadline

\* Mutant of LoopDec: the deadline is set without looking at ref_count.
LoopDecAlwaysSchedules(c) ==
  /\ Receive(Dec(c))
  /\ events' = Tail(events)
  /\ refCount' = IF refCount = 0 THEN 0 ELSE refCount - 1
  /\ shutdownIn' = Grace
  /\ idle' = 0
  /\ UNCHANGED <<connVars, loop, shutdownSent, hardIn, vmVars, mainVars>>

LoopDec(c) ==
  /\ Receive(Dec(c))
  /\ events' = Tail(events)
  /\ refCount' = IF refCount = 0 THEN 0 ELSE refCount - 1
  /\ shutdownIn' = IF refCount' = 0 THEN Grace ELSE shutdownIn
  /\ idle' = 0
  /\ UNCHANGED <<connVars, loop, shutdownSent, hardIn, vmVars, mainVars>>

LoopVmExited ==
  /\ Receive(VmExited)
  /\ events' = <<>>
  /\ loop' = "done"
  /\ UNCHANGED <<connVars, refCount, shutdownIn, shutdownSent, hardIn, idle,
                 vmVars, mainVars>>

(***************************************************************************)
(* recv_timeout found no event until a deadline passed.  First the grace   *)
(* period: type poweroff into the guest, or try again after Retry.  Then   *)
(* the hard deadline, with the value the first part left in it.            *)
(***************************************************************************)
GraceOver == shutdownIn = 0 /\ ~ shutdownSent
PowersOff == GraceOver /\ console

\* Mutant of LoopTimeout: the hard deadline is set only with a poweroff sent.
LoopTimeoutWithoutHard ==
  /\ Alive /\ loop = "running"
  /\ events = <<>>
  /\ shutdownIn = 0 \/ hardIn = 0
  /\ typed' = (typed \/ PowersOff)
  /\ shutdownSent' = (shutdownSent \/ PowersOff)
  /\ shutdownIn' = IF ~ GraceOver THEN shutdownIn
                   ELSE IF PowersOff THEN NoDeadline ELSE Retry
  /\ hardIn' = IF PowersOff THEN HardTimeout ELSE hardIn
  /\ proc' = IF refCount = 0 /\ hardIn' = 0 THEN "forced" ELSE proc
  /\ UNCHANGED <<connVars, events, loop, refCount, idle, vm, console, main,
                 sockFile>>

LoopTimeout ==
  /\ Alive /\ loop = "running"
  /\ events = <<>>
  /\ shutdownIn = 0 \/ hardIn = 0
  /\ typed' = (typed \/ PowersOff)
  /\ shutdownSent' = (shutdownSent \/ PowersOff)
  /\ shutdownIn' = IF ~ GraceOver THEN shutdownIn
                   ELSE IF PowersOff THEN NoDeadline ELSE Retry
  /\ hardIn' = IF PowersOff \/ (GraceOver /\ hardIn = NoDeadline)
               THEN HardTimeout ELSE hardIn
  /\ proc' = IF refCount = 0 /\ hardIn' = 0 THEN "forced" ELSE proc
  /\ UNCHANGED <<connVars, events, loop, refCount, idle, vm, console, main,
                 sockFile>>

LoopStep ==
  \/ \E c \in Conn : LoopInc(c) \/ LoopDec(c)
  \/ LoopVmExited
  \/ LoopTimeout

-----------------------------------------------------------------------------
(***************************************************************************)
(* The guest.  While it is "preparing" the main thread makes the images,   *)
(* which may boot another guest to provision one; nothing can be typed.    *)
(***************************************************************************)
\* run_vm fails before the guest runs: image, configuration or start.
PrepareFails ==
  /\ Alive /\ vm = "preparing"
  /\ vm' = "stopped"
  /\ UNCHANGED <<connVars, events, loopVars, console, typed, mainVars>>

\* An expect or an assert in the main thread fails: the process ends without
\* a VmExited and leaves its socket.
PreparePanics ==
  /\ Alive /\ vm = "preparing"
  /\ vm' = "stopped"
  /\ proc' = "exited"
  /\ UNCHANGED <<connVars, events, loopVars, console, typed, main, sockFile>>

\* The executor hands the console's sender to the loop.
VmStarts ==
  /\ Alive /\ vm = "preparing"
  /\ vm' = "running"
  /\ console' = TRUE
  /\ UNCHANGED <<connVars, events, loopVars, typed, mainVars>>

\* The console line is taken by the root shell, or by something else (a
\* login prompt, a running script) that makes nothing of it.
GuestPowersOff ==
  /\ Alive /\ vm = "running" /\ typed
  /\ vm' = "stopped"
  /\ typed' = FALSE
  /\ UNCHANGED <<connVars, events, loopVars, console, mainVars>>

GuestIgnoresPoweroff ==
  /\ Alive /\ vm = "running" /\ typed
  /\ typed' = FALSE
  /\ UNCHANGED <<connVars, events, loopVars, vm, console, mainVars>>

\* The guest stops on its own account, or a login action fails or times out
\* and run_vm_with_io stops it.
GuestStops ==
  /\ Alive /\ vm = "running"
  /\ vm' = "stopped"
  /\ UNCHANGED <<connVars, events, loopVars, console, typed, mainVars>>

VmStep ==
  \/ PrepareFails \/ PreparePanics \/ VmStarts
  \/ GuestPowersOff \/ GuestIgnoresPoweroff \/ GuestStops

-----------------------------------------------------------------------------
(***************************************************************************)
(* The main thread after the guest.                                        *)
(***************************************************************************)
\* Writing to the console of a guest that is gone fails and ends the mux
\* thread, which owns the receiver.
MuxEnds ==
  /\ Alive /\ main = "runVm" /\ vm = "stopped"
  /\ console /\ typed
  /\ console' = FALSE
  /\ typed' = FALSE
  /\ UNCHANGED <<connVars, events, loopVars, vm, mainVars>>

\* The login actions and the console's threads are joined and run_vm returns.
RunVmReturns ==
  /\ Alive /\ main = "runVm" /\ vm = "stopped"
  /\ main' = "returned"
  /\ console' = FALSE
  /\ typed' = FALSE
  /\ UNCHANGED <<connVars, events, loopVars, vm, proc, sockFile>>

\* Mutant of ReportExit: only a run_vm that failed reports VmExited.
ReportExitOnError ==
  /\ Alive /\ main = "returned"
  /\ main' = "joining"
  /\ Post(VmExited) \/ UNCHANGED events
  /\ UNCHANGED <<connVars, loopVars, vmVars, proc, sockFile>>

ReportExit ==
  /\ Alive /\ main = "returned"
  /\ main' = "joining"
  /\ Post(VmExited)
  /\ UNCHANGED <<connVars, loopVars, vmVars, proc, sockFile>>

JoinLoop ==
  /\ Alive /\ main = "joining" /\ loop = "done"
  /\ main' = "unlinked"
  /\ sockFile' = FALSE
  /\ UNCHANGED <<connVars, events, loopVars, vmVars, proc>>

Exit ==
  /\ Alive /\ main = "unlinked"
  /\ proc' = "exited"
  /\ UNCHANGED <<connVars, events, loopVars, vmVars, main, sockFile>>

MainStep == RunVmReturns \/ ReportExit \/ JoinLoop \/ Exit

-----------------------------------------------------------------------------
\* Mutant of CountDown: a subtraction that does not saturate.
CountDownBelowZero(d) == IF d = NoDeadline THEN d ELSE d - 1

CountDown(d) == IF d \in Nat \ {0} THEN d - 1 ELSE d

Tick ==
  /\ Alive /\ loop = "running"
  /\ shutdownIn' = CountDown(shutdownIn)
  /\ hardIn' = CountDown(hardIn)
  /\ idle' = IF refCount = 0 /\ idle < IdleCap THEN idle + 1 ELSE idle
  /\ UNCHANGED <<connVars, events, loop, refCount, shutdownSent, vmVars,
                 mainVars>>

Next ==
  \/ \E c \in Conn : Connect(c) \/ Leave(c) \/ HandlerStep(c)
  \/ AcceptError
  \/ LoopStep
  \/ VmStep
  \/ MuxEnds
  \/ MainStep
  \/ Tick

Spec == Init /\ [][Next]_vars

(***************************************************************************)
(* The operating system runs every thread of the manager and the clock;    *)
(* everything the main thread joins has a timeout of its own.  Nothing     *)
(* makes a client leave, or the guest start, stop or obey its console.     *)
(***************************************************************************)
Fairness ==
  /\ \A c \in Conn : WF_vars(HandlerStep(c))
  /\ WF_vars(LoopStep)
  /\ WF_vars(MainStep)
  /\ WF_vars(Tick)

FairSpec == Spec /\ Fairness

-----------------------------------------------------------------------------
(***************************************************************************)
(* Every variable keeps its type.                                          *)
(***************************************************************************)
TypeOK ==
  /\ client \in [Conn -> {"new", "open", "closed"}]
  /\ handler \in [Conn -> {"none", "reading", "watching", "done"}]
  /\ accepting \in BOOLEAN
  /\ events \in Seq(Event)
  /\ loop \in {"running", "done"}
  /\ refCount \in Nat
  /\ shutdownIn \in Countdown
  /\ shutdownSent \in BOOLEAN
  /\ hardIn \in Countdown
  /\ idle \in Nat
  /\ vm \in {"preparing", "running", "stopped"}
  /\ console \in BOOLEAN
  /\ typed \in BOOLEAN
  /\ main \in {"runVm", "returned", "joining", "unlinked"}
  /\ proc \in {"alive", "exited", "forced"}
  /\ sockFile \in BOOLEAN

(***************************************************************************)
(* ref_count is exactly the number of connections whose Inc the loop has   *)
(* received and whose Dec it has not, in whatever order the handlers send: *)
(* saturating_sub never saturates and 0 means that nobody is counted.      *)
(***************************************************************************)
RefCountExact == loop = "running" => refCount = Cardinality(Counted)

(***************************************************************************)
(* Why the counter is exact and the deadlines are safe: a handler's Inc    *)
(* and Dec are in the channel at most once each and never out of order,    *)
(* and a deadline that is set certifies how long nobody has been counted.  *)
(***************************************************************************)
NotYetSent ==
  \A c \in Conn :
    /\ handler[c] \in {"none", "reading"} => ~ Queued(Inc(c))
    /\ handler[c] # "done" => ~ Queued(Dec(c))

SentOnce ==
  \A i, j \in DOMAIN events :
    events[i] = events[j] /\ events[i] # VmExited => i = j

IncBeforeDec ==
  \A c \in Conn : \A i \in DOMAIN events :
    events[i] = Inc(c) /\ handler[c] = "done"
      => \E j \in DOMAIN events : i < j /\ events[j] = Dec(c)

ReceiverDropped == loop = "done" => events = <<>>

ChannelInv == NotYetSent /\ SentOnce /\ IncBeforeDec /\ ReceiverDropped

DeadlineInv ==
  /\ shutdownIn \in Nat => refCount = 0 /\ idle + shutdownIn >= Grace
  /\ hardIn \in Nat =>
       refCount = 0 /\ idle + hardIn >= Grace + HardTimeout

(***************************************************************************)
(* The inductive invariant: the channel, the count and the deadlines of the *)
(* manager's event loop hold together in every state.                      *)
(***************************************************************************)
IInv == TypeOK /\ ChannelInv /\ RefCountExact /\ DeadlineInv

(***************************************************************************)
(* A poweroff is typed only when nobody has been counted for a whole grace *)
(* period: a connection that came and went restarts the period.            *)
(***************************************************************************)
PoweroffAfterGrace ==
  [][~ shutdownSent /\ shutdownSent' => Counted = {} /\ idle >= Grace]_vars

(***************************************************************************)
(* The manager kills itself, and the guest with it, only when nobody has   *)
(* been counted for a grace period and a hard timeout on top of it.        *)
(***************************************************************************)
ForcedExitIsLastResort ==
  [][Alive /\ proc' = "forced"
       => Counted = {} /\ idle >= Grace + HardTimeout]_vars

leaseOpen    == Alive /\ loop = "running"
leaseHolders == IF leaseOpen THEN Counted ELSE {}
leasePhase   == CASE proc = "forced"              -> "killed"
                  [] leaseOpen /\ ~ shutdownSent  -> "up"
                  [] leaseOpen /\ shutdownSent    -> "stopping"
                  [] OTHER                        -> "down"

Lease == INSTANCE VmLease WITH holders <- leaseHolders, phase <- leasePhase

(***************************************************************************)
(* The manager implements a lease on the guest: it asks the guest to stop, *)
(* and kills it, only while it counts nobody.                              *)
(***************************************************************************)
ImplementsLease == Lease!Spec

\* Somebody is connected; somebody has been, and the accept thread saw it.
InUse   == \E c \in Conn : client[c] = "open"
WasUsed == \E c \in Conn : handler[c] # "none"

(***************************************************************************)
(* Once every connection made has been closed, the manager ends, through   *)
(* the guest or through force_exit, unless someone connects again.  It     *)
(* does so too when an error of accept has closed the listener meanwhile,  *)
(* provided that one connection was accepted before.                       *)
(***************************************************************************)
AbandonedManagerEnds == (WasUsed /\ ~ InUse) ~> (~ Alive \/ InUse)

(***************************************************************************)
(* When the guest stops, the process ends whatever its clients do: the     *)
(* main thread, which waits for the loop, is never left waiting.           *)
(***************************************************************************)
StoppedGuestEndsManager == (vm = "stopped") ~> ~ Alive

(***************************************************************************)
(* docs/implementations.md: "A session (VM) will only shut down after      *)
(* AUTO_SHUTDOWN_GRACE_MS milliseconds if the reference count is 0."       *)
(* Stated of the shutdowns that the manager itself asks the guest for.     *)
(***************************************************************************)
ShutsDownOnlyAtZero == [][GuestPowersOff => refCount = 0]_vars

=============================================================================
