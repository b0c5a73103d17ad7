--------------------------------- MODULE VmIo ---------------------------------
(***************************************************************************)
(* One run of a virtual machine and its serial console (src/src/vm.rs,     *)
(* run_vm_with_io): the main thread that starts the guest and watches it,  *)
(* the login thread that types and waits for output, and the three threads *)
(* that move bytes, of which one, mux, is the only one that types.  The    *)
(* manager's event loop sends lines to the same channel.                   *)
(*                                                                         *)
(* What is typed and printed is reduced to what the waits tell apart.  A   *)
(* script takes two units of the pipe, other lines one.  The framework and *)
(* the guest's getty, shell and provision.sh are external.                 *)
(***************************************************************************)
EXTENDS Naturals, SequencesExt

CONSTANTS
  MaxPoweroffs,  \* bound on the lines that the event loop sends
  PipeRoom       \* units that the pipe to the guest holds

ASSUME BoundAssumption == MaxPoweroffs \in Nat /\ PipeRoom \in Nat \ {0}

VARIABLES
  job,           \* "provision": the guest is the template; "session"
  main,          \* where run_vm_with_io is
  alive,         \* what it last saw of the guest: running or not
  result,        \* exit_result
  login,         \* the login action to come; 0 when the login thread has ended
  report,        \* what the login thread reported: the channel of VmOutput
  monitor,       \* OutputMonitor.buffer
  input,         \* the channel of VmInput
  writing,       \* what mux has still to write of the message it took
  running,       \* the threads that run, of {"stdin", "stdout", "mux"}
  wakeup,        \* the byte in the wakeup pipe, which nobody takes out
  typed,         \* the pipe to the guest
  printed,       \* the pipe from the guest
  guest,         \* the guest
  poweroffs,     \* how many lines the event loop has sent
  astray,        \* history: a command was read by something but a shell
  early          \* history: a report was sent while the guest was running

vars == <<job, main, alive, result, login, report, monitor, input, writing,
          running, wakeup, typed, printed, guest, poweroffs, astray, early>>

Line  == {"root", "mount", "part", "script", "poweroff"}
Text  == {"login", "prompt", "ok", "failed"}
Guest == {"off", "booting", "login", "password", "shell", "script", "leaving",
          "stopped"}
Place == {"starting", "look", "hear", "join", "shutdown", "wake", "joinIo",
          "returned"}

\* LoginAction.
Expect(text)                   == [wait |-> {text}, failure |-> {}, send |-> "none"]
ExpectEither(success, failure) == [wait |-> {success, failure}, failure |-> {failure},
                                   send |-> "none"]
Type(line)                     == [wait |-> {}, failure |-> {}, send |-> line]

\* all_login_actions.
Actions(j) ==
  <<Expect("login"), Type("root"), Expect("prompt")>> \o
  (IF j = "provision" THEN <<Type("script"), ExpectEither("ok", "failed")>>
                      ELSE <<Type("mount"), Type("script")>>)

Units(line) == IF line = "script" THEN <<"part", "script">> ELSE <<line>>

Init ==
  /\ job \in {"provision", "session"}
  /\ main = "starting" /\ alive = TRUE /\ result = "ok"
  /\ login = 0 /\ report = "none"
  /\ monitor = <<>> /\ input = <<>> /\ writing = <<>>
  /\ running = {} /\ wakeup = FALSE
  /\ typed = <<>> /\ printed = <<>>
  /\ guest = "off"
  /\ poweroffs = 0
  /\ astray = FALSE /\ early = FALSE

mainVars  == <<main, alive, result>>
loginVars == <<login, report, monitor, early>>
ioVars    == <<running, wakeup, writing>>
guestVars == <<guest, astray>>

-----------------------------------------------------------------------------
(***************************************************************************)
(* run_vm_with_io.                                                         *)
(***************************************************************************)
Finishing(code) ==
  /\ main' = "returned" /\ result' = code
  /\ guest' = "stopped"             \* the machine is released, if there is one

\* The completion handler reports an error, or nothing before START_TIMEOUT.
StartFails ==
  /\ main = "starting"
  /\ Finishing("err")
  /\ UNCHANGED <<job, alive, loginVars, input, ioVars, typed, printed, poweroffs, astray>>

\* The guest starts, then the three threads and the login thread.
Start ==
  /\ main = "starting" /\ main' = "look"
  /\ guest' = "booting"
  /\ running' = {"stdin", "stdout", "mux"}
  /\ login' = 1
  /\ UNCHANGED <<job, alive, result, report, monitor, early, input, wakeup,
                 writing, typed, printed, poweroffs, astray>>

Look ==
  /\ main = "look" /\ main' = "hear"
  /\ alive' = (guest # "stopped")
  /\ UNCHANGED <<job, result, loginVars, input, ioVars, typed, printed, guestVars, poweroffs>>

\* Mutant of Hear: a guest that has stopped ends the loop at once.
HearOfRunning ==
  /\ main = "hear"
  /\ IF alive /\ report # "none"
     THEN main' = "join" /\ result' = "err"
     ELSE main' = (IF alive THEN "look" ELSE "join") /\ UNCHANGED result
  /\ UNCHANGED <<job, alive, loginVars, input, ioVars, typed, printed, guestVars, poweroffs>>

\* A report ends the loop and asks the guest to stop, as it may at any time.
Hear ==
  /\ main = "hear"
  /\ IF report # "none"
     THEN main' = "join" /\ result' = "err"
     ELSE /\ main' = IF alive THEN "look" ELSE "join"
          /\ UNCHANGED result
  /\ UNCHANGED <<job, alive, loginVars, input, ioVars, typed, printed, guestVars, poweroffs>>

JoinLogin ==
  /\ main = "join" /\ login = 0
  /\ main' = "shutdown"
  /\ UNCHANGED <<job, alive, result, loginVars, input, ioVars, typed, printed,
                 guestVars, poweroffs>>

\* Senders of VmInput: a send fails when mux has gone.
Send(message) ==
  IF "mux" \in running THEN input' = Append(input, message) ELSE UNCHANGED input

\* IoContext::shutdown: mux is told, the other two are woken, all are joined.
ShutDown ==
  /\ main = "shutdown" /\ main' = "wake"
  /\ Send("shutdown")
  /\ UNCHANGED <<job, alive, result, loginVars, ioVars, typed, printed, guestVars, poweroffs>>

Wake ==
  /\ main = "wake" /\ main' = "joinIo"
  /\ wakeup' = TRUE
  /\ UNCHANGED <<job, alive, result, loginVars, input, running, writing, typed,
                 printed, guestVars, poweroffs>>

JoinIo ==
  /\ main = "joinIo" /\ running = {}
  /\ Finishing(result)
  /\ UNCHANGED <<job, alive, loginVars, input, ioVars, typed, printed, poweroffs, astray>>

-----------------------------------------------------------------------------
(***************************************************************************)
(* The login thread.                                                       *)
(***************************************************************************)
Action == Actions(job)[login]

Following == IF login = Len(Actions(job)) THEN 0 ELSE login + 1

\* find_any: the needle that comes first in the buffer; 0 when there is none.
FirstOf(needles) == SelectInSeq(monitor, LAMBDA text : text \in needles)

Found == login # 0 /\ Action.send = "none" /\ FirstOf(Action.wait) # 0

\* The wait ends: what was printed up to and with the needle is dropped.
Consume == monitor' = SubSeq(monitor, FirstOf(Action.wait) + 1, Len(monitor))

Reports(what) ==
  /\ report' = what /\ login' = 0
  /\ early' = (guest # "stopped")

LoginFinds ==
  /\ Found
  /\ monitor[FirstOf(Action.wait)] \notin Action.failure
  /\ Consume
  /\ login' = Following
  /\ UNCHANGED <<job, mainVars, report, early, input, ioVars, typed, printed, guestVars, poweroffs>>

LoginFails ==
  /\ Found
  /\ monitor[FirstOf(Action.wait)] \in Action.failure
  /\ Consume
  /\ Reports("failed")
  /\ UNCHANGED <<job, mainVars, input, ioVars, typed, printed, guestVars, poweroffs>>

\* Mutant of LoginTimesOut: the next action is taken all the same.
LoginGoesOn ==
  /\ login # 0 /\ Action.send = "none" /\ ~ Found
  /\ login' = Following
  /\ UNCHANGED <<job, mainVars, report, monitor, early, input, ioVars, typed,
                 printed, guestVars, poweroffs>>

\* wait_timeout_while looks once more before it gives up.
LoginTimesOut ==
  /\ login # 0 /\ Action.send = "none" /\ ~ Found
  /\ Reports("timeout")
  /\ UNCHANGED <<job, mainVars, monitor, input, ioVars, typed, printed, guestVars, poweroffs>>

\* The send is unwrapped: the thread panics, and reports nothing, without mux.
LoginTypes ==
  /\ login # 0 /\ Action.send # "none"
  /\ Send(Action.send)
  /\ login' = IF "mux" \in running THEN Following ELSE 0
  /\ UNCHANGED <<job, mainVars, report, monitor, early, ioVars, typed, printed, guestVars, poweroffs>>

\* The manager's event loop, which knows the channel of a session only.
SendPoweroff ==
  /\ job = "session" /\ running # {}
  /\ poweroffs < MaxPoweroffs /\ poweroffs' = poweroffs + 1
  /\ Send("poweroff")
  /\ UNCHANGED <<job, mainVars, loginVars, ioVars, typed, printed, guestVars>>

-----------------------------------------------------------------------------
(***************************************************************************)
(* The threads that move bytes.                                            *)
(***************************************************************************)
Ends(thread) == thread \in running /\ running' = running \ {thread}

\* stdin is /dev/null, or wakes up.
StdinEnds ==
  /\ Ends("stdin")
  /\ UNCHANGED <<job, mainVars, loginVars, input, wakeup, writing, typed,
                 printed, guestVars, poweroffs>>

\* Mutant of StdoutEnds: the byte is read, by the first of the two.
StdoutEndsIfFirst ==
  /\ wakeup /\ "stdin" \in running /\ Ends("stdout")
  /\ UNCHANGED <<job, mainVars, loginVars, input, wakeup, writing, typed,
                 printed, guestVars, poweroffs>>

\* What is still in the pipe is left there.
StdoutEnds ==
  /\ wakeup /\ Ends("stdout")
  /\ UNCHANGED <<job, mainVars, loginVars, input, wakeup, writing, typed,
                 printed, guestVars, poweroffs>>

StdoutReads ==
  /\ "stdout" \in running /\ ~ wakeup /\ printed # <<>>
  /\ monitor' = Append(monitor, Head(printed))
  /\ printed' = Tail(printed)
  /\ UNCHANGED <<job, mainVars, login, report, early, input, ioVars, typed,
                 guestVars, poweroffs>>

MuxTakes ==
  /\ "mux" \in running /\ writing = <<>> /\ input # <<>>
  /\ input' = Tail(input)
  /\ IF Head(input) = "shutdown"
     THEN Ends("mux") /\ UNCHANGED writing
     ELSE writing' = Units(Head(input)) /\ UNCHANGED running
  /\ UNCHANGED <<job, mainVars, loginVars, wakeup, typed, printed, guestVars, poweroffs>>

\* Mutant of MuxWrites: there is always room.
MuxWritesAnyway ==
  /\ "mux" \in running /\ writing # <<>>
  /\ typed' = Append(typed, Head(writing))
  /\ writing' = Tail(writing)
  /\ UNCHANGED <<job, mainVars, loginVars, input, running, wakeup, printed,
                 guestVars, poweroffs>>

\* write_all: as long as there is room.
MuxWrites ==
  /\ "mux" \in running /\ writing # <<>> /\ Len(typed) < PipeRoom
  /\ typed' = Append(typed, Head(writing))
  /\ writing' = Tail(writing)
  /\ UNCHANGED <<job, mainVars, loginVars, input, running, wakeup, printed,
                 guestVars, poweroffs>>

\* The pipe of a guest that has stopped may be found closed.
MuxFails ==
  /\ writing # <<>> /\ guest = "stopped"
  /\ Ends("mux")
  /\ writing' = <<>>
  /\ UNCHANGED <<job, mainVars, loginVars, input, wakeup, typed, printed,
                 guestVars, poweroffs>>

-----------------------------------------------------------------------------
(***************************************************************************)
(* The guest.                                                              *)
(***************************************************************************)
Becomes(g, texts) == guest' = g /\ printed' = printed \o texts

GuestBoots ==
  /\ guest = "booting"
  /\ Becomes("login", <<"login">>)
  /\ UNCHANGED <<job, mainVars, loginVars, input, ioVars, typed, poweroffs, astray>>

\* What is typed while the guest boots is lost, or waits for getty.
GuestDiscards ==
  /\ guest = "booting" /\ typed # <<>>
  /\ typed' = Tail(typed)
  /\ UNCHANGED <<job, mainVars, loginVars, input, ioVars, printed, guestVars, poweroffs>>

GuestReads ==
  /\ typed # <<>> /\ typed' = Tail(typed)
  /\ LET line == Head(typed)
     IN  \/ /\ guest = "login"
            /\ IF line = "root" THEN Becomes("shell", <<"prompt">>)
                                ELSE Becomes("password", <<>>)
            /\ astray' = (astray \/ line \notin {"root", "poweroff"})
         \/ /\ guest = "password"
            /\ Becomes("login", <<"login">>)
            /\ astray' = (astray \/ line \notin {"root", "poweroff"})
         \/ /\ guest = "shell"
            /\ CASE line = "script"   -> Becomes("script", <<>>)
                 [] line = "poweroff" -> Becomes("stopped", <<>>)
                 [] line = "part"     -> Becomes("shell", <<>>)
                 [] OTHER             -> Becomes("shell", <<"prompt">>)
            /\ UNCHANGED astray
  /\ UNCHANGED <<job, mainVars, loginVars, input, ioVars, poweroffs>>

\* provision.sh prints a marker and powers off; a session's script prints the
\* address.
ScriptEnds ==
  /\ guest = "script"
  /\ IF job = "provision"
     THEN \E marker \in {"ok", "failed"} : Becomes("leaving", <<marker>>)
     ELSE Becomes("shell", <<"prompt">>)
  /\ UNCHANGED <<job, mainVars, loginVars, input, ioVars, typed, poweroffs, astray>>

\* It powers off, is asked to, or crashes.
GuestStops ==
  /\ guest \notin {"off", "stopped"} /\ guest' = "stopped"
  /\ UNCHANGED <<job, mainVars, loginVars, input, ioVars, typed, printed,
                 poweroffs, astray>>

Main   == \/ StartFails \/ Start \/ Look \/ Hear \/ JoinLogin
          \/ ShutDown \/ Wake \/ JoinIo
Login  == LoginFinds \/ LoginFails \/ LoginTimesOut \/ LoginTypes
Stdout == StdoutReads \/ StdoutEnds
Mux    == MuxTakes \/ MuxWrites
Inside == GuestBoots \/ GuestDiscards \/ GuestReads \/ ScriptEnds \/ GuestStops

Next == Main \/ Login \/ SendPoweroff \/ StdinEnds \/ Stdout \/ Mux \/ MuxFails \/ Inside

Fairness == WF_vars(Main) /\ WF_vars(Login) /\ WF_vars(StdinEnds) /\ WF_vars(Stdout)
            /\ WF_vars(Mux)

Spec == Init /\ [][Next]_vars /\ Fairness

-----------------------------------------------------------------------------
(***************************************************************************)
(* Every variable keeps its type; the channel and the pipes hold no more   *)
(* than was ever to be sent.                                               *)
(***************************************************************************)
TypeOK ==
  /\ job \in {"provision", "session"} /\ main \in Place
  /\ alive \in BOOLEAN /\ result \in {"ok", "err"}
  /\ login \in 0 .. Len(Actions(job)) /\ report \in {"none", "timeout", "failed"}
  /\ monitor \in Seq(Text) /\ printed \in Seq(Text)
  /\ input \in Seq(Line \cup {"shutdown"}) /\ typed \in Seq(Line)
  /\ writing \in Seq(Line) /\ Len(writing) <= 2 /\ Len(typed) <= PipeRoom
  /\ Len(input) <= Len(Actions(job)) + MaxPoweroffs + 1
  /\ running \subseteq {"stdin", "stdout", "mux"} /\ wakeup \in BOOLEAN
  /\ guest \in Guest /\ poweroffs \in 0 .. MaxPoweroffs
  /\ astray \in BOOLEAN /\ early \in BOOLEAN

(***************************************************************************)
(* The commands of the login actions are read by a shell and never by a    *)
(* login prompt, whatever the event loop types meanwhile; and without such *)
(* a line nothing but the user's name is read at the login prompt.         *)
(***************************************************************************)
CommandsReachShell == ~ astray /\ (guest = "password" => poweroffs > 0)

(***************************************************************************)
(* A failure that the login thread reports while the guest still runs is   *)
(* returned, and is not lost because the guest then stops.                 *)
(***************************************************************************)
EarlyReportIsHeard ==
  early /\ main \notin {"starting", "look", "hear"} => result = "err"

(***************************************************************************)
(* When the guest has stopped, or a login action has failed, run_vm_with_io*)
(* returns, unless mux is in a write to a pipe that is full and that       *)
(* nobody reads or closes: then it never does.                             *)
(***************************************************************************)
Stuck == writing # <<>> /\ Len(typed) = PipeRoom

RunReturns == guest = "stopped" \/ report # "none" ~> main = "returned" \/ []Stuck

=============================================================================
