------------------------------ MODULE VmIoProofs ------------------------------
(***************************************************************************)
(* The safety of VmIo for every size of the pipe and every number of lines *)
(* that the event loop sends.                                              *)
(***************************************************************************)
EXTENDS VmIo, SequenceTheorems, WellFoundedInduction, TLAPS

\* A shell has started in the guest; a login prompt does not come back.
Ready == guest \in {"shell", "script", "leaving", "stopped"}

(***************************************************************************)
(* What can be on its way to the guest and from it.  The commands and the  *)
(* prompts are, only once there is a shell.                                *)
(***************************************************************************)
Lines == {"root"} \cup (IF poweroffs > 0 THEN {"poweroff"} ELSE {})
                  \cup (IF Ready THEN {"mount", "part", "script"} ELSE {})
Texts == IF Ready THEN Text ELSE {"login"}

OnTheWay ==
  /\ input \in Seq(Lines \cup {"shutdown"})
  /\ writing \in Seq(Lines) /\ typed \in Seq(Lines)
  /\ monitor \in Seq(Texts) /\ printed \in Seq(Texts)

\* How much the login thread has sent, and the main thread.
Sent == CASE main = "starting"                -> 0
          [] main # "starting" /\ login = 0 -> 5
          [] OTHER                            -> login - 1
Told == IF main \in {"wake", "joinIo", "returned"} THEN 1 ELSE 0

Room == /\ Len(input) <= Sent + poweroffs + Told
        /\ Len(writing) <= 2 /\ Len(typed) <= PipeRoom

NotStarted == main = "starting" =>
                running = {} /\ input = <<>> /\ guest = "off" /\ login = 0

\* The main thread leaves its loop with an error, or when the guest is gone.
Heard == /\ early => report # "none"
         /\ ~ alive => guest = "stopped"
         /\ main \notin {"starting", "look", "hear"} =>
              result = "err" \/ guest = "stopped"
         /\ EarlyReportIsHeard

Fields ==
  /\ job \in {"provision", "session"} /\ main \in Place
  /\ alive \in BOOLEAN /\ result \in {"ok", "err"}
  /\ login \in 0 .. 5 /\ report \in {"none", "timeout", "failed"}
  /\ running \subseteq {"stdin", "stdout", "mux"} /\ wakeup \in BOOLEAN
  /\ guest \in Guest /\ poweroffs \in 0 .. MaxPoweroffs
  /\ astray \in BOOLEAN /\ early \in BOOLEAN

IInv ==
  /\ Fields /\ OnTheWay /\ Room /\ NotStarted
  /\ login > 3 => Ready
  /\ CommandsReachShell
  /\ Heard

-----------------------------------------------------------------------------
(***************************************************************************)
(* The operators of the model.                                             *)
(***************************************************************************)
\* A set of numbers that is not empty has its minimum.
LEMMA MinOfNumbers ==
  ASSUME NEW T \in SUBSET Nat, T # {}
  PROVE  Min(T) \in T /\ \A y \in T : Min(T) <= y
<1> DEFINE R == OpToRel(<, Nat)
<1>1. \A x, y \in Nat : <<x, y>> \in R <=> x < y
  BY DEF OpToRel
<1>2. IsWellFoundedOn(R, Nat)
  BY NatLessThanWellFounded
<1> HIDE DEF R
<1>3. PICK x \in T : \A y \in T : ~ (<<y, x>> \in R)
  BY <1>2, WFMin
<1>4. ASSUME NEW y \in T PROVE x <= y
  <2>1. x \in Nat /\ y \in Nat
    OBVIOUS
  <2>2. ~ (y < x)
    BY <1>1, <1>3, <2>1
  <2> QED
    BY <2>1, <2>2
<1> QED
  BY <1>4 DEF Min

\* find_any gives the place of a needle, if there is one.
LEMMA FirstOfIsFound ==
  ASSUME monitor \in Seq(Text), NEW needles
  PROVE  /\ FirstOf(needles) \in 0 .. Len(monitor)
         /\ FirstOf(needles) # 0 => monitor[FirstOf(needles)] \in needles
<1> DEFINE I == {i \in 1 .. Len(monitor) : monitor[i] \in needles}
<1>1. FirstOf(needles) = IF I # {} THEN Min(I) ELSE 0
  BY DEF FirstOf, SelectInSeq
<1>2. Len(monitor) \in Nat /\ I \in SUBSET Nat
  OBVIOUS
<1>3. CASE I # {}
  <2>1. Min(I) \in I
    BY <1>2, <1>3, MinOfNumbers
  <2> QED
    BY <1>1, <1>3, <2>1
<1>4. CASE I = {}
  BY <1>1, <1>2, <1>4
<1> QED
  BY <1>3, <1>4

LEMMA FiveActions ==
  ASSUME job \in {"provision", "session"}
  PROVE  /\ Len(Actions(job)) = 5
         /\ Actions(job)[1] = Expect("login") /\ Actions(job)[2] = Type("root")
         /\ Actions(job)[3] = Expect("prompt")
         /\ Actions(job)[4] \in {Type("script"), Type("mount")}
         /\ Actions(job)[5] \in {Type("script"), ExpectEither("ok", "failed")}
<1>1. CASE job = "provision"
  BY <1>1 DEF Actions
<1>2. CASE job = "session"
  BY <1>2 DEF Actions
<1> QED
  BY <1>1, <1>2

-----------------------------------------------------------------------------
(***************************************************************************)
(* One step.                                                               *)
(***************************************************************************)
\* No login prompt comes after a shell, and nothing takes a line back.
LEMMA Growth ==
  ASSUME IInv, Next
  PROVE  /\ Ready => Ready'
         /\ Lines \subseteq Lines' /\ Texts \subseteq Texts'
<1> USE DEF guestVars
<1>1. Ready => Ready'
  <2> SUFFICES ASSUME Ready PROVE Ready'
    OBVIOUS
  <2> USE DEF Ready
  <2>1. CASE Main
    BY <2>1
    DEF Main, StartFails, Start, Look, Hear, JoinLogin, ShutDown, Wake, JoinIo,
        Finishing, IInv, NotStarted
  <2>2. CASE Login \/ SendPoweroff \/ StdinEnds \/ Stdout \/ Mux \/ MuxFails
    BY <2>2
    DEF Login, LoginFinds, LoginFails, LoginTimesOut, LoginTypes, SendPoweroff,
        StdinEnds, Stdout, StdoutReads, StdoutEnds, Mux, MuxTakes, MuxWrites,
        MuxFails
  <2>3. CASE GuestBoots \/ GuestDiscards \/ ScriptEnds \/ GuestStops
    BY <2>3 DEF GuestBoots, GuestDiscards, ScriptEnds, GuestStops, Becomes
  <2>4. CASE GuestReads
    BY <2>4 DEF GuestReads, Becomes
  <2> QED
    BY <2>1, <2>2, <2>3, <2>4 DEF Next, Inside
<1>2. poweroffs > 0 => poweroffs' > 0
  <2>1. poweroffs \in Nat
    BY BoundAssumption DEF IInv, Fields
  <2>2. poweroffs' \in {poweroffs, poweroffs + 1}
    BY
    DEF Next, Main, StartFails, Start, Look, Hear, JoinLogin, ShutDown, Wake,
        JoinIo, Login, LoginFinds, LoginFails, LoginTimesOut, LoginTypes,
        SendPoweroff, StdinEnds, Stdout, StdoutReads, StdoutEnds, Mux, MuxTakes,
        MuxWrites, MuxFails, Inside, GuestBoots, GuestDiscards, GuestReads,
        ScriptEnds, GuestStops
  <2> QED
    BY <2>1, <2>2
<1> QED
  BY <1>1, <1>2 DEF Lines, Texts, Text

\* Every field keeps its type.
LEMMA FieldsStep ==
  ASSUME IInv, Next
  PROVE  Fields'
<1> USE DEF mainVars, loginVars, ioVars, guestVars
<1>0. Fields
  BY DEF IInv
<1>1. CASE Main
  <2>1. alive' \in BOOLEAN
    <3>1. CASE Look
      BY <3>1, Zenon DEF Look
    <3>2. CASE Main /\ ~ Look
      BY <1>0, <3>2
      DEF Fields, Main, StartFails, Start, Hear, JoinLogin, ShutDown, Wake, JoinIo
    <3> QED
      BY <1>1, <3>1, <3>2
  <2>2. /\ main' \in Place /\ result' \in {"ok", "err"} /\ login' \in 0 .. 5
        /\ guest' \in Guest /\ running' \subseteq {"stdin", "stdout", "mux"}
    <3>0. CASE Start
      BY <1>0, <3>0 DEF Fields, Start, Place, Guest
    <3>1. CASE StartFails \/ JoinIo
      BY <1>0, <3>1 DEF Fields, StartFails, JoinIo, Finishing, Place, Guest
    <3>2. CASE Look
      BY <1>0, <3>2 DEF Fields, Look, Place
    <3>3. CASE Hear
      BY <1>0, <3>3 DEF Fields, Hear, Place
    <3>4. CASE JoinLogin \/ ShutDown \/ Wake
      BY <1>0, <3>4 DEF Fields, JoinLogin, ShutDown, Wake, Place
    <3> QED
      BY <1>1, <3>0, <3>1, <3>2, <3>3, <3>4 DEF Main
  <2>3. /\ UNCHANGED <<job, report, poweroffs, astray, early>>
        /\ wakeup' \in {wakeup, TRUE}
    BY <1>1
    DEF Main, StartFails, Start, Look, Hear, JoinLogin, ShutDown, Wake, JoinIo
  <2> QED
    BY <1>0, <2>1, <2>2, <2>3 DEF Fields
<1>2. CASE Login
  <2>1. early' \in BOOLEAN
    <3>1. CASE LoginFails \/ LoginTimesOut
      BY <3>1, Zenon DEF LoginFails, LoginTimesOut, Reports
    <3>2. CASE LoginFinds \/ LoginTypes
      BY <1>0, <3>2 DEF LoginFinds, LoginTypes, Fields
    <3> QED
      BY <1>2, <3>1, <3>2 DEF Login
  <2>2. login' \in 0 .. 5 /\ report' \in {"none", "timeout", "failed"}
    <3>1. Len(Actions(job)) = 5
      BY <1>0, FiveActions DEF Fields
    <3>2. login # 0
      BY <1>2
      DEF Login, LoginFinds, LoginFails, LoginTimesOut, LoginTypes, Found
    <3>3. login \in 1 .. 5 /\ Following \in 0 .. 5
      BY <1>0, <3>1, <3>2 DEF Fields, Following
    <3> QED
      BY <1>0, <1>2, <3>3
      DEF Fields, Login, LoginFinds, LoginFails, LoginTimesOut, LoginTypes, Reports
  <2>3. UNCHANGED <<job, mainVars, running, wakeup, guestVars, poweroffs>>
    BY <1>2 DEF Login, LoginFinds, LoginFails, LoginTimesOut, LoginTypes
  <2> QED
    BY <1>0, <2>1, <2>2, <2>3 DEF Fields
<1>3. CASE SendPoweroff
  BY <1>0, <1>3, BoundAssumption DEF SendPoweroff, Fields
<1>4. CASE StdinEnds \/ Stdout \/ Mux \/ MuxFails
  BY <1>0, <1>4
  DEF StdinEnds, Stdout, StdoutReads, StdoutEnds, Mux, MuxTakes, MuxWrites,
      MuxFails, Ends, Fields
<1>5. CASE Inside
  <2>1. astray' \in BOOLEAN
    <3>1. CASE GuestReads
      BY <1>0, <3>1, Zenon DEF GuestReads, Fields
    <3>2. CASE Inside /\ ~ GuestReads
      BY <1>0, <3>2
      DEF Inside, GuestBoots, GuestDiscards, ScriptEnds, GuestStops, Fields
    <3> QED
      BY <1>5, <3>1, <3>2
  <2>2. guest' \in Guest
    <3>1. CASE GuestReads
      BY <3>1 DEF GuestReads, Becomes, Guest
    <3>2. CASE Inside /\ ~ GuestReads
      BY <1>0, <3>2
      DEF Inside, GuestBoots, GuestDiscards, ScriptEnds, GuestStops, Becomes,
          Fields, Guest
    <3> QED
      BY <1>5, <3>1, <3>2
  <2>3. UNCHANGED <<job, mainVars, login, report, early, running, wakeup, poweroffs>>
    BY <1>5
    DEF Inside, GuestBoots, GuestDiscards, GuestReads, ScriptEnds, GuestStops
  <2> QED
    BY <1>0, <2>1, <2>2, <2>3 DEF Fields
<1> QED
  BY <1>1, <1>2, <1>3, <1>4, <1>5 DEF Next

\* What the login thread types, from the fourth action on a command.
LEMMA SendIsLine ==
  ASSUME IInv, login # 0, Action.send # "none"
  PROVE  Action.send \in Lines
<1>1. job \in {"provision", "session"} /\ login \in 1 .. 5
  BY DEF IInv, Fields
<1>2. CASE login \in {1, 3}
  BY <1>1, <1>2, FiveActions DEF Action, Expect
<1>3. CASE login = 2
  BY <1>1, <1>3, FiveActions DEF Action, Type, Lines
<1>4. CASE login = 4
  <2>1. Ready
    BY <1>4 DEF IInv
  <2> QED
    BY <1>1, <1>4, <2>1, FiveActions DEF Action, Type, Lines
<1>5. CASE login = 5
  <2>1. Ready
    BY <1>5 DEF IInv
  <2> QED
    BY <1>1, <1>5, <2>1, FiveActions DEF Action, Type, ExpectEither, Lines
<1> QED
  BY <1>1, <1>2, <1>3, <1>4, <1>5

\* A script on the way is typed in two parts, both of them commands.
LEMMA UnitsAreLines ==
  ASSUME NEW line \in Lines
  PROVE  Units(line) \in Seq(Lines) /\ Len(Units(line)) \in {1, 2}
<1>1. CASE line = "script"
  <2>1. "part" \in Lines
    BY <1>1 DEF Lines
  <2> QED
    BY <1>1, <2>1 DEF Units
<1>2. CASE line # "script"
  BY <1>2 DEF Units
<1> QED
  BY <1>1, <1>2

\* What the guest prints before there is a shell is a login prompt.
LEMMA GuestPrints ==
  ASSUME IInv, GuestBoots \/ GuestReads \/ ScriptEnds
  PROVE  \/ printed' = printed \o <<>>
         \/ \E text \in Texts' : printed' = printed \o <<text>>
<1>1. "login" \in Texts'
  BY DEF Texts, Text
<1>2. CASE GuestBoots
  BY <1>1, <1>2 DEF GuestBoots, Becomes
<1>3. CASE ScriptEnds
  <2>1. Texts' = Text
    BY <1>3 DEF ScriptEnds, Becomes, Texts, Ready
  <2>2. \E text \in Text : printed' = printed \o <<text>>
    BY <1>3 DEF ScriptEnds, Becomes, Text
  <2> QED
    BY <2>1, <2>2
<1>4. CASE GuestReads
  <2>1. \/ printed' = printed \o <<>>
        \/ guest' = "shell" /\ printed' = printed \o <<"prompt">>
        \/ guest' = "login" /\ printed' = printed \o <<"login">>
    BY <1>4 DEF GuestReads, Becomes
  <2>2. guest' = "shell" => "prompt" \in Texts'
    BY DEF Texts, Text, Ready
  <2> QED
    BY <1>1, <2>1, <2>2
<1> QED
  BY <1>2, <1>3, <1>4

LEMMA OnTheWayStep ==
  ASSUME IInv, Next
  PROVE  OnTheWay'
<1> USE DEF mainVars, loginVars, ioVars, guestVars
<1>1. /\ input \in Seq(Lines' \cup {"shutdown"})
      /\ writing \in Seq(Lines') /\ typed \in Seq(Lines')
      /\ monitor \in Seq(Texts') /\ printed \in Seq(Texts')
  <2>1. Lines \cup {"shutdown"} \subseteq Lines' \cup {"shutdown"}
    BY Growth
  <2> QED
    BY <2>1, Growth, SeqMonotonic DEF IInv, OnTheWay
<1>2. input' \in Seq(Lines' \cup {"shutdown"})
  <2>0. ASSUME NEW x \in Lines' \cup {"shutdown"}, Send(x)
        PROVE  input' \in Seq(Lines' \cup {"shutdown"})
    <3>1. input' \in {input, Append(input, x)}
      BY <2>0 DEF Send
    <3> QED
      BY <1>1, <3>1, AppendProperties
  <2>1. CASE ShutDown
    BY <2>0, <2>1 DEF ShutDown
  <2>2. CASE LoginTypes
    <3>1. Action.send \in Lines'
      BY <2>2, SendIsLine, Growth DEF LoginTypes
    <3> QED
      BY <2>0, <2>2, <3>1 DEF LoginTypes
  <2>3. CASE SendPoweroff
    <3>1. "poweroff" \in Lines'
      BY <2>3 DEF SendPoweroff, Lines, IInv, Fields
    <3> QED
      BY <2>0, <2>3, <3>1 DEF SendPoweroff
  <2>4. CASE MuxTakes
    BY <1>1, <2>4 DEF MuxTakes
  <2>5. CASE Next /\ ~ (ShutDown \/ LoginTypes \/ SendPoweroff \/ MuxTakes)
    <3>1. UNCHANGED input
      BY <2>5
      DEF Next, Main, StartFails, Start, Look, Hear, JoinLogin, Wake, JoinIo,
          Login, LoginFinds, LoginFails, LoginTimesOut, StdinEnds, Stdout,
          StdoutReads, StdoutEnds, Mux, MuxWrites, MuxFails, Inside, GuestBoots,
          GuestDiscards, GuestReads, ScriptEnds, GuestStops
    <3> QED
      BY <1>1, <3>1
  <2> QED
    BY <2>1, <2>2, <2>3, <2>4, <2>5
<1>3. writing' \in Seq(Lines')
  <2>1. CASE MuxTakes
    <3>1. CASE Head(input) = "shutdown"
      BY <1>1, <2>1, <3>1 DEF MuxTakes
    <3>2. CASE Head(input) # "shutdown"
      <4>1. Head(input) \in Lines
        BY <2>1, <3>2 DEF MuxTakes, IInv, OnTheWay
      <4>2. Units(Head(input)) \in Seq(Lines')
        BY <4>1, UnitsAreLines, Growth, SeqMonotonic
      <4> QED
        BY <2>1, <3>2, <4>2 DEF MuxTakes
    <3> QED
      BY <3>1, <3>2
  <2>2. CASE MuxWrites
    BY <1>1, <2>2 DEF MuxWrites
  <2>3. CASE MuxFails
    BY <2>3 DEF MuxFails
  <2>4. CASE Next /\ ~ (MuxTakes \/ MuxWrites \/ MuxFails)
    <3>1. UNCHANGED writing
      BY <2>4
      DEF Next, Main, StartFails, Start, Look, Hear, JoinLogin, ShutDown, Wake,
          JoinIo, Login, LoginFinds, LoginFails, LoginTimesOut, LoginTypes,
          SendPoweroff, StdinEnds, Stdout, StdoutReads, StdoutEnds, Mux, Inside,
          GuestBoots, GuestDiscards, GuestReads, ScriptEnds, GuestStops
    <3> QED
      BY <1>1, <3>1
  <2> QED
    BY <2>1, <2>2, <2>3, <2>4
<1>4. typed' \in Seq(Lines')
  <2>1. CASE MuxWrites
    BY <1>1, <2>1 DEF MuxWrites
  <2>2. CASE GuestDiscards \/ GuestReads
    <3>1. typed # <<>> /\ typed' = Tail(typed)
      BY <2>2 DEF GuestDiscards, GuestReads
    <3> QED
      BY <1>1, <3>1
  <2>3. CASE Next /\ ~ (MuxWrites \/ GuestDiscards \/ GuestReads)
    <3>1. UNCHANGED typed
      BY <2>3
      DEF Next, Main, StartFails, Start, Look, Hear, JoinLogin, ShutDown, Wake,
          JoinIo, Login, LoginFinds, LoginFails, LoginTimesOut, LoginTypes,
          SendPoweroff, StdinEnds, Stdout, StdoutReads, StdoutEnds, Mux,
          MuxTakes, MuxFails, Inside, GuestBoots, ScriptEnds, GuestStops
    <3> QED
      BY <1>1, <3>1
  <2> QED
    BY <2>1, <2>2, <2>3
<1>5. monitor' \in Seq(Texts')
  <2>1. CASE StdoutReads
    BY <1>1, <2>1 DEF StdoutReads
  <2>2. CASE LoginFinds \/ LoginFails
    <3> DEFINE n == FirstOf(Action.wait)
    <3>1. monitor \in Seq(Text) /\ n \in 0 .. Len(monitor)
      <4>1. Texts \subseteq Text
        BY DEF Texts, Text
      <4>2. monitor \in Seq(Text)
        BY <4>1, SeqMonotonic DEF IInv, OnTheWay
      <4> QED
        BY <4>2, FirstOfIsFound
    <3>2. monitor' = SubSeq(monitor, n + 1, Len(monitor))
      BY <2>2 DEF LoginFinds, LoginFails, Consume
    <3> HIDE DEF n
    <3>3. \A i \in n + 1 .. Len(monitor) : monitor[i] \in Texts'
      BY <1>1, <3>1
    <3>4. n + 1 \in Int /\ Len(monitor) \in Int
      BY <1>1, <3>1
    <3> QED
      BY <3>2, <3>3, <3>4, SubSeqProperties
  <2>3. CASE Next /\ ~ (StdoutReads \/ LoginFinds \/ LoginFails)
    <3>1. UNCHANGED monitor
      BY <2>3
      DEF Next, Main, StartFails, Start, Look, Hear, JoinLogin, ShutDown, Wake,
          JoinIo, Login, LoginTimesOut, LoginTypes, SendPoweroff, StdinEnds,
          Stdout, StdoutEnds, Mux, MuxTakes, MuxWrites, MuxFails, Inside,
          GuestBoots, GuestDiscards, GuestReads, ScriptEnds, GuestStops
    <3> QED
      BY <1>1, <3>1
  <2> QED
    BY <2>1, <2>2, <2>3
<1>6. printed' \in Seq(Texts')
  <2>1. CASE StdoutReads
    BY <1>1, <2>1 DEF StdoutReads
  <2>2. CASE GuestBoots \/ GuestReads \/ ScriptEnds
    <3>1. CASE printed' = printed \o <<>>
      BY <1>1, <3>1, ConcatEmptySeq
    <3>2. ASSUME NEW text \in Texts', printed' = printed \o <<text>>
          PROVE  printed' \in Seq(Texts')
      <4>1. <<text>> \in Seq(Texts')
        OBVIOUS
      <4> QED
        BY <1>1, <3>2, <4>1, ConcatProperties
    <3> QED
      BY <2>2, <3>1, <3>2, GuestPrints
  <2>3. CASE Next /\ ~ (StdoutReads \/ GuestBoots \/ GuestReads \/ ScriptEnds)
    <3>1. UNCHANGED printed
      BY <2>3
      DEF Next, Main, StartFails, Start, Look, Hear, JoinLogin, ShutDown, Wake,
          JoinIo, Login, LoginFinds, LoginFails, LoginTimesOut, LoginTypes,
          SendPoweroff, StdinEnds, Stdout, StdoutEnds, Mux, MuxTakes, MuxWrites,
          MuxFails, Inside, GuestDiscards, GuestStops
    <3> QED
      BY <1>1, <3>1
  <2> QED
    BY <2>1, <2>2, <2>3
<1> QED
  BY <1>2, <1>3, <1>4, <1>5, <1>6 DEF OnTheWay

\* The login thread gets past the wait for a prompt only with a shell.
LEMMA ReadyStep ==
  ASSUME IInv, Next, login' > 3
  PROVE  Ready'
<1> USE DEF loginVars
<1>1. login \in 0 .. 5 /\ job \in {"provision", "session"}
  BY DEF IInv, Fields
<1>2. CASE login > 3
  BY <1>2, Growth DEF IInv
<1>3. CASE ~ (login > 3)
  <2>1. login' \in {login, 0, 1, Following}
    BY
    DEF Next, Main, StartFails, Start, Look, Hear, JoinLogin, ShutDown, Wake,
        JoinIo, Login, LoginFinds, LoginFails, LoginTimesOut, LoginTypes, Reports,
        SendPoweroff, StdinEnds, Stdout, StdoutReads, StdoutEnds, Mux, MuxTakes,
        MuxWrites, MuxFails, Inside, GuestBoots, GuestDiscards, GuestReads,
        ScriptEnds, GuestStops
  <2>2. login = 3 /\ login' = 4
    BY <1>1, <1>3, <2>1, FiveActions DEF Following
  <2>3. Action = Expect("prompt")
    BY <1>1, <2>2, FiveActions DEF Action
  <2>4. Action.send = "none" /\ Action.wait = {"prompt"}
    BY <2>3 DEF Expect
  <2>5. LoginFinds
    BY <2>2, <2>4
    DEF Next, Main, StartFails, Start, Look, Hear, JoinLogin, ShutDown, Wake,
        JoinIo, Login, LoginFails, LoginTimesOut, LoginTypes, Reports,
        SendPoweroff, StdinEnds, Stdout, StdoutReads, StdoutEnds, Mux, MuxTakes,
        MuxWrites, MuxFails, Inside, GuestBoots, GuestDiscards, GuestReads,
        ScriptEnds, GuestStops
  <2> DEFINE n == FirstOf(Action.wait)
  <2>6. monitor \in Seq(Texts) /\ Texts \subseteq Text
    BY DEF IInv, OnTheWay, Texts, Text
  <2>7. n \in 1 .. Len(monitor) /\ monitor[n] = "prompt"
    <3>1. monitor \in Seq(Text)
      BY <2>6, SeqMonotonic
    <3>2. n # 0
      BY <2>5 DEF LoginFinds, Found
    <3> QED
      BY <2>4, <3>1, <3>2, FirstOfIsFound
  <2>8. monitor[n] \in Texts
    BY <2>6, <2>7, ElementOfSeq
  <2> QED
    BY <2>7, <2>8, Growth DEF Texts
<1> QED
  BY <1>2, <1>3

\* Of what is read at the login prompt nothing is a command.
LEMMA CommandsStep ==
  ASSUME IInv, Next
  PROVE  CommandsReachShell'
<1> USE DEF guestVars
<1>1. ~ astray /\ (guest = "password" => poweroffs > 0)
  BY DEF IInv, CommandsReachShell
<1>2. poweroffs \in Nat
  BY BoundAssumption DEF IInv, Fields
<1>3. CASE GuestReads
  <2>1. Head(typed) \in Lines
    BY <1>3 DEF GuestReads, IInv, OnTheWay
  <2>2. guest \in {"login", "password"} => Head(typed) \in {"root", "poweroff"}
    BY <2>1 DEF Lines, Ready
  <2>3. Head(typed) = "poweroff" => poweroffs > 0
    BY <2>1 DEF Lines
  <2>4. ~ astray'
    BY <1>1, <1>3, <2>2 DEF GuestReads
  <2>5. guest' = "password" => poweroffs > 0
    BY <1>1, <1>3, <2>2, <2>3 DEF GuestReads, Becomes
  <2>6. poweroffs' = poweroffs
    BY <1>3 DEF GuestReads
  <2> QED
    BY <2>4, <2>5, <2>6 DEF CommandsReachShell
<1>4. CASE ~ GuestReads
  <2>1. UNCHANGED astray
    BY <1>4
    DEF Next, Main, StartFails, Start, Look, Hear, JoinLogin, ShutDown, Wake,
        JoinIo, Login, LoginFinds, LoginFails, LoginTimesOut, LoginTypes,
        SendPoweroff, StdinEnds, Stdout, StdoutReads, StdoutEnds, Mux, MuxTakes,
        MuxWrites, MuxFails, Inside, GuestBoots, GuestDiscards, ScriptEnds,
        GuestStops
  <2>2. guest' = guest \/ guest' # "password"
    BY <1>4
    DEF Next, Main, StartFails, Start, Look, Hear, JoinLogin, ShutDown, Wake,
        JoinIo, Finishing, Login, LoginFinds, LoginFails, LoginTimesOut,
        LoginTypes, SendPoweroff, StdinEnds, Stdout, StdoutReads, StdoutEnds, Mux,
        MuxTakes, MuxWrites, MuxFails, Inside, GuestBoots, GuestDiscards,
        ScriptEnds, GuestStops, Becomes
  <2>3. poweroffs' \in {poweroffs, poweroffs + 1}
    BY <1>4
    DEF Next, Main, StartFails, Start, Look, Hear, JoinLogin, ShutDown, Wake,
        JoinIo, Login, LoginFinds, LoginFails, LoginTimesOut, LoginTypes,
        SendPoweroff, StdinEnds, Stdout, StdoutReads, StdoutEnds, Mux, MuxTakes,
        MuxWrites, MuxFails, Inside, GuestBoots, GuestDiscards, ScriptEnds,
        GuestStops
  <2> QED
    BY <1>1, <1>2, <2>1, <2>2, <2>3 DEF CommandsReachShell
<1> QED
  BY <1>3, <1>4

\* The loop is left with an error, or when the guest has stopped for good.
LEMMA HeardStep ==
  ASSUME IInv, Next
  PROVE  Heard'
<1> USE DEF mainVars, loginVars, guestVars
<1>1. Heard /\ NotStarted
  BY DEF IInv
<1>g. guest = "stopped" => guest' = "stopped"
  BY <1>1
  DEF Next, Main, StartFails, Start, Look, Hear, JoinLogin, ShutDown, Wake,
      JoinIo, Finishing, Login, LoginFinds, LoginFails, LoginTimesOut,
      LoginTypes, SendPoweroff, StdinEnds, Stdout, StdoutReads, StdoutEnds, Mux,
      MuxTakes, MuxWrites, MuxFails, Inside, GuestBoots, GuestDiscards, GuestReads,
      ScriptEnds, GuestStops, Becomes, NotStarted
<1>2. CASE Look
  <2>1. ~ alive' => guest' = "stopped"
    BY <1>2, <1>g, Zenon DEF Look
  <2> QED
    BY <1>1, <1>2, <2>1 DEF Look, Heard, EarlyReportIsHeard
<1>3. CASE StartFails \/ Start \/ JoinIo
  BY <1>1, <1>3
  DEF StartFails, Start, JoinIo, Finishing, Heard, EarlyReportIsHeard, NotStarted
<1>4. CASE Hear
  BY <1>1, <1>4 DEF Hear, Heard, EarlyReportIsHeard
<1>5. CASE JoinLogin \/ ShutDown \/ Wake
  BY <1>1, <1>5 DEF JoinLogin, ShutDown, Wake, Heard, EarlyReportIsHeard
<1>6. CASE LoginFails \/ LoginTimesOut
  <2>1. /\ UNCHANGED <<main, alive, result, guest>> /\ report' # "none"
        /\ early' => guest # "stopped"
    <3>1. early' => guest # "stopped"
      BY <1>6, Zenon DEF LoginFails, LoginTimesOut, Reports
    <3> QED
      BY <1>6, <3>1 DEF LoginFails, LoginTimesOut, Reports
  <2> QED
    BY <1>1, <2>1 DEF Heard, EarlyReportIsHeard
<1>7. CASE Next /\ ~ Main /\ ~ (LoginFails \/ LoginTimesOut)
  <2>1. UNCHANGED <<main, alive, result, report, early>>
    BY <1>7
    DEF Next, Login, LoginFinds, LoginTypes, SendPoweroff, StdinEnds, Stdout,
        StdoutReads, StdoutEnds, Mux, MuxTakes, MuxWrites, MuxFails, Inside,
        GuestBoots, GuestDiscards, GuestReads, ScriptEnds, GuestStops
  <2> QED
    BY <1>1, <1>g, <2>1 DEF Heard, EarlyReportIsHeard
<1> QED
  BY <1>2, <1>3, <1>4, <1>5, <1>6, <1>7 DEF Main

\* Sending puts one message more in the channel, at most.
LEMMA SendGrows ==
  ASSUME IInv, NEW message \in Line \cup {"shutdown"}, Send(message)
  PROVE  Len(input') \in {Len(input), Len(input) + 1}
<1>1. input \in Seq(Line \cup {"shutdown"})
  <2>1. Lines \cup {"shutdown"} \subseteq Line \cup {"shutdown"}
    BY DEF Lines, Line
  <2> QED
    BY <2>1, SeqMonotonic DEF IInv, OnTheWay
<1> QED
  BY <1>1, AppendProperties DEF Send

\* The channel and the pipe hold no more than was sent, and has room.
LEMMA RoomStep ==
  ASSUME IInv, Next
  PROVE  Room'
<1> USE DEF mainVars, loginVars, ioVars
<1>1. /\ Fields /\ Room /\ NotStarted
      /\ Len(input) \in Nat /\ Len(typed) \in Nat /\ Len(writing) \in Nat
  BY LenProperties DEF IInv, OnTheWay
<1>2. poweroffs \in Nat /\ login \in 0 .. 5 /\ Sent \in 0 .. 5 /\ Told \in {0, 1}
  BY <1>1, BoundAssumption DEF Fields, Sent, Told
<1>3. Len(input') <= Sent' + poweroffs' + Told'
  <2>1. CASE StartFails \/ Start
    <3>0. input' = <<>> /\ poweroffs' = poweroffs
      BY <1>1, <2>1 DEF StartFails, Start, NotStarted
    <3>1. Len(input') = 0 /\ poweroffs' = poweroffs
      BY <3>0
    <3>2. Sent' \in 0 .. 5 /\ Told' \in {0, 1}
      <4>1. login' \in {login, 1}
        BY <2>1 DEF StartFails, Start
      <4>2. login' \in 0 .. 5
        BY <1>2, <4>1
      <4> QED
        BY <4>2 DEF Sent, Told
    <3>3. Sent' \in Nat /\ Told' \in Nat /\ poweroffs' \in Nat
      BY <1>2, <3>1, <3>2
    <3>4. \A x, y, z \in Nat : x + y + z >= 0
      OBVIOUS
    <3> QED
      BY <3>1, <3>3, <3>4
  <2>2. CASE ShutDown
    <3>1. Len(input') \in {Len(input), Len(input) + 1}
      BY <2>2, SendGrows DEF ShutDown
    <3>2. Sent' = Sent /\ poweroffs' = poweroffs /\ Told = 0 /\ Told' = 1
      BY <2>2 DEF ShutDown, Sent, Told
    <3> QED
      BY <1>1, <1>2, <3>1, <3>2 DEF Room
  <2>3. CASE Look \/ Hear \/ JoinLogin \/ Wake \/ JoinIo
    <3>1. UNCHANGED <<input, login, poweroffs>> /\ main # "starting"
      BY <2>3 DEF Look, Hear, JoinLogin, Wake, JoinIo
    <3>2. main' # "starting" /\ Told' = Told
      BY <2>3 DEF Look, Hear, JoinLogin, Wake, JoinIo, Finishing, Told
    <3>3. Sent' = Sent
      BY <3>1, <3>2 DEF Sent
    <3> QED
      BY <1>1, <3>1, <3>2, <3>3 DEF Room
  <2>4. CASE Login
    <3>0. login # 0 /\ UNCHANGED <<main, poweroffs>>
      BY <2>4
      DEF Login, LoginFinds, LoginFails, LoginTimesOut, LoginTypes, Found
    <3>1. main # "starting" /\ login \in 1 .. 5 /\ Sent = login - 1
          /\ Told' = Told
      BY <1>1, <1>2, <3>0 DEF NotStarted, Sent, Told
    <3>2. login' \in {0, login + 1} /\ login' \in 0 .. 5
      <4>0. Len(Actions(job)) = 5
        BY <1>1, FiveActions DEF Fields
      <4>1. Following \in {0, login + 1} /\ Following \in 0 .. 5
        BY <3>1, <4>0 DEF Following
      <4> QED
        BY <2>4, <4>1
        DEF Login, LoginFinds, LoginFails, LoginTimesOut, LoginTypes, Reports
    <3>3. Sent' \in 0 .. 5 /\ Sent' >= Sent + 1
      <4>1. Sent' = IF login' = 0 THEN 5 ELSE login' - 1
        BY <3>0, <3>1 DEF Sent
      <4>2. CASE login' = 0
        BY <3>1, <4>1, <4>2
      <4>3. CASE login' = login + 1
        <5>1. Sent' = login
          BY <3>1, <4>1, <4>3
        <5> QED
          BY <3>1, <5>1
      <4> QED
        BY <3>2, <4>2, <4>3
    <3>4. Len(input') \in {Len(input), Len(input) + 1}
      <4>1. CASE LoginTypes
        <5>1. Action.send \in Line
          BY <4>1, SendIsLine DEF LoginTypes, Lines, Line
        <5> QED
          BY <4>1, <5>1, SendGrows DEF LoginTypes
      <4>2. CASE LoginFinds \/ LoginFails \/ LoginTimesOut
        BY <4>2 DEF LoginFinds, LoginFails, LoginTimesOut
      <4> QED
        BY <2>4, <4>1, <4>2 DEF Login
    <3> QED
      BY <1>1, <1>2, <3>0, <3>1, <3>3, <3>4 DEF Room
  <2>5. CASE SendPoweroff
    <3>1. Len(input') \in {Len(input), Len(input) + 1}
      BY <2>5, SendGrows DEF SendPoweroff, Line
    <3>2. Sent' = Sent /\ poweroffs' = poweroffs + 1 /\ Told' = Told
      BY <2>5 DEF SendPoweroff, Sent, Told
    <3> QED
      BY <1>1, <1>2, <3>1, <3>2 DEF Room
  <2>6. CASE MuxTakes
    <3>1. Len(input') = Len(input) - 1
      BY <2>6, HeadTailProperties DEF MuxTakes, IInv, OnTheWay
    <3>2. Sent' = Sent /\ poweroffs' = poweroffs /\ Told' = Told
      BY <2>6 DEF MuxTakes, Sent, Told
    <3> QED
      BY <1>1, <1>2, <3>1, <3>2 DEF Room
  <2>7. CASE StdinEnds \/ Stdout \/ MuxWrites \/ MuxFails \/ Inside
    <3>1. UNCHANGED <<input, poweroffs, main, login>>
      BY <2>7
      DEF StdinEnds, Stdout, StdoutReads, StdoutEnds, MuxWrites, MuxFails,
          Inside, GuestBoots, GuestDiscards, GuestReads, ScriptEnds, GuestStops
    <3>2. Sent' = Sent /\ Told' = Told
      BY <3>1 DEF Sent, Told
    <3> QED
      BY <1>1, <3>1, <3>2 DEF Room
  <2> QED
    BY <2>1, <2>2, <2>3, <2>4, <2>5, <2>6, <2>7 DEF Next, Main, Mux
<1>4. Len(writing') <= 2
  <2>1. CASE MuxTakes
    <3>1. CASE Head(input) = "shutdown"
      BY <1>1, <2>1, <3>1 DEF MuxTakes, Room
    <3>2. CASE Head(input) # "shutdown"
      <4>1. Head(input) \in Lines
        BY <2>1, <3>2 DEF MuxTakes, IInv, OnTheWay
      <4>2. Len(Units(Head(input))) \in {1, 2}
        BY <4>1, UnitsAreLines
      <4>3. writing' = Units(Head(input))
        BY <2>1, <3>2 DEF MuxTakes
      <4>4. Len(writing') \in {1, 2}
        BY <4>2, <4>3
      <4> QED
        BY <4>4
    <3> QED
      BY <3>1, <3>2
  <2>2. CASE MuxWrites
    <3>1. Len(writing') = Len(writing) - 1
      BY <2>2, HeadTailProperties DEF MuxWrites, IInv, OnTheWay
    <3>2. Len(writing) <= 2
      BY <1>1 DEF Room
    <3> QED
      BY <1>1, <3>1, <3>2
  <2>3. CASE MuxFails
    <3>1. writing' = <<>>
      BY <2>3 DEF MuxFails
    <3>2. Len(writing') = 0
      BY <3>1
    <3> QED
      BY <3>2
  <2>4. CASE Next /\ ~ (MuxTakes \/ MuxWrites \/ MuxFails)
    <3>1. UNCHANGED writing
      BY <2>4
      DEF Next, Main, StartFails, Start, Look, Hear, JoinLogin, ShutDown, Wake,
          JoinIo, Login, LoginFinds, LoginFails, LoginTimesOut, LoginTypes,
          SendPoweroff, StdinEnds, Stdout, StdoutReads, StdoutEnds, Mux, Inside,
          GuestBoots, GuestDiscards, GuestReads, ScriptEnds, GuestStops
    <3> QED
      BY <1>1, <3>1 DEF Room
  <2> QED
    BY <2>1, <2>2, <2>3, <2>4
<1>5. Len(typed') <= PipeRoom
  <2>1. CASE MuxWrites
    <3>1. Head(writing) \in Lines
      BY <2>1 DEF MuxWrites, IInv, OnTheWay
    <3>2. Len(typed') = Len(typed) + 1 /\ Len(typed) < PipeRoom
      BY <2>1, <3>1, AppendProperties DEF MuxWrites, IInv, OnTheWay
    <3> QED
      BY <1>1, <3>2, BoundAssumption
  <2>2. CASE GuestDiscards \/ GuestReads
    <3>1. typed # <<>> /\ typed' = Tail(typed)
      BY <2>2 DEF GuestDiscards, GuestReads
    <3>2. Len(typed') = Len(typed) - 1
      BY <3>1, HeadTailProperties DEF IInv, OnTheWay
    <3> QED
      BY <1>1, <3>2, BoundAssumption DEF Room
  <2>3. CASE Next /\ ~ (MuxWrites \/ GuestDiscards \/ GuestReads)
    <3>1. UNCHANGED typed
      BY <2>3
      DEF Next, Main, StartFails, Start, Look, Hear, JoinLogin, ShutDown, Wake,
          JoinIo, Login, LoginFinds, LoginFails, LoginTimesOut, LoginTypes,
          SendPoweroff, StdinEnds, Stdout, StdoutReads, StdoutEnds, Mux,
          MuxTakes, MuxFails, Inside, GuestBoots, ScriptEnds, GuestStops
    <3> QED
      BY <1>1, <3>1 DEF Room
  <2> QED
    BY <2>1, <2>2, <2>3
<1> QED
  BY <1>3, <1>4, <1>5 DEF Room

LEMMA NotStartedStep ==
  ASSUME IInv, Next
  PROVE  NotStarted'
<1>1. main' # "starting" \/ UNCHANGED <<main, running, input, guest, login>>
  BY
  DEF Next, Main, StartFails, Start, Look, Hear, JoinLogin, ShutDown, Wake,
      JoinIo, Finishing, Login, LoginFinds, LoginFails, LoginTimesOut,
      LoginTypes, Found, SendPoweroff, StdinEnds, Stdout, StdoutReads,
      StdoutEnds, Mux, MuxTakes, MuxWrites, MuxFails, Ends, Inside, GuestBoots,
      GuestDiscards, GuestReads, ScriptEnds, GuestStops, IInv, NotStarted,
      mainVars, loginVars, ioVars, guestVars
<1> QED
  BY <1>1 DEF IInv, NotStarted

-----------------------------------------------------------------------------
(***************************************************************************)
(* The invariant.                                                          *)
(***************************************************************************)
LEMMA InitInvariant == Init => IInv
<1> SUFFICES ASSUME Init PROVE IInv
  OBVIOUS
<1> USE DEF Init
<1>1. Fields
  <2>1. /\ alive \in BOOLEAN /\ wakeup \in BOOLEAN
        /\ astray \in BOOLEAN /\ early \in BOOLEAN
    BY Zenon
  <2>2. 0 \in 0 .. MaxPoweroffs
    BY BoundAssumption
  <2> QED
    BY <2>1, <2>2 DEF Fields, Place, Guest
<1>2. OnTheWay
  BY DEF OnTheWay
<1>3. Room
  <2>1. Len(input) = 0 /\ Len(writing) = 0 /\ Len(typed) = 0
    OBVIOUS
  <2>2. Sent = 0 /\ Told = 0 /\ poweroffs = 0
    BY DEF Sent, Told
  <2> QED
    BY <2>1, <2>2, BoundAssumption DEF Room
<1>4. NotStarted /\ CommandsReachShell /\ Heard /\ ~ (login > 3)
  BY DEF NotStarted, CommandsReachShell, Heard, EarlyReportIsHeard
<1> QED
  BY <1>1, <1>2, <1>3, <1>4 DEF IInv

LEMMA NextInvariant == IInv /\ [Next]_vars => IInv'
<1> SUFFICES ASSUME IInv, [Next]_vars PROVE IInv'
  OBVIOUS
<1>1. CASE Next
  BY <1>1, FieldsStep, OnTheWayStep, RoomStep, NotStartedStep, ReadyStep,
     CommandsStep, HeardStep
  DEF IInv
<1>2. CASE UNCHANGED vars
  <2>1. Fields' /\ NotStarted' /\ CommandsReachShell' /\ Heard'
    BY <1>2
    DEF vars, IInv, Fields, NotStarted, CommandsReachShell, Heard,
        EarlyReportIsHeard
  <2>2. /\ Ready' = Ready /\ Lines' = Lines /\ Texts' = Texts
        /\ Sent' = Sent /\ Told' = Told
    BY <1>2 DEF vars, Ready, Lines, Texts, Sent, Told
  <2>3. OnTheWay' /\ Room'
    BY <1>2, <2>2 DEF vars, IInv, OnTheWay, Room
  <2> QED
    BY <1>2, <2>1, <2>2, <2>3 DEF vars, IInv
<1> QED
  BY <1>1, <1>2

LEMMA InvariantTypes == IInv => TypeOK
<1> SUFFICES ASSUME IInv PROVE TypeOK
  OBVIOUS
<1>1. Fields /\ OnTheWay /\ Room
  BY DEF IInv
<1>2. /\ Lines \subseteq Line /\ Texts \subseteq Text
      /\ Lines \cup {"shutdown"} \subseteq Line \cup {"shutdown"}
  BY DEF Lines, Line, Texts, Text
<1>3. /\ monitor \in Seq(Text) /\ printed \in Seq(Text)
      /\ input \in Seq(Line \cup {"shutdown"}) /\ typed \in Seq(Line)
      /\ writing \in Seq(Line)
  BY <1>1, <1>2, SeqMonotonic DEF OnTheWay
<1>4. Len(Actions(job)) = 5
  BY <1>1, FiveActions DEF Fields
<1>5. Len(input) <= Len(Actions(job)) + MaxPoweroffs + 1
  <2>1. poweroffs \in Nat /\ MaxPoweroffs \in Nat /\ poweroffs <= MaxPoweroffs
    BY <1>1, BoundAssumption DEF Fields
  <2>2. Sent \in 0 .. 5 /\ Told \in 0 .. 1
    <3>1. login \in 0 .. 5
      BY <1>1 DEF Fields
    <3> QED
      BY <3>1 DEF Sent, Told
  <2>3. Len(input) \in Nat
    BY <1>3, LenProperties
  <2>4. Len(input) <= Sent + poweroffs + Told
    BY <1>1 DEF Room
  <2> QED
    BY <1>4, <2>1, <2>2, <2>3, <2>4
<1>6. Len(writing) <= 2 /\ Len(typed) <= PipeRoom
  BY <1>1 DEF Room
<1> QED
  BY <1>1, <1>3, <1>4, <1>5, <1>6 DEF TypeOK, Fields

LEMMA Invariance == Spec => []IInv
BY InitInvariant, NextInvariant, PTL DEF Spec

(***************************************************************************)
(* Every variable of a run keeps its type, whatever the threads, the event *)
(* loop and the guest do; and the channel to mux never holds more than the *)
(* login actions, the event loop's lines and one shutdown.                 *)
(***************************************************************************)
THEOREM TypeCorrect == Spec => []TypeOK
BY Invariance, InvariantTypes, PTL

(***************************************************************************)
(* The mount commands and the scripts that the login thread types are read *)
(* by a shell of the guest and never by its login prompt: its fourth action*)
(* waits for the prompt of a shell, and no login prompt follows one.       *)
(***************************************************************************)
THEOREM CommandsFindShell == Spec => []CommandsReachShell
<1>1. IInv => CommandsReachShell
  BY DEF IInv
<1> QED
  BY <1>1, Invariance, PTL

(***************************************************************************)
(* A failure reported while the guest runs makes run_vm_with_io return an  *)
(* error: it leaves its loop without one only once the guest has stopped   *)
(* and it then still looks for a report, which precedes the stop.          *)
(***************************************************************************)
THEOREM ReportIsHeard == Spec => []EarlyReportIsHeard
<1>1. IInv => EarlyReportIsHeard
  BY DEF IInv, Heard
<1> QED
  BY <1>1, Invariance, PTL

=============================================================================
