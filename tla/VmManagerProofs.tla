--------------------------- MODULE VmManagerProofs ---------------------------
(***************************************************************************)
(* The safety of VmManager for every number of connections and every       *)
(* grace period, retry delay and hard timeout.                             *)
(***************************************************************************)
EXTENDS VmManager, FiniteSetTheorems, TLAPS

(***************************************************************************)
(* The events of two connections, or of one connection, are different.     *)
(***************************************************************************)
LEMMA EventsDiffer ==
  ASSUME NEW c, NEW d
  PROVE  /\ Inc(c) # Dec(d)
         /\ Inc(c) = Inc(d) => c = d
         /\ Dec(c) = Dec(d) => c = d
         /\ Inc(c) # VmExited
         /\ Dec(c) # VmExited
  <1>1. /\ Inc(c).kind = "Inc" /\ Inc(c).conn = c
        /\ Inc(d).conn = d
        /\ Dec(c).kind = "Dec" /\ Dec(c).conn = c
        /\ Dec(d).kind = "Dec" /\ Dec(d).conn = d
        /\ VmExited.kind = "VmExited"
    BY DEF Inc, Dec, VmExited
  <1> QED  BY <1>1

(***************************************************************************)
(* What a send and a receive do to a channel.                              *)
(***************************************************************************)
LEMMA AppendIndex ==
  ASSUME NEW S, NEW s \in Seq(S), NEW e \in S
  PROVE  /\ Append(s, e) \in Seq(S)
         /\ DOMAIN Append(s, e) = DOMAIN s \cup {Len(s) + 1}
         /\ Len(s) + 1 \notin DOMAIN s
         /\ \A i \in DOMAIN s : Append(s, e)[i] = s[i] /\ i < Len(s) + 1
         /\ Append(s, e)[Len(s) + 1] = e
  OBVIOUS

LEMMA TailIndex ==
  ASSUME NEW S, NEW s \in Seq(S), s # <<>>
  PROVE  /\ Tail(s) \in Seq(S)
         /\ 1 \in DOMAIN s /\ Head(s) = s[1]
         /\ DOMAIN s \subseteq Nat \ {0}
         /\ \A i \in DOMAIN Tail(s) :
              i \in Nat /\ i + 1 \in DOMAIN s /\ Tail(s)[i] = s[i + 1]
         /\ \A i \in DOMAIN s :
              i # 1 => i - 1 \in DOMAIN Tail(s) /\ Tail(s)[i - 1] = s[i]
  OBVIOUS

-----------------------------------------------------------------------------
(***************************************************************************)
(* Type correctness.                                                       *)
(***************************************************************************)
LEMMA InitType == Init => TypeOK
<1> SUFFICES ASSUME Init PROVE TypeOK
  OBVIOUS
<1>1. /\ accepting \in BOOLEAN /\ shutdownSent \in BOOLEAN
      /\ console \in BOOLEAN /\ typed \in BOOLEAN /\ sockFile \in BOOLEAN
  BY Zenon DEF Init
<1>2. <<>> \in Seq(Event)
  OBVIOUS
<1> QED
  BY <1>1, <1>2 DEF Init, TypeOK, Countdown

LEMMA NextType == TypeOK /\ [Next]_vars => TypeOK'
<1> SUFFICES ASSUME TypeOK, [Next]_vars PROVE TypeOK'
  OBVIOUS
<1> USE TimeAssumption DEF TypeOK, Countdown, connVars, loopVars, vmVars,
                           mainVars
<1>post. ASSUME NEW e \in Event, Post(e) PROVE events' \in Seq(Event)
  BY <1>post, AppendIndex DEF Post
<1>ev. /\ \A c \in Conn : Inc(c) \in Event /\ Dec(c) \in Event
       /\ VmExited \in Event
  BY DEF Event
<1>tail. ASSUME events # <<>> PROVE Tail(events) \in Seq(Event)
  BY <1>tail, TailIndex
<1>1. ASSUME NEW c \in Conn, Connect(c) \/ Leave(c) \/ Accept(c) PROVE TypeOK'
  BY <1>1 DEF Connect, Leave, Accept
<1>2. ASSUME NEW c \in Conn, SendInc(c) PROVE TypeOK'
  BY <1>2, <1>post, <1>ev DEF SendInc, ReadClientPid
<1>3. ASSUME NEW c \in Conn, SendDec(c) PROVE TypeOK'
  BY <1>3, <1>post, <1>ev DEF SendDec, WaitForDisconnect
<1>4. CASE AcceptError
  <2>1. accepting' \in BOOLEAN
    BY <1>4, Zenon DEF AcceptError
  <2> QED
    BY <1>4, <2>1 DEF AcceptError
<1>5. ASSUME NEW c \in Conn, LoopInc(c) PROVE TypeOK'
  <2>1. events' \in Seq(Event)
    BY <1>5, <1>tail DEF LoopInc, CountIn, Receive
  <2>2. shutdownSent' \in BOOLEAN
    BY <1>5, Zenon DEF LoopInc, CountIn
  <2> QED
    BY <1>5, <2>1, <2>2 DEF LoopInc, CountIn
<1>6. ASSUME NEW c \in Conn, LoopDec(c) PROVE TypeOK'
  BY <1>6, <1>tail DEF LoopDec, Receive
<1>7. CASE LoopVmExited
  BY <1>7 DEF LoopVmExited
<1>8. CASE LoopTimeout
  BY <1>8 DEF LoopTimeout, GraceOver, PowersOff
<1>9. CASE VmStep
  <2>1. CASE PrepareFails \/ PreparePanics
    BY <2>1 DEF PrepareFails, PreparePanics
  <2>2. CASE VmStarts
    <3>1. console' \in BOOLEAN
      BY <2>2, Zenon DEF VmStarts
    <3> QED
      BY <2>2, <3>1 DEF VmStarts
  <2>3. CASE GuestPowersOff \/ GuestIgnoresPoweroff
    <3>1. typed' \in BOOLEAN
      BY <2>3, Zenon DEF GuestPowersOff, GuestIgnoresPoweroff
    <3> QED
      BY <2>3, <3>1 DEF GuestPowersOff, GuestIgnoresPoweroff
  <2>4. CASE GuestStops
    BY <2>4 DEF GuestStops
  <2> QED
    BY <1>9, <2>1, <2>2, <2>3, <2>4 DEF VmStep
<1>10. CASE MuxEnds
  BY <1>10 DEF MuxEnds
<1>11. CASE RunVmReturns \/ JoinLoop \/ Exit
  BY <1>11 DEF RunVmReturns, JoinLoop, Exit
<1>12. CASE ReportExit
  BY <1>12, <1>post, <1>ev DEF ReportExit
<1>13. CASE Tick
  BY <1>13 DEF Tick, CountDown
<1>14. CASE UNCHANGED vars
  BY <1>14 DEF vars
<1> QED
  BY <1>1, <1>2, <1>3, <1>4, <1>5, <1>6, <1>7, <1>8, <1>9, <1>10, <1>11,
     <1>12, <1>13, <1>14 DEF Next, HandlerStep, LoopStep, MainStep

(***************************************************************************)
(* Every variable keeps its type (the whole of vm_manager.rs).             *)
(***************************************************************************)
THEOREM TypeCorrect == Spec => []TypeOK
  BY InitType, NextType, PTL DEF Spec

-----------------------------------------------------------------------------
(***************************************************************************)
(* The channel.  Most steps send and receive nothing; the others append    *)
(* one event, take the first, or drop them all.                            *)
(***************************************************************************)
LEMMA QueuedAppend ==
  ASSUME TypeOK, NEW e \in Event, events' = Append(events, e), NEW x
  PROVE  Queued(x)' <=> Queued(x) \/ x = e
  BY AppendIndex DEF TypeOK, Queued

LEMMA QueuedTail ==
  ASSUME TypeOK, SentOnce, events # <<>>, events' = Tail(events),
         NEW x \in Event, x # VmExited
  PROVE  Queued(x)' <=> Queued(x) /\ x # Head(events)
<1> USE DEF TypeOK
<1>1. ASSUME Queued(x)' PROVE Queued(x) /\ x # Head(events)
  <2>1. PICK i \in DOMAIN Tail(events) : Tail(events)[i] = x
    BY <1>1 DEF Queued
  <2>2. i \in Nat \ {0} /\ i + 1 \in DOMAIN events /\ events[i + 1] = x
    BY <2>1, TailIndex
  <2> QED
    BY <2>2, TailIndex DEF Queued, SentOnce
<1>2. ASSUME Queued(x), x # Head(events) PROVE Queued(x)'
  <2>1. PICK i \in DOMAIN events : events[i] = x
    BY <1>2 DEF Queued
  <2>2. i # 1
    BY <1>2, <2>1, TailIndex
  <2> QED
    BY <2>1, <2>2, TailIndex DEF Queued
<1> QED
  BY <1>1, <1>2

\* The order of the channel, on any sequence of events.
Ordered(s, h) ==
  /\ \A i, j \in DOMAIN s : s[i] = s[j] /\ s[i] # VmExited => i = j
  /\ \A c \in Conn : \A i \in DOMAIN s :
       s[i] = Inc(c) /\ h[c] = "done"
         => \E j \in DOMAIN s : i < j /\ s[j] = Dec(c)

LEMMA OrderedTail ==
  ASSUME NEW s \in Seq(Event), s # <<>>, NEW h, Ordered(s, h)
  PROVE  Ordered(Tail(s), h)
<1>1. ASSUME NEW i \in DOMAIN Tail(s), NEW j \in DOMAIN Tail(s),
             Tail(s)[i] = Tail(s)[j], Tail(s)[i] # VmExited
      PROVE  i = j
  BY <1>1, TailIndex DEF Ordered
<1>2. ASSUME NEW c \in Conn, NEW i \in DOMAIN Tail(s),
             Tail(s)[i] = Inc(c), h[c] = "done"
      PROVE  \E j \in DOMAIN Tail(s) : i < j /\ Tail(s)[j] = Dec(c)
  <2>1. PICK j \in DOMAIN s : i + 1 < j /\ s[j] = Dec(c)
    BY <1>2, TailIndex DEF Ordered
  <2>2. j # 1 /\ i < j - 1
    BY <2>1, TailIndex
  <2> QED
    BY <2>1, <2>2, TailIndex
<1> QED
  BY <1>1, <1>2 DEF Ordered

LEMMA OrderedAppend ==
  ASSUME NEW s \in Seq(Event), NEW h, NEW e \in Event, Ordered(s, h),
         e # VmExited => \A i \in DOMAIN s : s[i] # e,
         \A c \in Conn : e = Inc(c) => h[c] # "done"
  PROVE  Ordered(Append(s, e), h)
<1> DEFINE t == Append(s, e)
<1>1. ASSUME NEW i \in DOMAIN t, NEW j \in DOMAIN t, t[i] = t[j],
t[i] # VmExited
      PROVE  i = j
  BY <1>1, AppendIndex DEF Ordered
<1>2. ASSUME NEW c \in Conn, NEW i \in DOMAIN t, t[i] = Inc(c), h[c] = "done"
      PROVE  \E j \in DOMAIN t : i < j /\ t[j] = Dec(c)
  <2>1. i \in DOMAIN s /\ s[i] = Inc(c)
    BY <1>2, AppendIndex
  <2>2. PICK j \in DOMAIN s : i < j /\ s[j] = Dec(c)
    BY <2>1, <1>2 DEF Ordered
  <2> QED
    BY <2>2, AppendIndex
<1> QED
  BY <1>1, <1>2 DEF Ordered

\* Which steps leave the channel and the handlers' progress alone.
Bystander == UNCHANGED <<handler, events, loop, refCount>>

LEMMA Bystanders ==
  ASSUME [Next]_vars
  PROVE  \/ Bystander
         \/ \E c \in Conn :
              Accept(c) \/ SendInc(c) \/ SendDec(c) \/ LoopInc(c) \/ LoopDec(c)
         \/ LoopVmExited
         \/ ReportExit
<1> USE DEF Bystander, connVars, loopVars, vmVars, mainVars
<1>1. ASSUME NEW c \in Conn, Connect(c) \/ Leave(c) PROVE Bystander
  BY <1>1 DEF Connect, Leave
<1>2. CASE AcceptError \/ LoopTimeout \/ MuxEnds \/ Tick
  BY <1>2 DEF AcceptError, LoopTimeout, MuxEnds, Tick
<1>3. CASE VmStep
  BY <1>3 DEF VmStep, PrepareFails, PreparePanics, VmStarts, GuestPowersOff,
              GuestIgnoresPoweroff, GuestStops
<1>4. CASE RunVmReturns \/ JoinLoop \/ Exit
  BY <1>4 DEF RunVmReturns, JoinLoop, Exit
<1>5. CASE UNCHANGED vars
  BY <1>5 DEF vars
<1> QED
  BY <1>1, <1>2, <1>3, <1>4, <1>5 DEF Next, HandlerStep, LoopStep, MainStep

LEMMA InitChannel == Init => ChannelInv
  BY DEF Init, ChannelInv, NotYetSent, SentOnce, IncBeforeDec, ReceiverDropped,
         Queued

LEMMA NextChannel ==
  ASSUME TypeOK, ChannelInv, [Next]_vars
  PROVE  ChannelInv'
<1> USE DEF connVars, loopVars, vmVars, mainVars
<1>o. Ordered(events, handler)
  BY DEF ChannelInv, SentOnce, IncBeforeDec, Ordered
<1>p. ASSUME NotYetSent', Ordered(events', handler'), ReceiverDropped'
      PROVE  ChannelInv'
  BY <1>p DEF ChannelInv, SentOnce, IncBeforeDec, Ordered
<1>ev. \A c \in Conn : Inc(c) \in Event /\ Dec(c) \in Event
  BY DEF Event
<1>1. CASE Bystander
  BY <1>1 DEF Bystander, ChannelInv, NotYetSent, SentOnce, IncBeforeDec,
              ReceiverDropped, Queued
<1>2. ASSUME NEW c \in Conn, Accept(c) PROVE ChannelInv'
  <2>1. events' = events /\ loop' = loop
        /\ handler[c] = "none" /\ handler' = [handler EXCEPT ![c] = "reading"]
    BY <1>2 DEF Accept
  <2>2. \A d \in Conn : handler'[d] = IF d = c THEN "reading" ELSE handler[d]
    BY <2>1 DEF TypeOK
  <2> QED
    BY <2>1, <2>2 DEF ChannelInv, NotYetSent, SentOnce, IncBeforeDec,
                      ReceiverDropped, Queued
<1>3. ASSUME NEW c \in Conn, SendInc(c) PROVE ChannelInv'
  <2>1. /\ handler[c] = "reading"
        /\ \A d \in Conn : handler'[d] = IF d = c THEN "watching" ELSE handler[d]
        /\ loop' = loop
    BY <1>3 DEF SendInc, ReadClientPid, TypeOK
  <2>2. CASE loop = "running"
    <3>1. events' = Append(events, Inc(c))
      BY <1>3, <2>2 DEF SendInc, ReadClientPid, Post
    <3>2. \A d \in Conn : /\ Queued(Inc(d))' => Queued(Inc(d)) \/ d = c
                          /\ Queued(Dec(d))' => Queued(Dec(d))
      BY <3>1, <1>ev, QueuedAppend, EventsDiffer
    <3>3. NotYetSent'
      <4> SUFFICES ASSUME NEW d \in Conn
                   PROVE  /\ handler'[d] \in {"none", "reading"} => ~ Queued(Inc(d))'
                          /\ handler'[d] # "done" => ~ Queued(Dec(d))'
        BY DEF NotYetSent
      <4> QED
        BY <2>1, <3>2 DEF ChannelInv, NotYetSent
    <3>4. Ordered(events, handler')
      BY <1>o, <2>1 DEF Ordered
    <3>5. \A i \in DOMAIN events : events[i] # Inc(c)
      BY <2>1 DEF ChannelInv, NotYetSent, Queued
    <3>6. \A d \in Conn : Inc(c) = Inc(d) => handler'[d] # "done"
      BY <2>1, EventsDiffer
    <3>7. Ordered(events', handler')
      BY <3>1, <3>4, <3>5, <3>6, <1>ev, OrderedAppend DEF TypeOK
    <3> QED
      BY <3>3, <3>7, <2>1, <2>2, <1>p DEF ReceiverDropped
  <2>3. CASE loop # "running"
    <3>1. events' = events /\ events = <<>>
      BY <1>3, <2>3 DEF SendInc, ReadClientPid, Post, ChannelInv,
                        ReceiverDropped, TypeOK
    <3> QED
      BY <3>1, <2>1 DEF ChannelInv, NotYetSent, SentOnce, IncBeforeDec,
                        ReceiverDropped, Queued
  <2> QED
    BY <2>2, <2>3
<1>4. ASSUME NEW c \in Conn, SendDec(c) PROVE ChannelInv'
  <2>1. /\ handler[c] = "watching"
        /\ \A d \in Conn : handler'[d] = IF d = c THEN "done" ELSE handler[d]
        /\ loop' = loop
    BY <1>4 DEF SendDec, WaitForDisconnect, TypeOK
  <2>2. CASE loop = "running"
    <3>1. events' = Append(events, Dec(c))
      BY <1>4, <2>2 DEF SendDec, WaitForDisconnect, Post
    <3>2. \A d \in Conn : /\ Queued(Inc(d))' => Queued(Inc(d))
                          /\ Queued(Dec(d))' => Queued(Dec(d)) \/ d = c
      BY <3>1, <1>ev, QueuedAppend, EventsDiffer
    <3>3. NotYetSent'
      <4> SUFFICES ASSUME NEW d \in Conn
                   PROVE  /\ handler'[d] \in {"none", "reading"} => ~ Queued(Inc(d))'
                          /\ handler'[d] # "done" => ~ Queued(Dec(d))'
        BY DEF NotYetSent
      <4> QED
        BY <2>1, <3>2 DEF ChannelInv, NotYetSent
    <3>4. \A i \in DOMAIN events : events[i] # Dec(c)
      BY <2>1 DEF ChannelInv, NotYetSent, Queued
    <3>5. Ordered(events, handler)
      BY <1>o
    <3>6. Ordered(Append(events, Dec(c)), handler)
      BY <3>4, <3>5, <1>ev, EventsDiffer, OrderedAppend DEF TypeOK
    <3>7. ASSUME NEW i \in DOMAIN events', events'[i] = Inc(c)
          PROVE  \E j \in DOMAIN events' : i < j /\ events'[j] = Dec(c)
      BY <3>1, <3>7, <1>ev, AppendIndex, EventsDiffer DEF TypeOK
    <3>8. Ordered(events', handler')
      <4>1. ASSUME NEW d \in Conn, NEW i \in DOMAIN events',
                   events'[i] = Inc(d), handler'[d] = "done"
            PROVE  \E j \in DOMAIN events' : i < j /\ events'[j] = Dec(d)
        <5>1. CASE d = c
          BY <4>1, <5>1, <3>7
        <5>2. CASE d # c
          BY <4>1, <5>2, <3>1, <3>6, <2>1 DEF Ordered
        <5> QED
          BY <5>1, <5>2
      <4> QED
        BY <4>1, <3>1, <3>6 DEF Ordered
    <3> QED
      BY <3>3, <3>8, <2>1, <2>2, <1>p DEF ReceiverDropped
  <2>3. CASE loop # "running"
    <3>1. events' = events /\ events = <<>>
      BY <1>4, <2>3 DEF SendDec, WaitForDisconnect, Post, ChannelInv,
                        ReceiverDropped, TypeOK
    <3> QED
      BY <3>1, <2>1 DEF ChannelInv, NotYetSent, SentOnce, IncBeforeDec,
                        ReceiverDropped, Queued
  <2> QED
    BY <2>2, <2>3
<1>5. ASSUME NEW c \in Conn, LoopInc(c) \/ LoopDec(c) PROVE ChannelInv'
  <2>1. /\ events # <<>> /\ events' = Tail(events)
        /\ handler' = handler
        /\ loop = "running" /\ loop' = loop
    BY <1>5 DEF LoopInc, CountIn, LoopDec, Receive
  <2>2. \A d \in Conn : /\ Queued(Inc(d))' => Queued(Inc(d))
                        /\ Queued(Dec(d))' => Queued(Dec(d))
    BY <2>1, <1>ev, QueuedTail, EventsDiffer DEF ChannelInv
  <2>3. NotYetSent'
    BY <2>1, <2>2 DEF ChannelInv, NotYetSent, Queued
  <2>4. Ordered(events', handler')
    BY <2>1, <1>o, OrderedTail DEF TypeOK
  <2> QED
    BY <2>1, <2>3, <2>4, <1>p DEF ReceiverDropped
<1>6. CASE LoopVmExited
  <2>1. events' = <<>> /\ handler' = handler
    BY <1>6 DEF LoopVmExited
  <2> QED
    BY <2>1 DEF ChannelInv, NotYetSent, SentOnce, IncBeforeDec,
                ReceiverDropped, Queued
<1>7. CASE ReportExit
  <2>1. handler' = handler /\ loop' = loop
    BY <1>7 DEF ReportExit
  <2>2. CASE loop = "running"
    <3>1. events' = Append(events, VmExited) /\ VmExited \in Event
      BY <1>7, <2>2 DEF ReportExit, Post, Event
    <3>2. \A d \in Conn : /\ Queued(Inc(d))' => Queued(Inc(d))
                          /\ Queued(Dec(d))' => Queued(Dec(d))
      BY <3>1, QueuedAppend, EventsDiffer
    <3>3. NotYetSent'
      <4> SUFFICES ASSUME NEW d \in Conn
                   PROVE  /\ handler'[d] \in {"none", "reading"} => ~ Queued(Inc(d))'
                          /\ handler'[d] # "done" => ~ Queued(Dec(d))'
        BY DEF NotYetSent
      <4> QED
        BY <2>1, <3>2 DEF ChannelInv, NotYetSent
    <3>4. Ordered(events', handler')
      BY <3>1, <2>1, <1>o, EventsDiffer, OrderedAppend DEF TypeOK
    <3> QED
      BY <3>3, <3>4, <2>1, <2>2, <1>p DEF ReceiverDropped
  <2>3. CASE loop # "running"
    <3>1. events' = events
      BY <1>7, <2>3 DEF ReportExit, Post
    <3> QED
      BY <3>1, <2>1 DEF ChannelInv, NotYetSent, SentOnce, IncBeforeDec,
                        ReceiverDropped, Queued
  <2> QED
    BY <2>2, <2>3
<1> QED
  BY <1>1, <1>2, <1>3, <1>4, <1>5, <1>6, <1>7, Bystanders

-----------------------------------------------------------------------------
(***************************************************************************)
(* The counted connections: only the loop's Inc and Dec change them, each  *)
(* by the connection whose event it takes.                                 *)
(***************************************************************************)
LEMMA CountedUnchanged ==
  ASSUME \A c \in Conn : IsCounted(c)' <=> IsCounted(c)
  PROVE  Counted' = Counted
  BY DEF Counted

LEMMA IncCounts ==
  ASSUME TypeOK, ChannelInv, NEW c \in Conn, LoopInc(c)
  PROVE  c \notin Counted /\ Counted' = Counted \cup {c}
<1>1. /\ events # <<>> /\ events' = Tail(events) /\ Head(events) = Inc(c)
      /\ handler' = handler
  BY DEF LoopInc, CountIn, Receive, connVars
<1>2. Queued(Inc(c))
  BY <1>1, TailIndex DEF TypeOK, Queued
<1>3. handler[c] \in {"watching", "done"}
  BY <1>2 DEF ChannelInv, NotYetSent, TypeOK
<1>4. handler[c] = "done" => Queued(Dec(c))
  BY <1>2 DEF ChannelInv, IncBeforeDec, Queued
<1>5. \A d \in Conn : IsCounted(d)' <=> IsCounted(d) \/ d = c
  <2> TAKE d \in Conn
  <2>1. /\ Queued(Inc(d))' <=> Queued(Inc(d)) /\ d # c
        /\ Queued(Dec(d))' <=> Queued(Dec(d))
    BY <1>1, QueuedTail, EventsDiffer DEF ChannelInv, Event
  <2> QED
    BY <1>1, <1>3, <1>4, <2>1 DEF IsCounted
<1> QED
  BY <1>2, <1>5 DEF Counted, IsCounted

LEMMA DecCounts ==
  ASSUME TypeOK, ChannelInv, NEW c \in Conn, LoopDec(c)
  PROVE  c \in Counted /\ Counted' = Counted \ {c}
<1>1. /\ events # <<>> /\ events' = Tail(events) /\ Head(events) = Dec(c)
      /\ handler' = handler
  BY DEF LoopDec, Receive, connVars
<1>2. /\ 1 \in DOMAIN events /\ events[1] = Dec(c)
      /\ DOMAIN events \subseteq Nat \ {0}
  BY <1>1, TailIndex DEF TypeOK
<1>3. handler[c] = "done" /\ Queued(Dec(c))
  BY <1>2 DEF ChannelInv, NotYetSent, Queued
<1>4. ~ Queued(Inc(c))
  <2> SUFFICES ASSUME NEW i \in DOMAIN events, events[i] = Inc(c) PROVE FALSE
    BY DEF Queued
  <2>1. PICK j \in DOMAIN events : i < j /\ events[j] = Dec(c)
    BY <1>3 DEF ChannelInv, IncBeforeDec
  <2>2. j = 1
    BY <2>1, <1>2, EventsDiffer DEF ChannelInv, SentOnce
  <2> QED
    BY <2>1, <2>2, <1>2
<1>5. \A d \in Conn : IsCounted(d)' <=> IsCounted(d) /\ d # c
  <2> TAKE d \in Conn
  <2>1. /\ Queued(Inc(d))' <=> Queued(Inc(d))
        /\ Queued(Dec(d))' <=> Queued(Dec(d)) /\ d # c
    BY <1>1, QueuedTail, EventsDiffer DEF ChannelInv, Event
  <2> QED
    BY <1>1, <1>3, <2>1 DEF IsCounted
<1> QED
  BY <1>3, <1>4, <1>5 DEF Counted, IsCounted

LEMMA CountedChanges ==
  ASSUME TypeOK, ChannelInv, [Next]_vars, loop = "running", loop' = "running"
  PROVE  \/ Counted' = Counted /\ refCount' = refCount
         \/ \E c \in Conn :
              /\ LoopInc(c) /\ c \notin Counted /\ Counted' = Counted \cup {c}
         \/ \E c \in Conn :
              /\ LoopDec(c) /\ c \in Counted /\ Counted' = Counted \ {c}
<1> USE DEF connVars, loopVars, vmVars, mainVars
<1>ev. /\ \A c \in Conn : Inc(c) \in Event /\ Dec(c) \in Event
       /\ VmExited \in Event
  BY DEF Event
<1>1. CASE Bystander
  BY <1>1 DEF Bystander, Counted, IsCounted, Queued
<1>2. ASSUME NEW c \in Conn, Accept(c)
      PROVE  Counted' = Counted /\ refCount' = refCount
  <2>1. /\ events' = events /\ refCount' = refCount
        /\ handler[c] = "none"
        /\ \A d \in Conn : handler'[d] = IF d = c THEN "reading" ELSE handler[d]
    BY <1>2 DEF Accept, TypeOK
  <2>2. \A d \in Conn : IsCounted(d)' <=> IsCounted(d)
    BY <2>1 DEF IsCounted, Queued
  <2> QED
    BY <2>1, <2>2, CountedUnchanged
<1>3. ASSUME NEW c \in Conn, SendInc(c)
      PROVE  Counted' = Counted /\ refCount' = refCount
  <2>1. /\ events' = Append(events, Inc(c)) /\ refCount' = refCount
        /\ handler[c] = "reading"
        /\ \A d \in Conn : handler'[d] = IF d = c THEN "watching" ELSE handler[d]
    BY <1>3 DEF SendInc, ReadClientPid, Post, TypeOK
  <2>2. \A d \in Conn : IsCounted(d)' <=> IsCounted(d)
    <3> TAKE d \in Conn
    <3>1. /\ Queued(Inc(d))' <=> Queued(Inc(d)) \/ d = c
          /\ Queued(Dec(d))' <=> Queued(Dec(d))
      BY <2>1, <1>ev, QueuedAppend, EventsDiffer
    <3> QED
      BY <2>1, <3>1 DEF IsCounted
  <2> QED
    BY <2>1, <2>2, CountedUnchanged
<1>4. ASSUME NEW c \in Conn, SendDec(c)
      PROVE  Counted' = Counted /\ refCount' = refCount
  <2>1. /\ events' = Append(events, Dec(c)) /\ refCount' = refCount
        /\ handler[c] = "watching"
        /\ \A d \in Conn : handler'[d] = IF d = c THEN "done" ELSE handler[d]
    BY <1>4 DEF SendDec, WaitForDisconnect, Post, TypeOK
  <2>2. \A d \in Conn : IsCounted(d)' <=> IsCounted(d)
    <3> TAKE d \in Conn
    <3>1. /\ Queued(Inc(d))' <=> Queued(Inc(d))
          /\ Queued(Dec(d))' <=> Queued(Dec(d)) \/ d = c
      BY <2>1, <1>ev, QueuedAppend, EventsDiffer
    <3> QED
      BY <2>1, <3>1 DEF IsCounted
  <2> QED
    BY <2>1, <2>2, CountedUnchanged
<1>5. ASSUME NEW c \in Conn, LoopInc(c)
      PROVE  c \notin Counted /\ Counted' = Counted \cup {c}
  BY <1>5, IncCounts
<1>6. ASSUME NEW c \in Conn, LoopDec(c)
      PROVE  c \in Counted /\ Counted' = Counted \ {c}
  BY <1>6, DecCounts
<1>7. CASE ReportExit
  <2>1. /\ events' = Append(events, VmExited) /\ refCount' = refCount
        /\ handler' = handler
    BY <1>7 DEF ReportExit, Post
  <2>2. \A d \in Conn : IsCounted(d)' <=> IsCounted(d)
    <3> TAKE d \in Conn
    <3>1. /\ Queued(Inc(d))' <=> Queued(Inc(d))
          /\ Queued(Dec(d))' <=> Queued(Dec(d))
      BY <2>1, <1>ev, QueuedAppend, EventsDiffer
    <3> QED
      BY <2>1, <3>1 DEF IsCounted
  <2> QED
    BY <2>1, <2>2, CountedUnchanged
<1>8. ~ LoopVmExited
  BY DEF LoopVmExited
<1> QED
  BY <1>1, <1>2, <1>3, <1>4, <1>5, <1>6, <1>7, <1>8, Bystanders DEF Bystander

-----------------------------------------------------------------------------
(***************************************************************************)
(* The counter and the deadlines.                                          *)
(***************************************************************************)
LEMMA CountedFinite ==
  /\ IsFiniteSet(Counted) /\ Cardinality(Counted) \in Nat
  /\ Counted # {} => Cardinality(Counted) > 0
<1>1. Counted \in SUBSET Conn
  BY DEF Counted
<1>2. IsFiniteSet(Counted)
  BY <1>1, ConnAssumption, FS_Subset
<1> QED
  BY <1>2, FS_CardinalityType, FS_EmptySet

LEMMA LoopStaysDone ==
  ASSUME [Next]_vars, loop' = "running"
  PROVE  loop = "running"
<1>1. ~ LoopVmExited
  BY DEF LoopVmExited
<1> QED
  BY <1>1, Bystanders
     DEF Bystander, Accept, SendInc, ReadClientPid, SendDec,
         WaitForDisconnect, LoopInc, CountIn, LoopDec, Receive,
         ReportExit, loopVars

LEMMA NextRefCount ==
  ASSUME TypeOK, ChannelInv, RefCountExact, [Next]_vars
  PROVE  RefCountExact'
<1> SUFFICES ASSUME loop' = "running" PROVE refCount' = Cardinality(Counted)'
  BY DEF RefCountExact
<1>1. loop = "running" /\ refCount = Cardinality(Counted)
  BY LoopStaysDone DEF RefCountExact
<1>2. CASE Counted' = Counted /\ refCount' = refCount
  BY <1>1, <1>2
<1>3. ASSUME NEW c \in Conn, LoopInc(c), c \notin Counted,
             Counted' = Counted \cup {c}
      PROVE  refCount' = Cardinality(Counted)'
  BY <1>1, <1>3, CountedFinite, FS_AddElement DEF LoopInc, CountIn
<1>4. ASSUME NEW c \in Conn, LoopDec(c), c \in Counted,
             Counted' = Counted \ {c}
      PROVE  refCount' = Cardinality(Counted)'
  <2>1. /\ Cardinality(Counted') = Cardinality(Counted) - 1
        /\ Cardinality(Counted) \in Nat \ {0}
    BY <1>4, CountedFinite, FS_RemoveElement
  <2> QED
    BY <1>1, <1>4, <2>1 DEF LoopDec
<1> QED
  BY <1>1, <1>2, <1>3, <1>4, CountedChanges

LEMMA NextDeadline ==
  ASSUME IInv, [Next]_vars
  PROVE  DeadlineInv'
<1> USE TimeAssumption DEF connVars, loopVars, vmVars, mainVars
<1>t. TypeOK /\ DeadlineInv /\ ChannelInv /\ RefCountExact
  BY DEF IInv
<1>0. CASE UNCHANGED <<refCount, shutdownIn, hardIn, idle>>
  BY <1>0, <1>t DEF DeadlineInv
<1>1. ASSUME NEW c \in Conn, LoopInc(c) PROVE DeadlineInv'
  BY <1>1 DEF LoopInc, CountIn, DeadlineInv
<1>2. ASSUME NEW c \in Conn, LoopDec(c) PROVE DeadlineInv'
  <2>1. loop = "running" /\ loop' = "running"
    BY <1>2 DEF LoopDec, Receive
  <2>2. Counted # {}
    BY <1>2, <1>t, DecCounts
  <2>3. refCount \in Nat /\ refCount # 0
    BY <2>1, <2>2, <1>t, CountedFinite DEF RefCountExact
  <2>4. shutdownIn \notin Nat /\ hardIn \notin Nat
    BY <2>3, <1>t DEF DeadlineInv
  <2> QED
    BY <1>2, <2>3, <2>4 DEF LoopDec, DeadlineInv
<1>3. CASE LoopTimeout
  BY <1>3, <1>t DEF LoopTimeout, GraceOver, PowersOff, DeadlineInv, TypeOK,
                    Countdown
<1>4. CASE Tick
  BY <1>4, <1>t DEF Tick, CountDown, DeadlineInv, TypeOK, Countdown, IdleCap
<1> QED
  BY <1>0, <1>1, <1>2, <1>3, <1>4
     DEF Next, HandlerStep, LoopStep, VmStep, MainStep, Connect, Leave, Accept,
         AcceptError, SendInc, ReadClientPid, SendDec, WaitForDisconnect,
         LoopVmExited, PrepareFails,
         PreparePanics, VmStarts, GuestPowersOff, GuestIgnoresPoweroff,
         GuestStops, MuxEnds, RunVmReturns, ReportExit, JoinLoop, Exit, vars

-----------------------------------------------------------------------------
(***************************************************************************)
(* The inductive invariant.                                                *)
(***************************************************************************)
LEMMA InitIInv == Init => IInv
<1> SUFFICES ASSUME Init PROVE IInv
  OBVIOUS
<1>1. Counted = {}
  BY DEF Init, Counted, IsCounted
<1>2. RefCountExact
  BY <1>1, FS_EmptySet DEF Init, RefCountExact
<1>3. DeadlineInv
  BY TimeAssumption DEF Init, DeadlineInv
<1> QED
  BY <1>2, <1>3, InitType, InitChannel DEF IInv

LEMMA NextIInv == IInv /\ [Next]_vars => IInv'
  BY NextType, NextChannel, NextRefCount, NextDeadline DEF IInv

(***************************************************************************)
(* The channel's order, the exact count and the meaning of the deadlines   *)
(* hold together in every state (run_manager_with's threads and            *)
(* manager_event_loop).                                                    *)
(***************************************************************************)
THEOREM Inductive == Spec => []IInv
  BY InitIInv, NextIInv, PTL DEF Spec

(***************************************************************************)
(* ref_count is the number of connections counted, however many there are. *)
(***************************************************************************)
THEOREM RefCountCorrect == Spec => []RefCountExact
<1>1. IInv => RefCountExact
  BY DEF IInv
<1> QED
  BY <1>1, Inductive, PTL

-----------------------------------------------------------------------------
(***************************************************************************)
(* When the loop types poweroff or kills the process, nobody is counted.   *)
(***************************************************************************)
LEMMA NobodyCounted ==
  ASSUME IInv, loop = "running", refCount = 0
  PROVE  Counted = {}
  BY CountedFinite DEF IInv, RefCountExact

LEMMA SentByTimeout ==
  ASSUME IInv, [Next]_vars, ~ shutdownSent, shutdownSent'
  PROVE  LoopTimeout /\ PowersOff
<1>1. CASE LoopTimeout
  BY <1>1, Zenon DEF LoopTimeout
<1>2. ASSUME NEW c \in Conn, LoopInc(c) PROVE FALSE
  BY <1>2, Zenon DEF LoopInc, CountIn
<1>3. CASE shutdownSent' = shutdownSent
  BY <1>3
<1> QED
  BY <1>1, <1>2, <1>3
     DEF Next, HandlerStep, LoopStep, VmStep, MainStep, Connect, Leave, Accept,
         AcceptError, SendInc, ReadClientPid, SendDec, WaitForDisconnect,
         LoopDec, LoopVmExited, PrepareFails,
         PreparePanics, VmStarts, GuestPowersOff, GuestIgnoresPoweroff,
         GuestStops, MuxEnds, RunVmReturns, ReportExit, JoinLoop, Exit, Tick,
         vars, connVars, loopVars, vmVars, mainVars

LEMMA ForcedByTimeout ==
  ASSUME IInv, [Next]_vars, Alive, proc' = "forced"
  PROVE  LoopTimeout /\ refCount = 0 /\ hardIn' = 0
<1>1. CASE LoopTimeout
  BY <1>1 DEF LoopTimeout, Alive
<1>2. CASE PreparePanics \/ Exit
  BY <1>2 DEF PreparePanics, Exit
<1>3. CASE proc' = proc
  BY <1>3 DEF Alive
<1> QED
  BY <1>1, <1>2, <1>3
     DEF Next, HandlerStep, LoopStep, VmStep, MainStep, Connect, Leave, Accept,
         AcceptError, SendInc, ReadClientPid, SendDec, WaitForDisconnect,
         LoopInc, CountIn, LoopDec, LoopVmExited,
         PrepareFails, VmStarts, GuestPowersOff, GuestIgnoresPoweroff,
         GuestStops, MuxEnds, RunVmReturns, ReportExit, JoinLoop, Tick,
         vars, connVars, loopVars, vmVars, mainVars

(***************************************************************************)
(* manager_event_loop types poweroff only after a whole grace period in    *)
(* which nobody was counted.                                               *)
(***************************************************************************)
THEOREM GraceRespected == Spec => PoweroffAfterGrace
<1>1. ASSUME IInv, [Next]_vars, ~ shutdownSent, shutdownSent'
      PROVE  Counted = {} /\ idle >= Grace
  <2>1. LoopTimeout /\ PowersOff
    BY <1>1, SentByTimeout
  <2>2. refCount = 0 /\ idle + 0 >= Grace
    BY <2>1, <1>1 DEF PowersOff, GraceOver, IInv, DeadlineInv
  <2>3. idle >= Grace
    BY <2>2, <1>1, TimeAssumption DEF IInv, TypeOK
  <2> QED
    BY <2>1, <2>2, <2>3, <1>1, NobodyCounted DEF LoopTimeout
<1>2. IInv /\ [Next]_vars
        => [~ shutdownSent /\ shutdownSent' => Counted = {} /\ idle >= Grace]_vars
  BY <1>1
<1> QED
  BY <1>2, Inductive, PTL DEF Spec, PoweroffAfterGrace

(***************************************************************************)
(* manager_event_loop calls force_exit only when nobody was counted for    *)
(* the grace period and the hard timeout together.                         *)
(***************************************************************************)
THEOREM ForcedExitJustified == Spec => ForcedExitIsLastResort
<1>1. ASSUME IInv, [Next]_vars, Alive, proc' = "forced"
      PROVE  Counted = {} /\ idle >= Grace + HardTimeout
  <2>1. LoopTimeout /\ refCount = 0 /\ hardIn' = 0
    BY <1>1, ForcedByTimeout
  <2>2. hardIn = 0
    BY <2>1, TimeAssumption DEF LoopTimeout
  <2>3. idle + 0 >= Grace + HardTimeout
    BY <2>2, <1>1 DEF IInv, DeadlineInv
  <2>4. idle >= Grace + HardTimeout
    BY <2>3, <1>1, TimeAssumption DEF IInv, TypeOK
  <2> QED
    BY <2>1, <2>4, <1>1, NobodyCounted DEF LoopTimeout
<1>2. IInv /\ [Next]_vars
        => [Alive /\ proc' = "forced"
              => Counted = {} /\ idle >= Grace + HardTimeout]_vars
  BY <1>1
<1> QED
  BY <1>2, Inductive, PTL DEF Spec, ForcedExitIsLastResort

-----------------------------------------------------------------------------
(***************************************************************************)
(* The refinement.  Once the lease is over nothing changes it; while it is *)
(* open, six actions are lease steps and every other is a stutter.         *)
(***************************************************************************)
LEMMA LeaseOver ==
  ASSUME [Next]_vars, ~ leaseOpen
  PROVE  leaseHolders' = leaseHolders /\ leasePhase' = leasePhase
<1>1. ~ leaseOpen' /\ (proc' = "forced" <=> proc = "forced")
  <2>1. CASE ~ Alive
    BY <2>1
       DEF Next, HandlerStep, LoopStep, VmStep, MainStep, Connect, Leave,
           Accept, AcceptError, SendInc, ReadClientPid, SendDec,
           WaitForDisconnect, LoopInc, CountIn, LoopDec,
           LoopVmExited, LoopTimeout, Receive, PrepareFails, PreparePanics,
           VmStarts, GuestPowersOff, GuestIgnoresPoweroff, GuestStops, MuxEnds,
           RunVmReturns, ReportExit, JoinLoop, Exit, Tick, Alive, leaseOpen,
           vars, connVars, loopVars, vmVars, mainVars
  <2>2. CASE Alive /\ loop # "running"
    <3>1. loop' # "running"
      BY <2>2, LoopStaysDone
    <3>2. proc' # "forced"
      BY <2>2
         DEF Next, HandlerStep, LoopStep, VmStep, MainStep, Connect, Leave,
             Accept, AcceptError, SendInc, ReadClientPid, SendDec,
             WaitForDisconnect, LoopInc, CountIn, LoopDec,
             LoopVmExited, LoopTimeout, Receive, PrepareFails, PreparePanics,
             VmStarts, GuestPowersOff, GuestIgnoresPoweroff, GuestStops,
             MuxEnds, RunVmReturns, ReportExit, JoinLoop, Exit, Tick, Alive,
             vars, connVars, loopVars, vmVars, mainVars
    <3> QED
      BY <3>1, <3>2, <2>2 DEF leaseOpen, Alive
  <2> QED
    BY <2>1, <2>2 DEF leaseOpen
<1> QED
  BY <1>1 DEF leaseHolders, leasePhase

LEMMA LeaseOpen ==
  ASSUME leaseOpen
  PROVE  /\ leaseHolders = Counted
         /\ leasePhase = IF shutdownSent THEN "stopping" ELSE "up"
  BY DEF leaseOpen, leaseHolders, leasePhase, Alive

LEMMA LeaseStutter ==
  ASSUME leaseOpen, Counted' = Counted,
         UNCHANGED <<loop, proc, shutdownSent>>
  PROVE  UNCHANGED Lease!vars
  BY DEF leaseOpen, leaseHolders, leasePhase, Alive, Lease!vars

LEMMA LeaseStep ==
  ASSUME IInv, [Next]_vars
  PROVE  [Lease!Next]_(Lease!vars)
<1> SUFFICES ASSUME leaseOpen PROVE [Lease!Next]_(Lease!vars)
  BY LeaseOver DEF Lease!vars
<1> DEFINE NewPhase == IF shutdownSent' THEN "stopping" ELSE "up"
<1>i. TypeOK /\ ChannelInv /\ DeadlineInv
  BY DEF IInv
<1>o. leaseHolders = Counted /\ Lease!Running
  BY LeaseOpen DEF Lease!Running
<1>p. ASSUME leaseOpen'
      PROVE  leaseHolders' = Counted' /\ leasePhase' = NewPhase
  BY <1>p DEF leaseOpen, leaseHolders, leasePhase, Alive
<1>1. ASSUME NEW c \in Conn, LoopInc(c) PROVE Lease!Acquire(c)
  <2>1. loop = "running" /\ loop' = "running" /\ proc' = proc /\ ~ shutdownSent'
    BY <1>1 DEF LoopInc, CountIn, Receive, mainVars
  <2>2. c \notin Counted /\ Counted' = Counted \cup {c}
    BY <1>1, <1>i, IncCounts
  <2> QED
    BY <1>o, <1>p, <2>1, <2>2 DEF Lease!Acquire, leaseOpen, Alive
<1>2. ASSUME NEW c \in Conn, LoopDec(c) PROVE Lease!Release(c)
  <2>1. loop' = loop /\ proc' = proc /\ shutdownSent' = shutdownSent
    BY <1>2 DEF LoopDec, mainVars
  <2>2. c \in Counted /\ Counted' = Counted \ {c}
    BY <1>2, <1>i, DecCounts
  <2> QED
    BY <1>o, <1>p, <2>1, <2>2, LeaseOpen DEF Lease!Release, leaseOpen, Alive
<1>3. CASE LoopVmExited \/ PreparePanics \/ Exit
  <2>1. ~ leaseOpen' /\ proc' # "forced"
    BY <1>3 DEF LoopVmExited, PreparePanics, Exit, leaseOpen, Alive, mainVars
  <2> QED
    BY <1>o, <2>1 DEF Lease!Next, Lease!End, leaseHolders, leasePhase,
                      leaseOpen
<1>4. CASE LoopTimeout
  <2>1. loop = "running" /\ loop' = loop /\ Counted' = Counted
    BY <1>4 DEF LoopTimeout, Counted, IsCounted, Queued, connVars
  <2>2. CASE proc' = "forced"
    <3>1. Counted = {}
      BY <2>1, <2>2, ForcedByTimeout, NobodyCounted DEF leaseOpen
    <3>2. leaseHolders' = {} /\ leasePhase' = "killed"
      BY <2>2 DEF leaseHolders, leasePhase, leaseOpen, Alive
    <3> QED
      BY <1>o, <3>1, <3>2 DEF Lease!Next, Lease!Kill
  <2>3. CASE proc' # "forced" /\ ~ shutdownSent /\ shutdownSent'
    <3>1. proc' = proc
      BY <1>4, <2>3 DEF LoopTimeout
    <3>2. Counted = {}
      BY <2>1, <2>3, SentByTimeout, NobodyCounted
         DEF PowersOff, GraceOver, IInv, DeadlineInv
    <3> QED
      BY <1>o, <1>p, <2>1, <2>3, <3>1, <3>2, LeaseOpen
         DEF Lease!Next, Lease!AskToStop, leaseOpen, Alive
  <2>4. CASE proc' # "forced" /\ (shutdownSent \/ ~ shutdownSent')
    <3>1. proc' = proc
      BY <1>4, <2>4 DEF LoopTimeout
    <3>2. shutdownSent' = shutdownSent
      BY <1>4, <1>i, <2>4 DEF LoopTimeout, TypeOK
    <3> QED
      BY <2>1, <3>1, <3>2, LeaseStutter
  <2> QED
    BY <2>2, <2>3, <2>4
<1>5. CASE UNCHANGED <<loop, proc, shutdownSent>> /\ Counted' = Counted
  BY <1>5, LeaseStutter
<1>6. ASSUME ~ LoopVmExited, \A c \in Conn : ~ LoopInc(c) /\ ~ LoopDec(c),
             loop' = "running"
      PROVE  Counted' = Counted
  BY <1>6, <1>i, CountedChanges DEF leaseOpen
<1> QED
  BY <1>1, <1>2, <1>3, <1>4, <1>5, <1>6
     DEF Next, HandlerStep, LoopStep, VmStep, MainStep, Connect, Leave, Accept,
         AcceptError, SendInc, ReadClientPid, SendDec, WaitForDisconnect,
         PrepareFails, VmStarts, GuestPowersOff,
         GuestIgnoresPoweroff, GuestStops, MuxEnds, RunVmReturns, ReportExit,
         JoinLoop, Tick, vars, connVars, loopVars, vmVars, mainVars, leaseOpen,
         Lease!Next

(***************************************************************************)
(* The manager keeps the promise of VmLease: it asks the guest to stop,    *)
(* and kills it, only while it counts nobody.                              *)
(***************************************************************************)
THEOREM Refinement == Spec => ImplementsLease
<1>1. Init => Lease!Init
  <2> SUFFICES ASSUME Init PROVE Lease!Init
    OBVIOUS
  <2>1. leaseOpen /\ Counted = {} /\ ~ shutdownSent
    BY DEF Init, leaseOpen, Alive, Counted, IsCounted
  <2> QED
    BY <2>1, LeaseOpen DEF Lease!Init
<1>2. IInv /\ [Next]_vars => [Lease!Next]_(Lease!vars)
  BY LeaseStep
<1> QED
  BY <1>1, <1>2, Inductive, PTL DEF Spec, ImplementsLease, Lease!Spec

=============================================================================
