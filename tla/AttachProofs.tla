---------------------------- MODULE AttachProofs ----------------------------
(***************************************************************************)
(* Attach without a disturbance, for every number of vibeboxes, managers,  *)
(* crashes and ids: one identity, no address of an earlier guest, and an   *)
(* address that stays once it is published.                                *)
(***************************************************************************)
EXTENDS Attach, FiniteSetTheorems, TLAPS

Storing == {"stamp", "clear", "publish", "lastStamp"}
Reading == {"load", "lastTouch", "first", "poll", "again"}
Owning  == {"bound", "boot", "publish", "run", "report", "unlink"}
Out     == {"idle", "gone"}

ClientPlace  == Out \cup Polling \cup
                {"first", "found", "giveUp", "again", "ssh", "session"}
ManagerPlace == Out \cup Starting \cup Owning \cup {"lastTouch", "lastStamp"}

\* The operations on instance.toml a process can be about to make at l.
Ops(l) == IF l = "touch" THEN {"read", "truncate", "write"}
          ELSE IF l \in Storing THEN {"truncate", "write"}
          ELSE IF l \in Reading THEN {"read"} ELSE {"none"}

(***************************************************************************)
(* What a process by itself keeps to: a vibebox and a manager have their   *)
(* own places, whoever writes has something to write, a manager forgets    *)
(* the address before it owns the socket and then has only its own.        *)
(***************************************************************************)
Fits(p, r) ==
  /\ p \in Client => r.at \in ClientPlace
  /\ p \in Manager => r.at \in ManagerPlace
  /\ r.io \in Ops(r.at)
  /\ r.at \in Out => r.mem = NoFile /\ r.conn = NoFile
  /\ r.conn = NoFile => r.at \in Out \/ p \in Manager
  /\ \/ r.at \in Storing \cup {"probe", "bound", "boot", "run", "ssh", "session"}
     \/ r.io \in {"truncate", "write"}
     => r.mem \in Config
  /\ r.at \in Storing \cup {"probe", "bound", "boot"} => r.base \in Config
  /\ r.at \in {"stamp", "lastStamp"} => r.mem = r.base
  /\ r.at = "clear" \/ (r.at = "touch" /\ r.io # "read") => r.mem.ip = NoIp
  /\ r.at \in {"publish", "run"} => r.mem.ip = p

EachFits == \A p \in Process : Fits(p, proc[p])

\* Nobody else writes while one does, and the file is empty then.
Writing(p) == proc[p].io = "write"
OneWriter  == \A p \in Process :
  Writing(p) => inst = Empty /\ \A q \in Process : Writing(q) => q = p

\* The file holds v, or will when the one that writes it is done.
Held(v) == inst = v \/ \E p \in Process : Writing(p) /\ proc[p].mem = v

(***************************************************************************)
(* Until the first configuration is written nobody has got further than    *)
(* to find that there is none, or, with a file that does not parse, to     *)
(* give up; and only then is a first one about to be written.              *)
(***************************************************************************)
Untouched == inst \notin Config /\ \A p \in Process : ~ Writing(p)
Fresh(r)  == r.at = "touch" /\ r.io = "truncate"
Early(r)  ==
  \/ r.at \in Out
  \/ r.at = "touch" /\ r.io = "read" /\ r.mem = NoFile
  \/ Fresh(r) /\ inst # Garbled
  \/ r.at \in {"load", "lastTouch"} /\ r.mem = NoFile /\ inst = Garbled

AllEarly   == Untouched => \A p \in Process : Early(proc[p])
FreshFirst == \A p \in Process : Fresh(proc[p]) => Untouched

\* Managers start one by one, while there is no socket; then one has it.
OneStarter == \A m, n \in Manager :
  proc[m].at \in Starting => sock = NoFile /\ (proc[n].at \in Starting => m = n)
OneOwner   == \A m \in Manager : proc[m].at \in Owning <=> sock = m

SameId == \A p, q \in Process :
  proc[p].mem # NoFile /\ proc[q].mem # NoFile => proc[p].mem.id = proc[q].mem.id

(***************************************************************************)
(* The configuration that is held is the session's; its address is none,   *)
(* or that of the guest of the manager with the socket, and what that one  *)
(* published from then on; and a vibebox has connected too late to see an  *)
(* address of long ago.                                                    *)
(***************************************************************************)
Unpublished(r) == \/ r.at \in {"probe", "bound", "boot"}
                  \/ r.at = "publish" /\ r.io = "truncate"

Current(v) ==
  /\ \A p \in Process : proc[p].mem # NoFile => proc[p].mem.id = v.id
  /\ sock \in Manager => v.ip \in {NoIp, sock}
  /\ \A m \in Manager : Unpublished(proc[m]) => v.ip = NoIp
  /\ \A m \in Manager : proc[m].at = "run" => v = proc[m].mem
  /\ \A c \in Client : proc[c].conn # NoFile => v.ip # Old

HeldIsCurrent == \A v \in Config : Held(v) => Current(v)

\* A connection is to a manager that had the socket.
Connected == \A c \in Client :
  proc[c].conn # NoFile => proc[proc[c].conn].at \in Owning \cup Ended

AddressIsCurrent == \A c \in Client :
  proc[c].at \in {"ssh", "session"} =>
    /\ proc[c].mem.ip \in Manager
    /\ proc[c].mem.ip = proc[c].conn \/ proc[proc[c].conn].at \in Ended

Undisturbed ==
  /\ EachFits /\ OneWriter /\ AllEarly /\ FreshFirst /\ OneStarter /\ OneOwner
  /\ SameId /\ HeldIsCurrent /\ Connected /\ AddressIsCurrent

IInv == TypeOK /\ (clean => Undisturbed)

-----------------------------------------------------------------------------
(***************************************************************************)
(* The constants.                                                          *)
(***************************************************************************)
\* Three different things that are no configuration.
LEMMA Contents ==
  /\ NoFile \notin Config /\ Empty \notin Config /\ Garbled \notin Config
  /\ Empty # Garbled /\ NoFile # Garbled
<1>1. Config \subseteq [id : Nat, ip : Manager \cup {Old, NoIp}]
  BY BoundAssumption DEF Config
<1>2. Empty # Garbled /\ NoFile # Garbled
  <2> SUFFICES ASSUME Empty = Garbled \/ NoFile = Garbled PROVE FALSE
    OBVIOUS
  <2>1. {NoFile, Empty, Garbled} = {Empty} \cup {NoFile}
    OBVIOUS
  <2>a. IsFiniteSet({Empty}) /\ Cardinality({Empty}) = 1
    BY FS_Singleton
  <2>b. Cardinality({Empty} \cup {NoFile}) =
          IF NoFile \in {Empty} THEN Cardinality({Empty})
                               ELSE Cardinality({Empty}) + 1
    BY <2>a, FS_AddElement
  <2>2. Cardinality({Empty} \cup {NoFile}) \in {1, 2}
    BY <2>a, <2>b
  <2> QED
    BY <2>1, <2>2, ContentAssumption
<1> QED
  BY <1>1, <1>2, ContentAssumption

LEMMA Roles ==
  /\ Client \subseteq Process /\ Manager \subseteq Process
  /\ \A p \in Process : p \in Client \/ p \in Manager
  /\ \A p : ~ (p \in Client /\ p \in Manager)
  /\ NoFile \notin Manager /\ NoIp \notin Manager /\ Old \notin Manager
  /\ NoIp # Old
  BY ProcessAssumption, AddressAssumption DEF Process

LEMMA Places ==
  /\ ClientPlace \subseteq Place /\ ManagerPlace \subseteq Place
  /\ ClientPlace = {"idle", "gone", "poll", "check", "first", "found",
                    "giveUp", "again", "ssh", "session"}
  /\ Starting = {"touch", "stamp", "load", "clear", "probe"}
  /\ Ended = {"report", "unlink", "lastTouch", "lastStamp", "gone"}
  BY DEF ClientPlace, ManagerPlace, Place, Starting, Ended, Polling, Owning, Out

-----------------------------------------------------------------------------
(***************************************************************************)
(* What one step does to the process that takes it.                        *)
(***************************************************************************)
Moves(p) == /\ proc' \in [Process -> State]
            /\ \A q \in Process : q # p => proc'[q] = proc[q]

LEMMA Moving ==
  ASSUME TypeOK, NEW p \in Process, NEW r \in State, Become(p, r)
  PROVE  Moves(p) /\ proc'[p] = r
  BY DEF TypeOK, Become, Moves

LEMMA QuitIsOut ==
  /\ Quit \in State /\ Quit.at = "gone" /\ Quit.io = "none"
  /\ Quit.mem = NoFile /\ Quit.conn = NoFile
  /\ \A p \in Process : Fits(p, Quit)
<1>1. /\ Quit \in State /\ Quit.at = "gone" /\ Quit.io = "none"
      /\ Quit.mem = NoFile /\ Quit.conn = NoFile
  BY BoundAssumption
  DEF Quit, Nothing, State, Place, Starting, Ended, Content
<1>2. ASSUME NEW p \in Process PROVE Fits(p, Quit)
  BY <1>1 DEF Fits, ClientPlace, ManagerPlace, Out, Storing, Reading, Ops
<1> QED
  BY <1>1, <1>2

\* Going to l, to do op there, with everything else kept.
LEMMA GoDoMoves ==
  ASSUME NEW r \in State, NEW l \in Place, NEW n,
         NEW op \in {"none", "read", "truncate", "write"}, n = GoDo(r, l, op)
  PROVE  /\ n \in State /\ n.at = l /\ n.io = op
         /\ n.mem = r.mem /\ n.base = r.base /\ n.conn = r.conn
  BY DEF State, GoDo

LEMMA GoMoves ==
  ASSUME NEW r \in State, NEW l \in Place, NEW n, n = Go(r, l)
  PROVE  /\ n \in State /\ n.at = l /\ n.io = "none"
         /\ n.mem = r.mem /\ n.base = r.base /\ n.conn = r.conn
  BY DEF State, Go

\* What a process goes on to with the configuration r.mem.
LEMMA LoadedMoves ==
  ASSUME NEW p \in Process, NEW r \in State, r.mem \in Config,
         r.base = r.mem, r.at \in LoadCalls, Fits(p, [r EXCEPT !.io = "read"])
  PROVE  LET n == Loaded(r)
         IN  /\ n \in State /\ Fits(p, n)
             /\ \/ r.at = "touch" /\ n.at = "stamp"
                \/ r.at = "load" /\ n.at = "probe" /\ r.mem.ip = NoIp
                \/ r.at = "load" /\ n.at = "clear"
                \/ r.at = "lastTouch" /\ n.at = "lastStamp"
                \/ r.at = "first" /\ n.at = "poll"
                \/ r.at = "poll" /\ n.at \in {"found", "check"}
                \/ r.at = "again" /\ n.at = "ssh" /\ n.mem.ip # NoIp
                \/ r.at = "again" /\ n.at = "gone"
             /\ n.io # "write"
             /\ IF n.at = "gone" THEN n.mem = NoFile /\ n.conn = NoFile
                ELSE n.conn = r.conn /\ n.mem.id = r.mem.id /\ n.mem \in Config
             /\ n.at = "ssh" => n.mem = r.mem
<1> DEFINE n == Loaded(r)
<1>p. /\ "stamp" \in Place /\ "probe" \in Place /\ "clear" \in Place
      /\ "lastStamp" \in Place /\ "poll" \in Place /\ "ssh" \in Place
      /\ "found" \in Place /\ "check" \in Place
      /\ LoadCalls = {"touch", "load", "lastTouch", "first", "poll", "again"}
  BY DEF Place, Starting, Ended, Polling, LoadCalls
<1>f. /\ p \in Client => r.at \in ClientPlace
      /\ p \in Manager => r.at \in ManagerPlace
      /\ r.conn = NoFile => r.at \in Out \/ p \in Manager
      /\ r.base \in Config
  BY DEF Fits, State
<1>m. r.mem # NoFile
  BY Contents
<1> USE DEF Storing, Reading, Out, Ops, Polling, ManagerPlace, Owning
<1>1. CASE r.at = "touch"
  <2>1. n = GoDo(r, "stamp", "truncate")
    BY <1>1 DEF Loaded
  <2> HIDE DEF n
  <2>2. /\ n \in State /\ n.at = "stamp" /\ n.io = "truncate"
        /\ n.mem = r.mem /\ n.base = r.base /\ n.conn = r.conn
    BY <2>1, <1>p DEF State, GoDo
  <2>3. Fits(p, n)
    BY <2>2, <1>f, <1>1, Roles, Places DEF Fits
  <2> QED
    BY <2>2, <2>3, <1>1 DEF n
<1>2. CASE r.at = "load"
  <2>1. StartConfig(r.mem) = [id |-> r.mem.id, ip |-> NoIp]
    BY DEF StartConfig, Config
  <2>2. CASE StartConfig(r.mem) = r.mem
    <3>1. n = Go(r, "probe")
      BY <1>2, <2>2 DEF Loaded
    <3> HIDE DEF n
    <3>2. /\ n \in State /\ n.at = "probe" /\ n.io = "none"
          /\ n.mem = r.mem /\ n.base = r.base /\ n.conn = r.conn
      BY <3>1, <1>p, GoMoves DEF State
    <3>3. r.mem.ip = NoIp
      BY <2>1, <2>2
    <3>4. Fits(p, n)
      BY <3>2, <1>f, <1>2, Roles, Places DEF Fits
    <3> QED
      BY <3>2, <3>3, <3>4, <1>2 DEF n
  <2>3. CASE StartConfig(r.mem) # r.mem
    <3> DEFINE s == [r EXCEPT !.mem = StartConfig(@)]
    <3>1. n = GoDo(s, "clear", "truncate")
      BY <1>2, <2>3 DEF Loaded
    <3> HIDE DEF n
    <3>2. StartConfig(r.mem) \in Config
      BY <2>1 DEF Config
    <3>3. /\ s \in State /\ s.mem = StartConfig(r.mem)
          /\ s.base = r.base /\ s.conn = r.conn
      BY <3>2 DEF State
    <3> HIDE DEF s
    <3>4. /\ n \in State /\ n.at = "clear" /\ n.io = "truncate"
          /\ n.mem = s.mem /\ n.base = s.base /\ n.conn = s.conn
      BY <3>1, <3>3, <1>p, GoDoMoves DEF State
    <3>5. n.mem.ip = NoIp /\ n.mem.id = r.mem.id /\ n.mem \in Config
      BY <3>2, <3>3, <3>4, <2>1
    <3>6. Fits(p, n)
      BY <3>3, <3>4, <3>5, <1>f, <1>2, Roles, Places DEF Fits
    <3> QED
      BY <3>3, <3>4, <3>5, <3>6, <1>2 DEF n
  <2> QED
    BY <2>2, <2>3
<1>3. CASE r.at = "lastTouch"
  <2>1. n = GoDo(r, "lastStamp", "truncate")
    BY <1>3 DEF Loaded
  <2> HIDE DEF n
  <2>2. /\ n \in State /\ n.at = "lastStamp" /\ n.io = "truncate"
        /\ n.mem = r.mem /\ n.base = r.base /\ n.conn = r.conn
    BY <2>1, <1>p, GoDoMoves DEF State
  <2>3. Fits(p, n)
    BY <2>2, <1>f, <1>3, Roles, Places DEF Fits
  <2> QED
    BY <2>2, <2>3, <1>3 DEF n
<1>4. CASE r.at = "first"
  <2>1. n = GoDo(r, "poll", "read")
    BY <1>4 DEF Loaded
  <2> HIDE DEF n
  <2>2. /\ n \in State /\ n.at = "poll" /\ n.io = "read"
        /\ n.mem = r.mem /\ n.base = r.base /\ n.conn = r.conn
    BY <2>1, <1>p, GoDoMoves DEF State
  <2>3. Fits(p, n)
    BY <2>2, <1>f, <1>4, Roles, Places DEF Fits
  <2> QED
    BY <2>2, <2>3, <1>4 DEF n
<1>5. CASE r.at = "poll"
  <2> DEFINE l == IF r.mem.ip # NoIp THEN "found" ELSE "check"
  <2>3. l \in {"found", "check"}
    OBVIOUS
  <2>1. n = Go(r, l)
    BY <1>5 DEF Loaded
  <2> HIDE DEF n, l
  <2>2. /\ n \in State /\ n.at = l /\ n.io = "none"
        /\ n.mem = r.mem /\ n.base = r.base /\ n.conn = r.conn
    BY <2>1, <2>3, <1>p, GoMoves DEF State
  <2>4. Fits(p, n)
    BY <2>2, <2>3, <1>f, <1>5, Roles, Places DEF Fits
  <2> QED
    BY <2>2, <2>3, <2>4, <1>5 DEF n
<1>6. CASE r.at = "again" /\ r.mem.ip # NoIp
  <2>1. n = Go(r, "ssh")
    BY <1>6 DEF Loaded
  <2> HIDE DEF n
  <2>2. /\ n \in State /\ n.at = "ssh" /\ n.io = "none"
        /\ n.mem = r.mem /\ n.base = r.base /\ n.conn = r.conn
    BY <2>1, <1>p, GoMoves DEF State
  <2>3. Fits(p, n)
    BY <2>2, <1>f, <1>6, Roles, Places DEF Fits
  <2> QED
    BY <2>2, <2>3, <1>6 DEF n
<1>7. CASE r.at = "again" /\ r.mem.ip = NoIp
  <2>1. n = Quit
    BY <1>7 DEF Loaded
  <2> HIDE DEF n
  <2> QED
    BY <2>1, <1>7, QuitIsOut DEF n
<1> QED
  BY <1>1, <1>2, <1>3, <1>4, <1>5, <1>6, <1>7, <1>p

-----------------------------------------------------------------------------
(***************************************************************************)
(* Steps that leave the file and the writer alone.  What is held does not  *)
(* change, and what the others rely on depends on a few facts about the    *)
(* process p that moves.                                                   *)
(***************************************************************************)
LEMMA QuietFrame ==
  ASSUME TypeOK, EachFits, OneWriter, NEW p \in Process, Moves(p),
         Fits(p, proc[p])', inst' = inst, ~ Writing(p), ~ Writing(p)'
  PROVE  /\ EachFits' /\ OneWriter' /\ (Untouched' <=> Untouched)
         /\ \A v : Held(v)' <=> Held(v)
<1>1. \A q \in Process : /\ Writing(q)' <=> Writing(q)
                         /\ Writing(q) => proc'[q] = proc[q]
  BY DEF Moves, Writing
<1>2. EachFits'
  BY DEF EachFits, Moves
<1>3. OneWriter'
  BY <1>1 DEF OneWriter
<1>4. Untouched' <=> Untouched
  BY <1>1 DEF Untouched
<1>5. ASSUME NEW v PROVE Held(v)' <=> Held(v)
  BY <1>1 DEF Held
<1> QED
  BY <1>2, <1>3, <1>4, <1>5

\* One manager takes the socket, keeps it or gives it up.
Ownership(p) ==
  \/ /\ sock' = sock
     /\ p \in Manager => (proc'[p].at \in Owning <=> proc[p].at \in Owning)
  \/ p \in Manager /\ sock = p /\ sock' = NoFile /\ proc'[p].at \notin Owning
  \/ p \in Manager /\ proc[p].at = "probe" /\ proc'[p].at = "bound" /\ sock' = p

\* It starts alone, and once it is over it does not come back.
Progression(p) ==
  p \in Manager =>
    /\ proc'[p].at \in Starting =>
         \/ proc[p].at \in Starting
         \/ sock = NoFile /\ \A n \in Manager : proc[n].at \notin Starting
    /\ proc[p].at \in Ended => proc'[p].at \in Ended
    /\ proc[p].at \in Owning => proc'[p].at \in Owning \cup Ended
    /\ Unpublished(proc'[p]) => \A v \in Config : Held(v) => v.ip = NoIp
    /\ proc'[p].at # "run"

\* What it holds is of the session, or it is the only one to hold anything.
KeepsId(p) ==
  proc'[p].mem # NoFile =>
    \/ proc[p].mem # NoFile /\ proc'[p].mem.id = proc[p].mem.id
    \/ \E v \in Config : Held(v) /\ proc'[p].mem.id = v.id
    \/ Untouched /\ \A q \in Process : q # p => proc[q].mem = NoFile

\* A vibebox connects to the socket and takes what is held for the address.
KeepsAddress(p) ==
  p \in Client =>
    /\ proc'[p].conn # NoFile => \/ proc'[p].conn = proc[p].conn
                                 \/ proc'[p].conn = sock
    /\ proc'[p].at \in {"ssh", "session"} =>
         /\ proc'[p].conn = proc[p].conn
         /\ \/ proc[p].at \in {"ssh", "session"} /\ proc'[p].mem = proc[p].mem
            \/ /\ Held(proc'[p].mem) /\ proc'[p].mem \in Config
               /\ proc'[p].mem.ip # NoIp

\* Nothing but one configuration is held.
LEMMA HeldOnce ==
  ASSUME OneWriter, NEW v \in Config, NEW w \in Config, Held(v), Held(w)
  PROVE  v = w
  BY Contents DEF OneWriter, Held

LEMMA QuietStep ==
  ASSUME TypeOK, Undisturbed, NEW p \in Process, Moves(p),
         Fits(p, proc[p])', inst' = inst, ~ Writing(p), ~ Writing(p)',
         Untouched => Early(proc[p])', Fresh(proc'[p]) => Untouched,
         Ownership(p), Progression(p), KeepsId(p), KeepsAddress(p)
  PROVE  Undisturbed'
<1> USE DEF Undisturbed
<1>1. /\ EachFits' /\ OneWriter' /\ (Untouched' <=> Untouched)
      /\ \A v : Held(v)' <=> Held(v)
  BY QuietFrame
<1>2. AllEarly'
  BY <1>1 DEF AllEarly, Moves, Early
<1>3. FreshFirst'
  BY <1>1 DEF FreshFirst, Moves
<1>m. \A q \in Process : q # p => proc'[q] = proc[q]
  BY DEF Moves
<1>d. /\ Starting \cap Owning = {} /\ Starting \cap Ended = {}
      /\ "probe" \in Starting /\ "bound" \in Owning
  BY DEF Starting, Owning, Ended
<1>4. OneStarter'
  <2> SUFFICES ASSUME NEW m \in Manager, NEW n \in Manager,
                      proc'[m].at \in Starting
               PROVE  sock' = NoFile /\ (proc'[n].at \in Starting => m = n)
    BY DEF OneStarter
  <2>1. CASE sock' = p /\ proc'[p].at = "bound" /\ proc[p].at = "probe"
             /\ p \in Manager
    BY <2>1, <1>m, Roles, <1>d DEF OneStarter
  <2>2. CASE sock' \in {sock, NoFile}
    <3>1. proc[m].at \in Starting \/ (m = p /\ sock = NoFile
                          /\ \A k \in Manager : proc[k].at \notin Starting)
      BY <1>m, Roles DEF Progression
    <3> QED
      BY <2>2, <3>1, <1>m, Roles DEF OneStarter, Progression
  <2> QED
    BY <2>1, <2>2 DEF Ownership
<1>5. OneOwner'
  <2> SUFFICES ASSUME NEW m \in Manager
               PROVE  proc'[m].at \in Owning <=> sock' = m
    BY DEF OneOwner
  <2>1. CASE sock' = sock
             /\ (p \in Manager => (proc'[p].at \in Owning <=> proc[p].at \in Owning))
    BY <2>1, <1>m, Roles DEF OneOwner
  <2>2. CASE p \in Manager /\ sock = p /\ sock' = NoFile
             /\ proc'[p].at \notin Owning
    BY <2>2, <1>m, Roles DEF OneOwner
  <2>3. CASE p \in Manager /\ proc[p].at = "probe" /\ proc'[p].at = "bound"
             /\ sock' = p
    BY <2>3, <1>m, <1>d, Roles DEF OneOwner, OneStarter
  <2> QED
    BY <2>1, <2>2, <2>3 DEF Ownership
<1>6. SameId'
  BY <1>m DEF SameId, KeepsId, HeldIsCurrent, Current
<1>7. HeldIsCurrent'
  <2> SUFFICES ASSUME NEW v \in Config, Held(v) PROVE Current(v)'
    BY <1>1 DEF HeldIsCurrent
  <2>c. Current(v)
    BY DEF HeldIsCurrent
  <2>1. \A q \in Process : proc'[q].mem # NoFile => proc'[q].mem.id = v.id
    <3>1. \A w \in Config : Held(w) => w = v
      BY HeldOnce
    <3>2. ~ Untouched
      BY DEF Untouched, Held
    <3> QED
      BY <3>1, <3>2, <2>c, <1>m DEF Current, KeepsId
  <2>2. sock' \in Manager => v.ip \in {NoIp, sock'}
    BY <2>c, Roles DEF Current, Ownership, Unpublished
  <2>3. \A m \in Manager : Unpublished(proc'[m]) => v.ip = NoIp
    BY <2>c, <1>m, Roles DEF Current, Progression
  <2>4. \A m \in Manager : proc'[m].at = "run" => v = proc'[m].mem
    BY <2>c, <1>m, Roles DEF Current, Progression
  <2>5. \A c \in Client : proc'[c].conn # NoFile => v.ip # Old
    BY <2>c, <1>m, Roles DEF Current, KeepsAddress, TypeOK
  <2> QED
    BY <2>1, <2>2, <2>3, <2>4, <2>5 DEF Current, Unpublished
<1>8. Connected'
  <2> SUFFICES ASSUME NEW c \in Client, proc'[c].conn # NoFile
               PROVE  proc'[proc'[c].conn].at \in Owning \cup Ended
    BY DEF Connected
  <2> DEFINE m == proc'[c].conn
  <2>1. m \in Manager
    BY Roles DEF Moves, State
  <2>2. proc[m].at \in Owning \cup Ended
    BY <2>1, <1>m, Roles DEF Connected, KeepsAddress, OneOwner
  <2> QED
    BY <2>1, <2>2, <1>m, Roles DEF Progression
<1>9. AddressIsCurrent'
  <2> SUFFICES ASSUME NEW c \in Client, proc'[c].at \in {"ssh", "session"}
               PROVE  /\ proc'[c].mem.ip \in Manager
                      /\ \/ proc'[c].mem.ip = proc'[c].conn
                         \/ proc'[proc'[c].conn].at \in Ended
    BY DEF AddressIsCurrent
  <2> DEFINE m == proc'[c].conn
  <2>1. proc[c].conn = m
    BY <1>m, Roles DEF KeepsAddress
  <2>2. m \in Manager
    <3>1. proc'[c].conn # NoFile
      BY <1>1, Roles DEF EachFits, Fits, Out
    <3> QED
      BY <3>1, Roles DEF Moves, State
  <2>3. CASE proc[c].at \in {"ssh", "session"} /\ proc'[c].mem = proc[c].mem
    BY <2>1, <2>2, <2>3, <1>m, Roles DEF AddressIsCurrent, Progression
  <2>4. CASE Held(proc'[c].mem) /\ proc'[c].mem \in Config
             /\ proc'[c].mem.ip # NoIp
    <3>1. Current(proc'[c].mem)
      BY <2>4 DEF HeldIsCurrent
    <3>2. proc'[c].mem.ip \in Manager
      BY <2>1, <2>2, <2>4, <3>1, Roles DEF Current, Config
    <3>3. proc[m].at \in Owning \cup Ended
      BY <2>1, <2>2, Roles DEF Connected
    <3>4. CASE proc[m].at \in Ended
      BY <3>2, <3>4, <2>2, <1>m, Roles DEF Progression
    <3>5. CASE proc[m].at \in Owning
      <4>1. sock = m
        BY <3>5, <2>2 DEF OneOwner
      <4> QED
        BY <4>1, <3>1, <3>2, <2>2, <2>4, Roles DEF Current
    <3> QED
      BY <3>3, <3>4, <3>5
  <2> QED
    BY <2>3, <2>4, <1>m, Roles DEF KeepsAddress
<1> QED
  BY <1>1, <1>2, <1>3, <1>4, <1>5, <1>6, <1>7, <1>8, <1>9

-----------------------------------------------------------------------------
(***************************************************************************)
(* The steps of a vibebox that are no operation on instance.toml.          *)
(***************************************************************************)
\* Whoever is further than its start shows that there is a configuration.
LEMMA InPlay ==
  ASSUME AllEarly, NEW p \in Process,
         proc[p].at \notin Out \cup {"touch", "load", "lastTouch"}
  PROVE  ~ Untouched
  BY DEF AllEarly, Early, Fresh

LEMMA VibeboxGoes ==
  ASSUME TypeOK, Undisturbed, NEW c \in Client, proc[c].at \notin Out,
         proc[c].io = "none", NEW r \in State, Become(c, r),
         UNCHANGED <<inst, sock>>, Fits(c, r), r.io # "write",
         \/ r.mem = NoFile /\ r.at \in Out
         \/ /\ r.mem = proc[c].mem /\ r.conn = proc[c].conn
            /\ r.at \in {"ssh", "session"} => proc[c].at \in {"ssh", "session"}
  PROVE  proc' \in [Process -> State] /\ Undisturbed'
<1>1. c \in Process /\ c \notin Manager
  BY Roles
<1>2. Moves(c) /\ proc'[c] = r
  BY <1>1, Moving
<1>3. Fits(c, proc[c]) /\ Fits(c, proc[c])'
  BY <1>1, <1>2 DEF Undisturbed, EachFits, Fits
<1>4. ~ Untouched
  BY <1>1, <1>3, InPlay, Places DEF Undisturbed, Fits
<1>5. ~ Writing(c) /\ ~ Writing(c)'
  BY <1>2 DEF Writing
<1>6. r.at # "touch" /\ (r.at \in Out => r.conn = NoFile)
  BY Places DEF Fits
<1>7. Ownership(c) /\ Progression(c)
  BY <1>1 DEF Ownership, Progression
<1>8. KeepsId(c) /\ KeepsAddress(c)
  BY <1>2, <1>6 DEF KeepsId, KeepsAddress, Out
<1>9. ~ Fresh(proc'[c])
  BY <1>2, <1>6 DEF Fresh
<1> QED
  BY <1>1, <1>2, <1>3, <1>4, <1>5, <1>7, <1>8, <1>9, QuietStep DEF Moves

LEMMA AttemptStep ==
  ASSUME TypeOK, Undisturbed, NEW c \in Client,
         proc[c].at \in {"ssh", "session"}, AttemptFails(c)
  PROVE  proc' \in [Process -> State] /\ Undisturbed'
<1>1. proc[c] \in State /\ Fits(c, proc[c]) /\ c \in Process
  BY Roles DEF TypeOK, Undisturbed, EachFits
<1>2. proc[c].io = "none" /\ proc[c].at \notin Out
  BY <1>1 DEF Fits, Ops, Storing, Reading, Out
<1>3. CASE proc[c].attempts + 1 >= SshRetries
  <2>1. Become(c, Quit) /\ UNCHANGED <<inst, sock>>
    BY <1>3 DEF AttemptFails
  <2> QED
    BY <2>1, <1>1, <1>2, QuitIsOut, VibeboxGoes DEF Out
<1>4. CASE ~ (proc[c].attempts + 1 >= SshRetries)
  <2> DEFINE a == [proc[c] EXCEPT !.attempts = @ + 1]
             r == Go(a, "ssh")
  <2>1. Become(c, r) /\ UNCHANGED <<inst, sock>>
    BY <1>4 DEF AttemptFails
  <2>2. /\ a \in State /\ a.mem = proc[c].mem /\ a.base = proc[c].base
        /\ a.conn = proc[c].conn
    BY <1>1, <1>4, BoundAssumption DEF State
  <2>3. "ssh" \in Place
    BY DEF Place
  <2> HIDE DEF a
  <2>4. /\ r \in State /\ r.at = "ssh" /\ r.io = "none"
        /\ r.mem = proc[c].mem /\ r.conn = proc[c].conn
    BY <2>2, <2>3, GoMoves DEF State
  <2> HIDE DEF r
  <2>5. Fits(c, r)
    BY <1>1, <2>4, Roles, Places DEF Fits, Ops, Storing, Reading, Out
  <2> QED
    BY <2>1, <2>4, <2>5, <1>1, <1>2, VibeboxGoes
<1> QED
  BY <1>3, <1>4

LEMMA VibeboxStep ==
  ASSUME TypeOK, Undisturbed, NEW c \in Client,
         ReadStatus(c) \/ RemoveStatus(c) \/ SshFails(c) \/ SshRuns(c)
           \/ SessionLost(c) \/ WaitTimesOut(c) \/ SessionEnds(c)
  PROVE  proc' \in [Process -> State] /\ Undisturbed'
<1> DEFINE s == proc[c]
<1>1. s \in State /\ Fits(c, s) /\ c \in Process
  BY Roles DEF TypeOK, Undisturbed, EachFits
<1>p. /\ "giveUp" \in Place /\ "poll" \in Place /\ "again" \in Place
      /\ "session" \in Place
  BY DEF Place, Polling
<1> USE DEF At, Out
<1>2. CASE SessionEnds(c) \/ (RemoveStatus(c) /\ ~ At(c, "found"))
  <2>1. /\ Become(c, Quit) /\ UNCHANGED <<inst, sock>>
        /\ s.io = "none" /\ s.at \notin Out
    BY <1>2 DEF SessionEnds, RemoveStatus
  <2> QED
    BY <2>1, QuitIsOut, VibeboxGoes, Roles
<1>3. CASE SshFails(c) \/ SessionLost(c)
  BY <1>3, AttemptStep DEF SshFails, SessionLost
<1>4. CASE ReadStatus(c) \/ WaitTimesOut(c)
  <2>1. /\ s.io = "none" /\ s.at = "check" /\ UNCHANGED <<inst, sock>>
        /\ Become(c, Go(s, "giveUp")) \/ Become(c, GoDo(s, "poll", "read"))
    BY <1>4 DEF ReadStatus, WaitTimesOut
  <2>2. ASSUME Become(c, Go(s, "giveUp"))
        PROVE  proc' \in [Process -> State] /\ Undisturbed'
    <3> DEFINE r == Go(s, "giveUp")
    <3>1. Become(c, r)
      BY <2>2
    <3>2. /\ r \in State /\ r.at = "giveUp" /\ r.io = "none"
          /\ r.mem = s.mem /\ r.conn = s.conn
      BY <1>1, <1>p, GoMoves DEF State
    <3> HIDE DEF r
    <3>3. Fits(c, r)
      BY <1>1, <2>1, <3>2, Roles, Places DEF Fits, Ops, Storing, Reading
    <3> QED
      BY <2>1, <3>1, <3>2, <3>3, VibeboxGoes
  <2>3. ASSUME Become(c, GoDo(s, "poll", "read"))
        PROVE  proc' \in [Process -> State] /\ Undisturbed'
    <3> DEFINE r == GoDo(s, "poll", "read")
    <3>1. Become(c, r)
      BY <2>3
    <3>2. /\ r \in State /\ r.at = "poll" /\ r.io = "read"
          /\ r.mem = s.mem /\ r.conn = s.conn
      BY <1>1, <1>p, GoDoMoves DEF State
    <3> HIDE DEF r
    <3>3. Fits(c, r)
      BY <1>1, <2>1, <3>2, Roles, Places DEF Fits, Ops, Storing, Reading
    <3> QED
      BY <2>1, <3>1, <3>2, <3>3, VibeboxGoes
  <2> QED
    BY <2>1, <2>2, <2>3
<1>5. CASE RemoveStatus(c) /\ At(c, "found")
  <2> DEFINE r == GoDo(s, "again", "read")
  <2>1. /\ s.io = "none" /\ s.at = "found" /\ UNCHANGED <<inst, sock>>
        /\ Become(c, r)
    BY <1>5 DEF RemoveStatus
  <2>2. /\ r \in State /\ r.at = "again" /\ r.io = "read"
        /\ r.mem = s.mem /\ r.conn = s.conn
    BY <1>1, <1>p, GoDoMoves DEF State
  <2> HIDE DEF r
  <2>3. Fits(c, r)
    BY <1>1, <2>1, <2>2, Roles, Places DEF Fits, Ops, Storing, Reading
  <2> QED
    BY <2>1, <2>2, <2>3, VibeboxGoes
<1>6. CASE SshRuns(c)
  <2> DEFINE r == Go(s, "session")
  <2>1. /\ s.io = "none" /\ s.at = "ssh" /\ UNCHANGED <<inst, sock>>
        /\ Become(c, r)
    BY <1>6 DEF SshRuns
  <2>2. /\ r \in State /\ r.at = "session" /\ r.io = "none"
        /\ r.mem = s.mem /\ r.conn = s.conn
    BY <1>1, <1>p, GoMoves DEF State
  <2> HIDE DEF r
  <2>3. Fits(c, r)
    BY <1>1, <2>1, <2>2, Roles, Places DEF Fits, Ops, Storing, Reading
  <2> QED
    BY <2>1, <2>2, <2>3, VibeboxGoes
<1> QED
  BY <1>2, <1>3, <1>4, <1>5, <1>6

LEMMA ConnectStep ==
  ASSUME TypeOK, Undisturbed, NEW c \in Client, Connect(c)
  PROVE  proc' \in [Process -> State] /\ Undisturbed'
<1> DEFINE s == proc[c]
           t == [s EXCEPT !.conn = sock]
           r == GoDo(t, "first", "read")
<1>1. s \in State /\ Fits(c, s) /\ c \in Process /\ c \notin Manager
  BY Roles DEF TypeOK, Undisturbed, EachFits
<1>2. /\ s.at = "idle" /\ s.io = "none" /\ sock # NoFile /\ Become(c, r)
      /\ inst' = inst /\ sock' = sock
  BY DEF Connect, At
<1>3. sock \in Manager /\ "first" \in Place
  BY <1>2 DEF TypeOK, Place
<1>4. t \in State /\ t.mem = s.mem /\ t.conn = sock
  BY <1>1, <1>3 DEF State
<1> HIDE DEF t
<1>5. /\ r \in State /\ r.at = "first" /\ r.io = "read"
      /\ r.mem = NoFile /\ r.conn = sock
  <2>1. s.mem = NoFile
    BY <1>1, <1>2 DEF Fits, Out
  <2> QED
    BY <2>1, <1>3, <1>4, GoDoMoves DEF State
<1> HIDE DEF r
<1>6. Fits(c, r)
  BY <1>1, <1>2, <1>5, Places DEF Fits, Ops, Storing, Reading, Out
<1>7. Moves(c) /\ proc'[c] = r
  BY <1>1, <1>2, <1>5, Moving
<1>8. ~ Untouched
  <2>1. proc[sock].at \in Owning /\ sock \in Process
    BY <1>3, Roles DEF Undisturbed, OneOwner
  <2> QED
    BY <2>1, InPlay DEF Undisturbed, Owning, Out
<1>9. Ownership(c) /\ Progression(c)
  BY <1>1, <1>2 DEF Ownership, Progression
<1>10. KeepsId(c) /\ KeepsAddress(c)
  BY <1>5, <1>7 DEF KeepsId, KeepsAddress
<1>11. /\ Fits(c, proc[c])' /\ ~ Writing(c) /\ ~ Writing(c)'
       /\ ~ Fresh(proc'[c])
  BY <1>2, <1>5, <1>6, <1>7 DEF Fits, Writing, Fresh
<1> QED
  BY <1>1, <1>2, <1>7, <1>8, <1>9, <1>10, <1>11, QuietStep DEF Moves

-----------------------------------------------------------------------------
(***************************************************************************)
(* The steps of a manager that are no operation on instance.toml.          *)
(***************************************************************************)
LEMMA OwnerGoes ==
  ASSUME TypeOK, Undisturbed, NEW m \in Manager, proc[m].at \in Owning,
         proc[m].io = "none", NEW r \in State, Become(m, r),
         UNCHANGED <<inst, sock>>, Fits(m, r), r.io # "write",
         \/ r.at \in {"report", "unlink"}
         \/ r.at \in {"boot", "publish"} /\ proc[m].at \in {"bound", "boot"},
         r.mem # NoFile => proc[m].mem # NoFile /\ r.mem.id = proc[m].mem.id
  PROVE  proc' \in [Process -> State] /\ Undisturbed'
<1>1. m \in Process /\ m \notin Client
  BY Roles
<1>2. Moves(m) /\ proc'[m] = r
  BY <1>1, Moving
<1>3. Fits(m, proc[m])' /\ ~ Writing(m) /\ ~ Writing(m)' /\ ~ Fresh(proc'[m])
  BY <1>2 DEF Fits, Writing, Fresh
<1>4. ~ Untouched
  BY <1>1, InPlay DEF Undisturbed, Owning, Out
<1>5. Ownership(m)
  BY <1>2 DEF Ownership, Owning
<1>6. Progression(m)
  <2>1. proc'[m].at \notin Starting /\ proc'[m].at \in Owning
    BY <1>2, Places DEF Owning
  <2>2. proc[m].at \in Ended => proc'[m].at \in Ended
    BY <1>2, Places
  <2>3. ASSUME Unpublished(proc'[m]), NEW v \in Config, Held(v)
        PROVE  v.ip = NoIp
    <3>1. Unpublished(proc[m])
      BY <2>3, <1>2 DEF Unpublished
    <3> QED
      BY <2>3, <3>1 DEF Undisturbed, HeldIsCurrent, Current
  <2> QED
    BY <1>2, <2>1, <2>2, <2>3 DEF Progression
<1>7. KeepsId(m) /\ KeepsAddress(m)
  BY <1>1, <1>2 DEF KeepsId, KeepsAddress
<1> QED
  BY <1>1, <1>2, <1>3, <1>4, <1>5, <1>6, <1>7, QuietStep DEF Moves

LEMMA OwnerStep ==
  ASSUME TypeOK, Undisturbed, NEW m \in Manager,
         UpdateStatus(m) \/ GuestReports(m) \/ RunVmReturns(m) \/ ReportError(m)
  PROVE  proc' \in [Process -> State] /\ Undisturbed'
<1> DEFINE s == proc[m]
<1>1. s \in State /\ Fits(m, s) /\ m \in Process /\ m \notin Client
  BY Roles DEF TypeOK, Undisturbed, EachFits
<1>2. ASSUME NEW l \in {"boot", "report", "unlink"}, Become(m, Go(s, l)),
             s.at \in Owning, s.io = "none", UNCHANGED <<inst, sock>>,
             l = "boot" => s.at = "bound"
      PROVE  proc' \in [Process -> State] /\ Undisturbed'
  <2> DEFINE r == Go(s, l)
  <2>0. l \in Place /\ Become(m, r)
    BY <1>2 DEF Place, Ended
  <2>1. /\ r \in State /\ r.at = l /\ r.io = "none"
        /\ r.mem = s.mem /\ r.base = s.base /\ r.conn = s.conn
    BY <1>1, <2>0, GoMoves DEF State
  <2> HIDE DEF r
  <2>2. Fits(m, r)
    BY <1>1, <1>2, <2>1, Places
    DEF Fits, Ops, Storing, Reading, Out, ManagerPlace, Owning
  <2> QED
    BY <1>2, <2>0, <2>1, <2>2, OwnerGoes
<1>3. CASE UpdateStatus(m) \/ RunVmReturns(m) \/ ReportError(m)
  <2>1. /\ s.at \in {"bound", "boot", "run", "report"} /\ s.io = "none"
        /\ UNCHANGED <<inst, sock>>
        /\ \/ s.at = "bound" /\ Become(m, Go(s, "boot"))
           \/ Become(m, Go(s, "report")) \/ Become(m, Go(s, "unlink"))
    BY <1>3 DEF UpdateStatus, RunVmReturns, ReportError, At
  <2> QED
    BY <1>2, <2>1 DEF Owning
<1>4. CASE GuestReports(m)
  <2> DEFINE t == [s EXCEPT !.mem.ip = m]
             r == GoDo(t, "publish", "truncate")
  <2>1. /\ s.at = "boot" /\ s.io = "none" /\ Become(m, r)
        /\ UNCHANGED <<inst, sock>>
    BY <1>4 DEF GuestReports, At
  <2>2. s.mem \in Config /\ s.base \in Config
    BY <1>1, <2>1 DEF Fits
  <2>3. /\ t.mem \in Config /\ t.mem.ip = m /\ t.mem.id = s.mem.id
        /\ t.base = s.base /\ t.conn = s.conn /\ t \in State
    <3>1. t = [s EXCEPT !.mem = [s.mem EXCEPT !.ip = m]]
      OBVIOUS
    <3>2. /\ [s.mem EXCEPT !.ip = m] \in Config
          /\ [s.mem EXCEPT !.ip = m].ip = m
          /\ [s.mem EXCEPT !.ip = m].id = s.mem.id
      BY <2>2 DEF Config
    <3> QED
      BY <3>1, <3>2, <1>1 DEF State
  <2> HIDE DEF t
  <2>4. "publish" \in Place
    BY DEF Place
  <2>5. /\ r \in State /\ r.at = "publish" /\ r.io = "truncate"
        /\ r.mem = t.mem /\ r.base = s.base /\ r.conn = s.conn
    BY <2>3, <2>4, GoDoMoves DEF State
  <2> HIDE DEF r
  <2>6. Fits(m, r)
    BY <1>1, <2>1, <2>2, <2>3, <2>5, Places
    DEF Fits, Ops, Storing, Reading, Out, ManagerPlace, Owning
  <2> QED
    BY <2>1, <2>2, <2>3, <2>5, <2>6, Contents, OwnerGoes DEF Owning
<1> QED
  BY <1>3, <1>4

\* Nobody has the socket while a manager starts: it is bound.
LEMMA ProbeStep ==
  ASSUME TypeOK, Undisturbed, NEW m \in Manager, Probe(m)
  PROVE  proc' \in [Process -> State] /\ Undisturbed'
<1> DEFINE s == proc[m]
           r == Go(s, "bound")
<1>1. s \in State /\ Fits(m, s) /\ m \in Process /\ m \notin Client
  BY Roles DEF TypeOK, Undisturbed, EachFits
<1>2. s.at = "probe" /\ s.io = "none" /\ inst' = inst
  BY DEF Probe, At
<1>3. sock = NoFile
  BY <1>2, Places DEF Undisturbed, OneStarter
<1>4. sock' = m /\ Become(m, r) /\ "bound" \in Place
  BY <1>3 DEF Probe, Place
<1>5. /\ r \in State /\ r.at = "bound" /\ r.io = "none"
      /\ r.mem = s.mem /\ r.base = s.base /\ r.conn = s.conn
  BY <1>1, <1>4, GoMoves DEF State
<1> HIDE DEF r
<1>6. Fits(m, r)
  BY <1>1, <1>2, <1>5, Places
  DEF Fits, Ops, Storing, Reading, Out, ManagerPlace, Owning
<1>7. Moves(m) /\ proc'[m] = r
  BY <1>1, <1>4, <1>5, Moving
<1>8. /\ Fits(m, proc[m])' /\ ~ Writing(m) /\ ~ Writing(m)'
      /\ ~ Fresh(proc'[m])
  BY <1>2, <1>5, <1>6, <1>7 DEF Fits, Writing, Fresh
<1>9. ~ Untouched
  BY <1>1, <1>2, InPlay DEF Undisturbed, Out
<1>10. Ownership(m) /\ KeepsId(m) /\ KeepsAddress(m)
  BY <1>1, <1>2, <1>4, <1>5, <1>7 DEF Ownership, KeepsId, KeepsAddress
<1>11. Progression(m)
  <2>1. ASSUME NEW v \in Config, Held(v) PROVE v.ip = NoIp
    BY <1>2, <2>1 DEF Undisturbed, HeldIsCurrent, Current, Unpublished
  <2> QED
    BY <1>2, <1>5, <1>7, <2>1, Places DEF Progression, Owning
<1> QED
  BY <1>1, <1>2, <1>7, <1>8, <1>9, <1>10, <1>11, QuietStep DEF Moves

LEMMA UnlinkStep ==
  ASSUME TypeOK, Undisturbed, NEW m \in Manager, Unlink(m)
  PROVE  proc' \in [Process -> State] /\ Undisturbed'
<1> DEFINE s == proc[m]
           r == GoDo(s, "lastTouch", "read")
<1>1. s \in State /\ Fits(m, s) /\ m \in Process /\ m \notin Client
  BY Roles DEF TypeOK, Undisturbed, EachFits
<1>2. s.at = "unlink" /\ s.io = "none" /\ inst' = inst /\ sock' = NoFile
  BY DEF Unlink, At
<1>3. sock = m
  BY <1>2 DEF Undisturbed, OneOwner, Owning
<1>4. Become(m, r) /\ "lastTouch" \in Place
  BY DEF Unlink, Place, Ended
<1>5. /\ r \in State /\ r.at = "lastTouch" /\ r.io = "read"
      /\ r.mem = s.mem /\ r.base = s.base /\ r.conn = s.conn
  BY <1>1, <1>4, GoDoMoves DEF State
<1> HIDE DEF r
<1>6. Fits(m, r)
  BY <1>1, <1>2, <1>5, Places
  DEF Fits, Ops, Storing, Reading, Out, ManagerPlace, Owning
<1>7. Moves(m) /\ proc'[m] = r
  BY <1>1, <1>4, <1>5, Moving
<1>8. /\ Fits(m, proc[m])' /\ ~ Writing(m) /\ ~ Writing(m)'
      /\ ~ Fresh(proc'[m])
  BY <1>2, <1>5, <1>6, <1>7 DEF Fits, Writing, Fresh
<1>9. ~ Untouched
  BY <1>1, <1>2, InPlay DEF Undisturbed, Out
<1>10. Ownership(m) /\ KeepsId(m) /\ KeepsAddress(m)
  BY <1>1, <1>2, <1>3, <1>5, <1>7
  DEF Ownership, KeepsId, KeepsAddress, Owning
<1>11. Progression(m)
  BY <1>5, <1>7, Places DEF Progression, Unpublished
<1> QED
  BY <1>1, <1>2, <1>7, <1>8, <1>9, <1>10, <1>11, QuietStep DEF Moves

LEMMA StartStep ==
  ASSUME TypeOK, Undisturbed, NEW m \in Manager, StartManager(m)
  PROVE  proc' \in [Process -> State] /\ (clean' => Undisturbed')
<1> DEFINE s == proc[m]
           r == GoDo(s, "touch", "read")
<1>1. s \in State /\ Fits(m, s) /\ m \in Process /\ m \notin Client
  BY Roles DEF TypeOK, Undisturbed, EachFits
<1>2. /\ s.at = "idle" /\ s.io = "none" /\ sock = NoFile
      /\ inst' = inst /\ sock' = sock
  BY DEF StartManager, At
<1>4. Become(m, r) /\ "touch" \in Place
  BY DEF StartManager, Place, Starting
<1>5. /\ r \in State /\ r.at = "touch" /\ r.io = "read"
      /\ r.mem = NoFile /\ r.base = s.base /\ r.conn = s.conn
  <2>1. s.mem = NoFile
    BY <1>1, <1>2 DEF Fits, Out
  <2> QED
    BY <2>1, <1>1, <1>4, GoDoMoves DEF State
<1> HIDE DEF r
<1>6. Fits(m, r)
  BY <1>1, <1>2, <1>5, Places
  DEF Fits, Ops, Storing, Reading, Out, ManagerPlace, Owning
<1>7. Moves(m) /\ proc'[m] = r
  BY <1>1, <1>4, <1>5, Moving
<1>8. /\ Fits(m, proc[m])' /\ ~ Writing(m) /\ ~ Writing(m)'
      /\ ~ Fresh(proc'[m]) /\ Early(proc[m])'
  BY <1>2, <1>5, <1>6, <1>7 DEF Fits, Writing, Fresh, Early
<1>10. Ownership(m) /\ KeepsId(m) /\ KeepsAddress(m)
  BY <1>1, <1>2, <1>5, <1>7
  DEF Ownership, KeepsId, KeepsAddress, Owning
<1>11. ASSUME clean' PROVE Progression(m)
  <2>1. \A n \in Manager : proc[n].at \notin Starting
    BY <1>11 DEF StartManager
  <2> QED
    BY <2>1, <1>2, <1>5, <1>7, Places DEF Progression, Unpublished, Owning
<1> QED
  BY <1>1, <1>2, <1>7, <1>8, <1>10, <1>11, QuietStep DEF Moves

LEMMA DiesStep ==
  ASSUME TypeOK, Undisturbed, NEW p \in Process, Dies(p)
  PROVE  proc' \in [Process -> State] /\ (clean' => Undisturbed')
<1>1. proc[p] \in State /\ Fits(p, proc[p])
  BY DEF TypeOK, Undisturbed, EachFits
<1>2. /\ Become(p, Quit) /\ inst' = inst
      /\ sock' = IF sock = p THEN NoFile ELSE sock
  BY DEF Dies
<1>3. Moves(p) /\ proc'[p] = Quit
  BY <1>2, QuitIsOut, Moving
<1>4. /\ Fits(p, proc[p])' /\ ~ Writing(p)' /\ ~ Fresh(proc'[p])
      /\ Early(proc[p])'
  BY <1>3, QuitIsOut DEF Fits, Writing, Fresh, Early, Out
<1>5. ASSUME clean' PROVE ~ Writing(p)
  BY <1>5 DEF Dies, Writing
<1>6. Ownership(p)
  <2>1. CASE p \in Manager
    BY <2>1, <1>2, <1>3, QuitIsOut
    DEF Ownership, Undisturbed, OneOwner, Owning
  <2>2. CASE p \notin Manager
    <3>1. sock' = sock
      BY <2>2, <1>2 DEF TypeOK
    <3> QED
      BY <2>2, <3>1 DEF Ownership
  <2> QED
    BY <2>1, <2>2
<1>7. Progression(p) /\ KeepsId(p) /\ KeepsAddress(p)
  BY <1>3, QuitIsOut, Places
  DEF Progression, KeepsId, KeepsAddress, Unpublished
<1> QED
  BY <1>2, <1>3, <1>4, <1>5, <1>6, <1>7, QuietStep DEF Moves

-----------------------------------------------------------------------------
(***************************************************************************)
(* The operations on instance.toml.                                        *)
(***************************************************************************)
LEMMA LoadStep ==
  ASSUME TypeOK, Undisturbed, NEW p \in Process, Load(p)
  PROVE  proc' \in [Process -> State] /\ Undisturbed'
<1> DEFINE s == proc[p]
           t == [s EXCEPT !.mem = inst, !.base = inst]
           r == Loaded(t)
<1>1. s \in State /\ Fits(p, s)
  BY DEF TypeOK, Undisturbed, EachFits
<1>2. s.io = "read" /\ inst \in Config /\ Become(p, r) /\ UNCHANGED <<inst, sock>>
  BY DEF Load
<1>3. s.at \in LoadCalls
  BY <1>1, <1>2 DEF Fits, Ops, Storing, Reading, LoadCalls
<1>4. /\ t \in State /\ t.mem = inst /\ t.base = inst /\ t.at = s.at
      /\ t.conn = s.conn /\ t.io = "read" /\ [t EXCEPT !.io = "read"] = t
  BY <1>1, <1>2 DEF State, Content
<1> HIDE DEF t
<1>5. Fits(p, t)
  BY <1>1, <1>2, <1>3, <1>4, Contents
  DEF Fits, LoadCalls, Storing, Ops, Reading, Out
<1>6. /\ r \in State /\ Fits(p, r)
      /\ \/ s.at = "touch" /\ r.at = "stamp"
         \/ s.at = "load" /\ r.at = "probe" /\ inst.ip = NoIp
         \/ s.at = "load" /\ r.at = "clear"
         \/ s.at = "lastTouch" /\ r.at = "lastStamp"
         \/ s.at = "first" /\ r.at = "poll"
         \/ s.at = "poll" /\ r.at \in {"found", "check"}
         \/ s.at = "again" /\ r.at = "ssh" /\ r.mem.ip # NoIp
         \/ s.at = "again" /\ r.at = "gone"
      /\ r.io # "write"
      /\ IF r.at = "gone" THEN r.mem = NoFile /\ r.conn = NoFile
         ELSE r.conn = s.conn /\ r.mem.id = inst.id /\ r.mem \in Config
      /\ r.at = "ssh" => r.mem = inst
  BY <1>2, <1>3, <1>4, <1>5, LoadedMoves
<1> HIDE DEF r
<1>7. Moves(p) /\ proc'[p] = r
  BY <1>2, <1>6, Moving
<1>8. /\ Fits(p, proc[p])' /\ ~ Writing(p) /\ ~ Writing(p)'
      /\ ~ Fresh(proc'[p]) /\ ~ Untouched /\ Held(inst)
  BY <1>2, <1>6, <1>7 DEF Fits, Writing, Fresh, Untouched, Held
<1>9. Ownership(p)
  BY <1>2, <1>6, <1>7 DEF Ownership, Owning
<1>10. Progression(p)
  <2>1. ASSUME r.at = "probe", NEW v \in Config, Held(v) PROVE v.ip = NoIp
    BY <1>2, <1>6, <1>8, <2>1, HeldOnce DEF Undisturbed
  <2>2. p \in Manager => s.at \in {"touch", "load", "lastTouch"}
    BY <1>1, <1>6, Places DEF Fits, ManagerPlace, Owning, Out
  <2> QED
    BY <1>6, <1>7, <2>1, <2>2, Places DEF Progression, Unpublished, Owning
<1>11. KeepsId(p) /\ KeepsAddress(p)
  BY <1>2, <1>6, <1>7, <1>8 DEF KeepsId, KeepsAddress
<1> QED
  BY <1>2, <1>7, <1>8, <1>9, <1>10, <1>11, QuietStep DEF Moves

\* A file that does not parse has been there from the start.
LEMMA LoadFailsStep ==
  ASSUME TypeOK, Undisturbed, NEW p \in Process, LoadFails(p)
  PROVE  proc' \in [Process -> State] /\ Undisturbed'
<1> DEFINE s == proc[p]
           r == Refused(s)
<1>1. s \in State /\ Fits(p, s)
  BY DEF TypeOK, Undisturbed, EachFits
<1>2. s.io = "read" /\ inst = Garbled /\ Become(p, r) /\ UNCHANGED <<inst, sock>>
  BY DEF LoadFails
<1>3. Untouched
  BY <1>2, Contents DEF Untouched, Undisturbed, OneWriter
<1>4. s.at \in {"touch", "load", "lastTouch"} /\ s.mem = NoFile
  BY <1>1, <1>2, <1>3
  DEF Undisturbed, AllEarly, Early, Fresh, Fits, Ops, Out, Storing, Reading
<1>5. p \in Manager /\ p \notin Client
  BY <1>1, <1>4, Roles, Places DEF Fits
<1>6. /\ r \in State /\ Fits(p, r) /\ r.io \in {"none", "read"} /\ r.mem = NoFile
      /\ \/ s.at = "touch" /\ r.at = "load"
         \/ s.at = "load" /\ r.at = "lastTouch"
         \/ s.at = "lastTouch" /\ r.at = "gone"
  <2>1. ASSUME NEW l \in {"load", "lastTouch"}, r = GoDo(s, l, "read")
        PROVE  /\ r \in State /\ Fits(p, r) /\ r.io = "read"
               /\ r.mem = NoFile /\ r.at = l
    <3>0. l \in Place
      BY DEF Place, Starting, Ended
    <3> HIDE DEF r
    <3>1. /\ r \in State /\ r.at = l /\ r.io = "read"
          /\ r.mem = s.mem /\ r.base = s.base /\ r.conn = s.conn
      BY <1>1, <2>1, <3>0 DEF State, GoDo
    <3>2. Fits(p, r)
      BY <1>1, <1>4, <1>5, <3>1, Places
      DEF Fits, Ops, Storing, Reading, Out, ManagerPlace, Owning
    <3> QED
      BY <1>4, <3>1, <3>2
  <2>2. CASE s.at = "touch"
    BY <2>1, <2>2 DEF Refused
  <2>3. CASE s.at = "load"
    BY <2>1, <2>3 DEF Refused
  <2>4. CASE s.at = "lastTouch"
    BY <2>4, QuitIsOut DEF Refused
  <2> QED
    BY <1>4, <2>2, <2>3, <2>4
<1> HIDE DEF r
<1>7. Moves(p) /\ proc'[p] = r
  BY <1>2, <1>6, Moving
<1>8. /\ Fits(p, proc[p])' /\ ~ Writing(p) /\ ~ Writing(p)'
      /\ ~ Fresh(proc'[p]) /\ Early(proc[p])'
  BY <1>2, <1>6, <1>7 DEF Fits, Writing, Fresh, Early, Out
<1>9. Ownership(p)
  BY <1>2, <1>6, <1>7 DEF Ownership, Owning
<1>10. Progression(p)
  BY <1>6, <1>7, Places DEF Progression, Unpublished, Owning
<1>11. KeepsId(p) /\ KeepsAddress(p)
  BY <1>5, <1>6, <1>7 DEF KeepsId, KeepsAddress
<1> QED
  BY <1>2, <1>7, <1>8, <1>9, <1>10, <1>11, QuietStep DEF Moves

\* The first configuration comes from the only manager that starts.
LEMMA CreateStep ==
  ASSUME TypeOK, Undisturbed, NEW p \in Process, Create(p)
  PROVE  /\ proc' \in [Process -> State] /\ lastId' \in 0 .. MaxIds
         /\ clean' => Undisturbed'
<1> DEFINE s == proc[p]
           c == [id |-> lastId', ip |-> NoIp]
           r == [s EXCEPT !.io = "truncate", !.base = inst, !.mem = c]
<1>1. s \in State /\ Fits(p, s)
  BY DEF TypeOK, Undisturbed, EachFits
<1>2. /\ s.io = "read" /\ inst \in {NoFile, Empty} /\ Become(p, r)
      /\ UNCHANGED <<inst, sock>>
  BY DEF Create, Incomplete
<1>3. lastId' \in 0 .. MaxIds
  BY BoundAssumption DEF TypeOK, Create
<1>4. c \in Config /\ c.ip = NoIp
  BY <1>3 DEF Config
<1> HIDE DEF c
<1>5. /\ r \in State /\ r.at = s.at /\ r.io = "truncate" /\ r.mem = c
      /\ r.base = inst /\ r.conn = s.conn
  BY <1>1, <1>2, <1>4 DEF State, Content
<1> HIDE DEF r
<1>6. Moves(p) /\ proc'[p] = r
  BY <1>2, <1>5, Moving
<1>7. ASSUME clean' PROVE Undisturbed'
  <2>1. Untouched
    BY <1>7, <1>2, Contents DEF Create, Untouched, Writing
  <2>2. s.at = "touch"
    BY <1>1, <1>2, <2>1, Contents
    DEF Undisturbed, AllEarly, Early, Fresh, Fits, Ops, Out, Storing, Reading
  <2>3. p \in Manager /\ p \notin Client
    BY <1>1, <2>2, Roles, Places DEF Fits
  <2>4. Fits(p, r)
    BY <1>1, <1>4, <1>5, <2>2, <2>3, Places, Contents
    DEF Fits, Ops, Storing, Reading, Out, ManagerPlace, Owning
  <2>5. /\ Fits(p, proc[p])' /\ ~ Writing(p) /\ ~ Writing(p)'
        /\ Early(proc[p])'
    BY <1>2, <1>5, <1>6, <2>2, <2>4, Contents DEF Fits, Writing, Early, Fresh
  <2>6. Ownership(p) /\ Progression(p) /\ KeepsAddress(p)
    BY <1>2, <1>5, <1>6, <2>2, <2>3, Places
    DEF Ownership, Progression, KeepsAddress, Unpublished, Owning
  <2>7. \A q \in Process : q # p => proc[q].mem = NoFile
    <3> SUFFICES ASSUME NEW q \in Process, q # p PROVE proc[q].mem = NoFile
      OBVIOUS
    <3>1. Early(proc[q]) /\ Fits(q, proc[q])
      BY <2>1 DEF Undisturbed, AllEarly, EachFits
    <3>2. proc[q].at # "touch"
      BY <2>2, <2>3, <3>1, Roles, Places DEF Fits, Undisturbed, OneStarter
    <3> QED
      BY <3>1, <3>2 DEF Early, Fresh, Fits
  <2>8. KeepsId(p)
    BY <2>1, <2>7 DEF KeepsId
  <2> QED
    BY <1>2, <1>6, <2>1, <2>5, <2>6, <2>8, QuietStep
<1> QED
  BY <1>3, <1>6, <1>7 DEF Moves

\* Who truncates or writes is a manager, and has a configuration.
LEMMA WriterFits ==
  ASSUME TypeOK, EachFits, NEW p \in Process, proc[p].io \in {"truncate", "write"}
  PROVE  /\ proc[p] \in State /\ Fits(p, proc[p])
         /\ proc[p].at \in Storing \cup {"touch"}
         /\ proc[p].mem \in Config /\ p \in Manager /\ p \notin Client
<1>1. proc[p] \in State /\ Fits(p, proc[p])
  BY DEF TypeOK, EachFits
<1>2. proc[p].at \in Storing \cup {"touch"}
  BY <1>1 DEF Fits, Ops, Storing, Reading
<1> QED
  BY <1>1, <1>2, Roles, Places DEF Fits, Storing

\* What a truncation leaves to be written keeps to the session.
LEMMA TruncateHolds ==
  ASSUME TypeOK, Undisturbed, NEW p \in Process, Truncate(p), inst = proc[p].base,
         \A q \in Process : /\ proc'[q].at = proc[q].at
                            /\ proc'[q].mem = proc[q].mem
                            /\ proc'[q].conn = proc[q].conn
                            /\ proc'[q].io = IF q = p THEN "write" ELSE proc[q].io
  PROVE  Current(proc[p].mem)'
<1> DEFINE v == proc[p].mem
<1>1. proc[p].io = "truncate" /\ sock' = sock
  BY DEF Truncate
<1>2. /\ proc[p] \in State /\ Fits(p, proc[p]) /\ p \in Manager /\ p \notin Client
      /\ proc[p].at \in Storing \cup {"touch"} /\ v \in Config
  BY <1>1, WriterFits DEF Undisturbed
<1>3. \A q \in Process : proc[q].mem # NoFile => proc[q].mem.id = v.id
  BY <1>2, Contents DEF Undisturbed, SameId
<1>n. proc'[p].mem = v
  OBVIOUS
<1>4. CASE proc[p].at \in {"touch", "clear"}
  <2>1. v.ip = NoIp
    BY <1>1, <1>2, <1>4 DEF Fits
  <2>2. sock = NoFile
    BY <1>2, <1>4, Places DEF Undisturbed, OneStarter
  <2>3. \A m \in Manager : proc[m].at # "run"
    BY <2>2, Roles DEF Undisturbed, OneOwner, Owning
  <2> QED
    BY <1>1, <1>3, <1>n, <2>1, <2>2, <2>3, Roles DEF Current
<1>5. CASE proc[p].at \in {"stamp", "lastStamp"}
  <2>1. Held(v)
    BY <1>2, <1>5 DEF Held, Fits
  <2>2. Current(v)
    BY <1>2, <2>1 DEF Undisturbed, HeldIsCurrent
  <2>3. \A m \in Manager : Unpublished(proc'[m]) => Unpublished(proc[m])
    BY Roles DEF Unpublished
  <2> QED
    BY <1>1, <1>3, <1>n, <2>2, <2>3, Roles DEF Current
<1>6. CASE proc[p].at = "publish"
  <2>1. v.ip = p /\ sock = p
    BY <1>2, <1>6 DEF Fits, Undisturbed, OneOwner, Owning
  <2>2. \A m \in Manager : ~ Unpublished(proc'[m]) /\ proc'[m].at # "run"
    <3> SUFFICES ASSUME NEW m \in Manager
                 PROVE  ~ Unpublished(proc'[m]) /\ proc'[m].at # "run"
      OBVIOUS
    <3>1. proc[m].at \notin Starting
      BY <2>1, <1>2, Roles DEF Undisturbed, OneStarter
    <3>2. proc[m].at \in Owning => m = p
      BY <2>1 DEF Undisturbed, OneOwner
    <3> QED
      BY <3>1, <3>2, <1>6, Roles, Places DEF Unpublished, Owning
  <2> QED
    BY <1>1, <1>2, <1>3, <1>n, <2>1, <2>2, Roles DEF Current
<1> QED
  BY <1>2, <1>4, <1>5, <1>6 DEF Storing

LEMMA TruncateStep ==
  ASSUME TypeOK, Undisturbed, NEW p \in Process, Truncate(p)
  PROVE  proc' \in [Process -> State] /\ (clean' => Undisturbed')
<1> DEFINE s == proc[p]
           r == [s EXCEPT !.io = "write"]
<1>1. s.io = "truncate" /\ inst' = Empty /\ sock' = sock /\ Become(p, r)
  BY DEF Truncate
<1>2. /\ s \in State /\ Fits(p, s) /\ p \in Manager /\ p \notin Client
      /\ s.at \in Storing \cup {"touch"} /\ s.mem \in Config
  BY <1>1, WriterFits DEF Undisturbed
<1>3. /\ r \in State /\ r.at = s.at /\ r.io = "write" /\ r.mem = s.mem
      /\ r.base = s.base /\ r.conn = s.conn
  BY <1>2 DEF State
<1> HIDE DEF r
<1>4. Moves(p) /\ proc'[p] = r
  BY <1>1, <1>3, Moving
<1>5. \A q \in Process : /\ proc'[q].at = proc[q].at
                         /\ proc'[q].mem = proc[q].mem
                         /\ proc'[q].conn = proc[q].conn
                         /\ proc'[q].io = IF q = p THEN "write" ELSE proc[q].io
  BY <1>3, <1>4 DEF Moves
<1>6. ASSUME clean' PROVE Undisturbed'
  <2>1. inst = s.base
    BY <1>6 DEF Truncate
  <2>2. Fresh(s) => Untouched
    BY DEF Undisturbed, FreshFirst
  <2>3. Untouched \/ inst \in Config
    BY <1>1, <1>2, <2>1, <2>2 DEF Fits, Fresh, Storing
  <2>4. \A q \in Process : ~ Writing(q)
    BY <2>3, Contents DEF Untouched, Undisturbed, OneWriter
  <2>5. \A q \in Process : Writing(q)' <=> q = p
    BY <1>5, <2>4 DEF Writing
  <2>6. ~ Untouched'
    BY <2>5 DEF Untouched
  <2>7. EachFits'
    <3>1. Fits(p, r)
      BY <1>1, <1>2, <1>3, Places
      DEF Fits, Ops, Storing, Reading, Out, ManagerPlace, Owning
    <3> QED
      BY <3>1, <1>4 DEF Undisturbed, EachFits, Moves, Fits
  <2>8. OneWriter' /\ AllEarly'
    BY <1>1, <2>5, <2>6 DEF OneWriter, AllEarly
  <2>9. FreshFirst'
    <3> SUFFICES ASSUME NEW q \in Process, Fresh(proc'[q]) PROVE FALSE
      BY DEF FreshFirst
    <3>1. q # p /\ Fresh(proc[q])
      BY <1>5 DEF Fresh
    <3>2. Untouched
      BY <3>1 DEF Undisturbed, FreshFirst
    <3>3. s.at = "touch"
      BY <3>2, <1>1, <1>2, <2>1 DEF Untouched, Fits, Storing
    <3>4. q \in Manager
      BY <3>1, Roles, Places DEF Undisturbed, EachFits, Fits, Fresh
    <3> QED
      BY <1>2, <3>1, <3>3, <3>4, Places DEF Undisturbed, OneStarter, Fresh
  <2>10. OneStarter' /\ OneOwner'
    BY <1>1, <1>5, Roles DEF Undisturbed, OneStarter, OneOwner
  <2>11. SameId'
    BY <1>5 DEF Undisturbed, SameId
  <2>12. HeldIsCurrent'
    <3>1. Current(s.mem)'
      BY <1>5, <2>1, TruncateHolds
    <3>2. ASSUME NEW v \in Config, Held(v)' PROVE v = proc'[p].mem
      BY <1>1, <2>5, <3>2, Contents DEF Held
    <3> QED
      BY <3>1, <3>2 DEF HeldIsCurrent
  <2>13. Connected' /\ AddressIsCurrent'
    <3>1. \A c \in Client : proc[c].conn # NoFile => proc[c].conn \in Process
      BY Roles DEF TypeOK, State
    <3>2. \A c \in Client : proc[c].at \in {"ssh", "session"} =>
                              proc[c].conn # NoFile
      BY Roles DEF Undisturbed, EachFits, Fits, Out
    <3> QED
      BY <1>5, <3>1, <3>2, Roles DEF Undisturbed, Connected, AddressIsCurrent
  <2> QED
    BY <2>7, <2>8, <2>9, <2>10, <2>11, <2>12, <2>13 DEF Undisturbed
<1> QED
  BY <1>4, <1>6 DEF Moves

\* What whoever has written goes on to.
LEMMA WrittenMoves ==
  ASSUME NEW p \in Manager, NEW s \in State, Fits(p, s), s.io = "write",
         s.at \in Storing \cup {"touch"}, s.mem \in Config
  PROVE  LET t == [s EXCEPT !.base = s.mem]
             r == IF t.at \in LoadCalls THEN Loaded(t) ELSE Stored(t)
         IN  /\ r \in State /\ Fits(p, r)
             /\ \/ s.at = "touch" /\ r.at = "stamp" /\ r.io = "truncate"
                \/ s.at = "stamp" /\ r.at = "load" /\ r.io = "read"
                \/ s.at = "clear" /\ r.at = "probe" /\ r.io = "none"
                \/ s.at = "publish" /\ r.at = "run" /\ r.io = "none"
                \/ s.at = "lastStamp" /\ r.at = "gone" /\ r.io = "none"
             /\ r.mem = IF r.at = "gone" THEN NoFile ELSE s.mem
<1> DEFINE t == [s EXCEPT !.base = s.mem]
           r == IF t.at \in LoadCalls THEN Loaded(t) ELSE Stored(t)
<1>1. /\ t \in State /\ t.at = s.at /\ t.mem = s.mem /\ t.base = s.mem
      /\ t.conn = s.conn
  BY DEF State, Content
<1>2. p \in Process /\ p \notin Client
  BY Roles
<1>p. /\ "stamp" \in Place /\ "load" \in Place /\ "probe" \in Place
      /\ "run" \in Place
  BY DEF Place, Starting
<1> HIDE DEF t
<1> USE DEF LoadCalls
<1>3. CASE s.at = "touch"
  <2>1. r = GoDo(t, "stamp", "truncate")
    BY <1>1, <1>3 DEF Loaded
  <2> HIDE DEF r
  <2>2. /\ r \in State /\ r.at = "stamp" /\ r.io = "truncate"
        /\ r.mem = s.mem /\ r.base = s.mem /\ r.conn = s.conn
    BY <1>1, <1>p, <2>1, GoDoMoves DEF State
  <2>3. Fits(p, r)
    BY <1>2, <1>3, <2>2, Places
    DEF Fits, Ops, Storing, Reading, Out, ManagerPlace, Owning
  <2> QED
    BY <1>3, <2>2, <2>3 DEF r, t
<1>4. CASE s.at = "stamp"
  <2>1. r = GoDo(t, "load", "read")
    BY <1>1, <1>4 DEF Stored
  <2> HIDE DEF r
  <2>2. /\ r \in State /\ r.at = "load" /\ r.io = "read"
        /\ r.mem = s.mem /\ r.base = s.mem /\ r.conn = s.conn
    BY <1>1, <1>p, <2>1, GoDoMoves DEF State
  <2>3. Fits(p, r)
    BY <1>2, <1>4, <2>2, Places
    DEF Fits, Ops, Storing, Reading, Out, ManagerPlace, Owning
  <2> QED
    BY <1>4, <2>2, <2>3 DEF r, t
<1>5. CASE s.at = "clear"
  <2>1. r = Go(t, "probe")
    BY <1>1, <1>5 DEF Stored
  <2> HIDE DEF r
  <2>2. /\ r \in State /\ r.at = "probe" /\ r.io = "none"
        /\ r.mem = s.mem /\ r.base = s.mem /\ r.conn = s.conn
    BY <1>1, <1>p, <2>1, GoMoves DEF State
  <2>3. Fits(p, r)
    BY <1>2, <1>5, <2>2, Places
    DEF Fits, Ops, Storing, Reading, Out, ManagerPlace, Owning
  <2> QED
    BY <1>5, <2>2, <2>3 DEF r, t
<1>6. CASE s.at = "publish"
  <2>1. r = Go(t, "run")
    BY <1>1, <1>6 DEF Stored
  <2> HIDE DEF r
  <2>2. /\ r \in State /\ r.at = "run" /\ r.io = "none"
        /\ r.mem = s.mem /\ r.base = s.mem /\ r.conn = s.conn
    BY <1>1, <1>p, <2>1, GoMoves DEF State
  <2>3. Fits(p, r)
    BY <1>2, <1>6, <2>2, Places
    DEF Fits, Ops, Storing, Reading, Out, ManagerPlace, Owning
  <2> QED
    BY <1>6, <2>2, <2>3 DEF r, t
<1>7. CASE s.at = "lastStamp"
  <2>1. r = Quit
    BY <1>1, <1>7 DEF Stored
  <2> HIDE DEF r
  <2> QED
    BY <1>2, <1>7, <2>1, QuitIsOut DEF r, t
<1> QED
  BY <1>3, <1>4, <1>5, <1>6, <1>7 DEF Storing

LEMMA WriteStep ==
  ASSUME TypeOK, Undisturbed, NEW p \in Process, Write(p)
  PROVE  /\ proc' \in [Process -> State] /\ inst' \in Content
         /\ clean' => Undisturbed'
<1> DEFINE s == proc[p]
           t == [s EXCEPT !.base = s.mem]
           r == IF t.at \in LoadCalls THEN Loaded(t) ELSE Stored(t)
<1>1. s.io = "write" /\ sock' = sock /\ Become(p, r)
  BY DEF Write
<1>2. /\ s \in State /\ Fits(p, s) /\ p \in Manager /\ p \notin Client
      /\ s.at \in Storing \cup {"touch"} /\ s.mem \in Config
  BY <1>1, WriterFits DEF Undisturbed
<1>3. /\ r \in State /\ Fits(p, r)
      /\ \/ s.at = "touch" /\ r.at = "stamp" /\ r.io = "truncate"
         \/ s.at = "stamp" /\ r.at = "load" /\ r.io = "read"
         \/ s.at = "clear" /\ r.at = "probe" /\ r.io = "none"
         \/ s.at = "publish" /\ r.at = "run" /\ r.io = "none"
         \/ s.at = "lastStamp" /\ r.at = "gone" /\ r.io = "none"
      /\ r.mem = IF r.at = "gone" THEN NoFile ELSE s.mem
  BY <1>1, <1>2, WrittenMoves
<1> HIDE DEF r, t
<1>4. Moves(p) /\ proc'[p] = r
  BY <1>1, <1>3, Moving
<1>5. inst' \in {s.mem, Garbled} /\ (inst = Empty => inst' = s.mem)
  BY DEF Write, Overwrite
<1>m. \A q \in Process : q # p => proc'[q] = proc[q]
  BY <1>4 DEF Moves
<1>6. ASSUME clean' PROVE Undisturbed'
  <2>1. inst' = s.mem
    BY <1>5, <1>6 DEF Write
  <2>2. Held(s.mem) /\ Current(s.mem)
    BY <1>1, <1>2 DEF Held, Writing, Undisturbed, HeldIsCurrent
  <2>3. ~ Untouched
    BY <1>1 DEF Untouched, Writing
  <2>4. \A q \in Process : ~ Writing(q)'
    BY <1>1, <1>3, <1>4, <1>m DEF Undisturbed, OneWriter, Writing
  <2>5. EachFits'
    BY <1>3, <1>4, <1>m DEF Undisturbed, EachFits, Fits
  <2>6. OneWriter' /\ AllEarly'
    BY <1>2, <2>1, <2>4 DEF OneWriter, AllEarly, Untouched
  <2>7. FreshFirst'
    BY <1>3, <1>4, <1>m, <2>3 DEF Undisturbed, FreshFirst, Fresh
  <2>8. /\ s.at \in Owning <=> r.at \in Owning
        /\ r.at \in Starting => s.at \in Starting
        /\ s.at \in Ended => r.at \in Ended
    BY <1>3, Places DEF Owning
  <2>9. OneStarter' /\ OneOwner'
    BY <1>1, <1>2, <1>4, <1>m, <2>8, Roles DEF Undisturbed, OneStarter, OneOwner
  <2>10. SameId'
    BY <1>2, <1>3, <1>4, <1>m, Contents DEF Undisturbed, SameId
  <2>11. HeldIsCurrent'
    <3>1. ASSUME NEW v \in Config, Held(v)' PROVE v = s.mem
      BY <2>1, <2>4, <3>1 DEF Held
    <3>2. s.at = "clear" => s.mem.ip = NoIp
      BY <1>2 DEF Fits
    <3>3. Current(inst)'
      <4>1. \A q \in Process : proc'[q].mem # NoFile => proc'[q].mem.id = s.mem.id
        BY <2>2, <1>3, <1>4, <1>m DEF Current
      <4>2. \A m \in Manager : Unpublished(proc'[m]) => s.mem.ip = NoIp
        BY <2>2, <3>2, <1>3, <1>4, <1>m, Roles DEF Current, Unpublished
      <4>3. \A m \in Manager : proc'[m].at = "run" => s.mem = proc'[m].mem
        BY <2>2, <1>3, <1>4, <1>m, Roles DEF Current
      <4>4. \A c \in Client : proc'[c].conn # NoFile => s.mem.ip # Old
        BY <2>2, <1>2, <1>m, Roles DEF Current
      <4>5. sock' \in Manager => s.mem.ip \in {NoIp, sock'}
        BY <2>2, <1>1 DEF Current
      <4>6. /\ \A q \in Process : proc'[q].mem # NoFile =>
                                    proc'[q].mem.id = inst'.id
            /\ sock' \in Manager => inst'.ip \in {NoIp, sock'}
            /\ \A m \in Manager : Unpublished(proc'[m]) => inst'.ip = NoIp
            /\ \A m \in Manager : proc'[m].at = "run" => inst' = proc'[m].mem
            /\ \A c \in Client : proc'[c].conn # NoFile => inst'.ip # Old
        BY <2>1, <4>1, <4>2, <4>3, <4>4, <4>5
      <4> QED
        BY <4>6 DEF Current, Unpublished
    <3> QED
      BY <3>1, <3>3, <2>1 DEF HeldIsCurrent
  <2>12. Connected' /\ AddressIsCurrent'
    <3>1. \A c \in Client : /\ proc'[c] = proc[c]
                            /\ proc[c].conn # NoFile => proc[c].conn \in Process
      BY <1>2, <1>m, Roles DEF TypeOK, State
    <3>2. \A c \in Client : proc[c].at \in {"ssh", "session"} =>
                              proc[c].conn # NoFile
      BY Roles DEF Undisturbed, EachFits, Fits, Out
    <3>3. Connected'
      BY <3>1, <1>4, <1>m, <2>8 DEF Undisturbed, Connected
    <3>4. AddressIsCurrent'
      BY <3>1, <3>2, <1>4, <1>m, <2>8 DEF Undisturbed, AddressIsCurrent
    <3> QED
      BY <3>3, <3>4
  <2> QED
    BY <2>5, <2>6, <2>7, <2>9, <2>10, <2>11, <2>12 DEF Undisturbed
<1> QED
  BY <1>2, <1>4, <1>5, <1>6 DEF Moves, Content

-----------------------------------------------------------------------------
(***************************************************************************)
(* The invariant and what it says.                                         *)
(***************************************************************************)
\* Everybody is idle at first, and a file of before counts as current.
LEMMA InitInvariant == Init => IInv
<1> SUFFICES ASSUME Init PROVE IInv
  OBVIOUS
<1>1. /\ Nothing \in State /\ Nothing.at = "idle" /\ Nothing.io = "none"
      /\ Nothing.mem = NoFile /\ Nothing.conn = NoFile
  BY BoundAssumption DEF Nothing, State, Place, Content
<1>2. /\ proc \in [Process -> State] /\ sock = NoFile
      /\ \A p \in Process : proc[p] = Nothing
  BY <1>1 DEF Init
<1>3. TypeOK
  <2>1. clean \in BOOLEAN
    BY Zenon DEF Init
  <2>2. inst \in Content
    BY BoundAssumption DEF Init, Content, Config
  <2> QED
    BY <1>2, <2>1, <2>2, BoundAssumption DEF Init, TypeOK, StatusContent
<1>4. EachFits
  BY <1>1, <1>2
  DEF EachFits, Fits, ClientPlace, ManagerPlace, Out, Ops, Storing, Reading
<1>5. \A p \in Process : ~ Writing(p) /\ ~ Fresh(proc[p]) /\ Early(proc[p])
  BY <1>1, <1>2 DEF Writing, Fresh, Early, Out
<1>6. OneWriter /\ AllEarly /\ FreshFirst
  BY <1>5 DEF OneWriter, AllEarly, FreshFirst
<1>7. OneStarter /\ OneOwner
  BY <1>1, <1>2, Roles, Places DEF OneStarter, OneOwner, Owning
<1>8. SameId /\ Connected /\ AddressIsCurrent
  BY <1>1, <1>2, Roles DEF SameId, Connected, AddressIsCurrent
<1>9. HeldIsCurrent
  BY <1>1, <1>2, Roles DEF HeldIsCurrent, Current, Unpublished
<1> QED
  BY <1>3, <1>4, <1>6, <1>7, <1>8, <1>9 DEF IInv, Undisturbed

LEMMA NextInvariant == IInv /\ [Next]_vars => IInv'
<1> SUFFICES ASSUME IInv, [Next]_vars PROVE IInv'
  OBVIOUS
<1>1. CASE UNCHANGED vars
  BY <1>1
  DEF vars, IInv, TypeOK, Undisturbed, EachFits, OneWriter, AllEarly,
      FreshFirst, OneStarter, OneOwner, SameId, HeldIsCurrent, Connected,
      AddressIsCurrent, Writing, Held, Untouched, Early, Current
<1>2. CASE Next
  <2>1. TypeOK /\ Undisturbed /\ clean
    BY <1>2 DEF Next, IInv
  <2>2. \/ \E p \in Process : FileStep(p) \/ Dies(p)
        \/ \E c \in Client :
             \/ Connect(c) \/ ReadStatus(c) \/ RemoveStatus(c) \/ SshFails(c)
             \/ SshRuns(c) \/ SessionLost(c) \/ WaitTimesOut(c) \/ SessionEnds(c)
        \/ \E m \in Manager :
             \/ StartManager(m) \/ Probe(m) \/ UpdateStatus(m) \/ ReportError(m)
             \/ Unlink(m) \/ GuestReports(m) \/ RunVmReturns(m)
    BY <1>2, Roles DEF Next, ClientStep, ManagerStep
  <2>3. proc' \in [Process -> State] /\ (clean' => Undisturbed')
    <3>1. ASSUME NEW p \in Process, FileStep(p) \/ Dies(p)
          PROVE  proc' \in [Process -> State] /\ (clean' => Undisturbed')
      BY <2>1, <3>1, LoadStep, LoadFailsStep, CreateStep, TruncateStep,
         WriteStep, DiesStep
      DEF FileStep
    <3>2. ASSUME NEW c \in Client,
                 \/ Connect(c) \/ ReadStatus(c) \/ RemoveStatus(c) \/ SshFails(c)
                 \/ SshRuns(c) \/ SessionLost(c) \/ WaitTimesOut(c)
                 \/ SessionEnds(c)
          PROVE  proc' \in [Process -> State] /\ (clean' => Undisturbed')
      BY <2>1, <3>2, ConnectStep, VibeboxStep
    <3>3. ASSUME NEW m \in Manager,
                 \/ StartManager(m) \/ Probe(m) \/ UpdateStatus(m)
                 \/ ReportError(m) \/ Unlink(m) \/ GuestReports(m)
                 \/ RunVmReturns(m)
          PROVE  proc' \in [Process -> State] /\ (clean' => Undisturbed')
      BY <2>1, <3>3, StartStep, ProbeStep, UnlinkStep, OwnerStep
    <3> QED
      BY <2>2, <3>1, <3>2, <3>3
  <2>4. inst' \in Content
    <3>1. ASSUME NEW p \in Process, Write(p) PROVE inst' \in Content
      BY <2>1, <3>1, WriteStep
    <3>2. inst' \in {inst, Empty} \/ \E p \in Process : Write(p)
      BY <2>2
      DEF FileStep, Load, LoadFails, Create, Truncate, Dies, Connect,
          ReadStatus, RemoveStatus, SshFails, SshRuns, SessionLost,
          AttemptFails, WaitTimesOut, SessionEnds, StartManager, Probe,
          UpdateStatus, ReportError, Unlink, GuestReports, RunVmReturns
    <3> QED
      BY <2>1, <3>1, <3>2 DEF TypeOK, Content
  <2>5. status' \in StatusContent
    <3>1. status' \in {status, NoFile, Progress} \cup Manager
      BY <2>2
      DEF FileStep, Load, LoadFails, Create, Truncate, Write, Dies, Connect,
          ReadStatus, RemoveStatus, SshFails, SshRuns, SessionLost,
          AttemptFails, WaitTimesOut, SessionEnds, StartManager, Probe,
          UpdateStatus, ReportError, Unlink, GuestReports, RunVmReturns
    <3> QED
      BY <2>1, <3>1 DEF TypeOK, StatusContent
  <2>6. sock' \in Manager \cup {NoFile}
    <3>1. sock' \in {sock, NoFile} \cup Manager
      BY <2>2
      DEF FileStep, Load, LoadFails, Create, Truncate, Write, Dies, Connect,
          ReadStatus, RemoveStatus, SshFails, SshRuns, SessionLost,
          AttemptFails, WaitTimesOut, SessionEnds, StartManager, Probe,
          UpdateStatus, ReportError, Unlink, GuestReports, RunVmReturns
    <3> QED
      BY <2>1, <3>1 DEF TypeOK
  <2>7. lastId' \in 0 .. MaxIds /\ stopsLeft' \in 0 .. MaxStops
    <3>1. ASSUME NEW p \in Process, Create(p) PROVE lastId' \in 0 .. MaxIds
      BY <2>1, <3>1, CreateStep
    <3>2. /\ lastId' = lastId \/ \E p \in Process : Create(p)
          /\ \/ stopsLeft' = stopsLeft
             \/ stopsLeft > 0 /\ stopsLeft' = stopsLeft - 1
      BY <2>2
      DEF FileStep, Load, LoadFails, Create, Truncate, Write, Dies, Connect,
          ReadStatus, RemoveStatus, SshFails, SshRuns, SessionLost,
          AttemptFails, WaitTimesOut, SessionEnds, StartManager, Probe,
          UpdateStatus, ReportError, Unlink, GuestReports, RunVmReturns
    <3> QED
      BY <2>1, <3>1, <3>2, BoundAssumption DEF TypeOK
  <2>8. clean' \in BOOLEAN
    <3>1. ASSUME NEW p \in Process, FileStep(p) \/ Dies(p)
          PROVE  clean' \in BOOLEAN
      <4>1. CASE Create(p) \/ Truncate(p)
        BY <4>1, Zenon DEF Create, Truncate
      <4>2. CASE Write(p) \/ Dies(p)
        BY <4>2, Zenon DEF Write, Dies
      <4>3. CASE Load(p) \/ LoadFails(p)
        BY <2>1, <4>3 DEF Load, LoadFails, TypeOK
      <4> QED
        BY <3>1, <4>1, <4>2, <4>3 DEF FileStep
    <3>2. ASSUME NEW m \in Manager, StartManager(m) PROVE clean' \in BOOLEAN
      BY <3>2, Zenon DEF StartManager
    <3>3. \/ clean' = clean \/ \E m \in Manager : StartManager(m)
          \/ \E p \in Process : FileStep(p) \/ Dies(p)
      BY <2>2
      DEF Connect, ReadStatus, RemoveStatus, SshFails, SshRuns, SessionLost,
          AttemptFails, WaitTimesOut, SessionEnds, Probe,
          UpdateStatus, ReportError, Unlink, GuestReports, RunVmReturns
    <3> QED
      BY <2>1, <3>1, <3>2, <3>3 DEF TypeOK
  <2> QED
    BY <2>3, <2>4, <2>5, <2>6, <2>7, <2>8 DEF IInv, TypeOK
<1> QED
  BY <1>1, <1>2

LEMMA Invariance == Spec => []IInv
<1> QED
  BY InitInvariant, NextInvariant, PTL DEF Spec

(***************************************************************************)
(* Every variable keeps its type, through disturbances and all.            *)
(***************************************************************************)
THEOREM TypeCorrect == Spec => []TypeOK
<1>1. IInv => TypeOK
  BY DEF IInv
<1> QED
  BY <1>1, Invariance, PTL

(***************************************************************************)
(* Without a disturbance every process and the file have one identity of   *)
(* the session, and with it one password: nobody makes a second one up.    *)
(***************************************************************************)
THEOREM IdentityIsOne == Spec => []OneIdentity
<1>1. IInv => OneIdentity
  BY Contents
  DEF IInv, Undisturbed, OneIdentity, SameId, HeldIsCurrent, Held, Current
<1> QED
  BY <1>1, Invariance, PTL

(***************************************************************************)
(* Without a disturbance a vibebox tries no address but that of the guest  *)
(* of the manager it is connected to, while that manager is not over.      *)
(***************************************************************************)
THEOREM AddressIsFresh == Spec => []NoStaleAddress
<1>1. IInv => NoStaleAddress
  BY DEF IInv, Undisturbed, NoStaleAddress, AddressIsCurrent
<1> QED
  BY <1>1, Invariance, PTL

(***************************************************************************)
(* Without a disturbance the address that a running guest's manager has    *)
(* published stays in instance.toml, whoever rewrites the file.            *)
(***************************************************************************)
THEOREM PublishedAddressStays == Spec => []PublishedStays
<1>1. IInv => PublishedStays
  <2> SUFFICES ASSUME TypeOK, Undisturbed, NEW m \in Manager, At(m, "run")
               PROVE  inst = proc[m].mem \/ inst = Empty
    BY DEF IInv, PublishedStays
  <2>1. proc[m].at = "run" /\ m \in Process
    BY Roles DEF At
  <2>2. ~ Untouched
    BY <2>1, InPlay DEF Undisturbed, Out
  <2>3. CASE inst \in Config
    BY <2>1, <2>3 DEF Undisturbed, HeldIsCurrent, Held, Current
  <2> QED
    BY <2>2, <2>3 DEF Untouched, Undisturbed, OneWriter
<1> QED
  BY <1>1, Invariance, PTL

=============================================================================
