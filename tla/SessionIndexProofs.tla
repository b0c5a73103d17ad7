-------------------------- MODULE SessionIndexProofs --------------------------
(***************************************************************************)
(* The records of SessionIndex are whole, its scans find what stays, a     *)
(* command that nobody disturbs works and a directory has one record, for  *)
(* any number of commands, projects, sessions and events.                  *)
(***************************************************************************)
EXTENDS SessionIndex, TLAPS

-----------------------------------------------------------------------------
(***************************************************************************)
(* What RecordsWhole rests on.  A command that writes has a record to      *)
(* write and, once it has made its temporary file, a name that no other    *)
(* writer has.  What it renames, if that is still there, is its record.    *)
(***************************************************************************)
Writing(p) == proc[p].at \in {"write", "persist"}

RecordsAtHand ==
  \A p \in Proc : proc[p].at \in {"create", "write", "persist"} => proc[p].rec \in Entry

OwnTemps ==
  \A p \in Proc : Writing(p) =>
    /\ proc[p].cur \in Temp
    /\ \A q \in Proc : Writing(q) /\ proc[q].cur = proc[p].cur => q = p

TempsWritten ==
  \A p \in Proc :
    At(p, "persist") /\ proc[p].cur \in Names => index[proc[p].cur] = proc[p].rec

IndexInv == TypeOK /\ RecordsAtHand /\ OwnTemps /\ TempsWritten /\ RecordsWhole

-----------------------------------------------------------------------------
(***************************************************************************)
(* Commands keep their type.                                               *)
(***************************************************************************)
LEMMA EntryType ==
  ASSUME NEW e \in Entry
  PROVE  /\ e \in Content /\ e # Partial /\ e.id \in Id /\ e.dir \in Dir
         /\ e.id \in Name
  BY NameAssumption DEF Entry, Content, Name

LEMMA ValidType == \A idx, cfg : Valid(idx, cfg) \subseteq Entry
  BY DEF Valid

LEMMA DisturbedType ==
  ASSUME NEW r \in Command
  PROVE  /\ Disturbed(r) \in Command
         /\ Disturbed(r).at = r.at /\ Disturbed(r).cur = r.cur /\ Disturbed(r).rec = r.rec
  BY ValidType DEF Disturbed, Command

LEMMA IdleType == Idle \in Command
  BY DEF Idle, Command, Content, Place

\* q is, in the next state, where r is, with the same file and record.
Agrees(q, r) ==
  proc'[q].at = r.at /\ proc'[q].cur = r.cur /\ proc'[q].rec = r.rec

LEMMA BecomeType ==
  ASSUME proc \in [Proc -> Command], NEW p \in Proc, NEW r \in Command, Become(p, r)
  PROVE  /\ proc' \in [Proc -> Command]
         /\ Agrees(p, r)
         /\ \A q \in Proc \ {p} : Agrees(q, proc[q])
<1>1. ASSUME NEW s \in Command
      PROVE  LET t == [s EXCEPT !.owed = @ \cap Valid(index', config')]
             IN  t \in Command /\ t.at = s.at /\ t.cur = s.cur /\ t.rec = s.rec
  BY DEF Command
<1>2. \A q \in Proc : (IF q = p THEN r ELSE proc[q]) \in Command
  OBVIOUS
<1> QED
  BY <1>1, <1>2 DEF Become, Agrees

\* An event disturbs all commands; one of them may at the same time become r.
LEMMA DisturbType ==
  ASSUME proc \in [Proc -> Command], NEW p, NEW r \in Command,
         proc' = [q \in Proc |-> IF q = p THEN r ELSE Disturbed(proc[q])]
  PROVE  /\ proc' \in [Proc -> Command]
         /\ p \in Proc => Agrees(p, r)
         /\ \A q \in Proc \ {p} : Agrees(q, proc[q])
  BY DisturbedType DEF Agrees

-----------------------------------------------------------------------------
(***************************************************************************)
(* Steps that write nothing: files stay or go, and a command that is       *)
(* changed is not a writer, or becomes one that has no file yet.           *)
(***************************************************************************)
LEMMA NothingWritten ==
  ASSUME IndexInv, proc' \in [Proc -> Command],
         Names' \subseteq Names, \A n \in Names' : index'[n] = index[n],
         \A q \in Proc : \/ Agrees(q, proc[q])
                         \/ proc'[q].at \notin {"create", "write", "persist"}
                         \/ proc'[q].at = "create" /\ proc'[q].rec \in Entry
  PROVE  /\ RecordsAtHand' /\ OwnTemps' /\ TempsWritten' /\ RecordsWhole'
         /\ Names' \subseteq Name /\ \A n \in Names' : index'[n] \in Content
<1>1. RecordsAtHand'
  BY DEF IndexInv, RecordsAtHand, Agrees
<1>2. \A q \in Proc : Writing(q)' => Writing(q) /\ Agrees(q, proc[q])
  BY DEF Writing, Agrees
<1>3. OwnTemps'
  BY <1>2 DEF IndexInv, OwnTemps, Agrees
<1>4. TempsWritten'
  BY <1>2 DEF IndexInv, TempsWritten, Agrees, At, Writing
<1>5. RecordsWhole'
  BY DEF IndexInv, RecordsWhole
<1>6. Names' \subseteq Name /\ \A n \in Names' : index'[n] \in Content
  BY DEF IndexInv, TypeOK
<1> QED
  BY <1>1, <1>3, <1>4, <1>5, <1>6

\* The rest of the state keeps its type.
OthersTyped ==
  /\ config \subseteq Dir
  /\ instance \in [Dir -> Id \cup {None, Partial}]
  /\ born \subseteq Id
  /\ eventsLeft \in 0 .. MaxEvents
  /\ tidy \in BOOLEAN

LEMMA BecomeInv ==
  ASSUME IndexInv, OthersTyped',
         NEW p \in Proc, NEW r \in Command, Become(p, r),
         r.at \notin {"write", "persist"}, r.at = "create" => r.rec \in Entry,
         Names' \subseteq Names, \A n \in Names' : index'[n] = index[n]
  PROVE  IndexInv'
<1>1. /\ proc' \in [Proc -> Command]
      /\ Agrees(p, r)
      /\ \A q \in Proc \ {p} : Agrees(q, proc[q])
  BY BecomeType DEF IndexInv, TypeOK
<1>2. \A q \in Proc : \/ Agrees(q, proc[q])
                      \/ proc'[q].at \notin {"create", "write", "persist"}
                      \/ proc'[q].at = "create" /\ proc'[q].rec \in Entry
  BY <1>1 DEF Agrees
<1>3. /\ RecordsAtHand' /\ OwnTemps' /\ TempsWritten' /\ RecordsWhole'
      /\ Names' \subseteq Name /\ \A n \in Names' : index'[n] \in Content
  BY <1>1, <1>2, NothingWritten
<1> QED
  BY <1>1, <1>3 DEF IndexInv, TypeOK, OthersTyped

LEMMA DisturbInv ==
  ASSUME IndexInv, OthersTyped', UNCHANGED index, NEW p,
         NEW r \in Command, r.at \notin {"create", "write", "persist"},
         proc' = [q \in Proc |-> IF q = p THEN r ELSE Disturbed(proc[q])]
  PROVE  IndexInv'
<1>1. /\ proc' \in [Proc -> Command]
      /\ p \in Proc => Agrees(p, r)
      /\ \A q \in Proc \ {p} : Agrees(q, proc[q])
  BY DisturbType DEF IndexInv, TypeOK
<1>2. \A q \in Proc : \/ Agrees(q, proc[q])
                      \/ proc'[q].at \notin {"create", "write", "persist"}
  BY <1>1 DEF Agrees
<1>3. Names' = Names
  BY DEF Names
<1>4. /\ RecordsAtHand' /\ OwnTemps' /\ TempsWritten' /\ RecordsWhole'
      /\ Names' \subseteq Name /\ \A n \in Names' : index'[n] \in Content
  BY <1>1, <1>2, <1>3, NothingWritten
<1> QED
  BY <1>1, <1>4 DEF IndexInv, TypeOK, OthersTyped

LEMMA FailingType ==
  ASSUME NEW r \in Command
  PROVE  Failing(r) \in Command /\ Failing(r).at = "failed"
  BY DEF Failing, Go, Command, Content, Place

\* Most steps of a command only read, or remove a file.
LEMMA ReadingInv ==
  ASSUME IndexInv, NEW p \in Proc,
         \/ RemoveInstanceDir(p) \/ OpenIndex(p)
         \/ \E n \in Name : SkipEntry(p, n) \/ ReadFails(p, n) \/ ReadEntry(p, n)
         \/ RemoveEntry(p) \/ ScanEnds(p) \/ ReadMetadata(p) \/ Return(p)
  PROVE  IndexInv'
<1> USE DEF At, Names
<1>t. /\ proc[p] \in Command /\ OthersTyped /\ Names \subseteq Name
      /\ \A n \in Names : index[n] \in Content
  BY DEF IndexInv, TypeOK, OthersTyped
<1>p. proc[p].at \in {"removeDir", "open", "scan", "remove", "metadata", "done", "failed"}
  BY DEF RemoveInstanceDir, OpenIndex, SkipEntry, ReadFails, ReadEntry,
         RemoveEntry, ScanEnds, ReadMetadata, Return
<1>f. Failing(proc[p]) \in Command /\ Failing(proc[p]).at = "failed"
  BY <1>t, FailingType
<1>1. CASE RemoveInstanceDir(p)
  <2>1. Go(proc[p], "open") \in Command /\ Go(proc[p], "open").at = "open"
    BY <1>t DEF Go, Command, Place
  <2>2. OthersTyped'
    BY <1>1, <1>t DEF RemoveInstanceDir, OthersTyped
  <2> QED
    BY <1>1, <2>1, <2>2, BecomeInv DEF RemoveInstanceDir
<1>o. OthersTyped' \/ RemoveInstanceDir(p)
  BY <1>t DEF OthersTyped, OpenIndex, SkipEntry, ReadFails, ReadEntry,
              RemoveEntry, ScanEnds, ReadMetadata, Return
<1>2. CASE OpenIndex(p)
  <2> DEFINE r == [Go(proc[p], "scan") EXCEPT !.todo = Names]
  <2>1. r \in Command /\ r.at = "scan"
    BY <1>t DEF Go, Command, Place
  <2> QED
    BY <1>2, <1>o, <1>p, <2>1, BecomeInv DEF OpenIndex, RemoveInstanceDir
<1>3. ASSUME NEW n \in Name, SkipEntry(p, n) PROVE IndexInv'
  <2> DEFINE r == [proc[p] EXCEPT !.todo = @ \ {n}]
  <2>1. r \in Command /\ r.at = "scan"
    BY <1>t, <1>3 DEF SkipEntry, Command
  <2> QED
    BY <1>3, <1>o, <2>1, BecomeInv DEF SkipEntry, RemoveInstanceDir
<1>4. ASSUME NEW n \in Name, ReadFails(p, n) PROVE IndexInv'
  BY <1>4, <1>o, <1>f, BecomeInv DEF ReadFails, RemoveInstanceDir
<1>5. ASSUME NEW n \in Name, ReadEntry(p, n) PROVE IndexInv'
  <2> DEFINE r == [proc[p] EXCEPT !.todo = @ \ {n}]
             e == index[n]
             s == IF Unwanted(r, e, n)
                  THEN [Go(r, "remove") EXCEPT !.cur = n]
                  ELSE [r EXCEPT !.owed = @ \ {e},
                                 !.listed = IF r.op = "list" THEN @ \cup {e.dir} ELSE @]
  <2>1. r \in Command /\ r.at = "scan"
    BY <1>t, <1>5 DEF ReadEntry, Command
  <2>2. e.dir \in Dir
    BY <1>t, <1>5, EntryType DEF ReadEntry, Content
  <2>3. s \in Command /\ s.at \in {"remove", "scan"}
    <3>1. CASE Unwanted(r, e, n)
      BY <2>1, <3>1 DEF Go, Command, Place
    <3>2. CASE ~ Unwanted(r, e, n)
      BY <2>1, <2>2, <3>2 DEF Command
    <3> QED
      BY <3>1, <3>2
  <2>4. Become(p, s) /\ UNCHANGED index
    BY <1>5 DEF ReadEntry
  <2>5. OthersTyped'
    BY <1>5, <1>o DEF ReadEntry, RemoveInstanceDir
  <2> HIDE DEF s
  <2> QED
    BY <2>3, <2>4, <2>5, BecomeInv
<1>6. CASE RemoveEntry(p)
  <2> DEFINE r == [proc[p] EXCEPT !.cur = None]
             s == IF r.op = "reset" /\ proc[p].cur \notin Names
                  THEN Failing(r) ELSE Go(r, "scan")
  <2>1. r \in Command
    BY <1>t DEF Command
  <2>2. Failing(r) \in Command /\ Failing(r).at = "failed"
    BY <2>1, FailingType
  <2>3. Go(r, "scan") \in Command /\ Go(r, "scan").at = "scan"
    BY <2>1 DEF Go, Command, Place
  <2>4. Names' \subseteq Names /\ \A n \in Names' : index'[n] = index[n]
    BY <1>6 DEF RemoveEntry, Without
  <2>5. Become(p, s)
    BY <1>6 DEF RemoveEntry
  <2>6. OthersTyped'
    BY <1>6, <1>o DEF RemoveEntry, RemoveInstanceDir
  <2>7. s \in Command /\ s.at \in {"failed", "scan"}
    BY <2>2, <2>3
  <2> HIDE DEF s
  <2> QED
    BY <2>4, <2>5, <2>6, <2>7, BecomeInv
<1>7. CASE ScanEnds(p)
  <2> DEFINE r == proc[p]
             updates == r.op = "update" /\ HasSession(r.dir)
             s == CASE r.op = "list"                        -> Go(r, "metadata")
                    [] r.op # "list" /\ ~ updates           -> Go(r, "done")
                    [] updates /\ instance[r.dir] = Partial -> Failing(r)
                    [] updates /\ instance[r.dir] # Partial -> Recording(r)
  <2>1. \A l \in {"metadata", "done"} : Go(r, l) \in Command /\ Go(r, l).at = l
    BY <1>t DEF Go, Command, Place
  <2>2. ASSUME HasSession(r.dir), instance[r.dir] # Partial
        PROVE  Recording(r) \in Command /\ Recording(r).at = "create"
               /\ Recording(r).rec \in Entry
    <3>1. r.dir \in Dir /\ instance[r.dir] \in Id
      BY <1>t, <2>2 DEF HasSession, OthersTyped
    <3>2. [dir |-> r.dir, id |-> instance[r.dir]] \in Entry
      BY <3>1 DEF Entry
    <3> QED
      BY <1>t, <3>2 DEF Recording, Go, Command, Content, Place
  <2>3. /\ s \in Command /\ s.at \notin {"write", "persist"}
        /\ s.at = "create" => s.rec \in Entry
    BY <1>f, <2>1, <2>2
  <2>4. Become(p, s) /\ UNCHANGED index
    BY <1>7 DEF ScanEnds
  <2>5. OthersTyped'
    BY <1>7, <1>o DEF ScanEnds, RemoveInstanceDir
  <2> HIDE DEF s
  <2> QED
    BY <2>3, <2>4, <2>5, BecomeInv
<1>8. CASE ReadMetadata(p)
  <2> DEFINE s == [Go(proc[p], "done") EXCEPT !.listed = {}]
  <2>1. s \in Command /\ s.at = "done"
    BY <1>t DEF Go, Command, Place
  <2>2. Become(p, s) \/ Become(p, Failing(proc[p]))
    BY <1>8 DEF ReadMetadata
  <2>3. OthersTyped' /\ UNCHANGED index
    BY <1>8, <1>o DEF ReadMetadata, RemoveInstanceDir
  <2> HIDE DEF s
  <2> QED
    BY <1>f, <2>1, <2>2, <2>3, BecomeInv
<1>9. CASE Return(p)
  <2>1. OthersTyped'
    BY <1>9, <1>t DEF Return, OthersTyped
  <2> QED
    BY <1>9, <2>1, IdleType, BecomeInv DEF Return, Idle
<1> QED
  BY <1>1, <1>2, <1>3, <1>4, <1>5, <1>6, <1>7, <1>8, <1>9

-----------------------------------------------------------------------------
(***************************************************************************)
(* The three steps of atomic_write.                                        *)
(***************************************************************************)
LEMMA CreateTempInv ==
  ASSUME IndexInv, NEW p \in Proc, CreateTemp(p)
  PROVE  IndexInv'
<1> USE DEF At, Names
<1>t. /\ proc \in [Proc -> Command] /\ OthersTyped'
      /\ proc[p].rec \in Entry /\ proc[p].at = "create"
  BY DEF IndexInv, TypeOK, OthersTyped, RecordsAtHand, CreateTemp
<1>1. PICK t \in Temp \ (Names \cup {proc[q].cur : q \in Proc}) :
        /\ index' = With(t, Partial)
        /\ Become(p, [Go(proc[p], "write") EXCEPT !.cur = t])
  BY DEF CreateTemp
<1> DEFINE r == [Go(proc[p], "write") EXCEPT !.cur = t]
<1>2. r \in Command /\ r.at = "write" /\ r.cur = t /\ r.rec = proc[p].rec
  BY <1>t DEF Go, Command, Place, Name
<1> HIDE DEF r
<1>3. /\ proc' \in [Proc -> Command]
      /\ Agrees(p, r)
      /\ \A q \in Proc \ {p} : Agrees(q, proc[q])
  BY <1>1, <1>2, <1>t, BecomeType DEF r
<1>4. /\ Names' = Names \cup {t} /\ t \notin Names /\ t \notin Id /\ index'[t] = Partial
      /\ \A n \in Names : index'[n] = index[n]
  BY <1>1, NameAssumption DEF With
<1>5. TypeOK'
  BY <1>3, <1>4, <1>t DEF IndexInv, TypeOK, OthersTyped, Name, Content
<1>6. RecordsAtHand'
  BY <1>2, <1>3, <1>t DEF IndexInv, RecordsAtHand, Agrees
<1>7. OwnTemps'
  BY <1>1, <1>2, <1>3 DEF IndexInv, OwnTemps, Writing, Agrees
<1>8. TempsWritten'
  BY <1>1, <1>2, <1>3, <1>4 DEF IndexInv, TempsWritten, Agrees
<1>9. RecordsWhole'
  BY <1>4 DEF IndexInv, RecordsWhole
<1> QED
  BY <1>5, <1>6, <1>7, <1>8, <1>9 DEF IndexInv

LEMMA WriteTempInv ==
  ASSUME IndexInv, NEW p \in Proc, WriteTemp(p)
  PROVE  IndexInv'
<1> USE DEF At, Names
<1>t. /\ proc \in [Proc -> Command] /\ OthersTyped' /\ proc[p].at = "write"
      /\ proc[p].rec \in Entry /\ proc[p].cur \in Temp
  BY DEF IndexInv, TypeOK, OthersTyped, RecordsAtHand, OwnTemps, Writing, WriteTemp
<1> DEFINE r == Go(proc[p], "persist")
<1>1. /\ r \in Command /\ r.at = "persist" /\ r.cur = proc[p].cur
      /\ r.rec = proc[p].rec
  BY <1>t DEF Go, Command, Place
<1>2. /\ proc' \in [Proc -> Command]
      /\ Agrees(p, r)
      /\ \A q \in Proc \ {p} : Agrees(q, proc[q])
  BY <1>1, <1>t, BecomeType DEF WriteTemp
<1> HIDE DEF r
<1>3. /\ Names' = Names /\ proc[p].cur \notin Id
      /\ \A n \in Names : index'[n] = IF n = proc[p].cur THEN proc[p].rec ELSE index[n]
  BY <1>t, NameAssumption DEF WriteTemp, With
<1>4. TypeOK'
  BY <1>2, <1>3, <1>t, EntryType DEF IndexInv, TypeOK, OthersTyped
<1>5. RecordsAtHand'
  BY <1>1, <1>2, <1>t DEF IndexInv, RecordsAtHand, Agrees
<1>6. OwnTemps'
  BY <1>1, <1>2, <1>t DEF IndexInv, OwnTemps, Writing, Agrees
<1>7. TempsWritten'
  <2> SUFFICES ASSUME NEW q \in Proc, proc'[q].at = "persist", proc'[q].cur \in Names
               PROVE  index'[proc'[q].cur] = proc'[q].rec
    BY <1>3 DEF TempsWritten
  <2>1. CASE q = p
    BY <2>1, <1>1, <1>2, <1>3 DEF Agrees
  <2>2. CASE q # p
    <3>1. Agrees(q, proc[q])
      BY <2>2, <1>2
    <3>2. proc[q].cur # proc[p].cur
      BY <2>2, <3>1, <1>t DEF IndexInv, OwnTemps, Writing, Agrees
    <3> QED
      BY <3>1, <3>2, <1>3 DEF IndexInv, TempsWritten, Agrees
  <2> QED
    BY <2>1, <2>2
<1>8. RecordsWhole'
  BY <1>3 DEF IndexInv, RecordsWhole
<1> QED
  BY <1>4, <1>5, <1>6, <1>7, <1>8 DEF IndexInv

LEMMA PersistInv ==
  ASSUME IndexInv, NEW p \in Proc, Persist(p)
  PROVE  IndexInv'
<1> USE DEF At, Names
<1>t. /\ proc \in [Proc -> Command] /\ proc[p].at = "persist"
      /\ proc[p].rec \in Entry /\ proc[p].cur \in Temp
  BY DEF IndexInv, TypeOK, RecordsAtHand, OwnTemps, Writing, Persist
<1>o. OthersTyped'
  BY Zenon DEF IndexInv, TypeOK, OthersTyped, Persist
<1>1. CASE proc[p].cur \notin Names
  <2>1. Failing(proc[p]) \in Command /\ Failing(proc[p]).at = "failed"
    BY <1>t, FailingType
  <2>2. Become(p, Failing(proc[p])) /\ UNCHANGED index
    BY <1>1 DEF Persist
  <2> QED
    BY <1>o, <2>1, <2>2, BecomeInv
<1>2. CASE proc[p].cur \in Names
  <2> DEFINE e == proc[p].rec
             r == Written(proc[p])
  <2>1. r \in Command /\ r.at = "done"
    BY <1>t DEF Written, Go, Command, Place, Content
  <2>2. /\ index' = Renamed(proc[p].cur, e.id)
        /\ Become(p, r)
    BY <1>2 DEF Persist
  <2> HIDE DEF r
  <2>3. /\ proc' \in [Proc -> Command]
        /\ Agrees(p, r)
        /\ \A q \in Proc \ {p} : Agrees(q, proc[q])
    BY <1>t, <2>1, <2>2, BecomeType
  <2>4. index[proc[p].cur] = e
    BY <1>2, <1>t DEF IndexInv, TempsWritten
  <2>5. e \in Entry /\ e.id \in Id /\ e.id \in Name /\ e \in Content
    BY <1>t, EntryType
  <2>6. /\ Names' = (Names \ {proc[p].cur}) \cup {e.id}
        /\ \A n \in Names' : index'[n] = IF n = e.id THEN e ELSE index[n]
    BY <2>2, <2>4 DEF Renamed
  <2>7. TypeOK'
    BY <1>o, <2>3, <2>5, <2>6 DEF IndexInv, TypeOK, OthersTyped
  <2>8. RecordsAtHand'
    BY <2>1, <2>3 DEF IndexInv, RecordsAtHand, Agrees
  <2>9. OwnTemps'
    BY <2>1, <2>3 DEF IndexInv, OwnTemps, Writing, Agrees
  <2>10. TempsWritten'
    <3> SUFFICES ASSUME NEW q \in Proc, proc'[q].at = "persist", proc'[q].cur \in Names'
                 PROVE  index'[proc'[q].cur] = proc'[q].rec
      BY DEF TempsWritten
    <3>1. q # p /\ Agrees(q, proc[q])
      BY <2>1, <2>3 DEF Agrees
    <3>2. proc[q].cur \in Temp
      BY <3>1 DEF IndexInv, OwnTemps, Writing, Agrees
    <3>3. proc[q].cur # e.id
      BY <2>5, <3>2, NameAssumption
    <3> QED
      BY <2>6, <3>1, <3>3 DEF IndexInv, TempsWritten, Agrees
  <2>11. RecordsWhole'
    BY <2>5, <2>6 DEF IndexInv, RecordsWhole
  <2> QED
    BY <2>7, <2>8, <2>9, <2>10, <2>11 DEF IndexInv
<1> QED
  BY <1>1, <1>2

-----------------------------------------------------------------------------
(***************************************************************************)
(* Commands that begin, and everything that happens to commands.           *)
(***************************************************************************)
LEMMA BeginInv ==
  ASSUME IndexInv, NEW p \in Proc, NEW op \in {"update", "list", "reset"},
         NEW d \in Dir \cup {None}, Begin(p, op, d)
  PROVE  IndexInv'
<1> DEFINE begun(b, o) ==
             [Idle EXCEPT !.op = op, !.dir = d,
                          !.at = IF op = "reset" THEN "removeDir" ELSE "open",
                          !.alone = b, !.owed = o]
           isAlone == /\ \A q \in Proc : ~ Running(q)
                      /\ Names \cap Temp = {}
           r == begun(isAlone, IF op = "reset" THEN {} ELSE Valid(index, config'))
<1>1. ASSUME NEW b \in BOOLEAN, NEW o \in SUBSET Entry
      PROVE  begun(b, o) \in Command /\ begun(b, o).at \in {"removeDir", "open"}
  BY IdleType DEF Command, Idle, Place
<1>2. isAlone \in BOOLEAN
  BY Zenon
<1>3. r \in Command /\ r.at \in {"removeDir", "open"}
  <2> HIDE DEF isAlone, begun
  <2>1. (IF op = "reset" THEN {} ELSE Valid(index, config')) \in SUBSET Entry
    BY ValidType
  <2> QED
    BY <1>1, <1>2, <2>1
<1>4. OthersTyped'
  <2>1. config' \subseteq Dir
    BY DEF Begin, IndexInv, TypeOK
  <2> QED
    BY <2>1, Zenon DEF Begin, IndexInv, TypeOK, OthersTyped
<1>5. proc' = [q \in Proc |-> IF q = p THEN r ELSE Disturbed(proc[q])] /\ UNCHANGED index
  BY DEF Begin
<1> HIDE DEF r
<1> QED
  BY <1>3, <1>4, <1>5, DisturbInv

\* An event that changes neither index nor commands, but for disturbing them.
LEMMA EventInv ==
  ASSUME IndexInv, OthersTyped', UNCHANGED index, Disturb
  PROVE  IndexInv'
<1>1. PICK p : p \notin Proc
  BY NoSetContainsEverything
<1>2. proc' = [q \in Proc |-> IF q = p THEN Idle ELSE Disturbed(proc[q])]
  BY <1>1 DEF Disturb
<1>3. Idle \in Command /\ Idle.at = "idle"
  BY IdleType DEF Idle
<1> QED
  BY <1>2, <1>3, DisturbInv

\* An event or a crash uses up one of those that are left.
LEMMA EventType ==
  ASSUME TypeOK, NEW event, Happens(event)
  PROVE  eventsLeft' \in 0 .. MaxEvents
  BY EventAssumption DEF TypeOK, Happens

-----------------------------------------------------------------------------
LEMMA InitInv == Init => IndexInv
<1> SUFFICES ASSUME Init PROVE IndexInv
  OBVIOUS
<1>1. proc \in [Proc -> Command] /\ \A p \in Proc : proc[p].at = "idle"
  BY IdleType DEF Init, Idle
<1>2. Names = {}
  BY DEF Init, Names
<1>3. TypeOK
  BY <1>1, <1>2, EventAssumption DEF Init, TypeOK
<1> QED
  BY <1>1, <1>2, <1>3
  DEF IndexInv, RecordsAtHand, OwnTemps, TempsWritten, RecordsWhole, Writing, At

LEMMA NextInv == IndexInv /\ [Next]_vars => IndexInv'
<1> SUFFICES ASSUME IndexInv, [Next]_vars PROVE IndexInv'
  OBVIOUS
<1>t. TypeOK
  BY DEF IndexInv
<1>1. ASSUME NEW p \in Proc, NEW op \in {"update", "list", "reset"},
             NEW d \in Dir \cup {None}, Begin(p, op, d)
      PROVE  IndexInv'
  BY <1>1, BeginInv
<1>2. ASSUME NEW p \in Proc, CommandStep(p) PROVE IndexInv'
  BY <1>2, ReadingInv, CreateTempInv, WriteTempInv, PersistInv DEF CommandStep
<1>3. ASSUME NEW p \in Proc, Crash(p) PROVE IndexInv'
  <2>1. OthersTyped'
    <3>1. eventsLeft' \in 0 .. MaxEvents
      BY <1>3, <1>t, EventType DEF Crash
    <3> QED
      BY <1>3, <1>t, <3>1, Zenon DEF Crash, TypeOK, OthersTyped
  <2>2. Idle \in Command /\ Idle.at = "idle"
    BY IdleType DEF Idle
  <2> QED
    BY <1>3, <2>1, <2>2, DisturbInv DEF Crash
<1>4. ASSUME NEW d \in Dir, NewSession(d) PROVE IndexInv'
  <2>1. OthersTyped'
    BY <1>4, <1>t DEF NewSession, TypeOK, OthersTyped
  <2> QED
    BY <1>4, <2>1, EventInv DEF NewSession
<1>5. ASSUME NEW d \in Dir,
             DropConfig(d) \/ AddConfig(d) \/ DeleteInstanceDir(d) \/ Garble(d)
      PROVE  IndexInv'
  <2> USE DEF DropConfig, AddConfig, DeleteInstanceDir, Garble
  <2>1. /\ config' \subseteq Dir /\ instance' \in [Dir -> Id \cup {None, Partial}]
        /\ born' \subseteq Id
    BY <1>5, <1>t DEF TypeOK
  <2>2. eventsLeft' \in 0 .. MaxEvents
    BY <1>5, <1>t, EventType
  <2>3. tidy' \in BOOLEAN
    BY <1>5, <1>t, Zenon DEF TypeOK
  <2>4. UNCHANGED index /\ Disturb
    BY <1>5, Zenon
  <2> QED
    BY <2>1, <2>2, <2>3, <2>4, EventInv DEF OthersTyped
<1>6. ASSUME NEW d \in Dir, NEW e \in Dir, Move(d, e) PROVE IndexInv'
  <2>1. /\ config' \subseteq Dir /\ instance' \in [Dir -> Id \cup {None, Partial}]
        /\ born' \subseteq Id
    BY <1>6, <1>t DEF Move, TypeOK
  <2>2. eventsLeft' \in 0 .. MaxEvents
    BY <1>6, <1>t, EventType DEF Move
  <2>3. tidy' \in BOOLEAN
    BY <1>6, Zenon DEF Move
  <2>4. UNCHANGED index /\ Disturb
    BY <1>6, Zenon DEF Move
  <2> QED
    BY <2>1, <2>2, <2>3, <2>4, EventInv DEF OthersTyped
<1>7. CASE UNCHANGED vars
  BY <1>7
  DEF vars, IndexInv, TypeOK, RecordsAtHand, OwnTemps, TempsWritten,
      RecordsWhole, Writing, At, Names
<1> QED
  BY <1>1, <1>2, <1>3, <1>4, <1>5, <1>6, <1>7 DEF Next

LEMMA Inductive == Spec => []IndexInv
  BY InitInv, NextInv, PTL DEF Spec

-----------------------------------------------------------------------------
(***************************************************************************)
(* What the other invariants rest on.  What a command owes is there, and   *)
(* its scan has not come by it yet.                                        *)
(***************************************************************************)
Scanning(r) == r.at \in {"scan", "remove"}

Tracked(r) ==
  /\ r.at = "removeDir" => r.op = "reset"
  /\ r.op = "reset" => r.owed = {}
  /\ Scanning(r) => \A e \in r.owed : e.id \in r.todo
  /\ r.at \notin {"open", "scan", "remove"} => r.owed = {}

OwedInSight ==
  \A p \in Proc : Tracked(proc[p]) /\ proc[p].owed \subseteq Valid(index, config)

(***************************************************************************)
(* As long as nothing went wrong, a record is that of the session which    *)
(* its directory has, or last had, or a reset is going to remove it.       *)
(***************************************************************************)
DoomedBy(p, n) ==
  /\ proc[p].op = "reset" /\ proc[p].dir = index[n].dir
  /\ \/ proc[p].at \in {"removeDir", "open", "failed"}
     \/ Scanning(proc[p]) /\ n \in proc[p].todo
     \/ proc[p].at = "remove" /\ n = proc[p].cur

Doomed(n) == \E p \in Proc : DoomedBy(p, n)

OthersDoomed ==
  /\ \A n \in Names \cap Id : Doomed(n) \/ instance[index[n].dir] \in {n, Partial}
  /\ \A m, n \in Names \cap Id :
       m # n /\ index[m].dir = index[n].dir => Doomed(m) \/ Doomed(n)

DoomedOrCurrent == tidy => OthersDoomed

(***************************************************************************)
(* A command that nobody disturbs is the only one, and finds the index as  *)
(* it left it; no temporary file but its own is there.                     *)
(***************************************************************************)
Fit(p) ==
  /\ proc[p].op # "none"
  /\ proc[p].at \notin {"write", "persist", "done", "failed"} => Names \cap Temp = {}
  /\ Scanning(proc[p]) => proc[p].todo \subseteq Names
  /\ proc[p].at = "remove" => proc[p].cur \in Names \ proc[p].todo
  /\ proc[p].at \in {"write", "persist"} => proc[p].cur \in Names
  /\ proc[p].at \in {"create", "write", "persist"} =>
       /\ proc[p].op = "update"
       /\ proc[p].rec = [dir |-> proc[p].dir, id |-> instance[proc[p].dir]]
  /\ proc[p].at = "metadata" => proc[p].op = "list"
  /\ proc[p].at = "failed" =>
       \E d \in Dir : /\ instance[d] = Partial
                      /\ \/ proc[p].op = "list"
                         \/ proc[p].op = "update" /\ proc[p].dir = d
  /\ proc[p].at = "done" /\ proc[p].op = "update" =>
       \A d \in config : proc[p].dir = d /\ instance[d] \in Id =>
         [dir |-> d, id |-> instance[d]] \in Valid(index, config)

Lone ==
  \A p \in Proc : proc[p].at # "idle" /\ proc[p].alone =>
    Fit(p) /\ \A q \in Proc \ {p} : proc[q].at = "idle"

ScanInv == OwedInSight /\ DoomedOrCurrent /\ Lone

-----------------------------------------------------------------------------
(***************************************************************************)
(* What a step leaves of the commands.                                     *)
(***************************************************************************)
\* q is, in the next state, r, but for what is no longer valid.
Is(q, r) ==
  /\ proc'[q].op = r.op /\ proc'[q].at = r.at /\ proc'[q].dir = r.dir
  /\ proc'[q].todo = r.todo /\ proc'[q].cur = r.cur /\ proc'[q].rec = r.rec
  /\ proc'[q].owed = r.owed \cap Valid(index', config')

\* p becomes r, and the others stay what they are.
Frame(p, r) == /\ p \in Proc => Is(p, r)
               /\ \A q \in Proc \ {p} : Is(q, proc[q])

LEMMA BecomeFrame ==
  ASSUME proc \in [Proc -> Command], NEW p \in Proc, NEW r \in Command, Become(p, r)
  PROVE  /\ Frame(p, r) /\ proc'[p].alone = r.alone
         /\ \A q \in Proc \ {p} : proc'[q].alone = proc[q].alone
<1>1. ASSUME NEW s \in Command
      PROVE  LET t == [s EXCEPT !.owed = @ \cap Valid(index', config')]
             IN  /\ t.op = s.op /\ t.at = s.at /\ t.dir = s.dir /\ t.todo = s.todo
                 /\ t.cur = s.cur /\ t.rec = s.rec /\ t.alone = s.alone
                 /\ t.owed = s.owed \cap Valid(index', config')
  BY DEF Command
<1>2. ASSUME NEW q \in Proc, NEW s \in Command,
             proc'[q] = [s EXCEPT !.owed = @ \cap Valid(index', config')]
      PROVE  Is(q, s) /\ proc'[q].alone = s.alone
  BY <1>1, <1>2 DEF Is
<1>3. proc'[p] = [r EXCEPT !.owed = @ \cap Valid(index', config')]
  BY DEF Become
<1>4. \A q \in Proc \ {p} :
        proc'[q] = [proc[q] EXCEPT !.owed = @ \cap Valid(index', config')]
  BY DEF Become
<1>5. \A q \in Proc : proc[q] \in Command
  OBVIOUS
<1> QED
  BY <1>2, <1>3, <1>4, <1>5 DEF Frame

LEMMA DisturbFrame ==
  ASSUME proc \in [Proc -> Command], NEW p, NEW r \in Command,
         r.owed \subseteq Valid(index', config'),
         proc' = [q \in Proc |-> IF q = p THEN r ELSE Disturbed(proc[q])]
  PROVE  /\ Frame(p, r)
         /\ p \in Proc => proc'[p].alone = r.alone
         /\ \A q \in Proc \ {p} : proc'[q].alone = FALSE
<1>1. ASSUME NEW s \in Command
      PROVE  LET t == Disturbed(s)
             IN  /\ t.op = s.op /\ t.at = s.at /\ t.dir = s.dir /\ t.todo = s.todo
                 /\ t.cur = s.cur /\ t.rec = s.rec /\ t.alone = FALSE
                 /\ t.owed = s.owed \cap Valid(index', config')
  BY DEF Command, Disturbed
<1>2. \A q \in Proc : proc[q] \in Command
  OBVIOUS
<1>3. r.owed \cap Valid(index', config') = r.owed
  OBVIOUS
<1> QED
  BY <1>1, <1>2, <1>3 DEF Frame, Is

LEMMA OwedStep ==
  ASSUME OwedInSight, NEW p, NEW r, Frame(p, r), p \in Proc => Tracked(r)
  PROVE  OwedInSight'
<1>1. ASSUME NEW q \in Proc, NEW s, Is(q, s), Tracked(s)
      PROVE  Tracked(proc'[q]) /\ proc'[q].owed \subseteq Valid(index', config')
  BY <1>1 DEF Is, Tracked, Scanning
<1>2. \A q \in Proc : Tracked(proc'[q]) /\ proc'[q].owed \subseteq Valid(index', config')
  BY <1>1 DEF Frame, OwedInSight
<1> QED
  BY <1>2 DEF OwedInSight, Tracked, Scanning

\* A reset that is not the one that steps is still going to remove the record.
LEMMA DoomStep ==
  ASSUME NEW p, NEW r, Frame(p, r), NEW n, index'[n].dir = index[n].dir, Doomed(n),
         p \in Proc /\ DoomedBy(p, n) => DoomedBy(p, n)'
  PROVE  Doomed(n)'
<1>1. PICK q \in Proc : DoomedBy(q, n)
  BY DEF Doomed
<1>2. CASE q = p
  BY <1>1, <1>2 DEF Doomed
<1>3. CASE q # p
  <2>1. Is(q, proc[q])
    BY <1>3 DEF Frame
  <2>2. DoomedBy(q, n)'
    BY <1>1, <2>1 DEF DoomedBy, Is, Scanning
  <2> QED
    BY <2>2 DEF Doomed
<1> QED
  BY <1>2, <1>3

\* Records stay or go, and the instances stay, are garbled or are reset.
LEMMA TidyStep ==
  ASSUME DoomedOrCurrent, tidy' => tidy,
         ASSUME NEW n \in Names' \cap Id
         PROVE  /\ n \in Names /\ index'[n].dir = index[n].dir
                /\ Doomed(n) => Doomed(n)'
                /\ instance[index[n].dir] \in {n, Partial} =>
                     Doomed(n)' \/ instance'[index[n].dir] \in {n, Partial}
  PROVE  DoomedOrCurrent'
BY DEF DoomedOrCurrent, OthersDoomed

\* A command that runs disturbs nobody who is alone, for there is nobody.
LEMMA LoneStep ==
  ASSUME Lone, NEW p \in Proc, NEW r, Frame(p, r), proc[p].at # "idle",
         \A q \in Proc \ {p} : proc'[q].alone = proc[q].alone,
         proc'[p].at # "idle" /\ proc'[p].alone =>
           proc[p].alone /\ (Fit(p) => Fit(p)')
  PROVE  Lone'
<1>1. ASSUME NEW q \in Proc \ {p}, proc'[q].at # "idle", proc'[q].alone PROVE FALSE
  <2>1. proc[q].at # "idle" /\ proc[q].alone
    BY <1>1 DEF Frame, Is
  <2> QED
    BY <2>1 DEF Lone
<1>2. ASSUME proc'[p].at # "idle", proc'[p].alone
      PROVE  Fit(p)' /\ \A q \in Proc \ {p} : proc'[q].at = "idle"
  <2>1. Fit(p) /\ \A q \in Proc \ {p} : proc[q].at = "idle"
    BY <1>2 DEF Lone
  <2> QED
    BY <1>2, <2>1 DEF Frame, Is
<1> QED
  BY <1>1, <1>2 DEF Lone

-----------------------------------------------------------------------------
(***************************************************************************)
(* The steps of a command.                                                 *)
(***************************************************************************)
LEMMA GoFields ==
  ASSUME NEW r \in Command, NEW l \in Place
  PROVE  LET g == Go(r, l)
         IN  /\ g \in Command /\ g.at = l /\ g.op = r.op /\ g.dir = r.dir
             /\ g.todo = r.todo /\ g.cur = r.cur /\ g.rec = r.rec
             /\ g.owed = r.owed /\ g.alone = r.alone
BY DEF Go, Command

LEMMA FailingFields ==
  ASSUME NEW r \in Command
  PROVE  LET g == Failing(r)
         IN  /\ g \in Command /\ g.at = "failed" /\ g.op = r.op /\ g.dir = r.dir
             /\ g.owed = {} /\ g.alone = r.alone
BY DEF Failing, Go, Command, Content, Place

\* p becomes r: it is enough to look at r.
LEMMA CommandBecomes ==
  ASSUME IndexInv, ScanInv, NEW p \in Proc, NEW r \in Command, Become(p, r),
         proc[p].at # "idle", Tracked(r),
         r.at # "idle" /\ r.alone =>
           proc[p].alone /\ (Fit(p) /\ proc'[p].alone /\ Is(p, r) => Fit(p)')
  PROVE  OwedInSight' /\ Lone' /\ Frame(p, r)
<1>1. /\ Frame(p, r) /\ proc'[p].alone = r.alone
      /\ \A q \in Proc \ {p} : proc'[q].alone = proc[q].alone
  BY BecomeFrame DEF IndexInv, TypeOK
<1>2. OwedInSight'
  BY <1>1, OwedStep DEF ScanInv
<1>3. Is(p, r) /\ proc'[p].at = r.at
  BY <1>1 DEF Frame, Is
<1>4. Lone'
  BY <1>1, <1>3, LoneStep DEF ScanInv
<1> QED
  BY <1>1, <1>2, <1>4

LEMMA RemoveInstanceDirStep ==
  ASSUME IndexInv, ScanInv, NEW p \in Proc, RemoveInstanceDir(p)
  PROVE  ScanInv'
<1> DEFINE r == Go(proc[p], "open")
<1>1. /\ proc[p] \in Command /\ proc[p].at = "removeDir" /\ Tracked(proc[p])
      /\ proc[p].op = "reset" /\ proc[p].owed = {}
  BY DEF IndexInv, TypeOK, RemoveInstanceDir, At, ScanInv, OwedInSight, Tracked
<1>2. /\ r \in Command /\ r.at = "open" /\ r.op = "reset" /\ r.dir = proc[p].dir
      /\ r.owed = {} /\ r.alone = proc[p].alone
  BY <1>1, GoFields DEF Place
<1>3. Become(p, r) /\ UNCHANGED <<index, tidy>>
  BY DEF RemoveInstanceDir
<1> HIDE DEF r
<1>4. Tracked(r)
  BY <1>2 DEF Tracked, Scanning
<1>5. Fit(p) /\ Is(p, r) => Fit(p)'
  BY <1>1, <1>2, <1>3 DEF Fit, Is, Scanning, Names
<1>6. OwedInSight' /\ Lone' /\ Frame(p, r)
  BY <1>1, <1>2, <1>3, <1>4, <1>5, CommandBecomes
<1>7. ASSUME NEW n \in Names' \cap Id
      PROVE  /\ n \in Names /\ index'[n].dir = index[n].dir
             /\ Doomed(n) => Doomed(n)'
             /\ instance[index[n].dir] \in {n, Partial} =>
                  Doomed(n)' \/ instance'[index[n].dir] \in {n, Partial}
  <2>1. n \in Names /\ index'[n].dir = index[n].dir
    BY <1>3 DEF Names
  <2>2. index[n].dir \in Dir
    BY <2>1, EntryType DEF IndexInv, RecordsWhole
  <2>3. proc[p].dir = index[n].dir => DoomedBy(p, n)'
    BY <1>2, <1>6, <2>1 DEF Frame, Is, DoomedBy
  <2>4. DoomedBy(p, n) => DoomedBy(p, n)'
    BY <2>3 DEF DoomedBy
  <2>5. Doomed(n) => Doomed(n)'
    BY <1>6, <2>1, <2>4, DoomStep
  <2>6. proc[p].dir # index[n].dir => instance'[index[n].dir] = instance[index[n].dir]
    BY <2>2 DEF RemoveInstanceDir, IndexInv, TypeOK
  <2> QED
    BY <2>1, <2>3, <2>5, <2>6 DEF Doomed
<1>8. DoomedOrCurrent'
  BY <1>3, <1>7, TidyStep DEF ScanInv
<1> QED
  BY <1>6, <1>8 DEF ScanInv

\* A step that changes no instance, where p dooms what it doomed.
LEMMA RecordsLeft ==
  ASSUME ScanInv, NEW p, NEW r, Frame(p, r), UNCHANGED instance, tidy' => tidy,
         ASSUME NEW n \in Names' \cap Id
         PROVE  /\ n \in Names /\ index'[n].dir = index[n].dir
                /\ p \in Proc /\ DoomedBy(p, n) => DoomedBy(p, n)'
  PROVE  DoomedOrCurrent'
<1>1. ASSUME NEW n \in Names' \cap Id
      PROVE  Doomed(n) => Doomed(n)'
  BY DoomStep
<1> QED
  BY <1>1, TidyStep DEF ScanInv

LEMMA OpenIndexStep ==
  ASSUME IndexInv, ScanInv, NEW p \in Proc, OpenIndex(p)
  PROVE  ScanInv'
<1> DEFINE r == [Go(proc[p], "scan") EXCEPT !.todo = Names]
<1>1. /\ proc[p] \in Command /\ proc[p].at = "open" /\ Tracked(proc[p])
      /\ Names \in SUBSET Name /\ proc[p].owed \subseteq Valid(index, config)
  BY DEF IndexInv, TypeOK, OpenIndex, At, ScanInv, OwedInSight
<1>2. /\ r \in Command /\ r.at = "scan" /\ r.op = proc[p].op /\ r.dir = proc[p].dir
      /\ r.owed = proc[p].owed /\ r.alone = proc[p].alone /\ r.todo = Names
  BY <1>1 DEF Go, Command, Place
<1>3. Become(p, r) /\ UNCHANGED <<index, tidy, instance>>
  BY DEF OpenIndex
<1> HIDE DEF r
<1>4. Tracked(r)
  BY <1>1, <1>2 DEF Tracked, Scanning, Valid, Names
<1>5. Fit(p) /\ Is(p, r) => Fit(p)'
  BY <1>1, <1>2, <1>3 DEF Fit, Is, Scanning, Names
<1>6. OwedInSight' /\ Lone' /\ Frame(p, r)
  BY <1>1, <1>2, <1>3, <1>4, <1>5, CommandBecomes
<1>7. ASSUME NEW n \in Names' \cap Id
      PROVE  /\ n \in Names /\ index'[n].dir = index[n].dir
             /\ DoomedBy(p, n) => DoomedBy(p, n)'
  BY <1>1, <1>2, <1>3, <1>6 DEF Frame, Is, DoomedBy, Scanning, Names
<1>8. DoomedOrCurrent'
  BY <1>3, <1>6, <1>7, RecordsLeft
<1> QED
  BY <1>6, <1>8 DEF ScanInv

LEMMA SkipEntryStep ==
  ASSUME IndexInv, ScanInv, NEW p \in Proc, NEW m \in Name, SkipEntry(p, m)
  PROVE  ScanInv'
<1> DEFINE r == [proc[p] EXCEPT !.todo = @ \ {m}]
<1>1. /\ proc[p] \in Command /\ proc[p].at = "scan" /\ Tracked(proc[p])
      /\ m \notin Names /\ proc[p].owed \subseteq Valid(index, config)
  BY DEF IndexInv, TypeOK, SkipEntry, At, ScanInv, OwedInSight
<1>2. /\ r \in Command /\ r.at = "scan" /\ r.op = proc[p].op /\ r.dir = proc[p].dir
      /\ r.owed = proc[p].owed /\ r.alone = proc[p].alone
      /\ r.todo = proc[p].todo \ {m}
  BY <1>1 DEF Command
<1>3. Become(p, r) /\ UNCHANGED <<index, tidy, instance>>
  BY DEF SkipEntry
<1> HIDE DEF r
<1>4. Tracked(r)
  BY <1>1, <1>2 DEF Tracked, Scanning, Valid, Names
<1>5. Fit(p) /\ Is(p, r) => Fit(p)'
  BY <1>1, <1>2, <1>3 DEF Fit, Is, Scanning, Names
<1>6. OwedInSight' /\ Lone' /\ Frame(p, r)
  BY <1>1, <1>2, <1>3, <1>4, <1>5, CommandBecomes
<1>7. ASSUME NEW n \in Names' \cap Id
      PROVE  /\ n \in Names /\ index'[n].dir = index[n].dir
             /\ DoomedBy(p, n) => DoomedBy(p, n)'
  BY <1>1, <1>2, <1>3, <1>6 DEF Frame, Is, DoomedBy, Scanning, Names
<1>8. DoomedOrCurrent'
  BY <1>3, <1>6, <1>7, RecordsLeft
<1> QED
  BY <1>6, <1>8 DEF ScanInv

\* A lone command meets no file that does not parse.
LEMMA ReadFailsStep ==
  ASSUME IndexInv, ScanInv, NEW p \in Proc, NEW m \in Name, ReadFails(p, m)
  PROVE  ScanInv'
<1> DEFINE r == Failing(proc[p])
<1>1. proc[p] \in Command /\ proc[p].at = "scan"
  BY DEF IndexInv, TypeOK, ReadFails, At
<1>2. /\ r \in Command /\ r.at = "failed" /\ r.op = proc[p].op /\ r.dir = proc[p].dir
      /\ r.owed = {} /\ r.alone = proc[p].alone
  BY <1>1, FailingFields
<1>3. Become(p, r) /\ UNCHANGED <<index, tidy, instance>>
  BY DEF ReadFails
<1> HIDE DEF r
<1>4. Tracked(r)
  BY <1>2 DEF Tracked, Scanning
<1>5. ~ Fit(p)
  <2> SUFFICES ASSUME Fit(p) PROVE FALSE
    OBVIOUS
  <2>1. m \in Names /\ m \notin Temp
    BY <1>1 DEF Fit, Scanning, ReadFails
  <2>2. index[m] = Partial /\ m \in Id
    BY <2>1 DEF ReadFails, Name
  <2> QED
    BY <2>1, <2>2, EntryType DEF IndexInv, RecordsWhole
<1>6. OwedInSight' /\ Lone' /\ Frame(p, r)
  BY <1>1, <1>2, <1>3, <1>4, <1>5, CommandBecomes
<1>7. ASSUME NEW n \in Names' \cap Id
      PROVE  /\ n \in Names /\ index'[n].dir = index[n].dir
             /\ DoomedBy(p, n) => DoomedBy(p, n)'
  BY <1>1, <1>2, <1>3, <1>6 DEF Frame, Is, DoomedBy, Scanning, Names
<1>8. DoomedOrCurrent'
  BY <1>3, <1>6, <1>7, RecordsLeft
<1> QED
  BY <1>6, <1>8 DEF ScanInv

\* A record that is owed is not stale, so that it is not unwanted either.
LEMMA ReadEntryStep ==
  ASSUME IndexInv, ScanInv, NEW p \in Proc, NEW m \in Name, ReadEntry(p, m)
  PROVE  ScanInv'
<1> DEFINE r == [proc[p] EXCEPT !.todo = @ \ {m}]
           e == index[m]
           s == IF Unwanted(r, e, m)
                THEN [Go(r, "remove") EXCEPT !.cur = m]
                ELSE [r EXCEPT !.owed = @ \ {e},
                               !.listed = IF r.op = "list" THEN @ \cup {e.dir} ELSE @]
<1>1. /\ proc[p] \in Command /\ proc[p].at = "scan" /\ Tracked(proc[p])
      /\ m \in Names /\ proc[p].owed \subseteq Valid(index, config)
      /\ e \in Entry
  BY DEF IndexInv, TypeOK, ReadEntry, At, ScanInv, OwedInSight, Content
<1>2. /\ r \in Command /\ r.at = "scan" /\ r.op = proc[p].op /\ r.dir = proc[p].dir
      /\ r.owed = proc[p].owed /\ r.alone = proc[p].alone
      /\ r.todo = proc[p].todo \ {m}
  BY <1>1 DEF Command
<1>3. Become(p, s) /\ UNCHANGED <<index, tidy, instance>>
  BY DEF ReadEntry
<1>4. /\ s \in Command /\ s.op = proc[p].op /\ s.dir = proc[p].dir
      /\ s.alone = proc[p].alone /\ s.todo = proc[p].todo \ {m}
      /\ IF Unwanted(r, e, m) THEN s.at = "remove" /\ s.cur = m /\ s.owed = proc[p].owed
                              ELSE s.at = "scan" /\ s.owed = proc[p].owed \ {e}
  <2> HIDE DEF r
  <2>1. CASE Unwanted(r, e, m)
    BY <1>2, <2>1 DEF Go, Command, Place
  <2>2. CASE ~ Unwanted(r, e, m)
    <3>1. e.dir \in Dir
      BY <1>1, EntryType
    <3> QED
      BY <1>2, <2>2, <3>1 DEF Command
  <2> QED
    BY <2>1, <2>2
<1>5. Unwanted(r, e, m) <=>
        IF proc[p].op = "reset" THEN e.dir = proc[p].dir ELSE Stale(e, m)
  BY <1>2 DEF Unwanted
<1>6. \A x \in proc[p].owed : x.id = m => x = e /\ ~ Stale(e, m)
  BY <1>1 DEF Valid, Stale
<1> HIDE DEF r, s, e
<1>7. Tracked(s)
  BY <1>1, <1>4, <1>5, <1>6 DEF Tracked, Scanning
<1>8. Fit(p) /\ Is(p, s) => Fit(p)'
  BY <1>1, <1>3, <1>4 DEF Fit, Is, Scanning, Names
<1>9. OwedInSight' /\ Lone' /\ Frame(p, s)
  BY <1>1, <1>3, <1>4, <1>7, <1>8, CommandBecomes
<1>10. ASSUME NEW n \in Names' \cap Id
       PROVE  /\ n \in Names /\ index'[n].dir = index[n].dir
              /\ DoomedBy(p, n) => DoomedBy(p, n)'
  BY <1>1, <1>3, <1>4, <1>5, <1>9 DEF Frame, Is, DoomedBy, Scanning, Names, e
<1>11. DoomedOrCurrent'
  BY <1>3, <1>9, <1>10, RecordsLeft
<1> QED
  BY <1>9, <1>11 DEF ScanInv

LEMMA RemoveEntryStep ==
  ASSUME IndexInv, ScanInv, NEW p \in Proc, RemoveEntry(p)
  PROVE  ScanInv'
<1> DEFINE r == [proc[p] EXCEPT !.cur = None]
           fails == proc[p].op = "reset" /\ proc[p].cur \notin Names
           s == IF r.op = "reset" /\ proc[p].cur \notin Names
                THEN Failing(r) ELSE Go(r, "scan")
<1>1. proc[p] \in Command /\ proc[p].at = "remove" /\ Tracked(proc[p])
  BY DEF IndexInv, TypeOK, RemoveEntry, At, ScanInv, OwedInSight
<1>2. /\ r \in Command /\ r.op = proc[p].op /\ r.dir = proc[p].dir
      /\ r.owed = proc[p].owed /\ r.alone = proc[p].alone /\ r.todo = proc[p].todo
  BY <1>1 DEF Command
<1>3. Become(p, s) /\ UNCHANGED <<tidy, instance>>
  BY DEF RemoveEntry
<1>4. /\ Names' = Names \ {proc[p].cur}
      /\ \A n \in Names' : index'[n] = index[n]
  BY DEF RemoveEntry, Without, Names
<1>5. /\ s \in Command /\ s.op = proc[p].op /\ s.dir = proc[p].dir
      /\ s.alone = proc[p].alone
      /\ IF fails THEN s.at = "failed" /\ s.owed = {}
                  ELSE s.at = "scan" /\ s.owed = proc[p].owed /\ s.todo = proc[p].todo
  <2> HIDE DEF r
  <2>1. CASE fails
    BY <1>2, <2>1, FailingFields
  <2>2. CASE ~ fails
    BY <1>2, <2>2, GoFields DEF Place
  <2> QED
    BY <2>1, <2>2
<1> HIDE DEF r, s
<1>6. Tracked(s)
  BY <1>1, <1>5 DEF Tracked, Scanning
<1>7. Fit(p) /\ Is(p, s) => Fit(p)'
  BY <1>1, <1>4, <1>5 DEF Fit, Is, Scanning
<1>8. OwedInSight' /\ Lone' /\ Frame(p, s)
  BY <1>1, <1>3, <1>5, <1>6, <1>7, CommandBecomes
<1>9. ASSUME NEW n \in Names' \cap Id
      PROVE  /\ n \in Names /\ index'[n].dir = index[n].dir
             /\ DoomedBy(p, n) => DoomedBy(p, n)'
  BY <1>1, <1>4, <1>5, <1>8 DEF Frame, Is, DoomedBy, Scanning
<1>10. DoomedOrCurrent'
  BY <1>3, <1>8, <1>9, RecordsLeft
<1> QED
  BY <1>8, <1>10 DEF ScanInv

\* A lone vibebox records the session that its directory has.
LEMMA ScanEndsStep ==
  ASSUME IndexInv, ScanInv, NEW p \in Proc, ScanEnds(p)
  PROVE  ScanInv'
<1> DEFINE r == proc[p]
           updates == r.op = "update" /\ HasSession(r.dir)
           s == CASE r.op = "list"                        -> Go(r, "metadata")
                  [] r.op # "list" /\ ~ updates           -> Go(r, "done")
                  [] updates /\ instance[r.dir] = Partial -> Failing(r)
                  [] updates /\ instance[r.dir] # Partial -> Recording(r)
<1>1. /\ r \in Command /\ r.at = "scan" /\ Tracked(r) /\ r.todo = {} /\ r.owed = {}
  BY DEF IndexInv, TypeOK, ScanEnds, At, ScanInv, OwedInSight, Tracked, Scanning
<1>2. Become(p, s) /\ UNCHANGED <<index, tidy, instance, config>>
  BY DEF ScanEnds
<1>3. /\ s \in Command /\ s.op = r.op /\ s.dir = r.dir /\ s.alone = r.alone
      /\ s.owed = {}
      /\ \/ s.at = "metadata" /\ r.op = "list"
         \/ s.at = "done" /\ ~ updates
         \/ s.at = "failed" /\ updates /\ instance[r.dir] = Partial
         \/ /\ s.at = "create" /\ updates
            /\ s.rec = [dir |-> r.dir, id |-> instance[r.dir]]
  <2>0. ASSUME NEW l \in Place
        PROVE  LET g == Go(r, l)
               IN  /\ g \in Command /\ g.at = l /\ g.op = r.op /\ g.dir = r.dir
                   /\ g.alone = r.alone /\ g.owed = {}
    BY <1>1, GoFields
  <2>1. CASE r.op = "list"
    <3>1. s = Go(r, "metadata")
      BY <2>1
    <3> HIDE DEF s
    <3> QED
      BY <2>0, <2>1, <3>1 DEF Place
  <2>2. CASE r.op # "list" /\ ~ updates
    <3>1. s = Go(r, "done")
      BY <2>2
    <3> HIDE DEF s
    <3> QED
      BY <2>0, <2>2, <3>1 DEF Place
  <2>3. CASE updates /\ instance[r.dir] = Partial
    BY <1>1, <2>3, FailingFields
  <2>4. CASE updates /\ instance[r.dir] # Partial
    <3>1. s = Recording(r)
      BY <2>4
    <3>2. r.dir \in Dir /\ instance[r.dir] \in Id
      BY <2>4 DEF HasSession, IndexInv, TypeOK
    <3>3. [dir |-> r.dir, id |-> instance[r.dir]] \in Content
      BY <3>2 DEF Entry, Content
    <3> QED
      BY <1>1, <2>0, <2>4, <3>1, <3>3 DEF Recording, Command, Place
  <2> QED
    BY <2>1, <2>2, <2>3, <2>4
<1> HIDE DEF s
<1>4. Tracked(s)
  BY <1>3 DEF Tracked, Scanning
<1>5. Fit(p) /\ Is(p, s) => Fit(p)'
  <2> SUFFICES ASSUME Fit(p), Is(p, s) PROVE Fit(p)'
    OBVIOUS
  <2>1. r.op # "none" /\ Names' \cap Temp = {}
    BY <1>1, <1>2 DEF Fit, Names
  <2>2. CASE s.at = "metadata" /\ r.op = "list"
    BY <1>3, <2>1, <2>2 DEF Fit, Is, Scanning
  <2>3. CASE s.at = "done" /\ ~ updates
    BY <1>2, <1>3, <2>1, <2>3, NameAssumption DEF Fit, Is, Scanning, HasSession
  <2>4. CASE s.at = "failed" /\ updates /\ instance[r.dir] = Partial
    <3>1. r.dir \in Dir
      BY <2>4 DEF HasSession, IndexInv, TypeOK
    <3> QED
      BY <1>2, <1>3, <2>1, <2>4, <3>1 DEF Fit, Is, Scanning
  <2>5. CASE /\ s.at = "create" /\ updates
             /\ s.rec = [dir |-> r.dir, id |-> instance[r.dir]]
    BY <1>2, <1>3, <2>1, <2>5 DEF Fit, Is, Scanning
  <2> QED
    BY <1>3, <2>2, <2>3, <2>4, <2>5
<1>6. OwedInSight' /\ Lone' /\ Frame(p, s)
  BY <1>1, <1>2, <1>3, <1>4, <1>5, CommandBecomes
<1>7. ASSUME NEW n \in Names' \cap Id
      PROVE  /\ n \in Names /\ index'[n].dir = index[n].dir
             /\ DoomedBy(p, n) => DoomedBy(p, n)'
  BY <1>1, <1>2 DEF DoomedBy, Scanning, Names
<1>8. DoomedOrCurrent'
  BY <1>2, <1>6, <1>7, RecordsLeft
<1> QED
  BY <1>6, <1>8 DEF ScanInv

LEMMA ReadMetadataStep ==
  ASSUME IndexInv, ScanInv, NEW p \in Proc, ReadMetadata(p)
  PROVE  ScanInv'
<1> DEFINE bad == \E d \in proc[p].listed : instance[d] = Partial
           s == IF bad THEN Failing(proc[p]) ELSE [Go(proc[p], "done") EXCEPT !.listed = {}]
<1>1. /\ proc[p] \in Command /\ proc[p].at = "metadata" /\ Tracked(proc[p])
      /\ proc[p].owed = {} /\ proc[p].listed \subseteq Dir
  BY DEF IndexInv, TypeOK, ReadMetadata, At, ScanInv, OwedInSight, Tracked, Command
<1>2. Become(p, s) /\ UNCHANGED <<index, tidy, instance, config>>
  BY DEF ReadMetadata
<1>3. /\ s \in Command /\ s.op = proc[p].op /\ s.dir = proc[p].dir
      /\ s.alone = proc[p].alone /\ s.owed = {}
      /\ (s.at = "failed" /\ bad) \/ s.at = "done"
  <2> HIDE DEF bad
  <2>1. CASE bad
    BY <1>1, <2>1, FailingFields
  <2>2. CASE ~ bad
    BY <1>1, <2>2 DEF Go, Command, Place
  <2> QED
    BY <2>1, <2>2
<1> HIDE DEF s
<1>4. Tracked(s)
  BY <1>3 DEF Tracked, Scanning
<1>5. Fit(p) /\ Is(p, s) => Fit(p)'
  BY <1>1, <1>2, <1>3 DEF Fit, Is, Scanning, Names
<1>6. OwedInSight' /\ Lone' /\ Frame(p, s)
  BY <1>1, <1>2, <1>3, <1>4, <1>5, CommandBecomes
<1>7. ASSUME NEW n \in Names' \cap Id
      PROVE  /\ n \in Names /\ index'[n].dir = index[n].dir
             /\ DoomedBy(p, n) => DoomedBy(p, n)'
  BY <1>1, <1>2 DEF DoomedBy, Scanning, Names
<1>8. DoomedOrCurrent'
  BY <1>2, <1>6, <1>7, RecordsLeft
<1> QED
  BY <1>6, <1>8 DEF ScanInv

-----------------------------------------------------------------------------
(***************************************************************************)
(* atomic_write again.                                                     *)
(***************************************************************************)
LEMMA CreateTempStep ==
  ASSUME IndexInv, ScanInv, NEW p \in Proc, CreateTemp(p)
  PROVE  ScanInv'
<1>1. /\ proc[p] \in Command /\ proc[p].at = "create" /\ Tracked(proc[p])
      /\ proc[p].owed = {}
  BY DEF IndexInv, TypeOK, CreateTemp, At, ScanInv, OwedInSight, Tracked
<1>2. PICK t \in Temp \ Names :
        /\ index' = With(t, Partial)
        /\ Become(p, [Go(proc[p], "write") EXCEPT !.cur = t])
  BY DEF CreateTemp
<1> DEFINE r == [Go(proc[p], "write") EXCEPT !.cur = t]
<1>3. /\ r \in Command /\ r.at = "write" /\ r.cur = t /\ r.rec = proc[p].rec
      /\ r.op = proc[p].op /\ r.dir = proc[p].dir /\ r.alone = proc[p].alone
      /\ r.owed = {}
  BY <1>1 DEF Go, Command, Place, Name
<1> HIDE DEF r
<1>4. /\ Names' = Names \cup {t} /\ t \notin Id
      /\ \A n \in Names : index'[n] = index[n]
  BY <1>2, NameAssumption DEF With, Names
<1>5. Become(p, r) /\ UNCHANGED <<config, instance, tidy>>
  BY <1>2 DEF r, CreateTemp
<1>6. Tracked(r)
  BY <1>3 DEF Tracked, Scanning
<1>7. Fit(p) /\ Is(p, r) => Fit(p)'
  BY <1>1, <1>3, <1>4, <1>5 DEF Fit, Is, Scanning
<1>8. OwedInSight' /\ Lone' /\ Frame(p, r)
  BY <1>1, <1>3, <1>5, <1>6, <1>7, CommandBecomes
<1>9. ASSUME NEW n \in Names' \cap Id
      PROVE  /\ n \in Names /\ index'[n].dir = index[n].dir
             /\ DoomedBy(p, n) => DoomedBy(p, n)'
  BY <1>1, <1>4 DEF DoomedBy, Scanning
<1>10. DoomedOrCurrent'
  BY <1>5, <1>8, <1>9, RecordsLeft
<1> QED
  BY <1>8, <1>10 DEF ScanInv

LEMMA WriteTempStep ==
  ASSUME IndexInv, ScanInv, NEW p \in Proc, WriteTemp(p)
  PROVE  ScanInv'
<1> DEFINE r == Go(proc[p], "persist")
<1>1. /\ proc[p] \in Command /\ proc[p].at = "write" /\ Tracked(proc[p])
      /\ proc[p].owed = {} /\ proc[p].cur \in Temp
  BY DEF IndexInv, TypeOK, WriteTemp, At, ScanInv, OwedInSight, Tracked, OwnTemps,
         Writing
<1>2. /\ r \in Command /\ r.at = "persist" /\ r.cur = proc[p].cur
      /\ r.rec = proc[p].rec /\ r.op = proc[p].op /\ r.dir = proc[p].dir
      /\ r.alone = proc[p].alone /\ r.owed = {}
  BY <1>1, GoFields DEF Place
<1>3. /\ Names' = Names
      /\ \A n \in Names : n # proc[p].cur => index'[n] = index[n]
  BY DEF WriteTemp, With, Names
<1>4. Become(p, r) /\ UNCHANGED <<config, instance, tidy>>
  BY DEF WriteTemp
<1> HIDE DEF r
<1>5. Tracked(r)
  BY <1>2 DEF Tracked, Scanning
<1>6. Fit(p) /\ Is(p, r) => Fit(p)'
  BY <1>1, <1>2, <1>3, <1>4 DEF Fit, Is, Scanning
<1>7. OwedInSight' /\ Lone' /\ Frame(p, r)
  BY <1>1, <1>2, <1>4, <1>5, <1>6, CommandBecomes
<1>8. ASSUME NEW n \in Names' \cap Id
      PROVE  /\ n \in Names /\ index'[n].dir = index[n].dir
             /\ DoomedBy(p, n) => DoomedBy(p, n)'
  <2>1. n # proc[p].cur
    BY <1>1, NameAssumption
  <2> QED
    BY <1>1, <1>3, <2>1 DEF DoomedBy, Scanning
<1>9. DoomedOrCurrent'
  BY <1>4, <1>7, <1>8, RecordsLeft
<1> QED
  BY <1>7, <1>9 DEF ScanInv

\* The record written is that of the session its directory has, or the history
\* is not tidy any more: every other record of the directory is doomed.
LEMMA PersistStep ==
  ASSUME IndexInv, ScanInv, NEW p \in Proc, Persist(p)
  PROVE  ScanInv'
<1> DEFINE e == proc[p].rec
           r == IF proc[p].cur \in Names THEN Written(proc[p]) ELSE Failing(proc[p])
<1>1. /\ proc[p] \in Command /\ proc[p].at = "persist" /\ Tracked(proc[p])
      /\ proc[p].owed = {} /\ proc[p].cur \in Temp /\ e \in Entry
      /\ proc[p].cur \in Names => index[proc[p].cur] = e
  BY DEF IndexInv, TypeOK, Persist, At, ScanInv, OwedInSight, Tracked, OwnTemps,
         Writing, RecordsAtHand, TempsWritten
<1>2. /\ r \in Command /\ r.op = proc[p].op /\ r.dir = proc[p].dir
      /\ r.alone = proc[p].alone /\ r.owed = {}
      /\ r.at = IF proc[p].cur \in Names THEN "done" ELSE "failed"
  <2>1. LET w == Written(proc[p])
        IN  /\ w \in Command /\ w.op = proc[p].op /\ w.dir = proc[p].dir
            /\ w.alone = proc[p].alone /\ w.owed = {} /\ w.at = "done"
    BY <1>1 DEF Written, Go, Command, Content, Place
  <2> QED
    BY <1>1, <2>1, FailingFields
<1>3. Become(p, r) /\ UNCHANGED <<config, instance>>
  BY DEF Persist
<1>4. e.id \in Id /\ e.dir \in Dir
  BY <1>1, EntryType
<1> HIDE DEF r
<1>5. CASE proc[p].cur \notin Names
  <2>1. UNCHANGED <<index, tidy>>
    BY <1>5 DEF Persist
  <2>2. ~ Fit(p) /\ Tracked(r)
    BY <1>1, <1>2, <1>5 DEF Fit, Tracked, Scanning
  <2>3. OwedInSight' /\ Lone' /\ Frame(p, r)
    BY <1>1, <1>2, <1>3, <2>2, CommandBecomes
  <2>4. ASSUME NEW n \in Names' \cap Id
        PROVE  /\ n \in Names /\ index'[n].dir = index[n].dir
               /\ DoomedBy(p, n) => DoomedBy(p, n)'
    BY <1>1, <2>1 DEF DoomedBy, Scanning, Names
  <2>5. DoomedOrCurrent'
    BY <1>3, <2>1, <2>3, <2>4, RecordsLeft
  <2> QED
    BY <2>3, <2>5 DEF ScanInv
<1>6. CASE proc[p].cur \in Names
  <2>1. /\ index' = Renamed(proc[p].cur, e.id)
        /\ tidy' = (tidy /\ instance[e.dir] = e.id)
    BY <1>6 DEF Persist
  <2>2. /\ Names' = (Names \ {proc[p].cur}) \cup {e.id}
        /\ \A n \in Names' : index'[n] = IF n = e.id THEN e ELSE index[n]
    BY <1>1, <1>6, <2>1 DEF Renamed, Names
  <2>3. Tracked(r)
    BY <1>2, <1>6 DEF Tracked, Scanning
  <2>4. Fit(p) /\ Is(p, r) => Fit(p)'
    <3> SUFFICES ASSUME Fit(p), Is(p, r) PROVE Fit(p)'
      OBVIOUS
    <3>1. /\ proc[p].op = "update"
          /\ e = [dir |-> proc[p].dir, id |-> instance[proc[p].dir]]
      BY <1>1 DEF Fit
    <3>2. e.dir \in config => e \in Valid(index', config)
      BY <1>1, <2>2 DEF Valid, Names
    <3>3. \A d \in config : proc[p].dir = d /\ instance[d] \in Id =>
            [dir |-> d, id |-> instance[d]] \in Valid(index', config)
      BY <3>1, <3>2
    <3> QED
      BY <1>2, <1>3, <1>6, <3>1, <3>3 DEF Fit, Is, Scanning
  <2>5. OwedInSight' /\ Lone' /\ Frame(p, r)
    BY <1>1, <1>2, <1>3, <2>3, <2>4, CommandBecomes
  <2>6. ASSUME NEW n \in Names' \cap Id, n # e.id, Doomed(n) PROVE Doomed(n)'
    <3>1. index'[n] = index[n] /\ ~ DoomedBy(p, n)
      BY <1>1, <2>2, <2>6 DEF DoomedBy, Scanning
    <3> QED
      BY <2>5, <2>6, <3>1, DoomStep
  <2>7. DoomedOrCurrent'
    <3> SUFFICES ASSUME tidy' PROVE OthersDoomed'
      BY DEF DoomedOrCurrent
    <3>1. OthersDoomed /\ instance[e.dir] = e.id
      BY <2>1 DEF ScanInv, DoomedOrCurrent
    <3>2. instance' = instance
      BY <1>3
    <3>3. ASSUME NEW n \in Names' \cap Id, n # e.id
          PROVE  /\ n \in Names \cap Id /\ index'[n] = index[n]
                 /\ Doomed(n)' \/ instance[index[n].dir] \in {n, Partial}
                 /\ index[n].dir = e.dir => Doomed(n)'
      <4>1. n \in Names \cap Id /\ index'[n] = index[n]
        BY <2>2, <3>3
      <4>2. Doomed(n)' \/ instance[index[n].dir] \in {n, Partial}
        BY <2>6, <3>1, <3>3, <4>1 DEF OthersDoomed
      <4>3. e.id # Partial
        BY <1>4, NameAssumption
      <4> QED
        BY <3>1, <3>3, <4>1, <4>2, <4>3
    <3>4. e.id \in Names' => index'[e.id] = e
      BY <2>2
    <3>5. ASSUME NEW n \in Names' \cap Id
          PROVE  Doomed(n)' \/ instance'[index'[n].dir] \in {n, Partial}
      BY <3>1, <3>2, <3>3, <3>4
    <3>6. ASSUME NEW m \in Names' \cap Id, NEW n \in Names' \cap Id,
                 m # n, index'[m].dir = index'[n].dir
          PROVE  Doomed(m)' \/ Doomed(n)'
      <4>1. CASE m = e.id
        BY <3>3, <3>4, <3>6, <4>1
      <4>2. CASE n = e.id
        BY <3>3, <3>4, <3>6, <4>2
      <4>3. CASE m # e.id /\ n # e.id
        BY <2>6, <3>1, <3>3, <3>6, <4>3 DEF OthersDoomed
      <4> QED
        BY <4>1, <4>2, <4>3
    <3> QED
      BY <3>5, <3>6 DEF OthersDoomed
  <2> QED
    BY <2>5, <2>7 DEF ScanInv
<1> QED
  BY <1>5, <1>6

-----------------------------------------------------------------------------
(***************************************************************************)
(* Commands that begin and end, and what disturbs them.                    *)
(***************************************************************************)
\* A reset that failed half way leaves a history that is not tidy.
LEMMA ReturnStep ==
  ASSUME IndexInv, ScanInv, NEW p \in Proc, Return(p)
  PROVE  ScanInv'
<1>1. /\ proc[p].at \in {"done", "failed"} /\ Become(p, Idle)
      /\ UNCHANGED <<index, instance, config>>
      /\ tidy' = (tidy /\ ~ (proc[p].op = "reset" /\ proc[p].at = "failed"))
  BY DEF Return, At
<1>2. Idle \in Command /\ Idle.at = "idle" /\ Tracked(Idle)
  BY IdleType DEF Idle, Tracked, Scanning
<1>3. OwedInSight' /\ Lone' /\ Frame(p, Idle)
  BY <1>1, <1>2, CommandBecomes
<1>4. CASE proc[p].op = "reset" /\ proc[p].at = "failed"
  BY <1>1, <1>3, <1>4 DEF ScanInv, DoomedOrCurrent
<1>5. CASE ~ (proc[p].op = "reset" /\ proc[p].at = "failed")
  <2>1. ASSUME NEW n \in Names' \cap Id
        PROVE  /\ n \in Names /\ index'[n].dir = index[n].dir
               /\ DoomedBy(p, n) => DoomedBy(p, n)'
    BY <1>1, <1>5 DEF DoomedBy, Scanning, Names
  <2>2. DoomedOrCurrent'
    BY <1>1, <1>3, <2>1, RecordsLeft
  <2> QED
    BY <1>3, <2>2 DEF ScanInv
<1> QED
  BY <1>4, <1>5

LEMMA BeginStep ==
  ASSUME IndexInv, ScanInv, NEW p \in Proc, NEW op \in {"update", "list", "reset"},
         NEW d \in Dir \cup {None}, Begin(p, op, d)
  PROVE  ScanInv'
<1> DEFINE begun(b, o) ==
             [Idle EXCEPT !.op = op, !.dir = d,
                          !.at = IF op = "reset" THEN "removeDir" ELSE "open",
                          !.alone = b, !.owed = o]
           isAlone == /\ \A q \in Proc : ~ Running(q)
                      /\ Names \cap Temp = {}
           owes == IF op = "reset" THEN {} ELSE Valid(index, config')
           r == begun(isAlone, owes)
<1>1. ASSUME NEW b \in BOOLEAN, NEW o \in SUBSET Entry
      PROVE  LET g == begun(b, o)
             IN  /\ g \in Command /\ g.op = op /\ g.alone = b /\ g.owed = o
                 /\ g.at = IF op = "reset" THEN "removeDir" ELSE "open"
  BY IdleType DEF Command, Idle, Place
<1>2. isAlone \in BOOLEAN
  BY Zenon
<1>3. owes \in SUBSET Entry
  BY ValidType
<1>4. /\ r \in Command /\ r.op = op /\ r.alone = isAlone /\ r.owed = owes
      /\ r.at = IF op = "reset" THEN "removeDir" ELSE "open"
  <2> HIDE DEF isAlone, begun, owes
  <2> QED
    BY <1>1, <1>2, <1>3
<1>5. /\ proc' = [q \in Proc |-> IF q = p THEN r ELSE Disturbed(proc[q])]
      /\ UNCHANGED <<index, instance, tidy>> /\ proc[p].at = "idle"
  BY DEF Begin, At
<1>6. owes \subseteq Valid(index', config')
  BY <1>5
<1> HIDE DEF r, owes
<1>7. /\ Frame(p, r) /\ proc'[p].alone = isAlone
      /\ \A q \in Proc \ {p} : proc'[q].alone = FALSE
  BY <1>4, <1>5, <1>6, DisturbFrame DEF IndexInv, TypeOK
<1>8. OwedInSight'
  <2>1. Tracked(r)
    BY <1>4 DEF Tracked, Scanning, owes
  <2> QED
    BY <1>7, <2>1, OwedStep DEF ScanInv
<1>9. DoomedOrCurrent'
  <2>1. ASSUME NEW n \in Names' \cap Id
        PROVE  /\ n \in Names /\ index'[n].dir = index[n].dir
               /\ DoomedBy(p, n) => DoomedBy(p, n)'
    BY <1>5 DEF DoomedBy, Scanning, Names
  <2> QED
    BY <1>5, <1>7, <2>1, RecordsLeft
<1>10. Lone'
  <2>1. isAlone => \A q \in Proc \ {p} : proc'[q].at = "idle"
    BY <1>7 DEF Running, Frame, Is
  <2>2. isAlone => Fit(p)'
    BY <1>4, <1>5, <1>7 DEF Frame, Is, Fit, Scanning, Names
  <2> QED
    BY <1>7, <2>1, <2>2 DEF Lone
<1> QED
  BY <1>8, <1>9, <1>10 DEF ScanInv

\* Projects change: instances are new, or garbled, or nothing is tidy any more.
LEMMA EventStep ==
  ASSUME IndexInv, ScanInv, UNCHANGED index, Disturb, tidy' => tidy,
         tidy' => \A d \in Dir : \/ instance'[d] = instance[d]
                                 \/ instance[d] = None
                                 \/ instance'[d] = Partial
  PROVE  ScanInv'
<1>1. PICK p : p \notin Proc
  BY NoSetContainsEverything
<1>2. proc' = [q \in Proc |-> IF q = p THEN Idle ELSE Disturbed(proc[q])]
  BY <1>1 DEF Disturb
<1>3. Idle \in Command /\ Idle.owed = {}
  BY IdleType DEF Idle
<1>4. Frame(p, Idle) /\ \A q \in Proc : proc'[q].alone = FALSE
  BY <1>1, <1>2, <1>3, DisturbFrame DEF IndexInv, TypeOK
<1>5. OwedInSight' /\ Lone'
  BY <1>1, <1>4, OwedStep DEF ScanInv, Lone
<1>6. CASE tidy'
  <2>1. ASSUME NEW n \in Names' \cap Id
        PROVE  /\ n \in Names /\ index'[n].dir = index[n].dir
               /\ Doomed(n) => Doomed(n)'
               /\ instance[index[n].dir] \in {n, Partial} =>
                    Doomed(n)' \/ instance'[index[n].dir] \in {n, Partial}
    <3>1. n \in Names /\ index'[n].dir = index[n].dir
      BY DEF Names
    <3>2. Doomed(n) => Doomed(n)'
      BY <1>1, <1>4, <3>1, DoomStep
    <3>3. index[n].dir \in Dir
      BY <3>1, EntryType DEF IndexInv, RecordsWhole
    <3>4. None \notin {n, Partial}
      BY NameAssumption
    <3> QED
      BY <1>6, <3>1, <3>2, <3>3, <3>4
  <2> QED
    BY <1>5, <2>1, TidyStep DEF ScanInv
<1>7. CASE ~ tidy'
  BY <1>5, <1>7 DEF ScanInv, DoomedOrCurrent
<1> QED
  BY <1>6, <1>7

LEMMA CrashStep ==
  ASSUME IndexInv, ScanInv, NEW p \in Proc, Crash(p)
  PROVE  ScanInv'
<1>1. /\ proc' = [q \in Proc |-> IF q = p THEN Idle ELSE Disturbed(proc[q])]
      /\ UNCHANGED <<index, instance>>
      /\ tidy' = (tidy /\ proc[p].op # "reset")
  BY DEF Crash
<1>2. Idle \in Command /\ Idle.owed = {} /\ Idle.at = "idle" /\ Tracked(Idle)
  BY IdleType DEF Idle, Tracked, Scanning
<1>3. /\ Frame(p, Idle) /\ proc'[p].at = "idle"
      /\ \A q \in Proc \ {p} : proc'[q].alone = FALSE
  <2>1. /\ Frame(p, Idle)
        /\ \A q \in Proc \ {p} : proc'[q].alone = FALSE
    BY <1>1, <1>2, DisturbFrame DEF IndexInv, TypeOK
  <2> QED
    BY <1>2, <2>1 DEF Frame, Is
<1>4. OwedInSight' /\ Lone'
  BY <1>2, <1>3, OwedStep DEF ScanInv, Lone
<1>5. CASE proc[p].op = "reset"
  BY <1>1, <1>4, <1>5 DEF ScanInv, DoomedOrCurrent
<1>6. CASE proc[p].op # "reset"
  <2>1. ASSUME NEW n \in Names' \cap Id
        PROVE  /\ n \in Names /\ index'[n].dir = index[n].dir
               /\ DoomedBy(p, n) => DoomedBy(p, n)'
    BY <1>1, <1>6 DEF DoomedBy, Names
  <2>2. DoomedOrCurrent'
    BY <1>1, <1>3, <2>1, RecordsLeft
  <2> QED
    BY <1>4, <2>2 DEF ScanInv
<1> QED
  BY <1>5, <1>6

-----------------------------------------------------------------------------
LEMMA InitScan == Init => ScanInv
<1> SUFFICES ASSUME Init PROVE ScanInv
  OBVIOUS
<1>1. \A p \in Proc : proc[p] = Idle
  BY DEF Init
<1>2. Names = {}
  BY DEF Init, Names
<1>3. Idle.at = "idle" /\ Idle.owed = {}
  BY DEF Idle
<1> QED
  BY <1>1, <1>2, <1>3
  DEF ScanInv, OwedInSight, Tracked, Scanning, DoomedOrCurrent, OthersDoomed, Lone

LEMMA NextScan == IndexInv /\ ScanInv /\ [Next]_vars => ScanInv'
<1> SUFFICES ASSUME IndexInv, ScanInv, [Next]_vars PROVE ScanInv'
  OBVIOUS
<1>1. ASSUME NEW p \in Proc, NEW op \in {"update", "list", "reset"},
             NEW d \in Dir \cup {None}, Begin(p, op, d)
      PROVE  ScanInv'
  BY <1>1, BeginStep
<1>2. ASSUME NEW p \in Proc, CommandStep(p) PROVE ScanInv'
  BY <1>2, RemoveInstanceDirStep, OpenIndexStep, SkipEntryStep, ReadFailsStep,
     ReadEntryStep, RemoveEntryStep, ScanEndsStep, ReadMetadataStep,
     CreateTempStep, WriteTempStep, PersistStep, ReturnStep
  DEF CommandStep
<1>3. ASSUME NEW p \in Proc, Crash(p) PROVE ScanInv'
  BY <1>3, CrashStep
<1>4. ASSUME NEW d \in Dir, NewSession(d) PROVE ScanInv'
  <2>1. /\ UNCHANGED <<index, tidy>> /\ Disturb
        /\ \A c \in Dir : instance'[c] = instance[c] \/ instance[c] = None
    BY <1>4 DEF NewSession, IndexInv, TypeOK
  <2> QED
    BY <2>1, EventStep
<1>5. ASSUME NEW d \in Dir, DropConfig(d) \/ AddConfig(d) PROVE ScanInv'
  BY <1>5, EventStep DEF DropConfig, AddConfig
<1>6. ASSUME NEW d \in Dir, DeleteInstanceDir(d) PROVE ScanInv'
  BY <1>6, EventStep DEF DeleteInstanceDir
<1>7. ASSUME NEW d \in Dir, Garble(d) PROVE ScanInv'
  <2>1. /\ UNCHANGED <<index, tidy>> /\ Disturb
        /\ \A c \in Dir : instance'[c] = instance[c] \/ instance'[c] = Partial
    BY <1>7 DEF Garble, IndexInv, TypeOK
  <2> QED
    BY <2>1, EventStep
<1>8. ASSUME NEW d \in Dir, NEW e \in Dir, Move(d, e) PROVE ScanInv'
  BY <1>8, EventStep DEF Move
<1>9. CASE UNCHANGED vars
  <2>1. UNCHANGED <<config, instance, index, proc, tidy>>
    BY <1>9 DEF vars
  <2>2. OwedInSight'
    BY <2>1 DEF ScanInv, OwedInSight, Tracked, Scanning
  <2>3. DoomedOrCurrent'
    BY <2>1 DEF ScanInv, DoomedOrCurrent, OthersDoomed, Doomed, DoomedBy, Scanning,
                Names
  <2>4. Lone'
    BY <2>1 DEF ScanInv, Lone, Fit, Scanning, Names
  <2> QED
    BY <2>2, <2>3, <2>4 DEF ScanInv
<1> QED
  BY <1>1, <1>2, <1>3, <1>4, <1>5, <1>6, <1>7, <1>8, <1>9 DEF Next

LEMMA ScanInductive == Spec => [](IndexInv /\ ScanInv)
  BY InitInv, NextInv, InitScan, NextScan, PTL DEF Spec

(***************************************************************************)
(* Every variable keeps its type, for any number of commands and projects. *)
(***************************************************************************)
THEOREM IndexTypeCorrect == Spec => []TypeOK
<1>1. IndexInv => TypeOK
  BY DEF IndexInv
<1> QED
  BY <1>1, Inductive, PTL

(***************************************************************************)
(* A record at its name is whole and is the record of that name: whichever *)
(* of any number of commands write at the same time, take each other's     *)
(* temporary files for stale records or crash between the three steps of   *)
(* atomic_write.                                                           *)
(***************************************************************************)
THEOREM RecordsAreWhole == Spec => []RecordsWhole
<1>1. IndexInv => RecordsWhole
  BY DEF IndexInv
<1> QED
  BY <1>1, Inductive, PTL

(***************************************************************************)
(* A command that ends without an error has found every record that was    *)
(* valid all the time it ran, whatever the others wrote, took away or      *)
(* renamed under its scan of the directory.                                *)
(***************************************************************************)
THEOREM ScansFindAllKept == Spec => []FindsAllKept
<1>1. ScanInv => FindsAllKept
  BY DEF ScanInv, OwedInSight, Tracked, FindsAllKept, At
<1> QED
  BY <1>1, ScanInductive, PTL

(***************************************************************************)
(* A command that nothing disturbs, and that does not find the temporary   *)
(* file of one that crashed, fails only because of a garbled instance.toml.*)
(***************************************************************************)
THEOREM LoneCommandsWork == Spec => []LoneCommandWorks
<1>1. ScanInv => LoneCommandWorks
  BY DEF ScanInv, Lone, Fit, LoneCommandWorks, At
<1> QED
  BY <1>1, ScanInductive, PTL

(***************************************************************************)
(* A vibebox that nothing disturbs has, when it ends, recorded the session *)
(* of its directory, whatever stale records it had to prune.               *)
(***************************************************************************)
THEOREM LoneUpdatesRecord == Spec => []LoneUpdateRecords
<1>1. ScanInv => LoneUpdateRecords
  BY DEF ScanInv, Lone, Fit, LoneUpdateRecords, At
<1> QED
  BY <1>1, ScanInductive, PTL

(***************************************************************************)
(* Of two records of one directory a reset that is under way is going to   *)
(* remove one, as long as sessions disappear only by resets that run to    *)
(* their end and nobody records a session that is not there any more.      *)
(***************************************************************************)
THEOREM DirectoryHasOneRecord == Spec => []OneRecordPerDirectory
<1>1. ScanInv => OneRecordPerDirectory
  <2> SUFFICES ASSUME ScanInv, tidy, NEW m \in Names \cap Id, NEW n \in Names \cap Id,
                      m # n, index[m].dir = index[n].dir
               PROVE  \E p \in Proc : /\ Running(p) /\ proc[p].op = "reset"
                                     /\ proc[p].dir = index[m].dir
    BY DEF OneRecordPerDirectory
  <2>1. Doomed(m) \/ Doomed(n)
    BY DEF ScanInv, DoomedOrCurrent, OthersDoomed
  <2> QED
    BY <2>1 DEF Doomed, DoomedBy, Scanning, Running
<1> QED
  BY <1>1, ScanInductive, PTL

=============================================================================
