----------------------------- MODULE SessionIndex -----------------------------
(***************************************************************************)
(* The index of the sessions in ~/.vibebox/sessions, one file per session  *)
(* (src/src/session_manager.rs), which every vibebox, `vibebox list' and   *)
(* `vibebox reset' on the machine read and rewrite without a lock, while   *)
(* projects come, go and move.                                             *)
(*                                                                         *)
(* The index is a function from the names that exist to contents; id.toml  *)
(* is the name id.  Each action is at most one operation on it.  A scan    *)
(* sees the names that were there when it was opened.                      *)
(***************************************************************************)
EXTENDS Naturals, FiniteSets

CONSTANTS
  Proc,          \* slots for the processes that run commands, one after another
  Dir,           \* project directories
  Id,            \* the session ids there can be: a bound
  Temp,          \* the names that temporary files can have: a bound
  None,          \* no session, no name
  Partial,       \* a file that does not parse
  Events,        \* what users do to projects, a subset of AllEvents
  MaxEvents      \* bound on the number of events and crashes

AllEvents == {"drop", "add", "delete", "move", "garble", "crash"}

ASSUME NameAssumption ==
  /\ IsFiniteSet(Proc) /\ IsFiniteSet(Dir) /\ IsFiniteSet(Id)
  /\ Temp \cap Id = {} /\ Dir # {}
  /\ None \notin Temp \cup Id \cup Dir
  /\ Partial \notin [dir : Dir, id : Id] \cup Id \cup {None}
ASSUME EventAssumption == Events \subseteq AllEvents /\ MaxEvents \in Nat

VARIABLES
  config,        \* the directories that have a vibebox.toml
  instance,      \* instance[d]: the id in d/.vibebox/instance.toml
  born,          \* the ids given to sessions so far
  index,         \* the files of the index
  proc,          \* proc[p]: the command p runs
  eventsLeft,    \* how many more events and crashes there can be
  tidy           \* history: nobody moved a project or deleted .vibebox by
                 \* hand, no reset stopped half way, no record was written of
                 \* a session that was not its directory's any more

vars == <<config, instance, born, index, proc, eventsLeft, tidy>>

Entry   == [dir : Dir, id : Id]
Name    == Id \cup Temp
Content == Entry \cup {Partial}
Names   == DOMAIN index

Place == {"idle", "removeDir", "open", "scan", "remove", "create", "write",
          "persist", "metadata", "done", "failed"}

(***************************************************************************)
(* A command: what it is, where it is, its directory, the names still to   *)
(* be visited, the name at hand, the record to be written, the directories *)
(* that are to be listed.  Two history members: nothing disturbed it, and  *)
(* the records that have been there, valid, since it began and that it has *)
(* not yet found.                                                          *)
(***************************************************************************)
Command == [op : {"none", "update", "list", "reset"}, at : Place,
            dir : Dir \cup {None}, todo : SUBSET Name, cur : Name \cup {None},
            rec : Content, listed : SUBSET Dir,
            alone : BOOLEAN, owed : SUBSET Entry]

Running(p) == proc[p].at # "idle"

Valid(idx, cfg) == {e \in Entry : e.dir \in cfg /\ e.id \in DOMAIN idx /\ idx[e.id] = e}

Idle == [op |-> "none", at |-> "idle", dir |-> None, todo |-> {}, cur |-> None,
         rec |-> Partial, listed |-> {}, alone |-> FALSE, owed |-> {}]

Init ==
  /\ config \in SUBSET Dir
  /\ instance = [d \in Dir |-> None]
  /\ born = {}
  /\ index = [n \in {} |-> Partial]
  /\ proc = [p \in Proc |-> Idle]
  /\ eventsLeft = MaxEvents
  /\ tidy = TRUE

-----------------------------------------------------------------------------
At(p, l) == proc[p].at = l

\* p becomes r; records that are no longer valid are owed to nobody.
Become(p, r) ==
  proc' = [q \in Proc |->
            [(IF q = p THEN r ELSE proc[q])
               EXCEPT !.owed = @ \cap Valid(index', config')]]

Disturbed(r) == [r EXCEPT !.alone = FALSE, !.owed = @ \cap Valid(index', config')]

Go(r, l) == [r EXCEPT !.at = l]

\* The index after an operation on a file: unlink, of a name that may not be
\* there; a write, of a name that may be new; rename, over what is there.
Without(name) == [n \in Names \ {name} |-> index[n]]

With(name, content) ==
  [n \in Names \cup {name} |-> IF n = name THEN content ELSE index[n]]

Renamed(old, new) ==
  [n \in (Names \ {old}) \cup {new} |-> IF n = new THEN index[old] ELSE index[n]]

\* A command begins; whatever else runs is disturbed, and disturbs it.  A
\* vibebox has first written the default vibebox.toml, unless it was given
\* another file.
Begin(p, op, d) ==
  /\ At(p, "idle")
  /\ (op = "list") <=> (d = None)
  /\ config' \in {config, IF op = "update" THEN config \cup {d} ELSE config}
  /\ UNCHANGED <<instance, born, index, eventsLeft, tidy>>
  /\ LET r == [Idle EXCEPT !.op = op, !.dir = d,
                           !.at = IF op = "reset" THEN "removeDir" ELSE "open",
                           !.alone = /\ \A q \in Proc : ~ Running(q)
                                     /\ Names \cap Temp = {},
                           !.owed = IF op = "reset" THEN {} ELSE Valid(index, config')]
     IN  proc' = [q \in Proc |-> IF q = p THEN r ELSE Disturbed(proc[q])]

\* clean_project: .vibebox is removed first, if it exists.
RemoveInstanceDir(p) ==
  /\ At(p, "removeDir")
  /\ instance' = [instance EXCEPT ![proc[p].dir] = None]
  /\ UNCHANGED <<config, born, index, eventsLeft, tidy>>
  /\ Become(p, Go(proc[p], "open"))

\* fs::read_dir.
OpenIndex(p) ==
  /\ At(p, "open")
  /\ UNCHANGED <<config, instance, born, index, eventsLeft, tidy>>
  /\ Become(p, [Go(proc[p], "scan") EXCEPT !.todo = Names])

\* prune_stale_sessions keeps the records of directories that have a
\* vibebox.toml; a file whose name is not the record's id is not a record.
Stale(e, name) == e.dir \notin config \/ e.id # name

\* Mutant of Unwanted: a reset only prunes.
UnwantedIsStale(r, e, name) == Stale(e, name)

\* Whether r removes the file of that name.
Unwanted(r, e, name) == IF r.op = "reset" THEN e.dir = r.dir ELSE Stale(e, name)

\* The next entry is not a file any more.
SkipEntry(p, n) ==
  /\ At(p, "scan") /\ n \in proc[p].todo \ Names
  /\ UNCHANGED <<config, instance, born, index, eventsLeft, tidy>>
  /\ Become(p, [proc[p] EXCEPT !.todo = @ \ {n}])

Failing(r) ==
  [Go(r, "failed") EXCEPT !.todo = {}, !.cur = None, !.rec = Partial, !.listed = {},
                          !.owed = {}]

\* The next entry does not parse, or has gone since it was seen to be a file:
\* the whole command fails.
ReadFails(p, n) ==
  /\ At(p, "scan") /\ n \in proc[p].todo
  /\ n \in Names => index[n] = Partial
  /\ UNCHANGED <<config, instance, born, index, eventsLeft, tidy>>
  /\ Become(p, Failing(proc[p]))

ReadEntry(p, n) ==
  /\ At(p, "scan") /\ n \in proc[p].todo \cap Names
  /\ index[n] # Partial
  /\ UNCHANGED <<config, instance, born, index, eventsLeft, tidy>>
  /\ LET r == [proc[p] EXCEPT !.todo = @ \ {n}]
         e == index[n]
     IN  Become(p, IF Unwanted(r, e, n)
                   THEN [Go(r, "remove") EXCEPT !.cur = n]
                   ELSE [r EXCEPT !.owed = @ \ {e},
                                  !.listed = IF r.op = "list" THEN @ \cup {e.dir} ELSE @])

\* Mutant of RemoveEntry: the scan ends with the first file it removes.
RemoveEntryAndStop(p) ==
  /\ At(p, "remove")
  /\ index' = Without(proc[p].cur)
  /\ UNCHANGED <<config, instance, born, eventsLeft, tidy>>
  /\ Become(p, [Go(proc[p], "scan") EXCEPT !.todo = {}, !.cur = None])

\* The file at that name is removed, whatever it is by now.  A reset, but not
\* a prune, fails when there is none.
RemoveEntry(p) ==
  /\ At(p, "remove")
  /\ index' = Without(proc[p].cur)
  /\ UNCHANGED <<config, instance, born, eventsLeft, tidy>>
  /\ LET r == [proc[p] EXCEPT !.cur = None]
     IN  Become(p, IF r.op = "reset" /\ proc[p].cur \notin Names
                   THEN Failing(r) ELSE Go(r, "scan"))

\* Mutants of HasSession: an instance.toml without an id will do; a session
\* that has a record needs no other.
HasInstance(d) == d \in config

HasNewSession(d) == d \in config /\ instance[d] \notin Names \cup {None}

HasSession(d) == d \in config /\ instance[d] # None

Recording(r) ==
  [Go(r, "create") EXCEPT !.rec = [dir |-> r.dir, id |-> instance[r.dir]]]

\* update_global_sessions goes on if its directory has a session by now.
ScanEnds(p) ==
  /\ At(p, "scan") /\ proc[p].todo = {}
  /\ UNCHANGED <<config, instance, born, index, eventsLeft, tidy>>
  /\ LET r       == proc[p]
         updates == r.op = "update" /\ HasSession(r.dir)
     IN  Become(p, CASE r.op = "list"                        -> Go(r, "metadata")
                    [] r.op # "list" /\ ~ updates           -> Go(r, "done")
                    [] updates /\ instance[r.dir] = Partial -> Failing(r)
                    [] updates /\ instance[r.dir] # Partial -> Recording(r))

\* list_sessions reads the instance.toml of every directory that has one, in
\* one step here.
ReadMetadata(p) ==
  /\ At(p, "metadata")
  /\ UNCHANGED <<config, instance, born, index, eventsLeft, tidy>>
  /\ Become(p, IF \E d \in proc[p].listed : instance[d] = Partial
               THEN Failing(proc[p]) ELSE [Go(proc[p], "done") EXCEPT !.listed = {}])

\* atomic_write: a temporary file in the same directory, with a new name ...
CreateTemp(p) ==
  /\ At(p, "create")
  /\ UNCHANGED <<config, instance, born, eventsLeft, tidy>>
  /\ \E t \in Temp \ (Names \cup {proc[q].cur : q \in Proc}) :
       /\ index' = With(t, Partial)
       /\ Become(p, [Go(proc[p], "write") EXCEPT !.cur = t])

\* Mutant of WriteTemp: the data is not written before the file is renamed.
WriteTempLater(p) ==
  /\ At(p, "write")
  /\ UNCHANGED <<config, instance, born, index, eventsLeft, tidy>>
  /\ Become(p, Go(proc[p], "persist"))

\* ... which is written, wherever it is by now ...
WriteTemp(p) ==
  /\ At(p, "write")
  /\ index' = IF proc[p].cur \in Names THEN With(proc[p].cur, proc[p].rec) ELSE index
  /\ UNCHANGED <<config, instance, born, eventsLeft, tidy>>
  /\ Become(p, Go(proc[p], "persist"))

Written(r) == [Go(r, "done") EXCEPT !.cur = None, !.rec = Partial,
                                   !.owed = @ \ {r.rec}]

\* ... and renamed to id.toml, if nobody has taken it for a stale record.
Persist(p) ==
  /\ At(p, "persist")
  /\ UNCHANGED <<config, instance, born, eventsLeft>>
  /\ LET r == proc[p].rec
     IN  IF proc[p].cur \in Names
         THEN /\ index' = Renamed(proc[p].cur, r.id)
              /\ tidy' = (tidy /\ instance[r.dir] = r.id)
              /\ Become(p, Written(proc[p]))
         ELSE UNCHANGED <<index, tidy>> /\ Become(p, Failing(proc[p]))

\* The command returns, with an error or without.
Return(p) ==
  /\ At(p, "done") \/ At(p, "failed")
  /\ UNCHANGED <<config, instance, born, index, eventsLeft>>
  /\ tidy' = (tidy /\ ~ (proc[p].op = "reset" /\ At(p, "failed")))
  /\ Become(p, Idle)

CommandStep(p) ==
  \/ RemoveInstanceDir(p) \/ OpenIndex(p)
  \/ \E n \in Name : SkipEntry(p, n) \/ ReadFails(p, n) \/ ReadEntry(p, n)
  \/ RemoveEntry(p) \/ ScanEnds(p) \/ ReadMetadata(p)
  \/ CreateTemp(p) \/ WriteTemp(p) \/ Persist(p) \/ Return(p)

-----------------------------------------------------------------------------
(***************************************************************************)
(* What happens to projects, and to commands.                              *)
(***************************************************************************)
Happens(event) ==
  /\ event \in Events
  /\ eventsLeft > 0 /\ eventsLeft' = eventsLeft - 1

Disturb == proc' = [q \in Proc |-> Disturbed(proc[q])]

\* A manager of the project writes an instance.toml with a new id.
NewSession(d) ==
  /\ d \in config /\ instance[d] = None
  /\ \E i \in Id \ born : /\ instance' = [instance EXCEPT ![d] = i]
                         /\ born' = born \cup {i}
  /\ UNCHANGED <<config, index, eventsLeft, tidy>>
  /\ Disturb

DropConfig(d) ==
  /\ Happens("drop") /\ d \in config
  /\ config' = config \ {d}
  /\ UNCHANGED <<instance, born, index, tidy>>
  /\ Disturb

AddConfig(d) ==
  /\ Happens("add") /\ d \notin config
  /\ config' = config \cup {d}
  /\ UNCHANGED <<instance, born, index, tidy>>
  /\ Disturb

DeleteInstanceDir(d) ==
  /\ Happens("delete") /\ instance[d] # None
  /\ instance' = [instance EXCEPT ![d] = None]
  /\ tidy' = FALSE
  /\ UNCHANGED <<config, born, index>>
  /\ Disturb

Move(d, e) ==
  /\ Happens("move") /\ d \in config /\ e \notin config /\ instance[e] = None
  /\ config' = (config \ {d}) \cup {e}
  /\ instance' = [instance EXCEPT ![d] = None, ![e] = instance[d]]
  /\ tidy' = FALSE
  /\ UNCHANGED <<born, index>>
  /\ Disturb

\* Two writes of instance.toml at once, or one that was stopped.
Garble(d) ==
  /\ Happens("garble") /\ instance[d] \in Id
  /\ instance' = [instance EXCEPT ![d] = Partial]
  /\ UNCHANGED <<config, born, index, tidy>>
  /\ Disturb

Crash(p) ==
  /\ Happens("crash") /\ Running(p)
  /\ tidy' = (tidy /\ proc[p].op # "reset")
  /\ UNCHANGED <<config, instance, born, index>>
  /\ proc' = [q \in Proc |-> IF q = p THEN Idle ELSE Disturbed(proc[q])]

Next ==
  \/ \E p \in Proc, op \in {"update", "list", "reset"}, d \in Dir \cup {None} : Begin(p, op, d)
  \/ \E p \in Proc : CommandStep(p) \/ Crash(p)
  \/ \E d \in Dir : NewSession(d) \/ DropConfig(d) \/ AddConfig(d)
                    \/ DeleteInstanceDir(d) \/ Garble(d)
  \/ \E d, e \in Dir : Move(d, e)

Spec == Init /\ [][Next]_vars

-----------------------------------------------------------------------------
(***************************************************************************)
(* Every variable keeps its type.                                          *)
(***************************************************************************)
TypeOK ==
  /\ config \subseteq Dir
  /\ instance \in [Dir -> Id \cup {None, Partial}]
  /\ born \subseteq Id
  /\ Names \subseteq Name
  /\ \A n \in Names : index[n] \in Content
  /\ proc \in [Proc -> Command]
  /\ eventsLeft \in 0 .. MaxEvents
  /\ tidy \in BOOLEAN

(***************************************************************************)
(* Whatever crashes, and whoever writes at the same time, a record that    *)
(* can be seen at its name is whole and is the record of that name.        *)
(***************************************************************************)
RecordsWhole ==
  \A n \in Names \cap Id : index[n] \in Entry /\ index[n].id = n

(***************************************************************************)
(* A command that returns sessions returns every valid record that was     *)
(* there from its beginning to its end, however the others changed the     *)
(* index under its scan.                                                   *)
(***************************************************************************)
FindsAllKept ==
  \A p \in Proc : At(p, "done") => proc[p].owed = {}

(***************************************************************************)
(* A command fails only because of another one, beside it, or before it    *)
(* and crashed, its temporary file left behind; or because of a garbled    *)
(* instance.toml: of the vibebox's own project, or of any for a list.      *)
(***************************************************************************)
LoneCommandWorks ==
  \A p \in Proc : At(p, "failed") /\ proc[p].alone =>
    \E d \in Dir :
      /\ instance[d] = Partial
      /\ \/ proc[p].op = "list"
         \/ proc[p].op = "update" /\ proc[p].dir = d

(***************************************************************************)
(* A vibebox that nobody disturbs leaves the session of its project in the *)
(* index, whatever is there.                                               *)
(***************************************************************************)
LoneUpdateRecords ==
  \A p \in Proc, d \in config :
    /\ At(p, "done") /\ proc[p].op = "update" /\ proc[p].alone
    /\ proc[p].dir = d /\ instance[d] \in Id
    => [dir |-> d, id |-> instance[d]] \in Valid(index, config)

(***************************************************************************)
(* docs/implementations.md: "Currently, a directory can only have a single *)
(* session": no two records are of one directory, unless a reset of it is  *)
(* under way, or its session disappeared by other means than a reset that  *)
(* ran to its end and met no vibebox that was writing the record.          *)
(***************************************************************************)
OneRecordPerDirectory ==
  tidy => \A m, n \in Names \cap Id :
    m # n /\ index[m].dir = index[n].dir =>
      \E p \in Proc : /\ Running(p) /\ proc[p].op = "reset"
                     /\ proc[p].dir = index[m].dir

(***************************************************************************)
(* docs/implementations.md: "Deleting `[project_dir]/.vibebox/`            *)
(* permanently deletes the session. The global index entry (if any) will   *)
(* be removed by any command that uses the global index but failed to      *)
(* locate": an undisturbed list leaves, and returns, sessions that exist.  *)
(***************************************************************************)
ListsOnlySessions ==
  \A p \in Proc :
    At(p, "done") /\ proc[p].op = "list" /\ proc[p].alone
      => \A e \in Valid(index, config) : instance[e.dir] = e.id

=============================================================================
