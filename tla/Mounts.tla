-------------------------------- MODULE Mounts --------------------------------
(***************************************************************************)
(* From the mounts of vibebox.toml to what the guest sees: their check     *)
(* (src/src/config.rs), the project added and the guests in the home       *)
(* directory rewritten to a place that root can mount on, with links       *)
(* (src/src/vm_manager.rs), the shares of the machine and the mounts typed *)
(* into it (src/src/vm.rs); beside them what `vibebox explain' tells of    *)
(* the same file (src/src/explain.rs).                                     *)
(*                                                                         *)
(* A path is a sequence of names.  An absolute one begins with "/", one in *)
(* the home directory may begin with "~"; any other is relative.  The      *)
(* commands that mount are typed with the names as they are: the shell     *)
(* takes a name with a space apart.  The kernel's mounts and the guest's   *)
(* disk, which outlives a boot, are external; there a program writes to    *)
(* the home directory only, and no guest path of a spec is a file of the   *)
(* guest or lies in the project's .git or .vibebox, which are hidden.      *)
(***************************************************************************)
EXTENDS Naturals, SequencesExt

CONSTANTS
  Word,          \* what guest paths are made of
  Project,       \* the name of the project's directory, on the host and in the guest
  Host,          \* directories of the host that can be mapped, the project's among them
  Movable,       \* those of them that come and go: a bound
  Split,         \* the names that the shell takes apart
  System,        \* the files of the guest that its commands and ssh.sh need
  Specs,         \* the well-formed specs: a bound
  Malformed,     \* a spec with too few or too many parts, or a wrong mode
  MaxMounts      \* bound on the length of box.mounts

Path    == Seq(Word) \ {<<>>}

Base    == <<"/", "usr", "local", "vibebox-mounts">>
Home    == <<"/", "home", "user">>
KeyDir  == <<"/", "root", ".vibebox">>
MiseDir == <<"/", "root", ".local", "share", "mise">>
Staging == <<"/", "mnt", "shared">>

ASSUME WordAssumption ==
  /\ {"~", "/", "usr", "local", "vibebox-mounts", "home", "user", "root", ".vibebox",
      ".local", "share", "mise", "mnt", "shared"} \subseteq Word \ Split
  /\ Project \in Word \cap Host
  /\ {"mise", ".vibebox"} \cap (Host \cup Split) = {}
  /\ Movable \subseteq Host \ {Project}
ASSUME SystemAssumption ==
  /\ System \subseteq Path
  /\ \A f \in System :
       \A dir \in {MiseDir, KeyDir, Base \o <<Project>>} : ~ IsPrefix(dir, f)
ASSUME SpecAssumption ==
  /\ Specs \subseteq [host : Host, guest : Path, mode : {"ro", "rw"}]
  /\ Malformed \notin Specs
  /\ MaxMounts \in Nat

VARIABLES
  mounts,        \* box.mounts of vibebox.toml
  host,          \* host[h]: what is at the path h of the host
  colon,         \* whether the path of the project contains a colon
  vm,            \* where the start of the machine is
  shares,        \* directory_shares
  todo,          \* the shares still to be mounted in the guest
  table,         \* the mounts in the guest, the latest last
  linked,        \* how many of the specs had their link made
  home,          \* home[p]: what is at ~/p on the guest's disk
  touched        \* history: the paths in home used since the set-up

vars == <<mounts, host, colon, vm, shares, todo, table, linked, home, touched>>

Mount   == Specs
Configs == UNION {[1 .. n -> Mount \cup {Malformed}] : n \in 0 .. MaxMounts}

ProjectSpec == [host |-> Project, guest |-> <<"~", Project>>, mode |-> "rw"]

\* Mutant of InHome: only the tilde is recognized.
IsTilde(guest) == Head(guest) = "~"

InHome(guest) == Head(guest) = "~" \/ IsPrefix(Home, guest)

IsRelative(guest) == Head(guest) \notin {"/", "~"}

\* The path in the home directory.
Rel(guest) ==
  IF Head(guest) = "~" THEN Tail(guest)
                       ELSE SubSeq(guest, Len(Home) + 1, Len(guest))

\* The places in the home directory that links can need.
HomePaths ==
  (UNION {Prefixes(Rel(s.guest)) : s \in {t \in Specs \cup {ProjectSpec} : InHome(t.guest)}})
    \ {<<>>}

Init ==
  /\ mounts = <<>>
  /\ host = [h \in Host |-> "dir"]
  /\ colon \in BOOLEAN
  /\ vm = "off"
  /\ shares = <<>> /\ todo = <<>> /\ table = <<>>
  /\ linked = 0
  /\ home = [p \in HomePaths |-> "none"]
  /\ touched = {}

-----------------------------------------------------------------------------
(***************************************************************************)
(* The rewriting of specs.                                                 *)
(***************************************************************************)
\* Mutant of Inject: a mapping of the project elsewhere is enough.
InjectIfUnmapped(specs) ==
  IF \E i \in DOMAIN specs : specs[i].host = Project THEN specs ELSE <<ProjectSpec>> \o specs

\* inject_project_mount: the project comes first, unless its place is taken.
Inject(specs) ==
  LET atProject == {<<"~", Project>>, Home \o <<Project>>, Base \o <<Project>>}
  IN  IF \E i \in DOMAIN specs : specs[i].guest \in atProject
      THEN specs ELSE <<ProjectSpec>> \o specs

\* rewrite_mount_spec, and DirectoryShare::new for a relative guest.
Rewrite(spec) ==
  [spec EXCEPT !.guest = CASE InHome(@)     -> Base \o Rel(@)
                           [] IsRelative(@) -> <<"/", "root">> \o @
                           [] OTHER         -> @]

\* from_mount_spec fails.
Invalid(spec) == spec = Malformed \/ host[spec.host] = "none"

\* The shares of every guest: the tools, and the key for ssh.
Own == <<[host |-> "mise",     guest |-> MiseDir, mode |-> "rw"],
         [host |-> ".vibebox", guest |-> KeyDir,  mode |-> "ro"]>>

\* Mutant of Shares: the key is not shared.
SharesWithoutKey(specs) ==
  LET all == Inject(specs) IN <<Head(Own)>> \o [i \in DOMAIN all |-> Rewrite(all[i])]

Shares(specs) ==
  LET all == Inject(specs) IN Own \o [i \in DOMAIN all |-> Rewrite(all[i])]

\* Mutant of Mode: shares are writable.
ModeOfAll(h) == "rw"

\* The machine has one directory for each tag, and the tag is made of the
\* host's path: of several shares the last one decides.
Mode(h) == shares[SelectLastInSeq(shares, LAMBDA s : s.host = h)].mode

-----------------------------------------------------------------------------
(***************************************************************************)
(* The guest's view.                                                       *)
(***************************************************************************)
Covers(e, path) == IsPrefix(e.guest, path)

GuestsOwn == [host |-> "guest", rest |-> <<>>, mode |-> "rw"]

\* The latest mount at or above a path decides what is there.
Resolve(path) ==
  LET i == SelectLastInSeq(table, LAMBDA e : Covers(e, path))
  IN  IF i = 0 THEN GuestsOwn
      ELSE [host |-> table[i].host,
            rest |-> SubSeq(path, Len(table[i].guest) + 1, Len(path)),
            mode |-> Mode(table[i].host)]

\* A link in the home directory is at the path or above it.
Through(rel) == \E p \in HomePaths : home[p] = "link" /\ IsPrefix(p, rel)

\* With the links in the home directory.
See(path) ==
  Resolve(IF IsPrefix(Home, path) /\ Through(Rel(path)) THEN Base \o Rel(path) ELSE path)

\* A mount is over a file that every command needs, or ssh.sh.
Hidden == \E i \in DOMAIN table : \E f \in System : Covers(table[i], f)

-----------------------------------------------------------------------------
(***************************************************************************)
(* What the user does.                                                     *)
(***************************************************************************)
Edit ==
  /\ vm = "off"
  /\ \/ /\ Len(mounts) < MaxMounts
        /\ \E m \in Mount \cup {Malformed} : mounts' = Append(mounts, m)
     \/ mounts # <<>> /\ mounts' = Tail(mounts)
  /\ UNCHANGED <<host, colon, vm, shares, todo, table, linked, home, touched>>

ChangeHost(h) ==
  /\ vm \in {"off", "loaded"}
  /\ \E what \in {"dir", "file", "none"} : host' = [host EXCEPT ![h] = what]
  /\ UNCHANGED <<mounts, colon, vm, shares, todo, table, linked, home, touched>>

\* A program in the guest makes or removes a directory or a file, in place
\* of what is there, a link among others.
UseHome(p) ==
  /\ vm = "running" /\ ~ Hidden
  /\ \A q \in HomePaths : IsStrictPrefix(q, p) => home[q] = "dir"
  /\ \E what \in {"none", "dir", "file"} \ {home[p]} :
       home' = [q \in HomePaths |-> CASE q = p                  -> what
                                      [] IsStrictPrefix(p, q)   -> "none"
                                      [] OTHER                  -> home[q]]
  /\ touched' = touched \cup {p}
  /\ UNCHANGED <<mounts, host, colon, vm, shares, todo, table, linked>>

\* `vibebox reset' takes the guest's disk away.
Reset ==
  /\ vm = "off"
  /\ home' = [p \in HomePaths |-> "none"]
  /\ UNCHANGED <<mounts, host, colon, vm, shares, todo, table, linked, touched>>

Stop ==
  /\ vm \notin {"off", "loaded"}
  /\ vm' = "off"
  /\ shares' = <<>> /\ todo' = <<>> /\ table' = <<>>
  /\ linked' = 0 /\ touched' = {}
  /\ UNCHANGED <<mounts, host, colon, home>>

-----------------------------------------------------------------------------
(***************************************************************************)
(* The start of the machine.                                               *)
(***************************************************************************)
\* validate_or_exit.
Load ==
  /\ vm = "off"
  /\ vm' = IF \E i \in DOMAIN mounts : Invalid(mounts[i]) THEN "refused" ELSE "loaded"
  /\ UNCHANGED <<mounts, host, colon, shares, todo, table, linked, home, touched>>

\* The specs are parsed again, the injected one with them: a colon in the
\* project's path makes it one of too many parts.  create_vm_configuration
\* asserts that each host is a directory.
Share ==
  /\ vm = "loaded"
  /\ shares' = Shares(mounts)
  /\ LET on    == {shares'[i].host : i \in DOMAIN shares'} \cap Host
         fails == \/ \E h \in on : host[h] = "none"
                  \/ colon /\ Inject(mounts) # mounts
     IN  vm' = IF fails THEN "failed"
               ELSE IF \E h \in on : host[h] = "file" THEN "panicked" ELSE "sharing"
  /\ todo' = shares'
  /\ UNCHANGED <<mounts, host, colon, table, linked, home, touched>>

\* The shell takes the tag, which ends in the host's name, and the guest path
\* for what they are.
Typeable(s) == s.host \notin Split /\ \A i \in DOMAIN s.guest : s.guest[i] \notin Split

\* mkdir -p and mount --bind from Staging, whose failures nobody notices:
\* Staging may be below an earlier mount, and in a mounted directory mkdir
\* may find a file, or nothing can be made; in Staging itself nothing can.
MountNext ==
  /\ vm = "sharing" /\ todo # <<>>
  /\ todo' = Tail(todo)
  /\ LET s   == Head(todo)
         can == /\ Typeable(s) /\ ~ IsStrictPrefix(Staging, s.guest)
                /\ \A i \in DOMAIN table : ~ Covers(table[i], Staging)
     IN  \/ can /\ table' = Append(table, [guest |-> s.guest, host |-> s.host])
         \/ ~ can /\ UNCHANGED table
         \/ Hidden /\ UNCHANGED table
         \/ Resolve(s.guest).rest # <<>> /\ UNCHANGED table
  /\ UNCHANGED <<mounts, host, colon, vm, shares, linked, home, touched>>

\* ssh.sh stops if the public key is not there, or something else that it
\* needs; then nothing is said of the home directory.
SetUp ==
  /\ vm = "sharing" /\ todo = <<>>
  /\ vm' \in IF See(KeyDir).host # ".vibebox" THEN {"unreachable"}
             ELSE IF Hidden THEN {"unreachable", "running"} ELSE {"linking"}
  /\ UNCHANGED <<mounts, host, colon, shares, todo, table, linked, home, touched>>

\* A file in the home directory is where a directory is needed.
Blocked(rel) == \E p \in HomePaths : home[p] = "file" /\ IsStrictPrefix(p, rel)

\* The place of a link need not exist: its mkdir was taken apart, or it is in
\* a directory that is mounted above it.
Dangling(rel) ==
  LET seen == Resolve(Base \o rel)
  IN  IF seen.host = "guest" THEN \E i \in DOMAIN rel : rel[i] \in Split
                             ELSE seen.rest # <<>>

\* mkdir -p for the directories above the link, ln -s for the link: what is
\* there stays.
Link(rel) ==
  [p \in HomePaths |->
     CASE home[p] = "none" /\ p = rel                 -> "link"
       [] home[p] = "none" /\ IsStrictPrefix(p, rel)  -> "dir"
       [] OTHER                                       -> home[p]]

\* link_home, under set -e: no directory is made in a file, and no link
\* where there is one that leads nowhere.
LinkNext ==
  /\ vm = "linking" /\ linked < Len(Inject(mounts))
  /\ LET guest == Inject(mounts)[linked + 1].guest
         rel   == Rel(guest)
     IN  \/ /\ InHome(guest)
            /\ Blocked(rel) \/ (Through(rel) /\ Dangling(rel))
            /\ vm' = "unreachable"
            /\ UNCHANGED <<linked, home>>
         \/ /\ ~ (InHome(guest) /\ Blocked(rel))
            /\ home' = IF InHome(guest) /\ ~ Through(rel) THEN Link(rel) ELSE home
            /\ linked' = linked + 1
            /\ UNCHANGED vm
  /\ UNCHANGED <<mounts, host, colon, shares, todo, table, touched>>

\* The address is printed.
Ready ==
  /\ vm = "linking" /\ linked = Len(Inject(mounts))
  /\ vm' = "running"
  /\ UNCHANGED <<mounts, host, colon, shares, todo, table, linked, home, touched>>

Next ==
  \/ Edit \/ Reset \/ Stop \/ Load \/ Share \/ MountNext
  \/ SetUp \/ LinkNext \/ Ready
  \/ \E h \in Movable : ChangeHost(h)
  \/ \E p \in HomePaths : UseHome(p)

Spec == Init /\ [][Next]_vars

-----------------------------------------------------------------------------
(***************************************************************************)
(* What `vibebox explain' tells: build_mount_rows.                         *)
(***************************************************************************)
Shown(guest) ==
  CASE InHome(guest)     -> Home \o Rel(guest)
    [] IsRelative(guest) -> <<"/", "root">> \o guest
    [] OTHER             -> guest

\* default_mounts.
DefaultRows == {[host |-> Project, guest |-> Home \o <<Project>>, mode |-> "rw"], Head(Own)}

Rows == DefaultRows \cup
        {[mounts[i] EXCEPT !.guest = Shown(@)] : i \in DOMAIN mounts}

-----------------------------------------------------------------------------
(***************************************************************************)
(* Every variable keeps its type, and no mount names a relative or home    *)
(* directory.                                                              *)
(***************************************************************************)
TypeOK ==
  /\ mounts \in Configs
  /\ host \in [Host -> {"dir", "file", "none"}] /\ colon \in BOOLEAN
  /\ vm \in {"off", "refused", "loaded", "failed", "panicked", "sharing",
             "linking", "unreachable", "running"}
  /\ home \in [HomePaths -> {"none", "dir", "file", "link"}] /\ touched \subseteq HomePaths
  /\ linked \in 0 .. MaxMounts + 1
  /\ Len(shares) <= MaxMounts + 3 /\ IsSuffix(todo, shares)
  /\ \A i \in DOMAIN table :
       Head(table[i].guest) = "/" /\ ~ IsPrefix(Home, table[i].guest)
  /\ \A i \in DOMAIN table : \E j \in DOMAIN shares :
       table[i] = [guest |-> shares[j].guest, host |-> shares[j].host]

(***************************************************************************)
(* What explain tells is what the guest sees, the default mounts included: *)
(* unless another row has the same host and another mode; or another row,  *)
(* or the read-only directory of the key, covers the guest path; or a row  *)
(* covers Staging, or a file that every command needs; or the row's host   *)
(* or guest path has a space; or the path is the home directory itself, or *)
(* there is a directory or file there, which a program or the link of a    *)
(* deeper path left, in this run or an earlier one.                        *)
(***************************************************************************)
Mountable(path) == IF IsPrefix(Home, path) THEN Base \o Rel(path) ELSE path

Clear(r) ==
  /\ \A q \in Rows : q.host = r.host => q.mode = r.mode
  /\ \A q \in Rows \ {r} : ~ IsPrefix(Mountable(q.guest), Mountable(r.guest))
  /\ \A dir \in {KeyDir, Staging} : ~ IsPrefix(dir, Mountable(r.guest))
  /\ \A q \in Rows : \A f \in System \cup {Staging} : ~ IsPrefix(Mountable(q.guest), f)
  /\ Typeable(r)
  /\ r.guest # Home
  /\ IsPrefix(Home, r.guest) =>
       /\ home[Rel(r.guest)] \notin {"dir", "file"}
       /\ \A p \in touched : ~ IsPrefix(p, Rel(r.guest))

ExplainTellsTruth ==
  vm = "running" =>
    \A r \in Rows : Clear(r) =>
      See(r.guest) = [host |-> r.host, rest |-> <<>>, mode |-> r.mode]

(***************************************************************************)
(* README.md: "explicit mount allowlists": what the guest can write on the *)
(* host is the tools' cache, the project, and what a spec names read-write.*)
(***************************************************************************)
WritableIsDeclared ==
  \A i \in DOMAIN table :
    Mode(table[i].host) = "rw" =>
      \/ table[i].host \in {Project, "mise"}
      \/ \E j \in DOMAIN mounts : mounts[j].host = table[i].host /\ mounts[j].mode = "rw"

(***************************************************************************)
(* The guest gets its ssh set-up, and vibebox its address, with every      *)
(* vibebox.toml: unless a mount covers the directory of the key or a file  *)
(* that every command needs; or a file that a program left in the home     *)
(* directory is where a link needs a directory; or a link that was made    *)
(* before leads to a path with a space, or to one inside the place of      *)
(* another spec.                                                           *)
(***************************************************************************)
SshIsSetUp ==
  vm = "unreachable" =>
    LET specs    == Inject(mounts)
        place(i) == Mountable(Shown(specs[i].guest))
    IN  \/ \E i \in DOMAIN specs : \E f \in System \cup {KeyDir} : IsPrefix(place(i), f)
        \/ \E i \in DOMAIN specs :
             /\ InHome(specs[i].guest)
             /\ \/ Blocked(Rel(specs[i].guest))
                \/ /\ Through(Rel(specs[i].guest))
                   /\ \/ \E k \in DOMAIN specs[i].guest : specs[i].guest[k] \in Split
                      \/ \E j \in DOMAIN specs : IsStrictPrefix(place(j), place(i))

(***************************************************************************)
(* README.md: "Extra mounts come from `box.mounts` with the format         *)
(* `host:guest[:read-only|read-write]`": a directory mounted read-only     *)
(* cannot be written there.                                                *)
(***************************************************************************)
ReadOnlyIsKept ==
  vm = "running" =>
    \A i \in DOMAIN mounts :
      LET seen == See(Shown(mounts[i].guest))
      IN  /\ mounts[i].mode = "ro"
          /\ \A j \in DOMAIN mounts : (mounts[j].guest = mounts[i].guest => j = i)
          /\ seen.host = mounts[i].host /\ seen.rest = <<>>
          => seen.mode = "ro"

=============================================================================
