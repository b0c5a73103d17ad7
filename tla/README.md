# vibebox: verification project

TLA+ models of vibebox, a command that gives a project directory a micro-VM on
macOS. `src/` below is the root of the repository, so the crate is in
`src/src/`.

- [1. The system](#1-the-system)
- [2. Modules](#2-modules)
- [3. Runs](#3-runs)
- [4. Fairness](#4-fairness)
- [5. Proofs](#5-proofs)
- [6. Where the code and its documents disagree](#6-where-the-code-and-its-documents-disagree)
- [7. What is not modelled](#7-what-is-not-modelled)
- [8. Plan](#8-plan)

## 1. The system

A user runs `vibebox` in a project directory. It finds or spawns the project's
*manager* (the binary `vibebox-supervisor`), keeps a Unix socket connected to it
for as long as the session lasts, and runs `ssh` into the guest. The manager owns
the VM. It counts the connections, and a while after the last one is gone it shuts
the guest down and ends. Everything else that is shared is a file: in `.vibebox`
of the project (`vm.lock`, `vm.pid`, `vm.sock`, `status.txt`, `instance.toml`, the
instance disk, the ssh keys), in `~/.cache/vibebox` (tarball, base image,
provisioned template, shared by all projects) and in `~/.vibebox/sessions`.

### Components

| Component | Code | State | Operations | Interacts with |
|---|---|---|---|---|
| VM manager | `vm_manager.rs` `run_manager_with`, `manager_event_loop` | `ref_count`, `shutdown_deadline`, `shutdown_sent`, `hard_deadline`, the event channel, one thread per connection, the console's sender | accept, read pid line, Inc, Dec, VmExited, deadlines, poweroff, `force_exit`, join, unlink | vibeboxes by socket; VM execution by `vm_input_tx` |
| Manager start-up and spawn lock | `vm_manager.rs` `ensure_manager`, `run_manager`, `PidFileGuard`; `vm.rs` `ensure_signed` | `vm.lock`, `vm.pid`, `vm.sock`, the binary's signature | clean up a stale pid, fast connect, take, wait for and release the lock, spawn, pid file, sign and re-exec, probe, bind | every vibebox and manager of the project, and `vibebox list` anywhere, by files |
| Image cache and disks | `vm.rs` `ensure_base_image`, `ensure_default_image`, `ensure_instance_disk` | tarball, base image, template, instance disk, ssh key pair | make the key pair, download, resume, verify, unpack, copy, provision, create | managers of all projects, by files; VM execution for provisioning |
| VM execution and console | `vm.rs` `run_vm_with_io`, `spawn_vm_io_with_hooks`, `spawn_login_actions_thread`, `OutputMonitor` | guest state, output buffer, login results, pipes | start, expect, send, output hooks, stop, join | manager, images, attach |
| Session attach | `instance.rs` `run_with_ssh`, `wait_for_vm_ipv4`; `vm_manager.rs` `on_output` | `status.txt`, `vm_ipv4` in `instance.toml` | publish status and address, wait, read and remove an error, ssh | manager and vibeboxes, by files |
| Instance configuration | `instance.rs` `load_or_create_*`, `touch_last_active`, `write_instance_config` | `instance.toml` | read, create, rewrite whole | vibeboxes, supervisor, output thread |
| Global session index | `session_manager.rs` | one record file per project | update, list, prune, clean | all vibeboxes; instance configuration, which it reads |
| Configuration | `config.rs` | none | parse, defaults, validate | all |
| Mounts and explain | `config.rs`, `vm_manager.rs`, `vm.rs`, `ssh.sh`, `explain.rs` | shares of the machine, mounts and links of the guest | validate, inject, rewrite, share, mount, link, tell | VM execution |
| Command line | `bin/vibebox.rs`, `bin/vibebox-supervisor.rs` | none | dispatch | all |
| In-session commands, TUI | `commands.rs`, `tui.rs` | screen | draw, dispatch by name | session |
| Guest scripts | `provision.sh`, `ssh.sh`, `resize_disk.sh` | the guest's distribution | run once | VM execution |

### What is hard, and what makes each part correct

*Manager.* A handler thread per connection races with the timers of the loop. The
count must be exact whatever the order in which the handlers send, since a wrong
count is wrong for the life of the VM; a connection made at any moment of a
shutdown must call off all of it; the guest may not obey, and the process must
still end; the main thread waits for the loop, the loop for one event.

*Start-up.* There is no lock that the kernel keeps: `vm.lock` is judged by its
content, and lock, pid file and socket are each tested and changed in separate
steps by several processes that may die between any two. At most one manager may
run a VM on the instance disk, a lock must not outlive its owner's interest, and
whatever a crash leaves must not prevent the next start.

*Images.* Existence is taken for completeness, the files are made in place over
minutes, and all projects share the cache without a lock. A project must boot from
a copy of a provisioned template; a failure that is reported must be curable by
running again.

*VM execution.* The login thread waits for markers in the output while the guest
may stop; the main loop polls guest and login results in a fixed order; console
threads block on pipes and have to be joined.

*Attach and the instance configuration.* `instance.toml` is truncated and written in
place, and read and rewritten whole by vibeboxes, supervisors and managers. An
address in it may be that of an earlier boot; an error status is consumed by the
first vibebox that reads it; a vibebox may connect to a manager that is ending.
Everybody must agree on one session, and nobody may wait beside a guest that runs.

*Session index.* One directory of records, rewritten by every command on the
machine. Records are replaced atomically, but through temporary files that every
scan takes for records. Records must be whole, scans must find what stays, and a
command that nobody disturbs must work.

*Mounts.* A spec is parsed, validated, rewritten, shared, mounted and linked by
five pieces of code in two languages, and told a sixth way by `explain`; a guest's
disk keeps directories and links over boots. Told and made must agree, and nothing
may be writable that was not declared so.

`PROJECT.json` lists each hazard at its line, with the properties that cover it.

## 2. Modules

    VmLease        abstract: a guest leased to a set of holders
       ^  refinement (ImplementsLease)
    VmManager      one manager: threads, channel, deadlines, guest
    VmManagerProofs

    Startup        vibeboxes and managers of one project over three files
    StartupProofs
    ImageCache     managers of several projects over images, disks and keys
    ImageCacheProofs

    Attach         vibeboxes and managers over instance.toml and status.txt
    AttachProofs
    SessionIndex   commands of the whole machine over ~/.vibebox/sessions
    SessionIndexProofs
    VmIo           one run of a guest: main, login and console threads
    VmIoProofs
    Mounts         from box.mounts to what the guest sees, and what is told
    MountsProofs

Each module has an `MC` module of its own that TLC runs. The models meet at named
points.

- `Startup!Bind` is where a manager enters `VmManager!Init`; `Startup!VmEnds` stands
  for all of `VmManager` from there to the return of the join, and
  `Startup!ManagerDies` covers `proc = "forced"`.
- `VmManager`'s guest is "preparing" while the same manager is anywhere in
  `ImageCache` before "running"; `ImageCache!Kill` is what `force_exit` does to it
  there. `ImageCache` begins with the key pair, as `run_manager_with` does.
- `VmIo` is one call of `run_vm_with_io`. Its return is `VmManager!RunVmReturns`, a
  stop of its guest is `MuxEnds` there, and `SendPoweroff` is the line typed by the
  event loop. With `job = "provision"` its results are the outcomes of provisioning
  in `ImageCache`; of the lines typed for that job `Actions` has the script, and not
  the lines that mount the tools' cache before it.
- `Attach` reduces the start-up to one step, `StartManager`, taken when nobody
  listens, with `clean` noting when two managers start together. Its `Dies`,
  `RunVmReturns` and `ReportError` are the ends that `Startup` and `VmManager` allow.
- `SessionIndex!NewSession` is `Attach!Create`, `SessionIndex!Garble` is what two
  writes in `Attach` leave. `SessionIndex` models the records that `list` and `reset`
  change; what these two do to `vm.pid` and the other files of `.vibebox` is in
  `Startup`.
- `Startup!AcceptFails` is `VmManager!AcceptError`, seen by those who start beside it.
- `Mounts` is what one start of the machine does between `VmManager!Init` and a guest
  that `Attach` can reach: one whose ssh.sh does not get to its end is "unreachable".

### VmManager

One action is one step of one thread that another thread can observe.

| Model | Code |
|---|---|
| `client[c]`, `Connect`, `Leave` | a vibebox's stream (`ensure_manager`, `run_with_ssh`), or the probe of a second manager |
| `accepting`, `Accept`, `AcceptError` | the accept thread; an error returned by `accept` ends it and drops the listener |
| `handler[c]`, `SendInc`, `SendDec` | the thread of a connection: `read_client_pid`, then `Inc`, `wait_for_disconnect`, then `Dec` |
| `events` | the mpsc channel; when the loop ends the receiver is dropped and sends are lost |
| `LoopInc`, `LoopDec`, `LoopVmExited`, `LoopTimeout` | the arms of `manager_event_loop`, one iteration each |
| `shutdownIn`, `hardIn`, `Tick`, `CountDown` | the two deadlines as countdowns, with the saturating wait |
| `vm`, `console`, `typed` | the guest, the sender in `vm_input_tx`, a poweroff line that the guest has not consumed |
| `main`, `proc`, `sockFile` | the rest of `run_manager_with`: return of `run_vm`, `VmExited`, join, unlink, exit |
| `idle` | history: for how long `ref_count` has been 0, capped at `Grace + HardTimeout` |

A deadline is a number of ticks left. Any finite number of other steps can be
taken between two ticks, and `Tick` does not wait for the loop: a loop that is
scheduled late is a behaviour in which `Tick` is taken at 0 a few more times.
`LoopTimeout` needs an empty channel since `recv_timeout` looks at the channel
before it looks at the clock. What `recv_timeout` does when nothing is due has no
effect and is not an action.

### Startup

A file is the value at its path: nothing, or who created it and whether the pid
has been written to it. A process that has opened a file writes to the file it
opened, which need not be at the path any more (`WriteLock`, `WritePid`). Each
action makes at most one operation on one file. `Faults` says which of the
following can happen, and each run chooses: death of a vibebox or a manager
anywhere, an error of a manager before the socket, an error of accept, the gap
between creating and writing the lock, the 10 s timeout, an unsigned binary installed
anew, `vibebox reset`, `vibebox list` (which looks at `vm.pid` and removes it in a
second step), and the reuse of a dead process's pid by a stranger. `MaxStops` bounds
deaths, failures, timeouts, ends of a VM, reinstallations, resets and reuses
together; the scheduler, lists and the lock gap are not counted.

Two things live on after their process or thread. A manager that ends under the
vibebox that spawned it is never waited for: it is a `Zombie`, whose pid counts as
alive until that vibebox ends. A manager whose accept has failed is `deaf`: it runs
its VM, its socket file is there, and nobody can connect. The history variable
`serial` says that every vibebox that took the lock found nobody with it, no manager
between spawn and socket and no deaf one, that no accept failed beside somebody
starting, and that no reset was made under a live manager.

### ImageCache

Contents are abstracted to what the code's checks and the properties tell apart:
a tarball is too short, right, of the right size but wrong, right with something
behind it, or written by two downloads; an image is partly there, whole, or whole and
wrong; a disk is a copy that is bare, provisioned or broken; a key is private, public,
both, both of which the public one is cut off, or neither. ssh-keygen writes the
private key, makes `ssh_key.pub` and writes it in three steps, and can fail before or
between any of them. `orphans` counts the curls whose manager was killed: each goes
on writing to the tarball, beside the next start's, until it ends one way or another
(`OrphanEnds`).
`base`/`baseBy` and `template`/`templateBy` are a path and the process that last
opened it for writing, so that the end of a writer that lost the path does not
complete the file of another. The history variable `clean` says that one project at
a time made images, no writer was stopped in the middle of a file, and no
provisioning guest stopped before its marker.

### Attach

A process is where it is (`at`), the file operation it is about to make there
(`io`), and what it holds. A rewrite of `instance.toml` is `Load`, `Truncate`,
`Write`, and each of `touch_last_active`, `load_or_create_instance_config` and the
output hook is a sequence of them at its own `at`; what follows is `Loaded`, `Stored`
or `Refused`. `Create` is the load of a file that is absent or empty: an empty file
parses, and gets a new id and a new password. `Overwrite` is a write over what
another wrote since the truncation: the new content, or a mixture that does not
parse. Of `status.txt` only "error" and "no error" are told apart.

The history variable `clean` says that no load met a file between truncation and
data, no process died there, no write undid a value written since its own read, and
no two managers started together. Behaviours are not followed past the first such
disturbance (first conjunct of `Next`), since what holds after it is little: section
6 lists what the model shows at that point.

### SessionIndex

The index is a function from the names that exist to contents; a temporary file is
a name like any other. A command is a record in `proc`: a scan that sees the names
that were there when it was opened, and a read, a removal, a write or a rename at a
time. `alone` says that no other command ran and no event happened since the command
began, and that no temporary file was there; `owed` is the set of records valid all
the time since it began and not yet found; `tidy` excludes what takes a session away
without a complete reset.

### VmIo

Text is reduced to what the waits tell apart: the output to four markers, the input
to lines, of which a script takes two units of the pipe. `monitor` is
`OutputMonitor.buffer`, `FirstOf` its `find_any`, `Consume` the drain. `wakeup` is a
byte that nobody takes out of the pipe, which is why it wakes both readers. `astray`
records that a command was read by something that is not a shell, `early` that a
failure was reported while the guest was running.

### Mounts

A path is a sequence of names, of any depth. `Inject`, `Rewrite` and `Shares` are
`inject_project_mount`, `rewrite_mount_spec` and the directory shares of
`vm_manager.rs` and `vm.rs`; `Mode` is the mode a share has in the machine, where
`setObject_forKey` keeps the last one of a tag. `Resolve` and `See` are the kernel's:
the latest mount at or above a path decides. `Rows` is `build_mount_rows` of
`explain.rs`, a second and independent translation of the same specs, compared with
what the guest sees.

`MountNext` is the two lines typed for a share, `mkdir -p` and `mount --bind`, whose
failures nobody notices. They fail when the shell takes the tag or the guest path
apart (`Typeable`; `Split` is the set of names with a space), when an earlier mount is
over `/mnt/shared` (`Staging`), and they may fail when a mount is over something the
commands need (`Hidden`) or the place is inside a mounted directory, where there may
be a file, or nothing can be made. `LinkNext` is one call of `link_home`, under
`set -e`: it ends the script when a directory is to be made in a file (`Blocked`), and
when there is a link at the target or above it that leads nowhere (`Dangling`), since
`[ ! -e ]` is true of it and `ln -s` fails. The guest's home directory outlives boots;
`touched` records what programs in the guest have changed there since the set-up.

### Mutants

Some definitions are preceded by one or several variants, commented "Mutant of".
They are not used by the specification. Each is the definition with one plausible
mistake; put in its place it makes the property that `PROJECT.json` pairs it with
fail, which shows that the property depends on that piece of the code.

## 3. Runs

| Run | Question | Result | Distinct states |
|---|---|---|---|
| `Manager` | is the count exact, are the deadlines honoured, does the manager implement the lease, and does it end when everybody has left or the guest has stopped | holds | 276 000 |
| `ManagerRecallsPoweroff` | does the guest stop on the manager's request only with a count of 0 (as documented) | violated | |
| `Startup` | do managers that start one after the other share one VM; is a lock ever forgotten; does a vibebox that is alone get connected, whatever is left | holds | 663 000 |
| `StartupLockRace` | is one VM guaranteed by the lock when two vibeboxes start together | violated | |
| `ImageCache` | are images sound with a clean history; is the key in the guest the one that is used; does trying again help | holds | 453 000 |
| `ImageCacheShared` | do two first starts of two projects boot provisioned disks | violated | |
| `Attach` | does everybody agree on the session; is an address used, kept and found; does an error end a wait | holds | 316 000 |
| `SessionIndex` | are records whole, scans complete, failures and doubles explained by a disturbance | holds | 849 000 |
| `SessionIndexDeleted` | does a list drop the session of a `.vibebox` that was deleted (as documented) | violated | |
| `VmIo` | do commands reach a shell, is an early failure heard, does the run of a guest return | holds | 34 000 |
| `Mounts` | does `explain` tell the truth; is only what was declared writable; does the guest get its ssh set-up | holds | 1 216 000 |
| `MountsReadOnly` | is a directory mounted read-only read-only there (as documented) | violated | |

Bounds, and why they suffice.

- `Manager`: three connections, each made once, so that one can arrive while another
  leaves and a third is in the backlog. `Grace = HardTimeout = 2` and `Retry = 1` are
  the smallest values at which a countdown can be set, partly elapsed, reset and
  elapsed, and at which a retry lies inside the hard timeout. No symmetry, since
  liveness is checked. The theorems remove these bounds.
- `Startup`: two vibeboxes with a manager each, and three stops of any kind: a
  predecessor and its manager that both died, and a third fault while the survivor
  recovers. The theorems give the invariants for any number of both; with three
  vibeboxes a lock can be removed that belongs neither to its remover nor to its last
  observer, which only the theorems cover.
- `ImageCache`: two projects, two faults of any kind, so that a failure can follow a
  failure, or a purge a kill.
- `Attach`: two vibeboxes and two managers, one boot after another, the smallest
  composition in which an address, an error or a final touch is a predecessor's; one
  crash anywhere. `MaxIds = 1`: a second identity is all that `OneIdentity` needs.
  `SshRetries = 2`: one attempt is repeated.
- `SessionIndex`: two slots for commands, filled any number of times, two projects,
  two ids, two temporary names, and one event or crash. A scan is raced by a writer
  of another project and of its own. Commands, projects, ids and names are
  interchangeable (symmetry; safety only).
- `VmIo`: two poweroff lines, so that one can arrive before the login and one between
  its lines; a pipe of two units, so that it fills.
- `Mounts`: at most two specs out of fourteen and a malformed one, edited between
  boots: two are enough for one to cover, double or contradict another, or the
  project or a default. There is one of each kind: the home directory itself and
  above it, one and two names deep in it, written with and without the tilde, with a
  space in the host's name and in the guest's, the project elsewhere and its place
  taken, relative, over and below the key's directory, over and below the staging
  directory. `Home` is in `System` beside `/usr/bin`, so that a mount at `/home` hides
  something ssh.sh needs; what is at only one host path comes and goes (`Movable`).
- The violated runs have the smallest instance and only the fault that each names:
  the counterexample is then due to that alone.

`CHECK_DEADLOCK FALSE` is set where processes end (`Manager*`, `Startup*`, `Attach`,
`VmIo`) and in `SessionIndex*`, where the bounds end the supply of ids and temporary
names. `ImageCache*` and `Mounts*` never stop and are checked for deadlock.

## 4. Fairness

Weak fairness of each thread of a live process, which the operating system's
scheduler gives, and of time. None is assumed of what the program does not control:
that a vibebox leaves or starts, that a guest starts, obeys, or stops, that a VM
ends, or that anything fails.

- `VmManager!FairSpec`: each handler (its accept and reads included), the loop, the
  main thread and `Tick`. The main thread's `RunVmReturns` is fair because what it
  joins is bounded: the login actions by their timeouts (120 s, or 900 s
  provisioning), the console threads by the wake-up and by the guest reading its
  pipe. `VmIo!RunReturns`, on its instance, shows that this is so, and where it is
  not: `Stuck`, when the thread that types is in a write to a full pipe of a guest
  that has stopped. Our process holds the other end of that pipe as well, so the
  write need never fail. `VmManager`'s liveness is of managers to which this does not
  happen; the others end by `force_exit` once the count has been 0 long enough.
- `VmIo!Fairness`: main thread, login thread (its timeouts included), the three
  console threads. Not the guest, the event loop or an error of a write.
- `Startup!FairSpec`: the steps of each vibebox and of each manager. A socket that
  can be connected to is found by a loop that tries every 100 ms.
- `ImageCache!FairSpec`: the steps of each project's manager. A download that goes
  on for ever, which curl allows, is not covered by `RetryBoots`.
- `Attach!FairSpec`: the steps of each vibebox only; that 480 s pass or that the user
  leaves is not needed.
- `SessionIndex` and `Mounts` state safety only.

## 5. Proofs

Checked by tlapm for every value of the constants that satisfies the assumptions.

**VmManagerProofs** (assuming `Conn` finite, delays positive naturals). The count
alone is not inductive: that `LoopDec` does not saturate, and that the event taken is
that of a counted connection, depends on what is in the channel. `IInv` adds

- `ChannelInv`: before a handler has sent an event the channel does not hold it, no
  Inc or Dec is in the channel twice, an Inc that is still there precedes the Dec of
  the same connection, and a loop that ended left nothing in the channel;
- `RefCountExact`: `refCount` is the cardinality of `Counted`, the connections whose
  Inc was received and whose Dec was not;
- `DeadlineInv`: a deadline that is set implies a count of 0 and, added to the idle
  time, reaches the grace period (for `hardIn`, grace period plus hard timeout). It
  is what makes a retry harmless: it leaves a hard deadline that is set alone.

The proof shows which steps leave the channel and the count alone (`Bystanders`),
what `Append` and `Tail` do to an ordered channel, and how each event moves
`Counted` (`CountedChanges`). Theorems: `TypeCorrect`, `Inductive`,
`RefCountCorrect`, `GraceRespected`, `ForcedExitJustified` and `Refinement` (every
step of the manager is a step of `VmLease` or a stutter).

**StartupProofs** (assuming `Client` finite, `NoFile` no pid file, `MaxStops` a
natural, any set of faults). `NoLockForgotten` follows from `LockIsHeld`: a lock at
the path whose creator is alive is one its creator still holds. One VM for serial
starts is not inductive either: a manager about to bind must know that nobody has the
path, and that nobody else is on the way. `SerialInv` adds

- `LockersHold`: between the creation of the lock and the spawn the vibebox holds it;
- `OneStarter`: at most one vibebox or manager is between lock and socket;
- `OwnersHaveSock`: a manager with a VM, or one that has yet to remove its socket,
  has the socket, which is why its final removal takes nobody else's;
- `OwnersListen`: while somebody starts, no such owner is deaf, so that the probe of
  a socket that is owned is answered;
- `PathIsFree`: when a manager that found nobody at the socket is about to remove it
  or to bind, there is no such owner.

`ClientSerial`, `ManagerSerial` and `AcceptSerial` show that vibeboxes leave managers
and socket alone but for the one they spawn, and what each step of a manager does.
Neither `vm.pid` nor pid reuse nor zombies enter the argument: a removed pid file or a
stranger cannot give two VMs as long as starts are serial. Deaf managers do: without
their exclusion from `serial` the removal of a `vm.pid` by `vibebox list` beside one
gives two VMs. Theorems: `StartupTypeCorrect`,
`NoLockForgotten`, `SerialStarts`.

**ImageCacheProofs** (assuming `NoOne \notin Project`; `Project` need not be
finite). `ImageInv` is inductive as it stands: `CleanInv` says, at each location of
the one maker, which files are absent, partial or finished. Without `OneMaker` and
the conjuncts on `baseBy` and `templateBy` the end of an unpacking or a copy would
not be known to complete the file at the path. `TarballSound` bears the orphan curls:
a tarball that was verified can only grow a tail, which tar does not unpack into the
image. `KeySound` says of each location what the two key files can be; it needs no
clean history. Theorems: `ImageTypeCorrect`, `ImagesSound`, `CleanBoots`,
`BootsWithKey`.

**SessionIndexProofs** (assuming the names apart from each other and from the
contents; commands, projects, ids and temporary names finite in number, which the
proof does not use). `RecordsWhole` needs to know what is renamed: `IndexInv` adds

- `RecordsAtHand`: a command that creates, writes or renames has a record;
- `OwnTemps`: no two writers have the same temporary file, even where another command
  has meanwhile removed it from the index;
- `TempsWritten`: at the rename the temporary file holds that record, or is gone.

`NothingWritten` deals at once with all steps that only read or remove; the three
steps of `atomic_write` are lemmas of their own.

The other four invariants speak of a scan under which others write, and of a command
that nobody disturbs. `ScanInv` has three parts:

- `OwedInSight`: what a command owes is a record that is valid now, and while it
  scans its name is still to be read (`Tracked`). A rename into the directory never
  takes a name out of a scan, and a record is removed only by who read it as stale;
- `DoomedOrCurrent`: in a tidy history each record is that of its directory's
  session, or a reset under way is to remove it (`Doomed`);
- `Lone`: an undisturbed command is the only one, finds the names it has yet to read,
  no temporary file but its own, and carries a record that is current (`Fit`).

`BecomeFrame` and `DisturbFrame` say what a step of one command leaves of another and
what `Disturb` and the loss of validity do to it; `OwedStep`, `DoomStep`, `TidyStep`
and `LoneStep` reduce each part to what a step does to the index, and each action has
a lemma that puts them together. Theorems: `IndexTypeCorrect`, `RecordsAreWhole`,
`ScansFindAllKept`, `LoneCommandsWork`, `LoneUpdatesRecord`, `DirectoryHasOneRecord`.

**AttachProofs** (assuming processes finite in number, managers numbered, contents
apart). The three properties hold while `clean`, and then `Undisturbed` does; types
hold always. What each process holds is tied to where it is (`EachFits`), and

- `OneWriter`: while one is between truncation and data the file is empty and nobody
  else is there;
- `AllEarly`, `FreshFirst`: as long as nothing has been written since the beginning
  nobody is past its first load, and only the first to load makes an identity;
- `OneStarter`, `OneOwner`: one manager is on its way to the socket, and none when it
  is taken; who is between bind and unlink is the one at the socket;
- `SameId`, `HeldIsCurrent`: every value that is held or in the file has the same id,
  and one that may yet be written whole has the address that the file should have:
  none before the publication, the owner's after it. This is the part that is not
  seen in the properties: a rewrite of a value read before the publication would undo
  it, and `clean` says that there is none;
- `Connected`, `AddressIsCurrent`: a connection is to a manager that had the socket,
  and an address in a vibebox's hands is that manager's, or the manager is over.

One lemma per action and place. Theorems: `TypeCorrect`, `IdentityIsOne`,
`AddressIsFresh`, `PublishedAddressStays`.

**VmIoProofs** (assuming a pipe of at least one unit, any number of poweroff lines).
That no command is typed at the login prompt needs to know what is on the way in every
queue between the threads: `OnTheWay` says which lines and which texts the pipes, the
channel and `OutputMonitor` can hold before the guest is ready for a shell and after
it, and `login > 3 => Ready` that the login thread gets to the first command only
then. `Room` bounds the channel by what was sent. `Heard` relates a report to the
guest's stop and to the place of the main thread, which is what makes its order of
polls (guest first, then report) lose nothing. Theorems: `TypeCorrect`,
`CommandsFindShell`, `ReportIsHeard`.

**MountsProofs** (assuming the fixed names in `Word`, none of them and no own share of
the machine with a space, and that no file of `System` is inside one of the machine's
own mounts or the project; guest paths are any non-empty sequences). First lemmas
about the operators, for sequences of any length: `PrefixOf`, `PutBelow`, `TakeAway`,
`SuffixOf`, `MaxOfNumbers` (that `Max` of a bounded set exists, by well-founded
induction); `PlacesApart` and `ShownIsMounted`, that `rewrite_mount_spec` and the paths
of `explain` agree on every guest path; `SharesAreRows` and `RowsAreShared`, that the
shares of the machine are the rows that are told, the key apart, also where a spec
takes the project's place; `LastOfHost` and `MountOfPath`, which share and which mount
decide. The invariant has these parts:

- `Config`, `Start`: the configuration's types, and that where the start of the
  machine is decides what `shares`, `todo`, `table` and `linked` hold;
- `Queue`: `todo` is the rest of `shares`; `Table`: every mount is of a share;
- `Mounted`: each share that was gone through is mounted, or below a mount, or lost
  for a cause that can be named (`Lost`): the shell takes it apart, it is below the
  staging directory, or an earlier share covers that or a file of `System`;
- `Linked`: where a link was to be made there is something, or a link above it
  (`Led`), unless a program in the guest has used the place since;
- `SshIsSetUp` itself, since what an unreachable guest found is still there.

What is explained is then seen because of `CoveredPath` (where all shares that cover
a path are one host's at that very path, whichever of their mounts were made, the path
shows it) and `ClearIsMounted`: a clear row has none of the causes of `Lost`. ssh.sh
gets to its end because of `KeyIsSeen` (only a spec can cover the key), `HiddenBySpec`,
and `WhyDangling`: a link that leads nowhere has a name with a space or is inside
the place of another spec.

Theorems: `TypeCorrect`, `ExplainIsTrue`, `OnlyDeclaredIsWritten`, `SshSetUp`.

Every safety property that a passing run checks is stated by a theorem. The inductive
invariants were themselves checked by TLC on the runs' instances before they were
proved. Proving has corrected the models twice. Three definitions
(`SessionIndex!ScanEnds`, `Mounts!Share` and a mutant of `VmIo`) had a CASE whose
guards overlap, which TLC reads from the top and TLA+ does not: their alternatives now
exclude each other, with the same reachable states. And `Mounts` assumed that no spec
names a path below the key's directory, which the code does not ensure; it now allows
it, as every other guest path, and `Clear` names the exception.

Left to TLC: the liveness properties (`AbandonedManagerEnds`,
`StoppedGuestEndsManager`, `LoneClientRecovers`, `RetryBoots`, `WaiterGetsAddress`,
`ErrorEndsAWait`, `RunReturns`), which need fairness and ENABLED, beyond the prover;
and the violated properties, where a counterexample is the result.

## 6. Where the code and its documents disagree

1. `ManagerRecallsPoweroff`. A poweroff once typed cannot be recalled. A connection
   counted afterwards resets the timers, and the guest shuts down under it, while
   `docs/implementations.md` says that a session only shuts down when the reference
   count is 0. The lease is stated of what the manager asks, which it does honour.
2. `StartupLockRace`. `vm.lock` is empty between its creation and the write of the
   pid, and a lock without a pid is stale. Two managers then start together; probe,
   unlink and bind are separate steps, so both can bind and run a VM on the same
   disk. `docs/tasks.md` claims concurrency safety for the lock.
3. `ImageCacheShared`. `default.raw` is made in place, and its existence is taken for
   its completion by every other project.
4. `SessionIndexDeleted`. A record is stale only when its directory has no
   `vibebox.toml`; `docs/implementations.md` says that deleting `.vibebox` is enough.
5. `MountsReadOnly`. The shares of the machine are keyed by a tag made of the host's
   path: of one directory mapped twice, the last mode decides for both.

Seen in the models and outside what their properties promise.

*Manager and start-up.*

- A manager whose vibebox dies between spawning it and connecting is never counted
  and has no deadline: it keeps its VM until somebody connects and leaves.
  `AbandonedManagerEnds` is therefore stated of managers that were connected to.
- One error of `accept` closes the listener for good while the socket file stays.
  Later vibeboxes fail after 10 s for as long as that manager lives. When its `vm.pid`
  has been removed meanwhile (by `list`, or by another manager that ends), a manager
  that is started then finds nobody at the socket, takes it, and runs a second VM:
  `SerialStartsShareOneVm` and `LoneClientRecovers` exclude a start beside such a
  manager.
- A manager that is killed, or calls `force_exit`, under the vibebox that spawned it
  is a zombie until that vibebox ends. Its pid counts as alive, and with the socket it
  left every new manager refuses to start: `PidFileTells` excludes it from
  `LoneClientRecovers`.
- A vibebox that waits behind a lock whose owner dies is not rescued: it waits for
  the socket only and fails after 10 s. `LoneClientRecovers` is of a vibebox that is
  alone.
- The supervisor executes itself again after signing, with its pid already in
  `vm.pid`. With a socket left by a crash it refuses to start because of itself: the
  state "refusedSelf", the exception of `LoneClientRecovers`.
- `reset` does not look whether the manager runs; the directory may then have two
  sessions, and the first to end removes the files of the other. `serial` excludes
  it.
- `vibebox list` removes the `vm.pid` of a manager that wrote it between the look and
  the removal.
- A pid in `vm.lock` or `vm.pid` that a stranger has by now stops every start for as
  long as the stranger lives.

*Images.*

- `force_exit` during a first provisioning, an unpacking that fails, a copy that is
  stopped: each leaves a file that exists, is not finished, and is used from then on.
  These are the cases that `clean` excludes.
- A tarball that is long enough and fails verification is never downloaded again: the
  exception of `RetryBoots`. A manager that is killed in a download leaves one in the
  end: its curl goes on beside the next start's, which appends to the same file.
- A public key that ssh-keygen was stopped, or failed, while it wrote exists, and is
  therefore accepted by every later start: the guest boots with an empty or cut-off
  key, and ssh is refused until `reset` or the removal of a key file. It is the exception of
  `BootsWithKeyPair`.
- Keys that are lost while a guest runs are replaced by a pair that the guest does not
  know until its next boot.

*Attach.* At a disturbance, which `clean` then records:

- a load between truncation and data sees an empty file, generates a new id and a new
  password, and writes them over the address that is about to be published;
- a predecessor's final touch may undo what its successor wrote;
- a second manager clears the address before it probes, and so before it finds out
  that it is not needed;
- a file that two writes left garbled makes every later load fail, the manager's too.

And without one: an "error:" that an ended manager left ends the wait for its
successor; the first of several waiters removes the error, and the others wait for
480 s; a vibebox connected to a manager that is ending may get into the guest of its
successor, which does not count it.

*Session index.* A crash in a write leaves a temporary file that makes every later
scan fail, for all projects. One garbled `instance.toml` makes `list` fail for all
projects. A command may remove or miss another's temporary file, and fail the other's
update.

*Mounts.* A spec can keep a guest from being reached, which `SshIsSetUp` names.

- With `data:~` the first boot works, although the project is under `data` and the
  link `~/project` leads nowhere; on the second boot of the disk `[ ! -e ]` is true of
  that link, `ln -s` fails, and `set -e` ends ssh.sh: no address, and a vibebox that
  waits for 480 s. The same with `more:~/a/b` before `data:~/a`, and with
  `data:~/a:read-only` before `more:~/a/b` on the first boot.
- The mount of a project whose directory has a space in its name is not made, since
  the commands are typed unquoted, and the link to it leads nowhere: the second boot is
  unreachable. So with any guest path in the home directory with a space.
- A mount at `/home`, or over `/usr`, hides what ssh.sh needs; one at `/root` the key.
- A file that a program left where a link needs a directory ends ssh.sh.

And `explain` tells of what is not made, which `Clear` names:

- a mount at `/mnt` hides the staging directory of every later one; nothing can be
  made below `/mnt/shared`; a guest path below `/root/.vibebox`, or below any mount that
  is read-only, is shown, and the failure of `mkdir` is not noticed;
- the link of `~/a/b`, when it is made before that of `~/a`, leaves a directory `~/a`,
  and the mapping to `~/a` is never seen; so does anything that a program in the guest
  has put there;
- `~` alone as a guest path is shown as the home directory, where nothing is mounted;
- `explain` reads the file as it is now, not the one the guest was started with.

A project whose path contains a colon cannot start, unless a spec takes its place. A
host that is a file passes the validation and ends the manager by an assertion.

*Console.* `OutputMonitor.buffer` is drained by waits only: after the login it grows
for the life of the VM.

## 7. What is not modelled

- `VmIo`: the lines that mount the tools' cache in a provisioning run; the parser of
  lines typed at the terminal, `IoControl` and raw mode, which a manager does not use
  since its standard input is not a terminal; the configuration of the virtual machine
  beyond its shares.
- `ImageCache`: the growth of the disk and the resize script (a disk that is too small
  is refused, which is modelled). An `ssh-keygen` is taken to end with its manager, or
  before the next start; a curl to have opened its file before another one starts; of
  a tar that outlives its manager only the partial image counts, which ends a clean
  history.
- `Startup`: a pid that is reused by another vibebox or manager of the same project.
- `VmManager`: the idle wait of `wait_for_disconnect`, the pid text a client sends (it
  is only logged).
- `Mounts`: the empty file systems over `.git` and `.vibebox` in the guest and specs
  with a path inside them; specs whose guest path is a file of the guest's disk; paths
  that are not normalised (`..`, a double slash); special characters of the shell
  other than the space; programs in the guest that change something outside the home
  directory; the network table of `explain`. The tag of a share is its host.
- `SessionIndex`: `last_active`, which `list` only shows; the directories that an
  update returns.
- Configuration: the schema of the numeric fields and the normalisation of an
  overriding path; they keep no state and reject a file once, at the start.
- The terminal interface, tables of commands, argument parsing, wording and logging:
  no state of their own.
- What runs inside the guest beyond the outcome of a script.

## 8. Plan

Done: all modules above, and for each of them the theorems that state its safety
properties.

To come:

1. An abstract specification of what `Attach` promises, one session with one address
   at a time, and of the start-up, one VM per project, refined by `Attach` and
   `Startup` while undisturbed, with the refinement proved from the invariants at hand.
2. Safety lemmas under the liveness properties: which step is always possible where a
   process waits (`LoneClientRecovers`, `RunReturns`), up to ENABLED.
3. The path normalisation of `config.rs`, as a function checked against a reference
   definition over bounded paths.
4. A third vibebox in the run of `Attach`, if a reduction of its state allows.
