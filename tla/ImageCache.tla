----------------------------- MODULE ImageCache -----------------------------
(***************************************************************************)
(* The files a guest is booted from (src/src/vm.rs): the tarball, the base *)
(* image and the provisioned template default.raw in the cache directory   *)
(* that all the projects of a user share, the instance disk of each        *)
(* project.                                                                *)
(*                                                                         *)
(* The manager of a project makes what is missing on its way to booting    *)
(* the guest, and first of all the key pair for ssh (src/src/instance.rs,  *)
(* ensure_ssh_keypair), whose public half the guest is given when it boots.*)
(* Nothing locks the cache: what exists is taken for finished.             *)
(* A curl outlives a manager that is stopped while it downloads.           *)
(* A project has one manager at a time here (module Startup).              *)
(***************************************************************************)
EXTENDS Naturals

CONSTANTS
  Project,      \* the projects of one user
  NoOne,        \* no project
  MaxFaults,    \* bound on the number of faults
  Faults        \* what may go wrong, a subset of AllFaults

\* "fail": ssh-keygen, a download, a provisioning or the making of a disk
\* fails, and says so.  "corrupt": what is downloaded has the right size and is wrong.
\* "kill": a manager is killed, or calls force_exit.  "full": a write fails.
\* "early": the provisioning guest stops before it prints a marker.
\* "remove": `vibebox reset', `vibebox purge-cache', or rm of half a key pair.
AllFaults == {"fail", "corrupt", "kill", "full", "early", "remove"}

ASSUME ProjectAssumption == NoOne \notin Project
ASSUME FaultAssumption == MaxFaults \in Nat /\ Faults \subseteq AllFaults

VARIABLES
  pc,           \* pc[p]: where the manager of p is
  tarball,      \* base_compressed
  orphans,      \* how many curls without a manager write to base_compressed
  base,         \* base_raw
  baseBy,       \* whose tar opened the file at base_raw last
  template,     \* default_raw
  templateBy,   \* whose fs::copy opened the file at default_raw last
  key,          \* key[p]: what there is of ssh_key and ssh_key.pub
  disk,         \* disk[p]: instance_raw
  faultsLeft,   \* how many more faults there can be
  clean         \* history: one manager at a time made images, none was
                \* stopped while it wrote one, no guest stopped early

files == <<base, baseBy, template, templateBy>>
cache == <<tarball, orphans, files>>
own   == <<key, disk>>
vars  == <<pc, cache, own, faultsLeft, clean>>

\* In a "mixed" pair the public key is not that of the private one; in an
\* "empty" one it is cut off, at the first byte or later.
Key      == {"none", "private", "public", "pair", "mixed", "empty"}

\* "short" is a prefix of the right file; in "mixed" two downloads write;
\* "bad" is long enough and not the right file; "tail" is the right file with
\* something behind it.
Tarball  == {"absent", "short", "mixed", "good", "bad", "tail"}
Image    == {"absent", "partial", "good", "wrong"}
\* "bare" is a copy of the good base image that is not provisioned (yet).
Disk     == {"absent", "partial", "broken", "bare", "provisioned"}

\* From the check that finds no default_raw to the end of provisioning.
Making   == {"base", "tarball", "download", "verify", "untar", "untarring",
             "copy", "copying", "provisioning"}
Writing  == {"untarring", "copying", "provisioning", "creating"}
Keying   == {"keys", "oldPrivate", "oldPublic", "keygen", "public", "writing"}
Location == Making \cup Keying
            \cup {"idle", "template", "disk", "creating", "running"}

Init ==
  /\ pc = [p \in Project |-> "idle"]
  /\ tarball = "absent" /\ orphans = 0
  /\ base = "absent" /\ baseBy = NoOne
  /\ template = "absent" /\ templateBy = NoOne
  /\ key = [p \in Project |-> "none"]
  /\ disk = [p \in Project |-> "absent"]
  /\ faultsLeft = MaxFaults
  /\ clean = TRUE

-----------------------------------------------------------------------------
Move(p, from, to) == pc[p] = from /\ pc' = [pc EXCEPT ![p] = to]

NobodyElse(p, locations) == \A q \in Project \ {p} : pc[q] \notin locations

Fault(kind) ==
  /\ kind \in Faults
  /\ faultsLeft > 0 /\ faultsLeft' = faultsLeft - 1

Begin(p) ==
  /\ Move(p, "idle", "keys")
  /\ UNCHANGED <<cache, own, faultsLeft, clean>>

(***************************************************************************)
(* ensure_ssh_keypair.  A kill takes ssh-keygen with it, or ssh-keygen is  *)
(* done before the next start, as if the kill had come later.              *)
(***************************************************************************)
\* Mutant of HasKeys: one of the two is enough.
HasAKey(p) == key[p] # "none"

\* Both files exist, whatever is in them.
HasKeys(p) == key[p] \in {"pair", "mixed", "empty"}

FindKeys(p) ==
  /\ Move(p, "keys", IF HasKeys(p) THEN "template" ELSE "oldPrivate")
  /\ UNCHANGED <<cache, own, faultsLeft, clean>>

KeyBecomes(p, k) == key' = [key EXCEPT ![p] = k]

RemovePrivateKey(p) ==
  /\ Move(p, "oldPrivate", "oldPublic")
  /\ KeyBecomes(p, IF key[p] \in {"none", "private"} THEN "none" ELSE "public")
  /\ UNCHANGED <<cache, disk, faultsLeft, clean>>

RemovePublicKey(p) ==
  /\ Move(p, "oldPublic", "keygen")
  /\ KeyBecomes(p, IF key[p] \in {"none", "public"} THEN "none" ELSE "private")
  /\ UNCHANGED <<cache, disk, faultsLeft, clean>>

\* ssh-keygen does not write over a private key, which it writes first.
Keygen(p) ==
  /\ Move(p, "keygen", IF key[p] \in {"none", "public"} THEN "public" ELSE "idle")
  /\ KeyBecomes(p, CASE key[p] = "none"   -> "private"
                     [] key[p] = "public" -> "mixed"
                     [] OTHER             -> key[p])
  /\ UNCHANGED <<cache, disk, faultsLeft, clean>>

\* ssh_key.pub is made, or truncated, before it is written.
CreatePublic(p) ==
  /\ Move(p, "public", "writing")
  /\ KeyBecomes(p, "empty")
  /\ UNCHANGED <<cache, disk, faultsLeft, clean>>

KeygenEnds(p) ==
  /\ Move(p, "writing", "template")
  /\ KeyBecomes(p, "pair")
  /\ UNCHANGED <<cache, disk, faultsLeft, clean>>

\* ssh-keygen fails, and what it has written stays.
KeygenFails(p) ==
  /\ Fault("fail")
  /\ pc[p] \in {"keygen", "public", "writing"}
  /\ Move(p, pc[p], "idle")
  /\ UNCHANGED <<cache, own, clean>>

(***************************************************************************)
(* ensure_default_image and, under it, ensure_base_image.                  *)
(***************************************************************************)
FindTemplate(p) ==
  /\ Move(p, "template", IF template = "absent" THEN "base" ELSE "disk")
  /\ clean' = (clean /\ NobodyElse(p, Making))
  /\ UNCHANGED <<cache, own, faultsLeft>>

FindBase(p) ==
  /\ Move(p, "base", IF base = "absent" THEN "tarball" ELSE "copy")
  /\ UNCHANGED <<cache, own, faultsLeft, clean>>

\* Mutant of FindTarball: the size is not compared.
FindTarballOfAnySize(p) ==
  /\ Move(p, "tarball", IF tarball = "absent" THEN "download" ELSE "verify")
  /\ tarball' = IF tarball = "absent" THEN "short" ELSE tarball
  /\ UNCHANGED <<orphans, files, own, faultsLeft, clean>>

\* A tarball that is missing or too short is downloaded, or the download
\* resumed: curl appends to what is there.  A curl is taken to open the file
\* before another one is started.
FindTarball(p) ==
  /\ LET short == tarball \in {"absent", "short", "mixed"}
         alone == /\ NobodyElse(p, {"download"}) /\ orphans = 0
                  /\ tarball # "mixed"
     IN  /\ Move(p, "tarball", IF short THEN "download" ELSE "verify")
         /\ tarball' = IF ~ short THEN tarball
                       ELSE IF alone THEN "short" ELSE "mixed"
  /\ UNCHANGED <<orphans, files, own, faultsLeft, clean>>

\* What the tarball can be when a curl that writes to it has succeeded.  Of
\* two curls one may have written all of the file before the other began.
Downloaded ==
  CASE tarball = "short" -> {"good"}
    [] tarball = "mixed" -> {"good", "tail", "bad"}
    [] tarball = "good"  -> {"good", "tail"}
    [] OTHER             -> {tarball}

DownloadOk(p) ==
  /\ Move(p, "download", "verify")
  /\ tarball' \in Downloaded
  /\ UNCHANGED <<orphans, files, own, faultsLeft, clean>>

\* The server has another file, or it was damaged on its way.
DownloadWrong(p) ==
  /\ Fault("corrupt")
  /\ Move(p, "download", "verify")
  /\ tarball' = "bad"
  /\ UNCHANGED <<orphans, files, own, clean>>

\* What two downloads left may be long enough.
DownloadFails(p) ==
  /\ Fault("fail")
  /\ Move(p, "download", "idle")
  /\ tarball' \in {tarball} \cup IF tarball = "mixed" THEN {"bad"} ELSE {}
  /\ UNCHANGED <<orphans, files, own, clean>>

\* A curl without a manager succeeds, fails, or has got something else.
OrphanEnds ==
  /\ orphans > 0 /\ orphans' = orphans - 1
  /\ tarball' \in {tarball} \cup Downloaded
               \cup IF tarball = "short" THEN {"bad"} ELSE {}
  /\ UNCHANGED <<pc, files, own, faultsLeft, clean>>

\* Mutant of Verify: the status of shasum is not looked at.
VerifyInVain(p) ==
  /\ Move(p, "verify", "untar")
  /\ UNCHANGED <<cache, own, faultsLeft, clean>>

\* shasum --check.
Verify(p) ==
  /\ Move(p, "verify", IF tarball = "good" THEN "untar" ELSE "idle")
  /\ UNCHANGED <<cache, own, faultsLeft, clean>>

\* File::create(base_raw), for tar to write to.
UntarStart(p) ==
  /\ Move(p, "untar", "untarring")
  /\ base' = "partial" /\ baseBy' = p
  /\ UNCHANGED <<tarball, orphans, template, templateBy, own, faultsLeft, clean>>

\* The file at the path is whole when the tar that opened it last is done.
\* What is behind the right file may make tar fail once it has written all.
UntarOk(p) ==
  /\ \/ Move(p, "untarring", "copy")
     \/ tarball = "tail" /\ Move(p, "untarring", "idle")
  /\ base' = IF baseBy # p THEN base
             ELSE IF tarball \in {"good", "tail"} THEN "good" ELSE "wrong"
  /\ UNCHANGED <<tarball, orphans, baseBy, template, templateBy, own,
                 faultsLeft, clean>>

\* fs::copy(base_raw, default_raw).
CopyStart(p) ==
  /\ Move(p, "copy", "copying")
  /\ template' = "partial" /\ templateBy' = p
  /\ UNCHANGED <<tarball, orphans, base, baseBy, own, faultsLeft, clean>>

CopyOk(p) ==
  /\ Move(p, "copying", "provisioning")
  /\ template' = IF templateBy # p THEN template
                 ELSE IF base = "good" THEN "bare" ELSE "broken"
  /\ UNCHANGED <<tarball, orphans, base, baseBy, templateBy, own, faultsLeft, clean>>

\* The guest boots from default_raw, runs provision.sh, prints
\* VIBEBOX_PROVISION_OK and powers off.
ProvisionOk(p) ==
  /\ Move(p, "provisioning", "disk")
  /\ template' = IF template = "absent" THEN "absent"
                 ELSE IF template = "bare" /\ templateBy = p
                         /\ NobodyElse(p, {"provisioning"})
                      THEN "provisioned" ELSE "broken"
  /\ UNCHANGED <<tarball, orphans, base, baseBy, templateBy, own, faultsLeft, clean>>

\* Mutant of ProvisionFails: the error is returned before the file is removed.
ProvisionFailsKeepsTemplate(p) ==
  /\ Fault("fail")
  /\ Move(p, "provisioning", "idle")
  /\ UNCHANGED <<cache, own, clean>>

\* The failure marker, a login action that times out, a guest that does not
\* start: default_raw is removed.
ProvisionFails(p) ==
  /\ Fault("fail")
  /\ Move(p, "provisioning", "idle")
  /\ template' = "absent" /\ templateBy' = NoOne
  /\ UNCHANGED <<tarball, orphans, base, baseBy, own, clean>>

\* run_vm_with_io sees a guest that is not running, before it sees that the
\* login actions failed, and returns Ok.
ProvisionStopsEarly(p) ==
  /\ Fault("early")
  /\ Move(p, "provisioning", "disk")
  /\ clean' = FALSE
  /\ UNCHANGED <<cache, own>>

-----------------------------------------------------------------------------
(***************************************************************************)
(* ensure_instance_disk and the guest of the project.                      *)
(***************************************************************************)
DiskExists(p) ==
  /\ disk[p] # "absent"
  /\ Move(p, "disk", IF template = "absent" THEN "idle" ELSE "running")
  /\ UNCHANGED <<cache, own, faultsLeft, clean>>

CreateDisk(p) ==
  /\ disk[p] = "absent"
  /\ IF template = "absent"
       THEN Move(p, "disk", "idle") /\ UNCHANGED disk
       ELSE /\ Move(p, "disk", "creating")
            /\ disk' = [disk EXCEPT ![p] = "partial"]
  /\ UNCHANGED <<cache, key, faultsLeft, clean>>

\* The size in the configuration is less than the template's.
DiskTooSmall(p) ==
  /\ Fault("fail")
  /\ disk[p] = "absent" /\ template # "absent"
  /\ Move(p, "disk", "idle")
  /\ UNCHANGED <<cache, own, clean>>

CopyDisk(p) ==
  /\ Move(p, "creating", "running")
  /\ disk' = [disk EXCEPT ![p] =
                IF template \in {"bare", "provisioned"} THEN template
                                                        ELSE "broken"]
  /\ UNCHANGED <<cache, key, faultsLeft, clean>>

\* The guest stops, and with it the manager.
GuestEnds(p) ==
  /\ Move(p, "running", "idle")
  /\ UNCHANGED <<cache, own, faultsLeft, clean>>

Step(p) ==
  \/ FindKeys(p) \/ RemovePrivateKey(p) \/ RemovePublicKey(p) \/ Keygen(p)
  \/ CreatePublic(p) \/ KeygenEnds(p)
  \/ FindTemplate(p) \/ FindBase(p) \/ FindTarball(p) \/ DownloadOk(p)
  \/ Verify(p) \/ UntarStart(p) \/ UntarOk(p) \/ CopyStart(p) \/ CopyOk(p)
  \/ ProvisionOk(p) \/ DiskExists(p) \/ CreateDisk(p) \/ CopyDisk(p)

-----------------------------------------------------------------------------
\* tar or a copy fails, and what was written stays.
WriteFails(p) ==
  /\ Fault("full")
  /\ pc[p] \in {"untarring", "copying", "creating"}
  /\ Move(p, pc[p], "idle")
  /\ clean' = FALSE
  /\ UNCHANGED <<cache, own>>

\* The manager goes at once; its curl goes on.  (So does its tar, but the
\* next start need not wait for it, and that ends a clean history.)
Kill(p) ==
  /\ Fault("kill")
  /\ pc[p] \notin {"idle", "running"}
  /\ Move(p, pc[p], "idle")
  /\ orphans' = IF pc[p] = "download" /\ tarball # "absent"
                THEN orphans + 1 ELSE orphans
  /\ clean' = (clean /\ pc[p] \notin Writing)
  /\ UNCHANGED <<tarball, files, own>>

\* `vibebox reset' of a project whose manager does not run.
ResetProject(p) ==
  /\ Fault("remove")
  /\ pc[p] = "idle"
  /\ disk' = [disk EXCEPT ![p] = "absent"]
  /\ KeyBecomes(p, "none")
  /\ UNCHANGED <<pc, cache, clean>>

\* The user removes one half of the pair.
LoseKey(p) ==
  /\ Fault("remove")
  /\ pc[p] = "idle" /\ key[p] \in {"pair", "empty"}
  /\ KeyBecomes(p, "private") \/ KeyBecomes(p, "public")
  /\ UNCHANGED <<pc, cache, disk, clean>>

\* A curl that goes on writes to a file that has no name any more.
PurgeCache ==
  /\ Fault("remove")
  /\ tarball' = "absent" /\ orphans' = 0
  /\ base' = "absent" /\ baseBy' = NoOne
  /\ template' = "absent" /\ templateBy' = NoOne
  /\ clean' = (clean /\ \A p \in Project : pc[p] \in {"idle", "running"})
  /\ UNCHANGED <<pc, own>>

Next ==
  \/ \E p \in Project :
       \/ Begin(p) \/ Step(p) \/ GuestEnds(p)
       \/ KeygenFails(p) \/ LoseKey(p)
       \/ DownloadFails(p) \/ DownloadWrong(p) \/ DiskTooSmall(p)
       \/ ProvisionFails(p) \/ ProvisionStopsEarly(p)
       \/ WriteFails(p) \/ Kill(p) \/ ResetProject(p)
  \/ OrphanEnds \/ PurgeCache

Spec == Init /\ [][Next]_vars

\* What is not stopped by a fault goes on.
FairSpec == Spec /\ \A p \in Project : WF_vars(Step(p))

-----------------------------------------------------------------------------
(***************************************************************************)
(* Every variable keeps its type.                                          *)
(***************************************************************************)
TypeOK ==
  /\ pc \in [Project -> Location]
  /\ tarball \in Tarball /\ orphans \in Nat
  /\ base \in Image
  /\ baseBy \in Project \cup {NoOne}
  /\ template \in Disk
  /\ templateBy \in Project \cup {NoOne}
  /\ key \in [Project -> Key]
  /\ disk \in [Project -> Disk]
  /\ faultsLeft \in 0 .. MaxFaults
  /\ clean \in BOOLEAN

(***************************************************************************)
(* docs/old_features.md: "Decompresses the base image and provisions it    *)
(* once, saving as a default template": a project boots from a copy of a   *)
(* provisioned template.                                                   *)
(***************************************************************************)
BootsProvisioned ==
  \A p \in Project : pc[p] = "running" => disk[p] = "provisioned"

(***************************************************************************)
(* That holds as long as the history is clean, whatever downloads and      *)
(* provisionings fail, whatever is downloaded, whoever is killed in a      *)
(* download or between two writes, so that curls without a manager go on   *)
(* writing to the tarball, and whatever is removed while nothing is made.  *)
(***************************************************************************)
CleanBootsProvisioned == clean => BootsProvisioned

(***************************************************************************)
(* The guest is never given the public key of another pair than the one    *)
(* that the vibeboxes of its project use, and never boots without a key,   *)
(* whatever of the two files was lost and wherever their making was        *)
(* stopped.  The one exception is a ssh_key.pub that ssh-keygen was        *)
(* stopped, or failed, while it wrote: ensure_ssh_keypair looks at its     *)
(* existence only, and the guest is given what there is of it.             *)
(***************************************************************************)
BootsWithKeyPair ==
  \A p \in Project : pc[p] = "running" => key[p] \in {"pair", "empty"}

(***************************************************************************)
(* Why: with a clean history an image that exists is finished, or is being *)
(* written by the one manager that makes images.                           *)
(***************************************************************************)
OneMaker ==
  \A p, q \in Project : pc[p] \in Making /\ pc[q] \in Making => p = q

\* tar reads a tarball that was verified; a curl without a manager has at
\* most appended to it since.
TarballSound ==
  \A p \in Project : pc[p] \in {"untar", "untarring"} => tarball \in {"good", "tail"}

BaseSound ==
  /\ base # "wrong"
  /\ base = "partial" => \E p \in Project : pc[p] = "untarring"
  /\ \A p \in Project :
       pc[p] \in {"tarball", "download", "verify", "untar"} => base = "absent"
  /\ \A p \in Project : pc[p] = "untarring" => baseBy = p
  /\ \A p \in Project : pc[p] \in {"copy", "copying"} => base = "good"

TemplateSound ==
  /\ template # "broken"
  /\ template = "partial" => \E p \in Project : pc[p] = "copying"
  /\ template = "bare" => \E p \in Project : pc[p] = "provisioning"
  /\ \A p \in Project :
       /\ pc[p] \in Making \ {"copying", "provisioning"} => template = "absent"
       /\ pc[p] = "copying" => template = "partial" /\ templateBy = p
       /\ pc[p] = "provisioning" => template = "bare" /\ templateBy = p
       /\ pc[p] \in {"disk", "creating"} => template = "provisioned"

DiskSound ==
  \A p \in Project :
    /\ disk[p] \in {"absent", "partial", "provisioned"}
    /\ disk[p] = "partial" => pc[p] = "creating"
    /\ pc[p] = "running" => disk[p] = "provisioned"

CleanInv ==
  clean => OneMaker /\ TarballSound /\ BaseSound /\ TemplateSound /\ DiskSound

(***************************************************************************)
(* The inductive invariant of the images: types, and with a clean history  *)
(* one maker at a time and every image at its path finished or in its hands. *)
(***************************************************************************)
ImageInv == TypeOK /\ CleanInv

(***************************************************************************)
(* A failure that was reported is repaired by trying again: once faults    *)
(* are over, a project that is started with a clean history boots, unless  *)
(* another one comes in its way.  The one exception is a tarball that is   *)
(* long enough and fails verification, which a wrong download or a second  *)
(* curl leaves: it is never downloaded again.                              *)
(***************************************************************************)
RetryBoots ==
  \A p \in Project :
    (pc[p] = "keys" /\ faultsLeft = 0 /\ clean)
      ~> (pc[p] = "running" \/ ~ clean \/ tarball \in {"bad", "tail"})

=============================================================================
