-------------------------- MODULE ImageCacheProofs --------------------------
(***************************************************************************)
(* The safety of ImageCache for every number of projects and of faults.    *)
(***************************************************************************)
EXTENDS ImageCache, TLAPS

(***************************************************************************)
(* Type correctness.                                                       *)
(***************************************************************************)
LEMMA InitType == Init => TypeOK
<1> SUFFICES ASSUME Init PROVE TypeOK
  OBVIOUS
<1>1. clean \in BOOLEAN
  BY Zenon DEF Init
<1> QED
  BY <1>1, FaultAssumption
  DEF Init, TypeOK, Location, Making, Tarball, Image, Key, Disk

\* A fault uses up one of the faults that are left.
LEMMA FaultType ==
  ASSUME faultsLeft \in 0 .. MaxFaults, NEW kind, Fault(kind)
  PROVE  faultsLeft' \in 0 .. MaxFaults
  BY FaultAssumption DEF Fault

LEMMA NextType == TypeOK /\ [Next]_vars => TypeOK'
<1> SUFFICES ASSUME TypeOK, [Next]_vars PROVE TypeOK'
  OBVIOUS
<1> USE DEF TypeOK, cache, files, own
<1>loc. /\ Making \subseteq Location
        /\ {"idle", "template", "disk", "creating", "running"}
             \subseteq Location
        /\ {"keys", "oldPrivate", "oldPublic", "keygen", "public", "writing"}
             \subseteq Location
  BY DEF Location, Keying
<1>mk. Making = {"base", "tarball", "download", "verify", "untar", "untarring",
                 "copy", "copying", "provisioning"}
  BY DEF Making
<1>1. ASSUME NEW p \in Project, Step(p) \/ Begin(p) \/ GuestEnds(p)
      PROVE  TypeOK'
  <2>1. CASE Begin(p) \/ GuestEnds(p) \/ FindBase(p) \/ Verify(p)
             \/ DiskExists(p) \/ CreateDisk(p) \/ CopyDisk(p)
    BY <2>1, <1>loc, <1>mk
    DEF Begin, GuestEnds, FindBase, Verify, DiskExists, CreateDisk, CopyDisk,
        Move, Disk
  <2>2. CASE FindTemplate(p)
    <3>1. clean' \in BOOLEAN
      BY <2>2, Zenon DEF FindTemplate
    <3> QED
      BY <2>2, <3>1, <1>loc, <1>mk DEF FindTemplate, Move
  <2>3. CASE FindTarball(p)
    BY <2>3, <1>loc, <1>mk DEF FindTarball, Move, Tarball
  <2>4. CASE DownloadOk(p)
    BY <2>4, <1>loc, <1>mk DEF DownloadOk, Downloaded, Move, Tarball
  <2>5. CASE UntarStart(p) \/ UntarOk(p)
    BY <2>5, <1>loc, <1>mk DEF UntarStart, UntarOk, Move, Image
  <2>6. CASE CopyStart(p) \/ CopyOk(p) \/ ProvisionOk(p)
    BY <2>6, <1>loc, <1>mk DEF CopyStart, CopyOk, ProvisionOk, Move, Disk
  <2>7. CASE FindKeys(p) \/ RemovePrivateKey(p) \/ RemovePublicKey(p)
             \/ Keygen(p) \/ CreatePublic(p) \/ KeygenEnds(p)
    <3>1. UNCHANGED <<cache, disk, faultsLeft, clean>>
      BY <2>7 DEF FindKeys, RemovePrivateKey, RemovePublicKey, Keygen, CreatePublic, KeygenEnds
    <3>2. pc' \in [Project -> Location]
      BY <2>7, <1>loc
      DEF FindKeys, RemovePrivateKey, RemovePublicKey, Keygen, CreatePublic, KeygenEnds, Move
    <3>3. key' \in [Project -> Key]
      BY <2>7
      DEF FindKeys, RemovePrivateKey, RemovePublicKey, Keygen, CreatePublic, KeygenEnds,
          KeyBecomes, Key
    <3> QED
      BY <3>1, <3>2, <3>3
  <2> QED
    BY <1>1, <2>1, <2>2, <2>3, <2>4, <2>5, <2>6, <2>7 DEF Step
<1>2. ASSUME NEW p \in Project,
             KeygenFails(p) \/ DownloadFails(p) \/ DownloadWrong(p)
               \/ DiskTooSmall(p) \/ ProvisionFails(p)
      PROVE  TypeOK'
  BY <1>2, <1>loc, <1>mk, FaultType
  DEF KeygenFails, DownloadFails, DownloadWrong, DiskTooSmall, ProvisionFails,
      Move, Disk, Tarball
<1>3. ASSUME NEW p \in Project, ProvisionStopsEarly(p) \/ WriteFails(p)
      PROVE  TypeOK'
  <2>1. clean' \in BOOLEAN
    BY <1>3, Zenon DEF ProvisionStopsEarly, WriteFails
  <2> QED
    BY <1>3, <2>1, <1>loc, FaultType DEF ProvisionStopsEarly, WriteFails, Move
<1>4. ASSUME NEW p \in Project, Kill(p) PROVE TypeOK'
  <2>1. clean' \in BOOLEAN
    BY <1>4, Zenon DEF Kill
  <2> QED
    BY <1>4, <2>1, <1>loc, FaultType DEF Kill, Move
<1>5. ASSUME NEW p \in Project, ResetProject(p) \/ LoseKey(p) PROVE TypeOK'
  BY <1>5, FaultType DEF ResetProject, LoseKey, KeyBecomes, Key, Disk
<1>6. CASE PurgeCache
  <2>1. clean' \in BOOLEAN
    BY <1>6, Zenon DEF PurgeCache
  <2> QED
    BY <1>6, <2>1, FaultType DEF PurgeCache, Tarball, Image, Disk
<1>7. CASE OrphanEnds
  BY <1>7 DEF OrphanEnds, Downloaded, Tarball
<1>8. CASE UNCHANGED vars
  BY <1>8 DEF vars
<1> QED
  BY <1>1, <1>2, <1>3, <1>4, <1>5, <1>6, <1>7, <1>8 DEF Next

(***************************************************************************)
(* Every variable keeps its type.                                          *)
(***************************************************************************)
THEOREM ImageTypeCorrect == Spec => []TypeOK
  BY InitType, NextType, PTL DEF Spec

-----------------------------------------------------------------------------
(***************************************************************************)
(* A clean history.  Each group of actions writes one file; the manager    *)
(* that writes it is the only one that makes images.                       *)
(***************************************************************************)
LEMMA InitClean == Init => CleanInv
  BY ProjectAssumption
  DEF Init, CleanInv, OneMaker, TarballSound, BaseSound, TemplateSound,
      DiskSound, Making

LEMMA NextClean == TypeOK /\ CleanInv /\ [Next]_vars => CleanInv'
<1> SUFFICES ASSUME TypeOK, CleanInv, [Next]_vars, clean' PROVE CleanInv'
  BY DEF CleanInv
<1> USE DEF Making, cache, files, own
<1>pc. pc \in [Project -> Location] /\ disk \in [Project -> Disk]
  BY DEF TypeOK
<1>mv. ASSUME NEW p \in Project, NEW from, NEW to, Move(p, from, to)
       PROVE  /\ pc[p] = from
              /\ \A q \in Project : pc'[q] = IF q = p THEN to ELSE pc[q]
  BY <1>pc, <1>mv DEF Move
<1>1. ASSUME NEW p \in Project, Begin(p) \/ GuestEnds(p)
      PROVE  CleanInv'
  <2>1. clean
    BY <1>1, Zenon DEF Begin, GuestEnds
  <2>2. OneMaker'
    BY <1>1, <2>1, <1>mv, <1>pc
    DEF Begin, GuestEnds, CleanInv, OneMaker
  <2>3. TarballSound'
    BY <1>1, <2>1, <1>mv, <1>pc
    DEF Begin, GuestEnds, CleanInv, OneMaker, TarballSound
  <2>4. BaseSound'
    BY <1>1, <2>1, <1>mv, <1>pc
    DEF Begin, GuestEnds, CleanInv, OneMaker, BaseSound
  <2>5. TemplateSound'
    BY <1>1, <2>1, <1>mv, <1>pc
    DEF Begin, GuestEnds, CleanInv, OneMaker, TemplateSound
  <2>6. DiskSound'
    BY <1>1, <2>1, <1>mv, <1>pc
    DEF Begin, GuestEnds, CleanInv, DiskSound
  <2> QED
    BY <2>2, <2>3, <2>4, <2>5, <2>6 DEF CleanInv
<1>2. ASSUME NEW p \in Project, FindTemplate(p)
      PROVE  CleanInv'
  <2>1. clean
    BY <1>2, Zenon DEF FindTemplate
  <2>2. NobodyElse(p, Making)
    BY <1>2, Zenon DEF FindTemplate
  <2>3. OneMaker'
    BY <1>2, <2>1, <1>mv, <1>pc, <2>2
    DEF FindTemplate, NobodyElse, CleanInv, OneMaker
  <2>4. TarballSound'
    BY <1>2, <2>1, <1>mv, <1>pc, <2>2
    DEF FindTemplate, NobodyElse, CleanInv, OneMaker, TarballSound
  <2>5. BaseSound'
    BY <1>2, <2>1, <1>mv, <1>pc, <2>2
    DEF FindTemplate, CleanInv, OneMaker, BaseSound
  <2>6. TemplateSound'
    BY <1>2, <2>1, <1>mv, <1>pc, <2>2
    DEF FindTemplate, NobodyElse, CleanInv, OneMaker, TemplateSound, TypeOK,
        Disk
  <2>7. DiskSound'
    BY <1>2, <2>1, <1>mv, <1>pc, <2>2
    DEF FindTemplate, CleanInv, DiskSound
  <2> QED
    BY <2>3, <2>4, <2>5, <2>6, <2>7 DEF CleanInv
<1>3. ASSUME NEW p \in Project, FindBase(p) \/ Verify(p)
      PROVE  CleanInv'
  <2>1. clean
    BY <1>3, Zenon DEF FindBase, Verify
  <2>2. OneMaker'
    BY <1>3, <2>1, <1>mv, <1>pc
    DEF FindBase, Verify, CleanInv, OneMaker
  <2>3. TarballSound'
    BY <1>3, <2>1, <1>mv, <1>pc
    DEF FindBase, Verify, CleanInv, OneMaker, TarballSound
  <2>4. BaseSound'
    BY <1>3, <2>1, <1>mv, <1>pc
    DEF FindBase, Verify, CleanInv, OneMaker, BaseSound, TypeOK, Image
  <2>5. TemplateSound'
    BY <1>3, <2>1, <1>mv, <1>pc
    DEF FindBase, Verify, CleanInv, OneMaker, TemplateSound
  <2>6. DiskSound'
    BY <1>3, <2>1, <1>mv, <1>pc
    DEF FindBase, Verify, CleanInv, DiskSound
  <2> QED
    BY <2>2, <2>3, <2>4, <2>5, <2>6 DEF CleanInv
<1>4. ASSUME NEW p \in Project, FindTarball(p) \/ DownloadOk(p)
      PROVE  CleanInv'
  <2>1. clean
    BY <1>4, Zenon DEF FindTarball, DownloadOk
  <2>2. OneMaker'
    BY <1>4, <2>1, <1>mv, <1>pc
    DEF FindTarball, DownloadOk, NobodyElse, CleanInv, OneMaker
  <2>3. TarballSound'
    BY <1>4, <2>1, <1>mv, <1>pc
    DEF FindTarball, DownloadOk, Downloaded, NobodyElse, CleanInv, OneMaker, TarballSound
  <2>4. BaseSound'
    BY <1>4, <2>1, <1>mv, <1>pc
    DEF FindTarball, DownloadOk, CleanInv, OneMaker, BaseSound
  <2>5. TemplateSound'
    BY <1>4, <2>1, <1>mv, <1>pc
    DEF FindTarball, DownloadOk, NobodyElse, CleanInv, OneMaker, TemplateSound
  <2>6. DiskSound'
    BY <1>4, <2>1, <1>mv, <1>pc
    DEF FindTarball, DownloadOk, CleanInv, DiskSound
  <2> QED
    BY <2>2, <2>3, <2>4, <2>5, <2>6 DEF CleanInv
<1>5. ASSUME NEW p \in Project, UntarStart(p) \/ UntarOk(p)
      PROVE  CleanInv'
  <2>1. clean
    BY <1>5, Zenon DEF UntarStart, UntarOk
  <2>2. OneMaker'
    BY <1>5, <2>1, <1>mv, <1>pc
    DEF UntarStart, UntarOk, CleanInv, OneMaker
  <2>3. TarballSound'
    BY <1>5, <2>1, <1>mv, <1>pc
    DEF UntarStart, UntarOk, CleanInv, OneMaker, TarballSound
  <2>4. BaseSound'
    BY <1>5, <2>1, <1>mv, <1>pc
    DEF UntarStart, UntarOk, CleanInv, OneMaker, BaseSound, TarballSound
  <2>5. TemplateSound'
    BY <1>5, <2>1, <1>mv, <1>pc
    DEF UntarStart, UntarOk, CleanInv, OneMaker, TemplateSound
  <2>6. DiskSound'
    BY <1>5, <2>1, <1>mv, <1>pc
    DEF UntarStart, UntarOk, CleanInv, DiskSound
  <2> QED
    BY <2>2, <2>3, <2>4, <2>5, <2>6 DEF CleanInv
<1>6. ASSUME NEW p \in Project, CopyStart(p) \/ CopyOk(p)
      PROVE  CleanInv'
  <2>1. clean
    BY <1>6, Zenon DEF CopyStart, CopyOk
  <2>2. OneMaker'
    BY <1>6, <2>1, <1>mv, <1>pc
    DEF CopyStart, CopyOk, CleanInv, OneMaker
  <2>3. TarballSound'
    BY <1>6, <2>1, <1>mv, <1>pc
    DEF CopyStart, CopyOk, CleanInv, OneMaker, TarballSound
  <2>4. BaseSound'
    BY <1>6, <2>1, <1>mv, <1>pc
    DEF CopyStart, CopyOk, CleanInv, OneMaker, BaseSound
  <2>5. TemplateSound'
    <3>1. CASE CopyStart(p)
      <4>1. \A q \in Project : pc[q] \notin {"disk", "creating"}
        BY <3>1, <2>1, <1>mv DEF CopyStart, CleanInv, TemplateSound
      <4> QED
        BY <3>1, <4>1, <2>1, <1>mv, <1>pc
        DEF CopyStart, CleanInv, OneMaker, TemplateSound
    <3>2. CASE CopyOk(p)
      <4>1. template' = "bare" /\ templateBy' = p /\ pc[p] = "copying"
        BY <3>2, <2>1, <1>mv DEF CopyOk, CleanInv, BaseSound, TemplateSound
      <4>2. pc'[p] = "provisioning" /\ \A q \in Project \ {p} : pc'[q] = pc[q]
        BY <3>2, <1>mv DEF CopyOk
      <4>3. \A q \in Project \ {p} :
              pc[q] \notin Making /\ pc[q] \notin {"disk", "creating"}
        BY <4>1, <2>1 DEF CleanInv, OneMaker, TemplateSound
      <4> QED
        BY <4>1, <4>2, <4>3 DEF TemplateSound
    <3> QED
      BY <1>6, <3>1, <3>2
  <2>6. DiskSound'
    BY <1>6, <2>1, <1>mv, <1>pc
    DEF CopyStart, CopyOk, CleanInv, DiskSound
  <2> QED
    BY <2>2, <2>3, <2>4, <2>5, <2>6 DEF CleanInv
<1>7. ASSUME NEW p \in Project, ProvisionOk(p)
      PROVE  CleanInv'
  <2>1. clean
    BY <1>7, Zenon DEF ProvisionOk
  <2>2. OneMaker'
    BY <1>7, <2>1, <1>mv, <1>pc
    DEF ProvisionOk, NobodyElse, CleanInv, OneMaker
  <2>3. TarballSound'
    BY <1>7, <2>1, <1>mv, <1>pc
    DEF ProvisionOk, NobodyElse, CleanInv, OneMaker, TarballSound
  <2>4. BaseSound'
    BY <1>7, <2>1, <1>mv, <1>pc
    DEF ProvisionOk, CleanInv, OneMaker, BaseSound
  <2>5. TemplateSound'
    BY <1>7, <2>1, <1>mv, <1>pc
    DEF ProvisionOk, NobodyElse, CleanInv, OneMaker, TemplateSound
  <2>6. DiskSound'
    BY <1>7, <2>1, <1>mv, <1>pc
    DEF ProvisionOk, CleanInv, DiskSound
  <2> QED
    BY <2>2, <2>3, <2>4, <2>5, <2>6 DEF CleanInv
<1>8. ASSUME NEW p \in Project, DiskExists(p) \/ CreateDisk(p) \/ CopyDisk(p)
      PROVE  CleanInv'
  <2>1. clean
    BY <1>8, Zenon DEF DiskExists, CreateDisk, CopyDisk
  <2>2. OneMaker'
    BY <1>8, <2>1, <1>mv, <1>pc
    DEF DiskExists, CreateDisk, CopyDisk, CleanInv, OneMaker
  <2>3. TarballSound'
    BY <1>8, <2>1, <1>mv, <1>pc
    DEF DiskExists, CreateDisk, CopyDisk, CleanInv, OneMaker, TarballSound
  <2>4. BaseSound'
    BY <1>8, <2>1, <1>mv, <1>pc
    DEF DiskExists, CreateDisk, CopyDisk, CleanInv, OneMaker, BaseSound
  <2>5. TemplateSound'
    BY <1>8, <2>1, <1>mv, <1>pc
    DEF DiskExists, CreateDisk, CopyDisk, CleanInv, OneMaker, TemplateSound
  <2>6. DiskSound'
    BY <1>8, <2>1, <1>mv, <1>pc
    DEF DiskExists, CreateDisk, CopyDisk, CleanInv, DiskSound, TemplateSound
  <2> QED
    BY <2>2, <2>3, <2>4, <2>5, <2>6 DEF CleanInv
<1>9. ASSUME NEW p \in Project, KeygenFails(p) \/ DownloadFails(p) \/ DownloadWrong(p)
             \/ DiskTooSmall(p) \/ ProvisionFails(p)
      PROVE  CleanInv'
  <2>1. clean
    BY <1>9, Zenon DEF KeygenFails, DownloadFails, DownloadWrong, DiskTooSmall, ProvisionFails
  <2>2. OneMaker'
    BY <1>9, <2>1, <1>mv, <1>pc
    DEF KeygenFails, DownloadFails, DownloadWrong, DiskTooSmall, ProvisionFails, CleanInv, OneMaker
  <2>3. TarballSound'
    BY <1>9, <2>1, <1>mv, <1>pc
    DEF KeygenFails, DownloadFails, DownloadWrong, DiskTooSmall, ProvisionFails, CleanInv, OneMaker, TarballSound
  <2>4. BaseSound'
    BY <1>9, <2>1, <1>mv, <1>pc
    DEF KeygenFails, DownloadFails, DownloadWrong, DiskTooSmall, ProvisionFails, CleanInv, OneMaker, BaseSound
  <2>5. TemplateSound'
    BY <1>9, <2>1, <1>mv, <1>pc
    DEF KeygenFails, DownloadFails, DownloadWrong, DiskTooSmall, ProvisionFails, CleanInv, OneMaker, TemplateSound
  <2>6. DiskSound'
    BY <1>9, <2>1, <1>mv, <1>pc
    DEF KeygenFails, DownloadFails, DownloadWrong, DiskTooSmall, ProvisionFails, CleanInv, DiskSound
  <2> QED
    BY <2>2, <2>3, <2>4, <2>5, <2>6 DEF CleanInv
<1>10. ASSUME NEW p \in Project, ProvisionStopsEarly(p) \/ WriteFails(p)
      PROVE  CleanInv'
  BY <1>10, Zenon DEF ProvisionStopsEarly, WriteFails
<1> USE DEF OneMaker, TarballSound, BaseSound, TemplateSound, DiskSound
<1>11. ASSUME NEW p \in Project, Kill(p) PROVE CleanInv'
  <2>1. clean /\ pc[p] \notin Writing
    BY <1>11, Zenon DEF Kill
  <2> QED
    BY <1>11, <2>1, <1>pc DEF Kill, Move, CleanInv, Writing
<1>12. ASSUME NEW p \in Project, ResetProject(p) \/ LoseKey(p)
       PROVE  CleanInv'
  BY <1>12, <1>pc DEF ResetProject, LoseKey, CleanInv
<1>13. CASE PurgeCache
  <2>1. clean /\ \A p \in Project : pc[p] \in {"idle", "running"}
    BY <1>13, Zenon DEF PurgeCache
  <2> QED
    BY <1>13, <2>1, <1>pc DEF PurgeCache, CleanInv
<1>14. ASSUME NEW p \in Project,
              FindKeys(p) \/ RemovePrivateKey(p) \/ RemovePublicKey(p)
                \/ Keygen(p) \/ CreatePublic(p) \/ KeygenEnds(p)
       PROVE  CleanInv'
  <2>1. UNCHANGED <<cache, disk>> /\ clean
    BY <1>14, Zenon
    DEF FindKeys, RemovePrivateKey, RemovePublicKey, Keygen, CreatePublic, KeygenEnds
  <2>2. /\ pc[p] \in Keying /\ pc'[p] \in Keying \cup {"idle", "template"}
        /\ \A q \in Project : q # p => pc'[q] = pc[q]
    BY <1>14, <1>pc
    DEF FindKeys, RemovePrivateKey, RemovePublicKey, Keygen, CreatePublic, KeygenEnds, Move,
        Keying
  <2> QED
    BY <2>1, <2>2, <1>pc DEF CleanInv, Keying
<1>15. CASE OrphanEnds
  BY <1>15, <1>pc DEF OrphanEnds, Downloaded, CleanInv
<1>16. CASE UNCHANGED vars
  BY <1>16 DEF vars, CleanInv
<1> QED
  BY <1>1, <1>2, <1>3, <1>4, <1>5, <1>6, <1>7, <1>8, <1>9, <1>10, <1>11,
     <1>12, <1>13, <1>14, <1>15, <1>16 DEF Next, Step

(***************************************************************************)
(* ImageInv is an invariant: with a clean history, an image at its path is *)
(* finished or is being written by the only manager that makes images,     *)
(* though curls without a manager may be writing to the tarball.           *)
(***************************************************************************)
THEOREM ImagesSound == Spec => []ImageInv
<1>1. Init => ImageInv
  BY InitType, InitClean DEF ImageInv
<1>2. ImageInv /\ [Next]_vars => ImageInv'
  BY NextType, NextClean DEF ImageInv
<1> QED
  BY <1>1, <1>2, PTL DEF Spec

(***************************************************************************)
(* A project with a clean history boots from a copy of a provisioned       *)
(* template (ensure_default_image, ensure_instance_disk).                  *)
(***************************************************************************)
THEOREM CleanBoots == Spec => []CleanBootsProvisioned
<1>1. ImageInv => CleanBootsProvisioned
  BY DEF ImageInv, CleanInv, DiskSound, CleanBootsProvisioned, BootsProvisioned
<1> QED
  BY <1>1, ImagesSound, PTL

-----------------------------------------------------------------------------
(***************************************************************************)
(* The key pair.  ssh-keygen starts from nothing, because both files were  *)
(* removed; who leaves ensure_ssh_keypair leaves a pair, or the private    *)
(* key and what an ssh-keygen wrote of the public one.                     *)
(***************************************************************************)
KeySound ==
  \A p \in Project :
    /\ key[p] # "mixed"
    /\ pc[p] = "oldPublic" => key[p] \in {"none", "public"}
    /\ pc[p] = "keygen" => key[p] = "none"
    /\ pc[p] = "public" => key[p] = "private"
    /\ pc[p] = "writing" => key[p] = "empty"
    /\ pc[p] \notin Keying \cup {"idle"} => key[p] \in {"pair", "empty"}

LEMMA NextKey == TypeOK /\ KeySound /\ [Next]_vars => KeySound'
<1> SUFFICES ASSUME TypeOK, KeySound, [Next]_vars PROVE KeySound'
  OBVIOUS
<1> USE DEF Keying, own
<1>t. /\ pc \in [Project -> Location] /\ key \in [Project -> Key]
      /\ Location = Making \cup Keying
                    \cup {"idle", "template", "disk", "creating", "running"}
  BY DEF TypeOK, Location
<1>1. ASSUME NEW p \in Project,
             FindKeys(p) \/ RemovePrivateKey(p) \/ RemovePublicKey(p)
               \/ Keygen(p) \/ CreatePublic(p) \/ KeygenEnds(p)
      PROVE  KeySound'
  <2>1. \A q \in Project : q # p => pc'[q] = pc[q] /\ key'[q] = key[q]
    BY <1>1, <1>t
    DEF FindKeys, RemovePrivateKey, RemovePublicKey, Keygen, CreatePublic, KeygenEnds, Move,
        KeyBecomes
  <2>2. \/ pc'[p] = "oldPrivate" /\ key'[p] # "mixed"
        \/ pc'[p] = "oldPublic" /\ key'[p] \in {"none", "public"}
        \/ pc'[p] = "keygen" /\ key'[p] = "none"
        \/ pc'[p] = "public" /\ key'[p] = "private"
        \/ pc'[p] = "writing" /\ key'[p] = "empty"
        \/ pc'[p] = "template" /\ key'[p] \in {"pair", "empty"}
    BY <1>1, <1>t
    DEF KeySound, FindKeys, HasKeys, RemovePrivateKey, RemovePublicKey, Keygen,
        CreatePublic, KeygenEnds, Move, KeyBecomes, Key
  <2> QED
    BY <2>1, <2>2 DEF KeySound
<1>2. ASSUME NEW p \in Project, ResetProject(p) \/ LoseKey(p)
      PROVE  KeySound'
  BY <1>2, <1>t DEF ResetProject, LoseKey, KeyBecomes, KeySound
<1>3. ASSUME NEW p \in Project,
             \/ Begin(p) \/ GuestEnds(p) \/ FindTemplate(p) \/ FindBase(p)
             \/ FindTarball(p) \/ DownloadOk(p) \/ Verify(p) \/ UntarStart(p)
             \/ UntarOk(p) \/ CopyStart(p) \/ CopyOk(p) \/ ProvisionOk(p)
             \/ DiskExists(p) \/ CreateDisk(p) \/ CopyDisk(p)
             \/ KeygenFails(p) \/ DownloadFails(p) \/ DownloadWrong(p)
             \/ DiskTooSmall(p) \/ ProvisionFails(p) \/ ProvisionStopsEarly(p)
             \/ WriteFails(p) \/ Kill(p)
      PROVE  KeySound'
  <2>1. UNCHANGED key
    BY <1>3
    DEF Begin, GuestEnds, FindTemplate, FindBase, FindTarball, DownloadOk,
        Verify, UntarStart, UntarOk, CopyStart, CopyOk, ProvisionOk, DiskExists,
        CreateDisk, CopyDisk, KeygenFails, DownloadFails, DownloadWrong,
        DiskTooSmall, ProvisionFails, ProvisionStopsEarly, WriteFails, Kill
  <2>2. /\ \A q \in Project : q # p => pc'[q] = pc[q]
        /\ \/ pc'[p] \in {"idle", "keys"}
           \/ pc[p] \notin Keying \cup {"idle"} /\ pc'[p] \notin Keying
    BY <1>3, <1>t
    DEF Begin, GuestEnds, FindTemplate, FindBase, FindTarball, DownloadOk,
        Verify, UntarStart, UntarOk, CopyStart, CopyOk, ProvisionOk, DiskExists,
        CreateDisk, CopyDisk, KeygenFails, DownloadFails, DownloadWrong,
        DiskTooSmall, ProvisionFails, ProvisionStopsEarly, WriteFails, Kill, Move
  <2> QED
    BY <2>1, <2>2 DEF KeySound
<1>4. CASE OrphanEnds \/ PurgeCache \/ UNCHANGED vars
  BY <1>4 DEF OrphanEnds, PurgeCache, vars, KeySound
<1> QED
  BY <1>1, <1>2, <1>3, <1>4 DEF Next, Step

(***************************************************************************)
(* A guest boots with the public key of the private one that ssh will use, *)
(* whatever was lost and wherever ensure_ssh_keypair was stopped; or, if   *)
(* ssh-keygen was stopped while it wrote that public key, with the part of *)
(* it that was written.                                                    *)
(***************************************************************************)
THEOREM BootsWithKey == Spec => []BootsWithKeyPair
<1>1. Init => KeySound
  BY DEF Init, KeySound
<1>2. KeySound => BootsWithKeyPair
  BY DEF KeySound, BootsWithKeyPair, Keying
<1> QED
  BY <1>1, <1>2, NextKey, ImageTypeCorrect, PTL DEF Spec

=============================================================================
