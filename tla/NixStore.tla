------------------------------ MODULE NixStore ------------------------------
(***************************************************************************)
(* The lazily filled store of nix-debuginfod (cmd/nix-debuginfod/store.go, *)
(* mount_linux.go, sourceindex.go, and the fetches of nix/nix.go).         *)
(*                                                                         *)
(* A request finds the archive of its build id, joins or leads the flight  *)
(* that builds and mounts it, and then opens its file, mounting one store  *)
(* path per hop for as long as the file cannot be opened.  A unit is       *)
(* whatever gets an image and a mount point: an archive or a store path.   *)
(* The file system is images, temporary files, name files, the build id    *)
(* links with their shared temporary name, and mount points, of which a    *)
(* directory may exist before, without and after the mount.                *)
(***************************************************************************)
EXTENDS Naturals, Sequences, FiniteSets

CONSTANTS
    Requests,
    Builds,         \* build ids
    Archives,       \* NARs with debug info, shared by build ids
    Paths,          \* store paths, as the client or a symlink spells them
    Images,         \* the .erofs files; paths with one hash share theirs
    ImageOf,        \* [Archives \cup Paths -> Images]
    ArchiveOf,      \* [Builds -> Archives \cup {NoOne}]: cache.nixos.org's answer
    Members,        \* the build ids whose debug file is in their archive
    BuildOf,        \* [Requests -> Builds]
    Endpoint,       \* [Requests -> {"debuginfo", "executable", "source", "path"}]
    Leads,          \* [Requests -> Seq(Paths)]: the symlink chain of the file
    Holds,          \* the requests whose file is at the end of its chain
    Unreadable,     \* the requests whose path names a directory, leads through a file, loops ...
    Short,          \* the build ids that entry refuses as too short
    MaxFetches,
    MaxResolveHops,
    Faults,         \* the kinds of fault that may happen
    MaxFaults,      \* bound: faults in one behaviour
    NoOne

Units == Archives \cup Paths

ASSUME ConstantsAssumption ==
    /\ Archives \cap Paths = {}
    /\ NoOne \notin Requests \cup Units
    /\ IsFiniteSet(Requests)
    /\ ImageOf \in [Units -> Images]
    /\ \A a \in Archives, u \in Units : ImageOf[a] = ImageOf[u] => a = u
    /\ ArchiveOf \in [Builds -> Archives \cup {NoOne}]
    /\ Unreadable \subseteq Requests /\ Short \subseteq Builds
    /\ BuildOf \in [Requests -> Builds]
    /\ Endpoint \in [Requests -> {"debuginfo", "executable", "source", "path"}]
    /\ Leads \in [Requests -> Seq(Paths)]
    /\ \A r \in Requests : Endpoint[r] = "source" => Leads[r] # <<>>
    /\ MaxFetches \in Nat \ {0}
    /\ MaxResolveHops \in Nat \ {0}
    /\ MaxFaults \in Nat

VARIABLES
    image,      \* [Images -> Contents]: under the final name
    tmp,        \* [Requests -> Contents]: the .tmp- file a builder writes
    name,       \* [Archives -> "none" | "empty" | "whole"]: archive-<key>.name
    link,       \* build ids with a recorded link to their archive
    linkTmp,    \* build ids with a file <link>.tmp
    spoilt,     \* requests under way with a link, or done, when the disk failed it
    dirs,       \* units whose mount point exists as a directory
    kernel,     \* units mounted in the kernel
    mounted,    \* s.mounted
    flight,     \* [Units -> Requests \cup {NoOne}]: singleflight leaders
    slots,      \* tokens in the slots channel
    idx,        \* [Builds -> "none" | "empty" | "full"]: s.idx
    rq,         \* [Requests -> [pc, unit, asked, hop, status]]
    gone,       \* requests whose client has disconnected
    up,         \* the process runs
    faults,     \* faults so far
    hit,        \* requests a fault has reached through their own flight
    broken      \* units whose mount failed in this process

vars == <<image, tmp, name, link, linkTmp, spoilt, dirs, kernel, mounted, flight, slots, idx,
          rq, gone, up, faults, hit, broken>>
files == <<image, tmp, name>>
links == <<link, linkTmp, spoilt>>
mounts == <<dirs, kernel, mounted, broken>>
world == <<gone, up>>

Contents == {"none", "partial", "whole"}
LinkSteps == {"clear", "symlink", "rename"}
BuildSteps == {"restat", "nar", "unpack", "trunc", "name", "publish"}
MountSteps == {"mounted", "mkdir", "mount", "record"}
FlightSteps == {"stat", "slot"} \cup BuildSteps \cup MountSteps
Steps == {"idle", "link", "meta", "join", "wait", "open", "missing", "index", "walk",
          "send", "end"} \cup LinkSteps \cup FlightSteps
Statuses == {"none", "200", "404", "500", "cut", "killed"}

Active(r) == rq[r].pc \notin {"idle", "end"}
Waiting(u) == {q \in Requests : rq[q].pc = "wait" /\ rq[q].unit = u}

(* The middleware's end of a request: an error before the first byte is a  *)
(* 404 if the file or the build id is unknown and a 500 otherwise.         *)
StatusOf(err) == IF err = "notfound" THEN "404" ELSE "500"
Ended(q, status) == [q EXCEPT !.pc = "end", !.status = status]
Goto(r, pc) == rq' = [rq EXCEPT ![r].pc = pc]
End(r, status) == rq' = [rq EXCEPT ![r] = Ended(@, status)]

Init ==
    /\ image = [i \in Images |-> "none"]
    /\ tmp = [r \in Requests |-> "none"]
    /\ name = [a \in Archives |-> "none"]
    /\ link = {} /\ linkTmp = {} /\ spoilt = {}
    /\ dirs = {} /\ kernel = {} /\ mounted = {} /\ broken = {}
    /\ flight = [u \in Units |-> NoOne]
    /\ slots = 0
    /\ idx = [b \in Builds |-> "none"]
    /\ rq = [r \in Requests |-> [pc |-> "idle", unit |-> NoOne, asked |-> FALSE,
                                 hop |-> 0, status |-> "none"]]
    /\ gone = {} /\ up = TRUE /\ faults = 0 /\ hit = {}

(* A fault reaches the request it happens to and, when that request leads  *)
(* a flight, everybody who shares the flight.                              *)
Reached(r) == {r} \cup UNION {Waiting(u) : u \in {u \in Units : flight[u] = r}}
Fault(kind, r) ==
    /\ kind \in Faults
    /\ faults < MaxFaults
    /\ faults' = faults + 1
    /\ hit' = hit \cup Reached(r)

(* A call to cache.nixos.org under r's context fails: because the service  *)
(* or the network does, what it sends cannot be used (an archive without a *)
(* key, a NAR nobody can unpack), or because r's client has gone.          *)
CallFails(r) ==
    \/ Fault("upstream", r)
    \/ r \in gone /\ UNCHANGED <<faults, hit>>

-----------------------------------------------------------------------------
(* Requests and archiveFor.                                                *)

\* GetSource goes straight to Open when the request names a store path.
Refused(r) == Endpoint[r] # "path" /\ BuildOf[r] \in Short
Arrive(r) ==
    /\ up /\ rq[r].pc = "idle"
    /\ IF Refused(r)
       THEN End(r, StatusOf("error"))
       ELSE Goto(r, IF Endpoint[r] = "path" THEN "open" ELSE "link")
    /\ UNCHANGED <<files, links, mounts, flight, slots, idx, world, faults, hit>>

\* The archive's recorded name is read as well; a builder that has none asks for it again.
ReadLink(r) ==
    /\ rq[r].pc = "link"
    /\ IF BuildOf[r] \in link
       THEN rq' = [rq EXCEPT ![r].pc = "join", ![r].unit = ArchiveOf[BuildOf[r]]]
       ELSE Goto(r, "meta")
    /\ UNCHANGED <<files, links, mounts, flight, slots, idx, world, faults, hit>>

DebuginfoMeta(r) ==
    /\ rq[r].pc = "meta"
    /\ \/ /\ IF ArchiveOf[BuildOf[r]] = NoOne
             THEN End(r, StatusOf("notfound"))
             ELSE rq' = [rq EXCEPT ![r].pc = "clear", ![r].unit = ArchiveOf[BuildOf[r]]]
          /\ UNCHANGED <<faults, hit>>
       \/ CallFails(r) /\ End(r, StatusOf("error"))
    /\ UNCHANGED <<files, links, mounts, flight, slots, idx, world>>

\* Mutant: the left-over temporary link is not removed first.
KeepLinkTmp(r) ==
    /\ rq[r].pc = "clear"
    /\ Goto(r, "symlink")
    /\ UNCHANGED <<files, links, mounts, flight, slots, idx, world, faults, hit>>

\* The link is made under one name shared by all requests for the build id.
ClearLinkTmp(r) ==
    /\ rq[r].pc = "clear"
    /\ linkTmp' = linkTmp \ {BuildOf[r]}
    /\ Goto(r, "symlink")
    /\ UNCHANGED <<files, link, spoilt, mounts, flight, slots, idx, world, faults, hit>>

SymlinkTmp(r) ==
    /\ rq[r].pc = "symlink"
    /\ IF BuildOf[r] \in linkTmp
       THEN rq' = [rq EXCEPT ![r].pc = "join", ![r].asked = TRUE]
       ELSE Goto(r, "rename")
    /\ linkTmp' = linkTmp \cup {BuildOf[r]}
    /\ UNCHANGED <<files, link, spoilt, mounts, flight, slots, idx, world, faults, hit>>

RenameLink(r) ==
    /\ rq[r].pc = "rename"
    /\ link' = IF BuildOf[r] \in linkTmp THEN link \cup {BuildOf[r]} ELSE link
    /\ linkTmp' = linkTmp \ {BuildOf[r]}
    /\ rq' = [rq EXCEPT ![r].pc = "join", ![r].asked = TRUE]
    /\ UNCHANGED <<files, spoilt, mounts, flight, slots, idx, world, faults, hit>>

\* The directory of the links cannot be made.
LinkDirFails(r) ==
    /\ rq[r].pc = "clear"
    /\ Fault("disk", r)
    /\ End(r, StatusOf("error"))
    /\ UNCHANGED <<files, links, mounts, flight, slots, idx, world>>

\* Remove, Symlink or Rename fails: the request goes on without a word, or with a warning.
OnItsWay(b) == {q \in Requests : BuildOf[q] = b /\ (rq[q].asked \/ rq[q].pc \in LinkSteps)}
LinkFails(r) ==
    /\ rq[r].pc \in LinkSteps
    /\ Fault("disk", r)
    /\ spoilt' = spoilt \cup OnItsWay(BuildOf[r])
    /\ IF rq[r].pc = "clear"
       THEN Goto(r, "symlink")
       ELSE rq' = [rq EXCEPT ![r].pc = "join", ![r].asked = TRUE]
    /\ UNCHANGED <<files, link, linkTmp, mounts, flight, slots, idx, world>>

-----------------------------------------------------------------------------
(* group.Do: entry's for an archive, Ensure's for a store path.            *)

\* A follower that joins a flight which a fault has already reached shares its end.
Join(r) ==
    LET u == rq[r].unit IN
    /\ rq[r].pc = "join"
    /\ flight[u] # NoOne
    /\ Goto(r, "wait")
    /\ hit' = IF flight[u] \in hit THEN hit \cup {r} ELSE hit
    /\ UNCHANGED <<files, links, mounts, flight, slots, idx, world, faults>>

Lead(r) ==
    LET u == rq[r].unit IN
    /\ rq[r].pc = "join"
    /\ flight[u] = NoOne
    /\ flight' = [flight EXCEPT ![u] = r]
    /\ Goto(r, IF u \in Paths THEN "mounted" ELSE "stat")
    /\ UNCHANGED <<files, links, mounts, slots, idx, world, faults, hit>>

(* The flight's function has returned: its leader and its followers go on  *)
(* with its result, and on a mounted archive each looks for its own member *)
(* (memberIn).                                                             *)
Outcome(q, res) ==
    IF res = "ok" /\ rq[q].unit \in Archives /\ BuildOf[q] \notin Members THEN "notfound" ELSE res

Landed(q, res) ==
    IF Outcome(q, res) = "ok"
    THEN [rq[q] EXCEPT !.pc = "open", !.hop = IF rq[q].unit \in Paths THEN @ + 1 ELSE @]
    ELSE Ended(rq[q], StatusOf(Outcome(q, res)))

\* Mutant: only the leader goes on with the result.
LandAlone(r, res) ==
    /\ flight' = [flight EXCEPT ![rq[r].unit] = NoOne]
    /\ rq' = [rq EXCEPT ![r] = Landed(r, res)]

Land(r, res) ==
    LET landing == Waiting(rq[r].unit) \cup {r} IN
    /\ flight' = [flight EXCEPT ![rq[r].unit] = NoOne]
    /\ rq' = [q \in Requests |-> IF q \in landing THEN Landed(q, res) ELSE rq[q]]

AfterBuild(r) == IF rq[r].unit \in Paths THEN "mkdir" ELSE "mounted"

CheckMounted(r) ==
    /\ rq[r].pc = "mounted"
    /\ IF rq[r].unit \in mounted
       THEN Land(r, "ok")
       ELSE /\ Goto(r, IF rq[r].unit \in Paths THEN "stat" ELSE "mkdir")
            /\ UNCHANGED flight
    /\ UNCHANGED <<files, links, mounts, slots, idx, world, faults, hit>>

StatImage(r) ==
    /\ rq[r].pc = "stat"
    /\ Goto(r, IF image[ImageOf[rq[r].unit]] # "none" THEN AfterBuild(r) ELSE "slot")
    /\ UNCHANGED <<files, links, mounts, flight, slots, idx, world, faults, hit>>

-----------------------------------------------------------------------------
(* buildOnce.                                                              *)

Acquire(r) ==
    /\ rq[r].pc = "slot"
    /\ slots < MaxFetches
    /\ slots' = slots + 1
    /\ Goto(r, "restat")
    /\ UNCHANGED <<files, links, mounts, flight, idx, world, faults, hit>>

GiveUpSlot(r) ==
    /\ rq[r].pc = "slot"
    /\ r \in gone
    /\ Land(r, "error")
    /\ UNCHANGED <<files, links, mounts, slots, idx, world, faults, hit>>

\* Mutant: the slot is given back when the image is there, and once more by the defer.
RestatReleasesTwice(r) ==
    /\ rq[r].pc = "restat"
    /\ IF image[ImageOf[rq[r].unit]] # "none"
       THEN slots' = slots - 2 /\ Goto(r, AfterBuild(r))
       ELSE Goto(r, "nar") /\ UNCHANGED slots
    /\ UNCHANGED <<files, links, mounts, flight, idx, world, faults, hit>>

RestatImage(r) ==
    /\ rq[r].pc = "restat"
    /\ IF image[ImageOf[rq[r].unit]] # "none"
       THEN slots' = slots - 1 /\ Goto(r, AfterBuild(r))
       ELSE Goto(r, "nar") /\ UNCHANGED slots
    /\ UNCHANGED <<files, links, mounts, flight, idx, world, faults, hit>>

\* Mutant: the slot is only returned by a build that succeeds.
BuildFailsHoldingSlot(r, res) ==
    /\ tmp' = [tmp EXCEPT ![r] = "none"]
    /\ Land(r, res)
    /\ UNCHANGED slots

\* An error inside the build: the deferred remove and release run, the flight fails.
BuildFails(r, res) ==
    /\ tmp' = [tmp EXCEPT ![r] = "none"]
    /\ slots' = slots - 1
    /\ Land(r, res)

(* The NAR is found: by the narinfo of a store path, and for an archive by *)
(* its name, which a leader that has only the key asks for once more.      *)
FetchNar(r) ==
    /\ rq[r].pc = "nar"
    /\ tmp' = [tmp EXCEPT ![r] = "partial"]
    /\ Goto(r, "unpack")
    /\ UNCHANGED <<image, name, links, mounts, flight, slots, idx, world, faults, hit>>

\* The service may also answer that it does not have it.
FetchNarFails(r) ==
    /\ rq[r].pc = "nar"
    /\ CallFails(r)
    /\ \E res \in {"error", "notfound"} : BuildFails(r, res)
    /\ UNCHANGED <<image, name, links, mounts, idx, world>>

(* The unpacker and mkfs.erofs run as two goroutines with a pipe between   *)
(* them.  When the unpacker breaks off it closes the pipe normally, so     *)
(* mkfs.erofs may well finish an image of what it got; g.Wait returns the  *)
(* unpacker's error all the same.                                          *)
AfterUnpack(r) == IF rq[r].unit \in Archives THEN "trunc" ELSE "publish"

Unpack(r) ==
    /\ rq[r].pc = "unpack"
    /\ tmp' = [tmp EXCEPT ![r] = "whole"]
    /\ Goto(r, AfterUnpack(r))
    /\ UNCHANGED <<image, name, links, mounts, flight, slots, idx, world, faults, hit>>

\* Mutant: g.Wait's error is dropped and what mkfs.erofs made of the pipe is published.
UnpackFailureIgnored(r) ==
    /\ rq[r].pc = "unpack"
    /\ CallFails(r)
    /\ Goto(r, AfterUnpack(r))
    /\ UNCHANGED <<files, links, mounts, flight, slots, idx, world>>

UnpackFails(r) ==
    /\ rq[r].pc = "unpack"
    /\ CallFails(r)
    /\ BuildFails(r, "error")
    /\ UNCHANGED <<image, name, links, mounts, idx, world>>

\* os.WriteFile of the archive's name: open with O_TRUNC, then one write.
TruncName(r) ==
    /\ rq[r].pc = "trunc"
    /\ name' = [name EXCEPT ![rq[r].unit] = "empty"]
    /\ Goto(r, "name")
    /\ UNCHANGED <<image, tmp, links, mounts, flight, slots, idx, world, faults, hit>>

WriteName(r) ==
    /\ rq[r].pc = "name"
    /\ name' = [name EXCEPT ![rq[r].unit] = "whole"]
    /\ Goto(r, "publish")
    /\ UNCHANGED <<image, tmp, links, mounts, flight, slots, idx, world, faults, hit>>

RenameImage(r) ==
    /\ rq[r].pc = "publish"
    /\ image' = [image EXCEPT ![ImageOf[rq[r].unit]] = tmp[r]]
    /\ tmp' = [tmp EXCEPT ![r] = "none"]
    /\ slots' = slots - 1
    /\ Goto(r, AfterBuild(r))
    /\ UNCHANGED <<name, links, mounts, flight, idx, world, faults, hit>>

\* CreateTemp, mkfs.erofs, WriteFile or Rename fails.
DiskFails(r) ==
    /\ rq[r].pc \in {"restat", "unpack", "trunc", "name", "publish"}
    /\ Fault("disk", r)
    /\ BuildFails(r, "error")
    /\ UNCHANGED <<image, name, links, mounts, idx, world>>

-----------------------------------------------------------------------------
(* mount.                                                                  *)

MkdirPoint(r) ==
    /\ rq[r].pc = "mkdir"
    /\ dirs' = dirs \cup {rq[r].unit}
    /\ Goto(r, "mount")
    /\ UNCHANGED <<files, links, kernel, mounted, broken, flight, slots, idx, world, faults, hit>>

MountErofs(r) ==
    /\ rq[r].pc = "mount"
    /\ kernel' = kernel \cup {rq[r].unit}
    /\ Goto(r, "record")
    /\ UNCHANGED <<files, links, dirs, mounted, broken, flight, slots, idx, world, faults, hit>>

\* The directory cannot be made, or it stays behind without its mount.
MountFails(r) ==
    /\ rq[r].pc \in {"mkdir", "mount"}
    /\ Fault("mount", r)
    /\ broken' = broken \cup (dirs \cap {rq[r].unit})
    /\ Land(r, "error")
    /\ UNCHANGED <<files, links, dirs, kernel, mounted, slots, idx, world>>

RecordMount(r) ==
    /\ rq[r].pc = "record"
    /\ mounted' = mounted \cup {rq[r].unit}
    /\ Land(r, "ok")
    /\ UNCHANGED <<files, links, dirs, kernel, broken, slots, idx, world, faults, hit>>

-----------------------------------------------------------------------------
(* Open, the index and the answer.                                         *)

ChainOf(r) == {Leads[r][i] : i \in 1..Len(Leads[r])}

\* A file can be opened when every store path on its way is mounted and it is there; the
\* tree behind .source, a directory, as soon as the last mount point exists.
Openable(r) ==
    IF Endpoint[r] = "source"
    THEN /\ r \notin Unreadable
         /\ \A i \in 1..(Len(Leads[r]) - 1) : Leads[r][i] \in kernel
         /\ Leads[r][Len(Leads[r])] \in dirs
    ELSE ChainOf(r) \subseteq kernel /\ r \in Holds \ Unreadable

\* Mutant: the loop stops one hop early.
OpenFileOneHopLess(r) ==
    /\ rq[r].pc = "open"
    /\ ~(r \in Unreadable /\ ChainOf(r) \subseteq kernel)
    /\ IF rq[r].hop >= MaxResolveHops - 1
       THEN End(r, StatusOf("error"))
       ELSE Goto(r, CASE ~Openable(r) -> "missing"
                      [] Endpoint[r] = "source" -> "index"
                      [] OTHER -> "send")
    /\ UNCHANGED <<files, links, mounts, flight, slots, idx, world, faults, hit>>

OpenFile(r) ==
    /\ rq[r].pc = "open"
    /\ ~(r \in Unreadable /\ ChainOf(r) \subseteq kernel)
    /\ IF rq[r].hop = MaxResolveHops
       THEN End(r, StatusOf("error"))
       ELSE Goto(r, CASE ~Openable(r) -> "missing"
                      [] Endpoint[r] = "source" -> "index"
                      [] OTHER -> "send")
    /\ UNCHANGED <<files, links, mounts, flight, slots, idx, world, faults, hit>>

\* Open is refused otherwise than by ENOENT, or what was opened is a directory and io.Copy
\* fails before the first byte.  A name that is too long fails before its chain is mounted.
OpenFails(r) ==
    /\ rq[r].pc = "open"
    /\ r \in Unreadable
    /\ End(r, StatusOf("error"))
    /\ UNCHANGED <<files, links, mounts, flight, slots, idx, world, faults, hit>>

\* missingFor walks the chain once more and stops at the first path not in s.mounted.
MissingFor(r) ==
    LET absent == {i \in 1..Len(Leads[r]) : Leads[r][i] \notin mounted} IN
    /\ rq[r].pc = "missing"
    /\ IF absent = {}
       THEN End(r, StatusOf("notfound"))
       ELSE \E i \in absent : /\ \A j \in absent : i <= j
                              /\ rq' = [rq EXCEPT ![r].pc = "join", ![r].unit = Leads[r][i]]
    /\ UNCHANGED <<files, links, mounts, flight, slots, idx, world, faults, hit>>

Answer(r, found) == IF found THEN Goto(r, "send") ELSE End(r, StatusOf("notfound"))

FindInIndex(r) ==
    /\ rq[r].pc = "index"
    /\ IF idx[BuildOf[r]] = "none"
       THEN Goto(r, "walk")
       ELSE Answer(r, idx[BuildOf[r]] = "full" /\ r \in Holds)
    /\ UNCHANGED <<files, links, mounts, flight, slots, idx, world, faults, hit>>

\* srcindex.New walks what is mounted by then, and the index is kept.
WalkIndex(r) ==
    LET ix == IF ChainOf(r) \subseteq kernel THEN "full" ELSE "empty" IN
    /\ rq[r].pc = "walk"
    /\ idx' = [idx EXCEPT ![BuildOf[r]] = ix]
    /\ Answer(r, ix = "full" /\ r \in Holds)
    /\ UNCHANGED <<files, links, mounts, flight, slots, world, faults, hit>>

Send(r) ==
    /\ rq[r].pc = "send"
    /\ End(r, IF r \in gone THEN "cut" ELSE "200")
    /\ UNCHANGED <<files, links, mounts, flight, slots, idx, world, faults, hit>>

-----------------------------------------------------------------------------
(* Disconnects, kills and restarts.                                        *)

Disconnect(r) ==
    /\ Active(r)
    /\ r \notin gone
    /\ Fault("disconnect", r)
    /\ gone' = gone \cup {r}
    /\ UNCHANGED <<files, links, mounts, flight, slots, idx, rq, up>>

\* SIGKILL: nothing deferred runs; files and directories stay as they are.
Kill ==
    /\ up
    /\ "kill" \in Faults /\ faults < MaxFaults
    /\ faults' = faults + 1
    /\ up' = FALSE
    /\ rq' = [r \in Requests |-> IF Active(r) THEN [Ended(rq[r], "killed") EXCEPT !.asked = FALSE]
                                 ELSE [rq[r] EXCEPT !.asked = FALSE]]
    /\ flight' = [u \in Units |-> NoOne]
    /\ slots' = 0
    /\ mounted' = {} /\ broken' = {}
    /\ idx' = [b \in Builds |-> "none"]
    /\ UNCHANGED <<files, links, dirs, kernel, gone, hit>>

\* Mutant: the mount points of the last process are unmounted and not removed.
RestartKeepingPoints ==
    /\ ~up
    /\ up' = TRUE
    /\ kernel' = {}
    /\ UNCHANGED <<files, links, dirs, mounted, broken, flight, slots, idx, rq, gone, faults, hit>>

\* newStore and reconcileMountRoots: unmount and remove every mount point.
Restart ==
    /\ ~up
    /\ up' = TRUE
    /\ kernel' = {} /\ dirs' = {}
    /\ UNCHANGED <<files, links, mounted, broken, flight, slots, idx, rq, gone, faults, hit>>

-----------------------------------------------------------------------------
Step(r) ==
    \/ ReadLink(r) \/ DebuginfoMeta(r) \/ ClearLinkTmp(r) \/ SymlinkTmp(r) \/ RenameLink(r)
    \/ LinkDirFails(r) \/ LinkFails(r)
    \/ Join(r) \/ Lead(r) \/ CheckMounted(r) \/ StatImage(r)
    \/ Acquire(r) \/ GiveUpSlot(r) \/ RestatImage(r)
    \/ FetchNar(r) \/ FetchNarFails(r) \/ Unpack(r) \/ UnpackFails(r) \/ TruncName(r) \/ WriteName(r) \/ RenameImage(r)
    \/ DiskFails(r) \/ MkdirPoint(r) \/ MountErofs(r) \/ MountFails(r) \/ RecordMount(r)
    \/ OpenFile(r) \/ OpenFails(r) \/ MissingFor(r) \/ FindInIndex(r) \/ WalkIndex(r) \/ Send(r)

Next ==
    \/ \E r \in Requests : Arrive(r) \/ Step(r) \/ Disconnect(r)
    \/ Kill \/ Restart

Spec == Init /\ [][Next]_vars

(* Goroutines are scheduled, a call to cache.nixos.org ends at the latest  *)
(* when the leader's client gives up, and the supervisor restarts the      *)
(* process.  Nobody has to arrive, to disconnect or to be killed.          *)
Fairness == WF_vars(Restart) /\ \A r \in Requests : WF_vars(Step(r))
FairSpec == Spec /\ Fairness

-----------------------------------------------------------------------------
(* Properties.                                                             *)

\* Types; among them that the slots channel is never drained below empty.
TypeOK ==
    /\ image \in [Images -> Contents]
    /\ tmp \in [Requests -> Contents]
    /\ name \in [Archives -> {"none", "empty", "whole"}]
    /\ link \subseteq Builds /\ linkTmp \subseteq Builds /\ spoilt \subseteq Requests
    /\ dirs \subseteq Units /\ kernel \subseteq Units
    /\ mounted \subseteq Units /\ broken \subseteq Units
    /\ flight \in [Units -> Requests \cup {NoOne}]
    /\ slots \in Nat
    /\ idx \in [Builds -> {"none", "empty", "full"}]
    /\ rq \in [Requests -> [pc : Steps, unit : Units \cup {NoOne}, asked : BOOLEAN,
                            hop : Nat, status : Statuses]]
    /\ gone \subseteq Requests /\ up \in BOOLEAN
    /\ faults \in 0..MaxFaults /\ hit \subseteq Requests

\* Whatever is killed or fails half-way, an image has its final name only when it is
\* complete, what is mounted is a complete image, and an archive that has its image also
\* has its name recorded: the next process may trust what it finds.
ImagesWhole ==
    /\ \A i \in Images : image[i] # "partial"
    /\ \A u \in kernel : image[ImageOf[u]] = "whole"
    /\ \A a \in Archives : image[ImageOf[a]] # "none" => name[a] = "whole"

\* Every token in the slots channel belongs to exactly one request that is building, and
\* no more than maxFetches build: buildOnce returns its token on every way out.
SlotsAccounted ==
    /\ slots = Cardinality({r \in Requests : rq[r].pc \in BuildSteps})
    /\ slots <= MaxFetches

\* An empty directory makes os.Open succeed and hides that a store path is missing.  While
\* the process runs, a mount point exists only for a mount of its own: done, under
\* way, or failed. Directories of an earlier process are all gone.
NoStrayMountPoint ==
    up => \A u \in dirs :
             \/ u \in mounted \/ u \in broken
             \/ flight[u] # NoOne /\ rq[flight[u]].pc \in {"mount", "record"}

\* A request is answered with a 500 only if a fault reached the very flight it led or
\* shared, or if nothing could help it: its path cannot be read, its build id is too
\* short, or its file lies behind so many store paths that Open gives up. No failure,
\* disconnect or kill leaves anything behind that makes later requests fail with a 500, one
\* flight's failure does not spread to another, and no shorter chain runs out of hops. (A
\* 404 is another matter: one made from an empty mount point stays.)
FaultsHeal ==
    \A r \in Requests :
        rq[r].status = "500" =>
            \/ r \in hit
            \/ r \in Unreadable \/ Refused(r) \/ Len(Leads[r]) >= MaxResolveHops

\* The first requests for a build id remove, make and rename one shared <link>.tmp under
\* each other's feet; once they are through, one of them has recorded the link, whatever
\* was left behind by earlier ones. A disk that fails one of them spoils it for those who
\* are under way with the link just then, or have been, and for nobody after them.
LinkRecorded ==
    \A r \in Requests \ spoilt :
        /\ rq[r].asked
        /\ \A q \in Requests : BuildOf[q] = BuildOf[r] => rq[q].pc \notin LinkSteps
        => BuildOf[r] \in link

\* Every request is answered: nobody waits for ever for a slot or for a flight whose
\* leader has failed, disconnected or is itself waiting.
RequestsAnswered == \A r \in Requests : Active(r) ~> rq[r].pc = "end"
=============================================================================
