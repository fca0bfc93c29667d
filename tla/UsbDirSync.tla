----------------------------- MODULE UsbDirSync -----------------------------
(***************************************************************************)
(* crates/ue2-vfat/src/sync.rs: what the guest changed on a --usb-dir stick *)
(* is applied, path by path, to a host directory that its user edits at the *)
(* same time, by a process that may be killed between any two steps.       *)
(*                                                                         *)
(* The module models the syncs between two builds of the volume.  Paths are *)
(* one directory deep: a path without a parent is a file or a directory, a  *)
(* path in a directory is a file.  A host path has places: place 0 is its   *)
(* own name, the others the conflict directories (`remap') it was sent to.  *)
(***************************************************************************)
EXTENDS Integers, Sequences, FiniteSets, Functions

CONSTANTS Order,       \* the paths, sorted as in the plan's lists
          Parent,      \* the directory above a path, or Root
          Root,
          Content,     \* file contents (their SHA-256)
          MaxAlt,      \* bound: conflict directories per directory
          MaxWrites,   \* bound: changes by the guest
          MaxEdits,    \* bound: changes by the user of the host directory
          MaxSyncs,    \* bound: syncs
          Faults,      \* what may fail: "io" (a path), "save" (the manifest), "kill"
          Windows      \* when the host may change the very path at work:
                       \* "check" (between its check and the rename), "record"
                       \* (between the rename and its manifest entry)

Path == Range(Order)
Alt  == 0 .. MaxAlt
Kids(d) == { p \in Path : Parent[p] = d }

ASSUME SyncAssumption ==
    /\ Order \in Seq(Path) /\ IsInjective(Order)
    /\ Parent \in [Path -> Path \cup {Root}] /\ Root \notin Path
    /\ \A p \in Path : Parent[p] # Root => Parent[Parent[p]] = Root /\ Kids(p) = {}
    /\ {"none", "dir", "other"} \cap Content = {}
    /\ {MaxAlt, MaxWrites, MaxEdits, MaxSyncs} \subseteq Nat
    /\ Faults \subseteq {"io", "save", "kill"} /\ Windows \subseteq {"check", "record"}

VARIABLES
    host,        \* what is at each place of each path: none, dir, other (a symlink or a
                 \* special file) or a content
    copies,      \* conflict copies on the host
    trash,       \* what was moved or linked into .ue2-trash
    tree,        \* the volume in the image: none, dir or a content at each path
    manifest,    \* the manifest in memory: entries and remap
    saved,       \* manifest.json
    \* the sync at work
    pc, snap,    \* where it is, and the image's tree it works from
    todo,        \* steps of the plan that it has not begun
    action, failedDirs, failed, result, stamp,
    \* history
    had,         \* contents the image had at a path since the build
    reached,     \* contents that have been on the host at a path
    writes, edits

disk  == << host, copies, trash >>
work  == << snap, todo, action, failedDirs, failed, stamp >>
bound == << had, writes, edits >>
vars  == << disk, tree, manifest, saved, pc, work, result, reached, bound >>

Node    == {"none", "dir", "other"} \cup Content
Item    == {"none", "dir"} \cup Content
Entry   == [hash : Content \cup {"dir"}, hostHash : Content \cup {"none"},
            link : BOOLEAN, diverged : BOOLEAN]
NoEntry == [hash |-> "none", hostHash |-> "none", link |-> FALSE, diverged |-> FALSE]
NoAction == [path |-> Root, state |-> "missing", replace |-> FALSE, conflict |-> FALSE]

Entries  == manifest.entries
Remap    == manifest.remap

-----------------------------------------------------------------------------
(* Applier::host_rel: a directory is sought where the remap sends it, a path *)
(* in it there too.                                                          *)
Place(p) == IF Parent[p] = Root THEN Remap[p] ELSE Remap[Parent[p]]
At(p)    == host[p][Place(p)]

(* Applier::parents. *)
Parents(p) ==
    IF Parent[p] = Root THEN "real"
    ELSE CASE At(Parent[p]) = "dir"  -> "real"
           [] At(Parent[p]) = "none" -> "missing"
           [] OTHER                  -> "notdir"

HostState(p, entry) ==
    LET same == IF entry.hash = "dir" THEN At(p) = "dir"
                                      ELSE At(p) \in Content /\ entry.hostHash = At(p)
    IN  IF At(p) = "none" THEN "missing"
        ELSE IF entry # NoEntry /\ same THEN "same" ELSE "changed"

OnlyEmptyDirs(d) ==
    /\ \A p \in Kids(d) : host[p][Place(d)] = "none"
    /\ \A c \in copies : ~(Parent[c.path] = d /\ c.place = Place(d))

EntryFrom(p, item) ==
    [hash |-> item, link |-> FALSE, diverged |-> FALSE,
     hostHash |-> IF At(p) \in Content /\ item # "dir" THEN At(p) ELSE "none"]

-----------------------------------------------------------------------------
(* sync::plan, as the steps apply_plan takes, in its order: each path that   *)
(* differs between the manifest's image side and the snapshot.               *)
Deleted(e, t, p)  == e[p] # NoEntry /\ (t[p] = "none" \/ (t[p] = "dir") # (e[p].hash = "dir"))
Added(e, t, p)    == t[p] # "none" /\ (e[p] = NoEntry \/ (t[p] = "dir") # (e[p].hash = "dir"))
Modified(e, t, p) == {e[p].hash, t[p]} \subseteq Content /\ t[p] # e[p].hash

Turn == [deleteFile |-> 1, deleteDir |-> 2, addDir |-> 3, file |-> 4]
Step == [op : DOMAIN Turn, path : Path]

Planned(e, t, s) ==
    CASE s.op = "deleteFile" -> Deleted(e, t, s.path) /\ e[s.path].hash # "dir"
      [] s.op = "deleteDir"  -> Deleted(e, t, s.path) /\ e[s.path].hash = "dir"
      [] s.op = "addDir"     -> Added(e, t, s.path) /\ t[s.path] = "dir"
      [] s.op = "file"       -> Modified(e, t, s.path) \/ (Added(e, t, s.path) /\ t[s.path] # "dir")

Plan(e, t) == { s \in Step : Planned(e, t, s) }

Before(s, r) ==
    \/ Turn[s.op] < Turn[r.op]
    \/ s.op = r.op /\ \E i, j \in DOMAIN Order : i < j /\ Order[i] = s.path /\ Order[j] = r.path

(* The step of todo that is next, if it is one of ops. *)
IsNext(s, ops) == s.op \in ops /\ \A r \in todo \ {s} : Before(s, r)

(* sync::guard, without its absolute limit: at most a quarter of the files.  *)
Guard(e, plan) ==
    4 * Cardinality({s \in plan : s.op = "deleteFile"})
      <= Cardinality({p \in Path : e[p].hash \in Content})

-----------------------------------------------------------------------------
(* The volume was built from the host: every file is an entry; a symlink to  *)
(* a file of the directory is imported with the content it leads to.         *)
Consistent(h) == \A p \in Path, k \in Alt :
    Parent[p] # Root => h[p][k] # "dir" /\ (h[p][k] # "none" => h[Parent[p]][k] = "dir")

Imported(node) == IF node \in Content
                  THEN { [NoEntry EXCEPT !.hash = node, !.hostHash = node] }
                  ELSE IF node = "dir" THEN { [NoEntry EXCEPT !.hash = "dir"] }
                  ELSE IF node = "other"
                  THEN { NoEntry } \cup { [NoEntry EXCEPT !.hash = c, !.hostHash = c, !.link = TRUE] : c \in Content }
                  ELSE { NoEntry }

Init ==
    /\ host \in { h \in [Path -> { [k \in Alt |-> IF k = 0 THEN n ELSE "none"] : n \in Node }] : Consistent(h) }
    /\ \E e \in [Path -> UNION { Imported(n) : n \in Node }] :
         /\ \A p \in Path : e[p] \in Imported(host[p][0])
         /\ manifest = [entries |-> e, remap |-> [p \in Path |-> 0]]
         /\ tree = [p \in Path |-> e[p].hash]
         /\ had = [p \in Path |-> {e[p].hash} \cap Content]
         /\ reached = { w \in Path \X Content : e[w[1]].hash = w[2] }
    /\ saved = manifest
    /\ copies = {} /\ trash = {}
    /\ pc = "idle" /\ snap = tree /\ todo = {} /\ action = NoAction
    /\ failedDirs = {} /\ failed = FALSE /\ result = "none" /\ stamp = 0
    /\ writes = 0 /\ edits = 0

-----------------------------------------------------------------------------
(* The guest changes a file or a directory of its volume.                   *)
GuestChange ==
    /\ writes < MaxWrites /\ writes' = writes + 1
    /\ \E p \in Path, item \in Item :
         /\ item # tree[p]
         /\ Parent[p] # Root => item # "dir" /\ tree[Parent[p]] = "dir"
         /\ "dir" \in {tree[p], item} => \A q \in Kids(p) : tree[q] = "none"
         /\ tree' = [tree EXCEPT ![p] = item]
         /\ had' = [had EXCEPT ![p] = @ \cup ({item} \cap Content)]
    /\ UNCHANGED << disk, manifest, saved, pc, work, result, reached, edits >>

(* The user changes the host at one place; what was in a directory goes with *)
(* it.  The path the sync is just at, and the directory above it, are left   *)
(* alone but in the windows.                                                 *)
MayEdit(p) ==
    LET a == action.path
    IN  a # Root =>
          /\ p # Parent[a]
          /\ a \in {p, Parent[p]} => \/ pc = "check"
                                    \/ (pc \in {"write", "move"} /\ "check" \in Windows)
                                    \/ (pc = "record" /\ "record" \in Windows)

Without(h, d, k) == [q \in Path |-> IF Parent[q] = d THEN [h[q] EXCEPT ![k] = "none"] ELSE h[q]]

HostEdit ==
    /\ edits < MaxEdits /\ edits' = edits + 1
    /\ \E p \in Path, k \in Alt, node \in Node :
         /\ MayEdit(p) /\ node # host[p][k]
         /\ IF Parent[p] = Root THEN k = 0 \/ host[p][k] # "none"
                                ELSE host[Parent[p]][k] = "dir" /\ node # "dir"
         /\ host' = [Without(host, p, k) EXCEPT ![p][k] = node]
         /\ copies' = { c \in copies : ~(Parent[c.path] = p /\ c.place = k) }
         /\ reached' = reached \cup ({<< p, node >>} \cap (Path \X Content))
    /\ UNCHANGED << trash, tree, manifest, saved, pc, work, result, had, writes >>

-----------------------------------------------------------------------------
(* DirVolume::sync, up to apply.                                            *)
SyncStart(force) ==
    /\ pc = "idle" /\ stamp < MaxSyncs /\ stamp' = stamp + 1
    /\ snap' = tree
    /\ LET plan == Plan(Entries, tree)
       IN  \/ /\ plan = {}
              /\ result' = "ok" /\ UNCHANGED << pc, todo >>
           \/ /\ plan # {} /\ ~force /\ ~Guard(Entries, plan)
              /\ result' = "guard" /\ UNCHANGED << pc, todo >>
           \/ /\ plan # {} /\ (force \/ Guard(Entries, plan))
              /\ result' = "none" /\ pc' = "apply" /\ todo' = plan
    /\ action' = NoAction /\ failedDirs' = {} /\ failed' = FALSE
    /\ UNCHANGED << disk, tree, manifest, saved, reached, bound >>

Unmoved == UNCHANGED << tree, saved, snap, stamp, result, bound >>

(* The path is done with: on to the next one, or to saving the manifest.    *)
Advance == action' = NoAction /\ pc' = IF todo' = {} THEN "save" ELSE "apply"

Note(p, entry) == manifest' = [manifest EXCEPT !.entries[p] = entry]

(* Deletions: the entry goes first, then the host is looked at.              *)
Trashable(p, entry) ==
    IF entry.hash = "dir"
    THEN At(p) = "dir" /\ OnlyEmptyDirs(p)
    ELSE ~entry.link /\ ~entry.diverged /\ Parents(p) = "real" /\ HostState(p, entry) = "same"

Delete ==
    /\ pc = "apply"
    /\ \E s \in todo :
         LET p == s.path
         IN  /\ IsNext(s, {"deleteFile", "deleteDir"}) /\ todo' = todo \ {s}
             /\ Note(p, NoEntry)
             /\ \/ /\ Trashable(p, Entries[p])
                   /\ pc' = "move" /\ action' = [NoAction EXCEPT !.path = p]
                \/ (~Trashable(p, Entries[p]) \/ "io" \in Faults) /\ Advance
    /\ UNCHANGED << disk, failedDirs, failed, reached >> /\ Unmoved

MoveToTrash ==
    /\ pc = "move" /\ UNCHANGED todo
    /\ LET p     == action.path
           moved == { q \in {p} \cup Kids(p) : host[q][Place(p)] # "none" }
       IN  \/ /\ At(p) # "none"
              /\ trash' = trash \cup { [path |-> q, node |-> host[q][Place(p)]] : q \in moved }
              /\ host' = [q \in Path |-> IF q \in moved THEN [host[q] EXCEPT ![Place(p)] = "none"]
                                                        ELSE host[q]]
           \/ /\ (At(p) = "none" \/ "io" \in Faults)
              /\ UNCHANGED << trash, host >>
    /\ Advance
    /\ UNCHANGED << copies, manifest, failedDirs, failed, reached >> /\ Unmoved

(* Applier::ensure_dir: a missing directory is created, one whose name the   *)
(* host gave away becomes a conflict directory.                              *)
FreeAlt(d) == { k \in Alt \ {0} : host[d][k] = "none" }

EnsureDir(d) ==
    \/ d = Root /\ UNCHANGED << host, manifest >>
    \/ d # Root /\ At(d) = "dir" /\ UNCHANGED << host, manifest >>
    \/ /\ d # Root /\ At(d) = "none"
       /\ host' = [host EXCEPT ![d][Place(d)] = "dir"] /\ UNCHANGED manifest
    \/ /\ d # Root /\ At(d) \notin {"dir", "none"}
       /\ \E k \in FreeAlt(d) :
            /\ \A j \in FreeAlt(d) : k <= j
            /\ host' = [host EXCEPT ![d][k] = "dir"]
            /\ manifest' = [manifest EXCEPT !.remap[d] = k]

EnsureFails(d) ==
    d # Root /\ ("io" \in Faults \/ (At(d) \notin {"dir", "none"} /\ FreeAlt(d) = {}))

DirFailed(d) ==
    /\ failed' = TRUE /\ failedDirs' = failedDirs \cup {d}
    /\ Advance /\ UNCHANGED << host, manifest >>

AddDir ==
    /\ pc = "apply"
    /\ \E s \in todo :
         LET d == s.path
         IN  /\ IsNext(s, {"addDir"}) /\ todo' = todo \ {s}
             /\ \/ /\ EnsureDir(d)
                   /\ pc' = "record" /\ action' = [NoAction EXCEPT !.path = d]
                   /\ UNCHANGED << failed, failedDirs >>
                \/ EnsureFails(d) /\ DirFailed(d)
    /\ UNCHANGED << copies, trash, reached >> /\ Unmoved

(* A file to write: its directory, ...                                      *)
FileDir ==
    /\ pc = "apply"
    /\ \E s \in todo :
         LET p == s.path
         IN  /\ IsNext(s, {"file"}) /\ todo' = todo \ {s}
             /\ \/ /\ Parent[p] \in failedDirs
                   /\ failed' = TRUE /\ Advance /\ UNCHANGED << host, manifest, failedDirs >>
                \/ /\ Parent[p] \notin failedDirs /\ EnsureDir(Parent[p])
                   /\ pc' = "check" /\ action' = [NoAction EXCEPT !.path = p]
                   /\ UNCHANGED << failed, failedDirs >>
                \/ Parent[p] \notin failedDirs /\ EnsureFails(Parent[p]) /\ DirFailed(Parent[p])
    /\ UNCHANGED << copies, trash, reached >> /\ Unmoved

(* Mutant: a file that could not be written gets its entry all the same.    *)
FileFailsRecorded ==
    failed' = TRUE /\ pc' = "record" /\ UNCHANGED << action, host, copies, trash, reached >>

FileFails ==
    failed' = TRUE /\ Advance /\ UNCHANGED << host, copies, trash, reached >>

(* Mutants: a diverged path is replaced; what the host has is not adopted.  *)
MayReplaceDiverged(state, entry) == state = "same" /\ ~entry.link
AdoptsNothing(p) == FALSE

Adopts(p) == At(p) = snap[p]

(* ... what the host has at its path: adopted when it already is the guest's *)
(* content, else replaced only when it is the version the guest saw.         *)
MayReplace(state, entry) == state = "same" /\ ~entry.diverged /\ ~entry.link

FileCheck ==
    /\ pc = "check" /\ UNCHANGED todo
    /\ LET p     == action.path
           entry == IF Modified(Entries, snap, p) THEN Entries[p] ELSE NoEntry
           state == HostState(p, entry)
       IN  \/ /\ Adopts(p)
              /\ pc' = "record" /\ UNCHANGED << action, failed >>
           \/ /\ ~Adopts(p)
              /\ action' = [NoAction EXCEPT !.path = p, !.state = state, !.replace = MayReplace(state, entry)]
              /\ pc' = "write" /\ UNCHANGED failed
           \/ "io" \in Faults /\ failed' = TRUE /\ Advance
    /\ UNCHANGED << disk, manifest, failedDirs, reached >> /\ Unmoved

(* Mutant: a new file is renamed into place, over whatever is there.        *)
LinkNewRenamed(p) ==
    /\ host' = [host EXCEPT ![p][Place(p)] = snap[p]]
    /\ UNCHANGED << copies, trash >>

(* The temporary copy, then the link or the rename into place.  A link never *)
(* replaces what has appeared meanwhile.                                     *)
LinkNew(p) ==
    /\ At(p) = "none"
    /\ host' = [host EXCEPT ![p][Place(p)] = snap[p]]
    /\ UNCHANGED << copies, trash >>

Replace(p) ==
    /\ At(p) \notin {"none", "dir"}
    /\ trash' = trash \cup {[path |-> p, node |-> At(p)]}
    /\ host' = [host EXCEPT ![p][Place(p)] = snap[p]]
    /\ UNCHANGED copies

ConflictCopy(p) ==
    /\ copies' = copies \cup {[path |-> p, place |-> Place(p), content |-> snap[p], stamp |-> stamp]}
    /\ UNCHANGED << host, trash >>

FileWrite ==
    /\ pc = "write" /\ UNCHANGED todo
    /\ LET p     == action.path
           fresh == action.state = "missing"
       IN  \/ /\ Parents(p) = "real"
              /\ \/ fresh /\ LinkNew(p)
                 \/ action.replace /\ Replace(p)
                 \/ ~fresh /\ ~action.replace /\ ConflictCopy(p)
              /\ reached' = reached \cup {<< p, snap[p] >>}
              /\ action' = [action EXCEPT !.conflict = ~fresh /\ ~action.replace]
              /\ pc' = "record" /\ UNCHANGED failed
           \/ /\ \/ "io" \in Faults \/ Parents(p) # "real"
                 \/ fresh /\ At(p) # "none"
                 \/ action.replace /\ At(p) \in {"none", "dir"}
              /\ FileFails
    /\ UNCHANGED << manifest, failedDirs >> /\ Unmoved

(* The new entry: the image side from the snapshot, the host side read again *)
(* from the host.  After a conflict the host side stays what the guest last  *)
(* saw.                                                                      *)
NewEntry(p, item, conflict) ==
    LET old == Entries[p]
        new == EntryFrom(p, item)
    IN  IF ~conflict THEN new
        ELSE [hash |-> item, link |-> old.link, diverged |-> TRUE,
              hostHash |-> IF old # NoEntry THEN old.hostHash ELSE new.hostHash]

Record ==
    /\ pc = "record" /\ UNCHANGED todo
    /\ LET p == action.path
       IN  Note(p, NewEntry(p, snap[p], action.conflict))
    /\ Advance
    /\ UNCHANGED << disk, failedDirs, failed, reached >> /\ Unmoved

(* The manifest is saved whatever failed before.                            *)
Save ==
    /\ pc = "save" /\ pc' = "idle"
    /\ \/ /\ saved' = manifest
          /\ result' = IF failed THEN "incomplete" ELSE "ok"
       \/ /\ "save" \in Faults
          /\ result' = "io" /\ UNCHANGED saved
    /\ UNCHANGED << disk, tree, manifest, work, reached, bound >>

(* The process is killed; the next start resumes the image with the manifest *)
(* it finds.                                                                 *)
Kill ==
    /\ "kill" \in Faults /\ (pc # "idle" \/ manifest # saved)
    /\ manifest' = saved
    /\ pc' = "idle" /\ todo' = {} /\ action' = NoAction
    /\ failedDirs' = {} /\ failed' = FALSE /\ result' = "none"
    /\ UNCHANGED << disk, tree, saved, snap, stamp, reached, bound >>

Sync ==
    \/ \E force \in BOOLEAN : SyncStart(force)
    \/ Delete \/ MoveToTrash \/ AddDir \/ FileDir \/ FileCheck \/ FileWrite \/ Record \/ Save

Next == GuestChange \/ HostEdit \/ Sync \/ Kill

Spec == Init /\ [][Next]_vars

-----------------------------------------------------------------------------
(***************************************************************************)
(* Properties.                                                             *)
(***************************************************************************)
TypeOK ==
    /\ host \in [Path -> [Alt -> Node]] /\ Consistent(host)
    /\ copies \subseteq [path : Path, place : Alt, content : Content, stamp : 1 .. MaxSyncs]
    /\ trash \subseteq [path : Path, node : Node]
    /\ {tree, snap} \subseteq [Path -> Item]
    /\ {manifest, saved} \subseteq [entries : [Path -> Entry \cup {NoEntry}], remap : [Path -> Alt]]
    /\ todo \subseteq Step
    /\ pc \in {"idle", "apply", "move", "check", "write", "record", "save"}
    /\ action \in [path : Path \cup {Root}, state : {"missing", "same", "changed"}, replace : BOOLEAN, conflict : BOOLEAN]
    /\ (pc \in {"move", "check", "write", "record"}) = (action.path # Root)
    /\ pc = "apply" => todo # {}
    /\ pc \in {"idle", "save"} => todo = {}
    /\ failedDirs \subseteq Path /\ failed \in BOOLEAN
    /\ result \in {"none", "ok", "guard", "incomplete", "io"}
    /\ stamp \in 0 .. MaxSyncs /\ writes \in 0 .. MaxWrites /\ edits \in 0 .. MaxEdits
    /\ had \in [Path -> SUBSET Content] /\ reached \subseteq Path \X Content

(* A manifest entry says that this content of the guest reached the host: a  *)
(* path that failed, or whose sync was killed, stays in the plan.  Without   *)
(* it a rebuild would drop the only copy.                                    *)
Honest(m) == \A p \in Path : m.entries[p].hash \in Content => << p, m.entries[p].hash >> \in reached
ManifestHonest == Honest(manifest) /\ Honest(saved)

(* What a sync reports is what is left to do of its snapshot: nothing after  *)
(* Ok, something after Incomplete (SyncError::Incomplete: "the caller must   *)
(* then keep the image").                                                    *)
ResultTellsTheRest ==
    pc = "idle" => /\ result = "ok"         => Plan(Entries, snap) = {}
                   /\ result = "incomplete" => Plan(Entries, snap) # {}

(* What the manifest and the result claim of the host is so, whatever failed *)
(* and wherever the sync was killed.                                         *)
ClaimsHold == TypeOK /\ ManifestHonest /\ ResultTellsTheRest

(* A step of the sync that takes a content off a host path.                 *)
Takes(p, k) == edits' = edits /\ host[p][k] \in Content /\ host'[p][k] # host[p][k]

(* "The previous version survives": whatever a sync replaces or removes is   *)
(* in the trash, also when the host changed it within the windows.           *)
HostVersionsKept ==
    [][\A p \in Path, k \in Alt :
         Takes(p, k) => [path |-> p, node |-> host[p][k]] \in trash']_vars

(* "The host version is never replaced by a guest version the guest wrote    *)
(* without having seen it", nor deleted by such a guest.                     *)
OnlySeenReplaced == [][\A p \in Path, k \in Alt : Takes(p, k) => host[p][k] \in had[p]]_vars

(* A conflict copy is made only of a version the host does not have at its   *)
(* path: a repeated sync adopts what an earlier one wrote.                   *)
CopiesAreNews ==
    [][\A c \in copies' \ copies : host[c.path][c.place] # c.content]_vars

(* A sync that reports success has saved what it wrote.                     *)
OkIsSaved == pc = "idle" /\ result = "ok" => saved = manifest
=============================================================================
