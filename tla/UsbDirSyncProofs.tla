-------------------------- MODULE UsbDirSyncProofs --------------------------
(***************************************************************************)
(* What UsbDirSync promises of the host directory, for every directory,    *)
(* every number of changes and syncs, every fault and kill.                *)
(***************************************************************************)
EXTENDS UsbDirSync, TLAPS

-----------------------------------------------------------------------------
(* What a sync claims.                                                     *)

(* Directories are not in directories. *)
DirsOnTop == \A p \in Path : Parent[p] # Root => tree[p] # "dir" /\ snap[p] # "dir"

(* Every content the host holds has been seen there; so has what the entry  *)
(* that is about to be written claims.                                      *)
OnHost ==
    /\ \A p \in Path, k \in Alt : host[p][k] \in Content => << p, host[p][k] >> \in reached
    /\ pc = "record" /\ snap[action.path] \in Content => << action.path, snap[action.path] >> \in reached

(* The steps that are left are what the manifest still lacks of the         *)
(* snapshot, but for the path at work; one that failed stays lacking.       *)
AtWork(p) == pc \in {"check", "write", "record"} /\ action.path = p

StepsLeft ==
    /\ pc # "idle" => stamp > 0
    /\ todo \subseteq Plan(Entries, snap)
    /\ \A p \in Path : AtWork(p) =>
         /\ snap[p] # "none" /\ (pc # "record" => snap[p] # "dir")
         /\ \E s \in Plan(Entries, snap) : s.path = p
         /\ \A s \in todo : s.path # p /\ s.op \in {"addDir", "file"}
    /\ pc # "idle" /\ ~failed => \A s \in Plan(Entries, snap) : s \in todo \/ AtWork(s.path)
    /\ pc # "idle" /\ failed =>
         \E s \in Plan(Entries, snap) : ~AtWork(s.path) /\ \A r \in todo : r.path # s.path

SyncClaims == TypeOK /\ DirsOnTop /\ OnHost /\ ManifestHonest /\ StepsLeft /\ ResultTellsTheRest

-----------------------------------------------------------------------------
(* What a sync replaces, when the host leaves the path at work alone.      *)

(* What the guest has or had; what an entry says the host had, the guest    *)
(* had, unless the path diverged or is a link.                              *)
SeenEntries(m) ==
    \A p \in Path : LET e == m.entries[p] IN
        e.hostHash \in Content /\ ~e.link /\ ~e.diverged => e.hostHash \in had[p]

Seen ==
    /\ \A p \in Path : /\ tree[p] \in Content => tree[p] \in had[p]
                       /\ snap[p] \in Content => snap[p] \in had[p]
    /\ SeenEntries(manifest) /\ SeenEntries(saved)

(* What a step found at its path is still there. *)
Settled ==
    LET p == action.path IN
    /\ pc = "move" => /\ At(p) \in Content => At(p) \in had[p]
                      /\ \A q \in Kids(p) : host[q][Place(p)] = "none"
    /\ pc = "write" => At(p) # snap[p] /\ (action.replace => At(p) \in had[p])
    /\ pc = "record" /\ ~action.conflict /\ snap[p] \in Content => At(p) = snap[p]

SyncSees == Seen /\ Settled

-----------------------------------------------------------------------------
(* Paths, places and the plan. *)

Ops == {"deleteFile", "deleteDir", "addDir", "file"}
Man == [entries : [Path -> Entry \cup {NoEntry}], remap : [Path -> Alt]]

LEMMA SyncPaths ==
  /\ Root \notin Path /\ 0 \in Alt
  /\ "none" \notin Content /\ "dir" \notin Content /\ "other" \notin Content
  /\ \A p \in Path : Parent[p] = Root \/ (Parent[p] \in Path /\ Parent[Parent[p]] = Root /\ Kids(p) = {})
  BY SyncAssumption DEF Alt

LEMMA SyncTurns ==
  DOMAIN Turn = Ops /\ Turn.deleteFile = 1 /\ Turn.deleteDir = 2 /\ Turn.addDir = 3 /\ Turn.file = 4
  BY DEF Turn, Ops

LEMMA SyncSteps == Step = [op : Ops, path : Path]
  BY SyncTurns DEF Step

LEMMA SyncKinds ==
  ASSUME NEW e, NEW t, NEW s \in Step
  PROVE  s \in Plan(e, t) <=>
           \/ s.op = "deleteFile" /\ Deleted(e, t, s.path) /\ e[s.path].hash # "dir"
           \/ s.op = "deleteDir" /\ Deleted(e, t, s.path) /\ e[s.path].hash = "dir"
           \/ s.op = "addDir" /\ Added(e, t, s.path) /\ t[s.path] = "dir"
           \/ s.op = "file" /\ (Modified(e, t, s.path) \/ (Added(e, t, s.path) /\ t[s.path] # "dir"))
  BY SyncSteps DEF Ops, Plan, Planned

(* A path that is the same in two manifests and snapshots has the same steps. *)
LEMMA SyncSame ==
  ASSUME NEW e, NEW f, NEW t, NEW s \in Step, e[s.path] = f[s.path]
  PROVE  s \in Plan(e, t) <=> s \in Plan(f, t)
  BY SyncKinds DEF Deleted, Added, Modified

(* The steps of the other paths, and the later ones of its own, follow a    *)
(* step that is next.                                                       *)
LEMMA SyncNext ==
  ASSUME NEW s \in todo, todo \subseteq Step, NEW ops \in SUBSET Ops, IsNext(s, ops)
  PROVE  /\ s.op \in ops /\ s \in Step
         /\ \A r \in todo \ {s} : \/ Turn[s.op] < Turn[r.op]
                                  \/ s.op = r.op /\ s.path # r.path
  <1>1. \A i, j \in DOMAIN Order : i < j => Order[i] # Order[j]
    <2>1. DOMAIN Order = 1 .. Len(Order) /\ Len(Order) \in Nat BY SyncAssumption
    <2>2. \A i, j \in DOMAIN Order : Order[i] = Order[j] => i = j BY SyncAssumption DEF IsInjective
    <2>3. QED BY <2>1, <2>2
  <1>2. QED BY <1>1 DEF IsNext, Before

(* One place of the host changes. *)
Fits(p, k, node) ==
    /\ Parent[p] = Root => node = "dir" \/ \A q \in Kids(p) : host[q][k] = "none"
    /\ Parent[p] # Root => node # "dir" /\ (node # "none" => host[Parent[p]][k] = "dir")

LEMMA SyncFits ==
  ASSUME host \in [Path -> [Alt -> Node]], Consistent(host), NEW p \in Path, NEW k \in Alt, NEW node \in Node, Fits(p, k, node),
         \A q \in Path, j \in Alt : host'[q][j] = IF q = p /\ j = k THEN node ELSE host[q][j]
  PROVE  Consistent(host')
  <1> SUFFICES ASSUME NEW q \in Path, NEW j \in Alt, Parent[q] # Root
               PROVE  host'[q][j] # "dir" /\ (host'[q][j] # "none" => host'[Parent[q]][j] = "dir")
    BY DEF Consistent
  <1>1. Parent[q] \in Path /\ host[q][j] # "dir" /\ (host[q][j] # "none" => host[Parent[q]][j] = "dir")
    BY SyncPaths DEF Consistent
  <1>2. Parent[q] = p => q \in Kids(p) BY DEF Kids
  <1>3. CASE q = p /\ j = k
    <2>1. Parent[q] # p BY <1>3, SyncPaths
    <2>2. QED BY <1>1, <1>3, <2>1 DEF Fits
  <1>4. CASE Parent[q] = p /\ j = k
    <2>1. q # p /\ Parent[p] = Root BY <1>4, SyncPaths
    <2>2. QED BY <1>1, <1>2, <1>4, <2>1 DEF Fits
  <1>5. CASE ~(q = p /\ j = k) /\ ~(Parent[q] = p /\ j = k) BY <1>1, <1>5
  <1>6. QED BY <1>3, <1>4, <1>5

LEMMA SyncPlace ==
  ASSUME host \in [Path -> [Alt -> Node]], Consistent(host), NEW p \in Path, NEW k \in Alt, NEW node \in Node,
         host' = [host EXCEPT ![p][k] = node], Fits(p, k, node)
  PROVE  /\ host' \in [Path -> [Alt -> Node]] /\ Consistent(host')
         /\ \A q \in Path, j \in Alt : host'[q][j] = IF q = p /\ j = k THEN node ELSE host[q][j]
  <1>1. host' \in [Path -> [Alt -> Node]] OBVIOUS
  <1>2. \A q \in Path, j \in Alt : host'[q][j] = IF q = p /\ j = k THEN node ELSE host[q][j] OBVIOUS
  <1>3. Consistent(host') BY ZenonT(40), <1>2, SyncFits
  <1>4. QED BY <1>1, <1>2, <1>3

(* Where a path is sought. *)
LEMMA SyncWhere ==
  ASSUME TypeOK, NEW p \in Path
  PROVE  Place(p) \in Alt /\ At(p) \in Node /\ At(p) = host[p][Place(p)]
  <1>1. Remap \in [Path -> Alt] /\ host \in [Path -> [Alt -> Node]] BY DEF TypeOK, Remap
  <1>2. Place(p) \in Alt BY <1>1, SyncPaths DEF Place
  <1>3. QED BY <1>1, <1>2 DEF At

LEMMA SyncMan == ASSUME TypeOK PROVE manifest \in Man /\ saved \in Man /\ Entries \in [Path -> Entry \cup {NoEntry}] /\ Remap \in [Path -> Alt]
  BY DEF TypeOK, Man, Entries, Remap

-----------------------------------------------------------------------------
(* Types. *)

Ongoing == {"move", "check", "write", "record"}
Actions == [path : Path \cup {Root}, state : {"missing", "same", "changed"}, replace : BOOLEAN, conflict : BOOLEAN]

LEMMA SyncNames ==
  /\ NoAction \in Actions /\ NoAction.path = Root
  /\ \A p \in Path : [NoAction EXCEPT !.path = p] \in Actions /\ [NoAction EXCEPT !.path = p].path = p
  /\ \A n \in Node : n \in Content \/ n \in {"none", "dir", "other"}
  /\ {"none", "dir"} \subseteq Node /\ Content \subseteq Node
  BY DEF NoAction, Actions, Node

(* A directory is there, made, or made elsewhere. *)
LEMMA SyncEnsures ==
  ASSUME TypeOK, NEW d \in Path \cup {Root}, d # Root => Parent[d] = Root, EnsureDir(d)
  PROVE  /\ host' \in [Path -> [Alt -> Node]] /\ Consistent(host')
         /\ manifest' \in Man /\ manifest'.entries = manifest.entries
         /\ \A p \in Path, k \in Alt : host'[p][k] = host[p][k] \/ (host'[p][k] = "dir" /\ host[p][k] = "none")
  <1>1. host \in [Path -> [Alt -> Node]] /\ Consistent(host) /\ manifest \in Man BY SyncMan DEF TypeOK
  <1>2. CASE UNCHANGED << host, manifest >> BY <1>1, <1>2
  <1>3. CASE d # Root /\ At(d) = "none" /\ host' = [host EXCEPT ![d][Place(d)] = "dir"] /\ UNCHANGED manifest
    <2>1. Place(d) \in Alt /\ host[d][Place(d)] = "none" BY <1>3, SyncWhere
    <2>2. d \in Path /\ Parent[d] = Root BY <1>3
    <2>3. host' \in [Path -> [Alt -> Node]] /\ Consistent(host')
          /\ \A q \in Path, j \in Alt : host'[q][j] = IF q = d /\ j = Place(d) THEN "dir" ELSE host[q][j]
      <3>1. "dir" \in Node /\ Fits(d, Place(d), "dir") BY <2>2, SyncNames DEF Fits
      <3>2. QED BY <1>1, <1>3, <2>1, <2>2, <3>1, SyncPlace
    <2>4. QED BY <1>1, <1>3, <2>1, <2>2, <2>3
  <1>4. CASE d # Root /\ \E k \in FreeAlt(d) : host' = [host EXCEPT ![d][k] = "dir"] /\ manifest' = [manifest EXCEPT !.remap[d] = k]
    <2>1. PICK k \in FreeAlt(d) : host' = [host EXCEPT ![d][k] = "dir"] /\ manifest' = [manifest EXCEPT !.remap[d] = k]
      BY <1>4
    <2>2. k \in Alt /\ host[d][k] = "none" BY <2>1 DEF FreeAlt
    <2>3. manifest' \in Man /\ manifest'.entries = manifest.entries BY <1>1, <2>1, <2>2 DEF Man
    <2>4. d \in Path /\ Parent[d] = Root BY <1>4
    <2>5. host' \in [Path -> [Alt -> Node]] /\ Consistent(host')
          /\ \A q \in Path, j \in Alt : host'[q][j] = IF q = d /\ j = k THEN "dir" ELSE host[q][j]
      <3>1. "dir" \in Node /\ Fits(d, k, "dir") BY <2>4, SyncNames DEF Fits
      <3>2. QED BY ZenonT(40), <1>1, <2>1, <2>2, <2>4, <3>1, SyncPlace
    <2>6. QED BY <1>1, <2>1, <2>2, <2>3, <2>4, <2>5
  <1>5. QED BY <1>2, <1>3, <1>4 DEF EnsureDir

(* The types that a step of a sync moves. *)
LEMMA SyncTyped ==
  ASSUME TypeOK, Unmoved, host' \in [Path -> [Alt -> Node]], Consistent(host'),
         copies' \subseteq [path : Path, place : Alt, content : Content, stamp : 1 .. MaxSyncs],
         trash' \subseteq [path : Path, node : Node], manifest' \in Man,
         todo' \subseteq Step, action' \in Actions,
         pc' \in {"idle", "apply", "move", "check", "write", "record", "save"},
         (pc' \in Ongoing) = (action'.path # Root), pc' = "apply" => todo' # {}, pc' \in {"idle", "save"} => todo' = {},
         failedDirs' \subseteq Path, failed' \in BOOLEAN, reached' \subseteq Path \X Content
  PROVE  TypeOK'
  BY DEF TypeOK, Unmoved, bound, Man, Actions, Ongoing

LEMMA SyncAdvances ==
  ASSUME Advance, todo' \subseteq Step
  PROVE  /\ action' \in Actions /\ action'.path = Root /\ pc' \in {"save", "apply"}
         /\ (pc' \in Ongoing) = (action'.path # Root) /\ (pc' = "apply" => todo' # {}) /\ (pc' \in {"idle", "save"} => todo' = {})
  BY SyncNames DEF Advance, Ongoing

(* The path at work, when there is one. *)
LEMMA SyncAtWork ==
  ASSUME TypeOK, pc \in Ongoing
  PROVE  action.path \in Path
  BY DEF TypeOK, Ongoing

(* A noted entry. *)
LEMMA SyncNotes ==
  ASSUME TypeOK, NEW p \in Path, NEW entry \in Entry \cup {NoEntry}, Note(p, entry)
  PROVE  /\ manifest' \in Man /\ manifest'.remap = manifest.remap
         /\ Entries' = [Entries EXCEPT ![p] = entry] /\ Entries' \in [Path -> Entry \cup {NoEntry}]
  <1>1. manifest \in Man BY SyncMan
  <1>2. manifest' = [manifest EXCEPT !.entries = [manifest.entries EXCEPT ![p] = entry]] BY <1>1 DEF Note, Man
  <1>3. QED BY <1>1, <1>2 DEF Man, Entries

-----------------------------------------------------------------------------
(* The plan. *)

(* What a planned step says of its path. *)
LEMMA SyncMeans ==
  ASSUME TypeOK, NEW s \in Plan(Entries, snap)
  PROVE  /\ s \in Step /\ s.path \in Path /\ s.op \in Ops /\ snap[s.path] \in Item
         /\ s.op = "addDir" => snap[s.path] = "dir"
         /\ s.op = "file" => snap[s.path] \in Content
         /\ s.op \in {"deleteFile", "deleteDir"} => Deleted(Entries, snap, s.path)
  <1>1. s \in Step BY DEF Plan
  <1>2. s.path \in Path /\ s.op \in Ops BY <1>1, SyncSteps
  <1>3. snap[s.path] \in Item BY <1>2 DEF TypeOK
  <1>4. s.op = "addDir" => snap[s.path] = "dir" BY <1>1, SyncKinds
  <1>5. s.op = "file" => Modified(Entries, snap, s.path) \/ (Added(Entries, snap, s.path) /\ snap[s.path] # "dir")
    BY <1>1, SyncKinds
  <1>6. s.op = "file" => snap[s.path] \in Content BY <1>3, <1>5 DEF Modified, Added, Item
  <1>7. s.op \in {"deleteFile", "deleteDir"} => Deleted(Entries, snap, s.path) BY <1>1, SyncKinds
  <1>8. QED BY <1>1, <1>2, <1>3, <1>4, <1>6, <1>7

(* A deletion's entry is gone: that step is done and no other.              *)
LEMMA SyncDeletes ==
  ASSUME NEW e \in [Path -> Entry \cup {NoEntry}], NEW t \in [Path -> Item], NEW s \in Plan(e, t),
         s.op \in {"deleteFile", "deleteDir"}, NEW f, f[s.path] = NoEntry, \A q \in Path : q # s.path => f[q] = e[q]
  PROVE  Plan(f, t) = Plan(e, t) \ {s}
  <1> DEFINE p == s.path
  <1>1. s \in Step /\ p \in Path /\ e[p] \in Entry \cup {NoEntry} /\ t[p] \in Item BY SyncSteps DEF Plan
  <1>2. f[p] = NoEntry /\ \A q \in Path : q # p => f[q] = e[q] BY <1>1
  <1>3. Deleted(e, t, p) /\ (s.op = "deleteFile" <=> e[p].hash # "dir") BY <1>1, SyncKinds
  <1>4. ASSUME NEW r \in Step, r.path # p PROVE r \in Plan(f, t) <=> r \in Plan(e, t)
    <2>1. f[r.path] = e[r.path] BY <1>2, <1>4, SyncSteps
    <2>2. QED BY <2>1, SyncSame
  <1>5. ASSUME NEW r \in Step, r.path = p PROVE r \in Plan(f, t) <=> r \in Plan(e, t) /\ r # s
    <2>1. f[p].hash = "none" BY <1>2 DEF NoEntry
    <2>2. ~Deleted(f, t, p) /\ ~Modified(f, t, p) BY <1>2, <2>1, SyncPaths DEF Deleted, Modified
    <2>3. Added(f, t, p) <=> t[p] # "none" BY <1>2 DEF Added
    <2>4. r \in Plan(f, t) <=> \/ r.op = "addDir" /\ t[p] = "dir"
                               \/ r.op = "file" /\ t[p] # "none" /\ t[p] # "dir"
      BY <1>5, <2>2, <2>3, SyncKinds
    <2>5. ~Modified(e, t, p) BY <1>3, SyncPaths DEF Deleted, Modified
    <2>6. Added(e, t, p) <=> t[p] # "none" BY <1>3 DEF Deleted, Added
    <2>7. r \in Plan(e, t) <=> \/ r.op = "deleteFile" /\ e[p].hash # "dir"
                               \/ r.op = "deleteDir" /\ e[p].hash = "dir"
                               \/ r.op = "addDir" /\ t[p] = "dir"
                               \/ r.op = "file" /\ t[p] # "none" /\ t[p] # "dir"
      BY <1>3, <1>5, <2>5, <2>6, SyncKinds
    <2>8. r = s <=> r.op = s.op BY <1>1, <1>5, SyncSteps
    <2>9. QED BY <1>3, <2>4, <2>7, <2>8
  <1>6. Plan(f, t) \subseteq Step /\ Plan(e, t) \subseteq Step BY DEF Plan
  <1>7. QED BY <1>4, <1>5, <1>6

(* An entry with the snapshot's content leaves nothing to do at its path.   *)
LEMMA SyncRecords ==
  ASSUME NEW e \in [Path -> Entry \cup {NoEntry}], NEW t \in [Path -> Item], NEW p \in Path,
         t[p] # "none", NEW f, f[p].hash = t[p], \A q \in Path : q # p => f[q] = e[q]
  PROVE  \A s : s \in Plan(f, t) <=> s \in Plan(e, t) /\ s.path # p
  <1>1. f[p].hash = t[p] /\ \A q \in Path : q # p => f[q] = e[q] OBVIOUS
  <1>2. ASSUME NEW r \in Step, r.path # p PROVE r \in Plan(f, t) <=> r \in Plan(e, t)
    <2>1. f[r.path] = e[r.path] BY <1>1, <1>2, SyncSteps
    <2>2. QED BY <2>1, SyncSame
  <1>3. ASSUME NEW r \in Step, r.path = p PROVE r \notin Plan(f, t)
    <2>1. f[p] # NoEntry BY <1>1 DEF NoEntry
    <2>2. ~Deleted(f, t, p) BY <1>1 DEF Deleted
    <2>3. ~Added(f, t, p) BY <1>1, <2>1 DEF Added
    <2>4. ~Modified(f, t, p) BY <1>1 DEF Modified
    <2>5. QED BY <1>3, <2>2, <2>3, <2>4, SyncKinds
  <1>4. Plan(f, t) \subseteq Step /\ Plan(e, t) \subseteq Step BY DEF Plan
  <1>5. QED BY <1>2, <1>3, <1>4

(* The step that is next, when the deletions are done, is the only one of   *)
(* its path.                                                                *)
LEMMA SyncFirst ==
  ASSUME SyncClaims, NEW s \in todo, NEW ops \in SUBSET {"addDir", "file"}, IsNext(s, ops)
  PROVE  /\ s \in Plan(Entries, snap) /\ s.path \in Path /\ s.op \in ops
         /\ \A r \in todo \ {s} : r.path # s.path /\ r.op \in {"addDir", "file"}
  <1>1. TypeOK /\ todo \subseteq Plan(Entries, snap) /\ todo \subseteq Step BY DEF SyncClaims, StepsLeft, TypeOK
  <1>2. s \in Plan(Entries, snap) BY <1>1
  <1>3. s.op \in ops /\ \A r \in todo \ {s} : Turn[s.op] < Turn[r.op] \/ (s.op = r.op /\ s.path # r.path)
    BY <1>1, SyncNext DEF Ops
  <1>4. ASSUME NEW r \in todo \ {s} PROVE r.path # s.path /\ r.op \in {"addDir", "file"}
    <2>1. r \in Plan(Entries, snap) BY <1>1
    <2>2. CASE s.op = r.op /\ s.path # r.path BY <1>3, <2>2
    <2>3. CASE Turn[s.op] < Turn[r.op]
      <3>1. s.op = "addDir" \/ s.op = "file" BY <1>3
      <3>2. r.op \in Ops BY <1>1, <2>1, SyncMeans
      <3>3. s.op = "addDir" /\ r.op = "file" BY <2>3, <3>1, <3>2, SyncTurns DEF Ops
      <3>4. snap[s.path] = "dir" /\ snap[r.path] \in Content BY <1>1, <1>2, <2>1, <3>3, SyncMeans
      <3>5. QED BY <3>3, <3>4, SyncPaths
    <2>4. QED BY <1>3, <2>2, <2>3
  <1>5. QED BY <1>1, <1>2, <1>3, <1>4, SyncMeans

-----------------------------------------------------------------------------
(* Each step of a sync keeps what the sync claims. *)

(* A step of a sync that has begun leaves the rest as it was. *)
LEMMA SyncRest ==
  ASSUME SyncClaims, Unmoved, pc # "idle", pc' # "idle", TypeOK', OnHost', ManifestHonest', StepsLeft'
  PROVE  SyncClaims'
  <1>1. DirsOnTop' BY DEF SyncClaims, DirsOnTop, Unmoved
  <1>2. ResultTellsTheRest' BY DEF ResultTellsTheRest
  <1>3. QED BY <1>1, <1>2 DEF SyncClaims

LEMMA SyncHonest ==
  ASSUME ManifestHonest, manifest' \in Man, manifest'.entries = manifest.entries, saved' = saved, reached \subseteq reached'
  PROVE  ManifestHonest'
  BY DEF ManifestHonest, Honest

LEMMA SyncGuest == ASSUME SyncClaims, GuestChange PROVE SyncClaims'
  <1>1. TypeOK'
    <2>1. UNCHANGED << disk, manifest, saved, pc, work, result, reached, edits >> BY DEF GuestChange
    <2>2. PICK p \in Path, item \in Item :
            /\ tree' = [tree EXCEPT ![p] = item] /\ had' = [had EXCEPT ![p] = @ \cup ({item} \cap Content)]
      BY DEF GuestChange
    <2>3. writes' \in 0 .. MaxWrites
      <3>1. writes \in 0 .. MaxWrites /\ writes < MaxWrites /\ writes' = writes + 1 BY DEF GuestChange, SyncClaims, TypeOK
      <3>2. MaxWrites \in Nat BY SyncAssumption
      <3>3. QED BY <3>1, <3>2
    <2>4. tree' \in [Path -> Item] /\ had' \in [Path -> SUBSET Content] BY <2>2 DEF SyncClaims, TypeOK
    <2>5. QED BY <2>1, <2>3, <2>4 DEF SyncClaims, TypeOK, disk, work, Consistent
  <1>2. DirsOnTop'
    <2>1. PICK p \in Path, item \in Item : tree' = [tree EXCEPT ![p] = item] /\ (Parent[p] # Root => item # "dir")
      BY DEF GuestChange
    <2>2. tree \in [Path -> Item] /\ snap' = snap BY DEF GuestChange, SyncClaims, TypeOK, work
    <2>3. QED BY <2>1, <2>2 DEF SyncClaims, DirsOnTop
  <1>3. UNCHANGED << disk, manifest, saved, pc, work, result, reached, edits >> BY DEF GuestChange
  <1>4. OnHost' BY <1>3 DEF SyncClaims, OnHost, disk, work
  <1>5. ManifestHonest' BY <1>3 DEF SyncClaims, ManifestHonest, Honest
  <1>6. StepsLeft' BY <1>3 DEF SyncClaims, StepsLeft, work, Entries, AtWork
  <1>7. ResultTellsTheRest' BY <1>3 DEF SyncClaims, ResultTellsTheRest, work, Entries
  <1>8. QED BY <1>1, <1>2, <1>4, <1>5, <1>6, <1>7 DEF SyncClaims

LEMMA SyncEdit == ASSUME SyncClaims, HostEdit PROVE SyncClaims'
  <1>1. UNCHANGED << trash, tree, manifest, saved, pc, work, result, had, writes >> BY DEF HostEdit
  <1>2. PICK p \in Path, k \in Alt, node \in Node :
          /\ IF Parent[p] = Root THEN TRUE ELSE host[Parent[p]][k] = "dir" /\ node # "dir"
          /\ host' = [Without(host, p, k) EXCEPT ![p][k] = node]
          /\ copies' \subseteq copies /\ reached' = reached \cup ({<< p, node >>} \cap (Path \X Content))
    BY DEF HostEdit
  <1>3. host \in [Path -> [Alt -> Node]] /\ Consistent(host) /\ "none" \in Node BY SyncNames DEF SyncClaims, TypeOK
  <1> DEFINE bare == Without(host, p, k)
  <1>4. /\ bare \in [Path -> [Alt -> Node]]
        /\ \A q \in Path, j \in Alt : bare[q][j] = IF Parent[q] = p /\ j = k THEN "none" ELSE host[q][j]
    BY <1>3 DEF Without
  <1>5. host' = [bare EXCEPT ![p][k] = node] BY <1>2
  <1> HIDE DEF bare
  <1>6. /\ host' \in [Path -> [Alt -> Node]]
        /\ \A q \in Path, j \in Alt : host'[q][j] = IF q = p /\ j = k THEN node
                                                    ELSE IF Parent[q] = p /\ j = k THEN "none" ELSE host[q][j]
    BY <1>4, <1>5
  <1>7. Consistent(host')
    <2> SUFFICES ASSUME NEW q \in Path, NEW j \in Alt, Parent[q] # Root
                 PROVE  host'[q][j] # "dir" /\ (host'[q][j] # "none" => host'[Parent[q]][j] = "dir")
      BY DEF Consistent
    <2>1. Parent[q] \in Path /\ Parent[Parent[q]] = Root /\ host[q][j] # "dir" /\ (host[q][j] # "none" => host[Parent[q]][j] = "dir")
      BY <1>3, SyncPaths DEF Consistent
    <2>2. Parent[q] # q /\ Parent[Parent[q]] \notin Path BY <2>1, SyncPaths
    <2>3. CASE q = p /\ j = k BY <1>2, <1>6, <2>1, <2>2, <2>3
    <2>4. CASE Parent[q] = p /\ j = k BY <1>6, <2>1, <2>2, <2>4
    <2>5. CASE ~(q = p /\ j = k) /\ ~(Parent[q] = p /\ j = k) BY <1>6, <2>1, <2>2, <2>5
    <2>6. QED BY <2>3, <2>4, <2>5
  <1>8. TypeOK'
    <2>1. edits' \in 0 .. MaxEdits
      <3>1. edits \in 0 .. MaxEdits /\ edits < MaxEdits /\ edits' = edits + 1 BY DEF HostEdit, SyncClaims, TypeOK
      <3>2. MaxEdits \in Nat BY SyncAssumption
      <3>3. QED BY <3>1, <3>2
    <2>2. copies' \subseteq [path : Path, place : Alt, content : Content, stamp : 1 .. MaxSyncs] BY <1>2 DEF SyncClaims, TypeOK
    <2>3. reached' \subseteq Path \X Content BY <1>2 DEF SyncClaims, TypeOK
    <2>4. QED BY <1>1, <1>6, <1>7, <2>1, <2>2, <2>3 DEF SyncClaims, TypeOK, work
  <1>9. reached \subseteq reached' BY <1>2
  <1>10. OnHost'
    <2>1. ASSUME NEW q \in Path, NEW j \in Alt, host'[q][j] \in Content PROVE << q, host'[q][j] >> \in reached'
      <3>1. CASE q = p /\ j = k
        <4>1. host'[q][j] = node BY <1>6, <3>1
        <4>2. << p, node >> \in Path \X Content BY <2>1, <4>1
        <4>3. QED BY <1>2, <3>1, <4>1, <4>2
      <3>2. CASE ~(q = p /\ j = k)
        <4>1. host'[q][j] = host[q][j] BY <1>6, <2>1, <3>2, SyncPaths
        <4>2. QED BY <1>9, <2>1, <4>1 DEF SyncClaims, OnHost
      <3>3. QED BY <3>1, <3>2
    <2>2. QED BY <1>1, <1>9, <2>1 DEF SyncClaims, OnHost, work
  <1>11. ManifestHonest' BY <1>1, <1>9 DEF SyncClaims, ManifestHonest, Honest
  <1>12. DirsOnTop' /\ StepsLeft' /\ ResultTellsTheRest'
    BY <1>1 DEF SyncClaims, DirsOnTop, StepsLeft, ResultTellsTheRest, work, Entries, AtWork
  <1>13. QED BY <1>8, <1>10, <1>11, <1>12 DEF SyncClaims

LEMMA SyncStarts == ASSUME SyncClaims, \E force \in BOOLEAN : SyncStart(force) PROVE SyncClaims'
  <1>1. /\ pc = "idle" /\ stamp' = stamp + 1 /\ stamp < MaxSyncs /\ snap' = tree
        /\ action' = NoAction /\ failedDirs' = {} /\ failed' = FALSE
        /\ UNCHANGED << disk, tree, manifest, saved, reached, bound >>
    BY DEF SyncStart
  <1>2. \/ /\ result' \in {"ok", "guard"} /\ pc' = "idle" /\ todo' = {}
           /\ result' = "ok" => Plan(Entries, tree) = {}
        \/ result' = "none" /\ pc' = "apply" /\ todo' = Plan(Entries, tree) /\ todo' # {}
    BY DEF SyncStart, SyncClaims, TypeOK
  <1>3. Entries' = Entries BY <1>1 DEF Entries
  <1>4. Plan(Entries, snap)' = Plan(Entries, tree) BY <1>1, <1>3
  <1>5. TypeOK'
    <2>1. stamp' \in 0 .. MaxSyncs
      <3>1. stamp \in 0 .. MaxSyncs /\ MaxSyncs \in Nat BY SyncAssumption DEF SyncClaims, TypeOK
      <3>2. QED BY <1>1, <3>1
    <2>2. Plan(Entries, tree) \subseteq Step BY DEF Plan
    <2>3. /\ todo' \subseteq Step /\ pc' \in {"idle", "apply"} /\ (pc' = "apply" => todo' # {}) /\ (pc' = "idle" => todo' = {})
          /\ result' \in {"none", "ok", "guard"}
      BY <1>2, <2>2
    <2>4. action' \in Actions /\ action'.path = Root BY <1>1, SyncNames
    <2>5. UNCHANGED << host, copies, trash, tree, manifest, saved, reached, had, writes, edits >> BY <1>1 DEF disk, bound
    <2>6. TypeOK BY DEF SyncClaims
    <2>7. (pc' \in {"move", "check", "write", "record"}) = (action'.path # Root) BY <2>3, <2>4
    <2>8. Consistent(host') BY <2>5, <2>6 DEF TypeOK
    <2>9. QED BY ZenonT(40), <1>1, <2>1, <2>3, <2>4, <2>5, <2>6, <2>7, <2>8 DEF TypeOK, Actions
  <1>6. DirsOnTop' BY <1>1 DEF SyncClaims, DirsOnTop
  <1>7. pc' \in {"idle", "apply"} BY <1>2
  <1>8. OnHost' BY <1>1, <1>7 DEF SyncClaims, OnHost, disk
  <1>9. ManifestHonest' BY <1>1 DEF SyncClaims, ManifestHonest, Honest
  <1>10. StepsLeft'
    <2>1. \A p : ~AtWork(p)' BY <1>7 DEF AtWork
    <2>2. todo' \subseteq Plan(Entries, snap)' /\ (pc' # "idle" => todo' = Plan(Entries, snap)') BY <1>2, <1>4
    <2>3. stamp' > 0 BY <1>1 DEF SyncClaims, TypeOK
    <2>4. QED BY <1>1, <2>1, <2>2, <2>3 DEF StepsLeft
  <1>11. ResultTellsTheRest' BY <1>2, <1>4 DEF ResultTellsTheRest
  <1>12. QED BY <1>5, <1>6, <1>8, <1>9, <1>10, <1>11 DEF SyncClaims

LEMMA SyncDelete == ASSUME SyncClaims, Delete PROVE SyncClaims'
  <1>1. pc = "apply" /\ Unmoved /\ UNCHANGED << disk, failedDirs, failed, reached >> BY DEF Delete
  <1>2. PICK s \in todo :
          /\ IsNext(s, {"deleteFile", "deleteDir"}) /\ todo' = todo \ {s} /\ Note(s.path, NoEntry)
          /\ \/ pc' = "move" /\ action' = [NoAction EXCEPT !.path = s.path]
             \/ Advance
    BY DEF Delete
  <1>3. TypeOK /\ todo \subseteq Step /\ todo \subseteq Plan(Entries, snap) BY DEF SyncClaims, TypeOK, StepsLeft
  <1>4. s.path \in Path /\ s \in Plan(Entries, snap) /\ s.op \in {"deleteFile", "deleteDir"}
    BY <1>2, <1>3, SyncMeans DEF IsNext
  <1>5. /\ manifest' \in Man /\ Entries' = [Entries EXCEPT ![s.path] = NoEntry]
        /\ Entries' \in [Path -> Entry \cup {NoEntry}]
    BY <1>2, <1>3, <1>4, SyncNotes
  <1>6. snap' = snap /\ snap \in [Path -> Item] /\ Entries \in [Path -> Entry \cup {NoEntry}]
    BY <1>1, <1>3, SyncMan DEF Unmoved, TypeOK
  <1>7. Plan(Entries', snap) = Plan(Entries, snap) \ {s}
    <2>1. Entries'[s.path] = NoEntry /\ \A q \in Path : q # s.path => Entries'[q] = Entries[q] BY <1>4, <1>5, <1>6
    <2>2. QED BY <1>4, <1>6, <2>1, SyncDeletes
  <1>8. pc' \in {"move", "apply", "save"} BY <1>2 DEF Advance
  <1>9. TypeOK'
    <2>1. todo' \subseteq Step BY <1>2, <1>3
    <2>2. /\ action' \in Actions /\ (pc' \in Ongoing) = (action'.path # Root)
          /\ (pc' = "apply" => todo' # {}) /\ (pc' \in {"idle", "save"} => todo' = {})
      <3>1. CASE Advance BY <2>1, <3>1, SyncAdvances
      <3>2. CASE pc' = "move" /\ action' = [NoAction EXCEPT !.path = s.path] BY <1>4, <3>2, SyncNames, SyncPaths DEF Ongoing
      <3>3. QED BY <1>2, <3>1, <3>2
    <2>3. UNCHANGED << host, copies, trash, failedDirs, failed, reached >> BY <1>1 DEF disk
    <2>4. Consistent(host') BY <1>3, <2>3 DEF TypeOK
    <2>5. /\ host' \in [Path -> [Alt -> Node]]
          /\ copies' \subseteq [path : Path, place : Alt, content : Content, stamp : 1 .. MaxSyncs]
          /\ trash' \subseteq [path : Path, node : Node]
          /\ failedDirs' \subseteq Path /\ failed' \in BOOLEAN /\ reached' \subseteq Path \X Content
      BY <1>3, <2>3 DEF TypeOK
    <2>6. pc' \in {"idle", "apply", "move", "check", "write", "record", "save"} BY <1>8
    <2>7. QED BY <1>1, <1>3, <1>5, <2>1, <2>2, <2>4, <2>5, <2>6, SyncTyped
  <1>10. OnHost' BY <1>1, <1>8 DEF SyncClaims, OnHost, disk
  <1>11. ManifestHonest'
    <2>1. \A p \in Path : p # s.path => manifest'.entries[p] = manifest.entries[p] BY <1>3, <1>4, <1>5, SyncMan DEF Entries, Man
    <2>2. manifest'.entries[s.path].hash = "none" BY <1>4, <1>5, <1>6 DEF Entries, NoEntry
    <2>3. QED BY <1>1, <2>1, <2>2, SyncPaths DEF SyncClaims, ManifestHonest, Honest, Unmoved
  <1>12. StepsLeft'
    <2>1. \A p : ~AtWork(p) /\ ~AtWork(p)' BY <1>1, <1>8 DEF AtWork
    <2>2. Plan(Entries, snap)' = Plan(Entries, snap) \ {s} BY <1>6, <1>7
    <2>3. failed => \E t \in Plan(Entries, snap) : t # s /\ \A r \in todo : r.path # t.path
      BY <1>1, <1>2, <2>1 DEF SyncClaims, StepsLeft
    <2>4. ~failed => Plan(Entries, snap) \subseteq todo BY <1>1, <2>1 DEF SyncClaims, StepsLeft
    <2>5. stamp' > 0 BY <1>1 DEF SyncClaims, StepsLeft, Unmoved
    <2>6. QED BY <1>1, <1>2, <1>3, <2>1, <2>2, <2>3, <2>4, <2>5 DEF StepsLeft
  <1>13. pc # "idle" /\ pc' # "idle" BY <1>1, <1>8
  <1>14. QED BY <1>1, <1>9, <1>10, <1>11, <1>12, <1>13, SyncRest

LEMMA SyncTrash == ASSUME SyncClaims, MoveToTrash PROVE SyncClaims'
  <1>1. /\ pc = "move" /\ Unmoved /\ Advance
        /\ UNCHANGED << todo, copies, manifest, failedDirs, failed, reached >>
    BY DEF MoveToTrash
  <1> DEFINE p == action.path
             moved == { q \in {p} \cup Kids(p) : host[q][Place(p)] # "none" }
  <1>2. \/ /\ trash' = trash \cup { [path |-> q, node |-> host[q][Place(p)]] : q \in moved }
           /\ host' = [q \in Path |-> IF q \in moved THEN [host[q] EXCEPT ![Place(p)] = "none"] ELSE host[q]]
        \/ UNCHANGED << trash, host >>
    BY DEF MoveToTrash
  <1>3. TypeOK BY DEF SyncClaims
  <1>4. host \in [Path -> [Alt -> Node]] /\ Consistent(host) /\ "none" \in Node BY <1>3, SyncNames DEF TypeOK
  <1>5. p \in Path /\ Place(p) \in Alt BY <1>1, <1>3, SyncAtWork, SyncWhere DEF Ongoing
  <1>6. moved \subseteq Path BY <1>5 DEF Kids
  <1> DEFINE k == Place(p)
  <1>7. /\ host' \in [Path -> [Alt -> Node]]
        /\ \A q \in Path, j \in Alt : host'[q][j] = host[q][j]
                                      \/ (host'[q][j] = "none" /\ j = k /\ (q = p \/ Parent[q] = p))
        /\ \A q \in Path : Parent[q] = p /\ host'[q][k] # "none" => host'[p][k] = host[p][k]
        /\ trash' \subseteq [path : Path, node : Node]
    <2>1. CASE UNCHANGED << trash, host >> BY <1>3, <1>4, <2>1 DEF TypeOK
    <2>2. CASE /\ trash' = trash \cup { [path |-> q, node |-> host[q][Place(p)]] : q \in moved }
               /\ host' = [q \in Path |-> IF q \in moved THEN [host[q] EXCEPT ![Place(p)] = "none"] ELSE host[q]]
      <3>1. host' \in [Path -> [Alt -> Node]] BY <1>4, <1>5, <2>2
      <3>2. \A q \in Path, j \in Alt : host'[q][j] = IF q \in moved /\ j = k THEN "none" ELSE host[q][j] BY <1>4, <1>5, <2>2
      <3>3. \A q \in Path : q \in moved <=> (q = p \/ Parent[q] = p) /\ host[q][k] # "none" BY <1>5 DEF Kids
      <3>4. trash' \subseteq [path : Path, node : Node] BY <1>3, <1>4, <1>5, <1>6, <2>2 DEF TypeOK
      <3> HIDE DEF moved, k, p
      <3>5. QED BY <1>5, <3>1, <3>2, <3>3, <3>4 DEF k
    <2>3. QED BY <1>2, <2>1, <2>2
  <1> HIDE DEF p, moved, k
  <1>8. Consistent(host')
    <2> SUFFICES ASSUME NEW q \in Path, NEW j \in Alt, Parent[q] # Root
                 PROVE  host'[q][j] # "dir" /\ (host'[q][j] # "none" => host'[Parent[q]][j] = "dir")
      BY DEF Consistent
    <2>1. /\ Parent[q] \in Path /\ host[q][j] # "dir" /\ (host[q][j] # "none" => host[Parent[q]][j] = "dir")
          /\ Parent[Parent[q]] \notin Path
      BY <1>4, SyncPaths DEF Consistent
    <2>2. host'[q][j] # "dir" BY <1>7, <2>1
    <2>3. ASSUME host'[q][j] # "none" PROVE host'[Parent[q]][j] = host[Parent[q]][j]
      <3>1. CASE Parent[q] = p /\ j = k BY <1>7, <2>3, <3>1
      <3>2. CASE ~(Parent[q] = p /\ j = k) BY <1>5, <1>7, <2>1, <3>2
      <3>3. QED BY <3>1, <3>2
    <2>4. ASSUME host'[q][j] # "none" PROVE host[q][j] # "none" BY <1>7, <2>4
    <2>5. QED BY <2>1, <2>2, <2>3, <2>4
  <1>9. todo \subseteq Step BY <1>3 DEF TypeOK
  <1>10. pc' \in {"save", "apply"} BY <1>1, <1>9, SyncAdvances
  <1>11. TypeOK'
    <2>1. /\ action' \in Actions /\ todo' \subseteq Step
          /\ (pc' \in Ongoing) = (action'.path # Root) /\ (pc' = "apply" => todo' # {}) /\ (pc' \in {"idle", "save"} => todo' = {})
      BY <1>1, <1>9, SyncAdvances
    <2>2. /\ copies' \subseteq [path : Path, place : Alt, content : Content, stamp : 1 .. MaxSyncs]
          /\ failedDirs' \subseteq Path /\ failed' \in BOOLEAN /\ reached' \subseteq Path \X Content
          /\ manifest' \in Man
      BY <1>1, <1>3, SyncMan DEF TypeOK
    <2>3. pc' \in {"idle", "apply", "move", "check", "write", "record", "save"} BY <1>10
    <2>4. QED BY <1>1, <1>3, <1>7, <1>8, <2>1, <2>2, <2>3, SyncTyped
  <1>12. OnHost'
    <2>1. \A q \in Path, j \in Alt : host'[q][j] \in Content => host'[q][j] = host[q][j] BY <1>7, SyncPaths
    <2>2. QED BY <1>1, <1>10, <2>1 DEF SyncClaims, OnHost
  <1>13. ManifestHonest' BY <1>1 DEF SyncClaims, ManifestHonest, Honest, Unmoved
  <1>14. StepsLeft'
    <2>1. \A q : ~AtWork(q) /\ ~AtWork(q)' BY <1>1, <1>10 DEF AtWork
    <2>2. Plan(Entries, snap)' = Plan(Entries, snap) BY <1>1 DEF Entries, Unmoved
    <2>3. stamp' = stamp /\ pc # "idle" BY <1>1 DEF Unmoved
    <2>4. QED BY <1>1, <2>1, <2>2, <2>3 DEF SyncClaims, StepsLeft
  <1>15. pc # "idle" /\ pc' # "idle" BY <1>1, <1>10
  <1>16. QED BY <1>1, <1>11, <1>12, <1>13, <1>14, <1>15, SyncRest

(* The steps that are left, when the next one begins at its path or fails.  *)
LEMMA SyncBegins ==
  ASSUME SyncClaims, Unmoved, pc = "apply", manifest'.entries = manifest.entries,
         NEW s \in todo, NEW ops \in SUBSET {"addDir", "file"}, IsNext(s, ops), todo' = todo \ {s},
         \/ pc' = "record" /\ action'.path = s.path /\ failed' = failed
         \/ pc' = "check" /\ action'.path = s.path /\ failed' = failed /\ s.op = "file"
         \/ pc' \in {"save", "apply"} /\ failed' = TRUE
  PROVE  StepsLeft'
  <1>1. /\ s \in Plan(Entries, snap) /\ s.path \in Path /\ s.op \in ops
        /\ \A r \in todo \ {s} : r.path # s.path /\ r.op \in {"addDir", "file"}
    BY SyncFirst
  <1>2. Plan(Entries, snap)' = Plan(Entries, snap) /\ snap' = snap /\ stamp' = stamp BY DEF Entries, Unmoved
  <1>3. \A p : ~AtWork(p) BY DEF AtWork
  <1>4. stamp > 0 /\ todo \subseteq Plan(Entries, snap) BY DEF SyncClaims, StepsLeft
  <1>5. ~failed => Plan(Entries, snap) \subseteq todo BY <1>3 DEF SyncClaims, StepsLeft
  <1>6. failed => \E t \in Plan(Entries, snap) : t.path # s.path /\ \A r \in todo : r.path # t.path
    BY <1>3 DEF SyncClaims, StepsLeft
  <1>7. \A p : AtWork(p)' <=> pc' \in {"check", "record"} /\ p = s.path BY DEF AtWork
  <1>8. snap[s.path] # "none" /\ (s.op = "file" => snap[s.path] # "dir")
    <2>1. TypeOK BY DEF SyncClaims
    <2>2. s.op = "addDir" \/ s.op = "file" BY <1>1
    <2>3. QED BY <1>1, <2>1, <2>2, SyncMeans, SyncPaths
  <1>9. \A p \in Path : AtWork(p)' =>
          /\ snap'[p] # "none" /\ (pc' # "record" => snap'[p] # "dir")
          /\ \E t \in Plan(Entries, snap)' : t.path = p
          /\ \A t \in todo' : t.path # p /\ t.op \in {"addDir", "file"}
    BY <1>1, <1>2, <1>7, <1>8
  <1>10. ~failed' => \A t \in Plan(Entries, snap)' : t \in todo' \/ AtWork(t.path)'
    BY <1>2, <1>5, <1>7
  <1>11. failed' => \E t \in Plan(Entries, snap)' : ~AtWork(t.path)' /\ \A r \in todo' : r.path # t.path
    <2>1. CASE failed' = failed BY <1>2, <1>6, <1>7, <2>1
    <2>2. CASE pc' \in {"save", "apply"} BY <1>1, <1>2, <1>7, <2>2
    <2>3. QED BY <2>1, <2>2
  <1>12. QED BY <1>2, <1>4, <1>9, <1>10, <1>11 DEF StepsLeft

(* The host that is the same but for new directories. *)
LEMMA SyncMade ==
  ASSUME SyncClaims, reached' = reached, pc' # "record" \/ snap'[action'.path] \notin Content,
         \A p \in Path, k \in Alt : host'[p][k] = host[p][k] \/ (host'[p][k] = "dir" /\ host[p][k] = "none")
  PROVE  OnHost'
  <1>1. \A p \in Path, k \in Alt : host'[p][k] \in Content => host'[p][k] = host[p][k] BY SyncPaths
  <1>2. QED BY <1>1 DEF SyncClaims, OnHost

LEMMA SyncAddDir == ASSUME SyncClaims, AddDir PROVE SyncClaims'
  <1>1. pc = "apply" /\ Unmoved /\ UNCHANGED << copies, trash, reached >> BY DEF AddDir
  <1>2. PICK s \in todo :
          /\ IsNext(s, {"addDir"}) /\ todo' = todo \ {s}
          /\ \/ /\ EnsureDir(s.path)
                /\ pc' = "record" /\ action' = [NoAction EXCEPT !.path = s.path]
                /\ UNCHANGED << failed, failedDirs >>
             \/ DirFailed(s.path)
    BY DEF AddDir
  <1>3. TypeOK /\ todo \subseteq Step BY DEF SyncClaims, TypeOK
  <1>4. s \in Plan(Entries, snap) /\ s.path \in Path /\ s.op = "addDir" BY <1>2, SyncFirst
  <1>5. snap[s.path] = "dir" /\ snap' = snap BY <1>1, <1>3, <1>4, SyncMeans DEF Unmoved
  <1>6. Parent[s.path] = Root BY <1>4, <1>5 DEF SyncClaims, DirsOnTop
  <1>7. CASE EnsureDir(s.path) /\ pc' = "record" /\ action' = [NoAction EXCEPT !.path = s.path] /\ UNCHANGED << failed, failedDirs >>
    <2>1. /\ host' \in [Path -> [Alt -> Node]] /\ Consistent(host')
          /\ manifest' \in Man /\ manifest'.entries = manifest.entries
          /\ \A p \in Path, k \in Alt : host'[p][k] = host[p][k] \/ (host'[p][k] = "dir" /\ host[p][k] = "none")
      BY <1>3, <1>4, <1>6, <1>7, SyncEnsures
    <2>2. action' \in Actions /\ action'.path = s.path /\ s.path # Root BY <1>4, <1>7, SyncNames, SyncPaths
    <2>3. TypeOK'
      <3>1. todo' \subseteq Step BY <1>2, <1>3
      <3>2. (pc' \in Ongoing) = (action'.path # Root) BY <1>7, <2>2 DEF Ongoing
      <3>3. /\ copies' \subseteq [path : Path, place : Alt, content : Content, stamp : 1 .. MaxSyncs]
            /\ trash' \subseteq [path : Path, node : Node]
            /\ failedDirs' \subseteq Path /\ failed' \in BOOLEAN /\ reached' \subseteq Path \X Content
        BY <1>1, <1>3, <1>7 DEF TypeOK
      <3>4. QED BY <1>1, <1>3, <1>7, <2>1, <2>2, <3>1, <3>2, <3>3, SyncTyped
    <2>4. OnHost' BY <1>1, <1>5, <2>1, <2>2, SyncPaths, SyncMade
    <2>5. ManifestHonest' BY <1>1, <2>1, SyncHonest DEF SyncClaims, Unmoved
    <2>6. StepsLeft' BY <1>1, <1>2, <1>7, <2>1, <2>2, SyncBegins
    <2>7. QED BY <1>1, <1>7, <2>3, <2>4, <2>5, <2>6, SyncRest
  <1>8. CASE DirFailed(s.path)
    <2>1. failed' = TRUE /\ failedDirs' = failedDirs \cup {s.path} /\ Advance /\ UNCHANGED << host, manifest >> BY <1>8 DEF DirFailed
    <2>2. todo' \subseteq Step BY <1>2, <1>3
    <2>3. pc' \in {"save", "apply"} BY <2>1, <2>2, SyncAdvances
    <2>4. TypeOK'
      <3>1. /\ action' \in Actions /\ (pc' \in Ongoing) = (action'.path # Root)
            /\ (pc' = "apply" => todo' # {}) /\ (pc' \in {"idle", "save"} => todo' = {})
        BY <2>1, <2>2, SyncAdvances
      <3>2. host' \in [Path -> [Alt -> Node]] /\ Consistent(host') /\ manifest' \in Man BY <1>3, <2>1, SyncMan DEF TypeOK
      <3>3. /\ copies' \subseteq [path : Path, place : Alt, content : Content, stamp : 1 .. MaxSyncs]
            /\ trash' \subseteq [path : Path, node : Node]
            /\ failedDirs' \subseteq Path /\ failed' \in BOOLEAN /\ reached' \subseteq Path \X Content
        BY <1>1, <1>3, <1>4, <2>1 DEF TypeOK
      <3>4. pc' \in {"idle", "apply", "move", "check", "write", "record", "save"} BY <2>3
      <3>5. QED BY <1>1, <1>3, <2>2, <3>1, <3>2, <3>3, <3>4, SyncTyped
    <2>5. OnHost' BY <1>1, <2>1, <2>3, SyncMade
    <2>6. ManifestHonest' BY <1>1, <2>1 DEF SyncClaims, ManifestHonest, Honest, Unmoved
    <2>7. StepsLeft' BY <1>1, <1>2, <2>1, <2>3, SyncBegins
    <2>8. pc # "idle" /\ pc' # "idle" BY <1>1, <2>3
    <2>9. QED BY <1>1, <2>4, <2>5, <2>6, <2>7, <2>8, SyncRest
  <1>9. QED BY <1>2, <1>7, <1>8

LEMMA SyncFileDir == ASSUME SyncClaims, FileDir PROVE SyncClaims'
  <1>1. pc = "apply" /\ Unmoved /\ UNCHANGED << copies, trash, reached >> BY DEF FileDir
  <1>2. PICK s \in todo :
          /\ IsNext(s, {"file"}) /\ todo' = todo \ {s}
          /\ \/ /\ failed' = TRUE /\ Advance /\ UNCHANGED << host, manifest >>
                /\ failedDirs' = failedDirs \/ (failedDirs' = failedDirs \cup {Parent[s.path]} /\ Parent[s.path] # Root)
             \/ /\ EnsureDir(Parent[s.path])
                /\ pc' = "check" /\ action' = [NoAction EXCEPT !.path = s.path]
                /\ UNCHANGED << failed, failedDirs >>
    BY DEF FileDir, DirFailed, EnsureFails
  <1>3. TypeOK /\ todo \subseteq Step BY DEF SyncClaims, TypeOK
  <1>4. s \in Plan(Entries, snap) /\ s.path \in Path /\ s.op = "file" BY <1>2, SyncFirst
  <1>5. Parent[s.path] \in Path \cup {Root} /\ (Parent[s.path] # Root => Parent[Parent[s.path]] = Root) BY <1>4, SyncPaths
  <1>6. CASE /\ EnsureDir(Parent[s.path])
             /\ pc' = "check" /\ action' = [NoAction EXCEPT !.path = s.path] /\ UNCHANGED << failed, failedDirs >>
    <2>1. /\ host' \in [Path -> [Alt -> Node]] /\ Consistent(host')
          /\ manifest' \in Man /\ manifest'.entries = manifest.entries
          /\ \A p \in Path, k \in Alt : host'[p][k] = host[p][k] \/ (host'[p][k] = "dir" /\ host[p][k] = "none")
      BY <1>3, <1>5, <1>6, SyncEnsures
    <2>2. action' \in Actions /\ action'.path = s.path /\ s.path # Root BY <1>4, <1>6, SyncNames, SyncPaths
    <2>3. TypeOK'
      <3>1. todo' \subseteq Step BY <1>2, <1>3
      <3>2. (pc' \in Ongoing) = (action'.path # Root) BY <1>6, <2>2 DEF Ongoing
      <3>3. /\ copies' \subseteq [path : Path, place : Alt, content : Content, stamp : 1 .. MaxSyncs]
            /\ trash' \subseteq [path : Path, node : Node]
            /\ failedDirs' \subseteq Path /\ failed' \in BOOLEAN /\ reached' \subseteq Path \X Content
        BY <1>1, <1>3, <1>6 DEF TypeOK
      <3>4. QED BY <1>1, <1>3, <1>6, <2>1, <2>2, <3>1, <3>2, <3>3, SyncTyped
    <2>4. OnHost' BY <1>1, <1>6, <2>1, SyncMade
    <2>5. ManifestHonest' BY <1>1, <2>1, SyncHonest DEF SyncClaims, Unmoved
    <2>6. StepsLeft' BY <1>1, <1>2, <1>4, <1>6, <2>1, <2>2, SyncBegins
    <2>7. QED BY <1>1, <1>6, <2>3, <2>4, <2>5, <2>6, SyncRest
  <1>7. CASE /\ failed' = TRUE /\ Advance /\ UNCHANGED << host, manifest >>
             /\ failedDirs' = failedDirs \/ (failedDirs' = failedDirs \cup {Parent[s.path]} /\ Parent[s.path] # Root)
    <2>1. todo' \subseteq Step BY <1>2, <1>3
    <2>2. pc' \in {"save", "apply"} BY <1>7, <2>1, SyncAdvances
    <2>3. TypeOK'
      <3>1. /\ action' \in Actions /\ (pc' \in Ongoing) = (action'.path # Root)
            /\ (pc' = "apply" => todo' # {}) /\ (pc' \in {"idle", "save"} => todo' = {})
        BY <1>7, <2>1, SyncAdvances
      <3>2. host' \in [Path -> [Alt -> Node]] /\ Consistent(host') /\ manifest' \in Man BY <1>3, <1>7, SyncMan DEF TypeOK
      <3>3. /\ copies' \subseteq [path : Path, place : Alt, content : Content, stamp : 1 .. MaxSyncs]
            /\ trash' \subseteq [path : Path, node : Node]
            /\ failedDirs' \subseteq Path /\ failed' \in BOOLEAN /\ reached' \subseteq Path \X Content
        BY <1>1, <1>3, <1>5, <1>7 DEF TypeOK
      <3>4. pc' \in {"idle", "apply", "move", "check", "write", "record", "save"} BY <2>2
      <3>5. QED BY <1>1, <1>3, <2>1, <3>1, <3>2, <3>3, <3>4, SyncTyped
    <2>4. OnHost' BY <1>1, <1>7, <2>2, SyncMade
    <2>5. ManifestHonest' BY <1>1, <1>7 DEF SyncClaims, ManifestHonest, Honest, Unmoved
    <2>6. StepsLeft' BY <1>1, <1>2, <1>7, <2>2, SyncBegins
    <2>7. pc # "idle" /\ pc' # "idle" BY <1>1, <2>2
    <2>8. QED BY <1>1, <2>3, <2>4, <2>5, <2>6, <2>7, SyncRest
  <1>8. QED BY <1>2, <1>6, <1>7

(* The path at work, and what the snapshot has there. *)
LEMMA SyncBusy ==
  ASSUME SyncClaims, pc \in {"check", "write", "record"}
  PROVE  /\ action.path \in Path /\ AtWork(action.path) /\ Place(action.path) \in Alt
         /\ snap[action.path] \in Content \cup {"dir"} /\ (pc # "record" => snap[action.path] \in Content)
         /\ \E s \in Plan(Entries, snap) : s.path = action.path
         /\ \A r \in todo : r.path # action.path
  <1>1. TypeOK BY DEF SyncClaims
  <1>2. action.path \in Path /\ AtWork(action.path) BY <1>1, SyncAtWork DEF Ongoing, AtWork
  <1>3. snap[action.path] \in Item BY <1>1, <1>2 DEF TypeOK
  <1>4. /\ snap[action.path] # "none" /\ (pc # "record" => snap[action.path] # "dir")
        /\ \E s \in Plan(Entries, snap) : s.path = action.path
        /\ \A r \in todo : r.path # action.path
    BY <1>2 DEF SyncClaims, StepsLeft
  <1>5. QED BY <1>1, <1>2, <1>3, <1>4, SyncWhere DEF Item

(* The steps that are left, while the path at work goes on or fails.        *)
LEMMA SyncGoesOn ==
  ASSUME SyncClaims, Unmoved, pc \in {"check", "write"}, manifest' = manifest, todo' = todo,
         \/ pc' \in {"write", "record"} /\ action'.path = action.path /\ failed' = failed
         \/ pc' \in {"save", "apply"} /\ failed' = TRUE
  PROVE  StepsLeft'
  <1>1. Plan(Entries, snap)' = Plan(Entries, snap) /\ snap' = snap /\ stamp' = stamp BY DEF Entries, Unmoved
  <1>2. CASE pc' \in {"write", "record"} /\ action'.path = action.path /\ failed' = failed
    <2>1. \A p : AtWork(p)' <=> AtWork(p) BY <1>2 DEF AtWork
    <2>2. pc # "idle" /\ pc # "record" OBVIOUS
    <2>3. QED BY <1>1, <1>2, <2>1, <2>2 DEF SyncClaims, StepsLeft
  <1>3. CASE pc' \in {"save", "apply"} /\ failed' = TRUE
    <2>1. \A p : ~AtWork(p)' BY <1>3 DEF AtWork
    <2>2. \E s \in Plan(Entries, snap) : \A r \in todo : r.path # s.path BY SyncBusy
    <2>3. QED BY <1>1, <1>3, <2>1, <2>2 DEF SyncClaims, StepsLeft
  <1>4. QED BY <1>2, <1>3

LEMMA SyncFileCheck == ASSUME SyncClaims, FileCheck PROVE SyncClaims'
  <1>1. pc = "check" /\ Unmoved /\ UNCHANGED << todo, disk, manifest, failedDirs, reached >> BY DEF FileCheck
  <1> DEFINE p == action.path
  <1>2. \/ Adopts(p) /\ pc' = "record" /\ UNCHANGED << action, failed >>
        \/ /\ \E state \in {"missing", "same", "changed"}, replace \in BOOLEAN :
                action' = [NoAction EXCEPT !.path = p, !.state = state, !.replace = replace]
           /\ pc' = "write" /\ UNCHANGED failed
        \/ failed' = TRUE /\ Advance
    <2>1. \A q, entry : HostState(q, entry) \in {"missing", "same", "changed"} BY DEF HostState
    <2>2. \A state, entry : MayReplace(state, entry) \in BOOLEAN BY DEF MayReplace
    <2> DEFINE entry == IF Modified(Entries, snap, p) THEN Entries[p] ELSE NoEntry
               state == HostState(p, entry)
               replace == MayReplace(state, entry)
    <2>3. state \in {"missing", "same", "changed"} /\ replace \in BOOLEAN BY <2>1, <2>2
    <2>4. \/ Adopts(p) /\ pc' = "record" /\ UNCHANGED << action, failed >>
          \/ /\ action' = [NoAction EXCEPT !.path = p, !.state = state, !.replace = replace]
             /\ pc' = "write" /\ UNCHANGED failed
          \/ failed' = TRUE /\ Advance
      BY DEF FileCheck
    <2> HIDE DEF replace, state, entry
    <2>5. QED BY <2>3, <2>4
  <1>3. TypeOK /\ todo' \subseteq Step BY <1>1 DEF SyncClaims, TypeOK
  <1>4. p \in Path /\ snap[p] \in Content BY <1>1, SyncBusy
  <1>5. action'.path = p \/ Advance BY <1>2 DEF NoAction
  <1>6. \/ pc' \in {"record", "write"} /\ action'.path = p /\ failed' = failed
        \/ Advance /\ pc' \in {"save", "apply"} /\ failed' = TRUE
    BY <1>2, <1>3, SyncAdvances DEF NoAction
  <1>7. TypeOK'
    <2>1. /\ action' \in Actions /\ (pc' \in Ongoing) = (action'.path # Root)
          /\ (pc' = "apply" => todo' # {}) /\ (pc' \in {"idle", "save"} => todo' = {})
      <3>1. CASE Advance BY <1>3, <3>1, SyncAdvances
      <3>2. CASE pc' \in {"record", "write"} /\ action'.path = p /\ failed' = failed
        <4>1. action \in Actions BY <1>3 DEF TypeOK, Actions
        <4>2. action' \in Actions BY <1>2, <1>3, <1>4, <4>1, SyncAdvances DEF Actions, NoAction
        <4>3. QED BY <1>4, <3>2, <4>2, SyncPaths DEF Ongoing
      <3>3. QED BY <1>6, <3>1, <3>2
    <2>2. host' = host /\ copies' = copies /\ trash' = trash BY <1>1 DEF disk
    <2>3. host' \in [Path -> [Alt -> Node]] /\ Consistent(host') /\ manifest' \in Man BY <1>1, <1>3, <2>2, SyncMan DEF TypeOK
    <2>4. failed' \in BOOLEAN BY <1>2, <1>3 DEF TypeOK
    <2>5. /\ copies' \subseteq [path : Path, place : Alt, content : Content, stamp : 1 .. MaxSyncs]
          /\ trash' \subseteq [path : Path, node : Node]
          /\ failedDirs' \subseteq Path /\ reached' \subseteq Path \X Content
      BY <1>1, <1>3, <2>2 DEF TypeOK
    <2>6. pc' \in {"idle", "apply", "move", "check", "write", "record", "save"} BY <1>6
    <2>7. QED BY <1>1, <1>3, <2>1, <2>3, <2>4, <2>5, <2>6, SyncTyped
  <1>8. OnHost'
    <2>1. host' = host /\ reached' = reached /\ snap' = snap BY <1>1 DEF disk, Unmoved
    <2>2. pc' = "record" => At(p) = snap[p]
      <3>1. pc' = "record" => Adopts(p) BY <1>2, <1>3, SyncAdvances
      <3>2. QED BY <3>1 DEF Adopts
    <2>3. At(p) = host[p][Place(p)] /\ Place(p) \in Alt BY <1>3, <1>4, SyncWhere
    <2>4. pc' = "record" => << p, snap[p] >> \in reached BY <1>4, <2>2, <2>3 DEF SyncClaims, OnHost
    <2>5. pc' = "record" => action'.path = p BY <1>6
    <2>6. QED BY <2>1, <2>4, <2>5 DEF SyncClaims, OnHost
  <1>9. ManifestHonest' BY <1>1 DEF SyncClaims, ManifestHonest, Honest, Unmoved
  <1>10. StepsLeft'
    <2>1. \/ pc' \in {"write", "record"} /\ action'.path = action.path /\ failed' = failed
          \/ pc' \in {"save", "apply"} /\ failed' = TRUE
      BY <1>6
    <2>2. QED BY <1>1, <2>1, SyncGoesOn
  <1>11. pc # "idle" /\ pc' # "idle" BY <1>1, <1>6
  <1>12. QED BY <1>1, <1>7, <1>8, <1>9, <1>10, <1>11, SyncRest

(* A file is on the host: new, in the place of an earlier one, or beside it. *)
LEMMA SyncPuts ==
  ASSUME SyncClaims, pc = "write", Parents(action.path) = "real", NEW p, p = action.path, NEW c, c = snap[p],
         \/ At(p) = "none" /\ host' = [host EXCEPT ![p][Place(p)] = c] /\ UNCHANGED << copies, trash >>
         \/ /\ At(p) \notin {"none", "dir"} /\ host' = [host EXCEPT ![p][Place(p)] = c] /\ UNCHANGED copies
            /\ trash' = trash \cup {[path |-> p, node |-> At(p)]}
         \/ /\ UNCHANGED << host, trash >>
            /\ copies' = copies \cup {[path |-> p, place |-> Place(p), content |-> c, stamp |-> stamp]}
  PROVE  /\ host' \in [Path -> [Alt -> Node]] /\ Consistent(host')
         /\ \A q \in Path, j \in Alt : host'[q][j] = host[q][j] \/ (q = p /\ host'[q][j] = c)
         /\ copies' \subseteq [path : Path, place : Alt, content : Content, stamp : 1 .. MaxSyncs]
         /\ trash' \subseteq [path : Path, node : Node]
  <1>1. TypeOK BY DEF SyncClaims
  <1>2. p \in Path /\ Place(p) \in Alt /\ c \in Content /\ c \in Node BY SyncBusy, SyncNames
  <1>3. At(p) \in Node /\ At(p) = host[p][Place(p)] BY <1>1, <1>2, SyncWhere
  <1>4. host \in [Path -> [Alt -> Node]] /\ Consistent(host) BY <1>1 DEF TypeOK
  <1>5. stamp \in 1 .. MaxSyncs
    <2>1. stamp \in 0 .. MaxSyncs /\ stamp > 0 /\ MaxSyncs \in Nat BY <1>1, SyncAssumption DEF TypeOK, SyncClaims, StepsLeft
    <2>2. QED BY <2>1
  <1>6. /\ copies' \subseteq [path : Path, place : Alt, content : Content, stamp : 1 .. MaxSyncs]
        /\ trash' \subseteq [path : Path, node : Node]
    BY <1>1, <1>2, <1>3, <1>5 DEF TypeOK
  <1>7. CASE UNCHANGED host BY <1>4, <1>6, <1>7
  <1>8. CASE At(p) # "dir" /\ host' = [host EXCEPT ![p][Place(p)] = c]
    <2>1. c # "dir" /\ c # "none" BY <1>2, SyncPaths
    <2>2. Parent[p] # Root => Parent[p] \in Path /\ host[Parent[p]][Place(p)] = "dir"
      <3>1. Parent[p] # Root => Parent[p] \in Path /\ Parent[Parent[p]] = Root BY <1>2, SyncPaths
      <3>2. Parent[p] # Root => At(Parent[p]) = "dir" BY DEF Parents
      <3>3. Parent[p] # Root => Place(p) = Place(Parent[p]) BY <3>1 DEF Place
      <3>4. Parent[p] # Root => At(Parent[p]) = host[Parent[p]][Place(Parent[p])] BY <1>1, <3>1, SyncWhere
      <3>5. QED BY <3>1, <3>2, <3>3, <3>4
    <2>3. \A q \in Kids(p) : host[q][Place(p)] = "none"
      <3>1. \A q \in Kids(p) : q \in Path /\ Parent[q] = p /\ p # Root BY <1>2, SyncPaths DEF Kids
      <3>2. QED BY <1>2, <1>3, <1>4, <1>8, <3>1 DEF Consistent
    <2>4. Fits(p, Place(p), c) BY <2>1, <2>2, <2>3 DEF Fits
    <2>5. /\ host' \in [Path -> [Alt -> Node]] /\ Consistent(host')
          /\ \A q \in Path, j \in Alt : host'[q][j] = IF q = p /\ j = Place(p) THEN c ELSE host[q][j]
      <3> DEFINE k == Place(p)
      <3>1. p \in Path /\ k \in Alt /\ c \in Node /\ host' = [host EXCEPT ![p][k] = c] /\ Fits(p, k, c) BY <1>2, <1>8, <2>4
      <3> HIDE DEF k
      <3>2. host' \in [Path -> [Alt -> Node]] BY <1>4, <3>1
      <3>3. \A q \in Path, j \in Alt : host'[q][j] = IF q = p /\ j = k THEN c ELSE host[q][j] BY <1>4, <3>1
      <3>4. Consistent(host') BY <1>4, <3>1, <3>3, SyncFits
      <3>5. QED BY <3>2, <3>3, <3>4 DEF k
    <2>6. QED BY <1>6, <2>5
  <1>9. QED BY <1>7, <1>8

LEMMA SyncFileWrite == ASSUME SyncClaims, FileWrite PROVE SyncClaims'
  <1>1. pc = "write" /\ Unmoved /\ UNCHANGED << todo, manifest, failedDirs >> BY DEF FileWrite
  <1> DEFINE p == action.path
  <1>2. \/ /\ Parents(p) = "real" /\ (LinkNew(p) \/ Replace(p) \/ ConflictCopy(p))
           /\ reached' = reached \cup {<< p, snap[p] >>}
           /\ \E conflict \in BOOLEAN : action' = [action EXCEPT !.conflict = conflict]
           /\ pc' = "record" /\ UNCHANGED failed
        \/ failed' = TRUE /\ Advance /\ UNCHANGED << host, copies, trash, reached >>
    BY DEF FileWrite, FileFails
  <1>3. TypeOK /\ todo' \subseteq Step BY <1>1 DEF SyncClaims, TypeOK
  <1>4. p \in Path /\ snap[p] \in Content BY <1>1, SyncBusy
  <1>5. action \in Actions BY <1>3 DEF TypeOK, Actions
  <1>6. snap' = snap BY <1>1 DEF Unmoved
  <1>7. CASE /\ Parents(p) = "real" /\ (LinkNew(p) \/ Replace(p) \/ ConflictCopy(p))
             /\ reached' = reached \cup {<< p, snap[p] >>}
             /\ \E conflict \in BOOLEAN : action' = [action EXCEPT !.conflict = conflict]
             /\ pc' = "record" /\ UNCHANGED failed
    <2>1. action' \in Actions /\ action'.path = p BY <1>5, <1>7 DEF Actions
    <2>2. /\ host' \in [Path -> [Alt -> Node]] /\ Consistent(host')
          /\ \A q \in Path, j \in Alt : host'[q][j] = host[q][j] \/ (q = p /\ host'[q][j] = snap[p])
          /\ copies' \subseteq [path : Path, place : Alt, content : Content, stamp : 1 .. MaxSyncs]
          /\ trash' \subseteq [path : Path, node : Node]
      <3>1. \/ At(p) = "none" /\ host' = [host EXCEPT ![p][Place(p)] = snap[p]] /\ UNCHANGED << copies, trash >>
            \/ /\ At(p) \notin {"none", "dir"} /\ host' = [host EXCEPT ![p][Place(p)] = snap[p]] /\ UNCHANGED copies
               /\ trash' = trash \cup {[path |-> p, node |-> At(p)]}
            \/ /\ UNCHANGED << host, trash >>
               /\ copies' = copies \cup {[path |-> p, place |-> Place(p), content |-> snap[p], stamp |-> stamp]}
        BY <1>7 DEF LinkNew, Replace, ConflictCopy
      <3>2. QED BY <1>1, <1>7, <3>1, SyncPuts
    <2>3. << p, snap[p] >> \in reached' /\ reached \subseteq reached' /\ reached' \subseteq Path \X Content
      BY <1>3, <1>4, <1>7 DEF TypeOK
    <2>4. TypeOK'
      <3>1. (pc' \in Ongoing) = (action'.path # Root) BY <1>4, <1>7, <2>1, SyncPaths DEF Ongoing
      <3>2. manifest' \in Man /\ failedDirs' \subseteq Path /\ failed' \in BOOLEAN BY <1>1, <1>3, <1>7, SyncMan DEF TypeOK
      <3>3. QED BY <1>1, <1>3, <1>7, <2>1, <2>2, <2>3, <3>1, <3>2, SyncTyped
    <2>5. OnHost'
      <3>1. \A q \in Path, j \in Alt : host'[q][j] \in Content => << q, host'[q][j] >> \in reached'
        BY <2>2, <2>3 DEF SyncClaims, OnHost
      <3>2. QED BY <1>6, <2>1, <2>3, <3>1 DEF OnHost
    <2>6. ManifestHonest' BY <1>1, <2>3 DEF SyncClaims, ManifestHonest, Honest, Unmoved
    <2>7. StepsLeft' BY <1>1, <1>7, <2>1, SyncGoesOn
    <2>8. QED BY <1>1, <1>7, <2>4, <2>5, <2>6, <2>7, SyncRest
  <1>8. CASE failed' = TRUE /\ Advance /\ UNCHANGED << host, copies, trash, reached >>
    <2>1. pc' \in {"save", "apply"} BY <1>3, <1>8, SyncAdvances
    <2>2. TypeOK'
      <3>1. /\ action' \in Actions /\ (pc' \in Ongoing) = (action'.path # Root)
            /\ (pc' = "apply" => todo' # {}) /\ (pc' \in {"idle", "save"} => todo' = {})
        BY <1>3, <1>8, SyncAdvances
      <3>2. host' \in [Path -> [Alt -> Node]] /\ Consistent(host') /\ manifest' \in Man BY <1>1, <1>3, <1>8, SyncMan DEF TypeOK
      <3>3. /\ copies' \subseteq [path : Path, place : Alt, content : Content, stamp : 1 .. MaxSyncs]
            /\ trash' \subseteq [path : Path, node : Node]
            /\ failedDirs' \subseteq Path /\ failed' \in BOOLEAN /\ reached' \subseteq Path \X Content
        BY <1>1, <1>3, <1>8 DEF TypeOK
      <3>4. pc' \in {"idle", "apply", "move", "check", "write", "record", "save"} BY <2>1
      <3>5. QED BY <1>1, <1>3, <3>1, <3>2, <3>3, <3>4, SyncTyped
    <2>3. OnHost' BY <1>8, <2>1, SyncMade
    <2>4. ManifestHonest' BY <1>1, <1>8 DEF SyncClaims, ManifestHonest, Honest, Unmoved
    <2>5. StepsLeft' BY <1>1, <1>8, <2>1, SyncGoesOn
    <2>6. pc # "idle" /\ pc' # "idle" BY <1>1, <2>1
    <2>7. QED BY <1>1, <2>2, <2>3, <2>4, <2>5, <2>6, SyncRest
  <1>9. QED BY <1>2, <1>7, <1>8

LEMMA SyncEntry ==
  ASSUME TypeOK, NEW p \in Path, NEW item \in Content \cup {"dir"}, NEW conflict \in BOOLEAN
  PROVE  NewEntry(p, item, conflict) \in Entry /\ NewEntry(p, item, conflict).hash = item
  <1> DEFINE now == IF At(p) \in Content /\ item # "dir" THEN At(p) ELSE "none"
             own == IF Entries[p] # NoEntry THEN Entries[p].hostHash ELSE now
             link == Entries[p].link
  <1>1. Entries[p] \in Entry \/ Entries[p] = NoEntry BY SyncMan
  <1>2. now \in Content \cup {"none"} OBVIOUS
  <1>3. link \in BOOLEAN
    <2>1. CASE Entries[p] \in Entry
      <3>1. \A e \in Entry : e.link \in BOOLEAN BY DEF Entry
      <3>2. QED BY <2>1, <3>1
    <2>2. CASE Entries[p] = NoEntry
      <3>1. NoEntry.link = FALSE BY DEF NoEntry
      <3>2. QED BY <2>2, <3>1
    <2>3. QED BY <1>1, <2>1, <2>2
  <1>4. own \in Content \cup {"none"} BY <1>1, <1>2 DEF Entry
  <1>5. EntryFrom(p, item) = [hash |-> item, link |-> FALSE, diverged |-> FALSE, hostHash |-> now] BY DEF EntryFrom
  <1>6. NewEntry(p, item, conflict) =
          IF ~conflict THEN EntryFrom(p, item)
          ELSE [hash |-> item, link |-> link, diverged |-> TRUE,
                hostHash |-> IF Entries[p] # NoEntry THEN Entries[p].hostHash ELSE EntryFrom(p, item).hostHash]
    BY DEF NewEntry
  <1>7. CASE ~conflict
    <2> HIDE DEF now
    <2>1. [hash |-> item, link |-> FALSE, diverged |-> FALSE, hostHash |-> now] \in Entry BY <1>2 DEF Entry
    <2>2. QED BY <1>5, <1>6, <1>7, <2>1
  <1>8. CASE conflict
    <2> HIDE DEF now, link
    <2>1. EntryFrom(p, item).hostHash = now BY <1>5
    <2>2. NewEntry(p, item, conflict) = [hash |-> item, link |-> link, diverged |-> TRUE, hostHash |-> own]
      BY <1>6, <1>8, <2>1
    <2> HIDE DEF own
    <2>3. [hash |-> item, link |-> link, diverged |-> TRUE, hostHash |-> own] \in Entry BY <1>3, <1>4 DEF Entry
    <2>4. QED BY <2>2, <2>3
  <1>9. QED BY <1>7, <1>8

LEMMA SyncRecord == ASSUME SyncClaims, Record PROVE SyncClaims'
  <1>1. pc = "record" /\ Unmoved /\ Advance /\ UNCHANGED << todo, disk, failedDirs, failed, reached >> BY DEF Record
  <1> DEFINE p == action.path
             entry == NewEntry(p, snap[p], action.conflict)
  <1>2. Note(p, entry) BY DEF Record
  <1>3. TypeOK /\ todo' \subseteq Step BY <1>1 DEF SyncClaims, TypeOK
  <1>4. p \in Path /\ snap[p] \in Content \cup {"dir"} /\ \A r \in todo : r.path # p BY <1>1, SyncBusy
  <1>5. entry \in Entry /\ entry.hash = snap[p]
    <2>1. action.conflict \in BOOLEAN BY <1>3 DEF TypeOK
    <2>2. QED BY <1>3, <1>4, <2>1, SyncEntry
  <1> HIDE DEF entry
  <1>6. /\ manifest' \in Man /\ Entries' = [Entries EXCEPT ![p] = entry]
        /\ Entries \in [Path -> Entry \cup {NoEntry}]
    BY <1>2, <1>3, <1>4, <1>5, SyncNotes, SyncMan
  <1>7. Entries'[p] = entry /\ \A q \in Path : q # p => Entries'[q] = Entries[q] BY <1>4, <1>6
  <1>8. snap' = snap /\ snap \in [Path -> Item] BY <1>1, <1>3 DEF Unmoved, TypeOK
  <1>9. \A s : s \in Plan(Entries', snap) <=> s \in Plan(Entries, snap) /\ s.path # p
    <2>1. snap[p] # "none" /\ Entries'[p].hash = snap[p] BY <1>4, <1>5, <1>7, SyncPaths
    <2> HIDE DEF p
    <2>2. Entries \in [Path -> Entry \cup {NoEntry}] /\ snap \in [Path -> Item] /\ p \in Path BY <1>4, <1>6, <1>8
    <2>3. \A q \in Path : q # p => Entries'[q] = Entries[q] BY <1>7
    <2>4. QED BY <2>1, <2>2, <2>3, SyncRecords
  <1>10. pc' \in {"save", "apply"} BY <1>1, <1>3, SyncAdvances
  <1>11. TypeOK'
    <2>1. /\ action' \in Actions /\ (pc' \in Ongoing) = (action'.path # Root)
          /\ (pc' = "apply" => todo' # {}) /\ (pc' \in {"idle", "save"} => todo' = {})
      BY <1>1, <1>3, SyncAdvances
    <2>2. host' = host /\ copies' = copies /\ trash' = trash BY <1>1 DEF disk
    <2>3. host' \in [Path -> [Alt -> Node]] /\ Consistent(host') BY <1>3, <2>2 DEF TypeOK
    <2>4. /\ copies' \subseteq [path : Path, place : Alt, content : Content, stamp : 1 .. MaxSyncs]
          /\ trash' \subseteq [path : Path, node : Node]
          /\ failedDirs' \subseteq Path /\ failed' \in BOOLEAN /\ reached' \subseteq Path \X Content
      BY <1>1, <1>3, <2>2 DEF TypeOK
    <2>5. pc' \in {"idle", "apply", "move", "check", "write", "record", "save"} BY <1>10
    <2>6. QED BY <1>1, <1>3, <1>6, <2>1, <2>3, <2>4, <2>5, SyncTyped
  <1>12. OnHost' BY <1>1, <1>10 DEF SyncClaims, OnHost, disk
  <1>13. ManifestHonest'
    <2>1. snap[p] \in Content => << p, snap[p] >> \in reached BY <1>1 DEF SyncClaims, OnHost
    <2>2. \A q \in Path : manifest'.entries[q] = IF q = p THEN entry ELSE manifest.entries[q] BY <1>7 DEF Entries
    <2>3. reached' = reached /\ saved' = saved BY <1>1 DEF Unmoved
    <2>4. Honest(manifest) /\ Honest(saved) BY DEF SyncClaims, ManifestHonest
    <2>5. QED BY <1>5, <2>1, <2>2, <2>3, <2>4 DEF ManifestHonest, Honest
  <1>14. StepsLeft'
    <2>1. \A q : ~AtWork(q)' BY <1>10 DEF AtWork
    <2>2. \A q : AtWork(q) <=> q = p BY <1>1 DEF AtWork
    <2>3. \A s : s \in Plan(Entries, snap)' <=> s \in Plan(Entries, snap) /\ s.path # p BY <1>8, <1>9
    <2>4. stamp' > 0 BY <1>1 DEF SyncClaims, StepsLeft, Unmoved
    <2>5. todo' \subseteq Plan(Entries, snap)' BY <1>1, <1>4, <2>3 DEF SyncClaims, StepsLeft
    <2>6. ~failed => \A s \in Plan(Entries, snap) : s \in todo \/ s.path = p BY <1>1, <2>2 DEF SyncClaims, StepsLeft
    <2>7. failed => \E s \in Plan(Entries, snap) : s.path # p /\ \A r \in todo : r.path # s.path
      BY <1>1, <2>2 DEF SyncClaims, StepsLeft
    <2>8. QED BY <1>1, <2>1, <2>3, <2>4, <2>5, <2>6, <2>7 DEF StepsLeft
  <1>15. pc # "idle" /\ pc' # "idle" BY <1>1, <1>10
  <1>16. QED BY <1>1, <1>11, <1>12, <1>13, <1>14, <1>15, SyncRest

LEMMA SyncSave == ASSUME SyncClaims, Save PROVE SyncClaims'
  <1>1. /\ pc = "save" /\ pc' = "idle" /\ UNCHANGED << disk, tree, manifest, work, reached, bound >>
        /\ saved' \in {saved, manifest}
        /\ result' \in {"ok", "incomplete", "io"}
        /\ (result' = "ok" => ~failed) /\ (result' = "incomplete" => failed)
    BY DEF Save
  <1>2. TypeOK /\ todo = {} BY <1>1 DEF SyncClaims, TypeOK
  <1>3. saved' \in Man BY <1>1, <1>2, SyncMan
  <1>4. TypeOK'
    <2>1. UNCHANGED << host, copies, trash, tree, manifest, snap, todo, action, failedDirs, failed, stamp, reached, had, writes, edits >>
      BY <1>1 DEF disk, work, bound
    <2>2. (pc' \in {"move", "check", "write", "record"}) = (action'.path # Root)
      <3>1. (pc \in {"move", "check", "write", "record"}) = (action.path # Root) BY <1>2 DEF TypeOK
      <3>2. action.path = Root BY <1>1, <3>1
      <3>3. QED BY <1>1, <2>1, <3>2
    <2>3. Consistent(host') BY <1>2, <2>1 DEF TypeOK
    <2>4. result' \in {"none", "ok", "guard", "incomplete", "io"} BY <1>1
    <2>5. QED BY <1>1, <1>2, <1>3, <2>1, <2>2, <2>3, <2>4 DEF TypeOK, Man
  <1>5. DirsOnTop' BY <1>1 DEF SyncClaims, DirsOnTop, work
  <1>6. OnHost' BY <1>1 DEF SyncClaims, OnHost, disk
  <1>7. ManifestHonest' BY <1>1 DEF SyncClaims, ManifestHonest, Honest
  <1>8. Plan(Entries, snap)' = Plan(Entries, snap) BY <1>1 DEF Entries, work
  <1>9. StepsLeft'
    <2>1. \A p : ~AtWork(p)' BY <1>1 DEF AtWork
    <2>2. todo' = {} BY <1>1, <1>2 DEF work
    <2>3. QED BY <1>1, <2>1, <2>2 DEF StepsLeft
  <1>10. ResultTellsTheRest'
    <2>1. \A p : ~AtWork(p) BY <1>1 DEF AtWork
    <2>2. ~failed => Plan(Entries, snap) = {} BY <1>1, <1>2, <2>1 DEF SyncClaims, StepsLeft
    <2>3. failed => Plan(Entries, snap) # {} BY <1>1 DEF SyncClaims, StepsLeft
    <2>4. QED BY <1>1, <1>8, <2>2, <2>3 DEF ResultTellsTheRest
  <1>11. QED BY <1>4, <1>5, <1>6, <1>7, <1>9, <1>10 DEF SyncClaims

LEMMA SyncKill == ASSUME SyncClaims, Kill PROVE SyncClaims'
  <1>1. /\ manifest' = saved /\ pc' = "idle" /\ todo' = {} /\ action' = NoAction
        /\ failedDirs' = {} /\ failed' = FALSE /\ result' = "none"
        /\ UNCHANGED << disk, tree, saved, snap, stamp, reached, bound >>
    BY DEF Kill
  <1>2. TypeOK BY DEF SyncClaims
  <1>3. TypeOK'
    <2>1. UNCHANGED << host, copies, trash, tree, saved, snap, stamp, reached, had, writes, edits >> BY <1>1 DEF disk, bound
    <2>2. action' \in Actions /\ action'.path = Root BY <1>1, SyncNames
    <2>3. (pc' \in {"move", "check", "write", "record"}) = (action'.path # Root) BY <1>1, <2>2
    <2>4. manifest' \in Man /\ saved' \in Man BY <1>1, <1>2, SyncMan
    <2>5. Consistent(host') BY <1>2, <2>1 DEF TypeOK
    <2>6. QED BY ZenonT(40), <1>1, <1>2, <2>1, <2>2, <2>3, <2>4, <2>5 DEF TypeOK, Man, Actions
  <1>4. DirsOnTop' BY <1>1 DEF SyncClaims, DirsOnTop
  <1>5. OnHost' BY <1>1 DEF SyncClaims, OnHost, disk
  <1>6. ManifestHonest' BY <1>1 DEF SyncClaims, ManifestHonest, Honest
  <1>7. StepsLeft' BY <1>1 DEF StepsLeft, AtWork
  <1>8. ResultTellsTheRest' BY <1>1 DEF ResultTellsTheRest
  <1>9. QED BY <1>3, <1>4, <1>5, <1>6, <1>7, <1>8 DEF SyncClaims

LEMMA SyncSteady == ASSUME SyncClaims, UNCHANGED vars PROVE SyncClaims'
  <1>1. UNCHANGED << disk, tree, manifest, saved, pc, work, result, reached, bound >> BY DEF vars
  <1>2. TypeOK'
    <2>1. UNCHANGED << host, copies, trash, tree, manifest, saved, pc, snap, todo, action, failedDirs, failed, stamp,
                       result, had, reached, writes, edits >>
      BY <1>1 DEF disk, work, bound
    <2>2. Consistent(host') BY <2>1 DEF SyncClaims, TypeOK
    <2>3. TypeOK BY DEF SyncClaims
    <2>4. QED BY <2>1, <2>2, <2>3 DEF TypeOK
  <1>3. DirsOnTop' /\ OnHost' BY <1>1 DEF SyncClaims, DirsOnTop, OnHost, disk, work
  <1>4. ManifestHonest' BY <1>1 DEF SyncClaims, ManifestHonest, Honest
  <1>5. StepsLeft' BY <1>1 DEF SyncClaims, StepsLeft, work, Entries, AtWork
  <1>6. ResultTellsTheRest' BY <1>1 DEF SyncClaims, ResultTellsTheRest, work, Entries
  <1>7. QED BY <1>2, <1>3, <1>4, <1>5, <1>6 DEF SyncClaims

(* What the volume is built with. *)
LEMMA SyncImports ==
  ASSUME NEW node \in Node, NEW e \in Imported(node)
  PROVE  /\ e \in Entry \cup {NoEntry} /\ e.hash \in Item
         /\ node # "dir" => e.hash # "dir"
         /\ node \in Content => e.hash = node
  <1>1. NoEntry.hash = "none" BY DEF NoEntry
  <1>2. CASE node \in Content
    <2>1. e = [hash |-> node, hostHash |-> node, link |-> FALSE, diverged |-> FALSE] BY <1>2 DEF Imported, NoEntry
    <2>2. [hash |-> node, hostHash |-> node, link |-> FALSE, diverged |-> FALSE] \in Entry BY <1>2 DEF Entry
    <2>3. QED BY <1>2, <2>1, <2>2, SyncPaths DEF Item
  <1>3. CASE node = "dir"
    <2>1. e = [hash |-> "dir", hostHash |-> "none", link |-> FALSE, diverged |-> FALSE] BY <1>3, SyncPaths DEF Imported, NoEntry
    <2>2. [hash |-> "dir", hostHash |-> "none", link |-> FALSE, diverged |-> FALSE] \in Entry BY DEF Entry
    <2>3. QED BY <1>3, <2>1, <2>2, SyncPaths DEF Item
  <1>4. CASE node = "other"
    <2>1. e = NoEntry \/ \E c \in Content : e = [hash |-> c, hostHash |-> c, link |-> TRUE, diverged |-> FALSE]
      BY <1>4, SyncPaths DEF Imported, NoEntry
    <2>2. ASSUME NEW c \in Content
          PROVE  [hash |-> c, hostHash |-> c, link |-> TRUE, diverged |-> FALSE] \in Entry
      BY DEF Entry
    <2>3. QED BY <1>1, <1>4, <2>1, <2>2, SyncPaths DEF Item
  <1>5. CASE node = "none"
    <2>1. e = NoEntry BY <1>5, SyncPaths DEF Imported
    <2>2. QED BY <1>1, <1>5, <2>1, SyncPaths DEF Item
  <1>6. QED BY <1>2, <1>3, <1>4, <1>5, SyncNames

LEMMA SyncInit == Init => SyncClaims
  <1> SUFFICES ASSUME Init PROVE SyncClaims OBVIOUS
  <1>1. PICK e \in [Path -> UNION { Imported(n) : n \in Node }] :
          /\ \A p \in Path : e[p] \in Imported(host[p][0])
          /\ manifest = [entries |-> e, remap |-> [p \in Path |-> 0]]
          /\ tree = [p \in Path |-> e[p].hash]
          /\ had = [p \in Path |-> {e[p].hash} \cap Content]
          /\ reached = { w \in Path \X Content : e[w[1]].hash = w[2] }
    BY DEF Init
  <1>2. /\ saved = manifest /\ copies = {} /\ trash = {}
        /\ pc = "idle" /\ snap = tree /\ todo = {} /\ action = NoAction
        /\ failedDirs = {} /\ failed = FALSE /\ result = "none" /\ stamp = 0
        /\ writes = 0 /\ edits = 0
    BY DEF Init
  <1>3. PICK h \in [Path -> { [k \in Alt |-> IF k = 0 THEN n ELSE "none"] : n \in Node }] : host = h /\ Consistent(h)
    BY DEF Init
  <1>4. \A p \in Path : \E n \in Node : host[p] = [k \in Alt |-> IF k = 0 THEN n ELSE "none"] BY <1>3
  <1>5. /\ host \in [Path -> [Alt -> Node]] /\ Consistent(host)
        /\ \A p \in Path : host[p][0] \in Node /\ \A k \in Alt : host[p][k] \in Content => k = 0
    <2>1. \A n \in Node : [k \in Alt |-> IF k = 0 THEN n ELSE "none"] \in [Alt -> Node] BY SyncNames
    <2>2. host \in [Path -> [Alt -> Node]] BY <1>3, <1>4, <2>1
    <2>3. ASSUME NEW p \in Path PROVE host[p][0] \in Node /\ \A k \in Alt : host[p][k] \in Content => k = 0
      <3>1. PICK n \in Node : host[p] = [k \in Alt |-> IF k = 0 THEN n ELSE "none"] BY <1>4
      <3>2. \A k \in Alt : host[p][k] = IF k = 0 THEN n ELSE "none" BY <3>1
      <3>3. QED BY <3>2, SyncPaths
    <2>4. QED BY <1>3, <2>2, <2>3
  <1>6. \A p \in Path : /\ e[p] \in Entry \cup {NoEntry} /\ e[p].hash \in Item
                        /\ host[p][0] # "dir" => e[p].hash # "dir"
                        /\ host[p][0] \in Content => e[p].hash = host[p][0]
    BY <1>1, <1>5, SyncImports
  <1>7. e \in [Path -> Entry \cup {NoEntry}] BY <1>1, <1>6
  <1>8. manifest \in Man /\ Entries = e BY <1>1, <1>7, SyncPaths DEF Man, Entries
  <1>9. \A p \in Path, c \in Content : << p, c >> \in reached <=> e[p].hash = c BY <1>1
  <1>10. TypeOK
    <2>1. tree \in [Path -> Item] /\ had \in [Path -> SUBSET Content] /\ reached \subseteq Path \X Content BY <1>1, <1>6
    <2>2. {MaxWrites, MaxEdits, MaxSyncs} \subseteq Nat BY SyncAssumption
    <2>3. 0 \in 0 .. MaxWrites /\ 0 \in 0 .. MaxEdits /\ 0 \in 0 .. MaxSyncs BY <2>2
    <2>4. action \in Actions /\ action.path = Root BY <1>2, SyncNames
    <2>5. /\ host \in [Path -> [Alt -> Node]] /\ Consistent(host)
          /\ copies \subseteq [path : Path, place : Alt, content : Content, stamp : 1 .. MaxSyncs]
          /\ trash \subseteq [path : Path, node : Node]
          /\ {tree, snap} \subseteq [Path -> Item]
      BY <1>2, <1>5, <2>1
    <2>6. {manifest, saved} \subseteq [entries : [Path -> Entry \cup {NoEntry}], remap : [Path -> Alt]] BY <1>2, <1>8 DEF Man
    <2>7. /\ todo \subseteq Step /\ failedDirs \subseteq Path /\ failed \in BOOLEAN
          /\ pc \in {"idle", "apply", "move", "check", "write", "record", "save"}
          /\ (pc = "apply" => todo # {}) /\ (pc \in {"idle", "save"} => todo = {})
          /\ result \in {"none", "ok", "guard", "incomplete", "io"}
      BY <1>2
    <2>8. (pc \in {"move", "check", "write", "record"}) = (action.path # Root)
      <3>1. pc = "idle" /\ action.path = Root BY <1>2, <2>4
      <3>2. QED BY <3>1
    <2>9. stamp \in 0 .. MaxSyncs /\ writes \in 0 .. MaxWrites /\ edits \in 0 .. MaxEdits BY <1>2, <2>3
    <2>10. action \in [path : Path \cup {Root}, state : {"missing", "same", "changed"}, replace : BOOLEAN, conflict : BOOLEAN]
      BY <2>4 DEF Actions
    <2>11. QED BY <2>1, <2>5, <2>6, <2>7, <2>8, <2>9, <2>10 DEF TypeOK
  <1>11. DirsOnTop BY <1>1, <1>2, <1>5, <1>6, SyncPaths DEF DirsOnTop, Consistent
  <1>12. OnHost BY <1>2, <1>5, <1>6, <1>9 DEF OnHost
  <1>13. ManifestHonest BY <1>2, <1>8, <1>9 DEF ManifestHonest, Honest, Entries
  <1>14. StepsLeft BY <1>2 DEF StepsLeft, AtWork
  <1>15. ResultTellsTheRest BY <1>2 DEF ResultTellsTheRest
  <1>16. QED BY <1>10, <1>11, <1>12, <1>13, <1>14, <1>15 DEF SyncClaims

LEMMA SyncKeeps == ASSUME SyncClaims, [Next]_vars PROVE SyncClaims'
  <1>1. CASE GuestChange BY <1>1, SyncGuest
  <1>2. CASE HostEdit BY <1>2, SyncEdit
  <1>3. CASE Sync
    <2>1. CASE \E force \in BOOLEAN : SyncStart(force) BY <2>1, SyncStarts
    <2>2. CASE Delete BY <2>2, SyncDelete
    <2>3. CASE MoveToTrash BY <2>3, SyncTrash
    <2>4. CASE AddDir BY <2>4, SyncAddDir
    <2>5. CASE FileDir BY <2>5, SyncFileDir
    <2>6. CASE FileCheck BY <2>6, SyncFileCheck
    <2>7. CASE FileWrite BY <2>7, SyncFileWrite
    <2>8. CASE Record BY <2>8, SyncRecord
    <2>9. CASE Save BY <2>9, SyncSave
    <2>10. QED BY <1>3, <2>1, <2>2, <2>3, <2>4, <2>5, <2>6, <2>7, <2>8, <2>9 DEF Sync
  <1>4. CASE Kill BY <1>4, SyncKill
  <1>5. CASE UNCHANGED vars BY <1>5, SyncSteady
  <1>6. QED BY <1>1, <1>2, <1>3, <1>4, <1>5 DEF Next

(* What the manifest and the result of a sync claim of the host is so,       *)
(* wherever a path failed, the manifest could not be saved or the process    *)
(* was killed: sync.rs keeps a path in the plan until its content is on the  *)
(* host, and reports Ok only when nothing of the snapshot is left.           *)
THEOREM ClaimsHoldThm == Spec => []ClaimsHold
  <1>1. Init => SyncClaims BY SyncInit
  <1>2. SyncClaims /\ [Next]_vars => SyncClaims' BY SyncKeeps
  <1>3. SyncClaims => ClaimsHold BY DEF SyncClaims, ClaimsHold
  <1>4. QED BY <1>1, <1>2, <1>3, PTL DEF Spec

-----------------------------------------------------------------------------
(* What a sync takes off the host. *)

(* A sync takes a content away in two steps only: into the trash, and when   *)
(* it replaces the file at work.                                             *)
LEMMA SyncTakesOff ==
  ASSUME SyncClaims, Next, NEW p \in Path, NEW k \in Alt, Takes(p, k)
  PROVE  \/ /\ pc = "move" /\ k = Place(action.path)
            /\ p = action.path \/ Parent[p] = action.path
            /\ [path |-> p, node |-> host[p][k]] \in trash'
         \/ /\ pc = "write" /\ action.replace /\ p = action.path /\ k = Place(p)
            /\ [path |-> p, node |-> host[p][k]] \in trash'
  <1>1. TypeOK /\ host \in [Path -> [Alt -> Node]] BY DEF SyncClaims, TypeOK
  <1>2. host[p][k] \in Content /\ host'[p][k] # host[p][k] /\ edits' = edits BY DEF Takes
  <1>3. host[p][k] # "none" /\ host[p][k] # "dir" /\ host' # host BY <1>2, SyncPaths
  <1>4. CASE GuestChange BY <1>3, <1>4 DEF GuestChange, disk
  <1>5. CASE HostEdit
    <2>1. edits \in Nat /\ edits' = edits + 1
      <3>1. edits \in 0 .. MaxEdits /\ MaxEdits \in Nat BY <1>1, SyncAssumption DEF TypeOK
      <3>2. QED BY <1>5, <3>1 DEF HostEdit
    <2>2. QED BY <1>2, <2>1
  <1>6. CASE \E force \in BOOLEAN : SyncStart(force) BY <1>3, <1>6 DEF SyncStart, disk
  <1>7. CASE Delete BY <1>3, <1>7 DEF Delete, disk
  <1>8. CASE MoveToTrash
    <2> DEFINE a == action.path
               moved == { q \in {a} \cup Kids(a) : host[q][Place(a)] # "none" }
               there == Place(a)
    <2>1. pc = "move" BY <1>8 DEF MoveToTrash
    <2>2. a \in Path /\ there \in Alt BY <1>1, <2>1, SyncAtWork, SyncWhere DEF Ongoing
    <2>3. /\ trash' = trash \cup { [path |-> q, node |-> host[q][there]] : q \in moved }
          /\ host' = [q \in Path |-> IF q \in moved THEN [host[q] EXCEPT ![there] = "none"] ELSE host[q]]
      BY <1>3, <1>8 DEF MoveToTrash
    <2>4. moved = { q \in {a} \cup Kids(a) : host[q][there] # "none" } OBVIOUS
    <2> HIDE DEF moved, there
    <2>5. host'[p] = IF p \in moved THEN [host[p] EXCEPT ![there] = "none"] ELSE host[p] BY <2>3
    <2>6. p \in moved /\ k = there BY <1>1, <1>2, <2>2, <2>5
    <2>7. [path |-> p, node |-> host[p][k]] \in trash' BY <2>3, <2>6
    <2>8. p = a \/ Parent[p] = a BY <2>4, <2>6 DEF Kids
    <2>9. QED BY <2>1, <2>6, <2>7, <2>8 DEF there
  <1>9. ASSUME NEW d \in Path \cup {Root}, d # Root => Parent[d] = Root, EnsureDir(d) PROVE FALSE
    <2>1. host'[p][k] = host[p][k] \/ (host'[p][k] = "dir" /\ host[p][k] = "none") BY <1>1, <1>9, SyncEnsures
    <2>2. QED BY <1>2, <1>3, <2>1
  <1>10. CASE AddDir
    <2>1. pc = "apply" BY <1>10 DEF AddDir
    <2>2. PICK s \in todo : IsNext(s, {"addDir"}) /\ (EnsureDir(s.path) \/ UNCHANGED host) BY <1>10 DEF AddDir, DirFailed
    <2>3. s \in Plan(Entries, snap) /\ s.path \in Path /\ s.op = "addDir" BY <2>2, SyncFirst
    <2>4. snap[s.path] = "dir" BY <1>1, <2>3, SyncMeans
    <2>5. Parent[s.path] = Root BY <2>3, <2>4 DEF SyncClaims, DirsOnTop
    <2>6. QED BY <1>3, <1>9, <2>2, <2>3, <2>5
  <1>11. CASE FileDir
    <2>1. PICK s \in todo : IsNext(s, {"file"}) /\ (EnsureDir(Parent[s.path]) \/ UNCHANGED host) BY <1>11 DEF FileDir, DirFailed
    <2>2. s.path \in Path BY <2>1, SyncFirst
    <2>3. Parent[s.path] \in Path \cup {Root} /\ (Parent[s.path] # Root => Parent[Parent[s.path]] = Root) BY <2>2, SyncPaths
    <2>4. QED BY <1>3, <1>9, <2>1, <2>3
  <1>12. CASE FileCheck BY <1>3, <1>12 DEF FileCheck, disk
  <1>13. CASE FileWrite
    <2> DEFINE a == action.path
               there == Place(a)
    <2>1. pc = "write" /\ Parents(a) = "real" BY <1>3, <1>13 DEF FileWrite, FileFails
    <2>2. a \in Path /\ there \in Alt BY <2>1, SyncBusy
    <2>3. At(a) = host[a][there] BY <1>1, <2>2, SyncWhere
    <2>4. \/ At(a) = "none" /\ host' = [host EXCEPT ![a][there] = snap[a]]
          \/ /\ action.replace /\ host' = [host EXCEPT ![a][there] = snap[a]]
             /\ trash' = trash \cup {[path |-> a, node |-> At(a)]}
      BY <1>3, <1>13 DEF FileWrite, FileFails, LinkNew, Replace, ConflictCopy
    <2> HIDE DEF there, a
    <2>5. host' = [host EXCEPT ![a][there] = snap[a]] => p = a /\ k = there BY <1>1, <1>2, <2>2
    <2>6. p = a /\ k = there BY <2>4, <2>5
    <2>7. At(a) # "none" BY <1>3, <2>3, <2>6
    <2>8. action.replace /\ trash' = trash \cup {[path |-> a, node |-> At(a)]} BY <2>4, <2>7
    <2>9. [path |-> p, node |-> host[p][k]] \in trash' BY <2>3, <2>6, <2>8
    <2>10. QED BY <2>1, <2>6, <2>8, <2>9 DEF a, there
  <1>14. CASE Record BY <1>3, <1>14 DEF Record, disk
  <1>15. CASE Save BY <1>3, <1>15 DEF Save, disk
  <1>16. CASE Kill BY <1>3, <1>16 DEF Kill, disk
  <1>17. QED
    BY <1>4, <1>5, <1>6, <1>7, <1>8, <1>10, <1>11, <1>12, <1>13, <1>14, <1>15, <1>16 DEF Next, Sync

(* Whatever a sync removes or replaces on the host is in the trash after     *)
(* that very step, whatever the host's user does at the same time, in the    *)
(* windows of sync.rs too, and wherever a path fails or the process dies.    *)
THEOREM HostVersionsKeptThm == Spec => HostVersionsKept
  <1>1. Init => SyncClaims BY SyncInit
  <1>2. SyncClaims /\ [Next]_vars => SyncClaims' BY SyncKeeps
  <1> DEFINE Kept == \A p \in Path, k \in Alt : Takes(p, k) => [path |-> p, node |-> host[p][k]] \in trash'
  <1>3. SyncClaims /\ [Next]_vars => [Kept]_vars
    <2> SUFFICES ASSUME SyncClaims, Next PROVE Kept OBVIOUS
    <2>1. QED BY SyncTakesOff
  <1>4. QED BY <1>1, <1>2, <1>3, PTL DEF Spec, HostVersionsKept

-----------------------------------------------------------------------------
(* The host leaves the path at work alone: what the guest has seen. *)

Fine(e, seen) == e.hostHash \in Content /\ ~e.link /\ ~e.diverged => e.hostHash \in seen

LEMMA SyncFine == ASSUME NEW m PROVE SeenEntries(m) <=> \A p \in Path : Fine(m.entries[p], had[p])
  BY DEF SeenEntries, Fine

(* What has been seen stays seen. *)
LEMMA SyncSeenStays ==
  ASSUME Seen, \A p \in Path : had[p] \subseteq had'[p], saved' \in {saved, manifest},
         \A p \in Path : tree'[p] = tree[p] \/ (tree'[p] \in Content => tree'[p] \in had'[p]),
         \A p \in Path : snap'[p] \in {snap[p], tree[p]},
         \A p \in Path : manifest'.entries[p] \in {manifest.entries[p], saved.entries[p]} \/ Fine(manifest'.entries[p], had'[p])
  PROVE  Seen'
  <1>1. \A p \in Path : /\ tree'[p] \in Content => tree'[p] \in had'[p]
                        /\ snap'[p] \in Content => snap'[p] \in had'[p]
    BY DEF Seen
  <1>2. \A p \in Path : Fine(manifest.entries[p], had[p]) /\ Fine(saved.entries[p], had[p]) BY DEF Seen, SeenEntries, Fine
  <1>3. \A p \in Path : Fine(manifest.entries[p], had'[p]) /\ Fine(saved.entries[p], had'[p]) BY <1>2 DEF Fine
  <1>4. \A p \in Path : Fine(manifest'.entries[p], had'[p]) BY <1>3
  <1>5. \A p \in Path : Fine(saved'.entries[p], had'[p]) BY <1>3
  <1>6. SeenEntries(manifest)' /\ SeenEntries(saved)' BY <1>4, <1>5 DEF SeenEntries, Fine
  <1>7. QED BY <1>1, <1>6 DEF Seen

LEMMA SyncNoneFine == ASSUME NEW seen PROVE Fine(NoEntry, seen)
  BY SyncPaths DEF Fine, NoEntry

(* Between two paths nothing is settled. *)
LEMMA SyncUnsettled == ASSUME pc' \in {"idle", "apply", "save", "check"} PROVE Settled'
  BY DEF Settled

LEMMA SeesGuest == ASSUME SyncClaims, SyncSees, GuestChange PROVE SyncSees'
  <1>1. UNCHANGED << disk, manifest, saved, pc, work, result, reached, edits >> BY DEF GuestChange
  <1>2. PICK p \in Path, item \in Item :
          tree' = [tree EXCEPT ![p] = item] /\ had' = [had EXCEPT ![p] = had[p] \cup ({item} \cap Content)]
    BY DEF GuestChange
  <1>3. tree \in [Path -> Item] /\ had \in [Path -> SUBSET Content] BY DEF SyncClaims, TypeOK
  <1>4. \A q \in Path : had[q] \subseteq had'[q] BY <1>2, <1>3
  <1>5. \A q \in Path : tree'[q] = tree[q] \/ (tree'[q] \in Content => tree'[q] \in had'[q]) BY <1>2, <1>3
  <1>6. snap' = snap /\ manifest' = manifest /\ saved' = saved /\ pc' = pc /\ host' = host /\ action' = action
    BY <1>1 DEF disk, work
  <1>7. Seen' BY <1>4, <1>5, <1>6, SyncSeenStays DEF SyncSees
  <1>8. pc \in Ongoing => action.path \in Path BY SyncAtWork DEF SyncClaims
  <1>9. \A q : At(q)' = At(q) /\ Place(q)' = Place(q) BY <1>6 DEF At, Place, Remap
  <1>10. Settled'
    <2>1. pc \in Ongoing => had[action.path] \subseteq had'[action.path] BY <1>4, <1>8
    <2>2. QED BY <1>6, <1>9, <2>1 DEF SyncSees, Settled, Ongoing
  <1>11. QED BY <1>7, <1>10 DEF SyncSees

LEMMA SeesEdit == ASSUME Windows = {}, SyncClaims, SyncSees, HostEdit PROVE SyncSees'
  <1>1. UNCHANGED << trash, tree, manifest, saved, pc, work, result, had, writes >> BY DEF HostEdit
  <1>2. PICK p \in Path, k \in Alt, node \in Node :
          MayEdit(p) /\ host' = [Without(host, p, k) EXCEPT ![p][k] = node]
    BY DEF HostEdit
  <1>3. host \in [Path -> [Alt -> Node]] /\ TypeOK BY DEF SyncClaims, TypeOK
  <1>4. \A q \in Path : q # p /\ Parent[q] # p => host'[q] = host[q] BY <1>2, <1>3 DEF Without
  <1>5. snap' = snap /\ manifest' = manifest /\ saved' = saved /\ pc' = pc /\ tree' = tree /\ action' = action /\ had' = had
    BY <1>1 DEF work
  <1>6. Seen' BY <1>5 DEF SyncSees, Seen, SeenEntries
  <1>7. \A q : Place(q)' = Place(q) BY <1>5 DEF Place, Remap
  <1>8. CASE pc \notin {"move", "write", "record"} BY <1>5, <1>6, <1>8 DEF SyncSees, Settled
  <1>9. CASE pc \in {"move", "write", "record"}
    <2> DEFINE a == action.path
    <2>1. a \in Path BY <1>3, <1>9, SyncAtWork DEF Ongoing
    <2>2. a # p /\ Parent[p] # a /\ p # Parent[a] BY <1>2, <1>9, <2>1, SyncPaths DEF MayEdit
    <2>3. host'[a] = host[a] BY <1>4, <2>1, <2>2
    <2>4. \A q \in Kids(a) : host'[q] = host[q]
      <3>1. \A q \in Kids(a) : q \in Path /\ Parent[q] = a BY DEF Kids
      <3>2. QED BY <1>4, <2>2, <3>1
    <2>5. At(a)' = At(a) BY <1>5, <1>7, <2>3 DEF At
    <2>6. Settled' BY <1>5, <1>7, <2>4, <2>5 DEF SyncSees, Settled
    <2>7. QED BY <1>6, <2>6 DEF SyncSees
  <1>10. QED BY <1>8, <1>9

LEMMA SeesStart == ASSUME SyncClaims, SyncSees, \E force \in BOOLEAN : SyncStart(force) PROVE SyncSees'
  <1>1. snap' = tree /\ UNCHANGED << tree, manifest, saved, bound >> /\ pc' \in {"idle", "apply"} BY DEF SyncStart
  <1>2. Seen' BY <1>1 DEF SyncSees, Seen, SeenEntries, bound
  <1>3. Settled' BY <1>1, SyncUnsettled
  <1>4. QED BY <1>2, <1>3 DEF SyncSees

(* A step that leaves the guest's side and the entries alone. *)
LEMMA SeesQuiet ==
  ASSUME SyncClaims, SyncSees, UNCHANGED << tree, snap, had >>, saved' \in {saved, manifest}, manifest'.entries = manifest.entries
  PROVE  Seen'
  <1>1. \A p \in Path : manifest'.entries[p] = manifest.entries[p] /\ snap'[p] = snap[p] /\ tree'[p] = tree[p] /\ had'[p] = had[p]
    OBVIOUS
  <1>2. QED BY <1>1, SyncSeenStays DEF SyncSees

(* The host's own version is the one that an entry knows. *)
LEMMA SyncSameSeen ==
  ASSUME SyncClaims, SyncSees, NEW p \in Path, Entries[p] # NoEntry => ~Entries[p].link /\ ~Entries[p].diverged /\ Entries[p].hash # "dir",
         HostState(p, Entries[p]) = "same"
  PROVE  At(p) \in Content /\ At(p) \in had[p]
  <1>1. Entries[p] # NoEntry /\ At(p) \in Content /\ Entries[p].hostHash = At(p) BY DEF HostState
  <1>2. QED BY <1>1 DEF SyncSees, Seen, SeenEntries, Entries

LEMMA SeesDelete == ASSUME SyncClaims, SyncSees, Delete PROVE SyncSees'
  <1>1. pc = "apply" /\ Unmoved /\ UNCHANGED << disk, failedDirs, failed, reached >> BY DEF Delete
  <1>2. PICK s \in todo :
          /\ IsNext(s, {"deleteFile", "deleteDir"}) /\ todo' = todo \ {s} /\ Note(s.path, NoEntry)
          /\ \/ Trashable(s.path, Entries[s.path]) /\ pc' = "move" /\ action' = [NoAction EXCEPT !.path = s.path]
             \/ Advance
    BY DEF Delete
  <1> DEFINE p == s.path
  <1>3. TypeOK /\ todo \subseteq Plan(Entries, snap) BY DEF SyncClaims, StepsLeft
  <1>4. p \in Path /\ Deleted(Entries, snap, p) BY <1>2, <1>3, SyncMeans DEF IsNext
  <1>5. manifest'.remap = manifest.remap /\ Entries' = [Entries EXCEPT ![p] = NoEntry] BY <1>2, <1>3, <1>4, SyncNotes
  <1>6. snap' = snap /\ tree' = tree /\ had' = had /\ saved' = saved /\ host' = host BY <1>1 DEF Unmoved, bound, disk
  <1>7. Entries \in [Path -> Entry \cup {NoEntry}] BY <1>3, SyncMan
  <1>8. Seen'
    <2>1. \A q \in Path : manifest'.entries[q] = manifest.entries[q] \/ manifest'.entries[q] = NoEntry
      BY <1>4, <1>5, <1>7 DEF Entries
    <2>2. \A q \in Path : manifest'.entries[q] = manifest.entries[q] \/ Fine(manifest'.entries[q], had'[q])
      BY <2>1, SyncNoneFine
    <2>3. QED BY <1>6, <2>2, SyncSeenStays DEF SyncSees
  <1>9. CASE Advance
    <2>1. pc' \in {"save", "apply"} BY <1>9 DEF Advance
    <2>2. Settled' BY <2>1, SyncUnsettled
    <2>3. QED BY <1>8, <2>2 DEF SyncSees
  <1>10. CASE Trashable(p, Entries[p]) /\ pc' = "move" /\ action' = [NoAction EXCEPT !.path = p]
    <2>1. action'.path = p BY <1>4, <1>10, SyncNames
    <2>2. \A q : Place(q)' = Place(q) /\ At(q)' = At(q) BY <1>5, <1>6 DEF Place, At, Remap
    <2>3. At(p) = host[p][Place(p)] /\ Place(p) \in Alt BY <1>3, <1>4, SyncWhere
    <2>4. Entries[p] # NoEntry BY <1>4 DEF Deleted
    <2>5. (At(p) \in Content => At(p) \in had[p]) /\ \A q \in Kids(p) : host[q][Place(p)] = "none"
      <3>1. CASE Entries[p].hash = "dir"
        <4>1. At(p) = "dir" /\ OnlyEmptyDirs(p) BY <1>10, <3>1 DEF Trashable
        <4>2. QED BY <4>1, SyncPaths DEF OnlyEmptyDirs
      <3>2. CASE Entries[p].hash # "dir"
        <4>1. ~Entries[p].link /\ ~Entries[p].diverged /\ HostState(p, Entries[p]) = "same" BY <1>10, <3>2 DEF Trashable
        <4>2. At(p) \in Content /\ At(p) \in had[p] BY <1>4, <3>2, <4>1, SyncSameSeen
        <4>3. \A q \in Kids(p) : q \in Path /\ Parent[q] = p /\ p # Root BY <1>4, SyncPaths DEF Kids
        <4>4. Consistent(host) BY <1>3 DEF TypeOK
        <4>5. host[p][Place(p)] # "dir" BY <2>3, <4>2, SyncPaths
        <4>6. QED BY <2>3, <4>2, <4>3, <4>4, <4>5 DEF Consistent
      <3>3. QED BY <3>1, <3>2
    <2>6. Settled' BY <1>6, <1>10, <2>1, <2>2, <2>5 DEF Settled
    <2>7. QED BY <1>8, <2>6 DEF SyncSees
  <1>11. QED BY <1>2, <1>9, <1>10

LEMMA SeesTrash == ASSUME SyncClaims, SyncSees, MoveToTrash PROVE SyncSees'
  <1>1. Unmoved /\ Advance /\ manifest' = manifest BY DEF MoveToTrash
  <1>2. Seen' BY <1>1, SeesQuiet DEF Unmoved, bound
  <1>3. pc' \in {"save", "apply"} BY <1>1 DEF Advance
  <1>4. Settled' BY <1>3, SyncUnsettled
  <1>5. QED BY <1>2, <1>4 DEF SyncSees

LEMMA SeesAddDir == ASSUME SyncClaims, SyncSees, AddDir PROVE SyncSees'
  <1>1. Unmoved BY DEF AddDir
  <1>2. PICK s \in todo :
          /\ IsNext(s, {"addDir"})
          /\ \/ EnsureDir(s.path) /\ pc' = "record" /\ action' = [NoAction EXCEPT !.path = s.path]
             \/ DirFailed(s.path)
    BY DEF AddDir
  <1>3. TypeOK BY DEF SyncClaims
  <1>4. s \in Plan(Entries, snap) /\ s.path \in Path /\ s.op = "addDir" BY <1>2, SyncFirst
  <1>5. snap[s.path] = "dir" /\ snap' = snap BY <1>1, <1>3, <1>4, SyncMeans DEF Unmoved
  <1>6. Parent[s.path] = Root BY <1>4, <1>5 DEF SyncClaims, DirsOnTop
  <1>7. manifest'.entries = manifest.entries
    <2>1. CASE EnsureDir(s.path) BY <1>3, <1>4, <1>6, <2>1, SyncEnsures
    <2>2. CASE DirFailed(s.path) BY <2>2 DEF DirFailed
    <2>3. QED BY <1>2, <2>1, <2>2
  <1>8. Seen' BY <1>1, <1>7, SeesQuiet DEF Unmoved, bound
  <1>9. CASE DirFailed(s.path)
    <2>1. pc' \in {"save", "apply"} BY <1>9 DEF DirFailed, Advance
    <2>2. Settled' BY <2>1, SyncUnsettled
    <2>3. QED BY <1>8, <2>2 DEF SyncSees
  <1>10. CASE pc' = "record" /\ action' = [NoAction EXCEPT !.path = s.path]
    <2>1. action'.path = s.path BY <1>4, <1>10, SyncNames
    <2>2. snap'[action'.path] \notin Content BY <1>5, <2>1, SyncPaths
    <2>3. Settled' BY <1>10, <2>2 DEF Settled
    <2>4. QED BY <1>8, <2>3 DEF SyncSees
  <1>11. QED BY <1>2, <1>9, <1>10

LEMMA SeesFileDir == ASSUME SyncClaims, SyncSees, FileDir PROVE SyncSees'
  <1>1. Unmoved BY DEF FileDir
  <1>2. PICK s \in todo :
          /\ IsNext(s, {"file"})
          /\ \/ Advance /\ UNCHANGED manifest
             \/ EnsureDir(Parent[s.path]) /\ pc' = "check"
    BY DEF FileDir, DirFailed
  <1>3. s.path \in Path BY <1>2, SyncFirst
  <1>4. Parent[s.path] \in Path \cup {Root} /\ (Parent[s.path] # Root => Parent[Parent[s.path]] = Root) BY <1>3, SyncPaths
  <1>5. manifest'.entries = manifest.entries
    <2>1. TypeOK BY DEF SyncClaims
    <2>2. CASE EnsureDir(Parent[s.path]) BY <1>4, <2>1, <2>2, SyncEnsures
    <2>3. CASE UNCHANGED manifest BY <2>3
    <2>4. QED BY <1>2, <2>2, <2>3
  <1>6. Seen' BY <1>1, <1>5, SeesQuiet DEF Unmoved, bound
  <1>7. pc' \in {"save", "apply", "check"} BY <1>2 DEF Advance
  <1>8. Settled' BY <1>7, SyncUnsettled
  <1>9. QED BY <1>6, <1>8 DEF SyncSees

LEMMA SeesFileCheck == ASSUME SyncClaims, SyncSees, FileCheck PROVE SyncSees'
  <1>1. pc = "check" /\ Unmoved /\ UNCHANGED << disk, manifest >> BY DEF FileCheck
  <1> DEFINE p == action.path
             entry == IF Modified(Entries, snap, p) THEN Entries[p] ELSE NoEntry
             state == HostState(p, entry)
             replace == MayReplace(state, entry)
  <1>2. \/ Adopts(p) /\ pc' = "record" /\ UNCHANGED action
        \/ ~Adopts(p) /\ action' = [NoAction EXCEPT !.path = p, !.state = state, !.replace = replace] /\ pc' = "write"
        \/ Advance
    BY DEF FileCheck
  <1>3. p \in Path /\ TypeOK BY <1>1, SyncBusy DEF SyncClaims
  <1>4. Seen' BY <1>1, SeesQuiet DEF Unmoved, bound
  <1>5. snap' = snap /\ had' = had /\ host' = host /\ manifest' = manifest BY <1>1 DEF Unmoved, bound, disk
  <1>6. \A q : Place(q)' = Place(q) /\ At(q)' = At(q) BY <1>5 DEF Place, At, Remap
  <1>7. CASE Advance
    <2>1. pc' \in {"save", "apply"} BY <1>7 DEF Advance
    <2>2. Settled' BY <2>1, SyncUnsettled
    <2>3. QED BY <1>4, <2>2 DEF SyncSees
  <1>8. CASE Adopts(p) /\ pc' = "record" /\ UNCHANGED action
    <2>1. At(p) = snap[p] BY <1>8 DEF Adopts
    <2>2. Settled' BY <1>5, <1>6, <1>8, <2>1 DEF Settled
    <2>3. QED BY <1>4, <2>2 DEF SyncSees
  <1>9. CASE ~Adopts(p) /\ action' = [NoAction EXCEPT !.path = p, !.state = state, !.replace = replace] /\ pc' = "write"
    <2>1. replace => At(p) \in had[p]
      <3>1. SUFFICES ASSUME replace PROVE At(p) \in had[p] OBVIOUS
      <3>2. HostState(p, entry) = "same" /\ ~entry.diverged /\ ~entry.link BY <3>1 DEF MayReplace
      <3>3. CASE Modified(Entries, snap, p)
        <4>1. entry = Entries[p] /\ Entries[p].hash \in Content BY <3>3 DEF Modified
        <4>2. QED BY <1>3, <3>2, <4>1, SyncSameSeen, SyncPaths
      <3>4. CASE ~Modified(Entries, snap, p)
        <4>1. entry = NoEntry BY <3>4
        <4>2. QED BY <3>2, <4>1 DEF HostState
      <3>5. QED BY <3>3, <3>4
    <2> HIDE DEF replace, state, entry
    <2>2. action'.path = p /\ action'.replace = replace BY <1>9 DEF NoAction
    <2>3. At(p) # snap[p] BY <1>9 DEF Adopts
    <2>4. Settled' BY <1>5, <1>6, <1>9, <2>1, <2>2, <2>3 DEF Settled
    <2>5. QED BY <1>4, <2>4 DEF SyncSees
  <1>10. QED BY <1>2, <1>7, <1>8, <1>9

LEMMA SeesFileWrite == ASSUME SyncClaims, SyncSees, FileWrite PROVE SyncSees'
  <1>1. pc = "write" /\ Unmoved /\ UNCHANGED manifest BY DEF FileWrite
  <1> DEFINE p == action.path
             fresh == action.state = "missing"
             conflict == ~fresh /\ ~action.replace
  <1>2. \/ /\ (fresh /\ LinkNew(p)) \/ (action.replace /\ Replace(p)) \/ conflict
           /\ action' = [action EXCEPT !.conflict = conflict] /\ pc' = "record"
        \/ Advance
    BY DEF FileWrite, FileFails
  <1>3. p \in Path /\ Place(p) \in Alt /\ TypeOK BY <1>1, SyncBusy DEF SyncClaims
  <1>4. Seen' BY <1>1, SeesQuiet DEF Unmoved, bound
  <1>5. snap' = snap /\ manifest' = manifest BY <1>1 DEF Unmoved
  <1>6. CASE Advance
    <2>1. pc' \in {"save", "apply"} BY <1>6 DEF Advance
    <2>2. Settled' BY <2>1, SyncUnsettled
    <2>3. QED BY <1>4, <2>2 DEF SyncSees
  <1>7. CASE /\ (fresh /\ LinkNew(p)) \/ (action.replace /\ Replace(p)) \/ conflict
             /\ action' = [action EXCEPT !.conflict = conflict] /\ pc' = "record"
    <2>1. action \in Actions BY <1>3 DEF TypeOK, Actions
    <2>2. conflict = (~fresh /\ ~action.replace) OBVIOUS
    <2> HIDE DEF conflict
    <2>3. action'.path = p /\ action'.conflict = conflict BY <1>7, <2>1 DEF Actions
    <2>4. ~conflict => At(p)' = snap[p]
      <3>1. Place(p)' = Place(p) BY <1>5, <2>3 DEF Place, Remap
      <3>2. ~conflict => host' = [host EXCEPT ![p][Place(p)] = snap[p]] BY <1>7, <2>2 DEF LinkNew, Replace
      <3>3. host \in [Path -> [Alt -> Node]] BY <1>3 DEF TypeOK
      <3>4. At(p)' = host'[p][Place(p)] BY <2>3, <3>1 DEF At
      <3>5. QED BY <1>3, <3>2, <3>3, <3>4
    <2>5. Settled' BY <1>5, <1>7, <2>3, <2>4 DEF Settled
    <2>6. QED BY <1>4, <2>5 DEF SyncSees
  <1>8. QED BY <1>2, <1>6, <1>7

LEMMA SeesRecord == ASSUME SyncClaims, SyncSees, Record PROVE SyncSees'
  <1>1. pc = "record" /\ Unmoved /\ Advance BY DEF Record
  <1> DEFINE p == action.path
             entry == NewEntry(p, snap[p], action.conflict)
  <1>2. Note(p, entry) BY DEF Record
  <1>3. TypeOK /\ action.conflict \in BOOLEAN BY DEF SyncClaims, TypeOK
  <1>4. p \in Path /\ snap[p] \in Content \cup {"dir"} BY <1>1, SyncBusy
  <1>5. entry \in Entry BY <1>3, <1>4, SyncEntry
  <1>6. Fine(entry, had[p])
    <2>1. CASE action.conflict
      <3>1. entry.diverged = TRUE BY <2>1 DEF NewEntry
      <3>2. QED BY <3>1 DEF Fine
    <2>2. CASE ~action.conflict
      <3>1. entry = EntryFrom(p, snap[p]) BY <2>2 DEF NewEntry
      <3>2. entry.hostHash \in Content => snap[p] # "dir" /\ entry.hostHash = At(p) BY <3>1, SyncPaths DEF EntryFrom
      <3>3. snap[p] \in Content => At(p) = snap[p] /\ snap[p] \in had[p] BY <1>1, <1>4, <2>2 DEF SyncSees, Settled, Seen
      <3>4. QED BY <1>4, <3>2, <3>3 DEF Fine
    <2>3. QED BY <2>1, <2>2
  <1> HIDE DEF entry
  <1>7. Entries' = [Entries EXCEPT ![p] = entry] /\ Entries \in [Path -> Entry \cup {NoEntry}]
    BY <1>2, <1>3, <1>4, <1>5, SyncNotes, SyncMan
  <1>8. snap' = snap /\ tree' = tree /\ had' = had /\ saved' = saved BY <1>1 DEF Unmoved, bound
  <1>9. \A q \in Path : manifest'.entries[q] = manifest.entries[q] \/ Fine(manifest'.entries[q], had'[q])
    BY <1>4, <1>6, <1>7, <1>8 DEF Entries
  <1>10. Seen' BY <1>8, <1>9, SyncSeenStays DEF SyncSees
  <1>11. pc' \in {"save", "apply"} BY <1>1 DEF Advance
  <1>12. Settled' BY <1>11, SyncUnsettled
  <1>13. QED BY <1>10, <1>12 DEF SyncSees

LEMMA SeesSave == ASSUME SyncClaims, SyncSees, Save PROVE SyncSees'
  <1>1. pc' = "idle" /\ saved' \in {saved, manifest} /\ UNCHANGED << tree, manifest, snap, had >> BY DEF Save, work, bound
  <1>2. Seen' BY <1>1, SeesQuiet
  <1>3. Settled' BY <1>1, SyncUnsettled
  <1>4. QED BY <1>2, <1>3 DEF SyncSees

LEMMA SeesKill == ASSUME SyncClaims, SyncSees, Kill PROVE SyncSees'
  <1>1. pc' = "idle" /\ manifest' = saved /\ UNCHANGED << tree, saved, snap, had >> BY DEF Kill, bound
  <1>2. Seen' BY <1>1, SyncSeenStays DEF SyncSees
  <1>3. Settled' BY <1>1, SyncUnsettled
  <1>4. QED BY <1>2, <1>3 DEF SyncSees

LEMMA SeesSteady == ASSUME SyncSees, UNCHANGED vars PROVE SyncSees'
  <1>1. UNCHANGED << host, manifest, saved, pc, tree, snap, action, had >> BY DEF vars, disk, work, bound
  <1>2. Seen' BY <1>1 DEF SyncSees, Seen, SeenEntries
  <1>3. \A q : Place(q)' = Place(q) /\ At(q)' = At(q) BY <1>1 DEF Place, At, Remap
  <1>4. Settled' BY <1>1, <1>3 DEF SyncSees, Settled
  <1>5. QED BY <1>2, <1>4 DEF SyncSees

LEMMA SeesInit == Init => SyncSees
  <1> SUFFICES ASSUME Init PROVE SyncSees OBVIOUS
  <1>1. SyncClaims BY SyncInit
  <1>2. PICK e \in [Path -> UNION { Imported(n) : n \in Node }] :
          /\ \A p \in Path : e[p] \in Imported(host[p][0])
          /\ manifest = [entries |-> e, remap |-> [p \in Path |-> 0]]
          /\ tree = [p \in Path |-> e[p].hash]
          /\ had = [p \in Path |-> {e[p].hash} \cap Content]
    BY DEF Init
  <1>3. saved = manifest /\ snap = tree /\ pc = "idle" BY DEF Init
  <1>4. \A p \in Path : Fine(e[p], {e[p].hash} \cap Content)
    <2>1. ASSUME NEW node, NEW f \in Imported(node) PROVE Fine(f, {f.hash} \cap Content)
      <3>1. \/ f = NoEntry
            \/ \E c \in Content : f = [hash |-> c, hostHash |-> c, link |-> FALSE, diverged |-> FALSE]
            \/ f = [hash |-> "dir", hostHash |-> "none", link |-> FALSE, diverged |-> FALSE]
            \/ \E c \in Content : f = [hash |-> c, hostHash |-> c, link |-> TRUE, diverged |-> FALSE]
        BY <2>1 DEF Imported, NoEntry
      <3>2. Fine(NoEntry, {f.hash} \cap Content) BY SyncNoneFine
      <3>3. QED BY <3>1, <3>2, SyncPaths DEF Fine
    <2>2. QED BY <1>2, <2>1
  <1>5. \A p \in Path : manifest.entries[p] = e[p] /\ had[p] = {e[p].hash} \cap Content /\ tree[p] = e[p].hash BY <1>2
  <1>6. SeenEntries(manifest) BY <1>4, <1>5, SyncFine
  <1>7. Seen BY <1>3, <1>5, <1>6 DEF Seen
  <1>8. Settled BY <1>3 DEF Settled
  <1>9. QED BY <1>7, <1>8 DEF SyncSees

LEMMA SeesKeeps == ASSUME Windows = {}, SyncClaims, SyncSees, [Next]_vars PROVE SyncSees'
  <1>1. CASE GuestChange BY <1>1, SeesGuest
  <1>2. CASE HostEdit BY <1>2, SeesEdit
  <1>3. CASE Sync
    <2>1. CASE \E force \in BOOLEAN : SyncStart(force) BY <2>1, SeesStart
    <2>2. CASE Delete BY <2>2, SeesDelete
    <2>3. CASE MoveToTrash BY <2>3, SeesTrash
    <2>4. CASE AddDir BY <2>4, SeesAddDir
    <2>5. CASE FileDir BY <2>5, SeesFileDir
    <2>6. CASE FileCheck BY <2>6, SeesFileCheck
    <2>7. CASE FileWrite BY <2>7, SeesFileWrite
    <2>8. CASE Record BY <2>8, SeesRecord
    <2>9. CASE Save BY <2>9, SeesSave
    <2>10. QED BY <1>3, <2>1, <2>2, <2>3, <2>4, <2>5, <2>6, <2>7, <2>8, <2>9 DEF Sync
  <1>4. CASE Kill BY <1>4, SeesKill
  <1>5. CASE UNCHANGED vars BY <1>5, SeesSteady
  <1>6. QED BY <1>1, <1>2, <1>3, <1>4, <1>5 DEF Next

(* As long as the host leaves the path at work and its directory alone      *)
(* between a check and the step it allows, a sync replaces and deletes only  *)
(* host versions the guest had: MayReplace asks that the host is as the      *)
(* entry says and never diverged, and a deletion asks the same.              *)
THEOREM OnlySeenReplacedThm == ASSUME Windows = {} PROVE Spec => OnlySeenReplaced
  <1>1. Init => SyncClaims /\ SyncSees BY SyncInit, SeesInit
  <1>2. (SyncClaims /\ SyncSees) /\ [Next]_vars => (SyncClaims /\ SyncSees)' BY SyncKeeps, SeesKeeps
  <1> DEFINE Only == \A p \in Path, k \in Alt : Takes(p, k) => host[p][k] \in had[p]
  <1>3. (SyncClaims /\ SyncSees) /\ [Next]_vars => [Only]_vars
    <2> SUFFICES ASSUME SyncClaims, SyncSees, Next, NEW p \in Path, NEW k \in Alt, Takes(p, k) PROVE host[p][k] \in had[p] OBVIOUS
    <2>1. host[p][k] \in Content /\ host[p][k] # "none" BY SyncPaths DEF Takes
    <2>2. TypeOK BY DEF SyncClaims
    <2>3. CASE pc = "move" /\ k = Place(action.path) /\ (p = action.path \/ Parent[p] = action.path)
      <3>1. Parent[p] = action.path => p \in Kids(action.path) BY DEF Kids
      <3>2. p = action.path BY <2>1, <2>3, <3>1 DEF SyncSees, Settled
      <3>3. At(p) = host[p][k] BY <2>3, <3>2 DEF At
      <3>4. QED BY <2>1, <2>3, <3>2, <3>3 DEF SyncSees, Settled
    <2>4. CASE pc = "write" /\ action.replace /\ p = action.path /\ k = Place(p)
      <3>1. At(p) = host[p][k] BY <2>4 DEF At
      <3>2. QED BY <2>4, <3>1 DEF SyncSees, Settled
    <2>5. QED BY <2>3, <2>4, SyncTakesOff
  <1>4. QED BY <1>1, <1>2, <1>3, PTL DEF Spec, OnlySeenReplaced

(* Under the same assumption a conflict copy is made only of a version that  *)
(* the host does not have at its path, so a sync after a kill or an          *)
(* unsaved manifest makes no second copy of what is already there.           *)
THEOREM CopiesAreNewsThm == ASSUME Windows = {} PROVE Spec => CopiesAreNews
  <1>1. Init => SyncClaims /\ SyncSees BY SyncInit, SeesInit
  <1>2. (SyncClaims /\ SyncSees) /\ [Next]_vars => (SyncClaims /\ SyncSees)' BY SyncKeeps, SeesKeeps
  <1> DEFINE News == \A c \in copies' \ copies : host[c.path][c.place] # c.content
  <1>3. (SyncClaims /\ SyncSees) /\ [Next]_vars => [News]_vars
    <2> SUFFICES ASSUME SyncClaims, SyncSees, Next, NEW c \in copies' \ copies PROVE host[c.path][c.place] # c.content OBVIOUS
    <2>1. FileWrite
      <3>1. ~(copies' \subseteq copies) OBVIOUS
      <3>2. QED BY <3>1 DEF Next, Sync, GuestChange, HostEdit, SyncStart, Delete, MoveToTrash, AddDir, FileDir, FileCheck,
                          Record, Save, Kill, disk
    <2> DEFINE p == action.path
               there == Place(p)
               content == snap[p]
    <2>2. pc = "write" /\ c \in {[path |-> p, place |-> there, content |-> content, stamp |-> stamp]}
      BY <2>1 DEF FileWrite, FileFails, LinkNew, Replace, ConflictCopy
    <2>3. host[p][there] # content BY <2>2 DEF SyncSees, Settled, At
    <2> HIDE DEF p, there, content
    <2>4. c.path = p /\ c.place = there /\ c.content = content BY <2>2
    <2>5. QED BY <2>3, <2>4
  <1>4. QED BY <1>1, <1>2, <1>3, PTL DEF Spec, CopiesAreNews
=============================================================================
