---------------------- MODULE CompressorPackagesProofs ----------------------
(***************************************************************************)
(* Who a workspace belongs to, for any number of uploads, users, deletions,*)
(* restarts and failing statements.                                        *)
(*                                                                         *)
(* Requests, builds and deletions carry what they read of a row into later *)
(* steps.  The row may be gone by then and its name taken by another user; *)
(* its id is not reused, so the id and the paths a request carries stay    *)
(* those of the package it started with.  The invariant says so of every   *)
(* request, build and deletion that is under way.                          *)
(*                                                                         *)
(* The last two theorems are about runs without a restart or a failing     *)
(* statement: what a build finds of its archive, and what a package runs   *)
(* when nobody begins a request on a name that is busy.                    *)
(***************************************************************************)
EXTENDS CompressorPackages, TLAPS

\* Every row is the row of the upload that gave it its id.
RowsInv ==
    /\ \A i, j \in Packages : rows[i].name = rows[j].name => i = j
    /\ \A i \in Packages :
          /\ rows[i].name = NameOf[i] /\ rows[i].owner = OwnerOf[i]
          /\ SamePackage(rows[i].archive, i)
          /\ rows[i].group = GroupOf[rows[i].archive]
          /\ rows[i].path # NoPath => SamePackage(rows[i].path, i)

\* A re-upload writes and clears only what its user uploaded for that name.
RequestsInv ==
    \A u \in Uploads :
       /\ upload[u] \in {"clear", "replace"} =>
             /\ target[u] \in Uploads /\ SamePackage(target[u], u)
             /\ stale[u] # NoPath => SamePackage(stale[u], u)
       /\ upload[u] # "done" => build[u] = "none"

\* So does a build, with whatever path it read.
BuildsInv ==
    \A u \in Uploads :
       /\ build[u] # "none" =>
             target[u] \in Uploads /\ SamePackage(target[u], u)
       /\ build[u] \in {"run", "verify", "ready"} =>
             seen[u].path \in Uploads /\ SamePackage(seen[u].path, u)

\* Whoever deletes a package had the right to remove the path he read.
VictimsInv ==
    \A d \in Deletions :
       /\ deletion[d] \in {"remove", "delete"} => victim[d].id \in Uploads
       /\ deletion[d] = "remove" /\ victim[d].path # NoPath =>
             MayRemove(ActorOf[d], victim[d].path)

PackagesInv == TypeOK /\ RowsInv /\ RequestsInv /\ BuildsInv /\ VictimsInv

-----------------------------------------------------------------------------
(* Rows *)

\* An update that keeps name and owner, and takes archive and path from
\* uploads of the same package, keeps the rows well formed.
LEMMA UpdateKeepsRows ==
    ASSUME TypeOK, RowsInv, NEW i \in Uploads, NEW r, UpdateRow(i, r),
           i \in Packages =>
              /\ r \in Row
              /\ r.name = NameOf[i] /\ r.owner = OwnerOf[i]
              /\ SamePackage(r.archive, i)
              /\ r.group = GroupOf[r.archive]
              /\ r.path # NoPath => SamePackage(r.path, i)
    PROVE  rows' \in [Uploads -> Row \cup {NoRow}] /\ RowsInv'
<1>1. CASE i \notin Packages
  BY <1>1 DEF UpdateRow, RowsInv, TypeOK, Packages, SamePackage
<1>2. CASE i \in Packages
  <2>1. rows' = [rows EXCEPT ![i] = r] BY <1>2 DEF UpdateRow
  <2>2. rows' \in [Uploads -> Row \cup {NoRow}] BY <1>2, <2>1 DEF TypeOK
  <2>3. \A j \in Packages' : j \in Packages
    BY <1>2, <2>1 DEF Packages, TypeOK
  <2>4. \A j \in Uploads : rows'[j] = IF j = i THEN r ELSE rows[j]
    BY <2>1 DEF TypeOK
  <2>5. \A j \in Packages' : rows'[j].name = rows[j].name
    BY <1>2, <2>3, <2>4 DEF RowsInv, Packages
  <2>6. \A j \in Packages' :
          /\ rows'[j].name = NameOf[j] /\ rows'[j].owner = OwnerOf[j]
          /\ SamePackage(rows'[j].archive, j)
          /\ rows'[j].group = GroupOf[rows'[j].archive]
          /\ rows'[j].path # NoPath => SamePackage(rows'[j].path, j)
    BY <1>2, <2>3, <2>4 DEF RowsInv, Packages
  <2> QED BY <2>2, <2>3, <2>5, <2>6 DEF RowsInv, SamePackage
<1> QED BY <1>1, <1>2

\* A row that is found has the type of its columns.
LEMMA FoundRow ==
    ASSUME TypeOK, NEW i \in Packages
    PROVE  i \in Uploads /\ rows[i] \in Row /\ rows[i] \in Columns
BY DEF TypeOK, Packages, Row

LEMMA InitInv == Init => PackagesInv
<1> SUFFICES ASSUME Init PROVE PackagesInv OBVIOUS
<1> USE DEF Init
<1>1. TypeOK BY PackagesAssumption DEF TypeOK
<1>2. RowsInv BY DEF RowsInv, Packages
<1>3. RequestsInv BY DEF RequestsInv
<1>4. BuildsInv BY DEF BuildsInv
<1>5. VictimsInv BY DEF VictimsInv
<1> QED BY <1>1, <1>2, <1>3, <1>4, <1>5 DEF PackagesInv

-----------------------------------------------------------------------------
(* Steps *)

\* What a row-writing action leaves in the table.
LEMMA RowStep ==
    ASSUME PackagesInv, Next
    PROVE  rows' \in [Uploads -> Row \cup {NoRow}] /\ RowsInv'
<1> USE DEF PackagesInv
<1>0. CASE UNCHANGED rows
  BY <1>0 DEF RowsInv, TypeOK, Packages, SamePackage
<1>1. ASSUME NEW u \in Uploads, Replace(u)
      PROVE  rows' \in [Uploads -> Row \cup {NoRow}] /\ RowsInv'
  <2> DEFINE i == target[u]
             r == [rows[i] EXCEPT !.group = GroupOf[u], !.archive = u,
                                  !.status = "building", !.path = u]
  <2>1. i \in Uploads /\ SamePackage(i, u) BY <1>1 DEF Replace, RequestsInv
  <2>2. UpdateRow(i, r) BY <1>1 DEF Replace
  <2>3. ASSUME i \in Packages
        PROVE  /\ r \in Row
               /\ r.name = NameOf[i] /\ r.owner = OwnerOf[i]
               /\ SamePackage(r.archive, i)
               /\ r.group = GroupOf[r.archive]
               /\ r.path # NoPath => SamePackage(r.path, i)
    <3>1. rows[i] \in Columns BY <2>3, FoundRow
    <3>2. r \in Columns BY <3>1 DEF Columns
    <3>3. r.status = "building" /\ r.path = u BY <3>1 DEF Columns
    <3>4. r \in Row BY <3>2, <3>3, PackagesAssumption DEF Row
    <3>5. r.name = rows[i].name /\ r.owner = rows[i].owner /\ r.archive = u
             /\ r.group = GroupOf[u] BY <3>1 DEF Columns
    <3> HIDE DEF r
    <3> QED BY <2>1, <2>3, <3>3, <3>4, <3>5 DEF RowsInv, SamePackage
  <2> HIDE DEF i, r
  <2> QED BY <2>1, <2>2, <2>3, UpdateKeepsRows
<1>2. ASSUME NEW u \in Uploads, Create(u)
      PROVE  rows' \in [Uploads -> Row \cup {NoRow}] /\ RowsInv'
  <2> DEFINE r == [name |-> NameOf[u], owner |-> OwnerOf[u],
                   group |-> GroupOf[u], archive |-> u,
                   status |-> "building", path |-> u]
  <2>1. rows' = [rows EXCEPT ![u] = r] /\ Named(NameOf[u]) = {}
    BY <1>2 DEF Create
  <2>2. r \in Row BY PackagesAssumption DEF Row, Columns
  <2>3. rows' \in [Uploads -> Row \cup {NoRow}] BY <2>1, <2>2 DEF TypeOK
  <2>4. \A j \in Packages' : j = u \/ j \in Packages
    BY <2>1 DEF Packages, TypeOK
  <2>5. \A j \in Uploads : rows'[j] = IF j = u THEN r ELSE rows[j]
    BY <2>1 DEF TypeOK
  <2>6. \A j \in Packages : rows[j].name # NameOf[u] BY <2>1 DEF Named
  <2>7. \A j, k \in Packages' : rows'[j].name = rows'[k].name => j = k
    BY <2>4, <2>5, <2>6 DEF RowsInv, Packages
  <2>8. \A j \in Packages' :
          /\ rows'[j].name = NameOf[j] /\ rows'[j].owner = OwnerOf[j]
          /\ SamePackage(rows'[j].archive, j)
          /\ rows'[j].group = GroupOf[rows'[j].archive]
          /\ rows'[j].path # NoPath => SamePackage(rows'[j].path, j)
    BY <2>4, <2>5 DEF RowsInv, Packages, SamePackage
  <2> QED BY <2>3, <2>7, <2>8 DEF RowsInv, SamePackage
<1>3. ASSUME NEW u \in Uploads, MarkReady(u)
      PROVE  rows' \in [Uploads -> Row \cup {NoRow}] /\ RowsInv'
  <2> DEFINE i == target[u]
             r == [rows[i] EXCEPT !.status = "ready", !.path = seen[u].path]
  <2>1. /\ i \in Uploads /\ SamePackage(i, u)
        /\ seen[u].path \in Uploads /\ SamePackage(seen[u].path, u)
    BY <1>3 DEF MarkReady, BuildsInv
  <2>2. UpdateRow(i, r) BY <1>3 DEF MarkReady
  <2>3. ASSUME i \in Packages
        PROVE  /\ r \in Row
               /\ r.name = NameOf[i] /\ r.owner = OwnerOf[i]
               /\ SamePackage(r.archive, i)
               /\ r.group = GroupOf[r.archive]
               /\ r.path # NoPath => SamePackage(r.path, i)
    <3>1. rows[i] \in Columns BY <2>3, FoundRow
    <3>2. r \in Columns BY <2>1, <3>1 DEF Columns
    <3>3. r.status = "ready" /\ r.path = seen[u].path BY <3>1 DEF Columns
    <3>4. r \in Row BY <2>1, <3>2, <3>3, PackagesAssumption DEF Row
    <3>5. r.name = rows[i].name /\ r.owner = rows[i].owner
             /\ r.archive = rows[i].archive /\ r.group = rows[i].group
      BY <3>1 DEF Columns
    <3> HIDE DEF r
    <3> QED BY <2>1, <2>3, <3>3, <3>4, <3>5 DEF RowsInv, SamePackage
  <2> HIDE DEF i, r
  <2> QED BY <2>1, <2>2, <2>3, UpdateKeepsRows
<1>4. ASSUME NEW u \in Uploads, MarkFailed(u)
      PROVE  rows' \in [Uploads -> Row \cup {NoRow}] /\ RowsInv'
  <2> DEFINE i == target[u]
             r == [rows[i] EXCEPT !.status = "failed", !.path = NoPath]
  <2>1. i \in Uploads BY <1>4 DEF MarkFailed, BuildsInv
  <2>2. UpdateRow(i, r) BY <1>4 DEF MarkFailed
  <2>3. ASSUME i \in Packages
        PROVE  /\ r \in Row
               /\ r.name = NameOf[i] /\ r.owner = OwnerOf[i]
               /\ SamePackage(r.archive, i)
               /\ r.group = GroupOf[r.archive]
               /\ r.path # NoPath => SamePackage(r.path, i)
    <3>1. rows[i] \in Columns BY <2>3, FoundRow
    <3>2. r \in Columns BY <3>1 DEF Columns
    <3>3. r.status = "failed" /\ r.path = NoPath BY <3>1 DEF Columns
    <3>4. r \in Row BY <3>2, <3>3 DEF Row
    <3>5. r.name = rows[i].name /\ r.owner = rows[i].owner
             /\ r.archive = rows[i].archive /\ r.group = rows[i].group
      BY <3>1 DEF Columns
    <3> HIDE DEF r
    <3> QED BY <2>1, <2>3, <3>3, <3>4, <3>5 DEF RowsInv, SamePackage
  <2> HIDE DEF i, r
  <2> QED BY <2>1, <2>2, <2>3, UpdateKeepsRows
<1>5. ASSUME NEW d \in Deletions, DeleteVictim(d)
      PROVE  rows' \in [Uploads -> Row \cup {NoRow}] /\ RowsInv'
  <2>1. rows' = [rows EXCEPT ![victim[d].id] = NoRow]
    BY <1>5 DEF DeleteVictim
  <2>2. rows' \in [Uploads -> Row \cup {NoRow}] BY <2>1 DEF TypeOK
  <2>3. \A j \in Packages' : j \in Packages /\ rows'[j] = rows[j]
    BY <2>1 DEF Packages, TypeOK
  <2> QED BY <2>2, <2>3 DEF RowsInv, SamePackage
<1>6. ASSUME NEW u \in Uploads,
             StoreArchive(u) \/ UploadPackage(u) \/ Build(u)
      PROVE  \/ UNCHANGED rows \/ Replace(u) \/ Create(u)
             \/ MarkReady(u) \/ MarkFailed(u)
  BY <1>6 DEF StoreArchive, UploadPackage, Build, CheckSpec, FindExisting,
     ClearOld, CreateConflicts, Cleanup, LoadPackage, RunBuild,
     VerifyEntrypoint
<1>7. ASSUME NEW u \in Uploads, UploadFails(u) \/ BuildFails(u)
      PROVE  UNCHANGED rows
  BY <1>7 DEF UploadFails, BuildFails
<1>8. ASSUME NEW d \in Deletions,
             (\E i \in Uploads : FindVictim(d, i)) \/ RemoveVictim(d)
                \/ DeletionFails(d)
      PROVE  UNCHANGED rows
  BY <1>8 DEF FindVictim, RemoveVictim, DeletionFails
<1>9. CASE Crash BY <1>0, <1>9 DEF Crash
<1> QED
  BY <1>0, <1>1, <1>2, <1>3, <1>4, <1>5, <1>6, <1>7, <1>8, <1>9
  DEF Next, DeletePackage

\* The part of TypeOK that speaks of requests.
RequestsType ==
    /\ upload \in [Uploads -> {"new", "check", "find", "clear", "replace",
                               "create", "cleanup", "done"}]
    /\ target \in [Uploads -> Uploads \cup {NoRow}]
    /\ stale \in [Uploads -> Uploads \cup {NoPath}]

\* Reads of a row find uploads of the same package.
LEMMA ReadRow ==
    ASSUME PackagesInv, NEW i \in Packages, NEW u \in Uploads, SamePackage(i, u)
    PROVE  /\ rows[i].path \in Uploads \cup {NoPath}
           /\ rows[i].archive \in Uploads
           /\ rows[i].path # NoPath => SamePackage(rows[i].path, u)
<1>1. rows[i] \in Columns BY FoundRow DEF PackagesInv
<1> QED BY <1>1 DEF Columns, PackagesInv, RowsInv, SamePackage

LEMMA RequestsStep ==
    ASSUME PackagesInv, Next
    PROVE  RequestsInv' /\ RequestsType'
<1> USE DEF PackagesInv, TypeOK, RequestsType, Goto, BuildGoto
<1>1. ASSUME NEW u \in Uploads, FindExisting(u)
      PROVE  RequestsInv' /\ RequestsType'
  <2>1. ASSUME Goto(u, "create") \/ Goto(u, "cleanup"),
               UNCHANGED <<target, stale>>
        PROVE  RequestsInv' /\ RequestsType'
    BY <1>1, <2>1 DEF FindExisting, RequestsInv, builds, SamePackage
  <2>2. ASSUME NEW i \in Named(NameOf[u]), rows[i].owner = OwnerOf[u],
               Goto(u, "clear"), target' = [target EXCEPT ![u] = i],
               stale' = [stale EXCEPT ![u] = rows[i].path], UNCHANGED build
        PROVE  RequestsInv' /\ RequestsType'
    <3>1. i \in Packages /\ i \in Uploads /\ SamePackage(i, u)
      BY <2>2, FoundRow DEF Named, RowsInv, SamePackage
    <3>2. /\ rows[i].path \in Uploads \cup {NoPath}
          /\ rows[i].path # NoPath => SamePackage(rows[i].path, u)
      BY <3>1, ReadRow
    <3>3. upload[u] # "done" BY <1>1 DEF FindExisting
    <3> QED BY <2>2, <3>1, <3>2, <3>3 DEF RequestsInv, SamePackage
  <2> QED BY <1>1, <2>1, <2>2 DEF FindExisting, builds
<1>2. ASSUME NEW u \in Uploads,
             StoreArchive(u) \/ CheckSpec(u) \/ ClearOld(u) \/ Replace(u)
                \/ Create(u) \/ CreateConflicts(u) \/ Cleanup(u)
                \/ UploadFails(u)
      PROVE  RequestsInv' /\ RequestsType'
  BY <1>2 DEF StoreArchive, CheckSpec, ClearOld, Replace, Create, Accepted,
     CreateConflicts, Cleanup, UploadFails, RequestsInv, SamePackage, builds
<1>3. ASSUME NEW u \in Uploads, Build(u) \/ BuildFails(u)
      PROVE  /\ RequestsInv'
             /\ UNCHANGED requests
  <2>1. build[u] # "none" /\ UNCHANGED requests
    BY <1>3 DEF Build, LoadPackage, RunBuild, VerifyEntrypoint, MarkReady,
       MarkFailed, BuildFails, requests
  <2>2. upload[u] = "done" BY <2>1 DEF RequestsInv
  <2>3. \A v \in Uploads : v # u => build'[v] = build[v]
    BY <1>3 DEF Build, LoadPackage, RunBuild, VerifyEntrypoint, MarkReady,
       MarkFailed, BuildFails
  <2> QED BY <2>1, <2>2, <2>3 DEF RequestsInv, requests, SamePackage
<1>4. ASSUME NEW d \in Deletions,
             (\E i \in Uploads : FindVictim(d, i)) \/ DeletePackage(d)
                \/ DeletionFails(d)
      PROVE  UNCHANGED <<requests, builds>>
  BY <1>4 DEF FindVictim, DeletePackage, RemoveVictim, DeleteVictim,
     DeletionFails
<1>5. CASE Crash BY <1>5 DEF Crash, RequestsInv, SamePackage
<1>6. CASE UNCHANGED <<requests, builds>>
  BY <1>6 DEF RequestsInv, requests, builds, SamePackage
<1>7. UNCHANGED requests => RequestsType' BY DEF requests
<1> QED BY <1>1, <1>2, <1>3, <1>4, <1>5, <1>6, <1>7
        DEF Next, UploadPackage, requests

\* The part of TypeOK that speaks of builds.
BuildsType ==
    /\ build \in [Uploads -> {"none", "load", "run", "verify", "ready",
                              "failed"}]
    /\ seen \in [Uploads -> [path : Uploads \cup {NoPath},
                             archive : Uploads]]

LEMMA BuildsStep ==
    ASSUME PackagesInv, Next
    PROVE  BuildsInv' /\ BuildsType'
<1> USE DEF PackagesInv, TypeOK, BuildsType, Goto, BuildGoto
<1>1. ASSUME NEW u \in Uploads, Replace(u) \/ Create(u)
      PROVE  BuildsInv' /\ BuildsType'
  BY <1>1 DEF Replace, Create, Accepted, BuildsInv, RequestsInv, SamePackage
\* A request that looks up its target has no build yet.
<1>2. ASSUME NEW u \in Uploads,
             StoreArchive(u) \/ CheckSpec(u) \/ FindExisting(u) \/ ClearOld(u)
                \/ CreateConflicts(u) \/ Cleanup(u) \/ UploadFails(u)
      PROVE  BuildsInv' /\ BuildsType'
  <2>1. /\ UNCHANGED builds
        /\ \A v \in Uploads : build[v] # "none" => target'[v] = target[v]
    BY <1>2 DEF StoreArchive, CheckSpec, FindExisting, ClearOld,
       CreateConflicts, Cleanup, UploadFails, RequestsInv
  <2> QED BY <2>1 DEF BuildsInv, builds, SamePackage
<1>3. ASSUME NEW u \in Uploads, LoadPackage(u)
      PROVE  BuildsInv' /\ BuildsType'
  <2>1. build[u] = "load" /\ UNCHANGED target
    BY <1>3 DEF LoadPackage, requests
  <2>2. CASE UNCHANGED seen /\ build'[u] \in {"none", "failed"}
    BY <1>3, <2>1, <2>2 DEF LoadPackage, BuildsInv, SamePackage
  <2>3. ASSUME target[u] \in Packages, rows[target[u]].path # NoPath,
               BuildGoto(u, "run"),
               seen' = [seen EXCEPT ![u] =
                           [path |-> rows[target[u]].path,
                            archive |-> rows[target[u]].archive]]
        PROVE  BuildsInv' /\ BuildsType'
    <3>1. SamePackage(target[u], u) BY <2>1 DEF BuildsInv
    <3>2. /\ rows[target[u]].path \in Uploads
          /\ rows[target[u]].archive \in Uploads
          /\ SamePackage(rows[target[u]].path, u)
      BY <2>3, <3>1, ReadRow
    <3> QED BY <2>1, <2>3, <3>1, <3>2 DEF BuildsInv, SamePackage
  <2> QED BY <1>3, <2>2, <2>3 DEF LoadPackage
<1>4. ASSUME NEW u \in Uploads,
             RunBuild(u) \/ VerifyEntrypoint(u) \/ MarkReady(u)
                \/ MarkFailed(u) \/ BuildFails(u)
      PROVE  BuildsInv' /\ BuildsType'
  <2>1. UNCHANGED <<requests, seen>>
    BY <1>4 DEF RunBuild, VerifyEntrypoint, MarkReady, MarkFailed, BuildFails
  <2>2. \E next \in {"none", "verify", "ready", "failed"} :
           /\ build' = [build EXCEPT ![u] = next]
           /\ build[u] # "none"
           /\ next \in {"verify", "ready"} => build[u] \in {"run", "verify"}
    BY <1>4 DEF RunBuild, VerifyEntrypoint, MarkReady, MarkFailed, BuildFails,
       BuildGoto
  <2> QED BY <2>1, <2>2 DEF BuildsInv, SamePackage, requests
<1>5. ASSUME NEW d \in Deletions,
             (\E i \in Uploads : FindVictim(d, i)) \/ DeletePackage(d)
                \/ DeletionFails(d)
      PROVE  UNCHANGED <<requests, builds>>
  BY <1>5 DEF FindVictim, DeletePackage, RemoveVictim, DeleteVictim,
     DeletionFails
<1>6. CASE UNCHANGED <<requests, builds>>
  BY <1>6 DEF BuildsInv, requests, builds, SamePackage
<1>7. CASE Crash BY <1>7 DEF Crash, BuildsInv, SamePackage
<1> QED BY <1>1, <1>2, <1>3, <1>4, <1>5, <1>6, <1>7
        DEF Next, UploadPackage, Build

\* The part of TypeOK that speaks of deletions.
DeletesType ==
    /\ deletion \in [Deletions -> {"new", "remove", "delete", "done"}]
    /\ victim \in [Deletions -> [id : Uploads \cup {NoRow},
                                 path : Uploads \cup {NoPath}]]

LEMMA VictimsStep ==
    ASSUME PackagesInv, Next
    PROVE  VictimsInv' /\ DeletesType'
<1> USE DEF PackagesInv, TypeOK, DeletesType, DeleteGoto
<1>1. ASSUME NEW d \in Deletions, NEW i \in Uploads, FindVictim(d, i)
      PROVE  VictimsInv' /\ DeletesType'
  <2> DEFINE p == rows[i].path
             v == rows[i].archive
             actor == ActorOf[d]
  <2>1. /\ i \in Packages /\ MayManage(actor, rows[i])
        /\ deletion' = [deletion EXCEPT ![d] = "remove"]
        /\ victim' = [victim EXCEPT ![d] = [id |-> i, path |-> p]]
    BY <1>1 DEF FindVictim
  <2>2. p \in Uploads \cup {NoPath} /\ v \in Uploads
    BY <2>1, ReadRow DEF SamePackage
  <2>3. /\ rows[i].owner = OwnerOf[i] /\ SamePackage(v, i)
        /\ rows[i].group = GroupOf[v]
        /\ p # NoPath => SamePackage(p, i)
    BY <2>1 DEF RowsInv
  <2>4. p # NoPath => MayRemove(actor, p)
    BY <2>1, <2>2, <2>3 DEF MayManage, MayRemove, SamePackage
  <2> HIDE DEF p, v
  <2> QED BY <2>1, <2>2, <2>4 DEF VictimsInv, MayRemove, SamePackage
<1>2. ASSUME NEW d \in Deletions, DeletePackage(d) \/ DeletionFails(d)
      PROVE  VictimsInv' /\ DeletesType'
  <2>1. /\ UNCHANGED victim
        /\ \/ /\ deletion[d] = "remove"
              /\ deletion' = [deletion EXCEPT ![d] = "delete"]
           \/ deletion' = [deletion EXCEPT ![d] = "done"]
    BY <1>2 DEF DeletePackage, RemoveVictim, DeleteVictim, DeletionFails
  <2>2. \A e \in Deletions :
          /\ deletion'[e] = "remove" => deletion[e] = "remove"
          /\ deletion'[e] = "delete" => deletion[e] \in {"remove", "delete"}
    BY <2>1
  <2>3. DeletesType' BY <2>1
  <2> QED BY <2>1, <2>2, <2>3 DEF VictimsInv, MayRemove, SamePackage
<1>3. ASSUME NEW u \in Uploads,
             StoreArchive(u) \/ UploadPackage(u) \/ Build(u)
                \/ UploadFails(u) \/ BuildFails(u)
      PROVE  UNCHANGED deletes
  BY <1>3 DEF StoreArchive, UploadPackage, Build, UploadFails, BuildFails,
     CheckSpec, FindExisting, ClearOld, Replace, Create, CreateConflicts,
     Cleanup, LoadPackage, RunBuild, VerifyEntrypoint, MarkReady, MarkFailed
<1>4. CASE UNCHANGED deletes
  BY <1>4 DEF VictimsInv, deletes, MayRemove, SamePackage
<1>5. CASE Crash BY <1>5 DEF Crash, VictimsInv, MayRemove, SamePackage
<1> QED BY <1>1, <1>2, <1>3, <1>4, <1>5 DEF Next

LEMMA RestType ==
    ASSUME PackagesInv, Next
    PROVE  /\ workspace' \in [Uploads -> {"absent", "unpacked", "built"}]
           /\ usage' \in {"serial", "overlapping"}
           /\ crashes' \in 0..MaxCrashes
           /\ faults' \in 0..MaxFaults
<1> USE DEF PackagesInv, TypeOK
<1>1. workspace' \in [Uploads -> {"absent", "unpacked", "built"}]
  <2>1. \/ UNCHANGED workspace
        \/ \E p \in Uploads \cup {NoPath} : RemoveAll(p)
        \/ \E u \in Uploads : StoreArchive(u) \/ RunBuild(u)
    BY DEF Next, UploadPackage, Build, UploadFails, BuildFails, CheckSpec,
       FindExisting, ClearOld, Replace, Create, CreateConflicts, Cleanup,
       LoadPackage, VerifyEntrypoint, MarkReady, MarkFailed, FindVictim,
       DeletePackage, RemoveVictim, DeleteVictim, DeletionFails, Crash
  <2> QED BY <2>1 DEF RemoveAll, StoreArchive, RunBuild
<1>2. \/ UNCHANGED bounds
      \/ \E n : Begin(n)
      \/ Fault
      \/ Crash
  BY DEF Next, StoreArchive, UploadPackage, Build, UploadFails, BuildFails,
     CheckSpec, FindExisting, ClearOld, Replace, Create, CreateConflicts,
     Cleanup, LoadPackage, RunBuild, VerifyEntrypoint, MarkReady, MarkFailed,
     FindVictim, DeletePackage, RemoveVictim, DeleteVictim, DeletionFails
<1>3. /\ usage' \in {"serial", "overlapping"}
      /\ crashes' \in 0..MaxCrashes
      /\ faults' \in 0..MaxFaults
  BY <1>2, PackagesAssumption DEF bounds, Begin, Fault, Crash
<1> QED BY <1>1, <1>3

-----------------------------------------------------------------------------
(* Theorems *)

LEMMA StepInv == PackagesInv /\ [Next]_vars => PackagesInv'
<1> SUFFICES ASSUME PackagesInv, [Next]_vars PROVE PackagesInv' OBVIOUS
<1>1. CASE Next
  <2>1. TypeOK'
    BY <1>1, RowStep, RequestsStep, BuildsStep, VictimsStep, RestType
    DEF TypeOK, RequestsType, BuildsType, DeletesType
  <2> QED BY <1>1, <2>1, RowStep, RequestsStep, BuildsStep, VictimsStep
          DEF PackagesInv
<1>2. CASE UNCHANGED vars
  BY <1>2 DEF vars, requests, builds, deletes, bounds, PackagesInv, TypeOK,
     RowsInv, RequestsInv, BuildsInv, VictimsInv, Packages, SamePackage,
     MayRemove
<1> QED BY <1>1, <1>2

THEOREM PackagesInvariant == Spec => []PackagesInv
BY InitInv, StepInv, PTL DEF Spec

\* Every variable keeps its type; in particular a failed package never points
\* to a workspace and a package that is building or ready always does.
THEOREM PackagesTypeCorrect == Spec => []TypeOK
<1>1. PackagesInv => TypeOK BY DEF PackagesInv
<1> QED BY <1>1, PackagesInvariant, PTL

\* A package points to a workspace that its owner uploaded under its name, and
\* no two packages share a workspace.
THEOREM WorkspaceOwnership == Spec => []RowOwnsPath
<1>1. ASSUME PackagesInv PROVE RowOwnsPath
  <2>1. ASSUME NEW i \in Packages, NEW j \in Packages,
               rows[i].path = rows[j].path, rows[i].path # NoPath
        PROVE  i = j
    BY <1>1, <2>1 DEF PackagesInv, RowsInv, SamePackage
  <2> QED BY <1>1, <2>1 DEF RowOwnsPath, PackagesInv, RowsInv
<1> QED BY <1>1, PackagesInvariant, PTL

\* No step removes a workspace on behalf of a user without a right to it,
\* though rights are checked some steps earlier, on a row that may be gone.
THEOREM RemovalIsAuthorized == Spec => OnlyManagersRemove
<1> DEFINE Allowed ==
       \A u \in Uploads :
          workspace[u] # "absent" /\ workspace'[u] = "absent" =>
             \/ upload[u] = "cleanup"
             \/ \E v \in Uploads : upload[v] = "clear" /\ SamePackage(u, v)
             \/ \E d \in Deletions :
                   deletion[d] = "remove" /\ MayRemove(ActorOf[d], u)
<1>1. PackagesInv /\ [Next]_vars => [Allowed]_vars
  <2> SUFFICES ASSUME PackagesInv, Next, NEW u \in Uploads,
                      workspace[u] # "absent", workspace'[u] = "absent"
               PROVE  \/ upload[u] = "cleanup"
                      \/ \E v \in Uploads :
                            upload[v] = "clear" /\ SamePackage(u, v)
                      \/ \E d \in Deletions :
                            deletion[d] = "remove" /\ MayRemove(ActorOf[d], u)
    OBVIOUS
  <2>1. \/ UNCHANGED workspace
        \/ \E v \in Uploads : \/ ClearOld(v) \/ Cleanup(v)
                              \/ StoreArchive(v) \/ RunBuild(v)
        \/ \E d \in Deletions : RemoveVictim(d)
    BY DEF Next, UploadPackage, Build, UploadFails, BuildFails, CheckSpec,
       FindExisting, Replace, Create, CreateConflicts, LoadPackage,
       VerifyEntrypoint, MarkReady, MarkFailed, FindVictim, DeletePackage,
       DeleteVictim, DeletionFails, Crash
  <2>2. ASSUME NEW v \in Uploads, ClearOld(v)
        PROVE  upload[v] = "clear" /\ SamePackage(u, v)
    <3>1. u = stale[v] /\ upload[v] = "clear"
      BY <2>2 DEF ClearOld, RemoveAll, PackagesInv, TypeOK
    <3>2. u # NoPath BY PackagesAssumption
    <3> QED BY <3>1, <3>2 DEF PackagesInv, RequestsInv
  <2>3. ASSUME NEW v \in Uploads, Cleanup(v)
        PROVE  upload[u] = "cleanup"
    BY <2>3 DEF Cleanup, RemoveAll, PackagesInv, TypeOK
  <2>4. ASSUME NEW v \in Uploads, StoreArchive(v) \/ RunBuild(v)
        PROVE  FALSE
    BY <2>4 DEF StoreArchive, RunBuild, PackagesInv, TypeOK
  <2>5. ASSUME NEW d \in Deletions, RemoveVictim(d)
        PROVE  deletion[d] = "remove" /\ MayRemove(ActorOf[d], u)
    <3>1. u = victim[d].path /\ deletion[d] = "remove"
      BY <2>5 DEF RemoveVictim, RemoveAll, PackagesInv, TypeOK
    <3>2. u # NoPath BY PackagesAssumption
    <3> QED BY <3>1, <3>2 DEF PackagesInv, VictimsInv
  <2> QED BY <2>1, <2>2, <2>3, <2>4, <2>5
<1> QED BY <1>1, PackagesInvariant, PTL DEF Spec, OnlyManagersRemove

-----------------------------------------------------------------------------
(* Which id a path belongs to                                              *)

\* A workspace stays with the id it was accepted for: nobody who carries its
\* path, a row, a request, a build or a deletion, belongs to another id.
HeldBy(p, i) == p # NoPath => target[p] = i /\ upload[p] = "done"

RowPaths == \A i \in Packages : HeldBy(rows[i].path, i)

RequestPaths ==
    \A u \in Uploads :
        upload[u] \in {"clear", "replace"} => HeldBy(stale[u], target[u])

BuildPaths ==
    \A u \in Uploads :
        build[u] \in {"run", "verify", "ready"} =>
            HeldBy(seen[u].path, target[u])

VictimPaths ==
    \A e \in Deletions :
        deletion[e] \in {"remove", "delete"} =>
            HeldBy(victim[e].path, victim[e].id)

\* The archive of a request under way stays unpacked until it is accepted.
OwnWorkspace ==
    \A u \in Uploads :
        upload[u] \notin {"new", "cleanup", "done"} => workspace[u] # "absent"

PathsInv ==
    RowPaths /\ RequestPaths /\ BuildPaths /\ VictimPaths /\ OwnWorkspace


\* HeldBy after a step, of what was read before it or after it.
HeldNext(p, i) == p # NoPath => target'[p] = i /\ upload'[p] = "done"

\* What a request has settled is not changed after its end.
LEMMA DoneStays ==
    ASSUME PackagesInv, [Next]_vars, NEW u \in Uploads, upload[u] = "done"
    PROVE  upload'[u] = "done" /\ target'[u] = target[u]
<1> USE DEF PackagesInv, TypeOK
<1>1. ASSUME NEW v \in Uploads,
             StoreArchive(v) \/ UploadPackage(v) \/ UploadFails(v)
      PROVE  upload'[u] = "done" /\ target'[u] = target[u]
  <2>1. /\ v # u
        /\ \A w \in Uploads \ {v} : upload'[w] = upload[w]
                                    /\ target'[w] = target[w]
    BY <1>1 DEF StoreArchive, UploadPackage, UploadFails, CheckSpec,
       FindExisting, ClearOld, Replace, Create, Accepted, CreateConflicts,
       Cleanup, Goto
  <2> QED BY <2>1
<1>2. ASSUME NEW v \in Uploads, Build(v) \/ BuildFails(v)
      PROVE  UNCHANGED requests
  BY <1>2 DEF Build, BuildFails, LoadPackage, RunBuild, VerifyEntrypoint,
     MarkReady, MarkFailed
<1>3. ASSUME NEW e \in Deletions,
             (\E i \in Uploads : FindVictim(e, i)) \/ DeletePackage(e)
                \/ DeletionFails(e)
      PROVE  UNCHANGED requests
  BY <1>3 DEF FindVictim, DeletePackage, RemoveVictim, DeleteVictim,
     DeletionFails
<1>4. CASE Crash BY <1>4 DEF Crash
<1>5. CASE UNCHANGED requests BY <1>5 DEF requests
<1> QED BY <1>1, <1>2, <1>3, <1>4, <1>5 DEF Next, vars

LEMMA HeldStays ==
    ASSUME PackagesInv, [Next]_vars, NEW p \in Uploads \cup {NoPath}, NEW i,
           HeldBy(p, i)
    PROVE  HeldNext(p, i)
BY DoneStays DEF HeldBy, HeldNext

\* A row of the table was there before, or was written by one of four steps.
LEMMA RowChange ==
    ASSUME PackagesInv, [Next]_vars, NEW i \in Packages'
    PROVE  \/ i \in Packages /\ rows'[i] = rows[i]
           \/ \E u \in Uploads :
                 /\ \/ Replace(u) /\ i = target[u] /\ i \in Packages
                    \/ Create(u) /\ i = u
                 /\ rows'[i].path = u /\ rows'[i].archive = u
                 /\ rows'[i].status = "building"
           \/ \E u \in Uploads :
                 /\ MarkReady(u) /\ i = target[u] /\ i \in Packages
                 /\ rows'[i].path = seen[u].path
                 /\ rows'[i].archive = rows[i].archive
                 /\ rows'[i].status = "ready"
           \/ \E u \in Uploads :
                 /\ MarkFailed(u) /\ i = target[u] /\ i \in Packages
                 /\ rows'[i].path = NoPath
                 /\ rows'[i].status = "failed"
<1>i. i \in Uploads BY DEF Packages
<1> USE DEF PackagesInv, TypeOK
<1>1. ASSUME NEW u \in Uploads, Replace(u), i = target[u], i \in Packages
      PROVE  /\ rows'[i].path = u /\ rows'[i].archive = u
             /\ rows'[i].status = "building"
  <2>1. rows'[i] = [rows[i] EXCEPT !.group = GroupOf[u], !.archive = u,
                                   !.status = "building", !.path = u]
    BY <1>1, <1>i DEF Replace, UpdateRow
  <2>2. rows[i] \in Columns BY <1>1, FoundRow
  <2> QED BY <2>1, <2>2 DEF Columns
<1>2. ASSUME NEW u \in Uploads, Create(u), i = u
      PROVE  /\ rows'[i].path = u /\ rows'[i].archive = u
             /\ rows'[i].status = "building"
  BY <1>2 DEF Create
<1>3. ASSUME NEW u \in Uploads, MarkReady(u), i = target[u], i \in Packages
      PROVE  /\ rows'[i].path = seen[u].path
             /\ rows'[i].archive = rows[i].archive
             /\ rows'[i].status = "ready"
  <2>1. rows'[i] = [rows[i] EXCEPT !.status = "ready", !.path = seen[u].path]
    BY <1>3, <1>i DEF MarkReady, UpdateRow
  <2>2. rows[i] \in Columns BY <1>3, FoundRow
  <2> QED BY <2>1, <2>2 DEF Columns
<1>4. ASSUME NEW u \in Uploads, MarkFailed(u), i = target[u], i \in Packages
      PROVE  rows'[i].path = NoPath /\ rows'[i].status = "failed"
  <2>1. rows'[i] = [rows[i] EXCEPT !.status = "failed", !.path = NoPath]
    BY <1>4, <1>i DEF MarkFailed, UpdateRow
  <2>2. rows[i] \in Columns BY <1>4, FoundRow
  <2> QED BY <2>1, <2>2 DEF Columns
<1>5. rows'[i] = rows[i] => i \in Packages BY <1>i DEF Packages
<1>6. ASSUME NEW u \in Uploads, Replace(u) \/ MarkReady(u) \/ MarkFailed(u),
             ~(i = target[u] /\ i \in Packages)
      PROVE  rows'[i] = rows[i]
  BY <1>6, <1>i DEF Replace, MarkReady, MarkFailed, UpdateRow
<1>7. ASSUME NEW u \in Uploads, Create(u), i # u
      PROVE  rows'[i] = rows[i]
  BY <1>7, <1>i DEF Create
<1>8. ASSUME NEW e \in Deletions, DeleteVictim(e)
      PROVE  rows'[i] = rows[i]
  BY <1>8, <1>i DEF DeleteVictim, Packages
<1> QED BY <1>1, <1>2, <1>3, <1>4, <1>5, <1>6, <1>7, <1>8
        DEF Next, StoreArchive, UploadPackage, Build, UploadFails, BuildFails,
            CheckSpec, FindExisting, ClearOld, CreateConflicts, Cleanup,
            LoadPackage, RunBuild, VerifyEntrypoint, FindVictim,
            DeletePackage, RemoveVictim, DeletionFails, Crash, vars

LEMMA RowPathsStep ==
    ASSUME PackagesInv, PathsInv, [Next]_vars
    PROVE  RowPaths'
<1> SUFFICES ASSUME NEW i \in Packages' PROVE HeldNext(rows'[i].path, i)
  BY DEF RowPaths, HeldBy, HeldNext
<1> USE DEF PackagesInv, TypeOK
<1>1. CASE i \in Packages /\ rows'[i] = rows[i]
  <2>1. rows[i].path \in Uploads \cup {NoPath}
    BY <1>1, FoundRow DEF Columns
  <2>2. HeldBy(rows[i].path, i) BY <1>1 DEF PathsInv, RowPaths
  <2> QED BY <1>1, <2>1, <2>2, HeldStays
<1>2. ASSUME NEW u \in Uploads, rows'[i].path = u,
             \/ Replace(u) /\ i = target[u] /\ i \in Packages
             \/ Create(u) /\ i = u
      PROVE  HeldNext(rows'[i].path, i)
  BY <1>2 DEF Replace, Create, Accepted, Goto, HeldNext
<1>3. ASSUME NEW u \in Uploads, MarkReady(u), i = target[u],
             rows'[i].path = seen[u].path
      PROVE  HeldNext(rows'[i].path, i)
  <2>1. HeldBy(seen[u].path, i)
    BY <1>3 DEF MarkReady, PathsInv, BuildPaths
  <2> QED BY <1>3, <2>1, HeldStays
<1>4. CASE rows'[i].path = NoPath BY <1>4 DEF HeldNext
<1> QED BY <1>1, <1>2, <1>3, <1>4, RowChange

LEMMA RequestPathsStep ==
    ASSUME PackagesInv, PathsInv, [Next]_vars
    PROVE  RequestPaths'
<1> SUFFICES ASSUME NEW u \in Uploads, upload'[u] \in {"clear", "replace"}
             PROVE  HeldNext(stale'[u], target'[u])
  BY DEF RequestPaths, HeldBy, HeldNext
<1> USE DEF PackagesInv, TypeOK
<1>1. CASE upload[u] \in {"clear", "replace"} /\ stale'[u] = stale[u]
           /\ target'[u] = target[u]
  <2>1. HeldBy(stale[u], target[u]) BY <1>1 DEF PathsInv, RequestPaths
  <2>3. stale[u] \in Uploads \cup {NoPath} OBVIOUS
  <2> QED BY <1>1, <2>1, <2>3, HeldStays
<1>2. ASSUME NEW i \in Named(NameOf[u]), target'[u] = i,
             stale'[u] = rows[i].path
      PROVE  HeldNext(stale'[u], target'[u])
  <2>1. i \in Packages BY DEF Named
  <2>2. rows[i].path \in Uploads \cup {NoPath} BY <2>1, FoundRow DEF Columns
  <2>3. HeldBy(rows[i].path, i) BY <2>1 DEF PathsInv, RowPaths
  <2>4. HeldNext(rows[i].path, i) BY <2>2, <2>3, HeldStays
  <2> QED BY <1>2, <2>4
<1>3. ASSUME NEW v \in Uploads,
             StoreArchive(v) \/ UploadPackage(v) \/ UploadFails(v),
             ~(u = v /\ FindExisting(v))
      PROVE  upload[u] \in {"clear", "replace"} /\ stale'[u] = stale[u]
             /\ target'[u] = target[u]
  BY <1>3 DEF StoreArchive, UploadPackage, UploadFails, CheckSpec,
     FindExisting, ClearOld, Replace, Create, Accepted, CreateConflicts,
     Cleanup, Goto
<1>4. ASSUME FindExisting(u)
      PROVE  \E i \in Named(NameOf[u]) :
                target'[u] = i /\ stale'[u] = rows[i].path
  BY <1>4 DEF FindExisting, Goto
<1>5. ASSUME NEW v \in Uploads, Build(v) \/ BuildFails(v)
      PROVE  UNCHANGED requests
  BY <1>5 DEF Build, BuildFails, LoadPackage, RunBuild, VerifyEntrypoint,
     MarkReady, MarkFailed
<1>6. ASSUME NEW e \in Deletions,
             (\E i \in Uploads : FindVictim(e, i)) \/ DeletePackage(e)
                \/ DeletionFails(e)
      PROVE  UNCHANGED requests
  BY <1>6 DEF FindVictim, DeletePackage, RemoveVictim, DeleteVictim,
     DeletionFails
<1>7. ~Crash BY DEF Crash
<1>8. UNCHANGED requests => /\ upload[u] \in {"clear", "replace"}
                            /\ stale'[u] = stale[u] /\ target'[u] = target[u]
  BY DEF requests
<1> QED BY <1>1, <1>2, <1>3, <1>4, <1>5, <1>6, <1>7, <1>8 DEF Next, vars

LEMMA BuildPathsStep ==
    ASSUME PackagesInv, PathsInv, [Next]_vars
    PROVE  BuildPaths'
<1> SUFFICES ASSUME NEW u \in Uploads, build'[u] \in {"run", "verify", "ready"}
             PROVE  HeldNext(seen'[u].path, target'[u])
  BY DEF BuildPaths, HeldBy, HeldNext
<1> USE DEF PackagesInv, TypeOK
<1>1. ASSUME build[u] \in {"run", "verify", "ready"}, seen'[u] = seen[u]
      PROVE  HeldNext(seen'[u].path, target'[u])
  <2>1. HeldBy(seen[u].path, target[u]) BY <1>1 DEF PathsInv, BuildPaths
  <2>2. seen[u].path \in Uploads \cup {NoPath} OBVIOUS
  <2>3. upload[u] = "done" BY <1>1 DEF RequestsInv
  <2>4. target'[u] = target[u] BY <2>3, DoneStays
  <2> QED BY <1>1, <2>1, <2>2, <2>4, HeldStays
<1>2. ASSUME LoadPackage(u) PROVE HeldNext(seen'[u].path, target'[u])
  <2> DEFINE i == target[u]
  <2>1. /\ i \in Packages /\ seen'[u].path = rows[i].path
        /\ UNCHANGED target
    BY <1>2 DEF LoadPackage, BuildGoto, requests
  <2>2. rows[i].path \in Uploads \cup {NoPath} BY <2>1, FoundRow DEF Columns
  <2>3. HeldBy(rows[i].path, i) BY <2>1 DEF PathsInv, RowPaths
  <2>4. HeldNext(rows[i].path, i) BY <2>2, <2>3, HeldStays
  <2> QED BY <2>1, <2>4
<1>3. ASSUME NEW v \in Uploads,
             StoreArchive(v) \/ UploadPackage(v) \/ UploadFails(v)
      PROVE  build[u] \in {"run", "verify", "ready"} /\ seen'[u] = seen[u]
  BY <1>3 DEF StoreArchive, UploadPackage, UploadFails, CheckSpec,
     FindExisting, ClearOld, Replace, Create, Accepted, CreateConflicts,
     Cleanup, builds
<1>4. ASSUME NEW v \in Uploads, Build(v) \/ BuildFails(v),
             ~(v = u /\ LoadPackage(v))
      PROVE  build[u] \in {"run", "verify", "ready"} /\ seen'[u] = seen[u]
  BY <1>4 DEF Build, BuildFails, LoadPackage, RunBuild, VerifyEntrypoint,
     MarkReady, MarkFailed, BuildGoto
<1>5. ASSUME NEW e \in Deletions,
             (\E i \in Uploads : FindVictim(e, i)) \/ DeletePackage(e)
                \/ DeletionFails(e)
      PROVE  UNCHANGED builds
  BY <1>5 DEF FindVictim, DeletePackage, RemoveVictim, DeleteVictim,
     DeletionFails
<1>6. ~Crash BY DEF Crash
<1>7. UNCHANGED builds =>
         build[u] \in {"run", "verify", "ready"} /\ seen'[u] = seen[u]
  BY DEF builds
<1> QED BY <1>1, <1>2, <1>3, <1>4, <1>5, <1>6, <1>7 DEF Next, vars

LEMMA VictimPathsStep ==
    ASSUME PackagesInv, PathsInv, [Next]_vars
    PROVE  VictimPaths'
<1> SUFFICES ASSUME NEW e \in Deletions, deletion'[e] \in {"remove", "delete"}
             PROVE  HeldNext(victim'[e].path, victim'[e].id)
  BY DEF VictimPaths, HeldBy, HeldNext
<1> USE DEF PackagesInv, TypeOK
<1>1. ASSUME deletion[e] \in {"remove", "delete"}, victim'[e] = victim[e]
      PROVE  HeldNext(victim'[e].path, victim'[e].id)
  <2>1. HeldBy(victim[e].path, victim[e].id)
    BY <1>1 DEF PathsInv, VictimPaths
  <2>2. victim[e].path \in Uploads \cup {NoPath} OBVIOUS
  <2> QED BY <1>1, <2>1, <2>2, HeldStays
<1>2. ASSUME NEW i \in Uploads, FindVictim(e, i)
      PROVE  HeldNext(victim'[e].path, victim'[e].id)
  <2>1. i \in Packages /\ victim'[e] = [id |-> i, path |-> rows[i].path]
    BY <1>2 DEF FindVictim
  <2>2. rows[i].path \in Uploads \cup {NoPath} BY <2>1, FoundRow DEF Columns
  <2>3. HeldBy(rows[i].path, i) BY <2>1 DEF PathsInv, RowPaths
  <2>4. HeldNext(rows[i].path, i) BY <2>2, <2>3, HeldStays
  <2> QED BY <2>1, <2>4
<1>3. ASSUME NEW f \in Deletions, NEW i \in Uploads, FindVictim(f, i), f # e
      PROVE  deletion[e] \in {"remove", "delete"} /\ victim'[e] = victim[e]
  BY <1>3 DEF FindVictim, DeleteGoto
<1>4. ASSUME NEW f \in Deletions, DeletePackage(f) \/ DeletionFails(f)
      PROVE  deletion[e] \in {"remove", "delete"} /\ victim'[e] = victim[e]
  BY <1>4 DEF DeletePackage, RemoveVictim, DeleteVictim, DeletionFails,
     DeleteGoto
<1>5. ASSUME NEW u \in Uploads,
             StoreArchive(u) \/ UploadPackage(u) \/ Build(u)
                \/ UploadFails(u) \/ BuildFails(u)
      PROVE  UNCHANGED deletes
  BY <1>5 DEF StoreArchive, UploadPackage, Build, UploadFails, BuildFails,
     CheckSpec, FindExisting, ClearOld, Replace, Create, CreateConflicts,
     Cleanup, LoadPackage, RunBuild, VerifyEntrypoint, MarkReady, MarkFailed
<1>6. ~Crash BY DEF Crash
<1>7. UNCHANGED deletes =>
         deletion[e] \in {"remove", "delete"} /\ victim'[e] = victim[e]
  BY DEF deletes
<1> QED BY <1>1, <1>2, <1>3, <1>4, <1>5, <1>6, <1>7 DEF Next, vars

\* A step that removes the workspace of upload p is one of these three.
Remover(p) ==
    \/ \E u \in Uploads : ClearOld(u) /\ stale[u] = p
    \/ Cleanup(p)
    \/ \E e \in Deletions : RemoveVictim(e) /\ victim[e].path = p

LEMMA OnlyRemoversRemove ==
    ASSUME PackagesInv, [Next]_vars, NEW p \in Uploads,
           workspace[p] # "absent", workspace'[p] = "absent"
    PROVE  Remover(p)
<1> USE DEF PackagesInv, TypeOK
<1>1. ASSUME NEW v \in Uploads, ClearOld(v) PROVE stale[v] = p
  BY <1>1 DEF ClearOld, RemoveAll
<1>2. ASSUME NEW v \in Uploads, Cleanup(v) PROVE v = p
  BY <1>2 DEF Cleanup, RemoveAll
<1>3. ASSUME NEW v \in Uploads, StoreArchive(v) \/ RunBuild(v) PROVE FALSE
  BY <1>3 DEF StoreArchive, RunBuild
<1>4. ASSUME NEW e \in Deletions, RemoveVictim(e) PROVE victim[e].path = p
  BY <1>4 DEF RemoveVictim, RemoveAll
<1> QED BY <1>1, <1>2, <1>3, <1>4
        DEF Remover, Next, UploadPackage, Build, UploadFails, BuildFails,
            CheckSpec, FindExisting, Replace, Create, CreateConflicts,
            LoadPackage, VerifyEntrypoint, MarkReady, MarkFailed, FindVictim,
            DeletePackage, DeleteVictim, DeletionFails, Crash, vars

\* The workspace of a request under way is nobody else's to remove.
LEMMA RemoverIsHeld ==
    ASSUME PackagesInv, PathsInv, NEW p \in Uploads, Remover(p)
    PROVE  upload[p] \in {"cleanup", "done"}
<1>1. p # NoPath BY PackagesAssumption
<1>2. ASSUME NEW u \in Uploads, ClearOld(u), stale[u] = p
      PROVE  upload[p] = "done"
  BY <1>1, <1>2 DEF ClearOld, PathsInv, RequestPaths, HeldBy
<1>3. ASSUME NEW e \in Deletions, RemoveVictim(e), victim[e].path = p
      PROVE  upload[p] = "done"
  BY <1>1, <1>3 DEF RemoveVictim, PathsInv, VictimPaths, HeldBy
<1> QED BY <1>2, <1>3 DEF Remover, Cleanup

LEMMA OwnWorkspaceStep ==
    ASSUME PackagesInv, PathsInv, [Next]_vars
    PROVE  OwnWorkspace'
<1> SUFFICES ASSUME NEW u \in Uploads,
                    upload'[u] \notin {"new", "cleanup", "done"}
             PROVE  workspace'[u] # "absent"
  BY DEF OwnWorkspace
<1> USE DEF PackagesInv, TypeOK
<1>1. CASE StoreArchive(u) BY <1>1 DEF StoreArchive
<1>2. CASE upload[u] \notin {"new", "cleanup", "done"}
  <2>1. workspace[u] # "absent" BY <1>2 DEF PathsInv, OwnWorkspace
  <2> QED BY <1>2, <2>1, OnlyRemoversRemove, RemoverIsHeld
<1>3. ASSUME NEW v \in Uploads,
             StoreArchive(v) \/ UploadPackage(v) \/ UploadFails(v),
             ~(v = u /\ StoreArchive(v))
      PROVE  upload[u] \notin {"new", "cleanup", "done"}
  BY <1>3 DEF StoreArchive, UploadPackage, UploadFails, CheckSpec,
     FindExisting, ClearOld, Replace, Create, Accepted, CreateConflicts,
     Cleanup, Goto
<1>4. ASSUME NEW v \in Uploads, Build(v) \/ BuildFails(v)
      PROVE  UNCHANGED upload
  BY <1>4 DEF Build, BuildFails, LoadPackage, RunBuild, VerifyEntrypoint,
     MarkReady, MarkFailed, requests
<1>5. ASSUME NEW e \in Deletions,
             (\E i \in Uploads : FindVictim(e, i)) \/ DeletePackage(e)
                \/ DeletionFails(e)
      PROVE  UNCHANGED upload
  BY <1>5 DEF FindVictim, DeletePackage, RemoveVictim, DeleteVictim,
     DeletionFails, requests
<1>6. ~Crash BY DEF Crash
<1> QED BY <1>1, <1>2, <1>3, <1>4, <1>5, <1>6 DEF Next, vars, requests

LEMMA PathsInit == Init => PathsInv
BY DEF Init, PathsInv, RowPaths, RequestPaths, BuildPaths, VictimPaths,
   OwnWorkspace, Packages

LEMMA PathsStep == PackagesInv /\ PathsInv /\ [Next]_vars => PathsInv'
BY RowPathsStep, RequestPathsStep, BuildPathsStep, VictimPathsStep,
   OwnWorkspaceStep DEF PathsInv

-----------------------------------------------------------------------------
(* Workspaces of packages                                                  *)

\* A request that removed the workspace of package i is about to change or
\* delete its row.
Removing(i) ==
    \/ \E u \in Uploads : /\ upload[u] = "replace" /\ target[u] = i
                          /\ stale[u] = rows[i].path
    \/ \E d \in Deletions : /\ deletion[d] = "delete" /\ victim[d].id = i
                            /\ victim[d].path = rows[i].path

LEMMA UndisturbedBefore ==
    PackagesInv /\ [Next]_vars /\ Undisturbed' => Undisturbed /\ ~Fault /\ ~Crash
<1> SUFFICES ASSUME PackagesInv, [Next]_vars, Undisturbed'
             PROVE  Undisturbed /\ ~Fault /\ ~Crash
  OBVIOUS
<1>1. crashes \in Nat /\ faults \in Nat
  BY PackagesAssumption DEF PackagesInv, TypeOK
<1>2. UNCHANGED <<crashes, faults>> \/ Fault \/ Crash
  BY DEF Next, StoreArchive, UploadPackage, Build, UploadFails, BuildFails,
     CheckSpec, FindExisting, ClearOld, Replace, Create, CreateConflicts,
     Cleanup, LoadPackage, RunBuild, VerifyEntrypoint, MarkReady, MarkFailed,
     FindVictim, DeletePackage, RemoveVictim, DeleteVictim, DeletionFails,
     Begin, vars, bounds
<1> QED BY <1>1, <1>2 DEF Fault, Crash, Undisturbed

\* A request that removes, or removed, the workspace of a package goes on to
\* its row, and no other step gives the row another path meanwhile.
LEMMA RemovingStays ==
    ASSUME PackagesInv, PathsInv, [Next]_vars, ~Fault, ~Crash,
           NEW i \in Packages, i \in Packages',
           rows'[i].path = rows[i].path, rows[i].path # NoPath,
           \/ Removing(i)
           \/ /\ workspace[rows[i].path] # "absent"
              /\ workspace'[rows[i].path] = "absent"
    PROVE  Removing(i)'
<1> DEFINE p == rows[i].path
<1>i. i \in Uploads /\ p \in Uploads
  BY FoundRow DEF PackagesInv, Columns
<1>h. target[p] = i /\ upload[p] = "done"
  BY DEF PathsInv, RowPaths, HeldBy
<1> USE DEF PackagesInv, TypeOK
<1>1. ASSUME NEW u \in Uploads, ClearOld(u), stale[u] = p PROVE Removing(i)'
  <2>1. target[u] = i
    BY <1>h, <1>1 DEF ClearOld, PathsInv, RequestPaths, HeldBy
  <2> QED BY <1>1, <2>1 DEF ClearOld, Goto, Removing
<1>2. ASSUME NEW e \in Deletions, RemoveVictim(e), victim[e].path = p
      PROVE  Removing(i)'
  <2>1. victim[e].id = i
    BY <1>h, <1>2 DEF RemoveVictim, PathsInv, VictimPaths, HeldBy
  <2> QED BY <1>2, <2>1 DEF RemoveVictim, DeleteGoto, Removing
<1>3. ~Cleanup(p) BY <1>h DEF Cleanup
<1>4. ASSUME NEW u \in Uploads, upload[u] = "replace", target[u] = i,
             stale[u] = p
      PROVE  Removing(i)'
  <2>1. u # p BY <1>h, <1>4
  <2>2. ASSUME Replace(u) PROVE FALSE
    <3>1. rows'[i] = [rows[i] EXCEPT !.group = GroupOf[u], !.archive = u,
                                     !.status = "building", !.path = u]
      BY <1>4, <1>i, <2>2 DEF Replace, UpdateRow
    <3>2. rows[i] \in Columns BY FoundRow
    <3>3. rows'[i].path = u BY <3>1, <3>2 DEF Columns
    <3> QED BY <2>1, <3>3
  <2>3. upload'[u] = "replace" /\ target'[u] = i /\ stale'[u] = p
    <3>1. ASSUME NEW v \in Uploads,
                 StoreArchive(v) \/ UploadPackage(v) \/ UploadFails(v)
          PROVE  upload'[u] = "replace" /\ target'[u] = i /\ stale'[u] = p
      <4>1. v # u
        BY <1>4, <2>2, <3>1 DEF StoreArchive, UploadPackage, UploadFails,
           CheckSpec, FindExisting, ClearOld, Create, CreateConflicts, Cleanup
      <4>2. /\ \A w \in Uploads \ {v} : /\ upload'[w] = upload[w]
                                        /\ target'[w] = target[w]
                                        /\ stale'[w] = stale[w]
        BY <3>1 DEF StoreArchive, UploadPackage, UploadFails, CheckSpec,
           FindExisting, ClearOld, Replace, Create, Accepted, CreateConflicts,
           Cleanup, Goto
      <4> QED BY <1>4, <4>1, <4>2
    <3>2. ASSUME NEW v \in Uploads, Build(v) \/ BuildFails(v)
          PROVE  UNCHANGED requests
      BY <3>2 DEF Build, BuildFails, LoadPackage, RunBuild, VerifyEntrypoint,
         MarkReady, MarkFailed
    <3>3. ASSUME NEW e \in Deletions,
                 (\E j \in Uploads : FindVictim(e, j)) \/ DeletePackage(e)
                    \/ DeletionFails(e)
          PROVE  UNCHANGED requests
      BY <3>3 DEF FindVictim, DeletePackage, RemoveVictim, DeleteVictim,
         DeletionFails
    <3>4. CASE UNCHANGED requests BY <1>4, <3>4 DEF requests
    <3> QED BY <3>1, <3>2, <3>3, <3>4 DEF Next, vars
  <2> QED BY <2>3 DEF Removing
<1>5. ASSUME NEW e \in Deletions, deletion[e] = "delete", victim[e].id = i,
             victim[e].path = p
      PROVE  Removing(i)'
  <2>1. ~DeleteVictim(e)
    BY <1>5, <1>i DEF DeleteVictim, Packages
  <2>2. deletion'[e] = "delete" /\ victim'[e] = victim[e]
    <3>1. ASSUME NEW f \in Deletions, NEW j \in Uploads, FindVictim(f, j)
          PROVE  deletion'[e] = "delete" /\ victim'[e] = victim[e]
      BY <1>5, <3>1 DEF FindVictim, DeleteGoto
    <3>2. ASSUME NEW f \in Deletions, DeletePackage(f)
          PROVE  deletion'[e] = "delete" /\ victim'[e] = victim[e]
      BY <1>5, <2>1, <3>2
      DEF DeletePackage, RemoveVictim, DeleteVictim, DeleteGoto
    <3>3. ASSUME NEW u \in Uploads,
                 StoreArchive(u) \/ UploadPackage(u) \/ Build(u)
                    \/ UploadFails(u) \/ BuildFails(u)
          PROVE  UNCHANGED deletes
      BY <3>3 DEF StoreArchive, UploadPackage, Build, UploadFails, BuildFails,
         CheckSpec, FindExisting, ClearOld, Replace, Create, CreateConflicts,
         Cleanup, LoadPackage, RunBuild, VerifyEntrypoint, MarkReady,
         MarkFailed
    <3>4. CASE UNCHANGED deletes BY <1>5, <3>4 DEF deletes
    <3>5. \A f \in Deletions : ~DeletionFails(f) BY DEF DeletionFails
    <3> QED BY <3>1, <3>2, <3>3, <3>4, <3>5 DEF Next, vars
  <2> QED BY <1>5, <2>2 DEF Removing
<1>6. CASE Removing(i) BY <1>4, <1>5, <1>6 DEF Removing
<1>7. CASE workspace[p] # "absent" /\ workspace'[p] = "absent"
  BY <1>i, <1>1, <1>2, <1>3, <1>7, OnlyRemoversRemove DEF Remover
<1> QED BY <1>6, <1>7

LEMMA BuildingInit == Init => BuildingHasWorkspace
BY DEF Init, BuildingHasWorkspace, Packages

LEMMA BuildingStep ==
    PackagesInv /\ PathsInv /\ BuildingHasWorkspace /\ [Next]_vars
        => BuildingHasWorkspace'
<1> SUFFICES ASSUME PackagesInv, PathsInv, BuildingHasWorkspace, [Next]_vars,
                    Undisturbed', NEW i \in Packages',
                    rows'[i].status = "building"
             PROVE  /\ rows'[i].path = rows'[i].archive
                    /\ workspace'[rows'[i].path] = "absent" => Removing(i)'
  BY DEF BuildingHasWorkspace, Removing
<1>u. Undisturbed /\ ~Fault /\ ~Crash BY UndisturbedBefore
<1>1. CASE i \in Packages /\ rows'[i] = rows[i]
  <2>1. /\ rows[i].path = rows[i].archive
        /\ workspace[rows[i].path] = "absent" => Removing(i)
    BY <1>u, <1>1 DEF BuildingHasWorkspace, Removing
  <2>2. rows[i].path # NoPath
    BY <1>1, FoundRow DEF PackagesInv, Row
  <2> QED BY <1>u, <1>1, <2>1, <2>2, RemovingStays
<1>2. ASSUME NEW u \in Uploads, Replace(u) \/ Create(u),
             rows'[i].path = u, rows'[i].archive = u
      PROVE  /\ rows'[i].path = rows'[i].archive
             /\ workspace'[rows'[i].path] # "absent"
  <2>1. upload[u] \in {"replace", "create"} /\ UNCHANGED workspace
    BY <1>2 DEF Replace, Create
  <2> QED BY <1>2, <2>1 DEF PathsInv, OwnWorkspace
<1> QED BY <1>1, <1>2, RowChange

-----------------------------------------------------------------------------
(* One request after the other                                             *)

Active(u) == upload[u] \notin {"new", "done"} \/ build[u] # "none"

\* Requests and builds on the packages of a name come one after the other.
OneByOne ==
    /\ \A u, v \in Uploads :
          Active(u) /\ Active(v) /\ NameOf[u] = NameOf[v] => u = v
    /\ \A d \in Deletions, u \in Uploads :
          /\ deletion[d] \in {"remove", "delete"}
          /\ NameOf[u] = NameOf[victim[d].id]
          => ~Active(u)

\* A build works on the archive and in the workspace that its row still names.
BuildIsCurrent ==
    \A u \in Uploads : build[u] # "none" /\ target[u] \in Packages =>
        /\ rows[target[u]].status = "building"
        /\ build[u] \in {"run", "verify", "ready"} =>
              /\ seen[u].archive = rows[target[u]].archive
              /\ seen[u].path = seen[u].archive
        /\ build[u] = "ready" /\ seen[u].archive \in Qualified =>
              workspace[seen[u].path] = "built"

\* A ready package runs its archive, until a request removes it.
ReadyHasWorkspace ==
    \A i \in Packages : rows[i].status = "ready" =>
        /\ rows[i].path = rows[i].archive
        /\ \/ Removing(i)
           \/ /\ workspace[rows[i].path] # "absent"
              /\ rows[i].archive \in Qualified =>
                    workspace[rows[i].path] = "built"

SerialInv ==
    usage = "serial" /\ Undisturbed =>
        OneByOne /\ BuildIsCurrent /\ ReadyHasWorkspace

\* A request, build or deletion is under way after a step if it was before, or
\* if the step begins it while all is quiet on the packages of its name.
LEMMA ActiveChange ==
    ASSUME PackagesInv, Next, ~Fault, ~Crash, usage' = "serial"
    PROVE  /\ usage = "serial"
           /\ \/ \A u \in Uploads : Active(u)' => Active(u)
              \/ \E u \in Uploads :
                    /\ Quiet(NameOf[u]) /\ UNCHANGED deletes
                    /\ \A v \in Uploads \ {u} : Active(v)' => Active(v)
           /\ \A e \in Deletions : deletion'[e] \in {"remove", "delete"} =>
                 \/ /\ deletion[e] \in {"remove", "delete"}
                    /\ victim'[e] = victim[e]
                 \/ /\ victim'[e].id \in Uploads
                    /\ Quiet(NameOf[victim'[e].id])
                    /\ \A u \in Uploads : Active(u)' => Active(u)
<1> USE DEF PackagesInv, TypeOK
<1>1. ASSUME NEW u \in Uploads, StoreArchive(u)
      PROVE  /\ usage = "serial" /\ Quiet(NameOf[u]) /\ UNCHANGED deletes
             /\ \A v \in Uploads \ {u} : Active(v)' => Active(v)
  BY <1>1 DEF StoreArchive, Begin, Goto, Active, builds
<1>2. ASSUME NEW u \in Uploads, UploadPackage(u)
      PROVE  /\ UNCHANGED <<usage, deletes>>
             /\ \A v \in Uploads : Active(v)' => Active(v)
  BY <1>2 DEF UploadPackage, CheckSpec, FindExisting, ClearOld, Replace,
     Create, Accepted, CreateConflicts, Cleanup, Goto, Active, builds, bounds
<1>3. ASSUME NEW u \in Uploads, Build(u)
      PROVE  /\ UNCHANGED <<usage, deletes>>
             /\ \A v \in Uploads : Active(v)' => Active(v)
  BY <1>3 DEF Build, LoadPackage, RunBuild, VerifyEntrypoint, MarkReady,
     MarkFailed, BuildGoto, Active, requests, bounds
<1>4. ASSUME NEW e \in Deletions, NEW i \in Uploads, FindVictim(e, i)
      PROVE  /\ usage = "serial"
             /\ \A u \in Uploads : Active(u)' => Active(u)
             /\ victim'[e].id = i /\ Quiet(NameOf[i])
             /\ \A f \in Deletions \ {e} : /\ deletion'[f] = deletion[f]
                                           /\ victim'[f] = victim[f]
  <2>1. rows[i].name = NameOf[i] BY <1>4 DEF FindVictim, RowsInv
  <2> QED BY <1>4, <2>1 DEF FindVictim, DeleteGoto, Begin, Active, requests,
          builds
<1>5. ASSUME NEW e \in Deletions, DeletePackage(e)
      PROVE  /\ UNCHANGED usage
             /\ \A u \in Uploads : Active(u)' => Active(u)
             /\ \A f \in Deletions :
                   deletion'[f] \in {"remove", "delete"} =>
                      /\ deletion[f] \in {"remove", "delete"}
                      /\ victim'[f] = victim[f]
  BY <1>5 DEF DeletePackage, RemoveVictim, DeleteVictim, DeleteGoto, Active,
     requests, builds, bounds
<1>6. \A u \in Uploads : ~UploadFails(u) /\ ~BuildFails(u)
  BY DEF UploadFails, BuildFails
<1>7. \A e \in Deletions : ~DeletionFails(e) BY DEF DeletionFails
<1>8. ASSUME NEW u \in Uploads, StoreArchive(u) \/ UploadPackage(u) \/ Build(u)
      PROVE  \A e \in Deletions : /\ deletion'[e] = deletion[e]
                                  /\ victim'[e] = victim[e]
  BY <1>1, <1>2, <1>3, <1>8 DEF deletes
<1> QED BY <1>1, <1>2, <1>3, <1>4, <1>5, <1>6, <1>7, <1>8 DEF Next

LEMMA OneByOneStep ==
    ASSUME PackagesInv, OneByOne, Next, ~Fault, ~Crash, usage' = "serial"
    PROVE  OneByOne'
<1>1. ASSUME NEW u \in Uploads, NEW v \in Uploads, Quiet(NameOf[u]),
             NameOf[v] = NameOf[u]
      PROVE  ~Active(v) /\ \A e \in Deletions :
                              deletion[e] \notin {"remove", "delete"}
  BY <1>1 DEF Quiet, Active
<1>2. ASSUME NEW u \in Uploads, NEW v \in Uploads, Active(u)', Active(v)',
             NameOf[u] = NameOf[v]
      PROVE  u = v
  BY <1>1, <1>2, ActiveChange DEF OneByOne
<1>3. ASSUME NEW e \in Deletions, NEW u \in Uploads,
             deletion'[e] \in {"remove", "delete"},
             NameOf[u] = NameOf[victim'[e].id], Active(u)'
      PROVE  FALSE
  <2>1. CASE deletion[e] \in {"remove", "delete"} /\ victim'[e] = victim[e]
    <3>1. ~Active(u) BY <1>3, <2>1 DEF OneByOne
    <3>2. PICK w \in Uploads : Quiet(NameOf[w])
      BY <1>3, <3>1, ActiveChange
    <3> QED BY <1>1, <2>1, <3>2
  <2>2. CASE /\ victim'[e].id \in Uploads /\ Quiet(NameOf[victim'[e].id])
             /\ \A v \in Uploads : Active(v)' => Active(v)
    <3>1. Active(u) BY <1>3, <2>2
    <3> QED BY <1>1, <1>3, <2>2, <3>1
  <2> QED BY <1>3, <2>1, <2>2, ActiveChange
<1> QED BY <1>2, <1>3 DEF OneByOne

\* A build that is under way has its package to itself.
LEMMA BuildIsAlone ==
    ASSUME PackagesInv, PathsInv, OneByOne, NEW u \in Uploads,
           build[u] # "none"
    PROVE  /\ upload[u] = "done" /\ target[u] \in Uploads
           /\ \A v \in Uploads : target[v] = target[u] =>
                 /\ upload[v] \notin {"clear", "replace"}
                 /\ build[v] # "none" => v = u
           /\ upload[target[u]] # "create"
           /\ \A e \in Deletions : victim[e].id = target[u] =>
                 deletion[e] \notin {"remove", "delete"}
<1>1. upload[u] = "done" /\ target[u] \in Uploads /\ SamePackage(target[u], u)
  BY DEF PackagesInv, RequestsInv, BuildsInv
<1>2. ASSUME NEW v \in Uploads, target[v] = target[u],
             upload[v] \in {"clear", "replace"} \/ build[v] # "none"
      PROVE  v = u
  <2>1. SamePackage(target[v], v)
    BY <1>2 DEF PackagesInv, RequestsInv, BuildsInv
  <2> QED BY <1>1, <1>2, <2>1 DEF OneByOne, Active, SamePackage
<1>3. upload[target[u]] # "create"
  BY <1>1 DEF OneByOne, Active, SamePackage
<1>4. ASSUME NEW e \in Deletions, victim[e].id = target[u],
             deletion[e] \in {"remove", "delete"}
      PROVE  FALSE
  BY <1>1, <1>4 DEF OneByOne, Active, SamePackage
<1> QED BY <1>1, <1>2, <1>3, <1>4

\* What is built stays built until it is removed.
LEMMA BuiltStays ==
    ASSUME PackagesInv, [Next]_vars, NEW p \in Uploads,
           upload[p] = "done", workspace[p] = "built"
    PROVE  workspace'[p] = "built" \/ Remover(p)
<1> USE DEF PackagesInv, TypeOK
<1>1. ASSUME NEW v \in Uploads, StoreArchive(v) \/ RunBuild(v)
      PROVE  workspace'[p] # "absent" /\ workspace'[p] # "unpacked"
  BY <1>1 DEF StoreArchive, RunBuild
<1>2. \/ UNCHANGED workspace
      \/ \E v \in Uploads : StoreArchive(v) \/ RunBuild(v)
      \/ \E q \in Uploads \cup {NoPath} : RemoveAll(q)
  BY DEF Next, UploadPackage, Build, UploadFails, BuildFails, CheckSpec,
     FindExisting, ClearOld, Replace, Create, CreateConflicts, Cleanup,
     LoadPackage, VerifyEntrypoint, MarkReady, MarkFailed, FindVictim,
     DeletePackage, RemoveVictim, DeleteVictim, DeletionFails, Crash, vars
<1>3. ASSUME NEW q \in Uploads \cup {NoPath}, RemoveAll(q)
      PROVE  workspace'[p] = "built" \/ workspace'[p] = "absent"
  BY <1>3 DEF RemoveAll
<1>4. CASE \E v \in Uploads : StoreArchive(v) \/ RunBuild(v)
  BY <1>4 DEF StoreArchive, RunBuild
<1> QED BY <1>2, <1>3, <1>4, OnlyRemoversRemove

LEMMA BuildIsCurrentStep ==
    ASSUME PackagesInv, PathsInv, BuildingHasWorkspace, Undisturbed, OneByOne,
           BuildIsCurrent, Next, ~Fault, ~Crash
    PROVE  BuildIsCurrent'
<1> SUFFICES ASSUME NEW u \in Uploads, build'[u] # "none",
                    target'[u] \in Packages'
             PROVE  /\ rows'[target'[u]].status = "building"
                    /\ build'[u] \in {"run", "verify", "ready"} =>
                          /\ seen'[u].archive = rows'[target'[u]].archive
                          /\ seen'[u].path = seen'[u].archive
                    /\ build'[u] = "ready" /\ seen'[u].archive \in Qualified =>
                          workspace'[seen'[u].path] = "built"
  BY DEF BuildIsCurrent
<1> USE DEF PackagesInv, TypeOK
<1>1. CASE build[u] = "none"
  <2>1. (Replace(u) \/ Create(u)) /\ build'[u] = "load"
    <3>1. ASSUME NEW v \in Uploads, UploadPackage(v)
          PROVE  (Replace(u) \/ Create(u)) /\ build'[u] = "load"
      BY <1>1, <3>1 DEF UploadPackage, CheckSpec, FindExisting, ClearOld,
         Replace, Create, Accepted, CreateConflicts, Cleanup, builds
    <3>2. \A v \in Uploads : ~Build(v)
      BY <1>1 DEF Build, LoadPackage, RunBuild, VerifyEntrypoint, MarkReady,
         MarkFailed, BuildGoto
    <3> QED BY <1>1, <3>1, <3>2
            DEF Next, StoreArchive, UploadFails, BuildFails, FindVictim,
                DeletePackage, RemoveVictim, DeleteVictim, DeletionFails,
                builds
  <2>2. target'[u] = u \/ Replace(u) BY <2>1 DEF Create
  <2>3. CASE Create(u) BY <2>1, <2>3 DEF Create
  <2>4. CASE Replace(u)
    <3> DEFINE i == target[u]
    <3>1. i = target'[u] /\ i \in Packages'
          /\ UpdateRow(i, [rows[i] EXCEPT !.group = GroupOf[u], !.archive = u,
                                          !.status = "building", !.path = u])
      BY <2>4 DEF Replace
    <3>2. i \in Packages /\ i \in Uploads BY <3>1 DEF UpdateRow, Packages
    <3>3. rows[i] \in Columns BY <3>2, FoundRow
    <3>4. rows'[i].status = "building"
      BY <3>1, <3>2, <3>3 DEF UpdateRow, Columns
    <3> QED BY <2>1, <3>1, <3>4
  <2> QED BY <2>1, <2>3, <2>4
<1>2. CASE build[u] # "none"
  <2> DEFINE i == target[u]
             p == seen[u].path
  <2>a. /\ upload[u] = "done" /\ i \in Uploads
        /\ \A v \in Uploads : target[v] = i =>
              /\ upload[v] \notin {"clear", "replace"}
              /\ build[v] # "none" => v = u
        /\ upload[i] # "create"
        /\ \A e \in Deletions : victim[e].id = i =>
              deletion[e] \notin {"remove", "delete"}
    BY <1>2, BuildIsAlone
  <2>t. target'[u] = i /\ i \in Packages' BY <2>a, DoneStays
  <2>m. ~MarkReady(u) /\ ~MarkFailed(u)
    BY DEF MarkReady, MarkFailed, BuildGoto
  <2>1. i \in Packages /\ rows'[i] = rows[i]
    <3>1. ASSUME NEW v \in Uploads, Replace(v), i = target[v] PROVE FALSE
      BY <2>a, <3>1 DEF Replace
    <3>2. ASSUME NEW v \in Uploads, Create(v), i = v PROVE FALSE
      BY <2>a, <3>2 DEF Create
    <3>3. ASSUME NEW v \in Uploads, MarkReady(v) \/ MarkFailed(v),
                 i = target[v]
          PROVE  FALSE
      <4>1. build[v] # "none" BY <3>3 DEF MarkReady, MarkFailed
      <4>2. v = u BY <2>a, <3>3, <4>1
      <4> QED BY <2>m, <3>3, <4>2
    <3> HIDE DEF i
    <3> QED BY <2>t, <3>1, <3>2, <3>3, RowChange
  <2>2. rows'[i].status = "building" BY <1>2, <2>1 DEF BuildIsCurrent
  <2>3. CASE LoadPackage(u)
    <3>1. build'[u] # "ready"
      BY <2>3 DEF LoadPackage, BuildGoto
    <3>2. build'[u] = "run" =>
             /\ seen'[u].archive = rows[i].archive
             /\ seen'[u].path = rows[i].path
      BY <2>3 DEF LoadPackage, BuildGoto
    <3>3. build'[u] \notin {"verify", "ready"}
      BY <2>3 DEF LoadPackage, BuildGoto
    <3>4. rows[i].path = rows[i].archive
      BY <2>1, <2>2 DEF BuildingHasWorkspace
    <3> QED BY <2>1, <2>2, <2>t, <3>1, <3>2, <3>3, <3>4
  <2>4. CASE ~LoadPackage(u)
    <3>1. /\ seen'[u] = seen[u]
          /\ build'[u] \in {"run", "verify", "ready"} =>
                build[u] \in {"run", "verify", "ready"}
          /\ build'[u] = "ready" => build[u] = "ready" \/ VerifyEntrypoint(u)
      <4>1. ASSUME NEW v \in Uploads, Build(v) \/ BuildFails(v)
            PROVE  /\ seen'[u] = seen[u]
                   /\ build'[u] \in {"run", "verify", "ready"} =>
                         build[u] \in {"run", "verify", "ready"}
                   /\ build'[u] = "ready" =>
                         build[u] = "ready" \/ VerifyEntrypoint(u)
        BY <2>4, <4>1 DEF Build, BuildFails, LoadPackage, RunBuild,
           VerifyEntrypoint, MarkReady, MarkFailed, BuildGoto
      <4>2. ASSUME NEW v \in Uploads,
                   StoreArchive(v) \/ UploadPackage(v) \/ UploadFails(v)
            PROVE  seen'[u] = seen[u] /\ build'[u] = build[u]
        BY <2>a, <4>2 DEF StoreArchive, UploadPackage, UploadFails, CheckSpec,
           FindExisting, ClearOld, Replace, Create, Accepted, CreateConflicts,
           Cleanup, builds
      <4>3. ASSUME NEW e \in Deletions,
                   (\E j \in Uploads : FindVictim(e, j)) \/ DeletePackage(e)
                      \/ DeletionFails(e)
            PROVE  seen'[u] = seen[u] /\ build'[u] = build[u]
        BY <4>3 DEF FindVictim, DeletePackage, RemoveVictim, DeleteVictim,
           DeletionFails, builds
      <4> QED BY <4>1, <4>2, <4>3 DEF Next
    <3>2. build[u] \in {"run", "verify", "ready"} =>
             seen[u].archive = rows[i].archive /\ p = seen[u].archive
      BY <2>1 DEF BuildIsCurrent
    <3>3. ASSUME VerifyEntrypoint(u), build'[u] = "ready",
                 seen[u].archive \in Qualified
          PROVE  workspace'[p] = "built"
      BY <3>3 DEF VerifyEntrypoint, BuildGoto, EntrypointOK
    <3>4. ASSUME build[u] = "ready", seen[u].archive \in Qualified
          PROVE  workspace'[p] = "built"
      <4>1. workspace[p] = "built" /\ p \in Uploads
        BY <2>1, <3>2, <3>4 DEF BuildIsCurrent
      <4>2. target[p] = i /\ upload[p] = "done"
        BY <3>4, <4>1, PackagesAssumption DEF PathsInv, BuildPaths, HeldBy
      <4>3. ASSUME NEW v \in Uploads, ClearOld(v), stale[v] = p PROVE FALSE
        <5>1. target[v] = i
          BY <4>1, <4>2, <4>3, PackagesAssumption
          DEF ClearOld, PathsInv, RequestPaths, HeldBy
        <5> QED BY <2>a, <4>3, <5>1 DEF ClearOld
      <4>4. ASSUME NEW e \in Deletions, RemoveVictim(e), victim[e].path = p
            PROVE  FALSE
        <5>1. victim[e].id = i
          BY <4>1, <4>2, <4>4, PackagesAssumption
          DEF RemoveVictim, PathsInv, VictimPaths, HeldBy
        <5> QED BY <2>a, <4>4, <5>1 DEF RemoveVictim
      <4>5. ~Cleanup(p) BY <4>2 DEF Cleanup
      <4>6. ~Remover(p) BY <4>3, <4>4, <4>5 DEF Remover
      <4> QED BY <4>1, <4>2, <4>6, BuiltStays
    <3> QED BY <2>1, <2>2, <2>t, <3>1, <3>2, <3>3, <3>4
  <2> QED BY <2>3, <2>4
<1> QED BY <1>1, <1>2

LEMMA ReadyHasWorkspaceStep ==
    ASSUME PackagesInv, PathsInv, BuildingHasWorkspace, Undisturbed, OneByOne,
           BuildIsCurrent, ReadyHasWorkspace, Next, ~Fault, ~Crash
    PROVE  ReadyHasWorkspace'
<1> SUFFICES ASSUME NEW i \in Packages', rows'[i].status = "ready"
             PROVE  /\ rows'[i].path = rows'[i].archive
                    /\ \/ Removing(i)'
                       \/ /\ workspace'[rows'[i].path] # "absent"
                          /\ rows'[i].archive \in Qualified =>
                                workspace'[rows'[i].path] = "built"
  BY DEF ReadyHasWorkspace
<1>1. CASE i \in Packages /\ rows'[i] = rows[i]
  <2> DEFINE p == rows[i].path
  <2>1. rows[i].path = rows[i].archive BY <1>1 DEF ReadyHasWorkspace
  <2>2. p # NoPath /\ p \in Uploads
    BY <1>1, FoundRow DEF PackagesInv, Row, Columns
  <2>3. upload[p] = "done" BY <1>1, <2>2 DEF PathsInv, RowPaths, HeldBy
  <2>4. CASE Removing(i)
    BY <1>1, <2>1, <2>2, <2>4, RemovingStays
  <2>5. CASE workspace[p] # "absent" /\ workspace'[p] = "absent"
    BY <1>1, <2>1, <2>2, <2>5, RemovingStays
  <2>6. CASE /\ workspace[p] # "absent" /\ workspace'[p] # "absent"
             /\ rows[i].archive \in Qualified => workspace[p] = "built"
    <3>1. workspace[p] = "built" => workspace'[p] = "built"
      <4>1. ASSUME Remover(p), workspace[p] = "built"
            PROVE  workspace'[p] = "absent"
        BY <2>2, <4>1 DEF Remover, ClearOld, Cleanup, RemoveVictim, RemoveAll,
           PackagesInv, TypeOK
      <4> HIDE DEF p
      <4> QED BY <2>2, <2>3, <2>6, <4>1, BuiltStays
    <3> QED BY <1>1, <2>1, <2>6, <3>1
  <2> QED BY <1>1, <2>4, <2>5, <2>6 DEF ReadyHasWorkspace
<1>2. ASSUME NEW u \in Uploads, MarkReady(u), i = target[u], i \in Packages,
             rows'[i].path = seen[u].path, rows'[i].archive = rows[i].archive
      PROVE  /\ rows'[i].path = rows'[i].archive
             /\ workspace'[rows'[i].path] # "absent"
             /\ rows'[i].archive \in Qualified =>
                   workspace'[rows'[i].path] = "built"
  <2>1. build[u] = "ready" /\ UNCHANGED workspace BY <1>2 DEF MarkReady
  <2>2. /\ rows[i].status = "building"
        /\ seen[u].archive = rows[i].archive /\ seen[u].path = seen[u].archive
        /\ seen[u].archive \in Qualified => workspace[seen[u].path] = "built"
    BY <1>2, <2>1 DEF BuildIsCurrent
  <2>3. /\ rows[i].path = rows[i].archive
        /\ workspace[rows[i].path] = "absent" => Removing(i)
    BY <1>2, <2>2 DEF BuildingHasWorkspace, Removing
  <2>4. ~Removing(i) BY <1>2, <2>1, BuildIsAlone DEF Removing
  <2> QED BY <1>2, <2>1, <2>2, <2>3, <2>4
<1> QED BY <1>1, <1>2, RowChange

LEMMA SerialInit == Init => SerialInv
BY DEF Init, SerialInv, OneByOne, Active, BuildIsCurrent, ReadyHasWorkspace,
   Packages

\* Nothing of it depends on more than the variables.
LEMMA SerialStutter ==
    ASSUME OneByOne, BuildIsCurrent, ReadyHasWorkspace, UNCHANGED vars
    PROVE  OneByOne' /\ BuildIsCurrent' /\ ReadyHasWorkspace'
<1> USE DEF vars, requests, builds, deletes, bounds
<1>1. OneByOne' BY DEF OneByOne, Active
<1>2. BuildIsCurrent' BY DEF BuildIsCurrent, Packages
<1>3. ReadyHasWorkspace' BY DEF ReadyHasWorkspace, Packages, Removing
<1> QED BY <1>1, <1>2, <1>3

LEMMA SerialStep ==
    ASSUME PackagesInv, PathsInv, BuildingHasWorkspace, SerialInv, [Next]_vars
    PROVE  SerialInv'
<1> SUFFICES ASSUME usage' = "serial", Undisturbed'
             PROVE  OneByOne' /\ BuildIsCurrent' /\ ReadyHasWorkspace'
  BY DEF SerialInv
<1>1. Undisturbed /\ ~Fault /\ ~Crash BY UndisturbedBefore
<1>2. usage = "serial" BY <1>1, ActiveChange DEF vars, bounds
<1>3. OneByOne /\ BuildIsCurrent /\ ReadyHasWorkspace
  BY <1>1, <1>2 DEF SerialInv
<1>4. CASE Next
  BY <1>1, <1>3, <1>4, OneByOneStep, BuildIsCurrentStep, ReadyHasWorkspaceStep
<1>5. CASE UNCHANGED vars BY <1>3, <1>5, SerialStutter
<1> QED BY <1>4, <1>5

\* While nobody works on the packages of its name, none is being removed.
LEMMA SerialIsSafe == PackagesInv /\ SerialInv => SerialUseIsSafe
<1> SUFFICES ASSUME PackagesInv, ReadyHasWorkspace, NEW i \in Packages,
                    rows[i].status = "ready", Quiet(rows[i].name)
             PROVE  /\ rows[i].path = rows[i].archive
                    /\ workspace[rows[i].path] # "absent"
                    /\ rows[i].archive \in Qualified =>
                          workspace[rows[i].path] = "built"
  BY DEF SerialInv, SerialUseIsSafe, ReadyRunsItsArchive
<1>1. ASSUME NEW u \in Uploads, upload[u] = "replace", target[u] = i
      PROVE  FALSE
  <2>1. NameOf[u] = rows[i].name
    BY <1>1 DEF PackagesInv, RequestsInv, RowsInv, SamePackage
  <2> QED BY <1>1, <2>1 DEF Quiet
<1>2. ~Removing(i) BY <1>1 DEF Removing, Quiet
<1> QED BY <1>2 DEF ReadyHasWorkspace

\* The invariants above, together.
LEMMA WorkspacesInvariant ==
    Spec => [](PathsInv /\ BuildingHasWorkspace /\ SerialInv /\ PackagesInv)
<1>1. Init => PathsInv /\ BuildingHasWorkspace /\ SerialInv
  BY PathsInit, BuildingInit, SerialInit
<1>2. /\ PathsInv /\ BuildingHasWorkspace /\ SerialInv /\ PackagesInv
      /\ [Next]_vars
      => (PathsInv /\ BuildingHasWorkspace /\ SerialInv)'
  BY PathsStep, BuildingStep, SerialStep
<1> QED BY <1>1, <1>2, PackagesInvariant, PTL DEF Spec

\* However requests overlap, the archive of a package that is being built is
\* on disk at the path its row gives, unless a request that took it away is
\* about to write or delete that row: no build starts on somebody's leftover.
THEOREM BuildsHaveWorkspaces == Spec => []BuildingHasWorkspace
BY WorkspacesInvariant, PTL

\* With one request after the other, Build, UploadPackage and DeletePackage
\* leave no ready package without its archive and its entrypoint.
THEOREM SerialUse == Spec => []SerialUseIsSafe
BY WorkspacesInvariant, SerialIsSafe, PTL
=============================================================================
