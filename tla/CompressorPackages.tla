------------------------- MODULE CompressorPackages -------------------------
(***************************************************************************)
(* Compressor packages: the upload of an archive into a workspace of its   *)
(* own under COMPRESSOR_DIR, its row in compressor_packages, the build     *)
(* goroutine every accepted upload starts, and deletion.                   *)
(*                                                                         *)
(* One action is one SQL statement or one step on the file system.  No     *)
(* lock and no transaction spans two of them: requests, builds and         *)
(* deletions of one package interleave as they like, each with the row it  *)
(* read at its start.                                                      *)
(***************************************************************************)
EXTENDS Integers

CONSTANTS
    Uploads,        \* uploads, named by the id of their workspace (workID)
    NameOf,         \* name in the spec.yaml of an upload's archive
    OwnerOf,        \* the user who uploads it
    GroupOf,        \* the group it is uploaded for, or NoGroup
    Qualified,      \* uploads whose entrypoint is a path inside the package
    Deletions,      \* DELETE requests
    ActorOf,        \* the user who sends one
    RoleOf,         \* a user's role
    HomeOf,         \* a user's group, or NoGroup
    NoGroup, NoRow, NoPath,
    MaxCrashes,     \* bound: restarts of the backend
    MaxFaults       \* bound: database statements that return an error

Users == DOMAIN RoleOf

ASSUME PackagesAssumption ==
    /\ OwnerOf \in [Uploads -> Users]
    /\ Qualified \subseteq Uploads
    /\ ActorOf \in [Deletions -> Users]
    /\ NoRow \notin Uploads /\ NoPath \notin Uploads
    /\ MaxCrashes \in Nat
    /\ MaxFaults \in Nat

VARIABLES
    rows,           \* compressor_packages, by id; NoRow where there is none
    workspace,      \* COMPRESSOR_DIR/<id>: "absent", "unpacked", "built"
    upload,         \* where an upload request is
    target,         \* id of the row an upload request writes and builds
    stale,          \* built_path of the row it found, NoPath if none
    build,          \* where the build goroutine of an upload is
    seen,           \* the row a build read: its path and its archive
    deletion,       \* where a DELETE request is
    victim,         \* the row it read: its id and its path
    usage,          \* history: a request began while another was under way
    crashes, faults

requests == <<upload, target, stale>>
builds == <<build, seen>>
deletes == <<deletion, victim>>
bounds == <<usage, crashes, faults>>
vars == <<rows, workspace, requests, builds, deletes, bounds>>

Columns ==
    [name : {NameOf[u] : u \in Uploads}, owner : Users,
     group : {GroupOf[u] : u \in Uploads}, archive : Uploads,
     status : {"building", "ready", "failed"}, path : Uploads \cup {NoPath}]

\* A failed package has no path, every other package has one.
Row == {r \in Columns : r.status = "failed" <=> r.path = NoPath}

TypeOK ==
    /\ rows \in [Uploads -> Row \cup {NoRow}]
    /\ workspace \in [Uploads -> {"absent", "unpacked", "built"}]
    /\ upload \in [Uploads -> {"new", "check", "find", "clear", "replace",
                               "create", "cleanup", "done"}]
    /\ target \in [Uploads -> Uploads \cup {NoRow}]
    /\ stale \in [Uploads -> Uploads \cup {NoPath}]
    /\ build \in [Uploads -> {"none", "load", "run", "verify", "ready",
                              "failed"}]
    /\ seen \in [Uploads -> [path : Uploads \cup {NoPath},
                             archive : Uploads]]
    /\ deletion \in [Deletions -> {"new", "remove", "delete", "done"}]
    /\ victim \in [Deletions -> [id : Uploads \cup {NoRow},
                                 path : Uploads \cup {NoPath}]]
    /\ usage \in {"serial", "overlapping"}
    /\ crashes \in 0..MaxCrashes
    /\ faults \in 0..MaxFaults

Init ==
    /\ rows = [i \in Uploads |-> NoRow]
    /\ workspace = [u \in Uploads |-> "absent"]
    /\ upload = [u \in Uploads |-> "new"]
    /\ target = [u \in Uploads |-> NoRow]
    /\ stale = [u \in Uploads |-> NoPath]
    /\ build = [u \in Uploads |-> "none"]
    /\ seen = [u \in Uploads |-> [path |-> NoPath, archive |-> u]]
    /\ deletion = [d \in Deletions |-> "new"]
    /\ victim = [d \in Deletions |-> [id |-> NoRow, path |-> NoPath]]
    /\ usage = "serial"
    /\ crashes = 0
    /\ faults = 0

-----------------------------------------------------------------------------
(* Queries and their users *)

Packages == {i \in Uploads : rows[i] # NoRow}

Named(n) == {i \in Packages : rows[i].name = n}

MayManage(actor, r) ==
    \/ RoleOf[actor] = "admin"
    \/ actor = r.owner
    \/ /\ RoleOf[actor] = "professor"
       /\ HomeOf[actor] # NoGroup
       /\ HomeOf[actor] = r.group

\* No request or build on packages of that name is under way.
Quiet(n) ==
    /\ \A u \in Uploads :
          NameOf[u] = n => upload[u] \in {"new", "done"} /\ build[u] = "none"
    /\ \A d \in Deletions : deletion[d] \in {"new", "done"}

\* A request on a package of that name begins.
Begin(n) ==
    /\ usage' = IF Quiet(n) THEN usage ELSE "overlapping"
    /\ UNCHANGED <<crashes, faults>>

\* UPDATE compressor_packages ... WHERE id = i: no row, no effect.
UpdateRow(i, r) ==
    rows' = IF i \in Packages THEN [rows EXCEPT ![i] = r] ELSE rows

RemoveAll(p) ==
    workspace' = IF p = NoPath THEN workspace
                               ELSE [workspace EXCEPT ![p] = "absent"]

-----------------------------------------------------------------------------
(* UploadPackage *)

Goto(u, next) == upload' = [upload EXCEPT ![u] = next]

\* The archive is stored and extracted into a fresh workspace.
StoreArchive(u) ==
    /\ upload[u] = "new"
    /\ Begin(NameOf[u])
    /\ workspace' = [workspace EXCEPT ![u] = "unpacked"]
    /\ Goto(u, "check")
    /\ UNCHANGED <<rows, target, stale, builds, deletes>>

\* spec.yaml, the worker limit and the platform are fine, or they are not.
CheckSpec(u) ==
    /\ upload[u] = "check"
    /\ \E next \in {"find", "cleanup"} : Goto(u, next)
    /\ UNCHANGED <<rows, workspace, target, stale, builds, deletes, bounds>>

\* Mutant: the name is replaced whoever owns it.
FindAnyone(u) ==
    /\ upload[u] = "find"
    /\ \/ /\ Named(NameOf[u]) = {}
          /\ Goto(u, "create")
          /\ UNCHANGED <<target, stale>>
       \/ \E i \in Named(NameOf[u]) :
             /\ Goto(u, "clear")
             /\ target' = [target EXCEPT ![u] = i]
             /\ stale' = [stale EXCEPT ![u] = rows[i].path]
    /\ UNCHANGED <<rows, workspace, builds, deletes, bounds>>

\* FindByName.  The owner check is made on the row that is read here.
FindExisting(u) ==
    /\ upload[u] = "find"
    /\ \/ /\ Named(NameOf[u]) = {}
          /\ Goto(u, "create")
          /\ UNCHANGED <<target, stale>>
       \/ \E i \in Named(NameOf[u]) :
             /\ rows[i].owner # OwnerOf[u]
             /\ Goto(u, "cleanup")
             /\ UNCHANGED <<target, stale>>
       \/ \E i \in Named(NameOf[u]) :
             /\ rows[i].owner = OwnerOf[u]
             /\ Goto(u, "clear")
             /\ target' = [target EXCEPT ![u] = i]
             /\ stale' = [stale EXCEPT ![u] = rows[i].path]
    /\ UNCHANGED <<rows, workspace, builds, deletes, bounds>>

\* The workspace of the replaced archive goes before the row changes.
ClearOld(u) ==
    /\ upload[u] = "clear"
    /\ RemoveAll(stale[u])
    /\ Goto(u, "replace")
    /\ UNCHANGED <<rows, target, stale, builds, deletes, bounds>>

\* The request ends with 202 and a goroutine for Build.
Accepted(u) ==
    /\ Goto(u, "done")
    /\ build' = [build EXCEPT ![u] = "load"]

\* Mutant: the new upload keeps the path of the old one.
ReplaceKeepingPath(u) ==
    /\ upload[u] = "replace"
    /\ UpdateRow(target[u],
          [rows[target[u]] EXCEPT !.group = GroupOf[u], !.archive = u,
                                  !.status = "building"])
    /\ Accepted(u)
    /\ UNCHANGED <<workspace, target, stale, seen, deletes, bounds>>

Replace(u) ==
    /\ upload[u] = "replace"
    /\ UpdateRow(target[u],
          [rows[target[u]] EXCEPT !.group = GroupOf[u], !.archive = u,
                                  !.status = "building", !.path = u])
    /\ Accepted(u)
    /\ UNCHANGED <<workspace, target, stale, seen, deletes, bounds>>

\* The INSERT; the unique name makes one of two first uploads fail.
Create(u) ==
    /\ upload[u] = "create"
    /\ Named(NameOf[u]) = {}
    /\ rows' = [rows EXCEPT ![u] =
          [name |-> NameOf[u], owner |-> OwnerOf[u], group |-> GroupOf[u],
           archive |-> u, status |-> "building", path |-> u]]
    /\ target' = [target EXCEPT ![u] = u]
    /\ Accepted(u)
    /\ UNCHANGED <<workspace, stale, seen, deletes, bounds>>

CreateConflicts(u) ==
    /\ upload[u] = "create"
    /\ Named(NameOf[u]) # {}
    /\ Goto(u, "cleanup")
    /\ UNCHANGED <<rows, workspace, target, stale, builds, deletes, bounds>>

\* The deferred-by-hand cleanup() of every error path.
Cleanup(u) ==
    /\ upload[u] = "cleanup"
    /\ RemoveAll(u)
    /\ Goto(u, "done")
    /\ UNCHANGED <<rows, target, stale, builds, deletes, bounds>>

UploadPackage(u) ==
    \/ CheckSpec(u) \/ FindExisting(u) \/ ClearOld(u) \/ Replace(u)
    \/ Create(u) \/ CreateConflicts(u) \/ Cleanup(u)

-----------------------------------------------------------------------------
(* Build, in a goroutine of its own *)

BuildGoto(u, next) == build' = [build EXCEPT ![u] = next]

\* FindByID: the row as it is now, which may hold another upload's path.
LoadPackage(u) ==
    /\ build[u] = "load"
    /\ \/ /\ target[u] \notin Packages
          /\ BuildGoto(u, "none")
          /\ UNCHANGED seen
       \/ /\ target[u] \in Packages
          /\ rows[target[u]].path = NoPath
          /\ BuildGoto(u, "failed")
          /\ UNCHANGED seen
       \/ /\ target[u] \in Packages
          /\ rows[target[u]].path # NoPath
          /\ BuildGoto(u, "run")
          /\ seen' = [seen EXCEPT ![u] =
                [path |-> rows[target[u]].path,
                 archive |-> rows[target[u]].archive]]
    /\ UNCHANGED <<rows, workspace, requests, deletes, bounds>>

\* Mutant: the error of a build is returned and not recorded.
RunBuildUnmarked(u) ==
    /\ build[u] = "run"
    /\ \/ /\ workspace[seen[u].path] # "absent"
          /\ workspace' = [workspace EXCEPT ![seen[u].path] = "built"]
          /\ BuildGoto(u, "verify")
       \/ BuildGoto(u, "none") /\ UNCHANGED workspace
    /\ UNCHANGED <<rows, requests, seen, deletes, bounds>>

\* The build container: it succeeds, with or without the entrypoint in its
\* place, or it fails, exceeds its timeout, or cannot run at all.
RunBuild(u) ==
    /\ build[u] = "run"
    /\ \/ /\ workspace[seen[u].path] # "absent"
          /\ workspace' = [workspace EXCEPT ![seen[u].path] = "built"]
          /\ BuildGoto(u, "verify")
       \/ BuildGoto(u, "verify") /\ UNCHANGED workspace
       \/ BuildGoto(u, "failed") /\ UNCHANGED workspace
    /\ UNCHANGED <<rows, requests, seen, deletes, bounds>>

\* Mutant: a build that ended is a build that succeeded.
EntrypointUnchecked(path, archive) == TRUE

\* verifyEntrypoint looks at the file only if the entrypoint is a path.
EntrypointOK(path, archive) ==
    archive \in Qualified => workspace[path] = "built"

VerifyEntrypoint(u) ==
    /\ build[u] = "verify"
    /\ BuildGoto(u, IF EntrypointOK(seen[u].path, seen[u].archive)
                       THEN "ready" ELSE "failed")
    /\ UNCHANGED <<rows, workspace, requests, seen, deletes, bounds>>

\* Mutant: the row is found by the package's name.
MarkReadyByName(u) ==
    /\ build[u] = "ready"
    /\ rows' = [i \in Uploads |->
          IF i \in Named(NameOf[u])
          THEN [rows[i] EXCEPT !.status = "ready", !.path = seen[u].path]
          ELSE rows[i]]
    /\ BuildGoto(u, "none")
    /\ UNCHANGED <<workspace, requests, seen, deletes, bounds>>

\* UpdateStatus(id, "ready", built_path as it was read).
MarkReady(u) ==
    /\ build[u] = "ready"
    /\ UpdateRow(target[u],
          [rows[target[u]] EXCEPT !.status = "ready", !.path = seen[u].path])
    /\ BuildGoto(u, "none")
    /\ UNCHANGED <<workspace, requests, seen, deletes, bounds>>

\* Mutant: a failed build leaves built_path as it was.
MarkFailedKeepingPath(u) ==
    /\ build[u] = "failed"
    /\ UpdateRow(target[u], [rows[target[u]] EXCEPT !.status = "failed"])
    /\ BuildGoto(u, "none")
    /\ UNCHANGED <<workspace, requests, seen, deletes, bounds>>

\* UpdateStatus(id, "failed", built_path NULL).
MarkFailed(u) ==
    /\ build[u] = "failed"
    /\ UpdateRow(target[u],
          [rows[target[u]] EXCEPT !.status = "failed", !.path = NoPath])
    /\ BuildGoto(u, "none")
    /\ UNCHANGED <<workspace, requests, seen, deletes, bounds>>

Build(u) ==
    \/ LoadPackage(u) \/ RunBuild(u) \/ VerifyEntrypoint(u)
    \/ MarkReady(u) \/ MarkFailed(u)

-----------------------------------------------------------------------------
(* DeletePackage *)

DeleteGoto(d, next) == deletion' = [deletion EXCEPT ![d] = next]

FindVictim(d, i) ==
    /\ deletion[d] = "new"
    /\ i \in Packages
    /\ Begin(rows[i].name)
    /\ MayManage(ActorOf[d], rows[i])
    /\ DeleteGoto(d, "remove")
    /\ victim' = [victim EXCEPT ![d] = [id |-> i, path |-> rows[i].path]]
    /\ UNCHANGED <<rows, workspace, requests, builds>>

RemoveVictim(d) ==
    /\ deletion[d] = "remove"
    /\ RemoveAll(victim[d].path)
    /\ DeleteGoto(d, "delete")
    /\ UNCHANGED <<rows, requests, builds, victim, bounds>>

DeleteVictim(d) ==
    /\ deletion[d] = "delete"
    /\ rows' = [rows EXCEPT ![victim[d].id] = NoRow]
    /\ DeleteGoto(d, "done")
    /\ UNCHANGED <<workspace, requests, builds, victim, bounds>>

DeletePackage(d) == RemoveVictim(d) \/ DeleteVictim(d)

-----------------------------------------------------------------------------
(* The environment *)

Fault ==
    /\ faults < MaxFaults
    /\ faults' = faults + 1
    /\ UNCHANGED <<usage, crashes>>

\* FindByName, Replace or Create returns an error: cleanup() and 500.
UploadFails(u) ==
    /\ Fault
    /\ upload[u] \in {"find", "replace", "create"}
    /\ Goto(u, "cleanup")
    /\ UNCHANGED <<rows, workspace, target, stale, builds, deletes>>

\* FindByID or UpdateStatus returns an error: Build returns it, to be logged.
BuildFails(u) ==
    /\ Fault
    /\ build[u] \in {"load", "ready", "failed"}
    /\ BuildGoto(u, "none")
    /\ UNCHANGED <<rows, workspace, requests, seen, deletes>>

\* The DELETE returns an error: 500, with the workspace already removed.
DeletionFails(d) ==
    /\ Fault
    /\ deletion[d] = "delete"
    /\ DeleteGoto(d, "done")
    /\ UNCHANGED <<rows, workspace, requests, builds, victim>>

\* The backend restarts: nothing looks for packages that were being built.
Crash ==
    /\ crashes < MaxCrashes
    /\ crashes' = crashes + 1
    /\ upload' = [u \in Uploads |->
                     IF upload[u] = "new" THEN "new" ELSE "done"]
    /\ build' = [u \in Uploads |-> "none"]
    /\ deletion' = [d \in Deletions |->
                     IF deletion[d] = "new" THEN "new" ELSE "done"]
    /\ UNCHANGED <<rows, workspace, target, stale, seen, victim, usage,
                   faults>>

Next ==
    \/ \E u \in Uploads : StoreArchive(u) \/ UploadPackage(u) \/ Build(u)
    \/ \E d \in Deletions, i \in Uploads : FindVictim(d, i)
    \/ \E d \in Deletions : DeletePackage(d)
    \/ \E u \in Uploads : UploadFails(u) \/ BuildFails(u)
    \/ \E d \in Deletions : DeletionFails(d)
    \/ Crash

Spec == Init /\ [][Next]_vars

\* Requests and goroutines keep running; a build container ends, at the latest
\* by its timeout.  No user has to upload or delete anything.
FairSpec ==
    /\ Spec
    /\ \A u \in Uploads : WF_vars(UploadPackage(u)) /\ WF_vars(Build(u))
    /\ \A d \in Deletions : WF_vars(DeletePackage(d))

-----------------------------------------------------------------------------
(* Properties *)

SamePackage(u, v) == NameOf[u] = NameOf[v] /\ OwnerOf[u] = OwnerOf[v]

\* A package points to a workspace that its own owner uploaded under its own
\* name, and no two packages share one: however uploads, builds and deletions
\* overlap, whatever is read of a row before it is deleted and its name taken
\* by somebody else never reaches the row of the new owner.
RowOwnsPath ==
    /\ \A i \in Packages :
          /\ rows[i].name = NameOf[i] /\ rows[i].owner = OwnerOf[i]
          /\ SamePackage(rows[i].archive, i)
          /\ rows[i].path # NoPath => SamePackage(rows[i].path, i)
    /\ \A i, j \in Packages :
          rows[i].path = rows[j].path /\ rows[i].path # NoPath => i = j

\* Who may manage some package that held upload u.
MayRemove(actor, u) ==
    \/ RoleOf[actor] = "admin"
    \/ actor = OwnerOf[u]
    \/ /\ RoleOf[actor] = "professor"
       /\ HomeOf[actor] # NoGroup
       /\ \E v \in Uploads : SamePackage(v, u) /\ GroupOf[v] = HomeOf[actor]

\* The workspace of an upload is removed by its own request, by a later upload
\* of its owner under the same name, or by someone who may manage packages of
\* that owner; the rights are checked on a row that was read earlier.
OnlyManagersRemove ==
    [][\A u \in Uploads :
          workspace[u] # "absent" /\ workspace'[u] = "absent" =>
             \/ upload[u] = "cleanup"
             \/ \E v \in Uploads : upload[v] = "clear" /\ SamePackage(u, v)
             \/ \E d \in Deletions :
                   deletion[d] = "remove" /\ MayRemove(ActorOf[d], u)]_vars

Undisturbed == crashes = 0 /\ faults = 0

\* A package that is being built has its archive on disk, unless a request
\* that removed it is about to change or delete the row.
BuildingHasWorkspace ==
    Undisturbed =>
       \A i \in Packages :
          rows[i].status = "building" =>
             /\ rows[i].path = rows[i].archive
             /\ workspace[rows[i].path] = "absent" =>
                   \/ \E u \in Uploads : /\ upload[u] = "replace"
                                         /\ target[u] = i
                                         /\ stale[u] = rows[i].path
                   \/ \E d \in Deletions : /\ deletion[d] = "delete"
                                           /\ victim[d].id = i
                                           /\ victim[d].path = rows[i].path

\* A package that is shown as ready, with nothing under way, runs the archive
\* it was last uploaded with, and an entrypoint that is a path exists there.
ReadyRunsItsArchive ==
    \A i \in Packages :
       rows[i].status = "ready" /\ Quiet(rows[i].name) =>
          /\ rows[i].path = rows[i].archive
          /\ workspace[rows[i].path] # "absent"
          /\ rows[i].archive \in Qualified =>
                workspace[rows[i].path] = "built"

\* It does as long as users wait for a build to end before they upload or
\* delete that name again: Build, UploadPackage and DeletePackage are correct
\* one after the other.
SerialUseIsSafe == usage = "serial" /\ Undisturbed => ReadyRunsItsArchive

\* Every build ends, also when uploads follow each other: in the end no package
\* is being built, unless the process has crashed or a statement failed.
BuildEnds ==
    (\E i \in Packages : rows[i].status = "building")
        ~> ((\A i \in Packages : rows[i].status # "building") \/ ~Undisturbed)
=============================================================================
