-------------------------- MODULE ProfilePictures ---------------------------
(***************************************************************************)
(* UploadProfilePicture and GetProfilePicture of internal/service, with    *)
(* the MySQL row, the Redis picture cache and the local files they keep in *)
(* step.  One user: rows, cache keys and directories of different users    *)
(* have nothing in common.  Requests run concurrently, in the worker pools *)
(* of several Pods that share MySQL and Redis but not their disks.         *)
(*                                                                         *)
(* A picture is named by the relative path its upload was given, and the   *)
(* name stands for the bytes and their MIME type.                          *)
(***************************************************************************)
EXTENDS Naturals, FiniteSets

CONSTANTS
  Pods,          \* processes running the backend, each with its own disk
  Uploaders,     \* requests that may upload
  Readers,       \* requests that may read
  NoPicture,
  MaxUploads,    \* bound: uploads begun
  MaxFaults      \* bound: failed calls and restarts

ASSUME BoundsAssumption == MaxUploads \in Nat /\ MaxFaults \in Nat
ASSUME NoPictureAssumption == NoPicture \notin Nat

VARIABLES
  row,      \* the user's profile_picture_path and profile_picture_version
  cache,    \* Redis: picture by version, never expiring
  files,    \* per Pod, the pictures on its disk
  caching,  \* per Pod, pictureCache # nil, decided when the process starts
  req,      \* per request, where it stands and its local variables
  lateUpdates,  \* paths whose UPDATE was given up and may still be carried out
  lateSets,     \* Redis commands that were given up and may still be carried out
  uploads,  \* uploads begun so far; the next relative path
  acked,    \* pictures whose upload was answered with success by a running Pod
  crossed,  \* an UPDATE came between the UPDATE and the SELECT of another upload
  faults

vars == <<row, cache, files, caching, req, lateUpdates, lateSets, uploads, acked, crossed, faults>>

Requests == Uploaders \cup Readers
Pictures == 1 .. MaxUploads
Versions == 0 .. MaxUploads
Profiles == [path : Pictures \cup {NoPicture}, version : Versions]

Steps == {"idle", "writeFile", "update", "select", "dropOld", "save",
          "getCached", "readFile", "saveRead"}

TypeOK ==
  /\ row \in Profiles
  /\ cache \in [Versions -> Pictures \cup {NoPicture}]
  /\ files \in [Pods -> SUBSET Pictures]
  /\ caching \in [Pods -> BOOLEAN]
  /\ req \in [Requests -> [pc : Steps, pod : Pods,
                           path : Pictures \cup {NoPicture},    \* of its upload
                           old : Versions,                      \* oldProfile's
                           profile : Profiles,                  \* as selected
                           served : Pictures \cup {NoPicture}]] \* the response
  /\ lateUpdates \subseteq Pictures
  /\ lateSets \subseteq Profiles
  /\ uploads \in 0 .. MaxUploads
  /\ acked \subseteq Pictures
  /\ crossed \in BOOLEAN
  /\ faults \in 0 .. MaxFaults

NoProfile == [path |-> NoPicture, version |-> 0]

Idle(p) == [pc |-> "idle", pod |-> p, path |-> NoPicture, old |-> 0,
            profile |-> NoProfile, served |-> NoPicture]

Init ==
  /\ row = NoProfile
  /\ cache = [v \in Versions |-> NoPicture]
  /\ files = [p \in Pods |-> {}]
  /\ \E redisUp \in BOOLEAN : caching = [p \in Pods |-> redisUp]
  /\ req \in [Requests -> {Idle(p) : p \in Pods}]
  /\ lateUpdates = {}
  /\ lateSets = {}
  /\ uploads = 0
  /\ acked = {}
  /\ crossed = FALSE
  /\ faults = 0

Fault ==
  /\ faults < MaxFaults
  /\ faults' = faults + 1

At(r, step) == req[r].pc = step
Caching(r) == caching[req[r].pod]
Goto(r, step) == req' = [req EXCEPT ![r].pc = step]
Ends(r) == req' = [req EXCEPT ![r] = Idle(req[r].pod)]

\* The Redis command a request is about to send: the DEL of the replaced version,
\* or the SET of a picture under the version of the profile.
Sending(r) == req[r].pc \in {"dropOld", "save", "saveRead"}
Command(r) ==
  IF At(r, "dropOld") THEN [version |-> req[r].old, path |-> NoPicture]
  ELSE [version |-> req[r].profile.version,
        path |-> IF At(r, "save") THEN req[r].path ELSE req[r].profile.path]

Carried(command) == [cache EXCEPT ![command.version] = command.path]

\* Redis commands whose error the service ignores.  One that timed out, or whose
\* connection broke, may be carried out later.
Set(command) ==
  \/ cache' = Carried(command) /\ UNCHANGED <<lateSets, faults>>
  \/ Fault /\ UNCHANGED <<cache, lateSets>>
  \/ Fault /\ lateSets' = lateSets \cup {command} /\ UNCHANGED cache

-----------------------------------------------------------------------------
(* UploadProfilePicture.                                                   *)

\* The validated upload gets its path and reads the profile it will replace; a
\* failed read counts as no earlier picture.
ReadOld(r) ==
  /\ At(r, "idle")
  /\ uploads < MaxUploads
  /\ uploads' = uploads + 1
  /\ \E p \in Pods, failed \in BOOLEAN :
       /\ IF failed THEN Fault ELSE UNCHANGED faults
       /\ req' = [req EXCEPT ![r] = [Idle(p) EXCEPT
                    !.pc = "writeFile", !.path = uploads + 1,
                    !.old = IF failed THEN 0 ELSE row.version]]
  /\ UNCHANGED <<row, cache, files, lateUpdates, lateSets, acked, caching, crossed>>

WriteFile(r) ==
  /\ At(r, "writeFile")
  /\ \/ /\ files' = [files EXCEPT ![req[r].pod] = @ \cup {req[r].path}]
        /\ Goto(r, "update")
        /\ UNCHANGED faults
     \/ /\ Fault
        /\ Ends(r)
        /\ UNCHANGED files
  /\ UNCHANGED <<row, cache, lateUpdates, lateSets, uploads, acked, caching, crossed>>

\* Mutant: the version is counted twice.
UpdatedTwice(path) == [path |-> path, version |-> row.version + 2]

\* Mutant: the version is not counted.
UpdatedUncounted(path) == [path |-> path, version |-> row.version]

\* The UPDATE of UpdateProfilePicture.
Updated(path) == [path |-> path, version |-> row.version + 1]

Crosses == crossed' = (crossed \/ \E u \in Uploaders : At(u, "select"))

Update(r) ==
  /\ At(r, "update")
  /\ row' = Updated(req[r].path)
  /\ Crosses
  /\ Goto(r, "select")
  /\ UNCHANGED <<cache, files, lateUpdates, lateSets, uploads, acked, faults, caching>>

\* Mutant: the picture the row names is removed.
RemoveNamed(r) ==
  files' = [files EXCEPT ![req[r].pod] = @ \ {row.path}]

\* os.Remove on the way out.
Remove(r) ==
  files' = [files EXCEPT ![req[r].pod] = @ \ {req[r].path}]

\* The statement fails, or only its answer is lost, or the context ends before
\* MySQL has carried it out.
UpdateFails(r) ==
  /\ At(r, "update")
  /\ Fault
  /\ \/ UNCHANGED <<row, crossed, lateUpdates>>
     \/ row' = Updated(req[r].path) /\ Crosses /\ UNCHANGED lateUpdates
     \/ lateUpdates' = lateUpdates \cup {req[r].path} /\ UNCHANGED <<row, crossed>>
  /\ Remove(r)
  /\ Ends(r)
  /\ UNCHANGED <<cache, lateSets, uploads, acked, caching>>

\* The answer to an upload.
Ack(r) == acked' = acked \cup {req[r].path}

\* The SELECT after the UPDATE, a statement of its own on another connection.
Select(r) ==
  /\ At(r, "select")
  /\ \/ /\ ~ Caching(r)
        /\ Ack(r)
        /\ Ends(r)
     \/ /\ Caching(r)
        /\ req' = [req EXCEPT ![r].profile = row,
                              ![r].pc = IF req[r].old > 0 THEN "dropOld" ELSE "save"]
        /\ UNCHANGED acked
  /\ UNCHANGED <<row, cache, files, lateUpdates, lateSets, uploads, faults, caching, crossed>>

SelectFails(r) ==
  /\ At(r, "select")
  /\ Fault
  /\ Remove(r)
  /\ Ends(r)
  /\ UNCHANGED <<row, cache, lateUpdates, lateSets, uploads, acked, caching, crossed>>

DropOld(r) ==
  /\ At(r, "dropOld")
  /\ Set(Command(r))
  /\ Goto(r, "save")
  /\ UNCHANGED <<row, files, lateUpdates, uploads, acked, caching, crossed>>

Save(r) ==
  /\ At(r, "save")
  /\ Set(Command(r))
  /\ Ack(r)
  /\ Ends(r)
  /\ UNCHANGED <<row, files, lateUpdates, uploads, caching, crossed>>

-----------------------------------------------------------------------------
(* GetProfilePicture.                                                      *)

\* Not found when the row names no picture; an error of the SELECT ends the
\* request in the same way.
GetProfile(r) ==
  /\ At(r, "idle")
  /\ \E p \in Pods :
       req' = [req EXCEPT ![r] = [Idle(p) EXCEPT
                 !.profile = row,
                 !.pc = IF row.path = NoPicture THEN "idle"
                        ELSE IF caching[p] THEN "getCached" ELSE "readFile"]]
  /\ UNCHANGED <<row, cache, files, lateUpdates, lateSets, uploads, acked, faults, caching, crossed>>

\* The answer to a read.
Serve(r, picture) ==
  req' = [req EXCEPT ![r].served = picture, ![r].pc = "idle"]

GetCached(r) ==
  /\ At(r, "getCached")
  /\ LET picture == cache[req[r].profile.version]
     IN  \/ picture # NoPicture /\ Serve(r, picture) /\ UNCHANGED faults
         \/ picture = NoPicture /\ Goto(r, "readFile") /\ UNCHANGED faults
         \/ Fault /\ Ends(r)
  /\ UNCHANGED <<row, cache, files, lateUpdates, lateSets, uploads, acked, caching, crossed>>

\* Not found when the Pod's disk lacks the file.
ReadFile(r) ==
  /\ At(r, "readFile")
  /\ IF req[r].profile.path \notin files[req[r].pod]
     THEN Ends(r)
     ELSE IF Caching(r) THEN Goto(r, "saveRead") ELSE Serve(r, req[r].profile.path)
  /\ UNCHANGED <<row, cache, files, lateUpdates, lateSets, uploads, acked, faults, caching, crossed>>

\* Mutant: the version is taken from the row as it is now.
SaveReadUnderCurrent(r) ==
  /\ At(r, "saveRead")
  /\ Set([version |-> row.version, path |-> req[r].profile.path])
  /\ Serve(r, req[r].profile.path)
  /\ UNCHANGED <<row, files, lateUpdates, uploads, acked, caching, crossed>>

SaveRead(r) ==
  /\ At(r, "saveRead")
  /\ Set(Command(r))
  /\ Serve(r, req[r].profile.path)
  /\ UNCHANGED <<row, files, lateUpdates, uploads, acked, caching, crossed>>

-----------------------------------------------------------------------------
\* MySQL and Redis carry out what was given up.
LateUpdate ==
  /\ \E path \in lateUpdates :
       /\ row' = Updated(path)
       /\ lateUpdates' = lateUpdates \ {path}
  /\ Crosses
  /\ UNCHANGED <<cache, files, caching, req, lateSets, uploads, acked, faults>>

LateSet ==
  /\ \E command \in lateSets :
       /\ cache' = Carried(command)
       /\ lateSets' = lateSets \ {command}
  /\ UNCHANGED <<row, files, caching, req, lateUpdates, uploads, acked, crossed, faults>>

\* A Pod is replaced, or its container restarted: requests end where they stand,
\* with what some of them sent still on its way, and the disk, which is no volume,
\* comes back empty.  The new process has a cache if Redis answers its ping.
Restart(p) ==
  /\ Fault
  /\ files' = [files EXCEPT ![p] = {}]
  /\ acked' = acked \ files[p]
  /\ req' = [r \in Requests |-> IF req[r].pod = p THEN Idle(p) ELSE req[r]]
  /\ \E sent \in SUBSET {r \in Requests : req[r].pod = p /\ (At(r, "update") \/ Sending(r))} :
       /\ lateUpdates' = lateUpdates \cup {req[r].path : r \in {s \in sent : At(s, "update")}}
       /\ lateSets' = lateSets \cup {Command(r) : r \in {s \in sent : Sending(s)}}
  /\ \E pong \in BOOLEAN : caching' = [caching EXCEPT ![p] = pong]
  /\ UNCHANGED <<row, cache, uploads, crossed>>

\* Redis loses what it has stored.
RedisLoses ==
  /\ Fault
  /\ cache' = [v \in Versions |-> NoPicture]
  /\ UNCHANGED <<row, files, caching, req, lateUpdates, lateSets, uploads, acked, crossed>>

UploadProfilePicture(r) ==
  \/ ReadOld(r) \/ WriteFile(r)
  \/ Update(r) \/ UpdateFails(r) \/ Select(r) \/ SelectFails(r)
  \/ DropOld(r) \/ Save(r)

GetProfilePicture(r) ==
  GetProfile(r) \/ GetCached(r) \/ ReadFile(r) \/ SaveRead(r)

Next ==
  \/ \E r \in Uploaders : UploadProfilePicture(r)
  \/ \E r \in Readers : GetProfilePicture(r)
  \/ LateUpdate \/ LateSet
  \/ \E p \in Pods : Restart(p)
  \/ RedisLoses

Spec == Init /\ [][Next]_vars

-----------------------------------------------------------------------------
(* Properties.                                                             *)

\* A read answers with the picture that the row it selected names: whatever
\* uploads, failures and late statements and commands happen meanwhile, the
\* cache never has another picture under that version.  The one exception is an
\* UPDATE between the two statements of another UpdateProfilePicture.
ServesRow ==
  ~ crossed =>
    \A r \in Readers :
      req[r].served # NoPicture => req[r].served = req[r].profile.path

\* A picture whose upload was acknowledged by a Pod that still runs is on that
\* Pod's disk: the cleanup of failed uploads only ever removes their own files.
AckedKept == \A n \in acked : \E p \in Pods : n \in files[p]

\* What Redis holds for the row's version is the picture the row names, also while
\* uploads and late reads are under way and whatever SaveProfilePicture and
\* DeleteProfilePicture calls fail, unless an UPDATE came between the two
\* statements of another upload.
AgreesUncrossed ==
  ~ crossed => cache[row.version] \in {row.path, NoPicture}

\* Between uploads, what Redis holds for the row's version is the picture the
\* row names.
CacheAgrees ==
  (/\ \A r \in Uploaders : At(r, "idle")
   /\ cache[row.version] # NoPicture) => cache[row.version] = row.path
=============================================================================
