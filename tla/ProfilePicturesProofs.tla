----------------------- MODULE ProfilePicturesProofs ------------------------
(***************************************************************************)
(* Proofs about ProfilePictures, for any Pods and requests and any number  *)
(* of uploads and faults.                                                  *)
(*                                                                         *)
(* The argument for ServesRow: the version grows with every UPDATE, late   *)
(* or not, so no profile that was ever selected, no cache key and no SET   *)
(* on its way can name the version that the next UPDATE makes.  What is    *)
(* selected or saved later under a version agrees with what is known under *)
(* it, except for an upload that selects the row of another one; then an   *)
(* UPDATE has crossed it.                                                  *)
(*                                                                         *)
(* The argument for AckedKept: paths are given out once, so the uploads    *)
(* under way have different ones, none of them acknowledged, and removing  *)
(* one's own file takes nothing away from anybody else.                    *)
(***************************************************************************)
EXTENDS ProfilePictures, FiniteSetTheorems, TLAPS

\* The prover of the steps that name no other.
USE ZenonT(40)

UnderWay == {"writeFile", "update", "select", "dropOld", "save"}

\* An upload that will update the row, or may, and the paths of all UPDATEs to come.
ToUpdate(r) == req[r].pc \in {"writeFile", "update"}
PathsToUpdate ==
  {n \in 1 .. uploads : n \in lateUpdates \/ \E r \in Requests : ToUpdate(r) /\ req[r].path = n}

\* Uploads under way have paths of their own, with the file once it is written.
PathInv ==
  /\ \A r \in Requests :
       req[r].pc \in UnderWay =>
         /\ req[r].path \in 1 .. uploads /\ req[r].path \notin acked \cup lateUpdates
         /\ \A s \in Requests :
              req[s].pc \in UnderWay /\ req[s].path = req[r].path => s = r
         /\ req[r].pc # "writeFile" => req[r].path \in files[req[r].pod]
  /\ acked \subseteq 1 .. uploads /\ lateUpdates \subseteq 1 .. uploads

\* Every version has its upload.
CountInv == row.version + Cardinality(PathsToUpdate) <= uploads

\* What is said of versions: by the row, by the profiles that requests selected and
\* by the SETs on their way.
Known == {row} \cup {req[r].profile : r \in Requests} \cup {c \in lateSets : c.path # NoPicture}

\* Nothing is known of versions to come.
VersionInv ==
  /\ \A k \in Known : k.version <= row.version
  /\ \A v \in Versions : cache[v] # NoPicture => v <= row.version

\* Whatever is known of a version is the same.
KnownInv ==
  /\ cache[0] = NoPicture
  /\ \A k \in Known :
       /\ k.version = 0 => k.path = NoPicture
       /\ cache[k.version] \in {k.path, NoPicture}
       /\ \A j \in Known : j.version = k.version => j.path = k.path

\* An upload selects, and saves, what it updated, and serves nothing.
OwnInv ==
  /\ \A r \in Uploaders : At(r, "select") => row.path = req[r].path
  /\ \A r \in Requests :
       /\ req[r].pc \in {"dropOld", "save"} => req[r].profile.path = req[r].path
       /\ req[r].pc \in UnderWay => req[r].served = NoPicture

AgreeInv == ~ crossed => KnownInv /\ OwnInv /\ ServesRow

\* The inductive invariant.
IInv ==
  /\ TypeOK
  /\ PathInv
  /\ CountInv
  /\ VersionInv
  /\ AgreeInv
  /\ AckedKept

-----------------------------------------------------------------------------
\* The initial state satisfies the inductive invariant.
LEMMA InitIInv == Init => IInv
<1>. SUFFICES ASSUME Init PROVE IInv
  OBVIOUS
<1>. USE BoundsAssumption, NoPictureAssumption
<1>1. /\ 0 \in Versions /\ NoProfile \in Profiles
      /\ \A p \in Pods : /\ Idle(p).pc = "idle" /\ Idle(p).profile = NoProfile
                         /\ Idle(p).served = NoPicture
      /\ \A r \in Requests : \E p \in Pods : req[r] = Idle(p)
  BY SMTT(20) DEF Init, Versions, NoProfile, Profiles, Idle
<1>2. TypeOK
  <2>1. \A p \in Pods : Idle(p) \in [pc : Steps, pod : Pods,
                           path : Pictures \cup {NoPicture}, old : Versions,
                           profile : Profiles, served : Pictures \cup {NoPicture}]
    BY <1>1 DEF Idle, Steps
  <2>2. caching \in [Pods -> BOOLEAN]
    BY DEF Init
  <2>3. req \in [Requests -> [pc : Steps, pod : Pods,
                           path : Pictures \cup {NoPicture}, old : Versions,
                           profile : Profiles, served : Pictures \cup {NoPicture}]]
    BY <2>1, SMTT(20) DEF Init
  <2>4. /\ row \in Profiles /\ uploads \in 0 .. MaxUploads /\ faults \in 0 .. MaxFaults
        /\ cache \in [Versions -> Pictures \cup {NoPicture}]
        /\ files \in [Pods -> SUBSET Pictures]
        /\ acked \subseteq Pictures /\ lateUpdates \subseteq Pictures /\ lateSets \subseteq Profiles
    BY <1>1, SMTT(20) DEF Init
  <2>5. crossed \in BOOLEAN
    BY DEF Init
  <2>. QED
    BY <2>2, <2>3, <2>4, <2>5 DEF TypeOK
<1>3. PathInv /\ AckedKept
  BY <1>1 DEF Init, PathInv, UnderWay, AckedKept
<1>4. CountInv
  <2>1. PathsToUpdate = {}
    BY SMTT(20) DEF Init, PathsToUpdate
  <2>. QED
    BY <2>1, FS_EmptySet, SMTT(20) DEF Init, CountInv, NoProfile
<1>5. Known \subseteq {NoProfile}
  <2>1. row = NoProfile /\ lateSets = {} /\ \A r \in Requests : req[r].profile = NoProfile
    BY <1>1 DEF Init
  <2>. QED
    BY <2>1 DEF Known
<1>6. VersionInv
  BY <1>5, SMTT(20) DEF Init, VersionInv, NoProfile
<1>7. AgreeInv
  <2>1. KnownInv
    <3>1. NoProfile.version = 0 /\ NoProfile.path = NoPicture /\ cache[0] = NoPicture
      BY <1>1 DEF Init, NoProfile
    <3>. QED
      BY <1>5, <3>1 DEF KnownInv
  <2>2. OwnInv /\ ServesRow
    <3>1. \A r \in Requests : req[r].pc = "idle" /\ req[r].served = NoPicture
      BY <1>1
    <3>. QED
      BY <3>1 DEF OwnInv, ServesRow, At, UnderWay, Requests
  <2>. QED
    BY <2>1, <2>2 DEF AgreeInv
<1>. QED
  BY <1>2, <1>3, <1>4, <1>6, <1>7 DEF IInv

-----------------------------------------------------------------------------
(* Types.                                                                  *)

\* What a request keeps.
Locals == [pc : Steps, pod : Pods, path : Pictures \cup {NoPicture}, old : Versions,
           profile : Profiles, served : Pictures \cup {NoPicture}]

\* The paths of pending UPDATEs are finitely many, and one that is about to be
\* carried out is among them.
LEMMA PendingUpdates ==
  ASSUME TypeOK, PathInv, CountInv
  PROVE  /\ IsFiniteSet(PathsToUpdate) /\ Cardinality(PathsToUpdate) \in Nat
         /\ \A r \in Requests : At(r, "update") =>
              /\ req[r].path \in PathsToUpdate
              /\ row.version + 1 <= uploads
         /\ \A n \in lateUpdates : n \in PathsToUpdate /\ row.version + 1 <= uploads
<1>1. IsFiniteSet(PathsToUpdate) /\ Cardinality(PathsToUpdate) \in Nat
  <2>1. IsFiniteSet(1 .. uploads)
    BY FS_Interval, SMTT(20) DEF TypeOK
  <2>2. PathsToUpdate \subseteq 1 .. uploads
    BY DEF PathsToUpdate
  <2>. QED
    BY <2>1, <2>2, FS_Subset, FS_CardinalityType
<1>2. ASSUME NEW n \in PathsToUpdate PROVE row.version + 1 <= uploads
  <2>1. Cardinality(PathsToUpdate) # 0
    BY <1>1, FS_EmptySet
  <2>2. row.version \in Nat /\ uploads \in Nat
    BY BoundsAssumption, SMTT(20) DEF TypeOK, Profiles, Versions
  <2>. QED
    BY <1>1, <2>1, <2>2, SMTT(20) DEF CountInv
<1>3. \A r \in Requests : At(r, "update") => req[r].path \in PathsToUpdate
  BY DEF At, PathInv, UnderWay, PathsToUpdate, ToUpdate
<1>4. \A n \in lateUpdates : n \in PathsToUpdate
  BY DEF PathInv, PathsToUpdate
<1>. QED
  BY <1>1, <1>2, <1>3, <1>4

\* The locals of a request.
LEMMA LocalsTyped ==
  ASSUME TypeOK, NEW r \in Requests
  PROVE  /\ req \in [Requests -> Locals]
         /\ req[r].path \in Pictures \cup {NoPicture} /\ req[r].pod \in Pods
         /\ req[r].old \in Versions /\ req[r].profile \in Profiles
         /\ req[r].profile.version \in Versions
         /\ req[r].profile.path \in Pictures \cup {NoPicture}
<1>1. req \in [Requests -> Locals]
  BY DEF TypeOK, Locals
<1>2. req[r] \in Locals
  BY <1>1
<1>3. /\ req[r].path \in Pictures \cup {NoPicture} /\ req[r].pod \in Pods
      /\ req[r].old \in Versions /\ req[r].profile \in Profiles
  BY <1>2 DEF Locals
<1>4. req[r].profile.version \in Versions /\ req[r].profile.path \in Pictures \cup {NoPicture}
  BY <1>3 DEF Profiles
<1>. QED
  BY <1>1, <1>3, <1>4

\* A request that ends forgets its locals.
LEMMA EndsFields ==
  ASSUME TypeOK, NEW r \in Requests, Ends(r)
  PROVE  /\ \A s \in Requests \ {r} : req'[s] = req[s]
         /\ req'[r].pc = "idle" /\ req'[r].pod = req[r].pod
         /\ req'[r].profile = NoProfile /\ req'[r].served = NoPicture
         /\ req' \in [Requests -> Locals]
<1>1. req \in [Requests -> Locals] /\ req[r].pod \in Pods
  BY LocalsTyped
<1>2. 0 \in Versions /\ NoProfile \in Profiles
  BY BoundsAssumption, SMTT(20) DEF Versions, Profiles, NoProfile
<1>3. Idle(req[r].pod) \in Locals
  BY <1>1, <1>2 DEF Idle, Locals, Steps
<1>. QED
  BY <1>1, <1>3 DEF Ends, Idle

\* A request that goes on keeps all but its place.
LEMMA GotoFields ==
  ASSUME TypeOK, NEW r \in Requests, NEW step \in Steps, Goto(r, step)
  PROVE  /\ \A s \in Requests \ {r} : req'[s] = req[s]
         /\ req'[r].pc = step /\ req'[r].pod = req[r].pod /\ req'[r].path = req[r].path
         /\ req'[r].profile = req[r].profile /\ req'[r].served = req[r].served
         /\ req' \in [Requests -> Locals]
BY LocalsTyped DEF Goto, Locals

\* A read that is answered keeps its profile.
LEMMA ServeFields ==
  ASSUME TypeOK, NEW r \in Requests, NEW n \in Pictures \cup {NoPicture}, Serve(r, n)
  PROVE  /\ \A s \in Requests \ {r} : req'[s] = req[s]
         /\ req'[r].pc = "idle" /\ req'[r].profile = req[r].profile /\ req'[r].served = n
         /\ req' \in [Requests -> Locals]
<1>1. "idle" \in Steps
  BY DEF Steps
<1>. QED
  BY <1>1, LocalsTyped DEF Serve, Locals

\* A read under way goes on, is answered or ends; an answer is what the cache or the
\* profile says.
LEMMA ReadFields ==
  ASSUME TypeOK, NEW r \in Requests, GetCached(r) \/ ReadFile(r) \/ SaveRead(r)
  PROVE  /\ \A s \in Requests \ {r} : req'[s] = req[s]
         /\ req'[r].pc \in {"idle", "readFile", "saveRead"}
         /\ req'[r].profile \in {req[r].profile, NoProfile}
         /\ \/ req'[r].served = NoPicture
            \/ /\ req'[r].profile = req[r].profile
               /\ req'[r].served \in {req[r].served, req[r].profile.path,
                                      cache[req[r].profile.version]}
<1>1. /\ cache[req[r].profile.version] \in Pictures \cup {NoPicture}
      /\ req[r].profile.path \in Pictures \cup {NoPicture}
  BY LocalsTyped DEF TypeOK
<1>2. CASE Ends(r)
  BY <1>2, EndsFields
<1>3. CASE \E step \in {"readFile", "saveRead"} : Goto(r, step)
  BY <1>3, GotoFields DEF Steps
<1>4. CASE \E n \in {req[r].profile.path, cache[req[r].profile.version]} : Serve(r, n)
  BY <1>1, <1>4, ServeFields
<1>. QED
  BY <1>2, <1>3, <1>4 DEF GetCached, ReadFile, SaveRead

\* A Redis command and what Redis makes of it.
LEMMA SetTyped ==
  ASSUME TypeOK, NEW c \in Profiles, Set(c)
  PROVE  /\ cache' \in [Versions -> Pictures \cup {NoPicture}]
         /\ lateSets' \subseteq Profiles /\ faults' \in 0 .. MaxFaults
<1>1. c.version \in Versions /\ c.path \in Pictures \cup {NoPicture}
  BY DEF Profiles
<1>2. cache' \in [Versions -> Pictures \cup {NoPicture}] /\ lateSets' \subseteq Profiles
  BY <1>1 DEF Set, Carried, TypeOK
<1>3. faults' \in 0 .. MaxFaults
  BY BoundsAssumption, SMTT(20) DEF Set, Fault, TypeOK
<1>. QED
  BY <1>2, <1>3

\* A command names a version and a picture, or none.
LEMMA CommandTyped ==
  ASSUME TypeOK, NEW r \in Requests
  PROVE  Command(r) \in Profiles
<1>1. req[r].path \in Pictures \cup {NoPicture} /\ req[r].old \in Versions
      /\ req[r].profile.version \in Versions /\ req[r].profile.path \in Pictures \cup {NoPicture}
  BY LocalsTyped
<1>. QED
  BY <1>1, SMTT(20) DEF Command, Profiles

\* The state stays well typed: no version exceeds the uploads.
LEMMA TypeStep == TypeOK /\ PathInv /\ CountInv /\ [Next]_vars => TypeOK'
<1>. SUFFICES ASSUME TypeOK, PathInv, CountInv, [Next]_vars
              PROVE  TypeOK'
  OBVIOUS
<1>. USE BoundsAssumption DEF Fault
<1>0. \A r \in Requests : req[r].pc \in UnderWay => req[r].path \in Pictures
  BY SMTT(20) DEF PathInv, TypeOK, Pictures
<1>1. ASSUME NEW r \in Requests, ReadOld(r) PROVE TypeOK'
  <2>1. PICK p \in Pods, failed \in BOOLEAN :
          req' = [req EXCEPT ![r] = [Idle(p) EXCEPT
                    !.pc = "writeFile", !.path = uploads + 1,
                    !.old = IF failed THEN 0 ELSE row.version]]
    BY <1>1 DEF ReadOld
  <2>2. /\ uploads + 1 \in Pictures /\ uploads' \in 0 .. MaxUploads
        /\ faults' \in 0 .. MaxFaults /\ row.version \in Versions /\ 0 \in Versions
    BY <1>1, SMTT(20) DEF ReadOld, TypeOK, Pictures, Profiles, Versions
  <2>3. NoProfile \in Profiles
    BY <2>2 DEF NoProfile, Profiles
  <2>4. [Idle(p) EXCEPT !.pc = "writeFile", !.path = uploads + 1,
                        !.old = IF failed THEN 0 ELSE row.version] \in Locals
    BY <2>2, <2>3 DEF Idle, Locals, Steps
  <2>5. req' \in [Requests -> Locals]
    BY <2>1, <2>4, LocalsTyped
  <2>. QED
    BY <1>1, <2>2, <2>5 DEF ReadOld, TypeOK, Locals
<1>2. ASSUME NEW r \in Requests, WriteFile(r) PROVE TypeOK'
  <2>1. req' \in [Requests -> Locals]
    <3>1. CASE Goto(r, "update")
      BY <3>1, GotoFields DEF Steps
    <3>2. CASE Ends(r)
      BY <3>2, EndsFields
    <3>. QED
      BY <1>2, <3>1, <3>2 DEF WriteFile
  <2>2. req[r].path \in Pictures /\ req[r].pod \in Pods
    BY <1>0, <1>2, LocalsTyped DEF WriteFile, UnderWay, At
  <2>3. files' \in [Pods -> SUBSET Pictures] /\ faults' \in 0 .. MaxFaults
    BY <1>2, <2>2, SMTT(20) DEF WriteFile, TypeOK
  <2>. QED
    BY <1>2, <2>1, <2>3 DEF WriteFile, TypeOK, Locals
<1>3. ASSUME NEW r \in Requests, Update(r) \/ UpdateFails(r) PROVE TypeOK'
  <2>0. req[r].path \in Pictures
    BY <1>0, <1>3 DEF Update, UpdateFails, UnderWay, At
  <2>1. req' \in [Requests -> Locals]
    <3>1. CASE Goto(r, "select")
      BY <3>1, GotoFields DEF Steps
    <3>2. CASE Ends(r)
      BY <3>2, EndsFields
    <3>. QED
      BY <1>3, <3>1, <3>2 DEF Update, UpdateFails
  <2>2. row.version + 1 \in Versions
    <3>1. row.version + 1 <= uploads
      BY <1>3, PendingUpdates DEF Update, UpdateFails
    <3>. QED
      BY <3>1, SMTT(20) DEF TypeOK, Profiles, Versions
  <2>3. row' \in Profiles
    BY <1>3, <2>0, <2>2, SMTT(20) DEF Update, UpdateFails, Updated, TypeOK, Profiles
  <2>4. crossed' \in BOOLEAN
    BY <1>3 DEF Update, UpdateFails, Crosses, TypeOK
  <2>5. /\ files' \in [Pods -> SUBSET Pictures] /\ faults' \in 0 .. MaxFaults
        /\ UNCHANGED <<cache, lateSets, uploads, acked, caching>>
    BY <1>3, SMTT(20) DEF Update, UpdateFails, Remove, TypeOK
  <2>6. lateUpdates' \subseteq Pictures
    BY <1>3, <2>0 DEF Update, UpdateFails, TypeOK
  <2>. QED
    BY <2>1, <2>3, <2>4, <2>5, <2>6 DEF TypeOK, Locals
<1>4. ASSUME NEW r \in Requests, Select(r) PROVE TypeOK'
  <2>1. req[r].path \in Pictures
    BY <1>0, <1>4 DEF Select, UnderWay, At
  <2>2. req' \in [Requests -> Locals]
    <3>1. CASE Ends(r)
      BY <3>1, EndsFields
    <3>2. ASSUME NEW step \in {"dropOld", "save"},
                 req' = [req EXCEPT ![r].profile = row, ![r].pc = step]
          PROVE  req' \in [Requests -> Locals]
      <4>1. step \in Steps /\ row \in Profiles
        BY DEF Steps, TypeOK
      <4>. QED
        BY <3>2, <4>1, LocalsTyped DEF Locals
    <3>. QED
      BY <1>4, <3>1, <3>2 DEF Select
  <2>3. acked' \subseteq Pictures
    BY <1>4, <2>1 DEF Select, Ack, TypeOK
  <2>. QED
    BY <1>4, <2>2, <2>3 DEF Select, TypeOK, Locals
<1>5. ASSUME NEW r \in Requests, SelectFails(r) PROVE TypeOK'
  <2>1. req' \in [Requests -> Locals]
    BY <1>5, EndsFields DEF SelectFails
  <2>2. files' \in [Pods -> SUBSET Pictures] /\ faults' \in 0 .. MaxFaults
    BY <1>5, SMTT(20) DEF SelectFails, Remove, TypeOK
  <2>. QED
    BY <1>5, <2>1, <2>2 DEF SelectFails, TypeOK, Locals
<1>6. ASSUME NEW r \in Requests, DropOld(r) PROVE TypeOK'
  <2>1. req' \in [Requests -> Locals]
    BY <1>6, GotoFields DEF DropOld, Steps
  <2>. QED
    BY <1>6, <2>1, CommandTyped, SetTyped DEF DropOld, TypeOK, Locals
<1>7. ASSUME NEW r \in Requests, Save(r) PROVE TypeOK'
  <2>1. req' \in [Requests -> Locals]
    BY <1>7, EndsFields DEF Save
  <2>2. acked' \subseteq Pictures
    BY <1>0, <1>7 DEF Save, Ack, TypeOK, UnderWay, At
  <2>. QED
    BY <1>7, <2>1, <2>2, CommandTyped, SetTyped DEF Save, TypeOK, Locals
<1>8. ASSUME NEW r \in Requests, GetProfile(r) PROVE TypeOK'
  <2>1. PICK p \in Pods, pc \in Steps :
          req' = [req EXCEPT ![r] = [Idle(p) EXCEPT !.profile = row, !.pc = pc]]
    BY <1>8 DEF GetProfile, Steps
  <2>2. row \in Profiles /\ 0 \in Versions
    BY SMTT(20) DEF TypeOK, Versions
  <2>3. [Idle(p) EXCEPT !.profile = row, !.pc = pc] \in Locals
    BY <2>2 DEF Idle, Locals
  <2>4. req' \in [Requests -> Locals]
    BY <2>1, <2>3, LocalsTyped
  <2>. QED
    BY <1>8, <2>4 DEF GetProfile, TypeOK, Locals
<1>9. ASSUME NEW r \in Requests, GetCached(r) \/ ReadFile(r) PROVE TypeOK'
  <2>1. /\ cache[req[r].profile.version] \in Pictures \cup {NoPicture}
        /\ req[r].profile.path \in Pictures \cup {NoPicture}
    BY LocalsTyped DEF TypeOK
  <2>2. req' \in [Requests -> Locals]
    <3>1. CASE Ends(r)
      BY <3>1, EndsFields
    <3>2. CASE \E step \in {"readFile", "saveRead"} : Goto(r, step)
      BY <3>2, GotoFields DEF Steps
    <3>3. CASE \E n \in Pictures \cup {NoPicture} : Serve(r, n)
      BY <3>3, ServeFields
    <3>. QED
      BY <1>9, <2>1, <3>1, <3>2, <3>3 DEF GetCached, ReadFile
  <2>3. faults' \in 0 .. MaxFaults
    BY <1>9, SMTT(20) DEF GetCached, ReadFile, TypeOK
  <2>4. UNCHANGED <<row, cache, files, lateUpdates, lateSets, uploads, acked, caching, crossed>>
    BY <1>9 DEF GetCached, ReadFile
  <2>. QED
    BY <2>2, <2>3, <2>4 DEF TypeOK, Locals
<1>10. ASSUME NEW r \in Requests, SaveRead(r) PROVE TypeOK'
  <2>1. req' \in [Requests -> Locals]
    BY <1>10, LocalsTyped, ServeFields DEF SaveRead
  <2>. QED
    BY <1>10, <2>1, CommandTyped, SetTyped DEF SaveRead, TypeOK, Locals
<1>11. CASE LateUpdate
  <2>1. PICK n \in lateUpdates : row' = Updated(n) /\ lateUpdates' = lateUpdates \ {n}
    BY <1>11 DEF LateUpdate
  <2>2. row.version + 1 <= uploads
    BY <2>1, PendingUpdates
  <2>3. row.version + 1 \in Versions /\ n \in Pictures
    BY <2>2, SMTT(20) DEF TypeOK, Profiles, Versions
  <2>4. row' \in Profiles
    BY <2>1, <2>3 DEF Updated, Profiles
  <2>5. crossed' \in BOOLEAN
    BY <1>11 DEF LateUpdate, Crosses, TypeOK
  <2>. QED
    BY <1>11, <2>1, <2>4, <2>5 DEF LateUpdate, TypeOK
<1>12. CASE LateSet
  <2>1. PICK c \in lateSets : cache' = Carried(c) /\ lateSets' = lateSets \ {c}
    BY <1>12 DEF LateSet
  <2>2. c.version \in Versions /\ c.path \in Pictures \cup {NoPicture}
    BY DEF TypeOK, Profiles
  <2>. QED
    BY <1>12, <2>1, <2>2 DEF LateSet, Carried, TypeOK
<1>13. ASSUME NEW p \in Pods, Restart(p) PROVE TypeOK'
  <2>1. 0 \in Versions /\ NoProfile \in Profiles
    BY SMTT(20) DEF Versions, Profiles, NoProfile
  <2>2. Idle(p) \in Locals
    BY <2>1 DEF Idle, Locals, Steps
  <2>3. req' \in [Requests -> Locals]
    BY <1>13, <2>2, LocalsTyped DEF Restart
  <2>4. PICK sent \in SUBSET Requests :
          /\ lateUpdates' = lateUpdates \cup {req[r].path : r \in {s \in sent : At(s, "update")}}
          /\ lateSets' = lateSets \cup {Command(r) : r \in {s \in sent : Sending(s)}}
    BY <1>13 DEF Restart
  <2>5. lateUpdates' \subseteq Pictures
    <3>1. \A r \in Requests : At(r, "update") => req[r].path \in Pictures
      BY <1>0 DEF At, UnderWay
    <3>. QED
      BY <2>4, <3>1 DEF TypeOK
  <2>8. lateSets' \subseteq Profiles
    BY <2>4, CommandTyped DEF TypeOK
  <2>6. /\ files' \in [Pods -> SUBSET Pictures] /\ acked' \subseteq Pictures
        /\ caching' \in [Pods -> BOOLEAN]
    BY <1>13 DEF Restart, TypeOK
  <2>7. faults' \in 0 .. MaxFaults
    BY <1>13, SMTT(20) DEF Restart, TypeOK
  <2>. QED
    BY <1>13, <2>3, <2>5, <2>6, <2>7, <2>8 DEF Restart, TypeOK, Locals
<1>14. CASE RedisLoses
  BY <1>14, SMTT(20) DEF RedisLoses, TypeOK
<1>15. CASE UNCHANGED vars
  BY <1>15 DEF vars, TypeOK
<1>. QED
  BY <1>1, <1>2, <1>3, <1>4, <1>5, <1>6, <1>7, <1>8, <1>9, <1>10, <1>11, <1>12, <1>13, <1>14, <1>15
  DEF Next, UploadProfilePicture, GetProfilePicture, Requests

-----------------------------------------------------------------------------
(* Paths.                                                                  *)

\* What PathInv says of one upload under way.
LEMMA PathFacts ==
  ASSUME PathInv
  PROVE  /\ lateUpdates \subseteq 1 .. uploads /\ acked \subseteq 1 .. uploads
         /\ \A r \in Requests :
              req[r].pc \in UnderWay =>
                /\ req[r].path \in 1 .. uploads /\ req[r].path \notin acked
                /\ req[r].path \notin lateUpdates
                /\ \A s \in Requests :
                     req[s].pc \in UnderWay /\ req[s].path = req[r].path => s = r
                /\ req[r].pc # "writeFile" => req[r].path \in files[req[r].pod]
BY DEF PathInv

\* Steps in which no upload begins and none is acknowledged.
LEMMA PathKept ==
  ASSUME PathInv, UNCHANGED <<uploads, acked>>,
         \A s \in Requests :
           req'[s].pc \in UnderWay =>
             /\ req[s].pc \in UnderWay
             /\ req'[s].path = req[s].path /\ req'[s].pod = req[s].pod
             /\ req'[s].pc # "writeFile" => req[s].path \in files'[req[s].pod],
         \A n \in lateUpdates' :
           \/ n \in lateUpdates
           \/ \E s \in Requests : /\ req[s].pc \in UnderWay /\ req'[s].pc \notin UnderWay
                                  /\ req[s].path = n
  PROVE  PathInv'
<1>1. lateUpdates' \subseteq 1 .. uploads' /\ acked' \subseteq 1 .. uploads'
  BY PathFacts, SMTT(20)
<1>2. ASSUME NEW r \in Requests, req'[r].pc \in UnderWay
      PROVE  /\ req'[r].path \in 1 .. uploads' /\ req'[r].path \notin acked'
             /\ req'[r].path \notin lateUpdates'
             /\ \A s \in Requests : req'[s].pc \in UnderWay /\ req'[s].path = req'[r].path => s = r
             /\ req'[r].pc # "writeFile" => req'[r].path \in files'[req'[r].pod]
  <2>1. /\ req[r].pc \in UnderWay /\ req'[r].path = req[r].path /\ req'[r].pod = req[r].pod
        /\ req'[r].pc # "writeFile" => req[r].path \in files'[req[r].pod]
    BY <1>2
  <2>2. /\ req[r].path \in 1 .. uploads /\ req[r].path \notin acked
        /\ req[r].path \notin lateUpdates
        /\ \A s \in Requests : req[s].pc \in UnderWay /\ req[s].path = req[r].path => s = r
    BY <2>1, PathFacts
  <2>3. req[r].path \notin lateUpdates'
    BY <1>2, <2>2
  <2>. QED
    BY <1>2, <2>1, <2>2, <2>3
<1>. QED
  BY <1>1, <1>2 DEF PathInv

\* A file is written for an upload under way, or is not.
LEMMA WriteKeepsPaths ==
  ASSUME TypeOK, PathInv, AckedKept, NEW r \in Requests, WriteFile(r)
  PROVE  PathInv' /\ AckedKept'
<1>1. /\ req[r].pc = "writeFile" /\ UNCHANGED <<uploads, acked, lateUpdates>>
      /\ \A s \in Requests : req[s].pod \in Pods
      /\ files \in [Pods -> SUBSET Pictures]
  BY LocalsTyped DEF WriteFile, At, TypeOK
<1>2. CASE /\ files' = [files EXCEPT ![req[r].pod] = @ \cup {req[r].path}]
           /\ Goto(r, "update")
  <2>1. /\ \A p \in Pods : files[p] \subseteq files'[p]
        /\ req[r].path \in files'[req[r].pod]
    BY <1>1, <1>2
  <2>2. /\ \A s \in Requests \ {r} : req'[s] = req[s]
        /\ req'[r].path = req[r].path /\ req'[r].pod = req[r].pod
    BY <1>2, GotoFields DEF Steps
  <2>3. PathInv'
    <3>1. ASSUME NEW s \in Requests, req'[s].pc \in UnderWay
          PROVE  /\ req[s].pc \in UnderWay
                 /\ req'[s].path = req[s].path /\ req'[s].pod = req[s].pod
                 /\ req'[s].pc # "writeFile" => req[s].path \in files'[req[s].pod]
      <4>1. CASE s = r
        BY <1>1, <2>1, <2>2, <4>1 DEF UnderWay
      <4>2. CASE s # r
        <5>1. req[s].pc # "writeFile" => req[s].path \in files[req[s].pod]
          BY <2>2, <3>1, <4>2 DEF PathInv
        <5>. QED
          BY <1>1, <2>1, <2>2, <3>1, <4>2, <5>1
      <4>. QED
        BY <4>1, <4>2
    <3>. QED
      BY <1>1, <3>1, PathKept
  <2>. QED
    BY <1>1, <2>1, <2>3 DEF AckedKept
<1>3. CASE files' = files /\ Ends(r)
  <2>1. \A s \in Requests : req'[s].pc \in UnderWay => s # r /\ req'[s] = req[s]
    BY <1>3, EndsFields DEF UnderWay
  <2>2. PathInv'
    <3>1. \A s \in Requests :
            req[s].pc \in UnderWay /\ req[s].pc # "writeFile" => req[s].path \in files[req[s].pod]
      BY DEF PathInv
    <3>. QED
      BY <1>1, <1>3, <2>1, <3>1, PathKept
  <2>. QED
    BY <1>1, <1>3, <2>2 DEF AckedKept
<1>. QED
  BY <1>2, <1>3 DEF WriteFile

\* An upload fails and removes its file; its UPDATE may be left for later.
LEMMA RemoveKeepsPaths ==
  ASSUME TypeOK, PathInv, AckedKept, NEW r \in Requests, req[r].pc \in UnderWay,
         Remove(r), Ends(r), UNCHANGED <<uploads, acked>>,
         lateUpdates' \subseteq lateUpdates \cup {req[r].path}
  PROVE  PathInv' /\ AckedKept'
<1>1. /\ \A s \in Requests : req[s].pod \in Pods
      /\ files \in [Pods -> SUBSET Pictures] /\ "idle" \notin UnderWay
  BY LocalsTyped DEF TypeOK, UnderWay
<1>2. \A p \in Pods : \A n \in files[p] : n # req[r].path => n \in files'[p]
  BY <1>1 DEF Remove
<1>3. req[r].path \notin acked /\ \A s \in Requests :
        req[s].pc \in UnderWay /\ req[s].path = req[r].path => s = r
  BY DEF PathInv
<1>4. ASSUME NEW s \in Requests, req'[s].pc \in UnderWay
      PROVE  /\ req[s].pc \in UnderWay
             /\ req'[s].path = req[s].path /\ req'[s].pod = req[s].pod
             /\ req'[s].pc # "writeFile" => req[s].path \in files'[req[s].pod]
  <2>1. s # r /\ req'[s] = req[s]
    BY <1>1, <1>4, EndsFields
  <2>2. req[s].path # req[r].path
    BY <1>3, <1>4, <2>1
  <2>3. req[s].pc # "writeFile" => req[s].path \in files[req[s].pod]
    BY <1>4, <2>1 DEF PathInv
  <2>. QED
    BY <1>1, <1>2, <1>4, <2>1, <2>2, <2>3
<1>5. req'[r].pc \notin UnderWay
  BY <1>1, EndsFields
<1>. QED
  BY <1>2, <1>3, <1>4, <1>5, PathKept DEF AckedKept

\* A request that is no upload under way goes on.
LEMMA IdleKeepsPaths ==
  ASSUME TypeOK, PathInv, AckedKept, NEW r \in Requests, req'[r].pc \notin UnderWay,
         \A s \in Requests \ {r} : req'[s] = req[s],
         UNCHANGED <<files, uploads, acked, lateUpdates>>
  PROVE  PathInv' /\ AckedKept'
<1>1. \A s \in Requests :
        req'[s].pc \in UnderWay =>
          /\ req[s].pc \in UnderWay
          /\ req'[s].path = req[s].path /\ req'[s].pod = req[s].pod
          /\ req'[s].pc # "writeFile" => req[s].path \in files'[req[s].pod]
  BY DEF PathInv
<1>. QED
  BY <1>1, PathKept DEF AckedKept

\* An upload whose file is written goes on.
LEMMA PassKeepsPaths ==
  ASSUME TypeOK, PathInv, AckedKept, NEW r \in Requests,
         req[r].pc \in UnderWay \ {"writeFile"},
         req'[r].path = req[r].path, req'[r].pod = req[r].pod,
         \A s \in Requests \ {r} : req'[s] = req[s],
         UNCHANGED <<files, uploads, acked, lateUpdates>>
  PROVE  PathInv' /\ AckedKept'
<1>1. \A s \in Requests :
        req'[s].pc \in UnderWay =>
          /\ req[s].pc \in UnderWay
          /\ req'[s].path = req[s].path /\ req'[s].pod = req[s].pod
          /\ req'[s].pc # "writeFile" => req[s].path \in files'[req[s].pod]
  BY DEF PathInv
<1>. QED
  BY <1>1, PathKept DEF AckedKept

\* An upload is acknowledged.
LEMMA AckKeepsPaths ==
  ASSUME TypeOK, PathInv, AckedKept, NEW r \in Requests,
         req[r].pc \in UnderWay \ {"writeFile"}, Ack(r), Ends(r),
         UNCHANGED <<files, uploads, lateUpdates>>
  PROVE  PathInv' /\ AckedKept'
<1>1. \A s \in Requests : req'[s].pc \in UnderWay => s # r /\ req'[s] = req[s]
  BY EndsFields DEF UnderWay
<1>2. /\ req[r].path \in 1 .. uploads /\ req[r].path \in files[req[r].pod] /\ req[r].pod \in Pods
      /\ \A s \in Requests : req[s].pc \in UnderWay /\ s # r => req[s].path # req[r].path
  BY LocalsTyped DEF PathInv
<1>3. acked' = acked \cup {req[r].path}
  BY DEF Ack
<1>4. acked' \subseteq 1 .. uploads' /\ lateUpdates' \subseteq 1 .. uploads'
  BY <1>2, <1>3 DEF PathInv
<1>5. PathInv'
  BY <1>1, <1>2, <1>3, <1>4 DEF PathInv
<1>6. AckedKept'
  BY <1>2, <1>3 DEF AckedKept
<1>. QED
  BY <1>5, <1>6

\* Uploads under way keep paths of their own, and removing a file takes away no
\* acknowledged picture.
LEMMA PathStep == TypeOK /\ PathInv /\ AckedKept /\ [Next]_vars => PathInv' /\ AckedKept'
<1>. SUFFICES ASSUME TypeOK, PathInv, AckedKept, [Next]_vars
              PROVE  PathInv' /\ AckedKept'
  OBVIOUS
<1>1. ASSUME NEW r \in Requests, ReadOld(r) PROVE PathInv' /\ AckedKept'
  BY <1>1, BoundsAssumption, SMTT(20)
  DEF ReadOld, Idle, TypeOK, PathInv, AckedKept, UnderWay, At
<1>2. ASSUME NEW r \in Requests, WriteFile(r) PROVE PathInv' /\ AckedKept'
  BY <1>2, WriteKeepsPaths
<1>3. ASSUME NEW r \in Requests, Update(r) PROVE PathInv' /\ AckedKept'
  <2>1. /\ req[r].pc \in UnderWay \ {"writeFile"}
        /\ UNCHANGED <<files, uploads, acked, lateUpdates>> /\ Goto(r, "select")
    BY <1>3 DEF Update, At, UnderWay
  <2>. QED
    BY <2>1, GotoFields, PassKeepsPaths DEF Steps
<1>4. ASSUME NEW r \in Requests, UpdateFails(r) \/ SelectFails(r)
      PROVE PathInv' /\ AckedKept'
  <2>1. /\ req[r].pc \in UnderWay /\ Remove(r) /\ Ends(r) /\ UNCHANGED <<uploads, acked>>
        /\ lateUpdates' \subseteq lateUpdates \cup {req[r].path}
    BY <1>4 DEF UpdateFails, SelectFails, At, UnderWay
  <2>. QED
    BY <2>1, RemoveKeepsPaths
<1>5. ASSUME NEW r \in Requests, Select(r) PROVE PathInv' /\ AckedKept'
  <2>1. req[r].pc \in UnderWay \ {"writeFile"} /\ UNCHANGED <<files, uploads, lateUpdates>>
    BY <1>5 DEF Select, At, UnderWay
  <2>2. CASE Ack(r) /\ Ends(r)
    BY <2>1, <2>2, AckKeepsPaths
  <2>3. ASSUME UNCHANGED acked, NEW step, req' = [req EXCEPT ![r].profile = row, ![r].pc = step]
        PROVE  PathInv' /\ AckedKept'
    <3>1. /\ req'[r].path = req[r].path /\ req'[r].pod = req[r].pod
          /\ \A s \in Requests \ {r} : req'[s] = req[s]
      BY <2>3, LocalsTyped DEF Locals
    <3>. QED
      BY <2>1, <2>3, <3>1, PassKeepsPaths
  <2>. QED
    BY <1>5, <2>2, <2>3 DEF Select
<1>6. ASSUME NEW r \in Requests, DropOld(r) PROVE PathInv' /\ AckedKept'
  <2>1. /\ req[r].pc \in UnderWay \ {"writeFile"}
        /\ UNCHANGED <<files, uploads, acked, lateUpdates>> /\ Goto(r, "save")
    BY <1>6 DEF DropOld, At, UnderWay
  <2>. QED
    BY <2>1, GotoFields, PassKeepsPaths DEF Steps
<1>7. ASSUME NEW r \in Requests, Save(r) PROVE PathInv' /\ AckedKept'
  <2>1. req[r].pc \in UnderWay \ {"writeFile"} /\ UNCHANGED <<files, uploads, lateUpdates>>
    BY <1>7 DEF Save, At, UnderWay
  <2>. QED
    BY <1>7, <2>1, AckKeepsPaths DEF Save
<1>8. ASSUME NEW r \in Requests, GetProfile(r) PROVE PathInv' /\ AckedKept'
  <2>1. /\ UNCHANGED <<files, uploads, acked, lateUpdates>> /\ req'[r].pc \notin UnderWay
        /\ \A s \in Requests \ {r} : req'[s] = req[s]
    BY <1>8, SMTT(20) DEF GetProfile, Idle, TypeOK, UnderWay
  <2>. QED
    BY <2>1, IdleKeepsPaths
<1>9. ASSUME NEW r \in Requests, GetCached(r) \/ ReadFile(r) \/ SaveRead(r)
      PROVE PathInv' /\ AckedKept'
  <2>1. UNCHANGED <<files, uploads, acked, lateUpdates>>
    BY <1>9 DEF GetCached, ReadFile, SaveRead
  <2>2. req'[r].pc \notin UnderWay /\ \A s \in Requests \ {r} : req'[s] = req[s]
    BY <1>9, ReadFields DEF UnderWay
  <2>. QED
    BY <2>1, <2>2, IdleKeepsPaths
<1>10. CASE LateUpdate \/ LateSet \/ RedisLoses \/ UNCHANGED vars
  <2>1. UNCHANGED <<files, req, uploads, acked>> /\ lateUpdates' \subseteq lateUpdates
    BY <1>10 DEF LateUpdate, LateSet, RedisLoses, vars
  <2>. QED
    BY <2>1 DEF PathInv, AckedKept
<1>11. ASSUME NEW p \in Pods, Restart(p) PROVE PathInv' /\ AckedKept'
  <2>1. /\ \A s \in Requests : /\ req[s].pod = p => req'[s].pc \notin UnderWay
                               /\ req[s].pod # p => req'[s] = req[s]
        /\ acked' = acked \ files[p] /\ uploads' = uploads
        /\ \A q \in Pods : files'[q] = IF q = p THEN {} ELSE files[q]
    BY <1>11 DEF Restart, Idle, UnderWay, TypeOK
  <2>2. \A n \in lateUpdates' :
          \/ n \in lateUpdates
          \/ \E s \in Requests : req[s].pod = p /\ req[s].pc \in UnderWay /\ req[s].path = n
    BY <1>11 DEF Restart, At, UnderWay
  <2>3. acked' \subseteq 1 .. uploads' /\ lateUpdates' \subseteq 1 .. uploads'
    BY <2>1, <2>2, PathFacts, SMTT(20)
  <2>4. ASSUME NEW s \in Requests, req'[s].pc \in UnderWay
        PROVE  /\ req'[s].path \in 1 .. uploads' /\ req'[s].path \notin acked'
               /\ req'[s].path \notin lateUpdates'
               /\ \A q \in Requests : req'[q].pc \in UnderWay /\ req'[q].path = req'[s].path => q = s
               /\ req'[s].pc # "writeFile" => req'[s].path \in files'[req'[s].pod]
    <3>1. req[s].pod # p /\ req'[s] = req[s] /\ req[s].pod \in Pods
      BY <2>1, <2>4, LocalsTyped
    <3>2. /\ req[s].path \in 1 .. uploads /\ req[s].path \notin acked
          /\ req[s].path \notin lateUpdates
          /\ \A q \in Requests : req[q].pc \in UnderWay /\ req[q].path = req[s].path => q = s
          /\ req[s].pc # "writeFile" => req[s].path \in files[req[s].pod]
      BY <2>4, <3>1, PathFacts
    <3>3. req[s].path \notin lateUpdates'
      BY <2>2, <3>1, <3>2
    <3>4. \A q \in Requests : req'[q].pc \in UnderWay => req'[q] = req[q]
      BY <2>1
    <3>. QED
      BY <2>1, <3>1, <3>2, <3>3, <3>4
  <2>5. PathInv'
    BY <2>3, <2>4 DEF PathInv
  <2>6. AckedKept'
    BY <2>1 DEF AckedKept
  <2>. QED
    BY <2>5, <2>6
<1>. QED
  BY <1>1, <1>2, <1>3, <1>4, <1>5, <1>6, <1>7, <1>8, <1>9, <1>10, <1>11
  DEF Next, UploadProfilePicture, GetProfilePicture, Requests

-----------------------------------------------------------------------------
(* Versions.                                                               *)

\* An UPDATE takes a path from the pending ones and makes at most one version.
LEMMA CountUpdate ==
  ASSUME TypeOK, PathInv, CountInv, uploads' = uploads, NEW n \in PathsToUpdate,
         PathsToUpdate' \subseteq PathsToUpdate \ {n},
         row'.version \in {row.version, row.version + 1}
  PROVE  CountInv'
<1>1. IsFiniteSet(PathsToUpdate) /\ Cardinality(PathsToUpdate) \in Nat
  BY PendingUpdates
<1>2. /\ IsFiniteSet(PathsToUpdate \ {n})
      /\ Cardinality(PathsToUpdate \ {n}) = Cardinality(PathsToUpdate) - 1
  BY <1>1, FS_RemoveElement
<1>3. /\ Cardinality(PathsToUpdate') <= Cardinality(PathsToUpdate) - 1
      /\ Cardinality(PathsToUpdate') \in Nat
  BY <1>2, FS_Subset, FS_CardinalityType, SMTT(20)
<1>4. row.version \in Nat /\ uploads \in Nat
  BY BoundsAssumption, SMTT(20) DEF TypeOK, Profiles, Versions
<1>. QED
  BY <1>1, <1>3, <1>4, SMTT(20) DEF CountInv

\* No step but the start of an upload adds a pending path.
LEMMA CountOther ==
  ASSUME TypeOK, PathInv, CountInv, UNCHANGED <<row, uploads>>,
         PathsToUpdate' \subseteq PathsToUpdate
  PROVE  CountInv'
<1>1. IsFiniteSet(PathsToUpdate) /\ Cardinality(PathsToUpdate) \in Nat
  BY PendingUpdates
<1>2. Cardinality(PathsToUpdate') <= Cardinality(PathsToUpdate) /\ Cardinality(PathsToUpdate') \in Nat
  BY <1>1, FS_Subset, FS_CardinalityType
<1>3. row.version \in Nat /\ uploads \in Nat
  BY BoundsAssumption, SMTT(20) DEF TypeOK, Profiles, Versions
<1>. QED
  BY <1>1, <1>2, <1>3, SMTT(20) DEF CountInv

\* There are never more versions than uploads.
LEMMA CountStep == TypeOK /\ PathInv /\ CountInv /\ [Next]_vars => CountInv'
<1>. SUFFICES ASSUME TypeOK, PathInv, CountInv, [Next]_vars
              PROVE  CountInv'
  OBVIOUS
<1>0. ASSUME UNCHANGED <<row, uploads>>, lateUpdates' \subseteq lateUpdates,
             \A s \in Requests : ToUpdate(s)' => ToUpdate(s) /\ req'[s].path = req[s].path
      PROVE  CountInv'
  <2>1. PathsToUpdate' \subseteq PathsToUpdate
    BY <1>0 DEF PathsToUpdate
  <2>. QED
    BY <1>0, <2>1, CountOther
<1>1. ASSUME NEW r \in Requests, ReadOld(r) PROVE CountInv'
  <2>1. /\ IsFiniteSet(PathsToUpdate) /\ Cardinality(PathsToUpdate) \in Nat
    BY PendingUpdates
  <2>2. PathsToUpdate' \subseteq PathsToUpdate \cup {uploads + 1}
    <3>1. \A s \in Requests : ToUpdate(s)' =>
            \/ ToUpdate(s) /\ req'[s].path = req[s].path
            \/ req'[s].path = uploads + 1
      BY <1>1, SMTT(20) DEF ReadOld, ToUpdate, TypeOK, Idle
    <3>2. /\ \A s \in Requests : ToUpdate(s) => req[s].path \in 1 .. uploads
          /\ lateUpdates' = lateUpdates /\ lateUpdates \subseteq 1 .. uploads
      BY <1>1 DEF ToUpdate, PathInv, UnderWay, ReadOld
    <3>3. ASSUME NEW n \in PathsToUpdate' PROVE n \in PathsToUpdate \cup {uploads + 1}
      <4>1. n \in lateUpdates \/ \E s \in Requests : ToUpdate(s)' /\ req'[s].path = n
        BY <3>2, <3>3 DEF PathsToUpdate
      <4>2. CASE n \in lateUpdates
        BY <3>2, <4>2 DEF PathsToUpdate
      <4>3. ASSUME NEW s \in Requests, ToUpdate(s)', req'[s].path = n
            PROVE  n \in PathsToUpdate \cup {uploads + 1}
        <5>1. CASE ToUpdate(s) /\ req'[s].path = req[s].path
          <6>1. req[s].path = n /\ n \in 1 .. uploads
            BY <3>2, <4>3, <5>1
          <6>. QED
            BY <5>1, <6>1 DEF PathsToUpdate
        <5>2. CASE req'[s].path = uploads + 1
          BY <4>3, <5>2
        <5>. QED
          BY <3>1, <4>3, <5>1, <5>2
      <4>. QED
        BY <4>1, <4>2, <4>3
    <3>. QED
      BY <3>3
  <2>3. uploads + 1 \notin PathsToUpdate
    BY BoundsAssumption, SMTT(20) DEF PathsToUpdate, TypeOK
  <2>4. /\ IsFiniteSet(PathsToUpdate \cup {uploads + 1})
        /\ Cardinality(PathsToUpdate \cup {uploads + 1}) = Cardinality(PathsToUpdate) + 1
    BY <2>1, <2>3, FS_AddElement
  <2>5. /\ Cardinality(PathsToUpdate') <= Cardinality(PathsToUpdate) + 1
        /\ Cardinality(PathsToUpdate') \in Nat
    BY <2>2, <2>4, FS_Subset, FS_CardinalityType, SMTT(20)
  <2>6. row.version \in Nat /\ uploads \in Nat /\ uploads' = uploads + 1 /\ row' = row
    BY <1>1, BoundsAssumption, SMTT(20) DEF ReadOld, TypeOK, Profiles, Versions
  <2>. QED
    BY <2>1, <2>5, <2>6, SMTT(20) DEF CountInv
<1>2. ASSUME NEW r \in Requests, Update(r) \/ UpdateFails(r) PROVE CountInv'
  <2>1. /\ At(r, "update") /\ uploads' = uploads
        /\ lateUpdates' \subseteq lateUpdates \cup {req[r].path}
    BY <1>2 DEF Update, UpdateFails
  <2>2. /\ \A s \in Requests \ {r} : req'[s] = req[s]
        /\ req'[r].pc \in {"select", "idle"}
    BY <1>2, GotoFields, EndsFields DEF Update, UpdateFails, Steps
  <2>3. req[r].path \in PathsToUpdate /\ ToUpdate(r)
    BY <2>1, PendingUpdates DEF At, ToUpdate
  <2>4. \A s \in Requests : ToUpdate(s)' => s # r /\ req'[s] = req[s]
    BY <2>2 DEF ToUpdate
  <2>5. CASE UNCHANGED row
    <3>1. PathsToUpdate' \subseteq PathsToUpdate
      <4>1. ASSUME NEW n \in PathsToUpdate' PROVE n \in PathsToUpdate
        <5>1. n \in 1 .. uploads
          BY <2>1, <4>1 DEF PathsToUpdate
        <5>2. CASE n \in lateUpdates'
          BY <2>1, <2>3, <5>1, <5>2 DEF PathsToUpdate
        <5>3. CASE \E s \in Requests : ToUpdate(s)' /\ req'[s].path = n
          BY <2>4, <5>1, <5>3 DEF PathsToUpdate, ToUpdate
        <5>. QED
          BY <4>1, <5>2, <5>3 DEF PathsToUpdate
      <4>. QED
        BY <4>1
    <3>. QED
      BY <2>1, <2>5, <3>1, CountOther
  <2>6. CASE row' = Updated(req[r].path) /\ UNCHANGED lateUpdates
    <3>1. PathsToUpdate' \subseteq PathsToUpdate \ {req[r].path}
      <4>1. \A s \in Requests : s # r /\ ToUpdate(s) => req[s].path # req[r].path
        BY <2>3 DEF PathInv, ToUpdate, UnderWay
      <4>2. req[r].path \notin lateUpdates
        BY <2>3 DEF PathInv, ToUpdate, UnderWay
      <4>. QED
        BY <2>1, <2>4, <2>6, <4>1, <4>2 DEF PathsToUpdate, ToUpdate
    <3>. QED
      BY <2>1, <2>3, <2>6, <3>1, CountUpdate DEF Updated
  <2>. QED
    BY <1>2, <2>5, <2>6 DEF Update, UpdateFails
<1>3. CASE LateUpdate
  <2>1. PICK n \in lateUpdates : row' = Updated(n) /\ lateUpdates' = lateUpdates \ {n}
    BY <1>3 DEF LateUpdate
  <2>2. UNCHANGED <<req, uploads>> /\ n \in PathsToUpdate
    BY <1>3, PendingUpdates DEF LateUpdate
  <2>3. \A s \in Requests : ToUpdate(s) => req[s].path # n
    BY DEF PathInv, ToUpdate, UnderWay
  <2>4. PathsToUpdate' \subseteq PathsToUpdate \ {n}
    BY <2>1, <2>2, <2>3 DEF PathsToUpdate, ToUpdate
  <2>. QED
    BY <2>1, <2>2, <2>4, CountUpdate DEF Updated
<1>4. ASSUME NEW r \in Requests, WriteFile(r) PROVE CountInv'
  <2>1. ToUpdate(r) /\ UNCHANGED <<row, uploads, lateUpdates>>
    BY <1>4 DEF WriteFile, At, ToUpdate
  <2>2. CASE Goto(r, "update")
    BY <1>0, <2>1, <2>2, GotoFields DEF Steps, ToUpdate
  <2>3. CASE Ends(r)
    BY <1>0, <2>1, <2>3, EndsFields DEF ToUpdate
  <2>. QED
    BY <1>4, <2>2, <2>3 DEF WriteFile
<1>5. ASSUME NEW r \in Requests, UNCHANGED <<row, uploads, lateUpdates>>,
             req'[r].pc \notin {"writeFile", "update"},
             \A s \in Requests \ {r} : req'[s] = req[s]
      PROVE  CountInv'
  BY <1>0, <1>5 DEF ToUpdate
<1>6. ASSUME NEW r \in Requests, Select(r) PROVE CountInv'
  <2>1. UNCHANGED <<row, uploads, lateUpdates>>
    BY <1>6 DEF Select
  <2>2. CASE Ends(r)
    BY <1>5, <2>1, <2>2, EndsFields
  <2>3. ASSUME NEW step \in {"dropOld", "save"}, req' = [req EXCEPT ![r].profile = row, ![r].pc = step]
        PROVE  CountInv'
    <3>1. req'[r].pc = step /\ \A s \in Requests \ {r} : req'[s] = req[s]
      BY <2>3, LocalsTyped DEF Locals
    <3>. QED
      BY <1>5, <2>1, <3>1
  <2>. QED
    BY <1>6, <2>2, <2>3 DEF Select
<1>7. ASSUME NEW r \in Requests, SelectFails(r) \/ DropOld(r) \/ Save(r) PROVE CountInv'
  <2>1. UNCHANGED <<row, uploads, lateUpdates>> /\ (Ends(r) \/ Goto(r, "save"))
    BY <1>7 DEF SelectFails, DropOld, Save
  <2>2. CASE Ends(r)
    BY <1>5, <2>1, <2>2, EndsFields
  <2>3. CASE Goto(r, "save")
    BY <1>5, <2>1, <2>3, GotoFields DEF Steps
  <2>. QED
    BY <2>1, <2>2, <2>3
<1>8. ASSUME NEW r \in Requests, GetProfile(r) PROVE CountInv'
  <2>1. /\ UNCHANGED <<row, uploads, lateUpdates>> /\ req'[r].pc \notin {"writeFile", "update"}
        /\ \A s \in Requests \ {r} : req'[s] = req[s]
    BY <1>8, SMTT(20) DEF GetProfile, Idle, TypeOK
  <2>. QED
    BY <1>5, <2>1
<1>9. ASSUME NEW r \in Requests, GetCached(r) \/ ReadFile(r) \/ SaveRead(r) PROVE CountInv'
  <2>1. UNCHANGED <<row, uploads, lateUpdates>>
    BY <1>9 DEF GetCached, ReadFile, SaveRead
  <2>. QED
    BY <1>5, <1>9, <2>1, ReadFields
<1>10. ASSUME NEW p \in Pods, Restart(p) PROVE CountInv'
  <2>1. /\ UNCHANGED <<row, uploads>>
        /\ \A s \in Requests : ToUpdate(s)' => req'[s] = req[s]
        /\ \A n \in lateUpdates' :
             n \in lateUpdates \/ \E s \in Requests : ToUpdate(s) /\ req[s].path = n
    BY <1>10 DEF Restart, Idle, ToUpdate, At, TypeOK
  <2>2. PathsToUpdate' \subseteq PathsToUpdate
    BY <2>1 DEF PathsToUpdate, ToUpdate
  <2>. QED
    BY <2>1, <2>2, CountOther
<1>11. CASE LateSet \/ RedisLoses \/ UNCHANGED vars
  BY <1>0, <1>11 DEF LateSet, RedisLoses, vars, ToUpdate
<1>. QED
  BY <1>1, <1>2, <1>3, <1>4, <1>6, <1>7, <1>8, <1>9, <1>10, <1>11
  DEF Next, UploadProfilePicture, GetProfilePicture, Requests

-----------------------------------------------------------------------------
(* What is known of a version.                                             *)

\* What is known, and what requests are about to tell Redis.
Said == Known \cup {NoProfile}
        \cup {Command(r) : r \in {s \in Requests : Sending(s) /\ Command(s).path # NoPicture}}

\* A step that leaves the row alone: what is known, and what the cache holds, was
\* known, cached or about to be sent before.
Quiet ==
  /\ UNCHANGED row
  /\ Known' \subseteq Said
  /\ \A v \in Versions :
       \/ cache'[v] \in {cache[v], NoPicture}
       \/ \E k \in Said : k.version = v /\ k.path = cache'[v]

\* A step that makes a version.
Advance ==
  /\ row'.version = row.version + 1
  /\ Known' \subseteq Said \cup {row'}
  /\ UNCHANGED cache

\* Versions that are selected, or named in a command, are keys of the cache.
LEMMA VersionsTyped ==
  ASSUME TypeOK
  PROVE  /\ row.version \in Versions /\ 0 \in Versions /\ Versions \subseteq Nat
         /\ \A k \in Said : k.version \in Versions
         /\ \A k \in Known : k.version \in Versions
<1>1. row.version \in Versions /\ 0 \in Versions /\ Versions \subseteq Nat
  BY BoundsAssumption, SMTT(20) DEF TypeOK, Profiles, Versions
<1>2. \A r \in Requests : req[r].profile \in Profiles /\ Command(r) \in Profiles
  BY LocalsTyped, CommandTyped
<1>3. NoProfile \in Profiles /\ row \in Profiles /\ lateSets \subseteq Profiles
  BY <1>1 DEF NoProfile, Profiles, TypeOK
<1>4. Known \subseteq Profiles
  BY <1>2, <1>3 DEF Known
<1>5. Said \subseteq Profiles
  BY <1>2, <1>3, <1>4 DEF Said
<1>6. \A k \in Profiles : k.version \in Versions
  BY DEF Profiles
<1>. QED
  BY <1>1, <1>4, <1>5, <1>6

\* A request selects the row, or ends, or goes on.
LEMMA LocalsQuiet ==
  ASSUME UNCHANGED <<row, cache, lateSets>>,
         \A s \in Requests : req'[s].profile \in {req[s].profile, NoProfile, row}
  PROVE  Quiet
<1>1. Known' \subseteq Said
  BY DEF Known, Said
<1>. QED
  BY <1>1 DEF Quiet

\* A request sends its Redis command.
LEMMA SetQuiet ==
  ASSUME TypeOK, NEW r \in Requests, Sending(r), Set(Command(r)), UNCHANGED row,
         \A s \in Requests : req'[s].profile \in {req[s].profile, NoProfile}
  PROVE  Quiet
<1>1. Command(r).version \in Versions /\ cache \in [Versions -> Pictures \cup {NoPicture}]
  BY CommandTyped DEF Profiles, TypeOK
<1>2. Command(r).path # NoPicture => Command(r) \in Said
  BY DEF Said
<1>3. Known' \subseteq Said
  <2>1. lateSets' \subseteq lateSets \cup {Command(r)}
    BY DEF Set
  <2>. QED
    BY <1>2, <2>1 DEF Known, Said
<1>4. ASSUME NEW v \in Versions
      PROVE  \/ cache'[v] \in {cache[v], NoPicture}
             \/ \E k \in Said : k.version = v /\ k.path = cache'[v]
  <2>1. CASE cache' = cache
    BY <2>1
  <2>2. CASE cache' = Carried(Command(r))
    <3>1. cache'[v] = IF v = Command(r).version THEN Command(r).path ELSE cache[v]
      BY <1>1, <2>2 DEF Carried
    <3>. QED
      BY <1>2, <3>1
  <2>. QED
    BY <2>1, <2>2 DEF Set
<1>. QED
  BY <1>3, <1>4 DEF Quiet

\* Every step makes a version of which nothing was said, or none.
LEMMA StepKnown ==
  ASSUME TypeOK, [Next]_vars
  PROVE  Quiet \/ Advance
<1>1. ASSUME NEW r \in Requests, ReadOld(r) PROVE Quiet
  <2>1. \A s \in Requests : req'[s].profile \in {req[s].profile, NoProfile}
    BY <1>1, SMTT(20) DEF ReadOld, Idle, TypeOK
  <2>. QED
    BY <1>1, <2>1, LocalsQuiet DEF ReadOld
<1>2. ASSUME NEW r \in Requests, Ends(r) \/ \E step \in Steps : Goto(r, step)
      PROVE  \A s \in Requests : req'[s].profile \in {req[s].profile, NoProfile}
  BY <1>2, EndsFields, GotoFields
<1>3. ASSUME NEW r \in Requests, WriteFile(r) \/ SelectFails(r) PROVE Quiet
  <2>1. UNCHANGED <<row, cache, lateSets>> /\ (Ends(r) \/ Goto(r, "update"))
    BY <1>3 DEF WriteFile, SelectFails
  <2>. QED
    BY <1>2, <2>1, LocalsQuiet DEF Steps
<1>4. ASSUME NEW n, row' = Updated(n), UNCHANGED <<cache, lateSets>>,
             \A s \in Requests : req'[s].profile \in {req[s].profile, NoProfile}
      PROVE  Advance
  BY <1>4 DEF Advance, Updated, Known, Said
<1>5. ASSUME NEW r \in Requests, Update(r) \/ UpdateFails(r) PROVE Quiet \/ Advance
  <2>1. UNCHANGED <<cache, lateSets>> /\ (Ends(r) \/ Goto(r, "select"))
    BY <1>5 DEF Update, UpdateFails
  <2>2. \A s \in Requests : req'[s].profile \in {req[s].profile, NoProfile}
    BY <1>2, <2>1 DEF Steps
  <2>3. row' = row \/ row' = Updated(req[r].path)
    BY <1>5 DEF Update, UpdateFails
  <2>. QED
    BY <1>4, <2>1, <2>2, <2>3, LocalsQuiet
<1>6. ASSUME NEW r \in Requests, Select(r) PROVE Quiet
  <2>1. UNCHANGED <<row, cache, lateSets>>
    BY <1>6 DEF Select
  <2>2. CASE Ends(r)
    BY <1>2, <2>1, <2>2, LocalsQuiet
  <2>3. ASSUME NEW step, req' = [req EXCEPT ![r].profile = row, ![r].pc = step] PROVE Quiet
    <3>1. req'[r].profile = row /\ \A s \in Requests \ {r} : req'[s] = req[s]
      BY <2>3, LocalsTyped DEF Locals
    <3>. QED
      BY <2>1, <3>1, LocalsQuiet
  <2>. QED
    BY <1>6, <2>2, <2>3 DEF Select
<1>7. ASSUME NEW r \in Requests, DropOld(r) \/ Save(r) PROVE Quiet
  <2>1. /\ Sending(r) /\ Set(Command(r)) /\ UNCHANGED row
        /\ Ends(r) \/ Goto(r, "save")
    BY <1>7 DEF DropOld, Save, At, Sending
  <2>. QED
    BY <1>2, <2>1, SetQuiet DEF Steps
<1>8. ASSUME NEW r \in Requests, SaveRead(r) PROVE Quiet
  <2>1. Sending(r) /\ Set(Command(r)) /\ UNCHANGED row
    BY <1>8 DEF SaveRead, At, Sending
  <2>2. \A s \in Requests : req'[s].profile \in {req[s].profile, NoProfile}
    BY <1>8, ReadFields
  <2>. QED
    BY <2>1, <2>2, SetQuiet
<1>9. ASSUME NEW r \in Requests, GetProfile(r) PROVE Quiet
  <2>1. \A s \in Requests : req'[s].profile \in {req[s].profile, row}
    BY <1>9, SMTT(20) DEF GetProfile, Idle, TypeOK
  <2>. QED
    BY <1>9, <2>1, LocalsQuiet DEF GetProfile
<1>10. ASSUME NEW r \in Requests, GetCached(r) \/ ReadFile(r) PROVE Quiet
  <2>1. UNCHANGED <<row, cache, lateSets>>
    BY <1>10 DEF GetCached, ReadFile
  <2>2. \A s \in Requests : req'[s].profile \in {req[s].profile, NoProfile}
    BY <1>10, ReadFields
  <2>. QED
    BY <2>1, <2>2, LocalsQuiet
<1>11. CASE LateUpdate
  BY <1>4, <1>11 DEF LateUpdate
<1>12. CASE LateSet
  <2>1. PICK c \in lateSets : cache' = Carried(c) /\ lateSets' = lateSets \ {c}
    BY <1>12 DEF LateSet
  <2>2. UNCHANGED <<row, req>> /\ c.version \in Versions /\ cache \in [Versions -> Pictures \cup {NoPicture}]
    BY <1>12 DEF LateSet, TypeOK, Profiles
  <2>3. c.path # NoPicture => c \in Said
    BY DEF Known, Said
  <2>4. Known' \subseteq Said
    BY <2>1, <2>2 DEF Known, Said
  <2>5. \A v \in Versions : cache'[v] = IF v = c.version THEN c.path ELSE cache[v]
    BY <2>1, <2>2 DEF Carried
  <2>. QED
    BY <2>2, <2>3, <2>4, <2>5 DEF Quiet
<1>13. ASSUME NEW p \in Pods, Restart(p) PROVE Quiet
  <2>1. /\ UNCHANGED <<row, cache>>
        /\ \A s \in Requests : req'[s].profile \in {req[s].profile, NoProfile}
        /\ \A c \in lateSets' :
             c \in lateSets \/ \E s \in Requests : Sending(s) /\ c = Command(s)
    BY <1>13 DEF Restart, Idle, TypeOK
  <2>2. Known' \subseteq Said
    BY <2>1 DEF Known, Said
  <2>. QED
    BY <2>1, <2>2 DEF Quiet
<1>14. CASE RedisLoses
  <2>1. UNCHANGED <<row, req, lateSets>> /\ cache' = [v \in Versions |-> NoPicture]
    BY <1>14 DEF RedisLoses
  <2>2. Known' \subseteq Said
    BY <2>1 DEF Known, Said
  <2>. QED
    BY <2>1, <2>2 DEF Quiet
<1>15. CASE UNCHANGED vars
  BY <1>15, LocalsQuiet DEF vars
<1>. QED
  BY <1>1, <1>3, <1>5, <1>6, <1>7, <1>8, <1>9, <1>10, <1>11, <1>12, <1>13, <1>14, <1>15
  DEF Next, UploadProfilePicture, GetProfilePicture, Requests

\* Only an UPDATE makes a version, and what is selected, sent or cached is of a
\* version that was made.
LEMMA VersionStep == IInv /\ TypeOK' /\ [Next]_vars => VersionInv'
<1>. SUFFICES ASSUME TypeOK, VersionInv, TypeOK', [Next]_vars
              PROVE  VersionInv'
  BY DEF IInv
<1>1. row.version \in Nat /\ row'.version \in Nat
  BY BoundsAssumption, SMTT(20) DEF TypeOK, Profiles, Versions
<1>2. \A k \in Said : k.version \in Nat /\ k.version <= row.version
  <2>1. \A k \in Said : k.version \in Nat
    BY VersionsTyped
  <2>2. \A k \in Known : k.version <= row.version
    BY DEF VersionInv
  <2>3. NoProfile.version = 0
    BY DEF NoProfile
  <2>4. ASSUME NEW r \in Requests, Sending(r), Command(r).path # NoPicture
        PROVE  Command(r).version <= row.version
    <3>1. Command(r).version = req[r].profile.version
      BY <2>4 DEF Command, Sending, At
    <3>2. req[r].profile \in Known
      BY DEF Known
    <3>. QED
      BY <2>2, <3>1, <3>2
  <2>5. 0 <= row.version
    BY <1>1, SMTT(20)
  <2>. QED
    BY <2>1, <2>2, <2>3, <2>4, <2>5 DEF Said
<1>3. CASE Quiet
  <2>1. \A k \in Known' : k.version <= row'.version
    BY <1>2, <1>3 DEF Quiet
  <2>2. \A v \in Versions : cache'[v] # NoPicture => v <= row'.version
    BY <1>2, <1>3 DEF Quiet, VersionInv
  <2>. QED
    BY <2>1, <2>2 DEF VersionInv
<1>4. CASE Advance
  <2>1. \A k \in Known' : k.version <= row'.version
    BY <1>1, <1>2, <1>4, SMTT(20) DEF Advance
  <2>2. \A v \in Versions : cache'[v] # NoPicture => v <= row'.version
    <3>1. \A v \in Versions : cache[v] # NoPicture => v <= row.version
      BY DEF VersionInv
    <3>2. Versions \subseteq Nat
      BY VersionsTyped
    <3>. QED
      BY <1>1, <1>4, <3>1, <3>2, SMTT(20) DEF Advance
  <2>. QED
    BY <2>1, <2>2 DEF VersionInv
<1>. QED
  BY <1>3, <1>4, StepKnown

\* What is said of a version stays the same, as long as uploads save what they
\* updated.
LEMMA KnownStep ==
  ASSUME TypeOK, VersionInv, KnownInv, OwnInv, TypeOK', [Next]_vars
  PROVE  KnownInv'
<1>1. Said \subseteq Known \cup {NoProfile}
  <2>1. ASSUME NEW r \in Requests, Sending(r), Command(r).path # NoPicture
        PROVE  Command(r) \in Known
    <3>1. Command(r) = [version |-> req[r].profile.version, path |-> req[r].profile.path]
      <4>1. At(r, "save") \/ At(r, "saveRead")
        BY <2>1 DEF Command, Sending, At
      <4>2. At(r, "save") => req[r].profile.path = req[r].path
        BY DEF OwnInv, At
      <4>. QED
        BY <4>1, <4>2 DEF Command, At
    <3>2. req[r].profile \in Profiles
      BY LocalsTyped
    <3>3. Command(r) = req[r].profile
      BY <3>1, <3>2 DEF Profiles
    <3>. QED
      BY <3>3 DEF Known
  <2>. QED
    BY <2>1 DEF Said
<1>2. \A k \in Said :
        /\ k.version = 0 => k.path = NoPicture
        /\ cache[k.version] \in {k.path, NoPicture}
        /\ \A j \in Said : j.version = k.version => j.path = k.path
  <2>1. NoProfile.version = 0 /\ NoProfile.path = NoPicture
    BY DEF NoProfile
  <2>. QED
    BY <1>1, <2>1 DEF KnownInv
<1>3. 0 \in Versions /\ \A k \in Said : k.version \in Versions
  BY VersionsTyped
<1>4. CASE Quiet
  <2>1. cache'[0] = NoPicture
    BY <1>2, <1>3, <1>4 DEF Quiet, KnownInv
  <2>2. ASSUME NEW k \in Said PROVE cache'[k.version] \in {k.path, NoPicture}
    BY <1>2, <1>3, <1>4 DEF Quiet
  <2>. QED
    BY <1>2, <1>4, <2>1, <2>2 DEF Quiet, KnownInv
<1>5. CASE Advance
  <2>1. /\ row.version \in Nat /\ row'.version = row.version + 1 /\ row'.version \in Versions
        /\ Versions \subseteq Nat
    BY <1>5, VersionsTyped DEF Advance, TypeOK, Profiles
  <2>2. \A k \in Known : k.version <= row.version
    BY DEF VersionInv
  <2>3. row'.version # 0
    BY <2>1, SMTT(20)
  <2>4. \A k \in Said : k.version # row'.version
    <3>1. \A k \in Known : k.version # row'.version
      <4>1. \A k \in Known : k.version \in Nat
        BY VersionsTyped
      <4>. QED
        BY <2>1, <2>2, <4>1, SMTT(20)
    <3>2. NoProfile.version = 0
      BY DEF NoProfile
    <3>. QED
      BY <1>1, <2>3, <3>1, <3>2
  <2>5. cache[row'.version] = NoPicture
    <3>1. ~ row'.version <= row.version
      BY <2>1, SMTT(20)
    <3>. QED
      BY <2>1, <3>1 DEF VersionInv
  <2>6. cache' = cache /\ Known' \subseteq Said \cup {row'}
    BY <1>5 DEF Advance
  <2>. QED
    BY <1>2, <2>3, <2>4, <2>5, <2>6 DEF KnownInv
<1>. QED
  BY <1>4, <1>5, StepKnown

\* A step of r after which it serves, selects and saves as it should.
LEMMA OwnKept ==
  ASSUME ~ crossed, OwnInv, ServesRow, UNCHANGED row, NEW r \in Requests,
         \A s \in Requests \ {r} : req'[s] = req[s],
         req'[r].pc # "select",
         req'[r].pc \in {"dropOld", "save"} => req'[r].profile.path = req'[r].path,
         req'[r].pc \in UnderWay => req'[r].served = NoPicture,
         req'[r].served \in {req'[r].profile.path, NoPicture}
  PROVE  OwnInv' /\ ServesRow'
<1>1. OwnInv'
  BY DEF OwnInv, At, Requests
<1>2. ServesRow'
  BY DEF ServesRow, Requests
<1>. QED
  BY <1>1, <1>2

\* An UPDATE while no upload is between its statements.
LEMMA OwnUpdate ==
  ASSUME ~ crossed, OwnInv, ServesRow, \A u \in Uploaders : ~ At(u, "select"),
         \A s \in Requests : req'[s] = req[s]
  PROVE  OwnInv' /\ ServesRow'
<1>1. OwnInv'
  BY DEF OwnInv, At, Requests
<1>2. ServesRow'
  BY DEF ServesRow, Requests
<1>. QED
  BY <1>1, <1>2

\* Unless an UPDATE crossed an upload, all that is known of a version is the same
\* and a read serves what its row names.
LEMMA AgreeStep == IInv /\ TypeOK' /\ [Next]_vars => AgreeInv'
<1>. SUFFICES ASSUME TypeOK, PathInv, VersionInv, AgreeInv, TypeOK', [Next]_vars, ~ crossed'
              PROVE  KnownInv' /\ OwnInv' /\ ServesRow'
  BY DEF IInv, AgreeInv
<1>. USE NoPictureAssumption
<1>1. ~ crossed
  BY DEF Next, UploadProfilePicture, GetProfilePicture, vars, ReadOld, WriteFile, Update, UpdateFails,
         Select, SelectFails, DropOld, Save, GetProfile, GetCached, ReadFile, SaveRead,
         LateUpdate, LateSet, Restart, RedisLoses, Crosses
<1>2. KnownInv /\ OwnInv /\ ServesRow
  BY <1>1 DEF AgreeInv
<1>3. KnownInv'
  BY <1>2, KnownStep
<1>4. ASSUME NEW r \in Requests, Ends(r), UNCHANGED row PROVE OwnInv' /\ ServesRow'
  <2>1. /\ \A s \in Requests \ {r} : req'[s] = req[s]
        /\ req'[r].pc = "idle" /\ req'[r].served = NoPicture
    BY <1>4, EndsFields
  <2>. QED
    BY <1>1, <1>2, <1>4, <2>1, OwnKept DEF UnderWay
<1>5. ASSUME NEW r \in Requests, ReadOld(r) PROVE OwnInv' /\ ServesRow'
  <2>1. /\ \A s \in Requests \ {r} : req'[s] = req[s]
        /\ req'[r].served = NoPicture /\ req'[r].pc = "writeFile" /\ row' = row
    BY <1>5, SMTT(20) DEF ReadOld, Idle, TypeOK
  <2>. QED
    BY <1>1, <1>2, <2>1, OwnKept
<1>6. ASSUME NEW r \in Requests, req[r].pc \in UnderWay, UNCHANGED row,
             NEW step \in {"update", "save"}, Goto(r, step),
             step = "save" => req[r].pc = "dropOld"
      PROVE  OwnInv' /\ ServesRow'
  <2>1. /\ \A s \in Requests \ {r} : req'[s] = req[s]
        /\ req'[r].pc = step /\ req'[r].path = req[r].path
        /\ req'[r].profile = req[r].profile /\ req'[r].served = req[r].served
    BY <1>6, GotoFields DEF Steps
  <2>2. req[r].served = NoPicture /\ (step = "save" => req[r].profile.path = req[r].path)
    BY <1>2, <1>6 DEF OwnInv
  <2>. QED
    BY <1>1, <1>2, <1>6, <2>1, <2>2, OwnKept
<1>7. ASSUME NEW r \in Requests, WriteFile(r) PROVE OwnInv' /\ ServesRow'
  <2>1. req[r].pc \in UnderWay /\ UNCHANGED row /\ (Ends(r) \/ Goto(r, "update"))
    BY <1>7 DEF WriteFile, At, UnderWay
  <2>. QED
    BY <1>4, <1>6, <2>1
<1>8. ASSUME NEW r \in Uploaders, Update(r) PROVE OwnInv' /\ ServesRow'
  <2>0. r \in Requests
    BY DEF Requests
  <2>1. /\ \A s \in Requests \ {r} : req'[s] = req[s]
        /\ req'[r].pc = "select" /\ req'[r].path = req[r].path
        /\ req'[r].profile = req[r].profile /\ req'[r].served = req[r].served
    BY <1>8, <2>0, GotoFields DEF Update, Steps
  <2>2. \A u \in Uploaders : ~ At(u, "select")
    BY <1>8 DEF Update, Crosses
  <2>3. row'.path = req[r].path /\ req[r].served = NoPicture
    BY <1>2, <1>8, <2>0 DEF Update, Updated, At, OwnInv, UnderWay
  <2>4. OwnInv'
    BY <1>2, <2>0, <2>1, <2>2, <2>3 DEF OwnInv, At, Requests
  <2>5. ServesRow'
    BY <1>1, <1>2, <2>1 DEF ServesRow, Requests
  <2>. QED
    BY <2>4, <2>5
<1>9. ASSUME NEW r \in Requests, UpdateFails(r) PROVE OwnInv' /\ ServesRow'
  <2>1. CASE UNCHANGED row
    BY <1>4, <1>9, <2>1 DEF UpdateFails
  <2>2. CASE Crosses
    <3>1. \A u \in Uploaders : ~ At(u, "select")
      BY <2>2 DEF Crosses
    <3>2. /\ \A s \in Requests \ {r} : req'[s] = req[s]
          /\ req'[r].pc = "idle" /\ req'[r].served = NoPicture
      BY <1>9, EndsFields DEF UpdateFails
    <3>3. OwnInv'
      BY <1>2, <3>1, <3>2 DEF OwnInv, At, UnderWay, Requests
    <3>4. ServesRow'
      BY <1>1, <1>2, <3>2 DEF ServesRow, Requests
    <3>. QED
      BY <3>3, <3>4
  <2>. QED
    BY <1>9, <2>1, <2>2 DEF UpdateFails
<1>10. ASSUME NEW r \in Uploaders, Select(r) PROVE OwnInv' /\ ServesRow'
  <2>0. r \in Requests /\ row' = row
    BY <1>10 DEF Requests, Select
  <2>1. row.path = req[r].path /\ req[r].served = NoPicture
    BY <1>2, <1>10, <2>0 DEF Select, OwnInv, At, UnderWay
  <2>2. CASE Ends(r)
    BY <1>4, <2>0, <2>2
  <2>3. ASSUME NEW step \in {"dropOld", "save"}, req' = [req EXCEPT ![r].profile = row, ![r].pc = step]
        PROVE  OwnInv' /\ ServesRow'
    <3>1. /\ req'[r].pc = step /\ req'[r].profile = row /\ req'[r].path = req[r].path
          /\ req'[r].served = req[r].served
          /\ \A s \in Requests \ {r} : req'[s] = req[s]
      BY <2>0, <2>3, LocalsTyped DEF Locals
    <3>. QED
      BY <1>1, <1>2, <2>0, <2>1, <2>3, <3>1, OwnKept
  <2>. QED
    BY <1>10, <2>2, <2>3 DEF Select
<1>11. ASSUME NEW r \in Requests, SelectFails(r) \/ DropOld(r) \/ Save(r) PROVE OwnInv' /\ ServesRow'
  <2>1. UNCHANGED row /\ (Ends(r) \/ (req[r].pc = "dropOld" /\ Goto(r, "save")))
    BY <1>11 DEF SelectFails, DropOld, Save, At
  <2>. QED
    BY <1>4, <1>6, <2>1 DEF UnderWay
<1>12. ASSUME NEW r \in Requests, GetProfile(r) PROVE OwnInv' /\ ServesRow'
  <2>1. /\ \A s \in Requests \ {r} : req'[s] = req[s]
        /\ req'[r].served = NoPicture /\ row' = row
        /\ req'[r].pc \in {"idle", "getCached", "readFile"}
    BY <1>12, SMTT(20) DEF GetProfile, Idle, TypeOK
  <2>. QED
    BY <1>1, <1>2, <2>1, OwnKept DEF UnderWay
<1>13. ASSUME NEW r \in Readers, GetCached(r) \/ ReadFile(r) \/ SaveRead(r) PROVE OwnInv' /\ ServesRow'
  <2>0. r \in Requests /\ row' = row
    BY <1>13 DEF Requests, GetCached, ReadFile, SaveRead
  <2>1. /\ \A s \in Requests \ {r} : req'[s] = req[s]
        /\ req'[r].pc \in {"idle", "readFile", "saveRead"}
        /\ \/ req'[r].served = NoPicture
           \/ /\ req'[r].profile = req[r].profile
              /\ req'[r].served \in {req[r].served, req[r].profile.path,
                                     cache[req[r].profile.version]}
    BY <1>13, <2>0, ReadFields
  <2>2. cache[req[r].profile.version] \in {req[r].profile.path, NoPicture}
    BY <1>2, <2>0 DEF KnownInv, Known
  <2>3. req[r].served \in {req[r].profile.path, NoPicture}
    BY <1>1, <1>2 DEF ServesRow
  <2>4. req'[r].served \in {req'[r].profile.path, NoPicture}
    BY <2>1, <2>2, <2>3
  <2>. QED
    BY <1>1, <1>2, <2>0, <2>1, <2>4, OwnKept DEF UnderWay
<1>14. CASE LateUpdate
  <2>1. (\A u \in Uploaders : ~ At(u, "select")) /\ req' = req
    BY <1>14 DEF LateUpdate, Crosses
  <2>. QED
    BY <1>1, <1>2, <1>3, <2>1, OwnUpdate
<1>15. CASE LateSet \/ RedisLoses \/ UNCHANGED vars
  <2>1. UNCHANGED <<row, req>>
    BY <1>15 DEF LateSet, RedisLoses, vars
  <2>. QED
    BY <1>1, <1>2, <1>3, <2>1 DEF OwnInv, ServesRow, At
<1>16. ASSUME NEW p \in Pods, Restart(p) PROVE OwnInv' /\ ServesRow'
  <2>1. /\ \A s \in Requests : \/ req'[s] = req[s]
                               \/ req'[s].pc = "idle" /\ req'[s].served = NoPicture
        /\ UNCHANGED row
    BY <1>16 DEF Restart, Idle, TypeOK
  <2>. QED
    BY <1>1, <1>2, <2>1 DEF OwnInv, ServesRow, At, UnderWay, Requests
<1>. QED
  BY <1>3, <1>5, <1>7, <1>8, <1>9, <1>10, <1>11, <1>12, <1>13, <1>14, <1>15, <1>16
  DEF Next, UploadProfilePicture, GetProfilePicture, Requests

-----------------------------------------------------------------------------
(* Theorems.                                                               *)

\* The inductive invariant holds of every behaviour.
THEOREM Invariance == Spec => []IInv
<1>1. IInv /\ [Next]_vars => IInv'
  BY TypeStep, PathStep, CountStep, VersionStep, AgreeStep DEF IInv
<1>. QED
  BY InitIInv, <1>1, PTL DEF Spec

\* The state stays well typed, for any number of Pods, uploads and readers: in
\* particular the row's version never exceeds the number of uploads begun.
THEOREM TypeCorrect == Spec => []TypeOK
<1>1. IInv => TypeOK
  BY DEF IInv
<1>. QED
  BY Invariance, <1>1, PTL

\* Unless the UPDATE of one UpdateProfilePicture came between the statements of
\* another, GetProfilePicture serves the picture of the row it selected, whatever
\* fails and however late a SaveProfilePicture comes.
THEOREM ReadsServeTheirRow == Spec => []ServesRow
<1>1. IInv => ServesRow
  BY DEF IInv, AgreeInv, ServesRow
<1>. QED
  BY Invariance, <1>1, PTL

\* The cache has another picture than the row under the row's version only after the
\* UPDATE of one UpdateProfilePicture came between the statements of another.  So
\* this is the only way in which CacheAgrees fails.
THEOREM CacheFailsOnlyCrossed == Spec => [](AgreesUncrossed /\ (~ crossed => CacheAgrees))
<1>1. IInv => AgreesUncrossed /\ (~ crossed => CacheAgrees)
  BY DEF IInv, AgreeInv, KnownInv, Known, AgreesUncrossed, CacheAgrees
<1>. QED
  BY Invariance, <1>1, PTL

\* The os.Remove of a failed upload never takes away an acknowledged picture.
THEOREM AcknowledgedPicturesStay == Spec => []AckedKept
<1>1. IInv => AckedKept
  BY DEF IInv
<1>. QED
  BY Invariance, <1>1, PTL
=============================================================================
