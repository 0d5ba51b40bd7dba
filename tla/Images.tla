------------------------------- MODULE Images -------------------------------
(***************************************************************************)
(* The registry of base images (src/cmd/image.go, src/cmd/run.go,          *)
(* src/ociimage/inject.go): rows of the images table beside one file per   *)
(* name, which nothing keeps in step but the order of a command's calls.   *)
(* Any number of labctl processes import, delete and upgrade images and    *)
(* clone them for new VMs; each may fail or be killed between two calls.   *)
(***************************************************************************)
EXTENDS Integers

CONSTANTS Procs,    \* labctl processes
          Names,    \* image names, and so files <data-dir>/images/<name>.ext4
          VMs,      \* rows of the vms table
          NoName,   \* a process without a command
          NoVM,     \* a process that starts no VM
          MaxIds    \* bound: imports ever started

ASSUME MaxIdsAssumption == MaxIds \in Nat
ASSUME NoNameAssumption == NoName \notin Names
ASSUME NoVMAssumption == NoVM \notin VMs

Ids  == 1 .. MaxIds     \* the uuid an import would register
NoId == 0

\* What a file holds: the import that last created it, and how much of that.
\* "partial": being copied; "torn": two writers; "agentless": its agent removed.
Contents == [of : Ids \cup {NoId},
             bytes : {"absent", "partial", "whole", "torn", "agentless"}]
NoFile == [of |-> NoId, bytes |-> "absent"]

VARIABLES
  rows,        \* the images table: the set of [id, name]
  file,        \* the file of each name
  mounts,      \* the images an upgrade has left mounted on a file
  image,       \* the image_id of each VM's row, NoId if there is no row
  rootfs,      \* each VM's clone of the file
  stage,       \* the next call of each process, "idle" if it has no command
  id, name,    \* the image each process works with
  vm,          \* the VM each run is starting
  force,       \* delete --force
  ids,         \* how many imports have started
  racing,      \* history: processes whose name another one, or a mount, wrote to or used
  alone,       \* history: images whose import had the name's file to itself
  forced,      \* history: images deleted with --force
  late,        \* history: VMs whose row came after a delete of its image had counted
  disturbed    \* history: VMs whose rootfs a racing run copied

job == <<stage, id, name, vm, force, ids, racing>>
history == <<alone, forced, late, disturbed>>
vars == <<rows, file, mounts, image, rootfs, job, history>>

Registered(n) == \E r \in rows : r.name = n
Mounts(n) == {m \in mounts : m.name = n}
\* A restored VM's row has no image.
Users(i) == {v \in VMs : image[v] = i}

Init ==
  /\ rows = {}
  /\ file = [n \in Names |-> NoFile] /\ mounts = {}
  /\ image = [v \in VMs |-> NoId]
  /\ rootfs = [v \in VMs |-> NoFile]
  /\ stage = [p \in Procs |-> "idle"]
  /\ id = [p \in Procs |-> NoId]
  /\ name = [p \in Procs |-> NoName]
  /\ vm = [p \in Procs |-> NoVM]
  /\ force = [p \in Procs |-> FALSE]
  /\ ids = 0
  /\ racing = {}
  /\ alone = {} /\ forced = {} /\ late = {} /\ disturbed = {}

\* A command's first query found image i under name n, or, for import, found none.
Begin(p, first, i, n, f) ==
  LET others == {q \in Procs : name[q] = n} IN
  /\ stage[p] = "idle"
  /\ stage' = [stage EXCEPT ![p] = first]
  /\ id' = [id EXCEPT ![p] = i]
  /\ name' = [name EXCEPT ![p] = n]
  /\ force' = [force EXCEPT ![p] = f]
  /\ UNCHANGED vm
  /\ racing' = racing \cup others \cup (IF others = {} THEN {} ELSE {p})

End(p) ==
  /\ stage' = [stage EXCEPT ![p] = "idle"]
  /\ id' = [id EXCEPT ![p] = NoId]
  /\ name' = [name EXCEPT ![p] = NoName]
  /\ vm' = [vm EXCEPT ![p] = NoVM]
  /\ force' = [force EXCEPT ![p] = FALSE]
  /\ racing' = racing \ {p}
  /\ UNCHANGED ids

\* The next call of p's command is the one that follows in the code.
Proceed(p, here, there) ==
  /\ stage[p] = here
  /\ stage' = [stage EXCEPT ![p] = there]
  /\ UNCHANGED <<id, name, force, ids, racing>>

\* Write bytes to the file p works on.
Write(p, bytes) == file' = [file EXCEPT ![name[p]] = [of |-> id[p], bytes |-> bytes]]

-----------------------------------------------------------------------------
(* image import *)

StartImport(p, n) ==
  /\ ids < MaxIds /\ ~Registered(n)
  /\ ids' = ids + 1
  /\ Begin(p, "create", ids + 1, n, FALSE)
  /\ UNCHANGED <<rows, file, mounts, image, rootfs, history>>

\* os.Create truncates a file that a deleted image, or a failed import, left behind.
Create(p) ==
  /\ Proceed(p, "create", "copy")
  /\ Write(p, "partial")
  /\ UNCHANGED <<rows, mounts, vm, image, rootfs, history>>

\* io.Copy's error is not looked at.
CopyInUnchecked(p) ==
  /\ Proceed(p, "copy", "insert")
  /\ \E bytes \in {"partial", "whole"} : Write(p, bytes)
  /\ UNCHANGED <<rows, mounts, vm, image, rootfs, history>>

CopyIn(p) ==
  /\ Proceed(p, "copy", "insert")
  /\ Write(p, IF file[name[p]] = [of |-> id[p], bytes |-> "partial"] THEN "whole" ELSE "torn")
  /\ UNCHANGED <<rows, mounts, vm, image, rootfs, history>>

\* UNIQUE(name) lets in one of several imports that all found the name free.
InsertImage(p) ==
  /\ stage[p] = "insert"
  /\ \/ /\ ~Registered(name[p])
        /\ rows' = rows \cup {[id |-> id[p], name |-> name[p]]}
        /\ alone' = IF p \in racing \/ Mounts(name[p]) # {} THEN alone ELSE alone \cup {id[p]}
     \/ Registered(name[p]) /\ UNCHANGED <<rows, alone>>
  /\ End(p)
  /\ UNCHANGED <<file, mounts, image, rootfs, forced, late, disturbed>>

-----------------------------------------------------------------------------
(* image delete: the file stays *)

StartDelete(p, r, f) ==
  /\ Begin(p, "count", r.id, r.name, f)
  /\ UNCHANGED <<rows, file, mounts, image, rootfs, ids, history>>

CountOtherImages(p) ==
  /\ stage[p] = "count"
  /\ Proceed(p, "count", "delete") /\ UNCHANGED vm
  /\ \E i \in Ids : Users(i) = {} \/ force[p]
  /\ UNCHANGED <<rows, file, mounts, image, rootfs, history>>

CountVMsUsingImage(p) ==
  /\ stage[p] = "count"
  /\ \/ (Users(id[p]) = {} \/ force[p]) /\ Proceed(p, "count", "delete") /\ UNCHANGED vm
     \/ Users(id[p]) # {} /\ ~force[p] /\ End(p)
  /\ UNCHANGED <<rows, file, mounts, image, rootfs, history>>

DeleteImage(p) ==
  /\ stage[p] = "delete"
  /\ rows' = {r \in rows : r.id # id[p]}
  /\ forced' = IF force[p] THEN forced \cup {id[p]} ELSE forced
  /\ End(p)
  /\ UNCHANGED <<file, mounts, image, rootfs, alone, late, disturbed>>

-----------------------------------------------------------------------------
(* image upgrade, in place, through a mount that the last step takes away *)

StartUpgrade(p, r) ==
  /\ Begin(p, "remove", r.id, r.name, FALSE)
  /\ UNCHANGED <<rows, file, mounts, image, rootfs, ids, history>>

\* mount takes a file system only.
Mountable(n) == file[n].bytes \in {"whole", "agentless"}

RemoveAgent(p) ==
  /\ Proceed(p, "remove", "write")
  /\ Mountable(name[p])
  /\ file' = [file EXCEPT ![name[p]].bytes = "agentless"]
  /\ UNCHANGED <<rows, mounts, vm, image, rootfs, history>>

\* The mount stays when labctl is killed or the umount, whose error is only logged, fails.
LeaveMounted(p) == mounts' = mounts \cup {[id |-> id[p], name |-> name[p]]}

\* The file may have been truncated under the mount.
WriteAgent(p) ==
  /\ stage[p] = "write"
  /\ UNCHANGED mounts \/ LeaveMounted(p)
  /\ file' = [file EXCEPT ![name[p]].bytes =
                IF Mountable(name[p]) THEN "whole" ELSE "torn"]
  /\ End(p)
  /\ UNCHANGED <<rows, image, rootfs, history>>

-----------------------------------------------------------------------------
(* run: resolveImage, then for each VM AllocateAndInsert and reflinkCopy *)

ResolveAnyImage(p, r, flag) ==
  /\ \E other \in rows : Begin(p, "allocate", other.id, r.name, FALSE)
  /\ flag \in {r.name, NoName}
  /\ UNCHANGED <<rows, file, mounts, image, rootfs, ids, history>>

\* --image, or the sole registered image.
ResolveImage(p, r, flag) ==
  /\ flag = r.name \/ (flag = NoName /\ rows = {r})
  /\ Begin(p, "allocate", r.id, r.name, FALSE)
  /\ UNCHANGED <<rows, file, mounts, image, rootfs, ids, history>>

\* Deleted, or counted by a delete that is about to.
Doomed(i) ==
  \/ \A r \in rows : r.id # i
  \/ \E q \in Procs : stage[q] = "delete" /\ id[q] = i /\ ~force[q]

AllocateAndInsert(p) ==
  /\ Proceed(p, "allocate", "clone")
  /\ \E v \in VMs :
       /\ image[v] = NoId
       /\ image' = [image EXCEPT ![v] = id[p]]
       /\ vm' = [vm EXCEPT ![p] = v]
       /\ late' = IF Doomed(id[p]) THEN late \cup {v} ELSE late
  /\ UNCHANGED <<rows, file, mounts, rootfs, alone, forced, disturbed>>

\* cp --reflink=always clones the file in one operation of the file system.
ReflinkCopy(p) ==
  /\ Proceed(p, "clone", "allocate")
  /\ file[name[p]] # NoFile
  /\ rootfs' = [rootfs EXCEPT ![vm[p]] = file[name[p]]]
  /\ vm' = [vm EXCEPT ![p] = NoVM]
  /\ disturbed' = IF p \in racing THEN disturbed \cup {vm[p]} ELSE disturbed
  /\ UNCHANGED <<rows, file, mounts, image, alone, forced, late>>

-----------------------------------------------------------------------------

\* destroy: the row and the files of a VM nobody is starting.
Destroy(v) ==
  /\ image[v] # NoId /\ \A p \in Procs : vm[p] # v
  /\ image' = [image EXCEPT ![v] = NoId]
  /\ rootfs' = [rootfs EXCEPT ![v] = NoFile]
  /\ late' = late \ {v} /\ disturbed' = disturbed \ {v}
  /\ UNCHANGED <<rows, file, mounts, job, alone, forced>>

\* A call fails and the command returns its error, labctl is killed, or a run has
\* started its --count of VMs.
Stop(p) ==
  /\ stage[p] # "idle"
  /\ \/ UNCHANGED mounts
     \/ (stage[p] = "write" \/ (stage[p] = "remove" /\ Mountable(name[p])))
        /\ LeaveMounted(p)
  /\ End(p)
  /\ UNCHANGED <<rows, file, image, rootfs, history>>

\* The kernel writes through a mount that was left, into whatever the file is now, or
\* somebody unmounts it, which writes too.
Writeback(m) ==
  /\ mounts' \in {mounts, mounts \ {m}}
  /\ IF file[m.name].of = m.id
       THEN UNCHANGED <<file, racing>>
       ELSE /\ file' = [file EXCEPT ![m.name].bytes = "torn"]
            /\ racing' = racing \cup {p \in Procs : name[p] = m.name}
  /\ UNCHANGED <<rows, image, rootfs, stage, id, name, vm, force, ids, history>>

Next ==
  \/ \E p \in Procs :
       \/ \E n \in Names : StartImport(p, n)
       \/ Create(p) \/ CopyIn(p) \/ InsertImage(p)
       \/ \E r \in rows, f \in BOOLEAN : StartDelete(p, r, f)
       \/ CountVMsUsingImage(p) \/ DeleteImage(p)
       \/ \E r \in rows : StartUpgrade(p, r)
       \/ RemoveAgent(p) \/ WriteAgent(p)
       \/ \E r \in rows, flag \in Names \cup {NoName} : ResolveImage(p, r, flag)
       \/ AllocateAndInsert(p) \/ ReflinkCopy(p)
       \/ Stop(p)
  \/ \E v \in VMs : Destroy(v)
  \/ \E m \in mounts : Writeback(m)

Spec == Init /\ [][Next]_vars

-----------------------------------------------------------------------------
(* Properties *)

\* The type of every variable.
TypeOK ==
  /\ rows \subseteq [id : Ids, name : Names]
  /\ file \in [Names -> Contents] /\ mounts \subseteq [id : Ids, name : Names]
  /\ image \in [VMs -> Ids \cup {NoId}]
  /\ rootfs \in [VMs -> Contents]
  /\ stage \in [Procs -> {"idle", "create", "copy", "insert", "count", "delete",
                          "remove", "write", "allocate", "clone"}]
  /\ id \in [Procs -> Ids \cup {NoId}]
  /\ name \in [Procs -> Names \cup {NoName}]
  /\ vm \in [Procs -> VMs \cup {NoVM}]
  /\ force \in [Procs -> BOOLEAN]
  /\ ids \in 0 .. MaxIds
  /\ racing \subseteq Procs
  /\ alone \subseteq Ids /\ forced \subseteq Ids
  /\ late \subseteq VMs /\ disturbed \subseteq VMs

\* The file of a registered image is complete and the one its own import wrote, even
\* after imports that failed or were killed, and after a delete that left the old
\* file: unless its import overlapped another command on the name, or went to a file
\* that an upgrade had left mounted.  (An upgrade that fails leaves the image without an
\* agent, registered as before.)
RegisteredImageIsWhole ==
  \A r \in rows : r.id \in alone =>
    file[r.name].of = r.id /\ file[r.name].bytes \in {"whole", "agentless"}

\* A VM boots from the image its row names: however long a run --count takes, each
\* clone is of that image and complete, if no other command worked on the name.
VMBootsItsImage ==
  \A v \in VMs : rootfs[v] # NoFile /\ v \notin disturbed /\ image[v] \in alone =>
    rootfs[v].of = image[v] /\ rootfs[v].bytes \in {"whole", "agentless"}

\* Without --force, delete leaves no VM whose image is unknown, except one whose run
\* inserted its row after this image's delete had counted.
ImagesInUseStay ==
  \A v \in VMs : image[v] # NoId /\ v \notin late =>
    image[v] \in forced \/ \E r \in rows : r.id = image[v]
=============================================================================
