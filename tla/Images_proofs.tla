---------------------------- MODULE Images_proofs ----------------------------
(***************************************************************************)
(* For any number of processes, names, VMs and imports, and commands that  *)
(* fail or are killed between any two calls: type correctness, that a      *)
(* registered image is whole, that a VM boots the image of its row, and    *)
(* that delete spares the images in use when it counts.                    *)
(***************************************************************************)
EXTENDS Images, TLAPS

Importing(p) == stage[p] \in {"create", "copy", "insert"}
Using(p) == stage[p] \in {"count", "delete", "remove", "write", "allocate", "clone"}

-----------------------------------------------------------------------------
(* The inductive invariant *)

\* A process has an image while it has a command, and a VM while it clones.
Jobs ==
  \A p \in Procs :
    /\ stage[p] = "idle" <=> name[p] = NoName
    /\ stage[p] = "idle" => id[p] = NoId /\ p \notin racing
    /\ stage[p] # "idle" => id[p] \in 1 .. ids
    /\ stage[p] = "clone" <=> vm[p] # NoVM

\* An id beyond the counter is in use nowhere.
Unused ==
  /\ \A r \in rows : r.id <= ids
  /\ \A v \in VMs : image[v] <= ids
  /\ \A i \in alone : i <= ids

\* racing misses no overlap of two commands on one name.
Overlaps ==
  \A p, q \in Procs : p # q /\ name[p] = name[q] /\ name[p] # NoName => p \in racing

\* An image has one name, in the table and in every process.
OneNamePerId ==
  /\ \A r, s \in rows : r.id = s.id => r.name = s.name
  /\ \A p \in Procs : id[p] # NoId =>
       /\ \A q \in Procs : id[q] = id[p] => name[q] = name[p]
       /\ \A r \in rows : r.id = id[p] => r.name = name[p]

\* What an import is about to register is known to nobody else.
ImportIsNew ==
  \A p \in Procs : Importing(p) =>
    /\ \A q \in Procs \ {p} : id[q] # id[p]
    /\ \A r \in rows : r.id # id[p]
    /\ \A v \in VMs : image[v] # id[p]
    /\ id[p] \notin alone

\* An import nobody overlapped finds in the file what it wrote.
ImportedFile ==
  \A p \in Procs : p \notin racing =>
    /\ stage[p] = "copy" => file[name[p]] = [of |-> id[p], bytes |-> "partial"]
    /\ stage[p] = "insert" => file[name[p]] = [of |-> id[p], bytes |-> "whole"]

\* A row that appears while another import of the name is under way is not alone.
ImportOverlapsRow ==
  \A p \in Procs, r \in rows : Importing(p) /\ r.name = name[p] => r.id \notin alone

\* The row a command found stays, unless another command on the name came between.
UsedRowStays ==
  \A p \in Procs : Using(p) /\ p \notin racing => [id |-> id[p], name |-> name[p]] \in rows

\* What PRIMARY KEY and UNIQUE say of the table.
OneRowPerName == \A r, s \in rows : r.name = s.name => r = s

\* While an image is registered that had the name's file to itself, the commands on the
\* name and the mounts of the file are this image's.
OneImagePerFile ==
  \A r \in rows : r.id \in alone =>
    /\ \A p \in Procs : Using(p) /\ name[p] = r.name => id[p] = r.id
    /\ \A m \in Mounts(r.name) : m.id = r.id

\* After an unforced delete has counted, only runs that insert their row later add users.
CountedUsersAreLate ==
  \A p \in Procs : stage[p] = "delete" /\ ~force[p] =>
    \A v \in VMs : image[v] = id[p] => v \in late

\* A VM that is being started is its run's alone and has no files yet.
StartedVM ==
  /\ \A v \in VMs : image[v] = NoId => rootfs[v] = NoFile /\ v \notin late /\ v \notin disturbed
  /\ \A p \in Procs : stage[p] = "clone" =>
       /\ vm[p] \in VMs /\ image[vm[p]] = id[p] /\ rootfs[vm[p]] = NoFile
       /\ \A q \in Procs : stage[q] = "clone" /\ vm[q] = vm[p] => q = p

Bookkeeping == Jobs /\ Unused /\ Overlaps /\ OneNamePerId /\ StartedVM
Imports == ImportIsNew /\ ImportedFile /\ ImportOverlapsRow
Rows == UsedRowStays /\ CountedUsersAreLate /\ OneRowPerName /\ OneImagePerFile
Promises == RegisteredImageIsWhole /\ VMBootsItsImage /\ ImagesInUseStay

IInv == TypeOK /\ Bookkeeping /\ Imports /\ Rows /\ Promises

-----------------------------------------------------------------------------
(* Types: the type of a row needs the job of the process that inserts it *)

Typed == TypeOK /\ Jobs /\ Unused

LEMMA InitTyped == Init => Typed
  BY MaxIdsAssumption DEF Init, Typed, TypeOK, Jobs, Unused, Contents, Ids, NoId, NoFile

LEMMA StepTyped == Typed /\ [Next]_vars => Typed'
<1> SUFFICES ASSUME Typed, [Next]_vars PROVE Typed'
  OBVIOUS
<1> USE MaxIdsAssumption, NoNameAssumption, NoVMAssumption
    DEF Typed, TypeOK, Jobs, Unused, Contents, Ids, NoId, NoFile, Begin, End,
        Proceed, Write, LeaveMounted, Mountable, history
<1>1. ASSUME NEW p \in Procs, NEW n \in Names, StartImport(p, n) PROVE Typed'
  <2>1. ids + 1 \in Ids /\ ids + 1 \in 0 .. MaxIds
    BY <1>1 DEF StartImport
  <2>2. TypeOK'
    BY <1>1, <2>1 DEF StartImport
  <2>3. Jobs'
    BY <1>1, <2>1 DEF StartImport
  <2>4. Unused'
    BY <1>1, <2>1 DEF StartImport
  <2> QED
    BY <2>2, <2>3, <2>4
<1>2. ASSUME NEW p \in Procs, Create(p) PROVE Typed'
  BY <1>2 DEF Create
<1>3. ASSUME NEW p \in Procs, CopyIn(p) PROVE Typed'
  BY <1>3 DEF CopyIn
<1>4. ASSUME NEW p \in Procs, InsertImage(p) PROVE Typed'
  <2>1. id[p] \in Ids /\ id[p] <= ids /\ name[p] \in Names
    BY <1>4 DEF InsertImage
  <2>2. [id |-> id[p], name |-> name[p]] \in [id : Ids, name : Names]
    BY <2>1
  <2>3. rows' \subseteq [id : Ids, name : Names] /\ \A r \in rows' : r.id <= ids
    BY <2>1, <2>2, <1>4 DEF InsertImage
  <2>4. alone' \subseteq Ids /\ (\A j \in alone' : j <= ids) /\ forced' \subseteq Ids
    BY <2>1, <1>4 DEF InsertImage
  <2> QED
    BY <1>4, <2>3, <2>4 DEF InsertImage
<1>5. ASSUME NEW p \in Procs, CountVMsUsingImage(p) PROVE Typed'
  <2>1. CASE End(p)
    BY <1>5, <2>1 DEF CountVMsUsingImage
  <2>2. CASE Proceed(p, "count", "delete") /\ UNCHANGED vm
    BY <1>5, <2>2 DEF CountVMsUsingImage
  <2> QED
    BY <1>5, <2>1, <2>2 DEF CountVMsUsingImage
<1>6. ASSUME NEW p \in Procs, DeleteImage(p) PROVE Typed'
  <2>1. id[p] \in Ids /\ id[p] <= ids /\ name[p] \in Names
    BY <1>6 DEF DeleteImage
  <2>2. [id |-> id[p], name |-> name[p]] \in [id : Ids, name : Names]
    BY <2>1
  <2>3. rows' \subseteq [id : Ids, name : Names] /\ \A r \in rows' : r.id <= ids
    BY <2>1, <2>2, <1>6 DEF DeleteImage
  <2>4. alone' \subseteq Ids /\ (\A j \in alone' : j <= ids) /\ forced' \subseteq Ids
    BY <2>1, <1>6 DEF DeleteImage
  <2> QED
    BY <1>6, <2>3, <2>4 DEF DeleteImage
<1>7. ASSUME NEW p \in Procs, RemoveAgent(p) PROVE Typed'
  BY <1>7 DEF RemoveAgent
<1>8. ASSUME NEW p \in Procs, WriteAgent(p) PROVE Typed'
  <2>1. file[name[p]] \in Contents /\ name[p] \in Names
    BY <1>8 DEF WriteAgent
  <2>2. PICK b \in {"whole", "torn"} : file' = [file EXCEPT ![name[p]] = [@ EXCEPT !.bytes = b]]
    BY <1>8 DEF WriteAgent
  <2>3. file' \in [Names -> Contents]
    BY <2>1, <2>2
  <2> QED
    BY <1>8, <2>3 DEF WriteAgent
<1>9. ASSUME NEW p \in Procs, AllocateAndInsert(p) PROVE Typed'
  BY <1>9 DEF AllocateAndInsert
<1>10. ASSUME NEW p \in Procs, ReflinkCopy(p) PROVE Typed'
  BY <1>10 DEF ReflinkCopy
<1>11. ASSUME NEW p \in Procs, Stop(p) PROVE Typed'
  BY <1>11 DEF Stop
<1>12. ASSUME NEW p \in Procs, NEW r \in rows, NEW f \in BOOLEAN, StartDelete(p, r, f) PROVE Typed'
  BY <1>12 DEF StartDelete
<1>13. ASSUME NEW p \in Procs, NEW r \in rows, StartUpgrade(p, r) PROVE Typed'
  BY <1>13 DEF StartUpgrade
<1>14. ASSUME NEW p \in Procs, NEW r \in rows, NEW flag, ResolveImage(p, r, flag) PROVE Typed'
  BY <1>14 DEF ResolveImage
<1>15. ASSUME NEW v \in VMs, Destroy(v) PROVE Typed'
  BY <1>15 DEF Destroy, job
<1>16. ASSUME NEW m \in mounts, Writeback(m) PROVE Typed'
  BY <1>16 DEF Writeback
<1>17. CASE UNCHANGED vars
  BY <1>17 DEF vars, job
<1> HIDE DEF Typed
<1> QED
  BY <1>1, <1>2, <1>3, <1>4, <1>5, <1>6, <1>7, <1>8, <1>9, <1>10, <1>11, <1>12,
     <1>13, <1>14, <1>15, <1>16, <1>17 DEF Next

\* Every variable has its type, for every value of the constants.
THEOREM TypeCorrect == Spec => []TypeOK
<1>1. Typed => TypeOK
  BY DEF Typed
<1> QED
  BY InitTyped, StepTyped, <1>1, PTL DEF Spec

-----------------------------------------------------------------------------
(* The invariant *)

LEMMA InitEstablishesIInv == Init => IInv
<1>1. Init => Bookkeeping /\ Imports /\ Rows /\ Promises
  BY MaxIdsAssumption, NoNameAssumption, NoVMAssumption
     DEF Init, Bookkeeping, Imports, Rows, Promises, Jobs, Unused, Overlaps, OneNamePerId,
         StartedVM, ImportIsNew, ImportedFile, ImportOverlapsRow, UsedRowStays,
         CountedUsersAreLate, OneRowPerName, OneImagePerFile, Mounts,
         RegisteredImageIsWhole, VMBootsItsImage, ImagesInUseStay, Importing, Using, Ids,
         NoId, NoFile
<1> QED
  BY <1>1, InitTyped DEF IInv, Typed

\* One step per action: a command begins, goes on or ends, and a VM is destroyed.
LEMMA StepKeepsIInv == IInv /\ Typed' /\ [Next]_vars => IInv'
<1> SUFFICES ASSUME IInv, Typed', [Next]_vars PROVE IInv'
  OBVIOUS
<1> USE MaxIdsAssumption, NoNameAssumption, NoVMAssumption
    DEF IInv, Typed, TypeOK, Bookkeeping, Imports, Rows, Promises, Jobs, Unused, Overlaps,
        OneNamePerId, StartedVM, ImportIsNew, ImportedFile, ImportOverlapsRow, UsedRowStays,
        CountedUsersAreLate, OneRowPerName, OneImagePerFile, Mounts, LeaveMounted,
        Mountable, Doomed, RegisteredImageIsWhole, VMBootsItsImage, ImagesInUseStay, Importing,
        Using, Registered, Users, Contents, Ids, NoId, NoFile,
        Begin, End, Proceed, Write, job, history
<1>1. ASSUME NEW p \in Procs, NEW n \in Names, StartImport(p, n) PROVE IInv'
  <2>1. Bookkeeping'
    BY <1>1 DEF StartImport
  <2>2. Imports'
    BY <1>1 DEF StartImport
  <2>3. Rows'
    BY <1>1 DEF StartImport
  <2>4. Promises'
    BY <1>1 DEF StartImport
  <2> QED
    BY <2>1, <2>2, <2>3, <2>4
<1>2. ASSUME NEW p \in Procs, NEW r \in rows, NEW f \in BOOLEAN, StartDelete(p, r, f) PROVE IInv'
  <2>1. Bookkeeping'
    <3>1. Overlaps'
      BY <1>2 DEF StartDelete
    <3>2. OneNamePerId'
      BY <1>2 DEF StartDelete
    <3>3. StartedVM'
      BY <1>2 DEF StartDelete
    <3> QED
      BY <3>1, <3>2, <3>3
  <2>2. Imports'
    BY <1>2 DEF StartDelete
  <2>3. Rows'
    BY <1>2 DEF StartDelete
  <2>4. Promises'
    BY <1>2 DEF StartDelete
  <2> QED
    BY <2>1, <2>2, <2>3, <2>4
<1>3. ASSUME NEW p \in Procs, NEW r \in rows, StartUpgrade(p, r) PROVE IInv'
  <2>1. Bookkeeping'
    <3>1. Overlaps'
      BY <1>3 DEF StartUpgrade
    <3>2. OneNamePerId'
      BY <1>3 DEF StartUpgrade
    <3>3. StartedVM'
      BY <1>3 DEF StartUpgrade
    <3> QED
      BY <3>1, <3>2, <3>3
  <2>2. Imports'
    BY <1>3 DEF StartUpgrade
  <2>3. Rows'
    BY <1>3 DEF StartUpgrade
  <2>4. Promises'
    BY <1>3 DEF StartUpgrade
  <2> QED
    BY <2>1, <2>2, <2>3, <2>4
<1>4. ASSUME NEW p \in Procs, NEW r \in rows, NEW flag, ResolveImage(p, r, flag) PROVE IInv'
  <2>1. Bookkeeping'
    <3>1. Overlaps'
      BY <1>4 DEF ResolveImage
    <3>2. OneNamePerId'
      BY <1>4 DEF ResolveImage
    <3>3. StartedVM'
      BY <1>4 DEF ResolveImage
    <3> QED
      BY <3>1, <3>2, <3>3
  <2>2. Imports'
    BY <1>4 DEF ResolveImage
  <2>3. Rows'
    BY <1>4 DEF ResolveImage
  <2>4. Promises'
    BY <1>4 DEF ResolveImage
  <2> QED
    BY <2>1, <2>2, <2>3, <2>4
<1>5. ASSUME NEW v \in VMs, Destroy(v) PROVE IInv'
  <2>1. Bookkeeping'
    BY <1>5 DEF Destroy
  <2>2. Imports'
    BY <1>5 DEF Destroy
  <2>3. Rows'
    BY <1>5 DEF Destroy
  <2>4. Promises'
    BY <1>5 DEF Destroy
  <2> QED
    BY <2>1, <2>2, <2>3, <2>4
<1>6. ASSUME NEW p \in Procs, Create(p) PROVE IInv'
  <2>1. Bookkeeping'
    BY <1>6 DEF Create
  <2>2. Imports'
    BY <1>6 DEF Create
  <2>3. Rows'
    BY <1>6 DEF Create
  <2>4. Promises'
    BY <1>6 DEF Create
  <2> QED
    BY <2>1, <2>2, <2>3, <2>4
<1>7. ASSUME NEW p \in Procs, CopyIn(p) PROVE IInv'
  <2>1. Bookkeeping'
    BY <1>7 DEF CopyIn
  <2>2. Imports'
    BY <1>7 DEF CopyIn
  <2>3. Rows'
    BY <1>7 DEF CopyIn
  <2>4. Promises'
    BY <1>7 DEF CopyIn
  <2> QED
    BY <2>1, <2>2, <2>3, <2>4
<1>8. ASSUME NEW p \in Procs, InsertImage(p) PROVE IInv'
  <2>1. Bookkeeping'
    <3>1. Overlaps'
      BY <1>8 DEF InsertImage
    <3>2. OneNamePerId'
      BY <1>8 DEF InsertImage
    <3>3. StartedVM'
      BY <1>8 DEF InsertImage
    <3> QED
      BY <3>1, <3>2, <3>3
  <2>2. Imports'
    BY <1>8 DEF InsertImage
  <2>3. Rows'
    BY <1>8 DEF InsertImage
  <2>4. Promises'
    <3>1. RegisteredImageIsWhole'
      <4> SUFFICES ASSUME NEW r \in rows', r.id \in alone'
                   PROVE  file[r.name].of = r.id /\ file[r.name].bytes \in {"whole", "agentless"}
        BY <1>8 DEF InsertImage
      <4>1. CASE r \in rows
        <5>1. r.id \in alone
          BY <4>1, <1>8 DEF InsertImage
        <5> QED
          BY <4>1, <5>1
      <4>2. CASE r = [id |-> id[p], name |-> name[p]]
        <5>1. p \notin racing
          BY <4>2, <1>8 DEF InsertImage
        <5>2. file[name[p]] = [of |-> id[p], bytes |-> "whole"]
          BY <5>1, <1>8 DEF InsertImage
        <5> QED
          BY <4>2, <5>2
      <4> QED
        BY <4>1, <4>2, <1>8 DEF InsertImage
    <3>2. VMBootsItsImage'
      BY <1>8 DEF InsertImage
    <3>3. ImagesInUseStay'
      BY <1>8 DEF InsertImage
    <3> QED
      BY <3>1, <3>2, <3>3
  <2> QED
    BY <2>1, <2>2, <2>3, <2>4
<1>9. ASSUME NEW p \in Procs, CountVMsUsingImage(p) PROVE IInv'
  <2>1. Bookkeeping'
    <3>1. CASE End(p)
      BY <3>1, <1>9 DEF CountVMsUsingImage
    <3>2. CASE Proceed(p, "count", "delete") /\ UNCHANGED vm
      BY <3>2, <1>9 DEF CountVMsUsingImage
    <3> QED
      BY <3>1, <3>2, <1>9 DEF CountVMsUsingImage
  <2>2. Imports'
    <3>1. CASE End(p)
      BY <3>1, <1>9 DEF CountVMsUsingImage
    <3>2. CASE Proceed(p, "count", "delete") /\ UNCHANGED vm
      BY <3>2, <1>9 DEF CountVMsUsingImage
    <3> QED
      BY <3>1, <3>2, <1>9 DEF CountVMsUsingImage
  <2>3. Rows'
    <3>1. CASE End(p)
      BY <3>1, <1>9 DEF CountVMsUsingImage
    <3>2. CASE Proceed(p, "count", "delete") /\ UNCHANGED vm
      BY <3>2, <1>9 DEF CountVMsUsingImage
    <3> QED
      BY <3>1, <3>2, <1>9 DEF CountVMsUsingImage
  <2>4. Promises'
    BY <1>9 DEF CountVMsUsingImage
  <2> QED
    BY <2>1, <2>2, <2>3, <2>4
<1>10. ASSUME NEW p \in Procs, DeleteImage(p) PROVE IInv'
  <2>1. Bookkeeping'
    BY <1>10 DEF DeleteImage
  <2>2. Imports'
    BY <1>10 DEF DeleteImage
  <2>3. Rows'
    BY <1>10 DEF DeleteImage
  <2>4. Promises'
    BY <1>10 DEF DeleteImage
  <2> QED
    BY <2>1, <2>2, <2>3, <2>4
<1>11. ASSUME NEW p \in Procs, RemoveAgent(p) PROVE IInv'
  <2>1. Bookkeeping'
    BY <1>11 DEF RemoveAgent
  <2>2. Imports'
    BY <1>11 DEF RemoveAgent
  <2>3. Rows'
    BY <1>11 DEF RemoveAgent
  <2>4. Promises'
    BY <1>11 DEF RemoveAgent
  <2> QED
    BY <2>1, <2>2, <2>3, <2>4
<1>12. ASSUME NEW p \in Procs, WriteAgent(p) PROVE IInv'
  <2>1. Bookkeeping'
    BY <1>12 DEF WriteAgent
  <2>2. Imports'
    <3>1. ImportIsNew'
      BY <1>12 DEF WriteAgent
    <3>2. ImportedFile'
      BY <1>12 DEF WriteAgent
    <3>3. ImportOverlapsRow'
      BY <1>12 DEF WriteAgent
    <3> QED
      BY <3>1, <3>2, <3>3
  <2>3. Rows'
    BY <1>12 DEF WriteAgent
  <2>4. Promises'
    BY <1>12 DEF WriteAgent
  <2> QED
    BY <2>1, <2>2, <2>3, <2>4
<1>13. ASSUME NEW p \in Procs, AllocateAndInsert(p) PROVE IInv'
  <2>1. Bookkeeping'
    BY <1>13 DEF AllocateAndInsert
  <2>2. Imports'
    BY <1>13 DEF AllocateAndInsert
  <2>3. Rows'
    BY <1>13 DEF AllocateAndInsert
  <2>4. Promises'
    <3>1. RegisteredImageIsWhole'
      BY <1>13 DEF AllocateAndInsert
    <3>2. VMBootsItsImage'
      BY <1>13 DEF AllocateAndInsert
    <3>3. ImagesInUseStay'
      <4> HIDE DEF IInv, Typed
      <4>1. PICK v \in VMs : image[v] = NoId /\ image' = [image EXCEPT ![v] = id[p]]
                             /\ late' = IF Doomed(id[p]) THEN late \cup {v} ELSE late
        BY <1>13 DEF AllocateAndInsert
      <4>2. ASSUME ~Doomed(id[p]) PROVE \E r \in rows : r.id = id[p]
        BY <4>2
      <4> QED
        BY <4>1, <4>2, <1>13 DEF AllocateAndInsert, IInv
    <3> QED
      BY <3>1, <3>2, <3>3
  <2> QED
    BY <2>1, <2>2, <2>3, <2>4
<1>14. ASSUME NEW p \in Procs, ReflinkCopy(p) PROVE IInv'
  <2>1. Bookkeeping'
    BY <1>14 DEF ReflinkCopy
  <2>2. Imports'
    BY <1>14 DEF ReflinkCopy
  <2>3. Rows'
    BY <1>14 DEF ReflinkCopy
  <2>4. Promises'
    <3>1. RegisteredImageIsWhole'
      BY <1>14 DEF ReflinkCopy
    <3>2. VMBootsItsImage'
      <4>1. vm[p] \in VMs /\ image[vm[p]] = id[p]
        BY <1>14 DEF ReflinkCopy
      <4>2. ASSUME p \notin racing, id[p] \in alone
            PROVE  file[name[p]].of = id[p] /\ file[name[p]].bytes \in {"whole", "agentless"}
        <5> DEFINE r == [id |-> id[p], name |-> name[p]]
        <5>1. r \in rows
          BY <4>2, <1>14 DEF ReflinkCopy
        <5> QED
          BY <4>2, <5>1
      <4>3. rootfs' = [rootfs EXCEPT ![vm[p]] = file[name[p]]] /\ UNCHANGED <<image, alone>>
        BY <1>14 DEF ReflinkCopy
      <4>4. vm[p] \notin disturbed' => p \notin racing
        BY <1>14 DEF ReflinkCopy
      <4>5. \A v \in VMs : v \notin disturbed' => v \notin disturbed
        BY <1>14 DEF ReflinkCopy
      <4> QED
        BY <4>1, <4>2, <4>3, <4>4, <4>5
    <3>3. ImagesInUseStay'
      BY <1>14 DEF ReflinkCopy
    <3> QED
      BY <3>1, <3>2, <3>3
  <2> QED
    BY <2>1, <2>2, <2>3, <2>4
<1>15. ASSUME NEW p \in Procs, Stop(p) PROVE IInv'
  <2>1. Bookkeeping'
    BY <1>15 DEF Stop
  <2>2. Imports'
    BY <1>15 DEF Stop
  <2>3. Rows'
    BY <1>15 DEF Stop
  <2>4. Promises'
    BY <1>15 DEF Stop
  <2> QED
    BY <2>1, <2>2, <2>3, <2>4
<1>16. ASSUME NEW m \in mounts, Writeback(m) PROVE IInv'
  <2>1. Bookkeeping'
    BY <1>16 DEF Writeback
  <2>2. Imports'
    BY <1>16 DEF Writeback
  <2>3. Rows'
    BY <1>16 DEF Writeback
  <2>4. Promises'
    BY <1>16 DEF Writeback
  <2> QED
    BY <2>1, <2>2, <2>3, <2>4
<1>17. CASE UNCHANGED vars
  BY <1>17 DEF vars
<1> HIDE DEF IInv
<1> QED
  BY <1>1, <1>2, <1>3, <1>4, <1>5, <1>6, <1>7, <1>8, <1>9,
     <1>10, <1>11, <1>12, <1>13, <1>14, <1>15, <1>16, <1>17 DEF Next

LEMMA Invariance == Spec => []IInv
<1>1. IInv => Typed
  BY DEF IInv, Bookkeeping, Typed
<1> QED
  BY InitEstablishesIInv, InitTyped, StepTyped, StepKeepsIInv, <1>1, PTL DEF Spec

-----------------------------------------------------------------------------
(* What the registry promises *)

\* However many commands failed, were killed or raced elsewhere, a registered image
\* is the complete file its own import wrote, if the import had the file to itself.
THEOREM RegisteredImagesAreWhole == Spec => []RegisteredImageIsWhole
<1>1. IInv => RegisteredImageIsWhole
  BY DEF IInv, Promises
<1> QED
  BY Invariance, <1>1, PTL

\* A VM's disk is a complete clone of the image its row names, under the same proviso.
THEOREM VMsBootTheirImage == Spec => []VMBootsItsImage
<1>1. IInv => VMBootsItsImage
  BY DEF IInv, Promises
<1> QED
  BY Invariance, <1>1, PTL

\* Delete without --force spares the image of every VM whose row is there when it counts,
\* however runs, deletes and upgrades interleave.
THEOREM DeleteSparesUsedImages == Spec => []ImagesInUseStay
<1>1. IInv => ImagesInUseStay
  BY DEF IInv, Promises
<1> QED
  BY Invariance, <1>1, PTL
=============================================================================
