-------------------------- MODULE ConfigEditorProofs --------------------------
(***************************************************************************)
(* Proofs about ConfigEditor, for any texts, any size of the ring of       *)
(* backups, any number of saves at once and any number of failed calls and *)
(* deaths: what the file is between saves, and that a save is atomic.      *)
(***************************************************************************)
EXTENDS ConfigEditor, WellFoundedInduction, FiniteSetTheorems, TLAPS

(***************************************************************************)
(* The slot of a backup                                                    *)
(***************************************************************************)

Less == {p \in Nat \X Nat : p[1] < p[2]}

\* Every set of numbers that has one has a least.
LEMMA Least ==
    ASSUME NEW T, T \subseteq Nat, T # {}
    PROVE  \E x \in T : \A y \in T : x <= y
<1>1. IsWellFoundedOn(OpToRel(<, Nat), Nat)
  BY NatLessThanWellFounded
<1>2. IsWellFoundedOn(Less, Nat)
  BY <1>1 DEF OpToRel, Less
<1>3. PICK x \in T : \A y \in T : <<y, x>> \notin Less
  BY <1>2, WFMin
<1>4. ASSUME NEW y \in T PROVE x <= y
  <2>1. <<y, x>> \in Nat \X Nat /\ <<y, x>>[1] = y /\ <<y, x>>[2] = x
    OBVIOUS
  <2>2. y < x => <<y, x>> \in Less
    BY <2>1 DEF Less
  <2> QED
    BY <1>3, <2>2
<1> QED
  BY <1>4

\* The greatest number of a bounded set is one of the set.
LEMMA MaxIsMember ==
    ASSUME NEW n \in Nat, NEW T, T \subseteq 0..n, T # {}
    PROVE  Max(T) \in T
<1> DEFINE Bounds == {b \in Nat : \A y \in T : y <= b}
<1>1. n \in Bounds
  OBVIOUS
<1>2. PICK b \in Bounds : \A c \in Bounds : b <= c
  BY <1>1, Least
<1>3. b \in T
  <2> SUFFICES ASSUME b \notin T PROVE FALSE
    OBVIOUS
  <2>1. \A y \in T : y < b
    BY <1>2
  <2>2. b # 0 /\ b - 1 \in Nat
    <3>1. PICK y \in T : TRUE
      OBVIOUS
    <3>2. y \in Nat /\ b \in Nat /\ y < b
      BY <2>1, <3>1
    <3> QED
      BY <3>2
  <2>3. b - 1 \in Bounds
    BY <1>2, <2>1, <2>2
  <2> QED
    BY <1>2, <2>2, <2>3
<1>4. \E x \in T : \A y \in T : x >= y
  BY <1>2, <1>3
<1> QED
  BY <1>4 DEF Max

\* backup_config always finds a slot of the ring.
LEMMA SlotInRing ==
    ASSUME TypeOK
    PROVE  NextSlot \in Slots
<1>1. MaxBackups \in Nat \ {0} /\ MaxBackups - 1 \in Nat /\ Filled \subseteq 0..(MaxBackups - 1)
  BY ConfigEditorAssumption DEF ConfigEditorAssumption, Filled, Slots
<1>2. CASE Filled = {}
  BY <1>1, <1>2 DEF Slots, NextSlot
<1>3. CASE Filled # {}
  <2>1. Max(Filled) \in 0..(MaxBackups - 1)
    BY <1>1, <1>3, MaxIsMember
  <2>2. (Max(Filled) + 1) % MaxBackups \in 0..(MaxBackups - 1)
    BY <1>1, <2>1
  <2> QED
    BY <1>3, <2>2 DEF Slots, NextSlot
<1> QED
  BY <1>2, <1>3

(***************************************************************************)
(* Types                                                                   *)
(***************************************************************************)

\* A save that is about to copy has something to copy: nothing removes it.
CopiesAFile == \A s \in Saves :
    /\ pc[s] \in {"copy", "copying"} => file # Absent
    /\ pc[s] = "restoring" => backups[slot[s]] # Absent

\* What a write or a copy is until it ends.
LEMMA CutIsVersion ==
    ASSUME TypeOK, NEW t \in Texts, NEW part \in Cut(t)
    PROVE  part \in Versions /\ part # Absent /\ part.mtime = clock /\ part.text \in {Partial, t}
<1>1. part \in [text : Texts, mtime : Nat] /\ part.mtime = clock /\ part.text \in {Partial, t}
  BY DEF Cut, TypeOK, Texts
<1> QED
  BY <1>1, ConfigEditorAssumption DEF ConfigEditorAssumption, Versions, Texts

\* The versions there are have a text and a time.
LEMMA Timed ==
    ASSUME TypeOK
    PROVE  /\ file # Absent => file.mtime \in Nat /\ file.text \in Texts
           /\ \A i \in Filled : i \in Slots /\ backups[i].mtime \in Nat /\ backups[i].text \in Texts
           /\ \A s \in Saves : before[s] # Absent => before[s].mtime \in Nat
           /\ clock \in Nat
  BY DEF TypeOK, Versions, Filled

LEMMA InitTypes == Init => TypeOK /\ CopiesAFile
<1> SUFFICES ASSUME Init PROVE TypeOK /\ CopiesAFile
  OBVIOUS
<1>1. MaxBackups - 1 \in Nat /\ 0 \in Slots /\ MaxFaults \in Nat
  BY ConfigEditorAssumption DEF ConfigEditorAssumption, Slots
<1>2. file \in Versions /\ loaded \in Texts \cup {Absent}
  BY DEF Init, Versions, Texts
<1>3. /\ backups \in [Slots -> Versions] /\ before \in [Saves -> Versions] /\ slot \in [Saves -> Slots]
      /\ backup \in [Saves -> BOOLEAN] /\ pc \in [Saves -> Steps]
      /\ \A s \in Saves : pc[s] = "idle" /\ ~backup[s]
  BY <1>1 DEF Init, Versions, Steps
<1>4. clock \in Nat /\ faults \in 0..MaxFaults
  <2>1. clock = 1 /\ faults = 0
    BY DEF Init
  <2> QED
    BY <1>1, <2>1
<1>5. left \subseteq Saves /\ adrift \in BOOLEAN /\ torn \in BOOLEAN
  BY DEF Init
<1>6. TypeOK
  BY <1>2, <1>3, <1>4, <1>5 DEF TypeOK
<1> QED
  BY <1>3, <1>6 DEF CopiesAFile

\* A step that leaves what is on disk, what saves hold and what they began with.
LEMMA MoveTypes ==
    ASSUME TypeOK, CopiesAFile, NEW s \in Saves, NEW step \in Steps \ {"copy", "copying", "restoring"},
           Go(s, step), UNCHANGED <<disk, slot, backup, before>>, faults' = faults \/ Fault,
           loaded' = loaded \/ (MayPass /\ loaded' = file.text),
           left' \subseteq Saves, adrift' \in BOOLEAN, torn' \in BOOLEAN
    PROVE  TypeOK' /\ CopiesAFile'
<1>1. pc' \in [Saves -> Steps] /\ \A r \in Saves : pc'[r] = pc[r] \/ pc'[r] = step
  BY DEF TypeOK, Go
<1>2. faults' \in 0..MaxFaults
  BY ConfigEditorAssumption DEF ConfigEditorAssumption, TypeOK, Fault
<1>3. loaded' \in Texts \cup {Absent}
  BY Timed DEF TypeOK, MayPass, Accepted
<1>4. TypeOK'
  BY <1>1, <1>2, <1>3 DEF TypeOK, disk, Filled
<1>5. CopiesAFile'
  BY <1>1 DEF CopiesAFile, disk
<1> QED
  BY <1>4, <1>5

LEMMA StepTypes ==
    ASSUME TypeOK, CopiesAFile, [Next]_vars
    PROVE  TypeOK' /\ CopiesAFile'
<1>0. /\ Absent \notin [text : Texts, mtime : Nat] /\ Saves \subseteq Texts /\ Partial \in Texts
      /\ MaxFaults \in Nat
  BY ConfigEditorAssumption DEF ConfigEditorAssumption, Texts
<1>1. ASSUME NEW s \in Saves, ChooseSlot(s) PROVE TypeOK' /\ CopiesAFile'
  <2>1. /\ slot' \in [Saves -> Slots] /\ before' \in [Saves -> Versions]
        /\ pc' \in [Saves -> Steps] /\ UNCHANGED <<file, backups, clock, loaded, backup, faults>>
        /\ \A r \in Saves : r # s => pc'[r] = pc[r] /\ slot'[r] = slot[r]
        /\ pc'[s] = IF file = Absent THEN "write" ELSE "copy"
    BY <1>1, SlotInRing DEF ChooseSlot, TypeOK, Go, Steps, disk
  <2>2. left' \subseteq Saves /\ adrift' \in BOOLEAN /\ torn' \in BOOLEAN
    BY <1>1 DEF ChooseSlot, TypeOK, history, Leave, InProgress
  <2>3. TypeOK'
    BY <2>1, <2>2 DEF TypeOK, Filled
  <2>4. CopiesAFile'
    BY <2>1 DEF CopiesAFile
  <2> QED
    BY <2>3, <2>4
<1>2. ASSUME NEW s \in Saves, StartCopy(s) PROVE TypeOK' /\ CopiesAFile'
  <2>1. PICK part \in Cut(file.text) : backups' = [backups EXCEPT ![slot[s]] = part]
    BY <1>2 DEF StartCopy
  <2>2. part \in Versions /\ part # Absent
    BY <1>2, <2>1, Timed, CutIsVersion DEF StartCopy, CopiesAFile
  <2>3. /\ backups' \in [Slots -> Versions] /\ clock' \in Nat /\ pc' \in [Saves -> Steps]
        /\ \A i \in Slots : backups[i] # Absent => backups'[i] # Absent
        /\ UNCHANGED <<file, loaded, slot, backup, faults, before, left, adrift, torn>>
        /\ \A r \in Saves : pc'[r] = IF r = s THEN "copying" ELSE pc[r]
    BY <1>2, <2>1, <2>2 DEF StartCopy, TypeOK, Go, Steps, history
  <2>4. TypeOK'
    BY <2>3 DEF TypeOK, Filled
  <2>5. CopiesAFile'
    BY <1>2, <2>3 DEF CopiesAFile, TypeOK, StartCopy
  <2> QED
    BY <2>4, <2>5
<1>3. ASSUME NEW s \in Saves, Copy(s) PROVE TypeOK' /\ CopiesAFile'
  <2>1. /\ backups' \in [Slots -> Versions] /\ slot[s] \in Slots /\ backups'[slot[s]] # Absent
        /\ \A i \in Slots : backups[i] # Absent => backups'[i] # Absent
        /\ backup' \in [Saves -> BOOLEAN] /\ pc' \in [Saves -> Steps]
        /\ UNCHANGED <<file, loaded, slot, clock, faults, before, left, adrift, torn>>
        /\ \A r \in Saves : pc'[r] = IF r = s THEN "write" ELSE pc[r]
    BY <1>3 DEF Copy, TypeOK, CopiesAFile, Go, Steps, history
  <2>2. Filled' # {}
    BY <2>1 DEF Filled
  <2>3. TypeOK'
    BY <2>1, <2>2 DEF TypeOK
  <2>4. CopiesAFile'
    BY <2>1 DEF CopiesAFile, TypeOK
  <2> QED
    BY <2>3, <2>4
<1>4. ASSUME NEW s \in Saves, StartWrite(s) \/ Write(s) PROVE TypeOK' /\ CopiesAFile'
  <2>1. [text |-> s, mtime |-> clock] \in Cut(s)
    BY DEF Cut
  <2>2. file' \in Cut(s)
    BY <1>4, <2>1 DEF StartWrite, Write
  <2>3. file' \in Versions /\ file' # Absent
    BY <1>0, <2>2, CutIsVersion
  <2>4. /\ clock' \in Nat /\ pc' \in [Saves -> Steps]
        /\ UNCHANGED <<backups, loaded, slot, backup, faults, before, left, adrift, torn>>
        /\ \A r \in Saves : pc'[r] = pc[r] \/ pc'[r] \in {"writing", "validate"}
    BY <1>4 DEF StartWrite, Write, TypeOK, Go, Steps, history
  <2>5. TypeOK'
    BY <2>3, <2>4 DEF TypeOK, Filled
  <2>6. CopiesAFile'
    BY <2>3, <2>4 DEF CopiesAFile
  <2> QED
    BY <2>5, <2>6
<1>5. ASSUME NEW s \in Saves, CopyFails(s) \/ WriteFails(s) \/ NothingToRestore(s) \/ RestoreFails(s)
      PROVE  TypeOK' /\ CopiesAFile'
  <2>1. /\ \E step \in {"raised", "restore", "refused"} : Go(s, step)
        /\ UNCHANGED <<disk, slot, backup, before>> /\ (faults' = faults \/ Fault) /\ loaded' = loaded
    BY <1>5 DEF CopyFails, WriteFails, NothingToRestore, RestoreFails
  <2>2. left' \subseteq Saves /\ adrift' \in BOOLEAN /\ torn' \in BOOLEAN
    BY <1>5 DEF CopyFails, WriteFails, NothingToRestore, RestoreFails, Leave, TypeOK, history
  <2> QED
    BY <2>1, <2>2, MoveTypes DEF Steps, Ended
<1>6. ASSUME NEW s \in Saves, Validate(s) \/ ValidateFails(s) \/ Reload(s) \/ ReloadFails(s)
      PROVE  TypeOK' /\ CopiesAFile'
  <2>1. /\ \E step \in {"reload", "raised", "restore", "saved"} : Go(s, step)
        /\ UNCHANGED <<disk, slot, backup, before>> /\ (faults' = faults \/ Fault)
        /\ loaded' = loaded \/ (MayPass /\ loaded' = file.text)
    BY <1>6 DEF Validate, ValidateFails, Reload, ReloadFails
  <2>2. left' \subseteq Saves /\ adrift' \in BOOLEAN /\ torn' \in BOOLEAN
    BY <1>6 DEF Validate, ValidateFails, Reload, ReloadFails, Leave, TypeOK, history
  <2> QED
    BY <2>1, <2>2, MoveTypes DEF Steps, Ended
<1>7. ASSUME NEW s \in Saves, StartRestore(s) PROVE TypeOK' /\ CopiesAFile'
  <2>1. PICK i \in Newest : slot' = [slot EXCEPT ![s] = i] /\ file' \in Cut(backups[i].text)
    BY <1>7 DEF StartRestore
  <2>2. i \in Slots /\ backups[i] # Absent /\ file' \in Versions /\ file' # Absent
    BY <2>1, Timed, CutIsVersion DEF Newest, Filled
  <2>3. /\ clock' \in Nat /\ pc' \in [Saves -> Steps] /\ slot' \in [Saves -> Slots]
        /\ UNCHANGED <<backups, loaded, backup, faults, before, left, adrift, torn>>
        /\ \A r \in Saves : pc'[r] = IF r = s THEN "restoring" ELSE pc[r]
        /\ \A r \in Saves : slot'[r] = IF r = s THEN i ELSE slot[r]
    BY <1>7, <2>1, <2>2 DEF StartRestore, TypeOK, Go, Steps, history
  <2>4. TypeOK'
    BY <2>2, <2>3 DEF TypeOK, Filled
  <2>5. CopiesAFile'
    BY <2>2, <2>3 DEF CopiesAFile
  <2> QED
    BY <2>4, <2>5
<1>8. ASSUME NEW s \in Saves, Restore(s) PROVE TypeOK' /\ CopiesAFile'
  <2>1. file' \in Versions /\ file' # Absent
    BY <1>8 DEF Restore, CopiesAFile, TypeOK
  <2>2. /\ pc' \in [Saves -> Steps]
        /\ UNCHANGED <<backups, clock, loaded, slot, backup, faults, before>>
        /\ left' \subseteq Saves /\ adrift' \in BOOLEAN /\ torn' \in BOOLEAN
        /\ \A r \in Saves : pc'[r] = IF r = s THEN "refused" ELSE pc[r]
    BY <1>8 DEF Restore, TypeOK, Go, Steps, Ended, history, Leave
  <2>3. TypeOK'
    BY <2>1, <2>2 DEF TypeOK, Filled
  <2>4. CopiesAFile'
    BY <2>1, <2>2 DEF CopiesAFile
  <2> QED
    BY <2>3, <2>4
<1>9. ASSUME Crash PROVE TypeOK' /\ CopiesAFile'
  <2>1. /\ pc' \in [Saves -> Steps] /\ faults' \in 0..MaxFaults
        /\ UNCHANGED <<file, backups, clock, slot, backup, before>>
        /\ \A r \in Saves : pc'[r] \in {pc[r], "lost"}
    BY <1>0, <1>9 DEF Crash, TypeOK, Steps, Ended, Fault, disk
  <2>2. left' \subseteq Saves /\ adrift' \in BOOLEAN /\ torn' \in BOOLEAN
    BY <1>9 DEF Crash, TypeOK, InProgress
  <2>3. loaded' \in Texts \cup {Absent}
    BY <1>9, Timed DEF Crash, TypeOK, MayPass, Accepted
  <2>4. TypeOK'
    BY <2>1, <2>2, <2>3 DEF TypeOK, Filled
  <2>5. CopiesAFile'
    BY <2>1 DEF CopiesAFile
  <2> QED
    BY <2>4, <2>5
<1>10. ASSUME UNCHANGED vars PROVE TypeOK' /\ CopiesAFile'
  BY <1>10 DEF vars, TypeOK, CopiesAFile, Filled
<1> QED
  BY <1>1, <1>2, <1>3, <1>4, <1>5, <1>6, <1>7, <1>8, <1>9, <1>10 DEF Next, Save, Fails

\* Every variable keeps its type, and a save that holds a backup finds one to
\* restore: however many saves overlap, whatever fails and whenever the panel dies.
THEOREM TypeCorrect == Spec => []TypeOK
<1>1. TypeOK /\ CopiesAFile /\ [Next]_vars => (TypeOK /\ CopiesAFile)'
  BY StepTypes
<1> QED
  BY InitTypes, <1>1, PTL DEF Spec

(***************************************************************************)
(* The rest of the invariant, action by action                             *)
(***************************************************************************)

\* What IInv says apart from the types.
Course ==
    /\ \A s \in Saves : pc[s] = "idle" => ~backup[s]
    /\ \A s \in Saves : pc[s] = "idle" => s \notin left
    /\ Alone
    /\ TimesGrow
    /\ BackupsAreOlder
    /\ SaveOnCourse
    /\ CountedOnCourse
    /\ RestingFileIsRight

\* A save in progress goes on, or ends.
LEMMA GoesOn ==
    ASSUME TypeOK, NEW s \in InProgress, NEW step \in Steps \ {"idle"}, Go(s, step)
    PROVE  /\ s \in Saves /\ pc[s] # "idle" /\ pc'[s] = step
           /\ \A r \in Saves : r # s => pc'[r] = pc[r]
           /\ \A r \in Saves : pc'[r] = "idle" => pc[r] = "idle"
           /\ InProgress' = IF step \in Ended THEN InProgress \ {s} ELSE InProgress
<1>1. s \in Saves /\ pc[s] # "idle" /\ pc[s] \notin Ended
  BY DEF InProgress
<1>2. \A r \in Saves : pc'[r] = IF r = s THEN step ELSE pc[r]
  BY <1>1 DEF Go, TypeOK
<1>3. InProgress' = IF step \in Ended THEN InProgress \ {s} ELSE InProgress
  BY <1>1, <1>2 DEF InProgress
<1> QED
  BY <1>1, <1>2, <1>3

\* restore_latest_backup takes the version the save began with.
LEMMA NewestIsBefore ==
    ASSUME TypeOK, NEW s \in Saves, before[s] # Absent, BackupIsLatest(s), NEW i \in Newest
    PROVE  backups[i] = before[s] /\ i \in Filled
<1>1. PICK k \in Filled : backups[k] = before[s]
  BY DEF BackupIsLatest
<1>2. i \in Filled /\ backups[k].mtime <= backups[i].mtime /\ OlderOrSame(backups[i], before[s])
  BY <1>1 DEF Newest, BackupIsLatest
<1> QED
  BY <1>1, <1>2, Timed DEF OlderOrSame

LEMMA InitCourse == Init => Course
<1> SUFFICES ASSUME Init PROVE Course
  OBVIOUS
<1>1. InProgress = {} /\ Filled = {} /\ Counted = {}
  BY DEF Init, InProgress, Filled, Counted
<1>2. RestingFileIsRight
  BY DEF Init, RestingFileIsRight, Accepted
<1>3. TimesGrow
  BY <1>1 DEF Init, TimesGrow
<1> QED
  BY <1>1, <1>2, <1>3 DEF Init, Course, Alone, BackupsAreOlder, SaveOnCourse, CountedOnCourse

\* The history of the saves: s goes on, and may be left.
LEMMA AloneStays ==
    ASSUME TypeOK, Course, NEW s \in InProgress, NEW step \in Steps \ {"idle"}, Go(s, step),
           left' = left \/ left' = left \cup {s}, left' = left \/ adrift', adrift => adrift',
           torn => torn', s \in left' /\ ~torn' => step \in {"restore", "restoring"} \cup Ended
    PROVE  Alone' /\ \A r \in Saves : pc'[r] = "idle" => r \notin left'
<1>1. /\ pc'[s] = step /\ \A r \in Saves : r # s => pc'[r] = pc[r]
      /\ InProgress' = IF step \in Ended THEN InProgress \ {s} ELSE InProgress
      /\ s \in Saves /\ \A r \in Saves : pc'[r] = "idle" => pc[r] = "idle" /\ r # s
  BY GoesOn
<1>2. \A r \in Saves : pc'[r] = "idle" => r \notin left'
  BY <1>1 DEF Course
<1>3. ASSUME NEW r \in InProgress' \ left' PROVE InProgress' = {r}
  BY <1>1, <1>3 DEF Course, Alone
<1>4. ASSUME NEW r \in InProgress', r \in left'
      PROVE  adrift' /\ (torn' \/ pc'[r] \in {"restore", "restoring"})
  <2>1. CASE r = s
    <3>1. step \notin Ended
      BY <1>1, <1>4, <2>1
    <3> QED
      BY <1>1, <1>4, <2>1, <3>1 DEF Course, Alone
  <2>2. CASE r # s
    <3>1. r \in left /\ r \in InProgress
      BY <1>1, <1>4, <2>2
    <3> QED
      BY <1>1, <2>2, <3>1 DEF Course, Alone
  <2> QED
    BY <2>1, <2>2
<1>5. ~torn' => \A r, q \in InProgress' : r = q
  BY <1>1 DEF Course, Alone
<1> QED
  BY <1>2, <1>3, <1>4, <1>5 DEF Alone

\* A save in progress goes on, or ends, and leaves what is on disk and what it holds.
LEMMA MoveKeeps ==
    ASSUME TypeOK, Course, NEW s \in InProgress, NEW step \in {"reload", "restore"} \cup Ended,
           Go(s, step), UNCHANGED <<disk, slot, backup, before>>,
           left' = left \/ left' = left \cup {s}, left' = left \/ adrift', adrift => adrift',
           torn => torn', s \in left' /\ ~torn' => step \in {"restore"} \cup Ended,
           loaded' = loaded \/ adrift',
           pc[s] = "copying" => torn', pc[s] \in {"copy", "copying"} => step \in Ended,
           step = "reload" => pc[s] = "validate", step \in Ended => RestingFileIsRight'
    PROVE  Course'
<1>1. /\ s \in Saves /\ pc'[s] = step /\ \A r \in Saves : r # s => pc'[r] = pc[r]
      /\ \A r \in Saves : pc'[r] = "idle" => pc[r] = "idle"
      /\ InProgress' = IF step \in Ended THEN InProgress \ {s} ELSE InProgress
  BY GoesOn DEF Steps, Ended
<1>2. Alone' /\ \A r \in Saves : pc'[r] = "idle" => r \notin left'
  BY AloneStays DEF Steps, Ended
<1>3. \A r \in Saves : pc'[r] = "idle" => ~backup'[r]
  BY <1>1 DEF Course
<1>4. /\ UNCHANGED <<file, backups, clock, slot, backup, before>> /\ Filled' = Filled
  BY DEF disk, Filled
<1>5. TimesGrow'
  BY <1>4 DEF Course, TimesGrow
<1>6. BackupsAreOlder'
  <2> SUFFICES ASSUME ~torn' PROVE \A i \in Filled' \ Making' : file' # Absent /\ OlderOrSame(backups'[i], file')
    BY DEF BackupsAreOlder
  <2>1. Making \subseteq Making'
    BY <1>1, <1>4 DEF Making
  <2> QED
    BY <1>4, <2>1 DEF Course, BackupsAreOlder
<1>7. SaveOnCourse'
  <2> SUFFICES ASSUME NEW r \in InProgress'
               PROVE  /\ IF pc'[r] \in {"copy", "copying"} THEN before'[r] # Absent /\ ~backup'[r]
                         ELSE backup'[r] <=> before'[r] # Absent
                      /\ pc'[r] \notin {"copy", "copying"} /\ before'[r] # Absent /\ ~torn' => BackupIsLatest(r)'
                      /\ pc'[r] = "restoring" => backup'[r] /\ backups'[slot'[r]] # Absent
                      /\ pc'[r] = "restoring" /\ ~torn' => backups'[slot'[r]] = before'[r]
    BY DEF SaveOnCourse
  <2>1. r \in InProgress /\ r \in Saves /\ (BackupIsLatest(r) => BackupIsLatest(r)')
    BY <1>1, <1>4 DEF BackupIsLatest, InProgress
  <2>2. CASE r # s
    BY <1>1, <1>4, <2>1, <2>2 DEF Course, SaveOnCourse
  <2>3. CASE r = s
    BY <1>1, <1>4, <2>1, <2>3 DEF Course, SaveOnCourse
  <2> QED
    BY <2>2, <2>3
<1>8. CountedOnCourse'
  <2> SUFFICES ASSUME NEW r \in Counted'
               PROVE  /\ pc'[r] \in {"copy", "copying", "write"} => file' = before'[r]
                      /\ pc'[r] \in {"validate", "reload"} =>
                            file' # Absent /\ file'.text = r /\ \A i \in Filled' : backups'[i].mtime < file'.mtime
                      /\ before'[r] # Absent /\ ~adrift' =>
                            before'[r].text \in Valid \cup {Original} /\ loaded' = before'[r].text
    BY DEF CountedOnCourse
  <2>1. r \in Counted /\ r = s /\ step \in {"reload", "restore"}
    BY <1>1 DEF Counted, Course, Alone
  <2> QED
    BY <1>1, <1>4, <2>1 DEF Course, CountedOnCourse
<1>9. RestingFileIsRight'
  <2>1. step \notin Ended => s \in InProgress'
    BY <1>1
  <2> QED
    BY <2>1 DEF RestingFileIsRight
<1> QED
  BY <1>2, <1>3, <1>5, <1>6, <1>7, <1>8, <1>9 DEF Course

LEMMA CopyFailsKeeps ==
    ASSUME TypeOK, Course, NEW s \in Saves, CopyFails(s)
    PROVE  Course'
<1>1. s \in InProgress /\ Go(s, "raised") /\ UNCHANGED <<disk, file, loaded, slot, backup, before, left, adrift>>
  BY DEF CopyFails, InProgress, Ended, disk
<1>2. RestingFileIsRight'
  <2> SUFFICES ASSUME InProgress' = {}, file # Absent, ~adrift PROVE Accepted /\ file.text = loaded
    BY <1>1 DEF RestingFileIsRight, Accepted
  <2>1. s \in Counted /\ pc[s] \in {"copy", "copying"}
    BY <1>1 DEF Course, Alone, Counted, CopyFails
  <2> QED
    BY <2>1 DEF Course, CountedOnCourse, Accepted
<1>3. (torn => torn') /\ (pc[s] = "copying" => torn')
  BY DEF CopyFails, TypeOK
<1> QED
  BY <1>1, <1>2, <1>3, MoveKeeps DEF Ended

LEMMA TriesKeep ==
    ASSUME TypeOK, Course, NEW s \in Saves, WriteFails(s) \/ Validate(s) \/ ValidateFails(s) \/ ReloadFails(s)
    PROVE  Course'
<1>1. s \in InProgress /\ UNCHANGED <<disk, slot, backup, before>> /\ pc[s] \in {"write", "writing", "validate", "reload"}
  BY DEF WriteFails, Validate, ValidateFails, ReloadFails, InProgress, Ended
<1>2. CASE UNCHANGED <<loaded, history>> /\ Go(s, "restore")
  BY <1>1, <1>2, MoveKeeps DEF history, Ended
<1>3. CASE pc[s] = "validate" /\ UNCHANGED <<loaded, history>> /\ Go(s, "reload")
  <2>1. s \in left => torn
    BY <1>1, <1>3 DEF Course, Alone
  <2> QED
    BY <1>1, <1>3, <2>1, MoveKeeps DEF history, Ended
<1>4. ASSUME NEW step \in {"restore", "raised"}, Go(s, step), Leave({s}), UNCHANGED torn
      PROVE  Course'
  <2>1. RestingFileIsRight'
    BY <1>4 DEF RestingFileIsRight, Leave
  <2> QED
    BY <1>1, <1>4, <2>1, MoveKeeps DEF Leave, Ended
<1> QED
  BY <1>2, <1>3, <1>4 DEF WriteFails, Validate, ValidateFails, ReloadFails

LEMMA LeftKeep ==
    ASSUME TypeOK, Course, NEW s \in Saves, NothingToRestore(s) \/ RestoreFails(s)
    PROVE  Course'
<1>1. /\ s \in InProgress /\ UNCHANGED <<disk, loaded, slot, backup, before, torn>> /\ Leave({s})
      /\ pc[s] \in {"restore", "restoring"} /\ \E step \in {"refused", "raised"} : Go(s, step)
  BY DEF NothingToRestore, RestoreFails, InProgress, Ended
<1>2. RestingFileIsRight'
  BY <1>1 DEF RestingFileIsRight, Leave
<1> QED
  BY <1>1, <1>2, MoveKeeps DEF Leave, Ended

LEMMA ReloadKeeps ==
    ASSUME TypeOK, Course, NEW s \in Saves, Reload(s)
    PROVE  Course'
<1>1. s \in InProgress /\ pc[s] = "reload" /\ UNCHANGED <<disk, slot, backup, before>>
  BY DEF Reload, InProgress, Ended
<1>2. CASE Go(s, "restore") /\ UNCHANGED <<loaded, history>>
  BY <1>1, <1>2, MoveKeeps DEF history, Ended
<1>3. ASSUME MayPass, loaded' = file.text, Go(s, "saved"), UNCHANGED left,
             adrift' = (adrift /\ s \in left), torn' = (torn /\ s \in left)
      PROVE  Course'
  <2>1. CASE s \in left
    <3>1. adrift /\ adrift' /\ torn' = torn
      BY <1>1, <1>3, <2>1 DEF Course, Alone
    <3>2. RestingFileIsRight'
      BY <3>1 DEF RestingFileIsRight
    <3> QED
      BY <1>1, <1>3, <3>1, <3>2, MoveKeeps DEF Ended
  <2>2. CASE s \notin left
    <3>1. /\ s \in Saves /\ pc'[s] = "saved" /\ \A r \in Saves : r # s => pc'[r] = pc[r]
          /\ \A r \in Saves : pc'[r] = "idle" => pc[r] = "idle"
          /\ InProgress = {s} /\ InProgress' = {} /\ Counted' = {}
      BY <1>1, <1>3, <2>2, GoesOn DEF Steps, Ended, Course, Alone, Counted
    <3>2. file # Absent /\ file.text = s /\ \A i \in Filled : backups[i].mtime < file.mtime
      BY <1>1, <2>2 DEF Course, CountedOnCourse, Counted
    <3>3. UNCHANGED <<file, backups, clock, slot, backup, before>> /\ Filled' = Filled
      BY <1>1 DEF disk, Filled
    <3>4. TimesGrow'
      BY <3>3 DEF Course, TimesGrow
    <3>5. BackupsAreOlder'
      BY <3>2, <3>3 DEF BackupsAreOlder, OlderOrSame
    <3>6. RestingFileIsRight'
      <4>1. file.text # Partial
        BY <3>1, <3>2, ConfigEditorAssumption DEF ConfigEditorAssumption
      <4>2. Accepted
        BY <1>3, <4>1 DEF MayPass
      <4> QED
        BY <1>3, <3>3, <4>2 DEF RestingFileIsRight, Accepted
    <3> QED
      BY <1>3, <3>1, <3>3, <3>4, <3>5, <3>6 DEF Course, Alone, SaveOnCourse, CountedOnCourse
  <2> QED
    BY <2>1, <2>2
<1> QED
  BY <1>2, <1>3 DEF Reload

LEMMA ChooseSlotKeeps ==
    ASSUME TypeOK, Course, NEW s \in Saves, ChooseSlot(s)
    PROVE  Course'
<1>1. /\ pc[s] = "idle" /\ ~backup[s] /\ s \notin left /\ s \notin InProgress
      /\ UNCHANGED <<file, backups, clock, loaded, backup, faults>>
  BY DEF Course, ChooseSlot, disk, InProgress
<1>2. /\ \A r \in Saves : pc'[r] = IF r = s THEN IF file = Absent THEN "write" ELSE "copy" ELSE pc[r]
      /\ \A r \in Saves : before'[r] = IF r = s THEN file ELSE before[r]
      /\ \A r \in Saves : r # s => slot'[r] = slot[r]
  BY DEF ChooseSlot, Go, TypeOK
<1>3. InProgress' = InProgress \cup {s}
  BY <1>2 DEF InProgress, Ended
<1>4. TimesGrow'
  BY <1>1 DEF TimesGrow, Course, Filled
<1>5. RestingFileIsRight'
  BY <1>3 DEF RestingFileIsRight
<1>6. \A r \in Saves : pc'[r] = "idle" => ~backup'[r]
  BY <1>1, <1>2 DEF Course
<1>7. ASSUME NEW r \in InProgress'
      PROVE  /\ IF pc'[r] \in {"copy", "copying"} THEN before'[r] # Absent /\ ~backup'[r]
                ELSE backup'[r] <=> before'[r] # Absent
             /\ pc'[r] = "restoring" => backup'[r] /\ backups'[slot'[r]] # Absent
  <2>1. CASE r = s
    BY <1>1, <1>2, <2>1
  <2>2. CASE r # s
    <3>1. r \in InProgress /\ r \in Saves
      BY <1>3, <2>2 DEF InProgress
    <3> QED
      BY <1>1, <1>2, <2>2, <3>1 DEF Course, SaveOnCourse
  <2> QED
    BY <2>1, <2>2
<1>8. CASE InProgress = {}
  <2>1. InProgress' = {s} /\ UNCHANGED <<left, adrift, torn>> /\ Counted' = {s}
    BY <1>1, <1>3, <1>8 DEF ChooseSlot, history, Counted
  <2>2. Alone' /\ \A r \in Saves : pc'[r] = "idle" => r \notin left'
    BY <1>1, <1>2, <2>1 DEF Alone, Course
  <2>3. BackupsAreOlder'
    <3>1. Making = {} /\ Filled' = Filled
      BY <1>1, <1>8 DEF Making, Filled, InProgress, Ended
    <3> QED
      BY <1>1, <2>1, <3>1 DEF Course, BackupsAreOlder
  <2>4. SaveOnCourse'
    BY <1>1, <1>2, <1>7, <2>1 DEF SaveOnCourse
  <2>5. CountedOnCourse'
    <3>1. file # Absent /\ ~adrift => file.text \in Valid \cup {Original} /\ loaded = file.text
      BY <1>8 DEF Course, RestingFileIsRight, Accepted
    <3> QED
      BY <1>1, <1>2, <2>1, <3>1 DEF CountedOnCourse
  <2> QED
    BY <1>4, <1>5, <1>6, <2>2, <2>3, <2>4, <2>5 DEF Course
<1>9. CASE InProgress # {}
  <2>1. left' = left \cup InProgress \cup {s} /\ adrift' /\ torn'
    BY <1>9 DEF ChooseSlot, Leave
  <2>2. Alone'
    BY <1>3, <2>1 DEF Alone
  <2>3. \A r \in Saves : pc'[r] = "idle" => r \notin left'
    BY <1>2, <2>1 DEF Course, InProgress
  <2>4. BackupsAreOlder' /\ CountedOnCourse'
    BY <1>3, <2>1 DEF BackupsAreOlder, CountedOnCourse, Counted
  <2>5. SaveOnCourse'
    BY <1>7, <2>1 DEF SaveOnCourse
  <2> QED
    BY <1>4, <1>5, <1>6, <2>2, <2>3, <2>4, <2>5 DEF Course
<1> QED
  BY <1>8, <1>9

\* A save in progress goes on with something that is not the end of it.
LEMMA StepKeepsRest ==
    ASSUME TypeOK, Course, NEW s \in InProgress, NEW step \in Steps \ ({"idle"} \cup Ended), Go(s, step),
           UNCHANGED history, s \in left /\ ~torn => step \in {"restore", "restoring"}
    PROVE  /\ s \in Saves /\ pc'[s] = step /\ \A r \in Saves : r # s => pc'[r] = pc[r]
           /\ Alone' /\ \A r \in Saves : pc'[r] = "idle" => r \notin left'
           /\ RestingFileIsRight' /\ UNCHANGED <<left, adrift, torn>>
           /\ InProgress' = InProgress /\ \A r \in Saves : pc'[r] = "idle" => pc[r] = "idle"
           /\ \A r \in Counted' : r = s /\ s \in Counted
           /\ ~torn => \A r \in InProgress' : r = s
<1>1. UNCHANGED <<left, adrift, torn>>
  BY DEF history
<1>2. /\ s \in Saves /\ pc'[s] = step /\ \A r \in Saves : r # s => pc'[r] = pc[r]
      /\ InProgress' = InProgress /\ \A r \in Saves : pc'[r] = "idle" => pc[r] = "idle"
  BY GoesOn DEF Steps
<1>3. Alone' /\ \A r \in Saves : pc'[r] = "idle" => r \notin left'
  BY <1>1, AloneStays DEF Steps
<1>4. RestingFileIsRight'
  BY <1>2 DEF RestingFileIsRight
<1>5. ~torn => \A r \in InProgress' : r = s
  BY <1>2 DEF Course, Alone
<1>6. \A r \in Counted' : r = s /\ s \in Counted
  BY <1>1, <1>2 DEF Counted, Course, Alone
<1> QED
  BY <1>1, <1>2, <1>3, <1>4, <1>5, <1>6

\* What SaveOnCourse says of one save, whatever the backups are now.
HoldsItsBackup(r) ==
    /\ IF pc[r] \in {"copy", "copying"} THEN before[r] # Absent /\ ~backup[r]
       ELSE backup[r] <=> before[r] # Absent
    /\ pc[r] = "restoring" => backup[r] /\ backups[slot[r]] # Absent

LEMMA StartCopyKeeps ==
    ASSUME TypeOK, CopiesAFile, Course, NEW s \in Saves, StartCopy(s)
    PROVE  Course'
<1>1. s \in InProgress /\ UNCHANGED <<file, loaded, slot, backup, faults, before, history>>
  BY DEF StartCopy, InProgress, Ended
<1>2. s \in left => torn
  BY <1>1 DEF StartCopy, Course, Alone
<1>3. /\ pc'[s] = "copying" /\ \A r \in Saves : r # s => pc'[r] = pc[r]
      /\ Alone' /\ \A r \in Saves : pc'[r] = "idle" => r \notin left'
      /\ RestingFileIsRight' /\ UNCHANGED <<left, adrift, torn>>
      /\ InProgress' = InProgress /\ \A r \in Saves : pc'[r] = "idle" => pc[r] = "idle"
      /\ \A r \in Counted' : r = s /\ s \in Counted
      /\ ~torn => \A r \in InProgress' : r = s
  BY <1>1, <1>2, StepKeepsRest DEF StartCopy, Steps, Ended
<1>4. PICK part \in Cut(file.text) : backups' = [backups EXCEPT ![slot[s]] = part]
  BY DEF StartCopy
<1>5. part # Absent /\ part.mtime = clock /\ clock \in Nat /\ clock' = clock + 1 /\ slot[s] \in Slots
  BY <1>4, Timed, CutIsVersion DEF StartCopy, CopiesAFile, TypeOK
<1>6. /\ \A i \in Slots : backups'[i] = IF i = slot[s] THEN part ELSE backups[i]
      /\ Filled' = Filled \cup {slot[s]}
  BY <1>4, <1>5 DEF TypeOK, Filled
<1>7. TimesGrow'
  BY <1>1, <1>5, <1>6, Timed DEF Course, TimesGrow
<1>8. BackupsAreOlder'
  <2> SUFFICES ASSUME ~torn, NEW i \in Filled' \ Making' PROVE file # Absent /\ OlderOrSame(backups'[i], file)
    BY <1>1, <1>3 DEF BackupsAreOlder
  <2>1. Making = {} /\ slot[s] \in Making'
    BY <1>1, <1>3 DEF Making, InProgress, Ended, StartCopy
  <2>2. i \in Filled /\ backups'[i] = backups[i]
    BY <1>6, <2>1, Timed
  <2> QED
    BY <2>1, <2>2 DEF Course, BackupsAreOlder
<1>9. \A r \in InProgress' : HoldsItsBackup(r)'
  BY <1>1, <1>3, <1>5, <1>6 DEF HoldsItsBackup, Course, SaveOnCourse, InProgress, TypeOK, StartCopy
<1>10. SaveOnCourse'
  BY <1>3, <1>9 DEF SaveOnCourse, HoldsItsBackup
<1>11. CountedOnCourse'
  BY <1>1, <1>3 DEF CountedOnCourse, Course, StartCopy
<1>12. \A r \in Saves : pc'[r] = "idle" => ~backup'[r]
  BY <1>1, <1>3 DEF Course
<1> QED
  BY <1>3, <1>7, <1>8, <1>10, <1>11, <1>12 DEF Course

LEMMA CopyKeeps ==
    ASSUME TypeOK, CopiesAFile, Course, NEW s \in Saves, Copy(s)
    PROVE  Course'
<1>1. s \in InProgress /\ UNCHANGED <<file, loaded, slot, clock, faults, before, history>> /\ file # Absent
  BY DEF Copy, InProgress, Ended, CopiesAFile
<1>2. s \in left => torn
  BY <1>1 DEF Copy, Course, Alone
<1>3. /\ pc'[s] = "write" /\ \A r \in Saves : r # s => pc'[r] = pc[r]
      /\ Alone' /\ \A r \in Saves : pc'[r] = "idle" => r \notin left'
      /\ RestingFileIsRight' /\ UNCHANGED <<left, adrift, torn>>
      /\ InProgress' = InProgress /\ \A r \in Saves : pc'[r] = "idle" => pc[r] = "idle"
      /\ \A r \in Counted' : r = s /\ s \in Counted
      /\ ~torn => \A r \in InProgress' : r = s
  BY <1>1, <1>2, StepKeepsRest DEF Copy, Steps, Ended
<1>4. /\ slot[s] \in Slots
      /\ \A i \in Slots : backups'[i] = IF i = slot[s] THEN file ELSE backups[i]
      /\ \A r \in Saves : backup'[r] = IF r = s THEN TRUE ELSE backup[r]
  BY DEF Copy, TypeOK
<1>5. Filled' = Filled \cup {slot[s]}
  BY <1>1, <1>4 DEF Filled
<1>6. TimesGrow'
  BY <1>1, <1>4, <1>5, Timed DEF Course, TimesGrow
<1>7. ~torn => \A i \in Filled' : OlderOrSame(backups'[i], file)
  <2> SUFFICES ASSUME ~torn, NEW i \in Filled', i # slot[s] PROVE OlderOrSame(backups[i], file)
    BY <1>4, <1>5, Timed DEF OlderOrSame
  <2>1. Making = {slot[s]}
    BY <1>1, <1>3 DEF Making, InProgress, Ended, Copy
  <2> QED
    BY <1>5, <2>1 DEF Course, BackupsAreOlder
<1>8. BackupsAreOlder'
  BY <1>1, <1>3, <1>7 DEF BackupsAreOlder, OlderOrSame
<1>9. \A r \in InProgress' : HoldsItsBackup(r)'
  BY <1>1, <1>3, <1>4 DEF HoldsItsBackup, Course, SaveOnCourse, InProgress, TypeOK, Copy
<1>10. s \notin left \/ ~torn => before[s] = file
  BY <1>1, <1>2 DEF Course, CountedOnCourse, Counted, Copy
<1>11. ~torn => BackupIsLatest(s)'
  <2> SUFFICES ASSUME ~torn PROVE BackupIsLatest(s)'
    OBVIOUS
  <2>1. slot[s] \in Filled' /\ backups'[slot[s]] = before'[s]
    BY <1>1, <1>4, <1>5, <1>10
  <2>2. \A i \in Filled' : OlderOrSame(backups'[i], before'[s])
    BY <1>1, <1>7, <1>10 DEF OlderOrSame
  <2> QED
    BY <2>1, <2>2 DEF BackupIsLatest
<1>12. SaveOnCourse'
  BY <1>3, <1>9, <1>11 DEF SaveOnCourse, HoldsItsBackup
<1>13. CountedOnCourse'
  BY <1>1, <1>3, <1>10 DEF CountedOnCourse, Course, Counted, Copy
<1>14. \A r \in Saves : pc'[r] = "idle" => ~backup'[r]
  BY <1>1, <1>3, <1>4 DEF Course
<1> QED
  BY <1>3, <1>6, <1>8, <1>12, <1>13, <1>14 DEF Course

LEMMA WritesKeep ==
    ASSUME TypeOK, Course, NEW s \in Saves, StartWrite(s) \/ Write(s)
    PROVE  Course'
<1>1. /\ s \in InProgress /\ pc[s] \in {"write", "writing"}
      /\ UNCHANGED <<backups, loaded, slot, backup, faults, before, history>>
      /\ file' # Absent /\ file'.mtime = clock /\ clock' = clock + 1 /\ clock \in Nat
  <2>1. [text |-> s, mtime |-> clock] \in Cut(s) /\ s \in Texts
    BY DEF Cut, Texts
  <2>2. file' \in Cut(s)
    BY <2>1 DEF StartWrite, Write
  <2> QED
    BY <2>1, <2>2, Timed, CutIsVersion DEF StartWrite, Write, InProgress, Ended
<1>2. PICK step \in {"writing", "validate"} : Go(s, step)
  BY DEF StartWrite, Write
<1>3. step = "validate" => file'.text = s
  <2>1. CASE Write(s)
    BY <2>1 DEF Write
  <2>2. CASE StartWrite(s)
    BY <1>2, <2>2 DEF StartWrite, Go, TypeOK
  <2> QED
    BY <2>1, <2>2
<1>4. s \in left => torn
  BY <1>1 DEF Course, Alone
<1>5. /\ pc'[s] = step /\ \A r \in Saves : r # s => pc'[r] = pc[r]
      /\ Alone' /\ \A r \in Saves : pc'[r] = "idle" => r \notin left'
      /\ RestingFileIsRight' /\ UNCHANGED <<left, adrift, torn>>
      /\ InProgress' = InProgress /\ \A r \in Saves : pc'[r] = "idle" => pc[r] = "idle"
      /\ \A r \in Counted' : r = s /\ s \in Counted
      /\ ~torn => \A r \in InProgress' : r = s
  BY <1>1, <1>2, <1>4, StepKeepsRest DEF Steps, Ended
<1>6. Filled' = Filled /\ \A i \in Filled : backups[i].mtime < clock /\ backups[i].mtime \in Nat
  BY <1>1, Timed DEF Course, TimesGrow, Filled
<1>7. TimesGrow'
  BY <1>1, <1>6 DEF TimesGrow
<1>8. BackupsAreOlder'
  BY <1>1, <1>6 DEF BackupsAreOlder, OlderOrSame
<1>9. SaveOnCourse'
  <2>1. \A r \in Saves : BackupIsLatest(r) => BackupIsLatest(r)'
    BY <1>1, <1>6 DEF BackupIsLatest
  <2>2. \A r \in InProgress' : HoldsItsBackup(r)'
    BY <1>1, <1>5 DEF HoldsItsBackup, Course, SaveOnCourse, InProgress
  <2>3. ~torn /\ before[s] # Absent => BackupIsLatest(s)'
    BY <1>1, <2>1 DEF Course, SaveOnCourse
  <2> QED
    BY <1>1, <1>5, <2>2, <2>3 DEF SaveOnCourse, HoldsItsBackup
<1>10. CountedOnCourse'
  BY <1>1, <1>3, <1>5, <1>6 DEF CountedOnCourse, Course
<1>11. \A r \in Saves : pc'[r] = "idle" => ~backup'[r]
  BY <1>1, <1>5 DEF Course
<1> QED
  BY <1>5, <1>7, <1>8, <1>9, <1>10, <1>11 DEF Course

LEMMA StartRestoreKeeps ==
    ASSUME TypeOK, Course, NEW s \in Saves, StartRestore(s)
    PROVE  Course'
<1>1. /\ s \in InProgress /\ UNCHANGED <<backups, loaded, backup, faults, before, history>>
      /\ backup[s] /\ before[s] # Absent /\ (~torn => BackupIsLatest(s)) /\ clock' = clock + 1 /\ clock \in Nat
  BY Timed DEF StartRestore, InProgress, Ended, Course, SaveOnCourse
<1>2. PICK i \in Newest : slot' = [slot EXCEPT ![s] = i] /\ file' \in Cut(backups[i].text)
  BY DEF StartRestore
<1>3. /\ i \in Filled /\ backups[i] # Absent /\ file' # Absent /\ file'.mtime = clock
      /\ ~torn => backups[i] = before[s]
  BY <1>1, <1>2, Timed, CutIsVersion, NewestIsBefore DEF Newest, Filled
<1>4. /\ pc'[s] = "restoring" /\ \A r \in Saves : r # s => pc'[r] = pc[r]
      /\ Alone' /\ \A r \in Saves : pc'[r] = "idle" => r \notin left'
      /\ RestingFileIsRight' /\ UNCHANGED <<left, adrift, torn>>
      /\ InProgress' = InProgress /\ \A r \in Saves : pc'[r] = "idle" => pc[r] = "idle"
      /\ \A r \in Counted' : r = s /\ s \in Counted
      /\ ~torn => \A r \in InProgress' : r = s
  BY <1>1, StepKeepsRest DEF StartRestore, Steps, Ended
<1>5. Filled' = Filled /\ \A k \in Filled : backups[k].mtime < clock /\ backups[k].mtime \in Nat
  BY <1>1, Timed DEF Course, TimesGrow, Filled
<1>6. \A r \in Saves : slot'[r] = IF r = s THEN i ELSE slot[r]
  BY <1>2 DEF TypeOK
<1>7. TimesGrow'
  BY <1>1, <1>3, <1>5 DEF TimesGrow
<1>8. BackupsAreOlder'
  BY <1>1, <1>3, <1>5 DEF BackupsAreOlder, OlderOrSame
<1>9. SaveOnCourse'
  <2>1. \A r \in InProgress' : HoldsItsBackup(r)'
    BY <1>1, <1>3, <1>4, <1>6 DEF HoldsItsBackup, Course, SaveOnCourse, InProgress
  <2>2. ~torn => BackupIsLatest(s)' /\ backups'[slot'[s]] = before'[s]
    BY <1>1, <1>3, <1>5, <1>6 DEF BackupIsLatest
  <2> QED
    BY <1>1, <1>4, <2>1, <2>2 DEF SaveOnCourse, HoldsItsBackup
<1>10. CountedOnCourse'
  BY <1>1, <1>4 DEF CountedOnCourse, Course
<1>11. \A r \in Saves : pc'[r] = "idle" => ~backup'[r]
  BY <1>1, <1>4 DEF Course
<1> QED
  BY <1>4, <1>7, <1>8, <1>9, <1>10, <1>11 DEF Course

\* A restore that can trust the backups brings back what was there before.
LEMMA RestoreKeeps ==
    ASSUME TypeOK, CopiesAFile, Course, NEW s \in Saves, Restore(s)
    PROVE  Course' /\ (~torn => file' = before[s])
<1>1. /\ s \in InProgress /\ UNCHANGED <<backups, clock, loaded, slot, backup, faults, before, torn>>
      /\ Go(s, "refused") /\ file' = backups[slot[s]] /\ slot[s] \in Slots /\ file' # Absent
      /\ backup[s] /\ before[s] # Absent /\ (~torn => BackupIsLatest(s) /\ file' = before[s])
      /\ pc[s] = "restoring"
  BY DEF Restore, InProgress, Ended, Course, SaveOnCourse, TypeOK, CopiesAFile, history
<1>2. IF torn THEN left' = left \cup {s} /\ adrift' ELSE UNCHANGED <<left, adrift>>
  BY DEF Restore, Leave, history
<1>3. /\ pc'[s] = "refused" /\ \A r \in Saves : r # s => pc'[r] = pc[r]
      /\ InProgress' = InProgress \ {s} /\ \A r \in Saves : pc'[r] = "idle" => pc[r] = "idle"
  BY <1>1, GoesOn DEF Steps, Ended
<1>4. Alone' /\ \A r \in Saves : pc'[r] = "idle" => r \notin left'
  BY <1>1, <1>2, AloneStays DEF Steps, Ended
<1>5. Filled' = Filled /\ slot[s] \in Filled
  BY <1>1 DEF Filled
<1>6. TimesGrow'
  BY <1>1, <1>5 DEF Course, TimesGrow
<1>7. BackupsAreOlder'
  BY <1>1, <1>5 DEF BackupsAreOlder, BackupIsLatest, OlderOrSame
<1>8. Counted' = {}
  BY <1>1, <1>2, <1>3 DEF Counted, Course, Alone
<1>9. CountedOnCourse'
  BY <1>8 DEF CountedOnCourse
<1>10. SaveOnCourse'
  <2>1. \A r \in InProgress' : HoldsItsBackup(r)'
    BY <1>1, <1>3 DEF HoldsItsBackup, Course, SaveOnCourse, InProgress
  <2>2. ~torn => InProgress' = {}
    BY <1>1, <1>3 DEF Course, Alone
  <2> QED
    BY <1>1, <2>1, <2>2 DEF SaveOnCourse, HoldsItsBackup
<1>11. RestingFileIsRight'
  <2> SUFFICES ASSUME ~adrift' PROVE Accepted' /\ file'.text = loaded'
    BY DEF RestingFileIsRight
  <2>1. ~torn /\ ~adrift
    BY <1>2
  <2>2. s \in Counted
    BY <1>1, <2>1 DEF Course, Alone, Counted
  <2> QED
    BY <1>1, <2>1, <2>2 DEF Course, CountedOnCourse, Accepted
<1>12. \A r \in Saves : pc'[r] = "idle" => ~backup'[r]
  BY <1>1, <1>3 DEF Course
<1> QED
  BY <1>1, <1>4, <1>6, <1>7, <1>9, <1>10, <1>11, <1>12 DEF Course

LEMMA CrashKeeps ==
    ASSUME TypeOK, Course, Crash
    PROVE  Course'
<1>1. \A r \in Saves : pc'[r] = IF r \in InProgress THEN "lost" ELSE pc[r]
  BY DEF Crash
<1>2. InProgress' = {} /\ UNCHANGED <<file, backups, clock, slot, backup, before>>
  BY <1>1 DEF InProgress, Ended, Crash, disk
<1>3. \A r \in Saves : pc'[r] = "idle" => pc[r] = "idle" /\ ~backup'[r] /\ r \notin left'
  BY <1>1 DEF Crash, Course, InProgress
<1>4. TimesGrow'
  BY <1>2 DEF Course, TimesGrow, Filled
<1>5. BackupsAreOlder'
  <2> SUFFICES ASSUME ~torn' PROVE \A i \in Filled' \ Making' : file' # Absent /\ OlderOrSame(backups'[i], file')
    BY DEF BackupsAreOlder
  <2>1. ~torn /\ \A r \in Saves : pc[r] # "copying"
    BY DEF Crash, TypeOK
  <2>2. Making = {} /\ Filled' = Filled
    BY <1>2, <2>1 DEF Making, Filled
  <2> QED
    BY <1>2, <2>1, <2>2 DEF Course, BackupsAreOlder
<1>6. RestingFileIsRight'
  <2> SUFFICES ASSUME file # Absent, ~adrift' PROVE Accepted /\ file.text = loaded'
    BY <1>2 DEF RestingFileIsRight, Accepted
  <2>1. ~adrift /\ Touching = {}
    BY DEF Crash, TypeOK
  <2>2. PICK s \in InProgress : TRUE
    BY DEF Crash
  <2>3. s \in Counted /\ s \in Saves /\ pc[s] \in {"copy", "copying", "write"}
    BY <2>1, <2>2 DEF Course, Alone, Counted, Touching, InProgress
  <2>4. loaded' = loaded
    BY <2>1 DEF Crash, Touching, InProgress, Ended
  <2> QED
    BY <2>1, <2>3, <2>4 DEF Course, CountedOnCourse, Accepted
<1> QED
  BY <1>2, <1>3, <1>4, <1>5, <1>6 DEF Course, Alone, SaveOnCourse, CountedOnCourse, Counted

LEMMA NextKeeps ==
    ASSUME TypeOK, CopiesAFile, Course, [Next]_vars
    PROVE  Course'
<1>1. CASE UNCHANGED vars
  <2>1. /\ UNCHANGED <<file, backups, loaded, pc, slot, backup, clock, before, left, adrift, torn>>
        /\ Filled' = Filled /\ InProgress' = InProgress /\ Counted' = Counted /\ Making' = Making
    BY <1>1 DEF vars, Filled, InProgress, Counted, Making
  <2>2. \A s \in Saves : BackupIsLatest(s)' = BackupIsLatest(s)
    BY <2>1 DEF BackupIsLatest
  <2>3. Alone' /\ TimesGrow' /\ BackupsAreOlder' /\ CountedOnCourse' /\ RestingFileIsRight'
    BY <2>1 DEF Course, Alone, TimesGrow, BackupsAreOlder, CountedOnCourse, RestingFileIsRight, Accepted
  <2>4. SaveOnCourse'
    BY <2>1, <2>2 DEF Course, SaveOnCourse, InProgress
  <2> QED
    BY <2>1, <2>3, <2>4 DEF Course
<1>2. ASSUME NEW s \in Saves, Save(s) \/ Fails(s) PROVE Course'
  BY <1>2, ChooseSlotKeeps, StartCopyKeeps, CopyKeeps, WritesKeep, ReloadKeeps, LeftKeep,
     StartRestoreKeeps, RestoreKeeps, CopyFailsKeeps, TriesKeep DEF Save, Fails
<1> QED
  BY <1>1, <1>2, CrashKeeps DEF Next

\* IInv holds in every reachable state, however many saves overlap.
THEOREM Invariance == Spec => []IInv
<1>1. Init => TypeOK /\ CopiesAFile /\ Course
  BY InitTypes, InitCourse
<1>2. TypeOK /\ CopiesAFile /\ Course /\ [Next]_vars => (TypeOK /\ CopiesAFile /\ Course)'
  BY StepTypes, NextKeeps
<1>3. TypeOK /\ Course => IInv
  BY DEF IInv, Course
<1> QED
  BY <1>1, <1>2, <1>3, PTL DEF Spec

\* Between saves the file is valid and what the service runs with, whatever was
\* refused, failed or died before, but for what adrift stands for.
THEOREM RestingRight == Spec => []RestingFileIsRight
<1>1. IInv => RestingFileIsRight
  BY DEF IInv
<1> QED
  BY Invariance, <1>1, PTL

(***************************************************************************)
(* A save is atomic                                                        *)
(***************************************************************************)

\* What is shown while s is under way, and what when nobody is.
LEMMA ShownUnderway ==
    ASSUME NEW s
    PROVE  /\ Counted = {s} => ShownFile = before[s]
           /\ Counted' = {s} => ShownFile' = before'[s]
           /\ Counted = {} => ShownFile = file
           /\ Counted' = {} => ShownFile' = file'
  BY DEF ShownFile

\* What a save is told does not depend on what the others do.
LEMMA ToldTheSame ==
    ASSUME NEW r, pc'[r] = pc[r], r \in left' <=> r \in left
    PROVE  AnswerTo(r)' = AnswerTo(r)
<1>1. r \in InProgress' <=> r \in InProgress
  BY DEF InProgress
<1> QED
  BY <1>1 DEF AnswerTo

\* What a save in progress is told, and one that is left.
LEMMA ToldUnderway ==
    ASSUME NEW s \in Saves
    PROVE  /\ s \in InProgress => AnswerTo(s) \in {"none", "astray"}
           /\ pc[s] = "idle" => AnswerTo(s) \in {"none", "left"}
           /\ s \notin left /\ pc[s] \notin Ended => AnswerTo(s) = "none"
           /\ s \in left' => AnswerTo(s)' \in {"astray", "left"}
           /\ s \notin left' /\ pc'[s] \notin Ended => AnswerTo(s)' = "none"
           /\ s \notin left' /\ pc'[s] = "saved" => AnswerTo(s)' = "saved"
           /\ s \notin left' /\ pc'[s] \in {"refused", "raised"} => AnswerTo(s)' = "refused"
  BY DEF AnswerTo, InProgress, Ended

\* s gets its answer.
LEMMA Told ==
    ASSUME NEW s \in Saves, NEW a, AnswerTo(s) = "none", AnswerTo(s)' = a,
           \A r \in Saves : r # s => AnswerTo(r)' = AnswerTo(r)
    PROVE  Atomic!Answer(s, a)
  BY DEF Atomic!Answer

\* A step inside a save shows nothing.
LEMMA Unseen ==
    ASSUME ShownFile' = ShownFile, loaded' = loaded, \A r \in Saves : AnswerTo(r)' = AnswerTo(r)
    PROVE  UNCHANGED Atomic!avars
  BY DEF Atomic!avars

\* A step of s, which is or goes astray.
LEMMA GoesAstray ==
    ASSUME TypeOK', NEW s \in Saves,
           AnswerTo(s) \in {"none", "astray"}, AnswerTo(s)' \in {"astray", "left"},
           \A r \in Saves : \/ AnswerTo(r)' = AnswerTo(r)
                            \/ /\ AnswerTo(r) \in {"none", "astray"}
                               /\ AnswerTo(r)' \in {"astray", "left"}
    PROVE  Atomic!Stray
<1>1. \A r \in Saves : AnswerTo(r)' \in {"none", "saved", "refused", "astray", "left"}
  BY DEF AnswerTo
<1>2. ShownFile' \in Versions
  <2>1. CASE Counted' = {}
    BY <2>1, ShownUnderway DEF TypeOK
  <2>2. CASE Counted' # {}
    <3>1. (CHOOSE r \in Counted' : TRUE) \in Counted'
      BY <2>2
    <3>2. ShownFile' = before'[CHOOSE r \in Counted' : TRUE] /\ Counted' \subseteq Saves
      BY <2>2 DEF ShownFile, Counted, InProgress
    <3> QED
      BY <3>1, <3>2 DEF TypeOK
  <2> QED
    BY <2>1, <2>2
<1>3. Versions = Atomic!Of(Atomic!AllTexts) \cup {Absent} /\ loaded' \in Atomic!AllTexts \cup {Absent}
  BY DEF TypeOK, Versions, Texts, Atomic!Of, Atomic!AllTexts
<1> QED
  BY <1>1, <1>2, <1>3 DEF Atomic!Stray

\* The save under way takes a step that does not end it, and does not go astray.
LEMMA GoesOnUnseen ==
    ASSUME TypeOK, Course, NEW s \in InProgress, s \notin left,
           NEW step \in Steps \ ({"idle"} \cup Ended), Go(s, step),
           UNCHANGED <<loaded, before, left>>
    PROVE  UNCHANGED Atomic!avars
<1>1. /\ s \in Saves /\ pc'[s] = step /\ \A r \in Saves : r # s => pc'[r] = pc[r]
      /\ InProgress' = InProgress
  BY GoesOn
<1>2. Counted = {s} /\ Counted' = {s}
  BY <1>1 DEF Counted, Course, Alone
<1>3. AnswerTo(s)' = "none" /\ AnswerTo(s) = "none"
  BY <1>1, ToldUnderway DEF InProgress
<1>4. \A r \in Saves : AnswerTo(r)' = AnswerTo(r)
  BY <1>1, <1>3, ToldTheSame
<1> QED
  BY <1>2, <1>4, ShownUnderway, Unseen

\* Whatever a save that is left, or goes, does.
LEMMA LeftAnyway ==
    ASSUME TypeOK, TypeOK', Course, NEW s \in InProgress, NEW step \in Steps \ {"idle"}, Go(s, step),
           s \in left', left' = left \/ left' = left \cup {s}
    PROVE  Atomic!ANext
<1>1. s \in Saves /\ pc'[s] = step /\ \A r \in Saves : r # s => pc'[r] = pc[r]
  BY GoesOn
<1>2. \A r \in Saves : r # s => AnswerTo(r)' = AnswerTo(r)
  BY <1>1, ToldTheSame
<1>3. AnswerTo(s) \in {"none", "astray"} /\ AnswerTo(s)' \in {"astray", "left"}
  BY <1>1, ToldUnderway
<1> QED
  BY <1>1, <1>2, <1>3, GoesAstray DEF Atomic!ANext

\* The save under way ends, and does not go astray: it has shown, until then,
\* what it began with, and shows the file from then on.
LEMMA EndShows ==
    ASSUME TypeOK, Course, NEW s \in InProgress, s \notin left, NEW end \in Ended, Go(s, end),
           UNCHANGED <<before, left>>
    PROVE  /\ s \in Saves /\ pc'[s] = end /\ AnswerTo(s) = "none"
           /\ \A r \in Saves : r # s => AnswerTo(r)' = AnswerTo(r)
           /\ ShownFile = before[s] /\ ShownFile' = file'
<1>1. /\ s \in Saves /\ pc'[s] = end /\ \A r \in Saves : r # s => pc'[r] = pc[r]
      /\ InProgress' = InProgress \ {s}
  <2>1. end \in Steps \ {"idle"}
    BY DEF Steps, Ended
  <2> QED
    BY <2>1, GoesOn
<1>2. Counted = {s} /\ Counted' = {}
  BY <1>1 DEF Counted, Course, Alone
<1>3. \A r \in Saves : r # s => AnswerTo(r)' = AnswerTo(r)
  BY <1>1, ToldTheSame
<1>4. AnswerTo(s) = "none"
  BY <1>1, ToldUnderway DEF InProgress
<1> QED
  BY <1>1, <1>2, <1>3, <1>4, ShownUnderway

\* An answer that leaves the file as the save found it.
LEMMA EndRefuses ==
    ASSUME TypeOK, Course, NEW s \in InProgress, s \notin left, NEW end \in {"refused", "raised"}, Go(s, end),
           UNCHANGED <<before, left, loaded>>, file' = before[s]
    PROVE  Atomic!ANext
<1>1. /\ s \in Saves /\ pc'[s] = end /\ AnswerTo(s) = "none"
      /\ \A r \in Saves : r # s => AnswerTo(r)' = AnswerTo(r)
      /\ ShownFile = before[s] /\ ShownFile' = file'
  BY EndShows DEF Ended
<1>2. AnswerTo(s)' = "refused"
  BY <1>1, ToldUnderway
<1>3. Atomic!Answer(s, "refused")
  BY <1>1, <1>2, Told
<1> QED
  BY <1>1, <1>3 DEF Atomic!Refuse, Atomic!ANext

\* A reload puts the text of the save into the file and into force at once.
LEMMA ReloadTakes ==
    ASSUME TypeOK, TypeOK', Course, NEW s \in Saves, Reload(s)
    PROVE  Atomic!ANext \/ UNCHANGED Atomic!avars
<1>1. s \in InProgress /\ pc[s] = "reload" /\ UNCHANGED <<file, before, left>>
  BY DEF Reload, InProgress, Ended, disk, history
<1>2. CASE s \in left
  <2>1. \E step \in {"restore", "saved"} : Go(s, step)
    BY DEF Reload
  <2> QED
    BY <1>1, <1>2, <2>1, LeftAnyway DEF Steps, Ended
<1>3. CASE s \notin left /\ Go(s, "restore") /\ UNCHANGED loaded
  BY <1>1, <1>3, GoesOnUnseen DEF Steps, Ended
<1>4. CASE s \notin left /\ MayPass /\ loaded' = file.text /\ Go(s, "saved")
  <2>1. /\ pc'[s] = "saved" /\ AnswerTo(s) = "none" /\ ShownFile' = file
        /\ \A r \in Saves : r # s => AnswerTo(r)' = AnswerTo(r)
    BY <1>1, <1>4, EndShows DEF Ended
  <2>2. Atomic!Answer(s, "saved")
    BY <1>1, <1>4, <2>1, Told, ToldUnderway
  <2>3. file # Absent /\ file.text = s
    BY <1>1, <1>4 DEF Course, CountedOnCourse, Counted
  <2>4. s \in Valid /\ loaded' = s
    BY <1>4, <2>3, ConfigEditorAssumption DEF MayPass, Accepted, ConfigEditorAssumption
  <2>5. file \in Atomic!Of({s})
    BY <2>3 DEF TypeOK, Versions, Atomic!Of
  <2> QED
    BY <2>1, <2>2, <2>4, <2>5 DEF Atomic!Take, Atomic!ANext
<1> QED
  BY <1>2, <1>3, <1>4 DEF Reload

\* A save begins: unseen, if it is alone.
LEMMA ChoosesUnseen ==
    ASSUME TypeOK, TypeOK', Course, NEW s \in Saves, ChooseSlot(s)
    PROVE  Atomic!ANext \/ UNCHANGED Atomic!avars
<1>1. pc[s] = "idle" /\ s \notin InProgress /\ s \notin left /\ UNCHANGED <<file, loaded>>
  BY DEF Course, ChooseSlot, disk, InProgress
<1>2. /\ pc'[s] \in {"write", "copy"} /\ before'[s] = file
      /\ \A r \in Saves : r # s => pc'[r] = pc[r]
      /\ InProgress' = InProgress \cup {s}
  BY <1>1 DEF ChooseSlot, Go, TypeOK, InProgress, Ended
<1>3. AnswerTo(s) = "none"
  BY <1>1, ToldUnderway DEF Ended
<1>4. CASE InProgress = {}
  <2>1. Counted = {} /\ Counted' = {s} /\ left' = left
    BY <1>1, <1>2, <1>4 DEF ChooseSlot, history, Counted
  <2>2. ShownFile = file /\ ShownFile' = file
    BY <1>2, <2>1, ShownUnderway
  <2>3. AnswerTo(s)' = "none"
    BY <1>1, <1>2, <2>1, ToldUnderway DEF Ended
  <2>4. \A r \in Saves : AnswerTo(r)' = AnswerTo(r)
    BY <1>2, <1>3, <2>1, <2>3, ToldTheSame
  <2> QED
    BY <1>1, <2>2, <2>4, Unseen
<1>5. CASE InProgress # {}
  <2>1. left' = left \cup InProgress \cup {s}
    BY <1>5 DEF ChooseSlot, Leave
  <2>2. ASSUME NEW r \in Saves
        PROVE  \/ AnswerTo(r)' = AnswerTo(r)
               \/ AnswerTo(r) \in {"none", "astray"} /\ AnswerTo(r)' \in {"astray", "left"}
    <3>1. CASE r \in InProgress \cup {s}
      BY <1>3, <2>1, <3>1, ToldUnderway
    <3>2. CASE r \notin InProgress \cup {s}
      BY <1>2, <2>1, <3>2, ToldTheSame
    <3> QED
      BY <3>1, <3>2
  <2>3. AnswerTo(s)' \in {"astray", "left"}
    BY <2>1, ToldUnderway
  <2> QED
    BY <1>3, <2>2, <2>3, GoesAstray DEF Atomic!ANext
<1> QED
  BY <1>4, <1>5

\* A panel that dies leaves whatever was under way.
LEMMA CrashLeaves ==
    ASSUME TypeOK, TypeOK', Course, Crash
    PROVE  Atomic!ANext
<1>1. PICK s \in InProgress : TRUE
  BY DEF Crash
<1>2. /\ left' = left \cup InProgress /\ InProgress \subseteq Saves
      /\ \A r \in Saves : r \notin InProgress => pc'[r] = pc[r]
  BY DEF Crash, InProgress
<1>3. ASSUME NEW r \in Saves
      PROVE  \/ AnswerTo(r)' = AnswerTo(r)
             \/ AnswerTo(r) \in {"none", "astray"} /\ AnswerTo(r)' \in {"astray", "left"}
  <2>1. CASE r \in InProgress
    BY <1>2, <2>1, ToldUnderway
  <2>2. CASE r \notin InProgress
    BY <1>2, <2>2, ToldTheSame
  <2> QED
    BY <2>1, <2>2
<1>4. AnswerTo(s) \in {"none", "astray"} /\ AnswerTo(s)' \in {"astray", "left"}
  BY <1>1, <1>2, ToldUnderway
<1> QED
  BY <1>1, <1>2, <1>3, <1>4, GoesAstray DEF Atomic!ANext

LEMMA InitAtomic == Init => Atomic!AInit
<1> SUFFICES ASSUME Init PROVE Atomic!AInit
  OBVIOUS
<1>1. Counted = {} /\ ShownFile = file
  BY DEF Init, InProgress, Counted, ShownFile
<1>2. \A s \in Saves : AnswerTo(s) = "none"
  BY DEF Init, AnswerTo, Ended
<1> QED
  BY <1>1, <1>2 DEF Init, Atomic!AInit

LEMMA AtomicStep ==
    ASSUME TypeOK, TypeOK', CopiesAFile, Course, [Next]_vars
    PROVE  [Atomic!ANext]_(Atomic!avars)
<1>1. CASE Crash
  BY <1>1, CrashLeaves
<1>2. ASSUME NEW s \in Saves, ChooseSlot(s) PROVE Atomic!ANext \/ UNCHANGED Atomic!avars
  BY <1>2, ChoosesUnseen
<1>3. ASSUME NEW s \in Saves, Reload(s) PROVE Atomic!ANext \/ UNCHANGED Atomic!avars
  BY <1>3, ReloadTakes
<1>4. ASSUME NEW s \in Saves, StartCopy(s) \/ Copy(s) \/ StartWrite(s) \/ Write(s) \/ Validate(s)
                              \/ WriteFails(s) \/ StartRestore(s)
      PROVE  Atomic!ANext \/ UNCHANGED Atomic!avars
  <2>1. /\ s \in InProgress /\ UNCHANGED <<loaded, before, left>>
        /\ \E step \in {"copying", "write", "writing", "validate", "reload", "restore", "restoring"} : Go(s, step)
    BY <1>4 DEF StartCopy, Copy, StartWrite, Write, Validate, WriteFails, StartRestore,
                InProgress, Ended, history
  <2> QED
    BY <2>1, GoesOnUnseen, LeftAnyway DEF Steps, Ended
<1>5. ASSUME NEW s \in Saves, ValidateFails(s) \/ ReloadFails(s) \/ NothingToRestore(s) \/ RestoreFails(s)
      PROVE  Atomic!ANext \/ UNCHANGED Atomic!avars
  <2>1. /\ s \in InProgress /\ UNCHANGED before
        /\ \/ Go(s, "restore") /\ UNCHANGED <<loaded, left>>
           \/ /\ \E step \in {"restore", "raised", "refused"} : Go(s, step)
              /\ left' = left \cup {s}
    BY <1>5 DEF ValidateFails, ReloadFails, NothingToRestore, RestoreFails, Leave,
                InProgress, Ended, history
  <2> QED
    BY <2>1, GoesOnUnseen, LeftAnyway DEF Steps, Ended
<1>6. ASSUME NEW s \in Saves, CopyFails(s) PROVE Atomic!ANext
  <2>1. s \in InProgress /\ Go(s, "raised") /\ UNCHANGED <<file, before, left, loaded>>
    BY <1>6 DEF CopyFails, InProgress, Ended, disk
  <2>2. CASE s \in left
    BY <2>1, <2>2, LeftAnyway DEF Steps, Ended
  <2>3. CASE s \notin left
    <3>1. file' = before[s]
      BY <1>6, <2>1, <2>3 DEF Course, CountedOnCourse, Counted, CopyFails
    <3> QED
      BY <2>1, <2>3, <3>1, EndRefuses
  <2> QED
    BY <2>2, <2>3
<1>7. ASSUME NEW s \in Saves, Restore(s) PROVE Atomic!ANext
  <2>1. s \in InProgress /\ Go(s, "refused") /\ UNCHANGED <<before, loaded>>
    BY <1>7 DEF Restore, InProgress, Ended
  <2>2. CASE torn
    BY <1>7, <2>1, <2>2, LeftAnyway DEF Restore, Leave, Steps, Ended
  <2>3. CASE ~torn /\ s \in left
    BY <1>7, <2>1, <2>3, LeftAnyway DEF Restore, history, Steps, Ended
  <2>4. CASE ~torn /\ s \notin left
    BY <1>7, <2>1, <2>4, RestoreKeeps, EndRefuses DEF Restore, history
  <2> QED
    BY <2>2, <2>3, <2>4
<1>8. CASE UNCHANGED vars
  <2>1. ShownFile' = ShownFile /\ loaded' = loaded
    BY <1>8 DEF vars, ShownFile, Counted, InProgress
  <2>2. \A r \in Saves : AnswerTo(r)' = AnswerTo(r)
    BY <1>8, ToldTheSame DEF vars
  <2> QED
    BY <2>1, <2>2, Unseen
<1> QED
  BY <1>1, <1>2, <1>3, <1>4, <1>5, <1>6, <1>7, <1>8 DEF Next, Save, Fails

\* A save is atomic but for those in left: the editor implements AtomicSaves,
\* for any texts and validator, any ring of backups, any number of saves at
\* once and any number of failed calls and deaths of the panel.
THEOREM Refinement == Spec => SavesAreAtomic
<1>1. Init => TypeOK /\ CopiesAFile /\ Course /\ Atomic!AInit
  BY InitTypes, InitCourse, InitAtomic
<1>2. TypeOK /\ CopiesAFile /\ Course /\ [Next]_vars =>
        (TypeOK /\ CopiesAFile /\ Course)' /\ [Atomic!ANext]_(Atomic!avars)
  BY StepTypes, NextKeeps, AtomicStep
<1> QED
  BY <1>1, <1>2, PTL DEF Spec, SavesAreAtomic, Atomic!ASpec
===============================================================================
